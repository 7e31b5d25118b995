SPECIFICATION Spec
CONSTANTS
  none = none
  empty = empty
  a = a
  b = b
  c = c
  z = z
  None <- none
  NoText <- empty
  NGrams <- MCNGrams
  Inputs <- MCInputs
  TopKs = {1, 2}
  BatchSizes = {2}
  Thresholds <- SomeThresholds
  Label <- Rounded
  Tolerance <- MCTolerance
  Near <- MCNear
  Far <- MCFar
  ZeroPolicies = {"empty", "nearest"}
INVARIANT EveryFlagIsItsThresholds
