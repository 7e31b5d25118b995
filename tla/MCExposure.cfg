SPECIFICATION Spec
CONSTANTS
  none = none
  empty = empty
  a = a
  b = b
  c = c
  z = z
  None <- none
  NoText <- empty
  NGrams <- MCNGrams
  Inputs <- MCInputs
  TopKs = {1, 2}
  BatchSizes = {1, 2, 3}
  Thresholds <- SomeThresholds
  Label <- Rounded
  Tolerance <- MCTolerance
  Near <- MCNear
  Far <- MCFar
  ZeroPolicies = {"empty", "nearest"}
INVARIANTS
  ExposuresAreMaxima
  PairWithinSides
  FlagsMeanThresholds
  ExactPairIsExactEverywhere
  TmFollowsExposure
