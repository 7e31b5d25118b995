SPECIFICATION Spec
CONSTANTS
  none = none
  torn = torn
  empty = empty
  hello = hello
  world = world
  cardinal = cardinal
  old = old
  long = long
  short = short
  r1 = r1
  r2 = r2
  rs = rs
  None <- none
  Torn <- torn
  NoText <- empty
  Size <- MCSize
  RefSize <- MCRefSize
  Measured <- MCMeasured
  Settings <- LeakSettings
  Inputs <- IndexInputs
  Commands = 2
INVARIANT
  ExactRatesDominate
