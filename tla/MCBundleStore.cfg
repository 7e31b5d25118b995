SPECIFICATION Spec
CONSTANTS
  s1 = s1
  s2 = s2
  l1 = l1
  src = src
  tgt = tgt
  broken = broken
  noText = noText
  anyConfig = anyConfig
  nothing = nothing
  garbage = garbage
  missing = missing
  isDamaged = isDamaged
  refused = refused
  Builds <- ThreeBuilds
  NoText <- noText
  Splitting = {broken}
  Oversized = {}
  Requests <- TwoRequests
  AnyConfig <- anyConfig
  Savers = {s1, s2}
  Loaders = {l1}
  MaxFiles = 2
  MaxDamage = 1
  Nothing <- nothing
  Garbage <- garbage
  Missing <- missing
  Damaged <- isDamaged
  Refused <- refused
INVARIANTS
  TypeOK
  PublishedIsWhole
  LeftoversAreInterrupted
  SavedBundlesLoad
  LoadIsOneBuild
PROPERTIES
  PublishedIsUntouched
  RegisterSpec
SYMMETRY SaverSymmetry
