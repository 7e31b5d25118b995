SPECIFICATION Spec
CONSTANTS
  s1 = s1
  s2 = s2
  l1 = l1
  src = src
  tgt = tgt
  broken = broken
  noText = noText
  anyConfig = anyConfig
  nothing = nothing
  garbage = garbage
  missing = missing
  isDamaged = isDamaged
  refused = refused
  Builds <- BrokenBuilds
  NoText <- noText
  Splitting = {broken}
  Oversized = {}
  Requests <- AutoOnly
  AnyConfig <- anyConfig
  Savers = {s1}
  Loaders = {l1}
  MaxFiles = 1
  MaxDamage = 0
  Nothing <- nothing
  Garbage <- garbage
  Missing <- missing
  Damaged <- isDamaged
  Refused <- refused
INVARIANT
  SavedBundlesLoad
