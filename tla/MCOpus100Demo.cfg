SPECIFICATION Spec
CONSTANTS
  none = none
  de = de
  hi = hi
  None <- none
  Pairs <- TwoPairs
  Retries = 2
  Whole = 2
  Validations = {"off", "strict", "lenient"}
  MaxRuns = 3
INVARIANTS
  TypeOK
  AuditsWholeArchives
  GivingUpLeavesNoPart
  SummaryIsBacked
PROPERTIES
  WholeArchiveStays
  DemoEnds
