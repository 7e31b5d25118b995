SPECIFICATION Spec
CONSTANTS
  none = none
  torn = torn
  tm = tm
  a = a
  a_too = a_too
  b = b
  dots = dots
  auto = auto
  None <- none
  NoPool <- none
  Absent <- none
  Torn <- torn
  TM <- tm
  AutoThreads <- auto
  Artifacts <- SomeArtifacts
  Systems <- SomeSystems
  Orders <- SomeOrders
  Stem <- MCStem
  Metrics <- TwoMetrics
  Calls = 2
  Runs = 2
  Requests <- SomeRequests
  ThreadOptions <- SomeThreads
  DefaultThreads = 4
  LeakThresholds <- SomeThresholds
  Name <- TwoDecimals
  Bleu <- MCBleu
INVARIANTS
  ScoresAreTheGroups
  ComparedAlike
  BatchReportsAreOwn
  VerdictMeansAgreement
  NoUnmarkedFailure
  ReportedThreadsRan
