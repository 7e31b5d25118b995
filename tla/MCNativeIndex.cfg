SPECIFICATION Spec
CONSTANTS
  none = none
  None <- none
  Corpora <- SomeCorpora
  Settings <- SomeSettings
  Damages <- SomeLists
  DocIdMax = 3
  GramIdMax = 4
INVARIANTS
  LoadedIsConsistent
  StoredIndexLoads
  FirstDocumentWins
CHECK_DEADLOCK FALSE
