SPECIFICATION FastSpec
CONSTANTS
  none = none
  NoDoc <- none
  Docs <- MCDocs
  Grams <- MCGrams
  GramSets <- MCGramSets
  Postings <- MCPostings
  Queries <- MCQueries
  QueryGrams <- MCQueryGrams
  ExactHit <- MCExactHits
  Ks <- SomeKs
  Settings <- SomeSettings
INVARIANTS
  FastOnlyUnderstates
  FastIsExactWhenUnlimited
  KeepsMostHits
