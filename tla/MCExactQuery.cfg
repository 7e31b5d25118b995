SPECIFICATION FairSpec
CONSTANTS
  none = none
  noQuery = noQuery
  w1 = w1
  w2 = w2
  Documents = 6
  Docs <- MCDocs
  Grams <- MCGrams
  GramSets <- MCGramSets
  Postings <- MCPostings
  Queries <- MCQueries
  NoQuery <- noQuery
  QueryGrams <- MCQueryGrams
  ExactHit <- MCExactHits
  NoDoc <- none
  Ks <- ZeroToTwo
  Workers = {w1, w2}
  CountLimit = 2
INVARIANTS
  AnswersAreTopK
  BestScoreIsExact
  WorkspaceIsClean
PROPERTIES
  BatchReturns
