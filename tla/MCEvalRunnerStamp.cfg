SPECIFICATION Spec
CONSTANTS
  Suites <- MCSuites
  Answers <- MCAnswers
  Alias <- MCAlias
  Gating <- MCGating
  MaxRemovals = 2
INVARIANTS
  StampIsOfTheBytes
