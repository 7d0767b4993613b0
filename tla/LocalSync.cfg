CONSTANTS
  c1 = c1
  c2 = c2
  Content = {c1, c2}
  Size <- TwoSizes
  PathSeq <- PathsOf
  Parent <- ParentOf
  Root = "."
  Scenarios <- EditsPowerRoots
SPECIFICATION Spec
INVARIANTS
  TruthfulRecords
  ExactReport
  OrderlyTransactions
PROPERTIES OnlyAuthorisedChanges
