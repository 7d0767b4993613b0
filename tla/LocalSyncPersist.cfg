CONSTANTS
  c1 = c1
  c2 = c2
  Content = {c1, c2}
  Size <- TwoSizes
  PathSeq <- PathsOf
  Parent <- ParentOf
  Root = "."
  Scenarios <- OnlyOneKill
SPECIFICATION Spec
INVARIANTS ConfirmedIsPersisted
