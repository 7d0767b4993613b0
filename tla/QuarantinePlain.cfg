CONSTANTS
  Movers = {m1}
  Sources = {o1, o2}
  Names = {n1}
  Builds = {"plain"}
  MaxUint = 15
  Scale = 4
  MaxLosses = 1
SPECIFICATION QuarantineSpec
INVARIANT CollisionNeverReplaces
CHECK_DEADLOCK FALSE
