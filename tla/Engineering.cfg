CONSTANTS
  MaxLog = 7
  MaxCrashes = 2
  MaxWord = 15
  Ceilings = {0, 5, 15}
  Emitters = {g1, g2, g3}
  QueueSizes = {0, 1, 2, 4}
  MaxEmits = 4
  Movers = {m1, m2}
  Sources = {o1, o2}
  Names = {n1}
  Builds = {"path", "noreplace", "plain"}
  MaxUint = 15
  Scale = 4
  MaxLosses = 1
  MaxRows = 3
  MaxDefaultEntries = 3
  MaxDefaultPlanBytes = 1000
  MaxDefaultCapabilityComparisons = 3
  ProbedRoles = {"net", "index", "apply", "parser"}
  Systems = {"linux", "freebsd", "openbsd", "other"}
  MaxGens = 3
  MaxKills = 1
  MaxOps = 3
SPECIFICATION EngSpec
INVARIANTS
  RecoveryIsTruthful RecoveryIsRepeatable
  BudgetIsExact SinkSound DeletionIsSafe
  ConfinementHolds FilesArrive PairIsSound
PROPERTIES RecoverySettles PlanIsCanonical LaunchSettles RestartHeals
CHECK_DEADLOCK FALSE
