SPECIFICATION Spec
CONSTANTS
  Explored = {"m2a", "m2c", "m2d", "m2f", "m2j"}
  MaxRestarts = 1
  MaxDeaths = 2
  MaxFaults = 1
  MaxLate = 1
INVARIANTS FleetIsWhole AcceptedIsLaunchable AdvertisedIsRunning BudgetHolds
PROPERTY StopReturns
