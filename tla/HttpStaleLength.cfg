SPECIFICATION Spec
CONSTANTS
  MaxContentLength = 20
  Plans <- MCStalePlans
  FaultyPlans <- NoPlans
  Faults <- NoPlans
  TargetPaths <- MCTargetPaths
INVARIANT UpgradeEndsTheRead
CHECK_DEADLOCK FALSE
