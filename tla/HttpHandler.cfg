SPECIFICATION Spec
CONSTANTS
  MaxContentLength = 20
  Plans <- MCPlans
  FaultyPlans <- MCFaultyPlans
  Faults <- MCFaults
  TargetPaths <- MCTargetPaths
INVARIANTS RequestsAsSent FreshUpgradeEndsTheRead
PROPERTY FragmentationIndependent
CHECK_DEADLOCK FALSE
