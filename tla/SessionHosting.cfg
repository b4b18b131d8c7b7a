SPECIFICATION Spec
CONSTANTS
  MaxPid = 3
  MaxEarly = 2
  Rigs = {"a", "b"}
INVARIANT OwnershipIsClear
PROPERTY DaemonFollowsDashboard
CHECK_DEADLOCK FALSE
