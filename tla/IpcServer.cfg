SPECIFICATION FairSpec
CONSTANTS
  IPC_MAX_CLIENTS = 2
  MaxConnections = 3
  Recreate = FALSE
  ShmMayFail = TRUE
  ExitOnDisconnect = FALSE
  ExitWhenIdle = TRUE
CHECK_DEADLOCK FALSE
INVARIANTS
  PrimaryIsActive
  ToldIsState
  CountIsConnections
PROPERTIES
  OneThreadPerSlot
  IdleServerStops
