SPECIFICATION FairSpec
CONSTANTS
  IPC_MAX_CLIENTS = 2
  MaxConnections = 3
  Recreate = FALSE
  ShmMayFail = FALSE
  ExitOnDisconnect = FALSE
  ExitWhenIdle = TRUE
CHECK_DEADLOCK FALSE
PROPERTIES
  ConnectionIsServed
