SPECIFICATION MCFairSpec
CONSTANTS
  Clients = {c1, c2}
  WarmStart = FALSE
INVARIANTS
  SleepsOnlyWhenIdle
  CountIsSessions
  NotFreedInTransfer
PROPERTIES
  ClearFrameBeforeEnd
  RenderThreadServes
  ColdNativeContract
