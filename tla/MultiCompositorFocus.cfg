SPECIFICATION Spec
CONSTANTS
  MaxFrames = 2
  MaxTime = 2
  DisplayTimes = {1}
  SyncMayFail = FALSE
INVARIANTS
  FocusedIsVisible
