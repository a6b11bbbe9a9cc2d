SPECIFICATION MCSpec
CONSTANTS
  MaxFrames = 3
  MaxTime = 2
  DisplayTimes = {1, 2}
  SyncMayFail = FALSE
INVARIANTS
  SlotsAreSafe
  OnlyFinishedFramesLatched
PROPERTIES
  FramesInOrder
