SPECIFICATION FairSpec
CONSTANTS
  MaxFrames = 2
  MaxTime = 2
  DisplayTimes = {1}
  SyncMayFail = FALSE
PROPERTIES
  BlockedIsReleased
  DestroyReturns
  CommittedMovesOn
