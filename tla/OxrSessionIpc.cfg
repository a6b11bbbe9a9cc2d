SPECIFICATION FairSpec
CONSTANTS
  Headless = FALSE
  Android = FALSE
  OutOfProcess = TRUE
  Events <- AllEvents
  MaxFrames = 4
INVARIANTS
  AtMostTwoInFlight
  GateOpensOnClearedId
  NoFrameForgotten
PROPERTIES
  OnlyReleaseAborts
  ImplementsFrameLoop
  WaitFrameReturns
