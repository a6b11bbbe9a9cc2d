SPECIFICATION Spec
CONSTANTS
  NumFrames = 2
  Period = 50
  PresentToDisplay = 12
  Margin = 3
  CompTime = 5
  CompTimeMax = 15
  AdjustMissed = 2
  AdjustNonMiss = 1
  Slop = 2
  MaxFrames = 4
  Late = {0, 40}
  SubmitMayFail = TRUE
INVARIANTS
  NoAbort
