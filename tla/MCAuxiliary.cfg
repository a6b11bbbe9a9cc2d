SPECIFICATION MCSpec
CONSTANTS
  FrameCount = 3
  MinAppTime = 1
  Margin = 1
  Periods <- TwoPeriods
  Leads <- LateAndEarly
  MaxFrames = 6
  MaxNow = 4
  Sessions <- OneSession
  Concurrent = 1
  RowCount = 2
  SessionFrames = 3
  MaxTime = 4
  MaxQueries = 2
  Ahead = FALSE
  Clients <- TwoClients
  Objects <- TwoObjects
  ImageCount = 3
  Locators <- OneLocator
  CamCount = 2
  MaxSets = 3
  WhenTimes <- TwoTimes
  VitMayFail = TRUE
  NumFrames = 2
  Period = 50
  PresentToDisplay = 12
  DisplayMargin = 3
  CompTime = 5
  CompTimeMax = 15
  AdjustMissed = 2
  AdjustNonMiss = 1
  Slop = 2
  DisplayFrames = 4
  Late <- InTimeAndLate
  SubmitMayFail = TRUE
INVARIANTS
  DisplayTimesOrdered
  PacerIsItsLoops
  LinesAreComplete
  UnusedIsEnded
  ImagesAreAccountedFor
  HistoryIsCurrent
  FramePassesInOrder
PROPERTIES
  SoonestDisplay
