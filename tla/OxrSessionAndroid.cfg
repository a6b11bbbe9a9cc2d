SPECIFICATION Spec
CONSTANTS
  Headless = FALSE
  Android = TRUE
  OutOfProcess = TRUE
  Events <- CompositorEvents
  MaxFrames = 3
INVARIANTS
  NoWakeupLost
PROPERTIES
  StateOrder
