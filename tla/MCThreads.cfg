SPECIFICATION UnitsFairSpec
CONSTANTS
  Workers = {w1, w2}
  Users = {u1, u2}
  Groups = {u1, u2}
  GroupOf <- OwnGroup
  InitialLimit = 0
  Slots <- TwoSlots
  PushLimit = 2
  NoTask = none
  MaxSize = 2
  MaxFrames = 4
  MaxExposure = 3
  Waiters = {t1, t2}
  Producers = {p1, p2}
  Results = {"x", "y", "error"}
  Failures = {"error"}
INVARIANTS
  PairsInOrder
  OneOutcome
  NoSleeperForgotten
PROPERTIES
  WaitIsABarrier
  CallsReturn
  ImplementsLossyFifo
  PairIsConsumed
