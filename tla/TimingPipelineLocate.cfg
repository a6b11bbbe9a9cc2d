SPECIFICATION Spec
CONSTANTS
  Sessions = {a}
  Concurrent = 1
  RowCount = 2
  MaxFrames = 3
  MaxTime = 4
  MaxQueries = 1
  Ahead = FALSE
  a = a
INVARIANTS
  LocateIsTheAsking
