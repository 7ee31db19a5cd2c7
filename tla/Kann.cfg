SPECIFICATION Spec
CONSTANTS
  \* Four rows in batches of two, so that the last batch may be smaller.
  NRow = 4
  NVals = {0, 1}
  MiniSize = 2
  MaxEpoch = 6
  MaxDropStreak = 2
  ValCosts = {5, 6, 9}
  Infinity = 40
  CostMini = 3
  P = 31
  RnnGraphs <- Recurrents
  Lens = {1, 2, 3}
  Blocks = 2
  Param <- ParamOf
  Input <- InputOf
INVARIANTS
  MemorySound
  UnrolledGraph
  UnrollsTheRecurrence
  RowsUsedOnce
  BestRestored
