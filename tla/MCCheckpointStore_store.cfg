SPECIFICATION StoreSpec
CONSTANTS
  Task = {k1, k2}
  NoTask = NoTask
  Thread = {t1, t2, t3}
  MaxPuts = 4
  MaxRestarts = 2
  PartialWrite = TRUE
SYMMETRY Sym
INVARIANT LatestIsSaved
PROPERTY NeverLosesGround
CHECK_DEADLOCK FALSE
