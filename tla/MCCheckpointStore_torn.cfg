SPECIFICATION StoreSpec
CONSTANTS
  Task = {k1}
  NoTask = NoTask
  Thread = {t1, t2, t3}
  MaxPuts = 3
  MaxRestarts = 1
  PartialWrite = TRUE
PROPERTY TornLineKeepsOthers
CHECK_DEADLOCK FALSE
