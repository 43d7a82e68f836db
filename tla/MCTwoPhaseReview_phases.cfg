SPECIFICATION FairSpec
CONSTANTS
  Tasks = {t1, t2}
  Lists <- MCLists
  Signals = {g}
  Slots = {h1, h2}
  MaxCommits = 1
  MaxEdits = 2
  MaxFaults = 1
  NoRevision = none
CHECK_DEADLOCK FALSE
INVARIANTS
  PhaseIsEarned
  MemoryIsWritten
PROPERTIES
  OnlyAStaleWriteTakesBack
  SettledCompletes
