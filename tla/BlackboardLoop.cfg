SPECIFICATION FairSpec
CONSTANTS
  WriteCount = 4
  ReviewCount = 2
  MaxCrashes = 2
CHECK_DEADLOCK FALSE
INVARIANTS
  TakeTurns
  LastVerdictStands
PROPERTIES
  OnlyLateSavesTakeBack
  LoopEnds
