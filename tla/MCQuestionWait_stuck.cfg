SPECIFICATION FairSpec
CONSTANTS
  Questions = {q1, q2, q3}
  Reserved = {q2}
  None = None
  MinWait = 2
  MaxWait = 3
  RecheckWait = 1
  MaxFaults = 1
CHECK_DEADLOCK FALSE
PROPERTY DecisionFollows
