SPECIFICATION FairSpec
CONSTANTS
  MaxAttempts = 2
  MaxCallbacks = 2
  MaxPresses = 2
  Retry = TRUE
CHECK_DEADLOCK FALSE
INVARIANTS
  NeverStranded
  InOrderOnce
  NothingIgnored
  NoLossWhileConnected
PROPERTIES
  DueIsDelivered
