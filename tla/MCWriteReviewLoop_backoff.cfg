SPECIFICATION Spec
CONSTANTS
  c1 = c1
  c2 = c2
  NoDraft = NoDraft
  Draft <- TwoDrafts
  RetryAfter <- Stated
  Multiplier = 2
  MinDelay = 1
  MaxDelay = 30
  JitterPercent = 20
  BaseWait = 6
  MaxAttempts = 2
  MaxIterations = 3
  Checkpointing = TRUE
  HasTimeout = FALSE
CHECK_DEADLOCK FALSE
PROPERTY ExhaustedEscalates
