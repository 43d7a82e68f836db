SPECIFICATION Spec
CONSTANTS
  MaxAttempts = 2
  MaxCallbacks = 2
  MaxPresses = 2
  Retry = TRUE
INVARIANT CountedIsKept
