SPECIFICATION FairSpec
CONSTANTS
  p1 = p1
  p2 = p2
  p3 = p3
  Process = {p1, p2, p3}
  MaxCrashes = 1
  MaxLeaks = 1
  PidReuse = FALSE
INVARIANT ExclusiveUntilCrash
PROPERTIES
  OnlyTheOwnerReleases
  StaleLockIsRecovered
