SPECIFICATION FairSpec
CONSTANTS
  d1 = d1
  d2 = d2
  t1 = t1
  t2 = t2
  NoDaemon = NoDaemon
  NoTask = NoTask
  Daemon <- TwoDaemons
  Task <- OneTask
  AgentId <- OwnIds
  Source <- BdSource
  HumanClass <- OneTask
  Policy = "on_class"
  MaxCrashes = 1
INVARIANTS
  TypeOK
  Exclusive
  UnlinkIsSafe
  GateHolds
PROPERTIES
  RefinesOwnership
  LeaseReturned
