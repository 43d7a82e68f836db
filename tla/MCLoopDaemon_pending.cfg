SPECIFICATION FairSpec
CONSTANTS
  d1 = d1
  d2 = d2
  t1 = t1
  t2 = t2
  NoDaemon = NoDaemon
  NoTask = NoTask
  Daemon <- TwoDaemons
  Task <- OneTask
  AgentId <- OwnIds
  Source <- InboxSource
  HumanClass <- OneTask
  Policy = "never"
  MaxCrashes = 0
PROPERTY
  PickedUpOnStart
