SPECIFICATION Spec
CONSTANTS
  Tasks = {t1}
  Lists <- MCLists
  Signals = {g}
  Slots = {h1, h2}
  MaxCommits = 1
  MaxEdits = 3
  MaxFaults = 1
  NoRevision = none
CHECK_DEADLOCK FALSE
PROPERTIES
  UnreviewedIsUnchanged
