SPECIFICATION Spec
CONSTANTS
  h1 = h1
  h2 = h2
  h3 = h3
  i1 = i1
  i2 = i2
  NoItem = NoItem
  Handler = {h1, h2, h3}
  Item = {i1, i2}
  MaxSteer = 2
  MaxTotal = 3
  MaxFailures = 2
  MaxDispatch = 3
CHECK_DEADLOCK FALSE
PROPERTY RetriesAreMarked
