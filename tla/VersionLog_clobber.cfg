SPECIFICATION Spec
CONSTANTS
  Writers = {w1, w2}
  Ids = {n1, n2}
  Bodies = {x}
  FullEvery = 2
  MaxEntries = 2
  MaxVersions = 5
CHECK_DEADLOCK FALSE
PROPERTY LastLineStays
