SPECIFICATION CrowdSpec
CONSTANTS
  Writers = {w1, w2}
  Ids = {n1, n2}
  Bodies = {x}
  FullEvery = 2
  MaxEntries = 1
  MaxVersions = 3
SYMMETRY Symmetry
CHECK_DEADLOCK FALSE
INVARIANT VersionsKeepTheirNodes
VIEW Untimed
