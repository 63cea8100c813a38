SPECIFICATION PanelSpec
CONSTANTS
  Writers = {w1}
  Ids = {n1}
  Bodies = {x, y}
  FullEvery = 3
  MaxEntries = 2
  MaxVersions = 3
  Live = Live
CHECK_DEADLOCK FALSE
INVARIANT SelectionFollowsPresent
