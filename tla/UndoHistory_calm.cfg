SPECIFICATION CalmSpec
CONSTANTS
  UndoLimit = 2
  NoTx = NoTx
  Pages = {p1, p2}
  Nodes = {n1}
  Versions = {1, 2}
  FirstPage = p1
  Gone = Gone
  NoNode = NoNode
CHECK_DEADLOCK FALSE
INVARIANTS
  HistoryBounded
  PendingIsHere
PROPERTIES
  DeletionIsUndoable
  ImplementsTimeline
