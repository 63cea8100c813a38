SPECIFICATION CalmSpec
CONSTANTS
  Nodes = {m, n}
  NoText = NoText
  None = None
  Walkers = {m}
  MaxSessions = 2
  MaxWords = 3
  MaxWalks = 2
CHECK_DEADLOCK FALSE
INVARIANTS
  DrawnIsWhole
  ReadsInOrder
  AskedIsShown
PROPERTY TurnsEnd
