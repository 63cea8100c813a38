SPECIFICATION Spec
CONSTANTS
  None = None
  Keys = {1, 2}
  Terms <- MCTerms
  Shapes = {"keyed", "joined"}
  MaxMoves = 2
  MaxSent = 2
CHECK_DEADLOCK FALSE
INVARIANTS
  WritesHitTheirRows
  ScreenHolds
PROPERTY WritesAreSeen
