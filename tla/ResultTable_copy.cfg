SPECIFICATION Spec
CONSTANTS
  None = None
  Keys = {1, 2, 3}
  Terms <- MCThree
  Shapes = {"keyed", "joined"}
  MaxMoves = 4
  MaxSent = 0
CHECK_DEADLOCK FALSE
INVARIANT
  CopiesPickedRows
