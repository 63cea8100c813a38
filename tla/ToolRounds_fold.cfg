SPECIFICATION RoundsSpec
CONSTANTS
  NoText = NoText
  MaxRounds = 3
  Outcomes <- MCOutcomes
  MaxTurns = 2
  MaxRows = 2
  MaxMoves = 1
CHECK_DEADLOCK FALSE
INVARIANT FoldsAlike
