SPECIFICATION RoundsSpec
CONSTANTS
  NoText = NoText
  MaxRounds = 2
  Outcomes <- MCOutcomes
  MaxTurns = 3
  MaxRows = 1
  MaxMoves = 1
CHECK_DEADLOCK FALSE
INVARIANT ContextOnce
