SPECIFICATION RoundsSpec
CONSTANTS
  NoText = NoText
  MaxRounds = 2
  Outcomes <- MCOutcomes
  MaxTurns = 2
  MaxRows = 2
  MaxMoves = 2
CHECK_DEADLOCK FALSE
INVARIANTS
  CallsAnswered
  ModelKnowsTranscript
  ContextIsGiven
PROPERTY TurnEnds
