SPECIFICATION CalmSpec
CONSTANTS
  select = select
  delete = delete
  deleteTidy = deleteTidy
  selectThenDelete = selectThenDelete
  blank = blank
  EditorTexts <- MCTexts
  Unbounded <- MCUnbounded
  Selects <- MCSelects
  Blank = blank
  Formatted <- MCFormatted
  NoText = NoText
CHECK_DEADLOCK FALSE
INVARIANTS
  OnlyConfirmedWrites
  SentAsShown
  IdleEditorIsCurrent
