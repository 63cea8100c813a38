SPECIFICATION Spec
CONSTANTS
  UndoLimit = 2
  NoTx = NoTx
  Pages = {p1, p2}
  FirstPage = p1
  Queries = {q1}
  Texts = {t1, t2}
  FirstText = t1
  Slots = {1, 2}
CHECK_DEADLOCK FALSE
INVARIANT SpinnerHasRun
