SPECIFICATION AppSpec
CONSTANTS
  Conns = {a, b}
  Tunnelled = {a, b}
  None = None
  MaxCalls = 2
  Requests = 3
  Reads = {2}
CHECK_DEADLOCK FALSE
INVARIANT RunsWhereShown
