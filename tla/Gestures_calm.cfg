SPECIFICATION CalmSpec
CONSTANTS
    Pages = {p1, p2}
    FirstPage = p1
    Nodes = {"var", "query", "stroke"}
    Strokes = {"stroke"}
    CanConnect <- MCCanConnect
    Cameras = {0, 1}
    Home = 0
    None = None
    MaxMoves = 2
    MaxEdits = 2
CHECK_DEADLOCK FALSE
INVARIANTS
  NothingDangles
  OneDragPerEntry
  HalfPlacedIsHeld
PROPERTIES
  ViewsStayApart
  CameraIsSaved
