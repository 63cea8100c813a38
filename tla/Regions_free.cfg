SPECIFICATION Spec
CONSTANTS
    Pages = {p1, p2}
    Nodes = {a, b, c}
    Strokes = {c}
    MaxPrompt = 2
    MaxItems = 2
    MaxRegions = 2
    MaxSteps = 2
    UndoLimit = 1
    NoTx = NoTx
    None = None
SYMMETRY Renamings
CHECK_DEADLOCK FALSE
INVARIANT ExclusiveMembership
PROPERTY ImplementsLabels
