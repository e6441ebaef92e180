SPECIFICATION Spec
CONSTANTS
    long = long
    short = short
    Docs = {long}
    NoDoc = NoDoc
    PageCount <- MCPageCount
    Ids = {a1, a2}
    NoId = NoId
    MaxZoom = 2
    Cap = 2
    MaxWork = 4
    MaxRenders = 1
SYMMETRY MCSymmetry
INVARIANTS
    EditorIsSound
PROPERTIES
    NothingIsLost
    ExportIsComplete
    ImplementsTimeline
CHECK_DEADLOCK FALSE
