CONSTANTS
    p1 = p1  p2 = p2  p3 = p3  word = word
    Tools <- ToolsDef
    Files = {p1, p2}
    KindOf <- KindOfDef
    MaxOps = 2
    MaxReads = 1
    MaxAsked = 2
    MaxWork = 6
SPECIFICATION FairSpec
INVARIANTS
    PageIsSound
    ResultIsItsOwn
    NothingTakenTwice
PROPERTIES
    ProgressEnds
CHECK_DEADLOCK FALSE
