SPECIFICATION FairServerSpec
CONSTANTS
    one = one
    widget = widget
    nameless = nameless
    unnamed = unnamed
    large = large
    broken = broken
    two = two
    aPdf = aPdf
    bPdf = bPdf
    Clients = {c1}
    Groups = {"job", "poll", "default"}
    MaxRequests <- MCMaxRequests
    WindowTicks = 2
    Second = 2
    MaxTime = 3
    NoWindow = NoWindow
    Never = Never
    KeyIds = {k1}
    SignedIn = SignedIn
    Visitors = {}
    Nobody = Nobody
    NoKey = NoKey
    MaxAudit = 3
    MaxLife = 1
    Submissions = {one, widget, nameless, unnamed, large, broken}
    Malformed = {broken}
    Nameless = Nameless
    FilesOf <- MCFilesOf
    SizeLimit <- MCSizeLimit
    Blank = Blank
    Torn = Torn
    NoFile = NoFile
    Guessers = {c1}
    MaxFailedJoins = 2
    JoinWindow = 1
    NoRecord = NoRecord
    MaxAsked = 4
    Mixed = FALSE
INVARIANTS
    ServerTypeOK
    LimitsHold
    AuditTellsTheKeys
    InputsAreTheirs
PROPERTIES
    DeadKeysStayOut
    SubmissionsEnd
CHECK_DEADLOCK FALSE
