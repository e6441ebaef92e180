SPECIFICATION Spec
CONSTANTS
    Codes = {k1}
    Rooms = {r1}
    Peers = {p1, p2, p3}
    Conns = {c1, c2, c3}
    NoRoom = NoRoom
    NoCode = NoCode
    NoPeer = NoPeer
    NoConn = NoConn
    QueueCap = 1
    TtlTicks = 0
    MaxSignals = 1
    MaxPending = 1
SYMMETRY MCSymmetry
INVARIANTS
    RelayIsSound
    PeersMeet
CHECK_DEADLOCK FALSE
