SPECIFICATION HandshakeSpec
CONSTANTS
    Codes = {k1}
    Rooms = {r1}
    Peers = {p1, p2}
    Conns = {c1, c2}
    NoRoom = NoRoom
    NoCode = NoCode
    NoPeer = NoPeer
    NoConn = NoConn
    QueueCap = 1
    TtlTicks = 0
    MaxSignals = 3
    MaxPending = 2
SYMMETRY MCSymmetry
INVARIANTS
    HandshakeIsSound
    SignalsInOrder
CHECK_DEADLOCK FALSE
