SPECIFICATION HandshakeSpec
CONSTANTS
    Codes = {k1}
    Rooms = {r1}
    Peers = {p1, p2}
    Conns = {c1, c2}
    NoRoom = NoRoom
    NoCode = NoCode
    NoPeer = NoPeer
    NoConn = NoConn
    QueueCap = 2
    TtlTicks = 0
    MaxSignals = 4
    MaxPending = 1
INVARIANTS
    HandshakeCompletes
CHECK_DEADLOCK FALSE
