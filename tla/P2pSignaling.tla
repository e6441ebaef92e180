---------------------------- MODULE P2pSignaling ----------------------------
(***************************************************************************)
(* The signalling relay of apps/web/api/p2p-signaling.js: rooms of two     *)
(* peers, one event stream (SSE) per peer, signals relayed to the other    *)
(* peer or queued while it has no stream, and the daemon that purges idle  *)
(* rooms.                                                                  *)
(*                                                                         *)
(* A room is the object, not its code: handlers keep the object across an  *)
(* await and in the close callback of a stream, while the map `rooms'      *)
(* forgets it and may give its code to another one.  An await inside a     *)
(* handler (reading the body of signal and leave) splits it in two actions *)
(* with the request in `pending' between them.                             *)
(*                                                                         *)
(* A stream's wire is "open" while both ends have it, "lost" when the      *)
(* client is gone and the server has not heard of it (what it writes is    *)
(* lost), "ended" after the server's res.end(), "closed" after its close   *)
(* callback.  Of the events the pages receive over their streams the model *)
(* remembers the signals, numbered in the order they are relayed, and      *)
(* which pairs peers-connected announced; room-ready, peer-joined,         *)
(* peer-left and room-expired change nothing here.                         *)
(***************************************************************************)
EXTENDS Integers, SequencesExt

CONSTANTS
    Codes,       \* room codes
    Rooms,       \* room objects
    Peers,       \* peer ids
    Conns,       \* event streams
    NoRoom, NoCode, NoPeer, NoConn,
    QueueCap,    \* queued signals a room holds at most; 30 in the code
    TtlTicks,    \* ROOM_TTL_MS in runs of the daemon
    MaxSignals,  \* bound on the signals relayed
    MaxPending   \* bound on the requests waiting for their body at a time

ASSUME MarkersAssumption ==
    /\ NoRoom \notin Rooms /\ NoCode \notin Codes
    /\ NoPeer \notin Peers /\ NoConn \notin Conns
ASSUME NumbersAssumption ==
    /\ QueueCap \in Nat /\ TtlTicks \in Nat /\ MaxSignals \in Nat /\ MaxPending \in Nat

VARIABLES
    rooms,    \* the map from codes to rooms
    codeOf,   \* room.id, NoCode before the room is created
    members,  \* the keys of room.peers, in insertion order
    role,     \* peer.role, "none" before the peer has an id
    home,     \* the room whose answer gave the peer its id
    stream,   \* peer.sseRes
    owner,    \* the peer each stream was opened for
    wire,     \* the state of each stream
    queued,   \* room.queuedSignals
    pending,  \* signal and leave requests waiting for their body
    idle,     \* time since room.lastActive
    relayed,  \* signals relayed so far
    got,      \* the signals each peer's page has received
    paired    \* the pairs that peers-connected has announced to each page

vars == <<rooms, codeOf, members, role, home, stream, owner, wire, queued, pending,
          idle, relayed, got, paired>>

Wires == {"unused", "open", "lost", "ended", "closed"}
Signal == [from : Peers, n : 1..MaxSignals]
QueuedFor(peers) == [to : peers, signal : Signal]
Request == [kind : {"signal", "leave"}, room : Rooms, peer : Peers]

TypeOK ==
    /\ rooms \in [Codes -> Rooms \cup {NoRoom}]
    /\ codeOf \in [Rooms -> Codes \cup {NoCode}]
    /\ members \in [Rooms -> Seq(Peers)]
    /\ role \in [Peers -> {"none", "host", "joiner"}]
    /\ home \in [Peers -> Rooms \cup {NoRoom}]
    /\ stream \in [Peers -> Conns \cup {NoConn}]
    /\ owner \in [Conns -> Peers \cup {NoPeer}]
    /\ wire \in [Conns -> Wires]
    /\ queued \in [Rooms -> Seq([to : Peers, signal : Signal])]
    /\ \A r \in Rooms : Len(queued[r]) <= QueueCap
    /\ pending \subseteq Request
    /\ idle \in [Rooms -> 0..TtlTicks + 1]
    /\ relayed \in 0..MaxSignals
    /\ got \in [Peers -> Seq(Signal)]
    /\ paired \in [Peers -> SUBSET (Peers \X Peers)]

Init ==
    /\ rooms = [c \in Codes |-> NoRoom]
    /\ codeOf = [r \in Rooms |-> NoCode]
    /\ members = [r \in Rooms |-> <<>>]
    /\ role = [p \in Peers |-> "none"]
    /\ home = [p \in Peers |-> NoRoom]
    /\ stream = [p \in Peers |-> NoConn]
    /\ owner = [c \in Conns |-> NoPeer]
    /\ wire = [c \in Conns |-> "unused"]
    /\ queued = [r \in Rooms |-> <<>>]
    /\ pending = {}
    /\ idle = [r \in Rooms |-> 0]
    /\ relayed = 0
    /\ got = [p \in Peers |-> <<>>]
    /\ paired = [p \in Peers |-> {}]

-----------------------------------------------------------------------------
(* Rooms and streams *)

\* The elements of a sequence that belong to a set, in their order.
Only(q, keep) ==
    LET at == {i \in DOMAIN q : q[i] \in keep}
        nth == CHOOSE f \in [1..Cardinality(at) -> at] :
                  \A i, j \in DOMAIN f : i < j => f[i] < f[j]
    IN [i \in DOMAIN nth |-> q[nth[i]]]

In(r, p) == \E i \in DOMAIN members[r] : members[r][i] = p
Others(r, p) == Only(members[r], Peers \ {p})
RoomAt(p) == rooms[codeOf[home[p]]]   \* the room peer p's requests find

\* p.sseRes && !p.sseRes.writableEnded
Writable(p) == stream[p] # NoConn /\ wire[stream[p]] # "ended"

\* What sendSseEvent on p.sseRes puts into the page's hands.
Reaches(p) == stream[p] # NoConn /\ wire[stream[p]] = "open"

Touch(r) == idle' = [idle EXCEPT ![r] = 0]
Unregister(code) == rooms' = [rooms EXCEPT ![code] = NoRoom]

-----------------------------------------------------------------------------
(* POST rooms, POST rooms/:id/join *)

\* generateRoomCode draws codes until it finds a free one.  (Its fallback after
\* 50 draws is taken to be free too.)
CreateRoom(r, code, p) ==
    /\ codeOf[r] = NoCode
    /\ home[p] = NoRoom
    /\ rooms[code] = NoRoom
    /\ rooms' = [rooms EXCEPT ![code] = r]
    /\ codeOf' = [codeOf EXCEPT ![r] = code]
    /\ members' = [members EXCEPT ![r] = <<p>>]
    /\ role' = [role EXCEPT ![p] = "host"]
    /\ home' = [home EXCEPT ![p] = r]
    /\ Touch(r)
    /\ UNCHANGED <<stream, owner, wire, queued, pending, relayed, got, paired>>

\* Fault: the joiner is not counted.
FullLate(r) == Len(members[r]) > 2

Full(r) == Len(members[r]) >= 2

JoinRoom(code, p) ==
    LET r == rooms[code] IN
    /\ home[p] = NoRoom
    /\ r # NoRoom
    /\ ~Full(r)
    /\ members' = [members EXCEPT ![r] = Append(@, p)]
    /\ role' = [role EXCEPT ![p] = "joiner"]
    /\ home' = [home EXCEPT ![p] = r]
    /\ Touch(r)
    /\ UNCHANGED <<rooms, codeOf, stream, owner, wire, queued, pending, relayed, got, paired>>

-----------------------------------------------------------------------------
(* GET rooms/:id/events and the end of a stream *)

\* Fault: only the opener is told.
ToldOpener(r, p) == IF Len(members[r]) = 2 THEN {p} ELSE {}

\* peers-connected goes to every peer of a full room that has a stream, the
\* opener included.
Told(r, p) ==
    IF Len(members[r]) = 2 THEN {q \in ToSet(members[r]) : q = p \/ Reaches(q)} ELSE {}

\* Fault: signals for the other peer are handed over too.
SignalsAny(r, p) == queued[r]

SignalsFor(r, p) == Only(queued[r], QueuedFor({p}))

\* The page opens a stream when it has none (EventSource reconnects by itself).
OpenEvents(c, p) ==
    LET r == RoomAt(p) IN
    /\ wire[c] = "unused"
    /\ home[p] # NoRoom
    /\ r # NoRoom /\ In(r, p)
    /\ \A d \in Conns : owner[d] = p => wire[d] # "open"
    /\ owner' = [owner EXCEPT ![c] = p]
    /\ wire' = [wire EXCEPT ![c] = "open"]
    /\ stream' = [stream EXCEPT ![p] = c]
    /\ Touch(r)
    /\ paired' = [q \in Peers |->
          IF q \in Told(r, p) THEN paired[q] \cup {<<members[r][1], members[r][2]>>}
                             ELSE paired[q]]
    /\ got' = [got EXCEPT
          ![p] = @ \o [i \in DOMAIN SignalsFor(r, p) |-> SignalsFor(r, p)[i].signal]]
    /\ queued' = [queued EXCEPT ![r] = Only(@, QueuedFor(Peers \ {p}))]
    /\ UNCHANGED <<rooms, codeOf, members, role, home, pending, relayed>>

\* The client's end goes away: a page that closes, a network that fails.
LoseStream(c) ==
    /\ wire[c] = "open"
    /\ wire' = [wire EXCEPT ![c] = "lost"]
    /\ UNCHANGED <<rooms, codeOf, members, role, home, stream, owner, queued, pending,
                   idle, relayed, got, paired>>

\* Fault: p.sseRes keeps the closed response.
KeptStream(p) == stream

ClearedStream(p) == [stream EXCEPT ![p] = NoConn]

\* The close callback: it clears p.sseRes whatever it holds by now, and removes
\* whatever room is registered under the code when its own has no stream left.
CloseStream(c) ==
    LET p == owner[c]
        r == home[p]
    IN
    /\ wire[c] \in {"lost", "ended"}
    /\ wire' = [wire EXCEPT ![c] = "closed"]
    /\ stream' = ClearedStream(p)
    /\ Touch(r)
    /\ IF \E q \in ToSet(members[r]) \ {p} : Writable(q)
       THEN UNCHANGED rooms
       ELSE Unregister(codeOf[r])
    /\ UNCHANGED <<codeOf, members, role, home, owner, queued, pending, relayed, got,
                   paired>>

-----------------------------------------------------------------------------
(* POST rooms/:id/signal *)

\* A page that leaves closes its stream.
Closing(p) == [c \in Conns |-> IF owner[c] = p /\ wire[c] = "open" THEN "lost" ELSE wire[c]]

RequestArrives(kind, p) ==
    /\ home[p] # NoRoom
    /\ RoomAt(p) # NoRoom
    /\ Cardinality(pending) < MaxPending
    /\ pending' = pending \cup {[kind |-> kind, room |-> RoomAt(p), peer |-> p]}
    /\ wire' = IF kind = "leave" THEN Closing(p) ELSE wire
    /\ UNCHANGED <<rooms, codeOf, members, role, home, stream, owner, queued,
                   idle, relayed, got, paired>>

\* Fault: a signal for a connected peer is queued as well.
UnreachableAll(r, p) == Others(r, p)

Unreachable(r, p) == Only(Others(r, p), {q \in Peers : ~Writable(q)})

\* Fault: the cap is not looked at.
QueueAllUp(q, news) == q \o news

QueueUp(q, news) ==
    LET room == QueueCap - Len(q) IN
    q \o SubSeq(news, 1, IF room < Len(news) THEN room ELSE Len(news))

RelaySignal(req) ==
    LET r == req.room
        signal == [from |-> req.peer, n |-> relayed + 1]
        absent == Unreachable(r, req.peer)
    IN
    /\ req.kind = "signal"
    /\ req \in pending
    /\ pending' = pending \ {req}
    /\ relayed < MaxSignals
    /\ relayed' = relayed + 1
    /\ Touch(r)
    /\ got' = [q \in Peers |->
          IF q \in ToSet(Others(r, req.peer)) /\ Reaches(q) THEN Append(got[q], signal)
                                                           ELSE got[q]]
    /\ queued' = [queued EXCEPT
          ![r] = QueueUp(@, [i \in DOMAIN absent |-> [to |-> absent[i], signal |-> signal]])]
    /\ UNCHANGED <<rooms, codeOf, members, role, home, stream, owner, wire, paired>>

\* A body that is too large, cut off or not a signal changes nothing.
RejectSignal(req) ==
    /\ req.kind = "signal"
    /\ req \in pending
    /\ pending' = pending \ {req}
    /\ UNCHANGED <<rooms, codeOf, members, role, home, stream, owner, wire, queued,
                   idle, relayed, got, paired>>

-----------------------------------------------------------------------------
(* POST rooms/:id/leave: a body that cannot be read names no peer *)

Leave(req, readable) ==
    LET r == req.room
        gone == readable /\ In(r, req.peer)
        left == Others(r, req.peer)
    IN
    /\ req.kind = "leave"
    /\ req \in pending
    /\ pending' = pending \ {req}
    /\ members' = [members EXCEPT ![r] = IF gone THEN left ELSE @]
    /\ IF members'[r] = <<>> THEN Unregister(codeOf[r]) ELSE UNCHANGED rooms
    /\ UNCHANGED <<codeOf, role, home, stream, owner, wire, queued, idle, relayed, got,
                   paired>>

-----------------------------------------------------------------------------
(* The daemon, and time *)

Registered(r) == \E code \in Codes : rooms[code] = r

\* Fault: a room with a stream counts as active.
StaleUnconnected ==
    {r \in Rooms : Registered(r) /\ idle[r] > TtlTicks
                   /\ \A p \in ToSet(members[r]) : ~Writable(p)}

Stale == {r \in Rooms : Registered(r) /\ idle[r] > TtlTicks}

Purge ==
    LET expired == {p \in Peers : \E r \in Stale : In(r, p)} IN
    /\ Stale # {}
    /\ rooms' = [code \in Codes |-> IF rooms[code] \in Stale THEN NoRoom ELSE rooms[code]]
    /\ wire' = [c \in Conns |->
                  IF \E p \in expired : stream[p] = c THEN "ended" ELSE wire[c]]
    /\ UNCHANGED <<codeOf, members, role, home, stream, owner, queued, pending, idle, relayed,
                   got, paired>>

Tick ==
    /\ idle' = [r \in Rooms |-> IF Registered(r) /\ idle[r] <= TtlTicks
                                THEN idle[r] + 1 ELSE idle[r]]
    /\ UNCHANGED <<rooms, codeOf, members, role, home, stream, owner, wire, queued,
                   pending, relayed, got, paired>>

Next ==
    \/ \E r \in Rooms, code \in Codes, p \in Peers : CreateRoom(r, code, p)
    \/ \E code \in Codes, p \in Peers : JoinRoom(code, p)
    \/ \E c \in Conns, p \in Peers : OpenEvents(c, p)
    \/ \E c \in Conns : LoseStream(c) \/ CloseStream(c)
    \/ \E p \in Peers, kind \in {"signal", "leave"} : RequestArrives(kind, p)
    \/ \E req \in pending :
        RelaySignal(req) \/ RejectSignal(req) \/ \E readable \in BOOLEAN : Leave(req, readable)
    \/ Purge
    \/ Tick

Spec == Init /\ [][Next]_vars

\* Time passes and the daemon's interval fires.
FairSpec == Spec /\ WF_vars(Tick) /\ WF_vars(Purge)

-----------------------------------------------------------------------------
(* Properties *)

\* A room never holds more than two peers, all of them given their id by it and
\* at most one of them the host, who makes the offer; and no peer object keeps a
\* stream that belongs to another peer or has been closed.
RoomsAreSound ==
    /\ \A r \in Rooms :
        /\ Len(members[r]) <= 2 /\ IsInjective(members[r])
        /\ \A p \in ToSet(members[r]) : home[p] = r
        /\ \A i \in DOMAIN members[r] : role[members[r][i]] = "host" => i = 1
    /\ \A p \in Peers : stream[p] # NoConn =>
        owner[stream[p]] = p /\ wire[stream[p]] \in {"open", "lost", "ended"}

WaitingFor(p) == IF home[p] = NoRoom THEN <<>> ELSE SignalsFor(home[p], p)

\* Whatever is delivered at once, queued or delivered late, a peer gets the
\* signals of the others in the order they were relayed, none twice, none of its
\* own: an answer never overtakes the offer, nor a candidate its description.
SignalsInOrder ==
    \A p \in Peers :
        LET all == got[p] \o [i \in DOMAIN WaitingFor(p) |-> WaitingFor(p)[i].signal]
        IN /\ \A i, j \in DOMAIN all : i < j => all[i].n < all[j].n
           /\ \A i \in DOMAIN all : all[i].from # p

\* No signal waits for a peer that has a stream: what is queued has been handed
\* over when the stream was opened.
NoneWaitsConnected ==
    \A p \in Peers : home[p] # NoRoom /\ Writable(p) => WaitingFor(p) = <<>>

\* As soon as both peers of a room are connected, both have been told of each
\* other, in whatever order they joined, connected and reconnected.
BothKnow ==
    \A r \in Rooms : Len(members[r]) = 2 /\ (\A p \in ToSet(members[r]) : Reaches(p)) =>
        \A p \in ToSet(members[r]) : <<members[r][1], members[r][2]>> \in paired[p]

\* The relay's rooms, codes, members and streams fit each other although
\* handlers hold rooms across awaits and streams close late
\* (p2p-signaling.js:126-414).
RelayIsSound == TypeOK /\ RoomsAreSound

\* Two peers that are in a room with their streams open learn of each other and
\* miss no signal that waits for them (p2p-signaling.js:248-282, 345-358).
PeersMeet == NoneWaitsConnected /\ BothKnow

\* "Auto-cleanup daemon purges idle/abandoned rooms": a room that stays
\* registered is in use again and again.
IdleRoomsArePurged ==
    \A r \in Rooms : <>[]Registered(r) => []<>(Registered(r) /\ idle[r] = 0)

\* "Reconnect handled automatically by EventSource": the newest stream of a peer
\* that is still in its room is the one the room writes to.
OpenStreamsAreKnown ==
    \A c \in Conns : wire[c] = "open" /\ In(home[owner[c]], owner[c]) => stream[owner[c]] = c

\* "auto-reconnect": a peer that has not left finds its room until the daemon
\* has purged it for being idle.
RoomsOutliveReconnects ==
    [][\A r \in Rooms :
        Registered(r) /\ ~Registered(r)' => members'[r] = <<>> \/ r \in Stale]_vars
=============================================================================
