---------------------------- MODULE P2pHandshake ----------------------------
(***************************************************************************)
(* The WebRTC handshake of apps/web/public/modules/p2p-client.js, on top   *)
(* of the relay of P2pSignaling.  The host's page makes an offer on        *)
(* peer-joined and on peers-connected; the joiner's page answers every     *)
(* offer; both replace their RTCPeerConnection each time, closing the one  *)
(* before.  A page handles its events in order; signals are POSTed in      *)
(* requests of their own, which may overtake each other.                   *)
(*                                                                         *)
(* The connections of a page are numbered; only the newest is not closed,  *)
(* and what is still awaited on a closed one is rejected.  The browser's   *)
(* part is modelled as far as the page relies on it: an answer is accepted *)
(* exactly when a local offer is pending, and two connections find each    *)
(* other when each has the other's description.  ICE candidates are left   *)
(* out: they belong to a description and decide nothing here.              *)
(***************************************************************************)
EXTENDS P2pSignaling

VARIABLES
    inbox,    \* events a page has received and not handled yet
    outbox,   \* signals a page has POSTed that are not relayed yet
    content,  \* what each relayed signal says
    pc,       \* number of a page's newest RTCPeerConnection, 0 without one
    sig,      \* what that connection is doing; "gone" when the page has left
    remote,   \* the other page's connection whose description it has
    failed    \* a POST was rejected

pageVars == <<inbox, outbox, content, pc, sig, remote, failed>>
hsVars == <<vars, pageVars>>

\* There are finitely many pages and streams.
ASSUME FiniteAssumption == IsFiniteSet(Peers) /\ IsFiniteSet(Conns)

\* A page makes a connection per offer it gets, or per peer that joins and stream
\* that is opened.
MaxPc == MaxSignals + Cardinality(Peers) + Cardinality(Conns)
NoSignal == [type |-> "none", pc |-> 0]
Message == [type : {"offer", "answer"}, pc : 1..MaxPc]
PageEvent == [event : {"peer-joined", "peers-connected", "peer-left", "room-expired"}, n : {0}]
             \cup [event : {"signal"}, n : 1..MaxSignals]

HandshakeTypeOK ==
    /\ TypeOK
    /\ inbox \in [Peers -> Seq(PageEvent)]
    /\ outbox \in [Peers -> SUBSET Message]
    /\ content \in [1..MaxSignals -> Message \cup {NoSignal}]
    /\ pc \in [Peers -> 0..MaxPc]
    /\ sig \in [Peers -> {"none", "offering", "local", "answering", "stable", "closed", "gone"}]
    /\ remote \in [Peers -> 0..MaxPc]
    /\ failed \in BOOLEAN

HandshakeInit ==
    /\ Init
    /\ inbox = [p \in Peers |-> <<>>]
    /\ outbox = [p \in Peers |-> {}]
    /\ content = [n \in 1..MaxSignals |-> NoSignal]
    /\ pc = [p \in Peers |-> 0]
    /\ sig = [p \in Peers |-> "none"]
    /\ remote = [p \in Peers |-> 0]
    /\ failed = FALSE

-----------------------------------------------------------------------------
(* The relay's handlers, with the events they write to the streams *)

Say(event) == <<[event |-> event, n |-> 0]>>

\* The signals the relay has just handed to p's page.
NewSignals(p) ==
    [i \in 1..(Len(got'[p]) - Len(got[p])) |->
        [event |-> "signal", n |-> got'[p][Len(got[p]) + i].n]]

Write(told, event) ==
    inbox' = [p \in Peers |-> inbox[p] \o (IF p \in told THEN Say(event) ELSE <<>>) \o NewSignals(p)]

Reached(ps) == {p \in ps : Reaches(p)}

Create(r, code, p) ==
    /\ CreateRoom(r, code, p)
    /\ UNCHANGED pageVars

Join(code, p) ==
    /\ JoinRoom(code, p)
    /\ Write(Reached(ToSet(members[rooms[code]])), "peer-joined")
    /\ UNCHANGED <<outbox, content, pc, sig, remote, failed>>

Open(c, p) ==
    /\ sig[p] # "gone"
    /\ OpenEvents(c, p)
    /\ Write(Told(home[p], p), "peers-connected")
    /\ UNCHANGED <<outbox, content, pc, sig, remote, failed>>

Lose(c) ==
    /\ LoseStream(c)
    /\ UNCHANGED pageVars

Close(c) ==
    /\ CloseStream(c)
    /\ Write(Reached(ToSet(Others(home[owner[c]], owner[c]))), "peer-left")
    /\ UNCHANGED <<outbox, content, pc, sig, remote, failed>>

Arrive(p) ==
    /\ outbox[p] # {}
    /\ RequestArrives("signal", p)
    /\ UNCHANGED pageVars

Relay(req, m) ==
    /\ m \in outbox[req.peer]
    /\ RelaySignal(req)
    /\ outbox' = [outbox EXCEPT ![req.peer] = @ \ {m}]
    /\ content' = [content EXCEPT ![relayed'] = m]
    /\ Write({}, "signal")
    /\ UNCHANGED <<pc, sig, remote, failed>>

\* The page catches the error and forgets the signal.
Fail(req, m) ==
    /\ m \in outbox[req.peer]
    /\ RejectSignal(req)
    /\ outbox' = [outbox EXCEPT ![req.peer] = @ \ {m}]
    /\ failed' = TRUE
    /\ UNCHANGED <<inbox, content, pc, sig, remote>>

\* The relay answers ROOM_NOT_FOUND, which the page does not look at.
Refused(p, m) ==
    /\ RoomAt(p) = NoRoom
    /\ outbox' = [outbox EXCEPT ![p] = @ \ {m}]
    /\ failed' = TRUE
    /\ UNCHANGED <<vars, inbox, content, pc, sig, remote>>

\* disconnectP2p and cleanupP2pConnection: the page says goodbye, closes its
\* connection and its stream, and forgets who it was.
Goodbye(p) ==
    /\ sig[p] # "gone"
    /\ \/ RequestArrives("leave", p)
       \/ /\ home[p] # NoRoom /\ RoomAt(p) = NoRoom
          /\ wire' = Closing(p)
          /\ UNCHANGED <<rooms, codeOf, members, role, home, stream, owner, queued, pending,
                         idle, relayed, got, paired>>
    /\ sig' = [sig EXCEPT ![p] = "gone"]
    /\ inbox' = [inbox EXCEPT ![p] = <<>>]
    /\ UNCHANGED <<outbox, content, pc, remote, failed>>

Left(req, readable) ==
    /\ Leave(req, readable)
    /\ Write(IF readable /\ In(req.room, req.peer)
             THEN Reached(ToSet(Others(req.room, req.peer))) ELSE {}, "peer-left")
    /\ UNCHANGED <<outbox, content, pc, sig, remote, failed>>

Expire ==
    /\ Purge
    /\ Write(Reached({p \in Peers : \E r \in Stale : In(r, p)}), "room-expired")
    /\ UNCHANGED <<outbox, content, pc, sig, remote, failed>>

HandshakeTick ==
    /\ Tick
    /\ UNCHANGED pageVars

-----------------------------------------------------------------------------
(* The pages *)

Handle(p, event) ==
    /\ inbox[p] # <<>>
    /\ Head(inbox[p]).event = event
    /\ inbox' = [inbox EXCEPT ![p] = Tail(@)]
    /\ UNCHANGED <<vars, outbox, content, failed>>

\* Fault: the offer is not set as remote description.
NewConnectionBlank(p, doing, other) ==
    /\ pc' = [pc EXCEPT ![p] = @ + 1]
    /\ sig' = [sig EXCEPT ![p] = doing]
    /\ UNCHANGED remote

\* createPeerConnection: the connection before, if any, is closed.
NewConnection(p, doing, other) ==
    /\ pc' = [pc EXCEPT ![p] = @ + 1]
    /\ sig' = [sig EXCEPT ![p] = doing]
    /\ remote' = [remote EXCEPT ![p] = other]

Keep == UNCHANGED <<pc, sig, remote>>

Offers(p) == role[p] = "host"

HandlePeer(p, event) ==
    /\ event \in {"peer-joined", "peers-connected"}
    /\ Handle(p, event)
    /\ IF Offers(p) THEN NewConnection(p, "offering", 0) ELSE Keep

\* createOffer and setLocalDescription are done, the offer is POSTed.
OfferReady(p) ==
    /\ sig[p] = "offering"
    /\ sig' = [sig EXCEPT ![p] = "local"]
    /\ outbox' = [outbox EXCEPT ![p] = @ \cup {[type |-> "offer", pc |-> pc[p]]}]
    /\ UNCHANGED <<vars, inbox, content, pc, remote, failed>>

HandleOffer(p) ==
    /\ Handle(p, "signal")
    /\ content[Head(inbox[p]).n].type = "offer"
    /\ NewConnection(p, "answering", content[Head(inbox[p]).n].pc)

\* setRemoteDescription, createAnswer and setLocalDescription are done.
AnswerReady(p) ==
    /\ sig[p] = "answering"
    /\ sig' = [sig EXCEPT ![p] = "stable"]
    /\ outbox' = [outbox EXCEPT ![p] = @ \cup {[type |-> "answer", pc |-> pc[p]]}]
    /\ UNCHANGED <<vars, inbox, content, pc, remote, failed>>

\* The answer goes to the newest connection, whichever offer it answers; the
\* browser rejects it unless that connection waits for one.
Accepts(p) == sig[p] = "local"

HandleAnswer(p) ==
    /\ Handle(p, "signal")
    /\ content[Head(inbox[p]).n].type = "answer"
    /\ IF Accepts(p)
       THEN /\ sig' = [sig EXCEPT ![p] = "stable"]
            /\ remote' = [remote EXCEPT ![p] = content[Head(inbox[p]).n].pc]
            /\ UNCHANGED pc
       ELSE Keep

HandlePeerLeft(p) ==
    /\ Handle(p, "peer-left")
    /\ sig' = [sig EXCEPT ![p] = IF pc[p] = 0 THEN @ ELSE "closed"]
    /\ UNCHANGED <<pc, remote>>

\* The page disconnects; its goodbye finds no room any more.
HandleExpired(p) ==
    /\ inbox[p] # <<>>
    /\ Head(inbox[p]).event = "room-expired"
    /\ inbox' = [inbox EXCEPT ![p] = <<>>]
    /\ sig' = [sig EXCEPT ![p] = "gone"]
    /\ UNCHANGED <<vars, outbox, content, pc, remote, failed>>

PageStep(p) ==
    \/ \E event \in {"peer-joined", "peers-connected"} : HandlePeer(p, event)
    \/ HandlePeerLeft(p)
    \/ HandleExpired(p)
    \/ OfferReady(p)
    \/ HandleOffer(p)
    \/ AnswerReady(p)
    \/ HandleAnswer(p)

HandshakeNext ==
    \/ \E r \in Rooms, code \in Codes, p \in Peers : Create(r, code, p)
    \/ \E code \in Codes, p \in Peers : Join(code, p)
    \/ \E c \in Conns, p \in Peers : Open(c, p)
    \/ \E c \in Conns : Lose(c) \/ Close(c)
    \/ \E p \in Peers :
        Arrive(p) \/ Goodbye(p) \/ PageStep(p) \/ \E m \in outbox[p] : Refused(p, m)
    \/ \E req \in pending :
        \/ \E m \in outbox[req.peer] : Relay(req, m) \/ Fail(req, m)
        \/ \E readable \in BOOLEAN : Left(req, readable)
    \/ Expire
    \/ HandshakeTick

HandshakeSpec == HandshakeInit /\ [][HandshakeNext]_hsVars

-----------------------------------------------------------------------------
(* Properties *)

\* Nothing is under way: every event handled, every POST answered.
Quiet ==
    /\ pending = {}
    /\ \A p \in Peers : /\ inbox[p] = <<>> /\ outbox[p] = {}
                        /\ sig[p] \notin {"offering", "answering"}
    /\ \A r \in Rooms : queued[r] = <<>>

\* Both peers are in the room and have been connected to it without a break, and
\* no POST failed.
Undisturbed(r) ==
    /\ Registered(r) /\ Len(members[r]) = 2
    /\ \A p \in ToSet(members[r]) : Reaches(p) /\ sig[p] \notin {"closed", "gone"}
    /\ \A c \in Conns : wire[c] \in {"unused", "open"}
    /\ ~failed

Paired(p, q) == sig[p] = "stable" /\ sig[q] = "stable" /\ remote[p] = pc[q] /\ remote[q] = pc[p]

\* If the host offered once, the handshake ends with the two connections paired,
\* however its messages were queued and delayed.
OneOfferConnects ==
    \A r \in Rooms : Quiet /\ Undisturbed(r) /\ pc[members[r][1]] = 1 =>
        Paired(members[r][1], members[r][2])

\* The pages' connections are in a state the relay's messages account for, and
\* one offer is enough (p2p-client.js:225-360).
HandshakeIsSound == HandshakeTypeOK /\ OneOfferConnects

\* "WebRTC handshake completes automatically": in a room where nothing went
\* wrong it ends with the two connections paired.
HandshakeCompletes ==
    \A r \in Rooms : Quiet /\ Undisturbed(r) => Paired(members[r][1], members[r][2])

\* "the signaling connection is terminated" once the channel is open: a pair is
\* only parted by one of its pages saying goodbye, whatever happens to the relay.
PairsOutliveSignaling ==
    [][\A p, q \in Peers : p # q /\ Paired(p, q) /\ ~Paired(p, q)' => Goodbye(p) \/ Goodbye(q)]_hsVars
=============================================================================
