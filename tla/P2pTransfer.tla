----------------------------- MODULE P2pTransfer ----------------------------
(***************************************************************************)
(* Sending files over the data channel, apps/web/public/modules/           *)
(* p2p-client.js: sendP2pFiles cuts each file into chunks between a        *)
(* FILE_START and a FILE_END message and pauses while more than the high   *)
(* watermark is buffered; the other page assembles the chunks.             *)
(*                                                                         *)
(* A batch is one call of sendP2pFiles; nothing keeps a second call from   *)
(* starting while the first one runs.  A call suspends before every chunk  *)
(* (reading the slice) and while it waits for the buffer to drain; between *)
(* these points it sends everything in one go.  The data channel is        *)
(* reliable and ordered; it is the browser's.  What is in flight and what  *)
(* is buffered is one sequence, since the receiver does not react to the   *)
(* sender.  bufferedAmount is counted in chunks.                           *)
(***************************************************************************)
EXTENDS Integers, SequencesExt

CONSTANTS
    Batches,     \* calls of sendP2pFiles
    NoBatch,
    Files,       \* the files sent, each with its transferId
    FilesOf,     \* the files of each batch
    ChunkCount,  \* totalChunks of each file, 0 for an empty one
    High, Low    \* the watermarks, in chunks

ASSUME TransferAssumption ==
    /\ NoBatch \notin Batches /\ IsFiniteSet(Batches)
    /\ FilesOf \in [Batches -> Seq(Files)]
    /\ ChunkCount \in [Files -> Nat]
    /\ High \in Nat /\ Low \in Nat /\ Low < High

VARIABLES
    open,      \* dc.readyState = "open"
    state,     \* where each call is
    pos,       \* the next message of its script each call sends
    waiter,    \* the call whose resolve dc.onbufferedamountlow holds
    buffer,    \* messages sent and not yet received
    incoming,  \* the receiver's incomingTransfers, in insertion order
    received   \* receivedFiles, oldest first

vars == <<open, state, pos, waiter, buffer, incoming, received>>

NoChunk == [file |-> NoBatch, i |-> 0]
Piece == [file : Files, i : Nat] \cup {NoChunk}
Record == [file : Files, chunks : Seq(Piece)]
Message ==
    {m \in [kind : {"start", "chunk", "end"}, file : Files, i : Nat] : m.i <= ChunkCount[m.file]}

TypeOK ==
    /\ open \in BOOLEAN
    /\ state \in [Batches -> {"idle", "reading", "waiting", "resumed", "done", "failed"}]
    /\ pos \in [Batches -> Nat]
    /\ waiter \in Batches \cup {NoBatch}
    /\ buffer \in Seq(Message)
    /\ incoming \in Seq(Record)
    /\ received \in Seq(Record)

Init ==
    /\ open = TRUE
    /\ state = [b \in Batches |-> "idle"]
    /\ pos = [b \in Batches |-> 1]
    /\ waiter = NoBatch
    /\ buffer = <<>>
    /\ incoming = <<>>
    /\ received = <<>>

-----------------------------------------------------------------------------
(* The sender *)

Msg(kind, f, i) == [kind |-> kind, file |-> f, i |-> i]

\* Fault: the loop runs to totalChunks inclusive.
FileScriptLong(f) ==
    <<Msg("start", f, 0)>> \o [i \in 1..(ChunkCount[f] + 1) |-> Msg("chunk", f, i)]
                           \o <<Msg("end", f, 0)>>

\* Fault: the file ends before its last chunk.
FileScriptShort(f) ==
    <<Msg("start", f, 0)>> \o [i \in 1..(ChunkCount[f] \div 2) |-> Msg("chunk", f, i)]
                           \o <<Msg("end", f, 0)>>

FileScript(f) ==
    <<Msg("start", f, 0)>> \o [i \in 1..ChunkCount[f] |-> Msg("chunk", f, i)]
                           \o <<Msg("end", f, 0)>>

\* All a call sends, message by message.
Script(b) == FlattenSeq([k \in DOMAIN FilesOf[b] |-> FileScript(FilesOf[b][k])])

\* Where the call suspends next when it has sent the message at i.
NextStop(b, i) ==
    CHOOSE j \in (i + 1)..(Len(Script(b)) + 1) :
        /\ j = Len(Script(b)) + 1 \/ Script(b)[j].kind = "chunk"
        /\ \A k \in (i + 1)..(j - 1) : Script(b)[k].kind # "chunk"

Buffered(msgs) == Cardinality({k \in DOMAIN msgs : msgs[k].kind = "chunk"})

\* Send from `from' up to the message before `stop'; a closed channel throws.
Send(b, from, stop) ==
    IF open
    THEN /\ buffer' = buffer \o SubSeq(Script(b), from, stop - 1)
         /\ pos' = [pos EXCEPT ![b] = stop]
         /\ state' = [state EXCEPT ![b] = IF stop > Len(Script(b)) THEN "done" ELSE "reading"]
    ELSE /\ state' = [state EXCEPT ![b] = "failed"]
         /\ UNCHANGED <<buffer, pos>>

\* The call begins; everything up to the first chunk goes out at once.
SendFiles(b) ==
    /\ state[b] = "idle"
    /\ open
    /\ Send(b, 1, NextStop(b, 0))
    /\ UNCHANGED <<open, waiter, incoming, received>>

\* Fault: the buffer is not looked at.
FullNever == FALSE

Full == Buffered(buffer) > High

SliceRead(b) ==
    /\ state[b] = "reading"
    /\ IF Full
       THEN /\ state' = [state EXCEPT ![b] = "waiting"]
            /\ waiter' = b
            /\ UNCHANGED <<buffer, pos>>
       ELSE Send(b, pos[b], NextStop(b, pos[b])) /\ UNCHANGED waiter
    /\ UNCHANGED <<open, incoming, received>>

Resume(b) ==
    /\ state[b] = "resumed"
    /\ Send(b, pos[b], NextStop(b, pos[b]))
    /\ UNCHANGED <<open, waiter, incoming, received>>

-----------------------------------------------------------------------------
(* The receiver *)

Begun(f) == [file |-> f, chunks |-> [i \in 1..ChunkCount[f] |-> NoChunk]]

\* record.chunks[i] = data grows the array when the file has fewer chunks.
Filled(chunks, m) ==
    [i \in 1..(IF m.i > Len(chunks) THEN m.i ELSE Len(chunks)) |->
        IF i = m.i THEN [file |-> m.file, i |-> m.i]
        ELSE IF i <= Len(chunks) THEN chunks[i] ELSE NoChunk]

UnderWay(f) == {k \in DOMAIN incoming : incoming[k].file = f}
TransferOf(f) == CHOOSE k \in UnderWay(f) : TRUE

\* Fault: a FILE_END leaves its transfer in the map.
EndedKeeps(f) == incoming

Ended(f) == RemoveAt(incoming, TransferOf(f))

\* A chunk says its index and not its transfer: it goes to the first one.
Take(m) ==
    CASE m.kind = "start" ->
            incoming' = Append(incoming, Begun(m.file)) /\ UNCHANGED received
      [] m.kind = "chunk" ->
            /\ incoming' = IF incoming = <<>> THEN incoming
                           ELSE [incoming EXCEPT ![1].chunks = Filled(@, m)]
            /\ UNCHANGED received
      [] m.kind = "end" ->
            IF UnderWay(m.file) = {} THEN UNCHANGED <<incoming, received>>
            ELSE /\ incoming' = Ended(m.file)
                 /\ received' = Append(received, incoming[TransferOf(m.file)])

\* Fault: the drop is measured from the high watermark.
FallsFromHigh(rest) == Buffered(buffer) > High /\ Buffered(rest) <= Low

Falls(rest) == Buffered(buffer) > Low /\ Buffered(rest) <= Low

\* The channel hands over a message; when bufferedAmount falls to the low
\* watermark the callback, if one is set, resumes the call it belongs to.
Receive ==
    /\ open /\ buffer # <<>>
    /\ Take(Head(buffer))
    /\ buffer' = Tail(buffer)
    /\ IF Falls(Tail(buffer)) /\ waiter # NoBatch
       THEN state' = [state EXCEPT ![waiter] = "resumed"] /\ waiter' = NoBatch
       ELSE UNCHANGED <<state, waiter>>
    /\ UNCHANGED <<open, pos>>

\* The connection breaks, or one page leaves: what was under way is lost.
CloseChannel ==
    /\ open
    /\ open' = FALSE
    /\ buffer' = <<>>
    /\ UNCHANGED <<state, pos, waiter, incoming, received>>

Next ==
    \/ \E b \in Batches : SendFiles(b) \/ SliceRead(b) \/ Resume(b)
    \/ Receive
    \/ CloseChannel

Spec == Init /\ [][Next]_vars

\* The browsers go on as long as the channel is open.
FairSpec ==
    /\ Spec
    /\ \A b \in Batches : WF_vars(SliceRead(b) \/ Resume(b))
    /\ WF_vars(Receive)

-----------------------------------------------------------------------------
(* Properties *)

\* The chunks of a file, all there and in place.
Whole(f) == [i \in 1..ChunkCount[f] |-> [file |-> f, i |-> i]]

\* "integrity assembly": what is shown as received is what was sent.
ReceivedIntact ==
    \A k \in DOMAIN received : received[k].chunks = Whole(received[k].file)

\* No more than the high watermark and one chunk per call is ever buffered.
BufferIsBounded == Buffered(buffer) <= High + Cardinality(Batches)

\* Nothing received is incomplete or mixed, and the sender never runs ahead of
\* the channel (p2p-client.js:394-561).
TransferIsSound == TypeOK /\ ReceivedIntact /\ BufferIsBounded

\* A call that pauses for the buffer goes on when it has drained.
PausedCallsResume ==
    \A b \in Batches : state[b] = "waiting" ~> (state[b] # "waiting" \/ ~open)

\* A call that has begun ends, unless the channel closes.
CallsEnd == \A b \in Batches : state[b] = "reading" ~> (state[b] = "done" \/ ~open)

\* With a single call the transfer implements FileCopy: the files arrive whole, in
\* the order they were chosen.
TheCall == CHOOSE b \in Batches : TRUE
Intact(r) == r.chunks = Whole(r.file)
Copy == INSTANCE FileCopy WITH
    Sent <- FilesOf[TheCall],
    arrived <- [k \in DOMAIN received |-> IF Intact(received[k]) THEN received[k].file ELSE NoBatch]
ImplementsFileCopy == Copy!Spec
=============================================================================
