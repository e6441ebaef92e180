----------------------------- MODULE JobProofs ------------------------------
(***************************************************************************)
(* Theorems about JobQueue and about JobRunner on top of it, for every set *)
(* of jobs, tokens, keys and workers.  Every runner step is a step of the  *)
(* queue or leaves the queue alone (QueueStep), so that the queue's        *)
(* inductive invariant carries over; the runner's own invariant adds how   *)
(* runs, tokens and storage relate.                                        *)
(***************************************************************************)
EXTENDS JobRunner, TLAPS, FiniteSetTheorems, SequenceTheorems

-----------------------------------------------------------------------------
(* Lines without repetition: what the queue's array operations do to them *)

LEMMA AppendToLine ==
    ASSUME NEW S, NEW q \in Seq(S), IsInjective(q), NEW j \in S, ~InLine(q, j)
    PROVE  /\ Append(q, j) \in Seq(S)
           /\ IsInjective(Append(q, j))
           /\ \A k : InLine(Append(q, j), k) <=> InLine(q, k) \/ k = j
<1>1. /\ Append(q, j) \in Seq(S)
      /\ Len(Append(q, j)) = Len(q) + 1
      /\ \A i \in 1..Len(q) : Append(q, j)[i] = q[i]
      /\ Append(q, j)[Len(q) + 1] = j
  BY AppendProperties
<1>2. DOMAIN q = 1..Len(q) /\ DOMAIN Append(q, j) = 1..(Len(q) + 1) /\ Len(q) \in Nat
  BY <1>1, LenProperties
<1>3. IsInjective(Append(q, j))
  BY <1>1, <1>2 DEF IsInjective, InLine
<1>4. ASSUME NEW k PROVE InLine(Append(q, j), k) <=> InLine(q, k) \/ k = j
  <2>1. ASSUME InLine(Append(q, j), k) PROVE InLine(q, k) \/ k = j
    BY <1>1, <1>2, <2>1 DEF InLine
  <2>2. ASSUME InLine(q, k) PROVE InLine(Append(q, j), k)
    BY <1>1, <1>2, <2>2 DEF InLine
  <2>3. InLine(Append(q, j), j)
    BY <1>1, <1>2 DEF InLine
  <2>4. QED BY <2>1, <2>2, <2>3
<1>5. QED BY <1>1, <1>3, <1>4

LEMMA TailOfLine ==
    ASSUME NEW S, NEW q \in Seq(S), IsInjective(q), q # <<>>
    PROVE  /\ Head(q) \in S
           /\ InLine(q, Head(q))
           /\ Tail(q) \in Seq(S)
           /\ IsInjective(Tail(q))
           /\ \A k : InLine(Tail(q), k) <=> InLine(q, k) /\ k # Head(q)
<1>1. /\ Head(q) \in S
      /\ Tail(q) \in Seq(S)
      /\ Len(Tail(q)) = Len(q) - 1
      /\ \A i \in 1..Len(Tail(q)) : Tail(q)[i] = q[i + 1]
  BY HeadTailProperties
<1>2. /\ DOMAIN q = 1..Len(q)
      /\ DOMAIN Tail(q) = 1..(Len(q) - 1)
      /\ Len(q) \in Nat \ {0}
  BY <1>1, LenProperties, EmptySeq
<1>3. Head(q) = q[1]
  OBVIOUS
<1>4. InLine(q, Head(q))
  BY <1>2, <1>3 DEF InLine
<1>5. IsInjective(Tail(q))
  BY <1>1, <1>2 DEF IsInjective
<1>6. ASSUME NEW k PROVE InLine(Tail(q), k) <=> InLine(q, k) /\ k # Head(q)
  <2>1. ASSUME InLine(Tail(q), k) PROVE InLine(q, k) /\ k # Head(q)
    <3>1. PICK i \in 1..(Len(q) - 1) : Tail(q)[i] = k
      BY <1>2, <2>1 DEF InLine
    <3>2. i + 1 \in DOMAIN q /\ q[i + 1] = k /\ i + 1 # 1
      BY <1>1, <1>2, <3>1
    <3>3. QED BY <1>2, <1>3, <3>2 DEF InLine, IsInjective
  <2>2. ASSUME InLine(q, k), k # Head(q) PROVE InLine(Tail(q), k)
    <3>1. PICK i \in 1..Len(q) : q[i] = k
      BY <1>2, <2>2 DEF InLine
    <3>2. i # 1 BY <1>3, <2>2, <3>1
    <3>3. i - 1 \in 1..(Len(q) - 1) /\ Tail(q)[i - 1] = k
      BY <1>1, <1>2, <3>1, <3>2
    <3>4. QED BY <1>2, <3>3 DEF InLine
  <2>3. QED BY <2>1, <2>2
<1>7. QED BY <1>1, <1>4, <1>5, <1>6

LEMMA JoinedLine ==
    ASSUME NEW S, NEW p \in Seq(S), NEW q \in Seq(S), IsInjective(p), IsInjective(q),
           \A k : ~(InLine(p, k) /\ InLine(q, k))
    PROVE  /\ p \o q \in Seq(S)
           /\ IsInjective(p \o q)
           /\ \A k : InLine(p \o q, k) <=> InLine(p, k) \/ InLine(q, k)
<1>1. /\ p \o q \in Seq(S)
      /\ Len(p \o q) = Len(p) + Len(q)
      /\ \A i \in 1..(Len(p) + Len(q)) :
            (p \o q)[i] = IF i <= Len(p) THEN p[i] ELSE q[i - Len(p)]
  BY ConcatProperties
<1>2. /\ DOMAIN p = 1..Len(p) /\ Len(p) \in Nat
      /\ DOMAIN q = 1..Len(q) /\ Len(q) \in Nat
      /\ DOMAIN (p \o q) = 1..(Len(p) + Len(q))
  BY <1>1, LenProperties
<1>3. ASSUME NEW a \in 1..(Len(p) + Len(q)), NEW b \in 1..(Len(p) + Len(q)),
             (p \o q)[a] = (p \o q)[b]
      PROVE  a = b
  <2>1. CASE a <= Len(p) /\ b <= Len(p)
    BY <1>1, <1>2, <1>3, <2>1 DEF IsInjective
  <2>2. CASE a > Len(p) /\ b > Len(p)
    <3>1. a - Len(p) \in DOMAIN q /\ b - Len(p) \in DOMAIN q
      BY <1>2, <2>2
    <3>2. q[a - Len(p)] = q[b - Len(p)]
      BY <1>1, <1>2, <1>3, <2>2
    <3>3. a - Len(p) = b - Len(p)
      BY <3>1, <3>2 DEF IsInjective
    <3>4. QED BY <1>2, <3>3
  <2>3. CASE a <= Len(p) /\ b > Len(p)
    <3>1. a \in DOMAIN p /\ b - Len(p) \in DOMAIN q /\ p[a] = q[b - Len(p)]
      BY <1>1, <1>2, <1>3, <2>3
    <3>2. QED BY <3>1 DEF InLine
  <2>4. CASE a > Len(p) /\ b <= Len(p)
    <3>1. b \in DOMAIN p /\ a - Len(p) \in DOMAIN q /\ p[b] = q[a - Len(p)]
      BY <1>1, <1>2, <1>3, <2>4
    <3>2. QED BY <3>1 DEF InLine
  <2>5. QED BY <1>2, <2>1, <2>2, <2>3, <2>4
<1>4. IsInjective(p \o q)
  BY <1>2, <1>3 DEF IsInjective
<1>5. ASSUME NEW k PROVE InLine(p \o q, k) <=> InLine(p, k) \/ InLine(q, k)
  <2>1. ASSUME InLine(p \o q, k) PROVE InLine(p, k) \/ InLine(q, k)
    <3>1. PICK i \in 1..(Len(p) + Len(q)) : (p \o q)[i] = k
      BY <1>2, <2>1 DEF InLine
    <3>2. CASE i <= Len(p)
      BY <1>1, <1>2, <3>1, <3>2 DEF InLine
    <3>3. CASE i > Len(p)
      <4>1. i - Len(p) \in DOMAIN q /\ q[i - Len(p)] = k
        BY <1>1, <1>2, <3>1, <3>3
      <4>2. QED BY <4>1 DEF InLine
    <3>4. QED BY <1>2, <3>2, <3>3
  <2>2. ASSUME InLine(p, k) PROVE InLine(p \o q, k)
    BY <1>1, <1>2, <2>2 DEF InLine
  <2>3. ASSUME InLine(q, k) PROVE InLine(p \o q, k)
    <3>1. PICK i \in 1..Len(q) : q[i] = k
      BY <1>2, <2>3 DEF InLine
    <3>2. Len(p) + i \in 1..(Len(p) + Len(q)) /\ (p \o q)[Len(p) + i] = k
      BY <1>1, <1>2, <3>1
    <3>3. QED BY <1>2, <3>2 DEF InLine
  <2>4. QED BY <2>1, <2>2, <2>3
<1>6. QED BY <1>1, <1>4, <1>5

LEMMA FilteredLine ==
    ASSUME NEW S, NEW q \in Seq(S), IsInjective(q), NEW j
    PROVE  /\ Without(q, j) \in Seq(S)
           /\ IsInjective(Without(q, j))
           /\ \A k : InLine(Without(q, j), k) <=> InLine(q, k) /\ k # j
<1>1. CASE ~InLine(q, j)
  BY <1>1 DEF Without
<1>2. CASE InLine(q, j)
  <2> DEFINE at == CHOOSE i \in DOMAIN q : q[i] = j
             front == SubSeq(q, 1, at - 1)
             back == SubSeq(q, at + 1, Len(q))
  <2>1. at \in DOMAIN q /\ q[at] = j
    BY <1>2 DEF InLine
  <2>2. /\ DOMAIN q = 1..Len(q)
        /\ Len(q) \in Nat
        /\ \A i \in 1..Len(q) : q[i] \in S
    BY LenProperties, ElementOfSeq
  <2> HIDE DEF at
  <2>3. /\ front \in Seq(S)
        /\ Len(front) = at - 1
        /\ \A i \in 1..(at - 1) : front[i] = q[i]
    <3>1. 1 \in Int /\ at - 1 \in Int /\ \A i \in 1..(at - 1) : q[i] \in S
      BY <2>1, <2>2
    <3>2. /\ SubSeq(q, 1, at - 1) \in Seq(S)
          /\ Len(SubSeq(q, 1, at - 1)) = IF 1 <= at - 1 THEN at - 1 - 1 + 1 ELSE 0
          /\ \A i \in 1..(at - 1 - 1 + 1) : SubSeq(q, 1, at - 1)[i] = q[1 + i - 1]
      BY <3>1, SubSeqProperties
    <3>3. QED BY <2>1, <2>2, <3>2
  <2>4. /\ back \in Seq(S)
        /\ Len(back) = Len(q) - at
        /\ \A i \in 1..(Len(q) - at) : back[i] = q[at + i]
    <3>1. at + 1 \in Int /\ Len(q) \in Int /\ \A i \in (at + 1)..Len(q) : q[i] \in S
      BY <2>1, <2>2
    <3>2. /\ SubSeq(q, at + 1, Len(q)) \in Seq(S)
          /\ Len(SubSeq(q, at + 1, Len(q)))
                = IF at + 1 <= Len(q) THEN Len(q) - (at + 1) + 1 ELSE 0
          /\ \A i \in 1..(Len(q) - (at + 1) + 1) :
                SubSeq(q, at + 1, Len(q))[i] = q[at + 1 + i - 1]
      BY <3>1, SubSeqProperties
    <3>3. Len(q) - (at + 1) + 1 = Len(q) - at
      BY <2>1, <2>2
    <3>4. Len(back) = Len(q) - at
      BY <2>1, <2>2, <3>2
    <3>5. ASSUME NEW i \in 1..(Len(q) - at) PROVE back[i] = q[at + i]
      <4>1. at + 1 + i - 1 = at + i
        BY <2>1, <2>2
      <4>2. back[i] = q[at + 1 + i - 1]
        BY <3>2, <3>3
      <4>3. QED BY <4>1, <4>2
    <3>6. QED BY <3>2, <3>4, <3>5
  <2>5. Without(q, j) = front \o back
    BY <1>2 DEF Without, RemoveAt, at
  <2> HIDE DEF front, back
  <2>6. /\ DOMAIN front = 1..(at - 1)
        /\ DOMAIN back = 1..(Len(q) - at)
    BY <2>3, <2>4, LenProperties
  <2>7. IsInjective(front) /\ IsInjective(back)
    <3>1. IsInjective(front)
      BY <2>1, <2>2, <2>3, <2>6 DEF IsInjective
    <3>2. ASSUME NEW a \in DOMAIN back, NEW b \in DOMAIN back, back[a] = back[b]
          PROVE  a = b
      <4>1. at + a \in DOMAIN q /\ at + b \in DOMAIN q /\ q[at + a] = q[at + b]
        BY <2>1, <2>2, <2>4, <2>6, <3>2
      <4>2. at + a = at + b
        BY <4>1 DEF IsInjective
      <4>3. QED BY <2>1, <2>2, <2>6, <4>2
    <3>3. QED BY <3>1, <3>2 DEF IsInjective
  <2>8. ASSUME NEW k PROVE InLine(front, k) <=> \E i \in DOMAIN q : i < at /\ q[i] = k
    BY <2>1, <2>2, <2>3, <2>6 DEF InLine
  <2>9. ASSUME NEW k PROVE InLine(back, k) <=> \E i \in DOMAIN q : i > at /\ q[i] = k
    <3>1. ASSUME InLine(back, k) PROVE \E i \in DOMAIN q : i > at /\ q[i] = k
      <4>1. PICK i \in 1..(Len(q) - at) : back[i] = k
        BY <2>6, <3>1 DEF InLine
      <4>2. at + i \in DOMAIN q /\ at + i > at /\ q[at + i] = k
        BY <2>1, <2>2, <2>4, <4>1
      <4>3. QED BY <4>2
    <3>2. ASSUME NEW i \in DOMAIN q, i > at, q[i] = k PROVE InLine(back, k)
      <4>1. i - at \in 1..(Len(q) - at) /\ at + (i - at) = i
        BY <2>1, <2>2, <3>2
      <4>2. back[i - at] = q[at + (i - at)]
        BY <2>4, <4>1
      <4>3. back[i - at] = k
        BY <3>2, <4>1, <4>2
      <4>4. QED BY <2>6, <4>1, <4>3 DEF InLine
    <3>3. QED BY <3>1, <3>2
  <2>10. \A k : ~(InLine(front, k) /\ InLine(back, k))
    BY <2>1, <2>2, <2>8, <2>9 DEF IsInjective
  <2>11. /\ front \o back \in Seq(S)
         /\ IsInjective(front \o back)
         /\ \A k : InLine(front \o back, k) <=> InLine(front, k) \/ InLine(back, k)
    BY <2>3, <2>4, <2>7, <2>10, JoinedLine
  <2>12. ASSUME NEW k
         PROVE  InLine(front, k) \/ InLine(back, k) <=> InLine(q, k) /\ k # j
    <3>1. InLine(front, k) \/ InLine(back, k) <=> \E i \in DOMAIN q : i # at /\ q[i] = k
      BY <2>1, <2>2, <2>8, <2>9
    <3>2. \A i \in DOMAIN q : i # at <=> q[i] # j
      BY <2>1 DEF IsInjective
    <3>3. QED BY <3>1, <3>2 DEF InLine
  <2>13. QED BY <2>5, <2>11, <2>12
<1>3. QED BY <1>1, <1>2

-----------------------------------------------------------------------------
(* The inductive invariant: the parts of the run's invariants hold each other
   up, e.g. a sweep may put a job in line because no PROCESSING job stands
   there, and an ack may complete a job because whoever has a lease is
   PROCESSING. *)

Inv ==
    /\ TypeOK
    /\ QueueHoldsQueuedOnce
    /\ LeasedIffProcessing
    /\ TokensDistinct
    /\ CompletedIsWhole
    /\ OneJobPerKey

\* The line after a sweep: it is again a line without repetition that holds the
\* jobs which are QUEUED after the sweep.
LEMMA SweptLine ==
    ASSUME Inv, NEW s \in RequeueOrders
    PROVE  /\ s \o queue \in Seq(Jobs)
           /\ IsInjective(s \o queue)
           /\ \A j \in Jobs : InLine(s \o queue, j) <=> SweptStatus[j] = "QUEUED"
<1>1. IsFiniteSet(Requeued) /\ Cardinality(Requeued) \in Nat
  BY JobsAssumption, FS_Subset, FS_CardinalityType DEF Requeued, Expired
<1>2. s \in Bijection(1..Cardinality(Requeued), Requeued)
  BY DEF RequeueOrders
<1>3. /\ s \in [1..Cardinality(Requeued) -> Requeued]
      /\ IsInjective(s)
      /\ \A j \in Requeued : \E i \in 1..Cardinality(Requeued) : s[i] = j
  BY <1>2 DEF Bijection, Injection, Surjection, IsInjective
<1>4. DOMAIN s = 1..Cardinality(Requeued) /\ s \in Seq(Jobs)
  <2>1. s \in [1..Cardinality(Requeued) -> Jobs]
    BY <1>3 DEF Requeued, Expired
  <2>2. QED BY <1>1, <2>1, SeqDef
<1>5. \A j : InLine(s, j) <=> j \in Requeued
  BY <1>3, <1>4 DEF InLine
<1>6. queue \in Seq(Jobs) /\ IsInjective(queue)
  BY DEF Inv, TypeOK, QueueHoldsQueuedOnce
<1>7. \A j : InLine(queue, j) => j \in Jobs /\ status[j] = "QUEUED"
  BY <1>6, LenProperties, ElementOfSeq DEF Inv, QueueHoldsQueuedOnce, InLine
<1>8. \A j : ~(InLine(s, j) /\ InLine(queue, j))
  BY <1>5, <1>7 DEF Requeued
<1>9. /\ s \o queue \in Seq(Jobs)
      /\ IsInjective(s \o queue)
      /\ \A j : InLine(s \o queue, j) <=> InLine(s, j) \/ InLine(queue, j)
  BY <1>3, <1>4, <1>6, <1>8, JoinedLine
<1>10. \A j \in Jobs : InLine(s \o queue, j) <=> SweptStatus[j] = "QUEUED"
  BY <1>5, <1>9 DEF Inv, QueueHoldsQueuedOnce, SweptStatus
<1>11. QED BY <1>9, <1>10

-----------------------------------------------------------------------------
(* Every operation preserves the invariant *)

LEMMA InitInv == Init => Inv
<1> SUFFICES ASSUME Init PROVE Inv
  OBVIOUS
<1>1. TypeOK
  BY NumbersAssumption, EmptySeq DEF Init, TypeOK, JobStatus, AttemptCap
<1>2. QueueHoldsQueuedOnce
  <2>1. DOMAIN queue = {}
    BY DEF Init
  <2>2. QED BY <2>1 DEF Init, QueueHoldsQueuedOnce, IsInjective, InLine
<1>3. LeasedIffProcessing /\ TokensDistinct /\ CompletedIsWhole /\ OneJobPerKey
  BY DEF Init, LeasedIffProcessing, TokensDistinct, CompletedIsWhole, OneJobPerKey,
         Leased, Known
<1>4. QED BY <1>1, <1>2, <1>3 DEF Inv

LEMMA EnqueueJobInv == ASSUME Inv, NEW j \in Jobs, EnqueueJob(j) PROVE Inv'
<1>1. /\ queue \in Seq(Jobs) /\ IsInjective(queue)
      /\ ~InLine(queue, j)
  BY DEF Inv, TypeOK, QueueHoldsQueuedOnce, EnqueueJob, Known
<1>2. /\ Append(queue, j) \in Seq(Jobs)
      /\ IsInjective(Append(queue, j))
      /\ \A k : InLine(Append(queue, j), k) <=> InLine(queue, k) \/ k = j
  BY <1>1, AppendToLine
<1>3. TypeOK'
  BY <1>2 DEF Inv, TypeOK, EnqueueJob, JobStatus
<1>4. QueueHoldsQueuedOnce'
  BY <1>2 DEF Inv, TypeOK, QueueHoldsQueuedOnce, EnqueueJob
<1>5. LeasedIffProcessing' /\ TokensDistinct' /\ CompletedIsWhole'
  BY DEF Inv, TypeOK, LeasedIffProcessing, TokensDistinct, CompletedIsWhole,
         EnqueueJob, Leased, Known
<1>6. OneJobPerKey'
  BY DEF Inv, TypeOK, OneJobPerKey, EnqueueJob, Known, SameKey
<1>7. QED BY <1>3, <1>4, <1>5, <1>6 DEF Inv

\* What the sweep alone does to leases and statuses.
LEMMA Sweep ==
    ASSUME Inv
    PROVE  /\ SweptStatus \in [Jobs -> JobStatus \cup {"ABSENT"}]
           /\ SweptToken \in [Jobs -> Tokens \cup {NoToken}]
           /\ SweptTtl \in [Jobs -> -1..LeaseTicks]
           /\ \A j \in Jobs : SweptToken[j] # NoToken <=> SweptStatus[j] = "PROCESSING"
           /\ \A j \in Jobs : SweptToken[j] \in {leaseToken[j], NoToken}
           /\ \A j \in Jobs : status[j] \in {"QUEUED", "PROCESSING"}
                                  <=> SweptStatus[j] \in {"QUEUED", "PROCESSING"}
           /\ \A j \in Jobs : status[j] \notin {"QUEUED", "PROCESSING"}
                                  => SweptStatus[j] = status[j]
<1>1. 0 \in -1..LeaseTicks
  BY NumbersAssumption
<1>2. Expired \subseteq Jobs /\ Requeued = Expired
  BY DEF Inv, LeasedIffProcessing, Expired, Requeued
<1>3. QED
  BY <1>1, <1>2 DEF Inv, TypeOK, LeasedIffProcessing, SweptStatus, SweptToken, SweptTtl,
         Expired, Requeued, Leased, JobStatus

LEMMA LeaseNothingInv == ASSUME Inv, LeaseNothing PROVE Inv'
<1>1. PICK s \in RequeueOrders :
        \/ s \o queue = <<>> /\ queue' = s \o queue
        \/ s \o queue # <<>> /\ ~Leasable(Head(s \o queue)) /\ queue' = Tail(s \o queue)
  BY DEF LeaseNothing
<1>2. /\ s \o queue \in Seq(Jobs)
      /\ IsInjective(s \o queue)
      /\ \A j \in Jobs : InLine(s \o queue, j) <=> SweptStatus[j] = "QUEUED"
  BY SweptLine
\* The head of the line is always leasable, so that null means an empty line.
<1>3. queue' = s \o queue
  <2>1. SUFFICES ASSUME s \o queue # <<>> PROVE Leasable(Head(s \o queue))
    BY <1>1
  <2>2. Head(s \o queue) \in Jobs /\ InLine(s \o queue, Head(s \o queue))
    BY <1>2, <2>1, TailOfLine
  <2>3. QED BY <1>2, <2>2 DEF Leasable
<1>4. TypeOK'
  BY <1>2, <1>3, Sweep DEF Inv, TypeOK, LeaseNothing
<1>5. QueueHoldsQueuedOnce'
  BY <1>2, <1>3 DEF QueueHoldsQueuedOnce, LeaseNothing
<1>6. LeasedIffProcessing' /\ TokensDistinct'
  <2>1. leaseToken' = SweptToken /\ status' = SweptStatus
    BY DEF LeaseNothing
  <2>2. LeasedIffProcessing'
    BY <2>1, Sweep DEF LeasedIffProcessing, Leased
  <2>3. \A k \in Jobs : leaseToken'[k] \in {leaseToken[k], NoToken}
    BY <2>1, Sweep
  <2>4. TokensDistinct'
    BY <2>3 DEF Inv, TokensDistinct, Leased
  <2>5. QED BY <2>2, <2>4
<1>7. CompletedIsWhole' /\ OneJobPerKey'
  <2>1. \A j \in Jobs : /\ status'[j] = "COMPLETED" <=> status[j] = "COMPLETED"
                        /\ status'[j] = "ABSENT" <=> status[j] = "ABSENT"
    BY Sweep DEF LeaseNothing
  <2>2. QED
    BY <2>1 DEF Inv, CompletedIsWhole, OneJobPerKey, Known, LeaseNothing
<1>8. QED BY <1>4, <1>5, <1>6, <1>7 DEF Inv

\* What leaseJob hands out was waiting in line.
LEMMA LeasedWasQueued ==
    ASSUME Inv, NEW j \in Jobs, NEW t \in Tokens, LeaseJob(j, t)
    PROVE  SweptStatus[j] = "QUEUED"
<1>1. PICK s \in RequeueOrders : s \o queue # <<>> /\ Head(s \o queue) = j
  BY DEF LeaseJob
<1>2. InLine(s \o queue, j)
  BY <1>1, SweptLine, TailOfLine
<1>3. QED BY <1>2, SweptLine

LEMMA LeaseJobInv ==
    ASSUME Inv, NEW j \in Jobs, NEW t \in Tokens, LeaseJob(j, t) PROVE Inv'
<1>1. PICK s \in RequeueOrders :
        s \o queue # <<>> /\ Head(s \o queue) = j /\ queue' = Tail(s \o queue)
  BY DEF LeaseJob
<1>2. /\ s \o queue \in Seq(Jobs)
      /\ IsInjective(s \o queue)
      /\ \A k \in Jobs : InLine(s \o queue, k) <=> SweptStatus[k] = "QUEUED"
  BY SweptLine
<1>3. /\ InLine(s \o queue, j)
      /\ queue' \in Seq(Jobs)
      /\ IsInjective(queue')
      /\ \A k : InLine(queue', k) <=> InLine(s \o queue, k) /\ k # j
  BY <1>1, <1>2, TailOfLine
<1>4. SweptStatus[j] = "QUEUED"
  BY <1>2, <1>3
<1>5. attempts' \in [Jobs -> 0..AttemptCap]
  BY SMTT(30), NumbersAssumption DEF Inv, TypeOK, LeaseJob, AttemptCap
<1>6. leaseTtl' \in [Jobs -> -1..LeaseTicks]
  BY Sweep, NumbersAssumption DEF LeaseJob
<1>7. TypeOK'
  BY <1>3, <1>5, <1>6, Sweep DEF Inv, TypeOK, LeaseJob, JobStatus
<1>8. QueueHoldsQueuedOnce'
  BY <1>2, <1>3, Sweep DEF QueueHoldsQueuedOnce, LeaseJob
<1>9. LeasedIffProcessing' /\ TokensDistinct'
  <2>1. /\ status' = [SweptStatus EXCEPT ![j] = "PROCESSING"]
        /\ leaseToken' = [SweptToken EXCEPT ![j] = t]
        /\ \A k \in Jobs : SweptToken[k] # t
    BY DEF LeaseJob
  <2>2. LeasedIffProcessing'
    BY <2>1, Sweep, TokensAssumption DEF LeasedIffProcessing, Leased
  <2>3. /\ leaseToken'[j] = t
        /\ \A k \in Jobs \ {j} : /\ leaseToken'[k] = SweptToken[k]
                                 /\ SweptToken[k] \in {leaseToken[k], NoToken}
    BY <2>1, Sweep
  <2>4. TokensDistinct'
    BY <2>1, <2>3 DEF Inv, TokensDistinct, Leased
  <2>5. QED BY <2>2, <2>4
<1>10. CompletedIsWhole' /\ OneJobPerKey'
  <2>1. \A k \in Jobs : /\ status'[k] = "COMPLETED" <=> status[k] = "COMPLETED"
                        /\ status'[k] = "ABSENT" <=> status[k] = "ABSENT"
    BY <1>4, Sweep DEF LeaseJob
  <2>2. QED
    BY <2>1 DEF Inv, CompletedIsWhole, OneJobPerKey, Known, LeaseJob
<1>11. QED BY <1>7, <1>8, <1>9, <1>10 DEF Inv

LEMMA AckJobInv ==
    ASSUME Inv, NEW j \in Jobs, NEW t \in Tokens, AckJob(j, t) PROVE Inv'
<1>1. status[j] = "PROCESSING" /\ leaseToken[j] = t
  BY DEF Inv, LeasedIffProcessing, AckJob, Holds
<1>2. TypeOK'
  BY NumbersAssumption DEF Inv, TypeOK, AckJob, DropLease, JobStatus
<1>3. QueueHoldsQueuedOnce'
  BY <1>1 DEF Inv, TypeOK, QueueHoldsQueuedOnce, AckJob
<1>4. LeasedIffProcessing' /\ TokensDistinct'
  BY <1>1 DEF Inv, TypeOK, LeasedIffProcessing, TokensDistinct, AckJob, DropLease, Leased
<1>5. CompletedIsWhole' /\ OneJobPerKey'
  BY <1>1, TokensAssumption
  DEF Inv, TypeOK, CompletedIsWhole, OneJobPerKey, Known, AckJob
<1>6. QED BY <1>2, <1>3, <1>4, <1>5 DEF Inv

LEMMA NackJobInv ==
    ASSUME Inv, NEW j \in Jobs, NEW t \in Tokens, NEW retryable \in BOOLEAN,
           NackJob(j, t, retryable)
    PROVE  Inv'
<1>1. status[j] = "PROCESSING" /\ ~InLine(queue, j)
  BY DEF Inv, LeasedIffProcessing, QueueHoldsQueuedOnce, NackJob, Holds
<1>2. queue \in Seq(Jobs) /\ IsInjective(queue)
  BY DEF Inv, TypeOK, QueueHoldsQueuedOnce
<1>3. /\ Append(queue, j) \in Seq(Jobs)
      /\ IsInjective(Append(queue, j))
      /\ \A k : InLine(Append(queue, j), k) <=> InLine(queue, k) \/ k = j
  BY <1>1, <1>2, AppendToLine
<1>4. PICK st \in {"QUEUED", "FAILED"} :
        /\ status' = [status EXCEPT ![j] = st]
        /\ queue' = IF st = "QUEUED" THEN Append(queue, j) ELSE queue
  BY DEF NackJob
<1>5. TypeOK'
  BY <1>2, <1>3, <1>4, NumbersAssumption DEF Inv, TypeOK, NackJob, DropLease, JobStatus
<1>6. QueueHoldsQueuedOnce'
  BY <1>1, <1>2, <1>3, <1>4 DEF Inv, TypeOK, QueueHoldsQueuedOnce
<1>7. LeasedIffProcessing' /\ TokensDistinct'
  BY <1>4 DEF Inv, TypeOK, LeasedIffProcessing, TokensDistinct, NackJob, DropLease, Leased
<1>8. CompletedIsWhole' /\ OneJobPerKey'
  BY <1>1, <1>4 DEF Inv, TypeOK, CompletedIsWhole, OneJobPerKey, Known, NackJob
<1>9. QED BY <1>5, <1>6, <1>7, <1>8 DEF Inv

LEMMA UpdateJobProgressInv ==
    ASSUME Inv, NEW j \in Jobs, NEW t \in Tokens, NEW p \in Percents,
           UpdateJobProgress(j, t, p)
    PROVE  Inv'
<1>1. Clamp(p) \in 0..100
  BY NumbersAssumption DEF Clamp
<1>2. status[j] = "PROCESSING"
  BY DEF Inv, LeasedIffProcessing, UpdateJobProgress, Holds
<1>3. TypeOK' /\ CompletedIsWhole'
  BY <1>1, <1>2 DEF Inv, TypeOK, CompletedIsWhole, UpdateJobProgress
<1>4. QueueHoldsQueuedOnce' /\ LeasedIffProcessing' /\ TokensDistinct' /\ OneJobPerKey'
  BY DEF Inv, QueueHoldsQueuedOnce, LeasedIffProcessing, TokensDistinct, OneJobPerKey,
         Known, Leased, UpdateJobProgress
<1>5. QED BY <1>3, <1>4 DEF Inv

LEMMA CancelJobInv == ASSUME Inv, NEW j \in Jobs, CancelJob(j) PROVE Inv'
<1>1. queue \in Seq(Jobs) /\ IsInjective(queue)
  BY DEF Inv, TypeOK, QueueHoldsQueuedOnce
<1>2. /\ Without(queue, j) \in Seq(Jobs)
      /\ IsInjective(Without(queue, j))
      /\ \A k : InLine(Without(queue, j), k) <=> InLine(queue, k) /\ k # j
  BY <1>1, FilteredLine
<1>3. TypeOK'
  BY <1>2, NumbersAssumption DEF Inv, TypeOK, CancelJob, DropLease, JobStatus
<1>4. QueueHoldsQueuedOnce'
  BY <1>2 DEF Inv, TypeOK, QueueHoldsQueuedOnce, CancelJob
<1>5. LeasedIffProcessing' /\ TokensDistinct'
  BY DEF Inv, TypeOK, LeasedIffProcessing, TokensDistinct, CancelJob, DropLease, Leased
<1>6. CompletedIsWhole' /\ OneJobPerKey'
  BY DEF Inv, TypeOK, CompletedIsWhole, OneJobPerKey, Known, CancelJob
<1>7. QED BY <1>3, <1>4, <1>5, <1>6 DEF Inv

LEMMA TickInv == ASSUME Inv, Tick PROVE Inv'
<1>1. leaseTtl' \in [Jobs -> -1..LeaseTicks]
  BY NumbersAssumption DEF Inv, TypeOK, Tick
<1>2. QED
  BY <1>1 DEF Inv, TypeOK, QueueHoldsQueuedOnce, LeasedIffProcessing, TokensDistinct,
         CompletedIsWhole, OneJobPerKey, Known, Leased, Tick

LEMMA ForgetInv == ASSUME Inv, NEW t \in Tokens, Forget(t) PROVE Inv'
BY DEF Inv, TypeOK, QueueHoldsQueuedOnce, LeasedIffProcessing, TokensDistinct,
       CompletedIsWhole, OneJobPerKey, Known, Leased, Forget

LEMMA NextInv == ASSUME Inv, [Next]_vars PROVE Inv'
<1>1. CASE Next
  <2>1. ASSUME NEW j \in Jobs, EnqueueJob(j) PROVE Inv'
    BY <2>1, EnqueueJobInv
  <2>2. ASSUME NEW j \in Jobs, CancelJob(j) PROVE Inv'
    BY <2>2, CancelJobInv
  <2>3. CASE LeaseNothing
    BY <2>3, LeaseNothingInv
  <2>4. ASSUME NEW j \in Jobs, NEW t \in Tokens, LeaseJob(j, t) PROVE Inv'
    BY <2>4, LeaseJobInv
  <2>5. ASSUME NEW j \in Jobs, NEW t \in Tokens, AckJob(j, t) PROVE Inv'
    BY <2>5, AckJobInv
  <2>6. ASSUME NEW j \in Jobs, NEW t \in Tokens, NEW r \in BOOLEAN, NackJob(j, t, r)
        PROVE  Inv'
    BY <2>6, NackJobInv
  <2>7. ASSUME NEW j \in Jobs, NEW t \in Tokens, NEW p \in Percents,
               UpdateJobProgress(j, t, p)
        PROVE  Inv'
    BY <2>7, UpdateJobProgressInv
  <2>8. CASE Tick
    BY <2>8, TickInv
  <2>9. ASSUME NEW t \in Tokens, Forget(t) PROVE Inv'
    BY <2>9, ForgetInv
  <2>10. QED
    BY <1>1, <2>1, <2>2, <2>3, <2>4, <2>5, <2>6, <2>7, <2>8, <2>9 DEF Next
<1>2. CASE UNCHANGED vars
  BY <1>2 DEF vars, Inv, TypeOK, QueueHoldsQueuedOnce, LeasedIffProcessing,
         TokensDistinct, CompletedIsWhole, OneJobPerKey, Known, Leased
<1>3. QED BY <1>1, <1>2

\* The queue's inductive invariant holds in every reachable state.
THEOREM Invariance == Spec => []Inv
BY InitInv, NextInv, PTL DEF Spec

\* Type correctness of the queue provider.
THEOREM TypeCorrect == Spec => []TypeOK
BY Invariance, PTL DEF Inv

\* The waiting line is exactly the set of QUEUED jobs, without repetition.
THEOREM QueueIsExact == Spec => []QueueHoldsQueuedOnce
BY Invariance, PTL DEF Inv

\* A job is leased exactly while PROCESSING, under a token of its own.
THEOREM LeasesAreExact == Spec => [](LeasedIffProcessing /\ TokensDistinct)
BY Invariance, PTL DEF Inv

\* A completed job has its outputs and full progress.
THEOREM CompletionIsWhole == Spec => []CompletedIsWhole
BY Invariance, PTL DEF Inv

\* An idempotency key never admits two jobs.
THEOREM Idempotency == Spec => []OneJobPerKey
BY Invariance, PTL DEF Inv

\* The maps of InMemoryQueueProvider agree after any calls, late or repeated, for
\* any number of jobs, lease tokens and keys.
THEOREM QueueSoundness == Spec => []QueueIsSound
<1>1. Inv => QueueIsSound
  BY DEF Inv, QueueIsSound
<1>2. QED BY <1>1, Invariance, PTL

-----------------------------------------------------------------------------
(* Action properties *)

\* No step leaves COMPLETED or CANCELLED, and FAILED is only left by a cancel.
LEMMA NextEnds == ASSUME Inv, [Next]_vars PROVE EndStep
<1>1. CASE Next
  <2>1. ASSUME NEW j \in Jobs, EnqueueJob(j) PROVE EndStep
    BY <2>1 DEF Inv, TypeOK, EnqueueJob, EndStep, Known
  <2>2. ASSUME NEW j \in Jobs, CancelJob(j) PROVE EndStep
    BY <2>2 DEF Inv, TypeOK, CancelJob, EndStep
  <2>3. CASE LeaseNothing
    BY <2>3, Sweep DEF LeaseNothing, EndStep
  <2>4. ASSUME NEW j \in Jobs, NEW t \in Tokens, LeaseJob(j, t) PROVE EndStep
    <3>1. SweptStatus[j] = "QUEUED"
      BY <2>4, LeasedWasQueued
    <3>2. QED BY <2>4, <3>1, Sweep DEF LeaseJob, EndStep
  <2>5. ASSUME NEW j \in Jobs, NEW t \in Tokens, AckJob(j, t) PROVE EndStep
    <3>1. status[j] = "PROCESSING"
      BY <2>5 DEF Inv, LeasedIffProcessing, AckJob, Holds
    <3>2. QED BY <2>5, <3>1 DEF Inv, TypeOK, AckJob, EndStep
  <2>6. ASSUME NEW j \in Jobs, NEW t \in Tokens, NEW r \in BOOLEAN, NackJob(j, t, r)
        PROVE  EndStep
    <3>1. status[j] = "PROCESSING"
      BY <2>6 DEF Inv, LeasedIffProcessing, NackJob, Holds
    <3>2. QED BY <2>6, <3>1 DEF Inv, TypeOK, NackJob, EndStep
  <2>7. ASSUME NEW j \in Jobs, NEW t \in Tokens, NEW p \in Percents,
               UpdateJobProgress(j, t, p)
        PROVE  EndStep
    <3>1. status[j] = "PROCESSING"
      BY <2>7 DEF Inv, LeasedIffProcessing, UpdateJobProgress, Holds
    <3>2. QED BY <2>7, <3>1 DEF Inv, TypeOK, UpdateJobProgress, EndStep
  <2>8. CASE Tick
    BY <2>8 DEF Tick, EndStep
  <2>9. ASSUME NEW t \in Tokens, Forget(t) PROVE EndStep
    BY <2>9 DEF Forget, EndStep
  <2>10. QED
    BY <1>1, <2>1, <2>2, <2>3, <2>4, <2>5, <2>6, <2>7, <2>8, <2>9 DEF Next
<1>2. CASE UNCHANGED vars
  BY <1>2 DEF vars, EndStep
<1>3. QED BY <1>1, <1>2

THEOREM EndsAreFinal == Spec => EndStatesAreFinal
<1>1. Inv /\ [Next]_vars => [EndStep]_vars
  BY NextEnds
<1>2. QED BY <1>1, Invariance, PTL DEF Spec, EndStatesAreFinal

\* Only the holder of the present lease writes a job's progress and outputs.
LEMMA NextHolder == ASSUME Inv, [Next]_vars PROVE HolderStep
<1>1. CASE Next
  <2>1. ASSUME NEW j \in Jobs, EnqueueJob(j) PROVE HolderStep
    BY <2>1 DEF Inv, TypeOK, EnqueueJob, HolderStep, Known
  <2>2. ASSUME NEW j \in Jobs, CancelJob(j) PROVE HolderStep
    BY <2>2 DEF CancelJob, HolderStep
  <2>3. CASE LeaseNothing
    BY <2>3 DEF LeaseNothing, HolderStep
  <2>4. ASSUME NEW j \in Jobs, NEW t \in Tokens, LeaseJob(j, t) PROVE HolderStep
    BY <2>4 DEF LeaseJob, HolderStep
  <2>5. ASSUME NEW j \in Jobs, NEW t \in Tokens, AckJob(j, t) PROVE HolderStep
    BY <2>5 DEF Inv, TypeOK, AckJob, Holds, HolderStep
  <2>6. ASSUME NEW j \in Jobs, NEW t \in Tokens, NEW r \in BOOLEAN, NackJob(j, t, r)
        PROVE  HolderStep
    BY <2>6 DEF NackJob, HolderStep
  <2>7. ASSUME NEW j \in Jobs, NEW t \in Tokens, NEW p \in Percents,
               UpdateJobProgress(j, t, p)
        PROVE  HolderStep
    BY <2>7 DEF Inv, TypeOK, UpdateJobProgress, Holds, HolderStep
  <2>8. CASE Tick
    BY <2>8 DEF Tick, HolderStep
  <2>9. ASSUME NEW t \in Tokens, Forget(t) PROVE HolderStep
    BY <2>9 DEF Forget, HolderStep
  <2>10. QED
    BY <1>1, <2>1, <2>2, <2>3, <2>4, <2>5, <2>6, <2>7, <2>8, <2>9 DEF Next
<1>2. CASE UNCHANGED vars
  BY <1>2 DEF vars, HolderStep
<1>3. QED BY <1>1, <1>2

THEOREM HolderWrites == Spec => OnlyTheHolderWrites
<1>1. Inv /\ [Next]_vars => [HolderStep]_vars
  BY NextHolder
<1>2. QED BY <1>1, Invariance, PTL DEF Spec, OnlyTheHolderWrites

-----------------------------------------------------------------------------
(* The runner *)

\* A run has stored its output files, in the place of its job, before it
\* acknowledges, and writes only while it stores.
StoredBeforeAck ==
    \A t \in Tokens :
        /\ runPhase[t] \in {"ack", "record"} => saved[t] = OutFiles
        /\ runPhase[t] \notin {"store", "ack", "record"} => saved[t] = {}
        /\ runJob[t] # NoJob => saved[t] \subseteq written[runJob[t]]
        /\ writing[t] # NoFile => runPhase[t] = "store"

RunnerInv ==
    /\ Inv
    /\ RunnerTypeOK
    /\ RunsMatchTokens
    /\ RecordsFollowAcks
    /\ CompletedOutputsStored
    /\ StoredBeforeAck

LEMMA RunnerInitInv == RunnerInit => RunnerInv
<1> SUFFICES ASSUME RunnerInit PROVE RunnerInv
  OBVIOUS
<1>1. Inv
  BY InitInv DEF RunnerInit
<1>2. RunnerTypeOK
  BY <1>1, RunnerAssumption DEF RunnerInit, RunnerTypeOK, Inv, MaxTimer, Phases, UsageCap
<1>3. RunsMatchTokens /\ RecordsFollowAcks /\ CompletedOutputsStored /\ StoredBeforeAck
  BY DEF RunnerInit, Init, RunsMatchTokens, RecordsFollowAcks, CompletedOutputsStored,
         StoredBeforeAck, Leased
<1>4. QED BY <1>1, <1>2, <1>3 DEF RunnerInv

-----------------------------------------------------------------------------
(* The queue underneath *)

\* A live run has a job.
LEMMA LiveRun ==
    ASSUME RunnerInv, NEW t \in Tokens, runPhase[t] # "none"
    PROVE  t \in held /\ runJob[t] \in Jobs
BY DEF RunnerInv, RunsMatchTokens, RunnerTypeOK

LEMMA QueueStep == ASSUME RunnerInv, [RunnerNext]_allVars PROVE [Next]_vars
<1>1. CASE RunnerNext
  <2>1. ASSUME NEW j \in Jobs, Submit(j) PROVE Next
    BY <2>1 DEF Submit, Next
  <2>2. ASSUME NEW w \in Workers, WorkerStep(w) PROVE Next \/ UNCHANGED vars
    BY <2>2 DEF WorkerStep, PollNothing, PollJob, SandboxTimeout, WakeUp, Next
  <2>3. ASSUME NEW t \in Tokens, RunStep(t) PROVE Next \/ UNCHANGED vars
    <3>1. CASE RunAcks(t)
      <4>1. runJob[t] \in Jobs
        BY <3>1, LiveRun DEF RunAcks
      <4>2. QED BY <3>1, <4>1 DEF RunAcks, Next
    <3>2. CASE RunSkips(t) \/ RunRecords(t) \/ RunFails(t) \/ RunHangs(t)
      BY <3>2 DEF RunSkips, RunRecords, RunFails, RunHangs, Next
    <3>3. CASE RunLoads(t) \/ RunProcesses(t) \/ RunStores(t)
      BY <3>3 DEF RunLoads, RunProcesses, RunStores
    <3>4. ASSUME NEW f \in OutFiles, RunPuts(t, f) PROVE UNCHANGED vars
      BY <3>4 DEF RunPuts
    <3>5. QED BY <2>3, <3>1, <3>2, <3>3, <3>4 DEF RunStep
  <2>4. ASSUME NEW t \in Tokens, NEW percent \in Percents, RunReports(t, percent) PROVE Next
    <3>1. runJob[t] \in Jobs
      BY <2>4, LiveRun DEF RunReports
    <3>2. QED BY <2>4, <3>1 DEF RunReports, Next
  <2>5. CASE RunnerTick
    BY <2>5 DEF RunnerTick, Next
  <2>6. QED BY <1>1, <2>1, <2>2, <2>3, <2>4, <2>5 DEF RunnerNext
<1>2. CASE UNCHANGED allVars
  BY <1>2 DEF allVars
<1>3. QED BY <1>1, <1>2

LEMMA QueueInvStep == ASSUME RunnerInv, [RunnerNext]_allVars PROVE Inv'
BY QueueStep, NextInv DEF RunnerInv

-----------------------------------------------------------------------------
(* The runner's part of the invariant, action by action *)

LEMMA SubmitInv == ASSUME RunnerInv, Inv', NEW j \in Jobs, Submit(j) PROVE RunnerInv'
<1>1. RunnerTypeOK'
  BY DEF RunnerInv, RunnerTypeOK, Submit, runnerVars, Inv
<1>2. RunsMatchTokens'
  BY DEF RunnerInv, RunsMatchTokens, Submit, EnqueueJob, runnerVars
<1>3. RecordsFollowAcks'
  BY DEF RunnerInv, Inv, TypeOK, RunnerTypeOK, RecordsFollowAcks, Leased, Submit, EnqueueJob,
         Known, runnerVars
<1>4. CompletedOutputsStored' /\ StoredBeforeAck'
  BY DEF RunnerInv, Inv, TypeOK, CompletedOutputsStored, StoredBeforeAck, Submit, EnqueueJob,
         runnerVars
<1>5. QED BY <1>1, <1>2, <1>3, <1>4 DEF RunnerInv

\* A worker that pauses awaits no run any more.
LEMMA Pausing ==
    ASSUME RunnerTypeOK, NEW w \in Workers, Pause(w)
    PROVE  /\ pc' \in [Workers -> {"poll", "run", "sleep"}]
           /\ cur' \in [Workers -> Tokens \cup {NoToken}]
           /\ timer' \in [Workers -> 0..MaxTimer]
           /\ cur'[w] = NoToken
           /\ \A x \in Workers : cur'[x] # NoToken => cur'[x] = cur[x] /\ pc'[x] = pc[x]
BY RunnerAssumption DEF RunnerTypeOK, Pause, MaxTimer

LEMMA PollNothingInv ==
    ASSUME RunnerInv, Inv', NEW w \in Workers, PollNothing(w)
    PROVE  RunnerInv'
<1>1. RunnerTypeOK'
  BY Pausing DEF RunnerInv, RunnerTypeOK, PollNothing, Inv
<1>2. RunsMatchTokens'
  BY Pausing DEF RunnerInv, RunsMatchTokens, RunnerTypeOK, PollNothing, LeaseNothing
<1>3. /\ \A j \in Jobs : leaseToken'[j] # NoToken => leaseToken'[j] = leaseToken[j]
      /\ \A j \in Jobs : status'[j] = "COMPLETED" <=> status[j] = "COMPLETED"
      /\ held' = held
  BY Sweep DEF RunnerInv, PollNothing, LeaseNothing
<1>4. RecordsFollowAcks'
  BY <1>3, LiveRun DEF RunnerInv, RecordsFollowAcks, PollNothing, Leased
<1>5. CompletedOutputsStored' /\ StoredBeforeAck'
  BY <1>3 DEF RunnerInv, CompletedOutputsStored, StoredBeforeAck, PollNothing
<1>6. QED BY <1>1, <1>2, <1>4, <1>5 DEF RunnerInv

LEMMA PollJobInv ==
    ASSUME RunnerInv, Inv', NEW w \in Workers, NEW j \in Jobs, NEW t \in Tokens,
           PollJob(w, j, t)
    PROVE  RunnerInv'
<1>1. /\ t \notin held /\ held' = held \cup {t}
      /\ runPhase[t] = "none" /\ saved[t] = {}
      /\ \A x \in Workers : cur[x] # t
  <2>1. t \notin held /\ held' = held \cup {t}
    BY DEF PollJob, LeaseJob
  <2>2. QED BY <2>1, TokensAssumption DEF RunnerInv, RunsMatchTokens, StoredBeforeAck
<1>2. RunnerTypeOK'
  BY RunnerAssumption DEF RunnerInv, RunnerTypeOK, PollJob, Inv, MaxTimer, Phases
<1>3. RunsMatchTokens'
  BY <1>1, RunnerAssumption, TokensAssumption
  DEF RunnerInv, RunsMatchTokens, RunnerTypeOK, PollJob
<1>4. /\ \A k \in Jobs : k # j /\ leaseToken'[k] # NoToken => leaseToken'[k] = leaseToken[k]
      /\ leaseToken'[j] = t
      /\ \A k \in Jobs : k # j => leaseToken'[k] # t
      /\ \A k \in Jobs : status[k] = "COMPLETED" => status'[k] = "COMPLETED"
      /\ \A k \in Jobs : status'[k] = "COMPLETED" => status[k] = "COMPLETED"
  <2>1. \A k \in Jobs : status'[k] = "COMPLETED" => status[k] = "COMPLETED"
    BY Sweep DEF RunnerInv, PollJob, LeaseJob
  <2>2. \A k \in Jobs : status[k] = "COMPLETED" => status'[k] = "COMPLETED"
    <3>1. SweptStatus[j] = "QUEUED"
      BY LeasedWasQueued DEF RunnerInv, PollJob
    <3>2. QED BY <3>1, Sweep DEF RunnerInv, PollJob, LeaseJob
  <2>3. \A k \in Jobs : k # j /\ leaseToken'[k] # NoToken => leaseToken'[k] = leaseToken[k]
    BY Sweep DEF RunnerInv, PollJob, LeaseJob
  <2>4. leaseToken'[j] = t /\ \A k \in Jobs : k # j => leaseToken'[k] # t
    BY Sweep DEF RunnerInv, PollJob, LeaseJob
  <2>5. QED BY <2>1, <2>2, <2>3, <2>4
<1>5. /\ \A u \in Tokens : u # t => runPhase'[u] = runPhase[u] /\ runJob'[u] = runJob[u]
      /\ runPhase'[t] \in {"skip", "load"} /\ runJob'[t] = j
      /\ UNCHANGED <<saved, writing, written, usage>>
  BY DEF RunnerInv, RunnerTypeOK, PollJob
<1>6. RecordsFollowAcks'
  <2>1. ASSUME NEW k \in Jobs, leaseToken'[k] # NoToken, leaseToken'[k] \in held'
        PROVE  runJob'[leaseToken'[k]] = k
    <3>1. CASE k = j
      BY <3>1, <1>4, <1>5
    <3>2. CASE k # j
      <4>1. leaseToken'[k] = leaseToken[k] /\ leaseToken[k] \in Tokens \ {t}
        BY <2>1, <3>2, <1>4 DEF RunnerInv, Inv, TypeOK
      <4>2. leaseToken[k] \in held
        BY <2>1, <4>1, <1>1
      <4>3. runJob[leaseToken[k]] = k
        BY <2>1, <4>1, <4>2 DEF RunnerInv, RecordsFollowAcks, Leased
      <4>4. QED BY <4>1, <4>3, <1>5
    <3>3. QED BY <3>1, <3>2
  <2>2. QED BY <2>1, <1>4, <1>5, LiveRun DEF RunnerInv, RecordsFollowAcks, Leased
<1>7. CompletedOutputsStored'
  BY <1>4, <1>5 DEF RunnerInv, CompletedOutputsStored
<1>8. StoredBeforeAck'
  BY <1>1, <1>5 DEF RunnerInv, StoredBeforeAck
<1>9. QED BY <1>2, <1>3, <1>6, <1>7, <1>8 DEF RunnerInv

LEMMA WorkerRestInv ==
    ASSUME RunnerInv, Inv', NEW w \in Workers, SandboxTimeout(w) \/ WakeUp(w)
    PROVE  RunnerInv'
<1>1. CASE SandboxTimeout(w)
  <2>1. RunnerTypeOK'
    BY <1>1, Pausing DEF RunnerInv, RunnerTypeOK, SandboxTimeout, Inv
  <2>2. RunsMatchTokens'
    BY <1>1, Pausing DEF RunnerInv, RunsMatchTokens, RunnerTypeOK, SandboxTimeout, vars
  <2>3. RecordsFollowAcks' /\ CompletedOutputsStored' /\ StoredBeforeAck'
    BY <1>1 DEF RunnerInv, RecordsFollowAcks, CompletedOutputsStored, StoredBeforeAck,
                SandboxTimeout, vars, Leased
  <2>4. QED BY <2>1, <2>2, <2>3 DEF RunnerInv
<1>2. CASE WakeUp(w)
  <2>1. RunnerTypeOK'
    BY <1>2 DEF RunnerInv, RunnerTypeOK, WakeUp, Inv
  <2>2. RunsMatchTokens'
    BY <1>2 DEF RunnerInv, RunsMatchTokens, RunnerTypeOK, WakeUp, vars
  <2>3. RecordsFollowAcks' /\ CompletedOutputsStored' /\ StoredBeforeAck'
    BY <1>2 DEF RunnerInv, RecordsFollowAcks, CompletedOutputsStored, StoredBeforeAck,
                WakeUp, vars, Leased
  <2>4. QED BY <2>1, <2>2, <2>3 DEF RunnerInv
<1>3. QED BY <1>1, <1>2

\* What a settled run leaves behind.
LEMMA Settling ==
    ASSUME RunnerInv, NEW t \in Tokens, Settle(t)
    PROVE  /\ pc' \in [Workers -> {"poll", "run", "sleep"}]
           /\ cur' \in [Workers -> Tokens \cup {NoToken}]
           /\ timer' \in [Workers -> 0..MaxTimer]
           /\ \A x \in Workers : cur'[x] # t
           /\ \A x \in Workers : cur'[x] # NoToken => cur'[x] = cur[x] /\ pc'[x] = pc[x]
           /\ runPhase' = [runPhase EXCEPT ![t] = "none"]
           /\ runJob' = [runJob EXCEPT ![t] = NoJob]
           /\ saved' = [saved EXCEPT ![t] = {}]
           /\ writing' = [writing EXCEPT ![t] = NoFile]
<1>1. CASE Detached(t) /\ UNCHANGED <<pc, cur, timer>>
  BY <1>1 DEF RunnerInv, RunnerTypeOK, Detached, Settle, Goto
<1>2. ASSUME NEW w \in Workers, cur[w] = t, Pause(w)
      PROVE  /\ pc' \in [Workers -> {"poll", "run", "sleep"}]
             /\ cur' \in [Workers -> Tokens \cup {NoToken}]
             /\ timer' \in [Workers -> 0..MaxTimer]
             /\ \A x \in Workers : cur'[x] # t
             /\ \A x \in Workers : cur'[x] # NoToken => cur'[x] = cur[x] /\ pc'[x] = pc[x]
  <2>1. \A x \in Workers : x # w => cur[x] # t
    BY <1>2, TokensAssumption DEF RunnerInv, RunsMatchTokens
  <2>2. QED BY <1>2, <2>1, Pausing, TokensAssumption DEF RunnerInv, RunnerTypeOK
<1>3. QED BY <1>1, <1>2 DEF Settle, Goto

\* The other runs and the leases are as they were.
LEMMA SettledOthers ==
    ASSUME RunnerInv, NEW t \in Tokens, Settle(t), Forget(t)
    PROVE  /\ \A k \in Jobs : Leased(k)' /\ leaseToken'[k] \in held' => runJob'[leaseToken'[k]] = k
           /\ \A u \in Tokens : runPhase'[u] = "record" =>
                 u # t /\ runPhase[u] = "record" /\ runJob'[u] = runJob[u]
<1>1. /\ \A u \in Tokens : u # t => runPhase'[u] = runPhase[u] /\ runJob'[u] = runJob[u]
      /\ runPhase'[t] = "none"
  BY Settling DEF RunnerInv, RunnerTypeOK
<1>2. leaseToken' = leaseToken /\ held' = held \ {t}
  BY DEF Forget
<1>3. ASSUME NEW k \in Jobs, leaseToken'[k] # NoToken, leaseToken'[k] \in held'
      PROVE  runJob'[leaseToken'[k]] = k
  <2>1. leaseToken[k] \in Tokens \ {t} /\ leaseToken[k] \in held
    BY <1>2, <1>3 DEF RunnerInv, Inv, TypeOK
  <2>2. runJob[leaseToken[k]] = k
    BY <1>2, <1>3, <2>1 DEF RunnerInv, RecordsFollowAcks, Leased
  <2>3. QED BY <1>1, <1>2, <2>1, <2>2
<1>4. QED BY <1>1, <1>3 DEF Leased

LEMMA SettledRecords ==
    ASSUME RunnerInv, NEW t \in Tokens, Settle(t), Forget(t), usage' = usage
    PROVE  RecordsFollowAcks'
<1>1. status' = status
  BY DEF Forget
<1>2. QED BY <1>1, SettledOthers DEF RunnerInv, RecordsFollowAcks

\* A run that settles without a trace.
LEMMA SettleInv ==
    ASSUME RunnerInv, Inv', NEW t \in Tokens, Settle(t), Forget(t), UNCHANGED <<written, usage>>
    PROVE  RunnerInv'
<1>1. RunnerTypeOK'
  BY Settling DEF RunnerInv, RunnerTypeOK, Inv, Phases
<1>2. RunsMatchTokens'
  BY Settling DEF RunnerInv, RunsMatchTokens, RunnerTypeOK, Forget
<1>3. RecordsFollowAcks'
  BY SettledRecords
<1>4. CompletedOutputsStored' /\ StoredBeforeAck'
  BY Settling DEF RunnerInv, CompletedOutputsStored, StoredBeforeAck, RunnerTypeOK, Forget
<1>5. QED BY <1>1, <1>2, <1>3, <1>4 DEF RunnerInv

LEMMA RunRecordsInv ==
    ASSUME RunnerInv, Inv', NEW t \in Tokens, RunRecords(t)
    PROVE  RunnerInv'
<1>1. /\ Settle(t) /\ Forget(t) /\ written' = written
      /\ runJob[t] \in Jobs /\ status[runJob[t]] = "COMPLETED" /\ usage[runJob[t]] = 0
      /\ usage' = [usage EXCEPT ![runJob[t]] = 1]
  <2>1. runJob[t] \in Jobs /\ status[runJob[t]] = "COMPLETED" /\ usage[runJob[t]] = 0
    BY LiveRun DEF RunRecords, RunnerInv, RecordsFollowAcks
  <2>2. usage' = [usage EXCEPT ![runJob[t]] = 1]
    BY <2>1 DEF RunRecords, UsageCap
  <2>3. QED BY <2>1, <2>2 DEF RunRecords
<1>2. RunnerTypeOK'
  BY <1>1, Settling DEF RunnerInv, RunnerTypeOK, Inv, Phases, UsageCap
<1>3. RunsMatchTokens'
  BY <1>1, Settling DEF RunnerInv, RunsMatchTokens, RunnerTypeOK, Forget
<1>4. RecordsFollowAcks'
  <2>1. \A u \in Tokens : u # t /\ runPhase[u] = "record" => runJob[u] # runJob[t]
    BY DEF RunnerInv, RecordsFollowAcks, RunRecords
  <2>2. status' = status
    BY <1>1 DEF Forget
  <2>3. \A k \in Jobs : usage'[k] = IF k = runJob[t] THEN 1 ELSE usage[k]
    BY <1>1 DEF RunnerInv, RunnerTypeOK
  <2>4. \A u \in Tokens : runPhase'[u] = "record" =>
            u # t /\ runPhase[u] = "record" /\ runJob'[u] = runJob[u] /\ runJob[u] \in Jobs
    BY <1>1, SettledOthers, LiveRun
  <2>5. \A u \in Tokens : runPhase'[u] = "record" =>
            status'[runJob'[u]] = "COMPLETED" /\ usage'[runJob'[u]] = 0
    BY <2>1, <2>2, <2>3, <2>4 DEF RunnerInv, RecordsFollowAcks
  <2>6. \A u, v \in Tokens :
            runPhase'[u] = "record" /\ runPhase'[v] = "record" /\ runJob'[u] = runJob'[v] => u = v
    BY <2>4 DEF RunnerInv, RecordsFollowAcks
  <2>7. \A k \in Jobs : usage'[k] <= 1 /\ (usage'[k] = 1 => status'[k] = "COMPLETED")
    BY <1>1, <2>2, <2>3 DEF RunnerInv, RecordsFollowAcks
  <2>8. QED BY <1>1, <2>5, <2>6, <2>7, SettledOthers DEF RecordsFollowAcks
<1>5. CompletedOutputsStored' /\ StoredBeforeAck'
  BY <1>1, Settling DEF RunnerInv, CompletedOutputsStored, StoredBeforeAck, RunnerTypeOK, Forget
<1>6. QED BY <1>2, <1>3, <1>4, <1>5 DEF RunnerInv

LEMMA RunHangsInv ==
    ASSUME RunnerInv, Inv', NEW t \in Tokens, RunHangs(t)
    PROVE  RunnerInv'
<1>1. RunnerTypeOK'
  BY DEF RunnerInv, RunnerTypeOK, Inv, Phases, RunHangs, Goto
<1>2. RunsMatchTokens'
  BY DEF RunnerInv, RunsMatchTokens, RunnerTypeOK, RunHangs, Goto, Forget
<1>3. RecordsFollowAcks'
  BY DEF RunnerInv, RecordsFollowAcks, RunnerTypeOK, RunHangs, Goto, Forget, Leased
<1>4. CompletedOutputsStored' /\ StoredBeforeAck'
  BY DEF RunnerInv, CompletedOutputsStored, StoredBeforeAck, RunnerTypeOK, RunHangs, Goto, Forget
<1>5. QED BY <1>1, <1>2, <1>3, <1>4 DEF RunnerInv

\* A run that moves on to its next stretch without touching the queue.
LEMMA RunMovesInv ==
    ASSUME RunnerInv, Inv', NEW t \in Tokens, RunLoads(t) \/ RunProcesses(t)
    PROVE  RunnerInv'
<1>1. PICK phase \in {"process", "store"} :
        /\ runPhase[t] \in {"load", "process"}
        /\ runPhase' = [runPhase EXCEPT ![t] = phase]
        /\ UNCHANGED <<vars, pc, cur, timer, runJob, saved, writing, written, usage>>
  BY DEF RunLoads, RunProcesses, Goto
<1>2. RunnerTypeOK'
  BY <1>1 DEF RunnerInv, RunnerTypeOK, Inv, Phases
<1>3. RunsMatchTokens'
  BY <1>1 DEF RunnerInv, RunsMatchTokens, RunnerTypeOK, vars
<1>4. RecordsFollowAcks'
  BY <1>1 DEF RunnerInv, RecordsFollowAcks, RunnerTypeOK, vars, Leased
<1>5. CompletedOutputsStored' /\ StoredBeforeAck'
  BY <1>1 DEF RunnerInv, CompletedOutputsStored, StoredBeforeAck, RunnerTypeOK, vars
<1>6. QED BY <1>2, <1>3, <1>4, <1>5 DEF RunnerInv

LEMMA RunReportsInv ==
    ASSUME RunnerInv, Inv', NEW t \in Tokens, NEW percent \in Percents, RunReports(t, percent)
    PROVE  RunnerInv'
<1>1. RunnerTypeOK'
  BY DEF RunnerInv, RunnerTypeOK, Inv, RunReports, runnerVars
<1>2. RunsMatchTokens' /\ RecordsFollowAcks' /\ CompletedOutputsStored' /\ StoredBeforeAck'
  BY DEF RunnerInv, RunsMatchTokens, RecordsFollowAcks, CompletedOutputsStored, StoredBeforeAck,
         RunReports, UpdateJobProgress, runnerVars, Leased
<1>3. QED BY <1>1, <1>2 DEF RunnerInv

LEMMA RunPutsInv ==
    ASSUME RunnerInv, Inv', NEW t \in Tokens, NEW f \in OutFiles, RunPuts(t, f)
    PROVE  RunnerInv'
<1>1. RunnerTypeOK'
  BY DEF RunnerInv, RunnerTypeOK, Inv, RunPuts, vars
<1>2. RunsMatchTokens' /\ RecordsFollowAcks' /\ CompletedOutputsStored'
  BY DEF RunnerInv, RunsMatchTokens, RecordsFollowAcks, CompletedOutputsStored,
         RunPuts, vars, Leased
<1>3. StoredBeforeAck'
  BY DEF RunnerInv, StoredBeforeAck, RunnerTypeOK, RunPuts
<1>4. QED BY <1>1, <1>2, <1>3 DEF RunnerInv

LEMMA RunStoresInv ==
    ASSUME RunnerInv, Inv', NEW t \in Tokens, RunStores(t)
    PROVE  RunnerInv'
<1>1. runJob[t] \in Jobs /\ writing[t] \in OutFiles
  BY LiveRun DEF RunStores, RunnerInv, RunnerTypeOK
<1>2. /\ saved' = [saved EXCEPT ![t] = @ \cup {writing[t]}]
      /\ written' = [written EXCEPT ![runJob[t]] = @ \cup {writing[t]}]
      /\ writing' = [writing EXCEPT ![t] = NoFile]
      /\ runPhase[t] = "store"
      /\ runPhase' = [runPhase EXCEPT ![t] = AfterStore(saved'[t])]
      /\ UNCHANGED <<vars, pc, cur, timer, runJob, usage>>
  BY DEF RunStores, Goto
<1>3. /\ AfterStore(saved'[t]) \in {"ack", "store"}
      /\ AfterStore(saved'[t]) = "ack" => saved'[t] = OutFiles
  BY DEF AfterStore
<1>4. RunnerTypeOK'
  BY <1>1, <1>2, <1>3 DEF RunnerInv, RunnerTypeOK, Inv, Phases
<1>5. RunsMatchTokens'
  BY <1>2, <1>3 DEF RunnerInv, RunsMatchTokens, RunnerTypeOK, vars
<1>6. RecordsFollowAcks'
  BY <1>2, <1>3 DEF RunnerInv, RecordsFollowAcks, RunnerTypeOK, vars, Leased
<1>7. CompletedOutputsStored'
  BY <1>1, <1>2 DEF RunnerInv, CompletedOutputsStored, RunnerTypeOK, vars
<1>8. StoredBeforeAck'
  BY <1>1, <1>2, <1>3 DEF RunnerInv, StoredBeforeAck, RunnerTypeOK
<1>9. QED BY <1>4, <1>5, <1>6, <1>7, <1>8 DEF RunnerInv

LEMMA RunAcksInv ==
    ASSUME RunnerInv, Inv', NEW t \in Tokens, RunAcks(t)
    PROVE  RunnerInv'
<1> DEFINE j == runJob[t]
<1>1. /\ j \in Jobs /\ t \in held /\ leaseToken[j] = t
      /\ status[j] = "PROCESSING" /\ usage[j] = 0
  <2>1. j \in Jobs /\ t \in held /\ leaseToken[j] = t /\ Leased(j)
    BY LiveRun DEF RunAcks, AckJob, Holds
  <2>2. status[j] = "PROCESSING"
    BY <2>1 DEF RunnerInv, Inv, LeasedIffProcessing
  <2>3. usage[j] \in {0, 1} /\ (usage[j] = 1 => status[j] = "COMPLETED")
    BY <2>1 DEF RunnerInv, RecordsFollowAcks, RunnerTypeOK, UsageCap
  <2>4. QED BY <2>1, <2>2, <2>3
<1>2. /\ status' = [status EXCEPT ![j] = "COMPLETED"]
      /\ leaseToken' = [leaseToken EXCEPT ![j] = NoToken]
      /\ held' = held
      /\ runPhase[t] = "ack"
      /\ runPhase' = [runPhase EXCEPT ![t] = "record"]
      /\ UNCHANGED <<pc, cur, timer, runJob, saved, writing, written, usage>>
  BY DEF RunAcks, AckJob, DropLease, Goto
<1>3. RunnerTypeOK'
  BY <1>2 DEF RunnerInv, RunnerTypeOK, Inv, Phases
<1>4. RunsMatchTokens'
  BY <1>2 DEF RunnerInv, RunsMatchTokens, RunnerTypeOK
<1>5. RecordsFollowAcks'
  <2>1. \A u \in Tokens : runPhase[u] = "record" => runJob[u] # j
    BY <1>1 DEF RunnerInv, RecordsFollowAcks
  <2>2. \A k \in Jobs : Leased(k)' /\ leaseToken'[k] \in held' => runJob'[leaseToken'[k]] = k
    BY <1>1, <1>2 DEF RunnerInv, RecordsFollowAcks, Inv, TypeOK, Leased
  <2>3. \A u \in Tokens : runPhase'[u] = "record" =>
            status'[runJob'[u]] = "COMPLETED" /\ usage'[runJob'[u]] = 0
    BY <1>1, <1>2, LiveRun DEF RunnerInv, RecordsFollowAcks, Inv, TypeOK, RunnerTypeOK
  <2>4. \A u, v \in Tokens :
            runPhase'[u] = "record" /\ runPhase'[v] = "record" /\ runJob'[u] = runJob'[v] => u = v
    BY <1>2, <2>1 DEF RunnerInv, RecordsFollowAcks, RunnerTypeOK
  <2>5. \A k \in Jobs : usage'[k] <= 1 /\ (usage'[k] = 1 => status'[k] = "COMPLETED")
    BY <1>1, <1>2 DEF RunnerInv, RecordsFollowAcks, Inv, TypeOK
  <2>6. QED BY <2>2, <2>3, <2>4, <2>5 DEF RecordsFollowAcks
<1>6. CompletedOutputsStored'
  <2>1. saved[t] = OutFiles /\ saved[t] \subseteq written[j] /\ written[j] \subseteq OutFiles
    BY <1>1, <1>2, RunnerAssumption DEF RunnerInv, StoredBeforeAck, RunnerTypeOK
  <2>2. QED BY ZenonT(40), <1>1, <1>2, <2>1 DEF RunnerInv, CompletedOutputsStored, Inv, TypeOK
<1>7. StoredBeforeAck'
  BY <1>2 DEF RunnerInv, StoredBeforeAck, RunnerTypeOK
<1>8. QED BY <1>3, <1>4, <1>5, <1>6, <1>7 DEF RunnerInv

LEMMA RunnerTickInv == ASSUME RunnerInv, Inv', RunnerTick PROVE RunnerInv'
<1>1. RunnerTypeOK'
  BY RunnerAssumption DEF RunnerInv, RunnerTypeOK, Inv, RunnerTick, MaxTimer
<1>2. RunsMatchTokens' /\ RecordsFollowAcks' /\ CompletedOutputsStored' /\ StoredBeforeAck'
  BY DEF RunnerInv, RunsMatchTokens, RecordsFollowAcks, CompletedOutputsStored, StoredBeforeAck,
         RunnerTick, Tick, Leased
<1>3. QED BY <1>1, <1>2 DEF RunnerInv

LEMMA RunnerNextInv == ASSUME RunnerInv, [RunnerNext]_allVars PROVE RunnerInv'
<1>0. Inv'
  BY QueueInvStep
<1>1. CASE RunnerNext
  <2>1. ASSUME NEW j \in Jobs, Submit(j) PROVE RunnerInv'
    BY <1>0, <2>1, SubmitInv
  <2>2. ASSUME NEW w \in Workers, WorkerStep(w) PROVE RunnerInv'
    <3>1. CASE PollNothing(w)
      BY <1>0, <3>1, PollNothingInv
    <3>2. ASSUME NEW j \in Jobs, NEW t \in Tokens, PollJob(w, j, t) PROVE RunnerInv'
      BY <1>0, <3>2, PollJobInv
    <3>3. CASE SandboxTimeout(w) \/ WakeUp(w)
      BY <1>0, <3>3, WorkerRestInv
    <3>4. QED BY <2>2, <3>1, <3>2, <3>3 DEF WorkerStep
  <2>3. ASSUME NEW t \in Tokens, RunStep(t) PROVE RunnerInv'
    <3>1. CASE RunSkips(t) \/ RunFails(t)
      BY <1>0, <3>1, SettleInv DEF RunSkips, RunFails
    <3>2. CASE RunLoads(t) \/ RunProcesses(t)
      BY <1>0, <3>2, RunMovesInv
    <3>3. ASSUME NEW f \in OutFiles, RunPuts(t, f) PROVE RunnerInv'
      BY <1>0, <3>3, RunPutsInv
    <3>4. CASE RunStores(t)
      BY <1>0, <3>4, RunStoresInv
    <3>5. CASE RunAcks(t)
      BY <1>0, <3>5, RunAcksInv
    <3>6. CASE RunRecords(t)
      BY <1>0, <3>6, RunRecordsInv
    <3>7. CASE RunHangs(t)
      BY <1>0, <3>7, RunHangsInv
    <3>8. QED BY <2>3, <3>1, <3>2, <3>3, <3>4, <3>5, <3>6, <3>7 DEF RunStep
  <2>4. ASSUME NEW t \in Tokens, NEW percent \in Percents, RunReports(t, percent)
        PROVE  RunnerInv'
    BY <1>0, <2>4, RunReportsInv
  <2>5. CASE RunnerTick
    BY <1>0, <2>5, RunnerTickInv
  <2>6. QED BY <1>1, <2>1, <2>2, <2>3, <2>4, <2>5 DEF RunnerNext
<1>2. CASE UNCHANGED allVars
  <2>1. RunnerTypeOK'
    BY <1>0, <1>2 DEF RunnerInv, RunnerTypeOK, Inv, allVars, runnerVars
  <2>2. RunsMatchTokens' /\ RecordsFollowAcks' /\ CompletedOutputsStored' /\ StoredBeforeAck'
    BY <1>2 DEF RunnerInv, RunsMatchTokens, RecordsFollowAcks, CompletedOutputsStored,
                StoredBeforeAck, allVars, vars, runnerVars, Leased
  <2>3. QED BY <1>0, <2>1, <2>2 DEF RunnerInv
<1>3. QED BY <1>1, <1>2

-----------------------------------------------------------------------------
(* Theorems *)

\* The runner's inductive invariant holds in every reachable state.
THEOREM RunnerInvariance == RunnerSpec => []RunnerInv
BY RunnerInitInv, RunnerNextInv, PTL DEF RunnerSpec

\* Type correctness of the worker loop, its runs and the queue under them.
THEOREM RunnerTypeCorrect == RunnerSpec => []RunnerTypeOK
BY RunnerInvariance, PTL DEF RunnerInv

\* A token is remembered exactly while its run lives, and no run has two workers.
THEOREM TokensAreRuns == RunnerSpec => []RunsMatchTokens
BY RunnerInvariance, PTL DEF RunnerInv

\* Usage is recorded at most once per job, only for completed jobs, although any
\* number of runs of the job may be alive at once.
THEOREM RecordsAreExact == RunnerSpec => []RecordsFollowAcks
BY RunnerInvariance, PTL DEF RunnerInv

\* All outputs of a completed job have been stored.
THEOREM OutputsAreStored == RunnerSpec => []CompletedOutputsStored
BY RunnerInvariance, PTL DEF RunnerInv

\* Tokens, runs, usage records and stored outputs agree, for any number of worker
\* loops, of runs the sandbox has given up, and of output files.
THEOREM RunnerSoundness == RunnerSpec => []RunsAreSound
<1>1. RunnerInv => RunsAreSound
  BY DEF RunnerInv, RunsAreSound
<1>2. QED BY <1>1, RunnerInvariance, PTL

\* The worker loop uses the queue as the specification of the queue says.
THEOREM RunnerUsesQueue == RunnerSpec => Spec
<1>1. RunnerInit => Init
  BY DEF RunnerInit
<1>2. RunnerInv /\ [RunnerNext]_allVars => [Next]_vars
  BY QueueStep
<1>3. QED BY <1>1, <1>2, RunnerInvariance, PTL DEF RunnerSpec, Spec

-----------------------------------------------------------------------------
(* The pipeline implements JobService *)

Stage == [j \in Jobs |-> StageOf(j)]

\* In a reachable state no job is "broken".
LEMMA StageIs ==
    ASSUME RunnerInv, NEW j \in Jobs
    PROVE  StageOf(j) = IF status[j] = "ABSENT" THEN "absent"
                        ELSE IF status[j] # "COMPLETED" THEN "pending"
                        ELSE IF usage[j] = 0 THEN "delivered" ELSE "billed"
<1>1. usage[j] \in {0, 1} /\ (usage[j] = 1 => status[j] = "COMPLETED")
  BY DEF RunnerInv, RunnerTypeOK, RecordsFollowAcks, UsageCap
<1>2. status[j] = "COMPLETED" => written[j] = OutFiles
  BY DEF RunnerInv, CompletedOutputsStored
<1>3. CASE status[j] = "ABSENT"
  BY <1>3 DEF StageOf
<1>4. CASE status[j] \notin {"ABSENT", "COMPLETED"}
  BY <1>1, <1>4 DEF StageOf
<1>5. CASE status[j] = "COMPLETED" /\ usage[j] = 0
  BY <1>2, <1>5 DEF StageOf
<1>6. CASE status[j] = "COMPLETED" /\ usage[j] = 1
  BY <1>2, <1>6 DEF StageOf
<1>7. QED BY <1>1, <1>3, <1>4, <1>5, <1>6

LEMMA NextStageIs ==
    ASSUME RunnerInv', NEW j \in Jobs
    PROVE  StageOf(j)' = IF status'[j] = "ABSENT" THEN "absent"
                         ELSE IF status'[j] # "COMPLETED" THEN "pending"
                         ELSE IF usage'[j] = 0 THEN "delivered" ELSE "billed"
<1>1. usage'[j] \in {0, 1} /\ (usage'[j] = 1 => status'[j] = "COMPLETED")
  BY DEF RunnerInv, RunnerTypeOK, RecordsFollowAcks, UsageCap
<1>2. status'[j] = "COMPLETED" => written'[j] = OutFiles
  BY DEF RunnerInv, CompletedOutputsStored
<1>3. CASE status'[j] = "ABSENT"
  BY <1>3 DEF StageOf
<1>4. CASE status'[j] \notin {"ABSENT", "COMPLETED"}
  BY <1>1, <1>4 DEF StageOf
<1>5. CASE status'[j] = "COMPLETED" /\ usage'[j] = 0
  BY <1>2, <1>5 DEF StageOf
<1>6. CASE status'[j] = "COMPLETED" /\ usage'[j] = 1
  BY <1>2, <1>6 DEF StageOf
<1>7. QED BY <1>1, <1>3, <1>4, <1>5, <1>6

\* A step that neither accepts, completes nor records a job is invisible.
LEMMA Invisible ==
    ASSUME RunnerInv, RunnerInv', usage' = usage,
           \A j \in Jobs : /\ status'[j] = "ABSENT" <=> status[j] = "ABSENT"
                           /\ status'[j] = "COMPLETED" <=> status[j] = "COMPLETED"
    PROVE  Stage' = Stage
<1>1. ASSUME NEW j \in Jobs PROVE StageOf(j)' = StageOf(j)
  BY <1>1, StageIs, NextStageIs
<1>2. QED BY <1>1 DEF Stage

\* A step that moves one job is the abstract step of that job.
LEMMA Advances ==
    ASSUME RunnerInv, NEW j \in Jobs, NEW from, NEW to,
           StageOf(j) = from, StageOf(j)' = to,
           \A k \in Jobs : k # j => StageOf(k)' = StageOf(k)
    PROVE  Service!Advance(j, from, to)
<1>1. Stage[j] = from /\ Stage' = [Stage EXCEPT ![j] = to]
  BY DEF Stage
<1>2. QED BY <1>1 DEF Service!Advance, Stage

LEMMA ServiceInit == ASSUME RunnerInit PROVE Service!Init
<1>1. RunnerInv
  BY RunnerInitInv
<1>2. \A j \in Jobs : StageOf(j) = "absent"
  BY <1>1, StageIs DEF RunnerInit, Init
<1>3. QED BY <1>2 DEF Service!Init

LEMMA ServiceStep ==
    ASSUME RunnerInv, [RunnerNext]_allVars
    PROVE  Service!Next \/ Stage' = Stage
<1>0. RunnerInv'
  BY RunnerNextInv
<1>1. CASE RunnerNext
  <2>1. ASSUME NEW j \in Jobs, Submit(j) PROVE Service!Next
    <3>1. /\ status[j] = "ABSENT" /\ status'[j] = "QUEUED" /\ usage' = usage
          /\ \A k \in Jobs : k # j => status'[k] = status[k]
      BY <2>1 DEF Submit, EnqueueJob, Known, RunnerInv, Inv, TypeOK, runnerVars
    <3>2. StageOf(j) = "absent" /\ StageOf(j)' = "pending"
      BY <1>0, <3>1, StageIs, NextStageIs
    <3>3. \A k \in Jobs : k # j => StageOf(k)' = StageOf(k)
      BY <1>0, <3>1, StageIs, NextStageIs
    <3>4. Service!Advance(j, "absent", "pending")
      BY <3>2, <3>3, Advances
    <3>5. QED BY <3>4 DEF Service!Next, Service!Accept
  <2>2. ASSUME NEW t \in Tokens, RunAcks(t) PROVE Service!Next
    <3>0. PICK j \in Jobs : j = runJob[t]
      BY <2>2, LiveRun DEF RunAcks
    <3>1. AckJob(j, t) /\ Holds(j, t) /\ usage' = usage
      BY <2>2, <3>0 DEF RunAcks, AckJob
    <3>2. status[j] = "PROCESSING"
      BY <3>1 DEF Holds, RunnerInv, Inv, LeasedIffProcessing
    <3>3. /\ status'[j] = "COMPLETED" /\ usage' = usage
          /\ \A k \in Jobs : k # j => status'[k] = status[k]
      BY <3>1 DEF AckJob, RunnerInv, Inv, TypeOK
    <3>4. usage[j] = 0
      BY <3>1, <3>2 DEF RunnerInv, RunnerTypeOK, RecordsFollowAcks, UsageCap
    <3>5. StageOf(j) = "pending" /\ StageOf(j)' = "delivered"
      BY <1>0, <3>1, <3>2, <3>3, <3>4, StageIs, NextStageIs
    <3>6. \A k \in Jobs : k # j => StageOf(k)' = StageOf(k)
      BY <1>0, <3>3, StageIs, NextStageIs
    <3>7. Service!Advance(j, "pending", "delivered")
      BY <3>1, <3>5, <3>6, Advances
    <3>8. QED BY <3>1, <3>7 DEF Service!Next, Service!Deliver
  <2>3. ASSUME NEW t \in Tokens, RunRecords(t) PROVE Service!Next
    <3>0. PICK j \in Jobs : j = runJob[t]
      BY <2>3, LiveRun DEF RunRecords
    <3>1. status[j] = "COMPLETED" /\ usage[j] = 0
      BY <2>3, <3>0 DEF RunRecords, RunnerInv, RecordsFollowAcks
    <3>2. /\ status' = status /\ usage'[j] = 1
          /\ \A k \in Jobs : k # j => usage'[k] = usage[k]
      BY <2>3, <3>0, <3>1 DEF RunRecords, Forget, RunnerInv, RunnerTypeOK, UsageCap
    <3>3. StageOf(j) = "delivered" /\ StageOf(j)' = "billed"
      BY <1>0, <3>1, <3>2, StageIs, NextStageIs
    <3>4. \A k \in Jobs : k # j => StageOf(k)' = StageOf(k)
      BY <1>0, <3>2, StageIs, NextStageIs
    <3>5. Service!Advance(j, "delivered", "billed")
      BY <3>1, <3>3, <3>4, Advances
    <3>6. QED BY <3>1, <3>5 DEF Service!Next, Service!Bill
  <2>4. ASSUME NEW w \in Workers, PollNothing(w) PROVE Stage' = Stage
    <3>1. \A k \in Jobs : /\ status'[k] = "ABSENT" <=> status[k] = "ABSENT"
                          /\ status'[k] = "COMPLETED" <=> status[k] = "COMPLETED"
      BY <2>4, Sweep DEF RunnerInv, PollNothing, LeaseNothing
    <3>2. QED BY <1>0, <2>4, <3>1, Invisible DEF PollNothing
  <2>5. ASSUME NEW w \in Workers, NEW j \in Jobs, NEW t \in Tokens, PollJob(w, j, t)
        PROVE  Stage' = Stage
    <3>1. LeaseJob(j, t) /\ usage' = usage
      BY <2>5 DEF PollJob
    <3>2. SweptStatus[j] = "QUEUED"
      BY <3>1, LeasedWasQueued DEF RunnerInv
    <3>3. \A k \in Jobs : /\ status'[k] = "ABSENT" <=> status[k] = "ABSENT"
                          /\ status'[k] = "COMPLETED" <=> status[k] = "COMPLETED"
      BY <3>1, <3>2, Sweep DEF RunnerInv, LeaseJob
    <3>4. QED BY <1>0, <3>1, <3>3, Invisible
  <2>6. ASSUME NEW t \in Tokens, NEW percent \in Percents, RunReports(t, percent)
        PROVE  Stage' = Stage
    BY <1>0, <2>6, Invisible DEF RunReports, UpdateJobProgress, runnerVars
  <2>7. ASSUME NEW t \in Tokens, RunSkips(t) \/ RunFails(t) \/ RunHangs(t) PROVE Stage' = Stage
    BY <1>0, <2>7, Invisible DEF RunSkips, RunFails, RunHangs, Forget
  <2>8. ASSUME NEW t \in Tokens,
               RunLoads(t) \/ RunProcesses(t) \/ RunStores(t) \/ \E f \in OutFiles : RunPuts(t, f)
        PROVE  Stage' = Stage
    BY <1>0, <2>8, Invisible DEF RunLoads, RunProcesses, RunStores, RunPuts, vars
  <2>9. ASSUME NEW w \in Workers, SandboxTimeout(w) \/ WakeUp(w) PROVE Stage' = Stage
    BY <1>0, <2>9, Invisible DEF SandboxTimeout, WakeUp, vars
  <2>10. CASE RunnerTick
    BY <1>0, <2>10, Invisible DEF RunnerTick, Tick
  <2>11. QED
    BY <1>1, <2>1, <2>2, <2>3, <2>4, <2>5, <2>6, <2>7, <2>8, <2>9, <2>10
    DEF RunnerNext, WorkerStep, RunStep
<1>2. CASE UNCHANGED allVars
  BY <1>0, <1>2, Invisible DEF allVars, vars, runnerVars
<1>3. QED BY <1>1, <1>2

\* Whatever is retried, timed out or left running: a job is accepted once, its
\* complete result is delivered once and recorded once, in this order.
THEOREM Refinement == RunnerSpec => ImplementsJobService
<1>1. RunnerInit => Service!Init
  BY ServiceInit
<1>2. RunnerInv /\ [RunnerNext]_allVars => [Service!Next]_Stage
  BY ServiceStep
<1>3. QED
  BY <1>1, <1>2, RunnerInvariance, PTL DEF RunnerSpec, ImplementsJobService, Service!Spec, Stage
=============================================================================
