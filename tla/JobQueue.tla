------------------------------ MODULE JobQueue ------------------------------
(***************************************************************************)
(* The in-memory job queue, InMemoryQueueProvider of                       *)
(* packages/providers/src/queue/index.ts: a map of jobs, a FIFO array of   *)
(* waiting job ids and a map of leases.  Every method runs synchronously   *)
(* between two awaits of its callers, so each one is an atomic action.     *)
(*                                                                         *)
(* Abstractions.  A lease token (a random string) is a member of Tokens;   *)
(* leaseJob draws one that nobody remembers and no lease left carries.  `held'  *)
(* is the set of tokens callers still remember: Forget says that a caller  *)
(* went away without answering.  Time is relative: leaseTtl counts down    *)
(* from LeaseTicks and a lease is expired, as in expiresAt < now, when it  *)
(* is negative.  All leases last equally long because the only caller      *)
(* passes the constant 60000.                                              *)
(***************************************************************************)
EXTENDS Integers, SequencesExt

CONSTANTS
    Jobs,         \* job ids; every enqueueJob call brings a fresh one
    Tokens,       \* lease tokens
    NoToken,      \* "no lease", "no output recorded"
    Keys,         \* idempotency keys
    NoKey,        \* a job without an idempotency key
    KeyOf,        \* the idempotencyKey of each job
    Percents,     \* the values callers report as progress
    LeaseTicks,   \* duration of a lease
    MaxRetries    \* job.maxRetries

ASSUME JobsAssumption == IsFiniteSet(Jobs)
ASSUME TokensAssumption == NoToken \notin Tokens
ASSUME KeysAssumption ==
    /\ NoKey \notin Keys
    /\ KeyOf \in [Jobs -> Keys \cup {NoKey}]
ASSUME NumbersAssumption ==
    /\ Percents \subseteq Int
    /\ LeaseTicks \in Nat
    /\ MaxRetries \in Nat

VARIABLES
    status,      \* job.status, "ABSENT" before the job is in the map
    attempts,    \* job.attemptCount, counted up to AttemptCap
    progress,    \* job.progressPercent
    outputs,     \* the token under which job.outputFileIds was recorded
    queue,       \* ids waiting in line
    leaseToken,  \* the token of the job's lease, NoToken without one
    leaseTtl,    \* remaining time of the job's lease
    held         \* tokens some caller may still present

vars == <<status, attempts, progress, outputs, queue, leaseToken, leaseTtl, held>>

JobStatus == {"CREATED", "QUEUED", "PROCESSING", "VALIDATING", "COMPLETED",
              "FAILED", "CANCELLED", "EXPIRED"}

\* attemptCount is only ever compared with maxRetries, so that counting one past
\* the largest number of attempts anybody could want (1 + maxRetries) is enough.
AttemptCap == MaxRetries + 2

TypeOK ==
    /\ status \in [Jobs -> JobStatus \cup {"ABSENT"}]
    /\ attempts \in [Jobs -> 0..AttemptCap]
    /\ progress \in [Jobs -> 0..100]
    /\ outputs \in [Jobs -> Tokens \cup {NoToken}]
    /\ queue \in Seq(Jobs)
    /\ leaseToken \in [Jobs -> Tokens \cup {NoToken}]
    /\ leaseTtl \in [Jobs -> -1..LeaseTicks]
    /\ held \subseteq Tokens

Init ==
    /\ status = [j \in Jobs |-> "ABSENT"]
    /\ attempts = [j \in Jobs |-> 0]
    /\ progress = [j \in Jobs |-> 0]
    /\ outputs = [j \in Jobs |-> NoToken]
    /\ queue = <<>>
    /\ leaseToken = [j \in Jobs |-> NoToken]
    /\ leaseTtl = [j \in Jobs |-> 0]
    /\ held = {}

-----------------------------------------------------------------------------
(* Operators on the queue's data *)

Leased(j) == leaseToken[j] # NoToken
Known(j) == status[j] # "ABSENT"

\* Fault: any lease of the job will do.
HoldsAny(j, t) == Leased(j)

\* leases.get(jobId) carries the presented token; expiry is not looked at.
Holds(j, t) == Leased(j) /\ leaseToken[j] = t

InLine(q, j) == \E i \in DOMAIN q : q[i] = j

\* Fault: the id stays in line.
WithoutNothing(q, j) == q

\* this.queue.filter((id) => id !== jobId), for a queue where an id occurs at
\* most once (QueueHoldsQueuedOnce).
Without(q, j) ==
    IF InLine(q, j)
    THEN RemoveAt(q, CHOOSE i \in DOMAIN q : q[i] = j)
    ELSE q

\* Fault: the reported value is taken as it comes.
ClampNothing(p) == p

Clamp(p) == IF p < 0 THEN 0 ELSE IF p > 100 THEN 100 ELSE p

\* Fault: leases.delete is missing.
KeepLease(j) == UNCHANGED <<leaseToken, leaseTtl>>

DropLease(j) ==
    /\ leaseToken' = [leaseToken EXCEPT ![j] = NoToken]
    /\ leaseTtl' = [leaseTtl EXCEPT ![j] = 0]

-----------------------------------------------------------------------------
(* enqueueJob *)

\* Fault: only waiting jobs are compared.
SameKeyInLine(j) ==
    {k \in Jobs : status[k] = "QUEUED" /\ KeyOf[j] # NoKey /\ KeyOf[k] = KeyOf[j]}

\* The job that an earlier call registered under the same idempotency key.
SameKey(j) == {k \in Jobs : Known(k) /\ KeyOf[j] # NoKey /\ KeyOf[k] = KeyOf[j]}

EnqueueJob(j) ==
    /\ ~Known(j)
    /\ SameKey(j) = {}
    /\ status' = [status EXCEPT ![j] = "QUEUED"]
    /\ progress' = [progress EXCEPT ![j] = 0]
    /\ queue' = Append(queue, j)
    /\ UNCHANGED <<attempts, outputs, leaseToken, leaseTtl, held>>

-----------------------------------------------------------------------------
(* leaseJob: sweep, then the head of the line *)

Expired == {j \in Jobs : Leased(j) /\ leaseTtl[j] < 0}
\* Fault: an expired lease is deleted, its job is not put back.
RequeuedNone == {}
Requeued == {j \in Expired : status[j] = "PROCESSING"}

\* The sweep unshifts the expired jobs one by one, oldest lease first, so the
\* youngest of them ends up in front.  (Leases that expired long ago have the
\* same leaseTtl: either order of those is allowed.)
RequeueOrders ==
    {s \in Bijection(1..Cardinality(Requeued), Requeued) :
        \A a, b \in DOMAIN s : a < b => leaseTtl[s[a]] >= leaseTtl[s[b]]}

SweptStatus == [j \in Jobs |-> IF j \in Requeued THEN "QUEUED" ELSE status[j]]
\* Fault: the job is put back, its lease is not deleted.
SweptTokenKept == leaseToken
SweptToken == [j \in Jobs |-> IF j \in Expired THEN NoToken ELSE leaseToken[j]]
SweptTtl == [j \in Jobs |-> IF j \in Expired THEN 0 ELSE leaseTtl[j]]

Leasable(j) == SweptStatus[j] \notin {"ABSENT", "CANCELLED", "EXPIRED"}

\* leaseJob returns null: nobody waits, or the head is dropped because its job
\* is gone.
LeaseNothing ==
    /\ \E s \in RequeueOrders :
        LET line == s \o queue IN
        \/ line = <<>> /\ queue' = line
        \/ line # <<>> /\ ~Leasable(Head(line)) /\ queue' = Tail(line)
    /\ status' = SweptStatus
    /\ leaseToken' = SweptToken
    /\ leaseTtl' = SweptTtl
    /\ UNCHANGED <<attempts, progress, outputs, held>>

\* leaseJob returns job j under the new token t.
LeaseJob(j, t) ==
    /\ t \notin held
    /\ \A k \in Jobs : SweptToken[k] # t
    /\ \E s \in RequeueOrders :
        LET line == s \o queue IN
        /\ line # <<>>
        /\ Head(line) = j
        /\ queue' = Tail(line)
    /\ Leasable(j)
    /\ status' = [SweptStatus EXCEPT ![j] = "PROCESSING"]
    /\ attempts' = [attempts EXCEPT ![j] = IF @ < AttemptCap THEN @ + 1 ELSE @]
    /\ leaseToken' = [SweptToken EXCEPT ![j] = t]
    /\ leaseTtl' = [SweptTtl EXCEPT ![j] = LeaseTicks]
    /\ held' = held \cup {t}
    /\ UNCHANGED <<progress, outputs>>

-----------------------------------------------------------------------------
(* Operations of a lease holder; `held' still contains t afterwards, so that a
   holder may call again with a token that has become stale. *)

AckJob(j, t) ==
    /\ t \in held
    /\ Holds(j, t)
    /\ status' = [status EXCEPT ![j] = "COMPLETED"]
    /\ progress' = [progress EXCEPT ![j] = 100]
    /\ outputs' = [outputs EXCEPT ![j] = t]
    /\ DropLease(j)
    /\ UNCHANGED <<attempts, queue, held>>

\* nackJob's two outcomes: back to the end of the line, or FAILED for good.
NackRequeues(j, retryable) == retryable /\ attempts[j] < MaxRetries

NackJob(j, t, retryable) ==
    /\ t \in held
    /\ Holds(j, t)
    /\ DropLease(j)
    /\ \/ /\ NackRequeues(j, retryable)
          /\ status' = [status EXCEPT ![j] = "QUEUED"]
          /\ queue' = Append(queue, j)
       \/ /\ ~NackRequeues(j, retryable)
          /\ status' = [status EXCEPT ![j] = "FAILED"]
          /\ queue' = queue
    /\ UNCHANGED <<attempts, progress, outputs, held>>

UpdateJobProgress(j, t, percent) ==
    /\ t \in held
    /\ Holds(j, t)
    /\ progress' = [progress EXCEPT ![j] = Clamp(percent)]
    /\ UNCHANGED <<status, attempts, outputs, queue, leaseToken, leaseTtl, held>>

-----------------------------------------------------------------------------
(* cancelJob *)

CancelJob(j) ==
    /\ status[j] \notin {"ABSENT", "COMPLETED", "EXPIRED"}
    /\ status' = [status EXCEPT ![j] = "CANCELLED"]
    /\ DropLease(j)
    /\ queue' = Without(queue, j)
    /\ UNCHANGED <<attempts, progress, outputs, held>>

-----------------------------------------------------------------------------
(* The environment: time passes, a caller forgets its token *)

Tick ==
    /\ leaseTtl' = [j \in Jobs |-> IF Leased(j) /\ leaseTtl[j] >= 0
                                   THEN leaseTtl[j] - 1 ELSE leaseTtl[j]]
    /\ UNCHANGED <<status, attempts, progress, outputs, queue, leaseToken, held>>

Forget(t) ==
    /\ t \in held
    /\ held' = held \ {t}
    /\ UNCHANGED <<status, attempts, progress, outputs, queue, leaseToken, leaseTtl>>

Next ==
    \/ \E j \in Jobs : EnqueueJob(j) \/ CancelJob(j)
    \/ LeaseNothing
    \/ \E j \in Jobs, t \in Tokens :
        \/ LeaseJob(j, t)
        \/ AckJob(j, t)
        \/ \E retryable \in BOOLEAN : NackJob(j, t, retryable)
        \/ \E percent \in Percents : UpdateJobProgress(j, t, percent)
    \/ Tick
    \/ \E t \in Tokens : Forget(t)

Spec == Init /\ [][Next]_vars

-----------------------------------------------------------------------------
(* Properties *)

\* The line holds exactly the jobs whose status says QUEUED, each of them once:
\* no job is lost by a sweep, a nack or a cancel, and none can be handed to two
\* workers because it stands in line twice.
QueueHoldsQueuedOnce ==
    /\ IsInjective(queue)
    /\ \A j \in Jobs : InLine(queue, j) <=> status[j] = "QUEUED"

\* A job has a lease exactly while it is PROCESSING: every way out of PROCESSING
\* (ack, nack, sweep, cancel) takes the lease away.
LeasedIffProcessing == \A j \in Jobs : Leased(j) <=> status[j] = "PROCESSING"

\* A token opens one job only.
TokensDistinct ==
    \A j, k \in Jobs : Leased(j) /\ leaseToken[j] = leaseToken[k] => j = k

\* A job is COMPLETED exactly when some ack recorded its outputs, and then its
\* progress reads 100 although late progress reports are still on their way.
CompletedIsWhole ==
    \A j \in Jobs :
        /\ status[j] = "COMPLETED" <=> outputs[j] # NoToken
        /\ status[j] = "COMPLETED" => progress[j] = 100

\* At most one job was accepted under an idempotency key.
OneJobPerKey ==
    \A j, k \in Jobs :
        Known(j) /\ Known(k) /\ KeyOf[j] # NoKey /\ KeyOf[j] = KeyOf[k] => j = k

\* The provider's maps agree after any calls, late or repeated: the line, the
\* leases, the outputs and the idempotency keys (queue/index.ts:51-189).
QueueIsSound ==
    /\ TypeOK
    /\ QueueHoldsQueuedOnce
    /\ LeasedIffProcessing
    /\ CompletedIsWhole
    /\ OneJobPerKey

\* COMPLETED and CANCELLED are final, FAILED can only still be cancelled: no late
\* sweep, nack or re-lease brings a finished job back.
EndStep ==
    \A j \in Jobs :
        /\ status[j] \in {"COMPLETED", "CANCELLED"} => status'[j] = status[j]
        /\ status[j] = "FAILED" => status'[j] \in {"FAILED", "CANCELLED"}
        /\ status[j] = "COMPLETED" =>
              outputs'[j] = outputs[j] /\ progress'[j] = progress[j]
EndStatesAreFinal == [][EndStep]_vars

\* Only the holder of the job's present lease reports progress on it or records
\* its outputs: whoever lost the lease to a sweep cannot touch the job any more,
\* not even while it waits in line or runs under somebody else's lease.
HolderStep ==
    \A j \in Jobs :
        /\ outputs'[j] # outputs[j] => outputs'[j] = leaseToken[j] /\ leaseToken[j] \in held
        /\ progress'[j] # progress[j] /\ Known(j) => leaseToken[j] \in held
OnlyTheHolderWrites == [][HolderStep]_vars

\* VALID_JOB_TRANSITIONS of packages/core/src/types.ts, lines 78 to 87.
ValidJobTransitions ==
    [s \in JobStatus |->
        CASE s = "CREATED" -> {"QUEUED", "EXPIRED", "CANCELLED"}
          [] s = "QUEUED" -> {"PROCESSING", "CANCELLED", "EXPIRED"}
          [] s = "PROCESSING" -> {"VALIDATING", "FAILED", "CANCELLED"}
          [] s = "VALIDATING" -> {"COMPLETED", "FAILED", "CANCELLED"}
          [] s = "FAILED" -> {"QUEUED", "EXPIRED"}
          [] s \in {"COMPLETED", "CANCELLED"} -> {"EXPIRED"}
          [] s = "EXPIRED" -> {}]

\* Every status change is one the transition table of the core package allows.
FollowsTransitionTable ==
    [][\A j \in Jobs : Known(j) /\ status'[j] # status[j]
          => status'[j] \in ValidJobTransitions[status[j]]]_vars
=============================================================================
