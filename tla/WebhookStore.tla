---------------------------- MODULE WebhookStore ----------------------------
(***************************************************************************)
(* Webhook subscriptions and their deliveries: apps/web/api/               *)
(* webhook-store.js, with the changes apps/web/api/webhook-routes.js lets  *)
(* an owner make.                                                          *)
(*                                                                         *)
(* deliverWithRetry suspends while an attempt is under way and during the  *)
(* pause before the next one; it keeps the record of the webhook it        *)
(* started with, but writes the answer to whatever is stored by then.      *)
(* The delivery of the n-th dispatched event to a webhook is known by the  *)
(* two; events the webhooks tell apart are "does subscribe" and "does      *)
(* not".  Ids are random and never used again.                             *)
(***************************************************************************)
EXTENDS Integers, SequencesExt

CONSTANTS
    Hooks,        \* webhook ids
    Owners,
    OwnerOf,      \* the owner who creates each webhook
    MaxAttempts,  \* MAX_ATTEMPTS, 3 in the code
    FailLimit,    \* failures in a row that make a webhook "failing"; 5 in the code
    LogCap,       \* entries a log keeps; 500 in the code
    MaxEvents     \* bound on the events dispatched

ASSUME HooksAssumption == OwnerOf \in [Hooks -> Owners]
ASSUME LimitsAssumption ==
    /\ MaxAttempts \in Nat \ {0} /\ FailLimit \in Nat \ {0}
    /\ LogCap \in Nat \ {0} /\ MaxEvents \in Nat

VARIABLES
    status,       \* record.status; "new" before, "deleted" after it is in webhookStore
    subscribed,   \* record.events includes the event dispatched
    successes,    \* record.successCount
    failures,     \* record.failureCount
    consecutive,  \* record.consecutiveFailures
    log,          \* the attempts in deliveryLog
    logged,       \* the keys of deliveryLog
    phase,        \* where the delivery of each event to each webhook is
    attempt,      \* and the number of its attempt
    events        \* events dispatched so far

vars == <<status, subscribed, successes, failures, consecutive, log, logged, phase, attempt,
          events>>
stats == <<successes, failures, consecutive>>

Entry == [n : 1..MaxEvents, attempt : 0..(MaxAttempts - 1), ok : BOOLEAN]

TypeOK ==
    /\ status \in [Hooks -> {"new", "active", "paused", "failing", "deleted"}]
    /\ subscribed \in [Hooks -> BOOLEAN]
    /\ successes \in [Hooks -> Nat]
    /\ failures \in [Hooks -> Nat]
    /\ consecutive \in [Hooks -> Nat]
    /\ log \in [Hooks -> Seq(Entry)]
    /\ logged \subseteq Hooks
    /\ phase \in [Hooks -> [1..MaxEvents -> {"none", "sending", "pausing", "done"}]]
    /\ attempt \in [Hooks -> [1..MaxEvents -> 0..(MaxAttempts - 1)]]
    /\ events \in 0..MaxEvents

Init ==
    /\ status = [h \in Hooks |-> "new"]
    /\ subscribed = [h \in Hooks |-> FALSE]
    /\ successes = [h \in Hooks |-> 0]
    /\ failures = [h \in Hooks |-> 0]
    /\ consecutive = [h \in Hooks |-> 0]
    /\ log = [h \in Hooks |-> <<>>]
    /\ logged = {}
    /\ phase = [h \in Hooks |-> [n \in 1..MaxEvents |-> "none"]]
    /\ attempt = [h \in Hooks |-> [n \in 1..MaxEvents |-> 0]]
    /\ events = 0

-----------------------------------------------------------------------------
(* Subscriptions *)

Known(h) == status[h] \notin {"new", "deleted"}

CreateWebhook(h, wants) ==
    /\ status[h] = "new"
    /\ status' = [status EXCEPT ![h] = "active"]
    /\ subscribed' = [subscribed EXCEPT ![h] = wants]
    /\ logged' = logged \cup {h}
    /\ UNCHANGED <<stats, log, phase, attempt, events>>

\* PATCH: status and events are optional; the counters stay.
UpdateWebhook(h, to, wants) ==
    /\ Known(h)
    /\ to \in {status[h], "active", "paused"}
    /\ status' = [status EXCEPT ![h] = to]
    /\ subscribed' = [subscribed EXCEPT ![h] = wants]
    /\ UNCHANGED <<stats, log, logged, phase, attempt, events>>

DeleteWebhook(h) ==
    /\ Known(h)
    /\ status' = [status EXCEPT ![h] = "deleted"]
    /\ log' = [log EXCEPT ![h] = <<>>]
    /\ logged' = logged \ {h}
    /\ UNCHANGED <<subscribed, stats, phase, attempt, events>>

-----------------------------------------------------------------------------
(* Deliveries *)

\* Fault: the owner is not compared.
MatchingAny(owner) == {h \in Hooks : status[h] = "active" /\ subscribed[h]}

Matching(owner) == {h \in Hooks : OwnerOf[h] = owner /\ status[h] = "active" /\ subscribed[h]}

\* The first attempts are under way when dispatchWebhookEvent suspends.
Dispatch(owner) ==
    LET n == events + 1 IN
    /\ events < MaxEvents
    /\ events' = n
    /\ phase' = [h \in Hooks |->
          IF h \in Matching(owner) THEN [phase[h] EXCEPT ![n] = "sending"] ELSE phase[h]]
    /\ UNCHANGED <<status, subscribed, stats, log, logged, attempt>>

\* POST :id/ping: an event for all webhooks of the owner.
Ping(h) ==
    /\ Known(h)
    /\ Dispatch(OwnerOf[h])

\* Fault: the log is cut before the entry is pushed.
LoggedLate(entries, entry) ==
    Append(IF Len(entries) > LogCap THEN Tail(entries) ELSE entries, entry)

Logged(entries, entry) ==
    LET longer == Append(entries, entry) IN
    IF Len(longer) > LogCap THEN Tail(longer) ELSE longer

\* Fault: a success leaves the run of failures as it is.
FailuresInARowKept(h, ok) == IF ok THEN consecutive[h] ELSE consecutive[h] + 1

FailuresInARow(h, ok) == IF ok THEN 0 ELSE consecutive[h] + 1

\* The statistics of a webhook that is still stored.
Count(h, ok) ==
    IF Known(h)
    THEN /\ consecutive' = [consecutive EXCEPT ![h] = FailuresInARow(h, ok)]
         /\ successes' = [successes EXCEPT ![h] = IF ok THEN @ + 1 ELSE @]
         /\ failures' = [failures EXCEPT ![h] = IF ok THEN @ ELSE @ + 1]
         /\ status' = [status EXCEPT
               ![h] = IF FailuresInARow(h, ok) >= FailLimit THEN "failing" ELSE @]
    ELSE UNCHANGED <<status, stats>>

\* Fault: one attempt too many.
FinishedLate(ok, i) == ok \/ i = MaxAttempts

\* Fault: a delivery goes on after it succeeded.
FinishedNever(ok, i) == i = MaxAttempts - 1

Finished(ok, i) == ok \/ i = MaxAttempts - 1

\* An answer, an error or the abort after ten seconds.
Answer(h, n, ok) ==
    LET i == attempt[h][n] IN
    /\ phase[h][n] = "sending"
    /\ log' = [log EXCEPT ![h] = Logged(@, [n |-> n, attempt |-> i, ok |-> ok])]
    /\ logged' = logged \cup {h}
    /\ Count(h, ok)
    /\ IF Finished(ok, i)
       THEN phase' = [phase EXCEPT ![h][n] = "done"] /\ UNCHANGED attempt
       ELSE /\ phase' = [phase EXCEPT ![h][n] = "pausing"]
            /\ attempt' = [attempt EXCEPT ![h][n] = i + 1]
    /\ UNCHANGED <<subscribed, events>>

\* Fault: the pause of a deleted webhook is never over.
RetryKnown(h, n) ==
    /\ phase[h][n] = "pausing" /\ Known(h)
    /\ phase' = [phase EXCEPT ![h][n] = "sending"]
    /\ UNCHANGED <<status, subscribed, stats, log, logged, attempt, events>>

Retry(h, n) ==
    /\ phase[h][n] = "pausing"
    /\ phase' = [phase EXCEPT ![h][n] = "sending"]
    /\ UNCHANGED <<status, subscribed, stats, log, logged, attempt, events>>

Next ==
    \/ \E h \in Hooks :
        \/ \E wants \in BOOLEAN :
            \/ CreateWebhook(h, wants)
            \/ \E to \in {"active", "paused", "failing"} : UpdateWebhook(h, to, wants)
        \/ DeleteWebhook(h)
        \/ Ping(h)
        \/ \E n \in 1..MaxEvents : Retry(h, n) \/ \E ok \in BOOLEAN : Answer(h, n, ok)
    \/ \E owner \in Owners : Dispatch(owner)

Spec == Init /\ [][Next]_vars

\* The pause is a timer, and every attempt is answered or aborted after ten seconds.
FairSpec ==
    /\ Spec
    /\ \A h \in Hooks, n \in 1..MaxEvents :
        WF_vars(Retry(h, n) \/ \E ok \in BOOLEAN : Answer(h, n, ok))

-----------------------------------------------------------------------------
(* Properties *)

\* A run of k failures ends the log, and a success stands before it, if the log
\* reaches that far back.
EndsInRun(entries, k) ==
    /\ \A i \in DOMAIN entries : entries[i].ok => i <= Len(entries) - k
    /\ k < Len(entries) => entries[Len(entries) - k].ok

\* The log and the counters of a webhook tell the same story, however the
\* answers of several deliveries, updates and a deletion interleave: as many
\* entries as attempts counted, up to the cap, and a run of failures at its end
\* as long as consecutiveFailures says.
LogMatchesCounters ==
    \A h \in Hooks : Known(h) =>
        LET counted == successes[h] + failures[h] IN
        /\ Len(log[h]) = IF counted < LogCap THEN counted ELSE LogCap
        /\ EndsInRun(log[h], consecutive[h])

\* An event is tried again only after a failure, and each attempt is a new one.
RetriesFollowFailures ==
    \A h \in Hooks : \A i, j \in DOMAIN log[h] :
        i < j /\ log[h][i].n = log[h][j].n =>
            ~log[h][i].ok /\ log[h][i].attempt < log[h][j].attempt

\* An event goes to webhooks of one owner only.
EventsStayWithTheirOwner ==
    \A n \in 1..MaxEvents : \A g, h \in Hooks :
        phase[g][n] # "none" /\ phase[h][n] # "none" => OwnerOf[g] = OwnerOf[h]

\* Whatever is paused, resumed, deleted or answered meanwhile: logs and counters
\* agree, and events stay with their owner (webhook-store.ts:90-300).
StoreIsSound == TypeOK /\ LogMatchesCounters /\ EventsStayWithTheirOwner

\* A webhook turns "failing" only when its last answer completed a run of
\* failures of the documented length, and no answer wakes it up again.
FailingIsEarned ==
    [][\A h \in Hooks :
        /\ status'[h] = "failing" /\ status[h] # "failing" =>
            consecutive'[h] >= FailLimit /\ failures'[h] = failures[h] + 1
        /\ status[h] = "failing" /\ status'[h] = "active" => log' = log]_vars

\* Every delivery ends, after a success or MAX_ATTEMPTS failures.
DeliveriesEnd ==
    \A h \in Hooks, n \in 1..MaxEvents : phase[h][n] # "none" ~> phase[h][n] = "done"

\* "No further events will be delivered" to a deleted webhook: at least no new
\* attempt is made.
DeletedMeansSilent ==
    [][\A h \in Hooks, n \in 1..MaxEvents :
        status[h] = "deleted" /\ phase'[h][n] = "sending" => phase[h][n] = "sending"]_vars

\* A deleted webhook is "permanently removed", its log too.
OnlyKnownHooksHaveLogs == \A h \in logged : Known(h)
=============================================================================
