------------------------- MODULE WebhookStoreProofs -------------------------
(***************************************************************************)
(* Proofs about WebhookStore: however many webhooks, deliveries and        *)
(* changes interleave, the log of a webhook and its counters agree and     *)
(* retries follow failures.                                                *)
(***************************************************************************)
EXTENDS WebhookStore, TLAPS

\* A webhook that is not created yet has no trace.
FreshIsBlank ==
    \A h \in Hooks : status[h] = "new" =>
        /\ log[h] = <<>>
        /\ successes[h] = 0 /\ failures[h] = 0 /\ consecutive[h] = 0
        /\ \A n \in 1..MaxEvents : phase[h][n] = "none"

\* Deliveries exist of dispatched events only.
DispatchedOnly ==
    \A h \in Hooks, n \in 1..MaxEvents : n > events => phase[h][n] = "none"

\* What a log says of a delivery that goes on are failures of earlier attempts.
LogIsBehind ==
    \A h \in Hooks : \A i \in DOMAIN log[h] :
        LET e == log[h][i] IN
        /\ phase[h][e.n] # "none"
        /\ phase[h][e.n] # "done" => ~e.ok /\ e.attempt < attempt[h][e.n]

\* A webhook's log never exceeds its cap, a deleted one's neither.
LogIsCapped == \A h \in Hooks : Len(log[h]) <= LogCap

Inv ==
    /\ TypeOK
    /\ FreshIsBlank
    /\ DispatchedOnly
    /\ LogIsCapped
    /\ LogIsBehind
    /\ LogMatchesCounters
    /\ RetriesFollowFailures
    /\ EventsStayWithTheirOwner

USE HooksAssumption, LimitsAssumption

\* What pushing onto a log with shifting off its oldest entry leaves.
LEMMA PushedLog ==
    ASSUME NEW s \in Seq(Entry), NEW e \in Entry, Len(s) <= LogCap
    PROVE  /\ Logged(s, e) \in Seq(Entry)
           /\ Len(Logged(s, e)) <= LogCap
           /\ Len(s) < LogCap =>
                /\ Len(Logged(s, e)) = Len(s) + 1
                /\ \A i \in 1..Len(s) : Logged(s, e)[i] = s[i]
           /\ Len(s) = LogCap =>
                /\ Len(Logged(s, e)) = Len(s)
                /\ \A i \in 1..(Len(s) - 1) : Logged(s, e)[i] = s[i + 1]
           /\ Logged(s, e)[Len(Logged(s, e))] = e
  <1>1. Append(s, e) \in Seq(Entry) /\ Len(Append(s, e)) = Len(s) + 1
    OBVIOUS
  <1>2. CASE Len(s) < LogCap
    <2>1. Logged(s, e) = Append(s, e)
      BY <1>1, <1>2 DEF Logged
    <2> QED
      BY <1>1, <1>2, <2>1
  <1>3. CASE Len(s) = LogCap
    <2>1. Logged(s, e) = Tail(Append(s, e))
      BY <1>1, <1>3 DEF Logged
    <2>2. Len(s) >= 1
      BY <1>3
    <2> QED
      BY <1>1, <1>3, <2>1, <2>2
  <1> QED
    BY <1>2, <1>3

\* What the pushed log holds: entries of the old one, in order, and the new one.
LEMMA PushedEntries ==
    ASSUME NEW s \in Seq(Entry), NEW e \in Entry, Len(s) <= LogCap,
           NEW i \in 1..Len(Logged(s, e))
    PROVE  \/ i = Len(Logged(s, e)) /\ Logged(s, e)[i] = e
           \/ /\ i < Len(Logged(s, e))
              /\ \E d \in {0, 1} : /\ i + d \in DOMAIN s /\ Logged(s, e)[i] = s[i + d]
                                   /\ (d = 0 <=> Len(s) < LogCap)
  <1> DEFINE t == Logged(s, e)
  <1>1. /\ t \in Seq(Entry)
        /\ Len(t) <= LogCap
        /\ Len(s) < LogCap => Len(t) = Len(s) + 1 /\ \A k \in 1..Len(s) : t[k] = s[k]
        /\ Len(s) = LogCap => Len(t) = Len(s) /\ \A k \in 1..(Len(s) - 1) : t[k] = s[k + 1]
        /\ t[Len(t)] = e
    BY PushedLog
  <1> HIDE DEF t
  <1>2. i \in 1..Len(t) /\ Len(s) \in Nat /\ Len(t) \in Nat /\ DOMAIN s = 1..Len(s)
    BY <1>1 DEF t
  <1>3. CASE i = Len(t)
    BY <1>1, <1>3 DEF t
  <1>4. CASE i < Len(t) /\ Len(s) < LogCap
    <2>0. Len(t) = Len(s) + 1
      BY <1>1, <1>4
    <2>1. i \in 1..Len(s) /\ i + 0 = i
      BY SMTT(30), <1>2, <1>4, <2>0
    <2>2. i + 0 \in DOMAIN s /\ t[i] = s[i + 0]
      BY <1>1, <1>2, <1>4, <2>1
    <2> QED
      BY <1>4, <2>2 DEF t
  <1>5. CASE i < Len(t) /\ Len(s) = LogCap
    <2>1. i + 1 \in DOMAIN s /\ t[i] = s[i + 1]
      BY <1>1, <1>2, <1>5
    <2> QED
      BY <1>5, <2>1 DEF t
  <1>6. Len(s) < LogCap \/ Len(s) = LogCap
    <2>1. Len(s) \in Nat
      OBVIOUS
    <2> QED
      BY <2>1
  <1>7. i = Len(t) \/ i < Len(t)
    BY <1>2
  <1> QED
    BY <1>3, <1>4, <1>5, <1>6, <1>7

LEMMA PushedRun ==
    ASSUME NEW s \in Seq(Entry), NEW e \in Entry, Len(s) <= LogCap,
           NEW c \in Nat, EndsInRun(s, c)
    PROVE  EndsInRun(Logged(s, e), IF e.ok THEN 0 ELSE c + 1)
  <1> DEFINE t == Logged(s, e)
  <1> DEFINE f == IF e.ok THEN 0 ELSE c + 1
  <1>1. Len(s) \in Nat /\ Len(t) \in Nat /\ f \in Nat /\ DOMAIN t = 1..Len(t)
    BY PushedLog
  <1>2. t[Len(t)] = e
    BY PushedLog
  <1>3. ASSUME NEW i \in 1..Len(t), i < Len(t)
        PROVE  \E d \in {0, 1} : /\ Len(t) = Len(s) + 1 - d
                                 /\ i + d \in DOMAIN s /\ t[i] = s[i + d]
    <2>1. PICK d \in {0, 1} : /\ i + d \in DOMAIN s /\ t[i] = s[i + d]
                              /\ (d = 0 <=> Len(s) < LogCap)
      BY <1>3, PushedEntries
    <2>2. Len(t) = Len(s) + 1 - d
      <3>1. Len(s) < LogCap => Len(t) = Len(s) + 1
        BY PushedLog
      <3>2. Len(s) = LogCap => Len(t) = Len(s)
        BY PushedLog
      <3>3. Len(s) < LogCap \/ Len(s) = LogCap
        BY <1>1
      <3>4. d = 0 <=> Len(s) < LogCap
        BY <2>1
      <3> HIDE DEF t
      <3>5. CASE d = 0
        <4>1. Len(s) < LogCap
          BY <3>4, <3>5
        <4>2. Len(t) = Len(s) + 1
          BY <3>1, <4>1
        <4> QED
          BY <1>1, <3>5, <4>2
      <3>6. CASE d = 1
        BY <1>1, <3>2, <3>3, <3>4, <3>6
      <3> QED
        BY <3>5, <3>6
    <2> HIDE DEF t
    <2> QED
      BY <2>1, <2>2
  <1>4. CASE e.ok
    <2>1. f = 0
      BY <1>4
    <2>2. EndsInRun(t, 0)
      <3> HIDE DEF t
      <3> QED
        BY <1>1, <1>2, <1>4 DEF EndsInRun
    <2> QED
      BY <2>1, <2>2
  <1>5. CASE ~e.ok
    <2>1. f = c + 1
      BY <1>5
    <2>2. ASSUME NEW i \in 1..Len(t), t[i].ok PROVE i <= Len(t) - (c + 1)
      <3> HIDE DEF t
      <3>1. i \in 1..Len(t) /\ i < Len(t)
        BY SMTT(30), <1>1, <1>2, <1>5, <2>2
      <3>2. PICK d \in {0, 1} : Len(t) = Len(s) + 1 - d /\ t[i] = s[i + d] /\ i + d \in DOMAIN s
        BY <1>1, <1>3, <3>1
      <3>3. PICK k \in DOMAIN s : k = i + d
        BY <3>2
      <3>4. k <= Len(s) - c
        BY <2>2, <3>2, <3>3 DEF EndsInRun
      <3> QED
        BY <1>1, <3>2, <3>3, <3>4
    <2>3. ASSUME c + 1 < Len(t) PROVE t[Len(t) - (c + 1)].ok
      <3> HIDE DEF t
      <3> DEFINE i == Len(t) - (c + 1)
      <3>1. i \in 1..Len(t) /\ i < Len(t)
        BY SMTT(30), <1>1, <2>3
      <3> HIDE DEF i
      <3>2. PICK d \in {0, 1} : Len(t) = Len(s) + 1 - d /\ t[i] = s[i + d] /\ i + d \in DOMAIN s
        BY <1>1, <1>3, <3>1
      <3>3. i + d = Len(s) - c /\ c < Len(s)
        BY <1>1, <2>3, <3>1, <3>2 DEF i
      <3>4. s[Len(s) - c].ok
        BY <3>3 DEF EndsInRun
      <3>5. t[i] = s[Len(s) - c]
        BY <3>2, <3>3
      <3> QED
        BY <3>4, <3>5 DEF i
    <2>4. EndsInRun(t, c + 1)
      <3> HIDE DEF t
      <3> QED
        BY <1>1, <2>2, <2>3 DEF EndsInRun
    <2> QED
      BY <2>1, <2>4
  <1> QED
    BY <1>4, <1>5

LEMMA InitInv == Init => Inv
  BY DEF Init, Inv, TypeOK, FreshIsBlank, DispatchedOnly, LogIsCapped, LogIsBehind,
         LogMatchesCounters, RetriesFollowFailures, EventsStayWithTheirOwner, Known

\* What TypeOK says of one entry of a log.
LEMMA EntryType ==
    ASSUME TypeOK, NEW h \in Hooks, NEW i \in DOMAIN log[h]
    PROVE  /\ log[h][i] \in Entry
           /\ log[h][i].n \in 1..MaxEvents
           /\ log[h][i].attempt \in Nat
           /\ log[h][i].ok \in BOOLEAN
  <1>1. log[h] \in Seq(Entry)
    BY DEF TypeOK
  <1>2. log[h][i] \in Entry
    BY <1>1
  <1> QED
    BY <1>2 DEF Entry

LEMMA CreateInv ==
    ASSUME Inv, NEW h \in Hooks, NEW wants \in BOOLEAN, CreateWebhook(h, wants)
    PROVE  Inv'
  <1>1. TypeOK'
    BY DEF CreateWebhook, stats, Inv, TypeOK
  <1>2. UNCHANGED <<successes, failures, consecutive, log, phase, attempt, events>>
    BY DEF CreateWebhook, stats
  <1>3. /\ status[h] = "new" /\ Known(h)'
        /\ \A g \in Hooks : g # h => status'[g] = status[g]
    BY DEF CreateWebhook, Inv, TypeOK, Known
  <1>4. FreshIsBlank' /\ DispatchedOnly' /\ LogIsCapped' /\ EventsStayWithTheirOwner'
    BY <1>2, <1>3
    DEF Inv, FreshIsBlank, DispatchedOnly, LogIsCapped, EventsStayWithTheirOwner, Known
  <1>5. LogIsBehind' /\ RetriesFollowFailures'
    BY <1>2 DEF Inv, LogIsBehind, RetriesFollowFailures
  <1>6. LogMatchesCounters'
    <2>1. log[h] = <<>> /\ successes[h] = 0 /\ failures[h] = 0 /\ consecutive[h] = 0
      BY <1>3 DEF Inv, FreshIsBlank
    <2>2. EndsInRun(log[h], 0)
      BY <2>1 DEF EndsInRun
    <2>3. Len(log[h]) = 0
      BY <2>1
    <2>4. Len(log[h]) = IF successes[h] + failures[h] < LogCap
                        THEN successes[h] + failures[h] ELSE LogCap
      BY <2>1, <2>3
    <2>5. EndsInRun(log[h], consecutive[h])
      BY <2>1, <2>2
    <2>6. \A g \in Hooks : Known(g)' => g = h \/ Known(g)
      BY <1>3 DEF Known
    <2> QED
      BY <1>2, <2>4, <2>5, <2>6 DEF Inv, LogMatchesCounters
  <1> QED
    BY <1>1, <1>4, <1>5, <1>6 DEF Inv

LEMMA UpdateInv ==
    ASSUME Inv, NEW h \in Hooks, NEW to, NEW wants \in BOOLEAN, UpdateWebhook(h, to, wants)
    PROVE  Inv'
  <1>1. TypeOK'
    BY DEF UpdateWebhook, stats, Inv, TypeOK
  <1>2. UNCHANGED <<successes, failures, consecutive, log, phase, attempt, events>>
    BY DEF UpdateWebhook, stats
  <1>3. \A g \in Hooks : /\ Known(g)' <=> Known(g)
                         /\ status'[g] = "new" => status[g] = "new"
    BY DEF UpdateWebhook, Inv, TypeOK, Known
  <1>4. FreshIsBlank' /\ DispatchedOnly' /\ LogIsCapped' /\ EventsStayWithTheirOwner'
    BY <1>2, <1>3
    DEF Inv, FreshIsBlank, DispatchedOnly, LogIsCapped, EventsStayWithTheirOwner
  <1>5. LogIsBehind' /\ RetriesFollowFailures'
    BY <1>2 DEF Inv, LogIsBehind, RetriesFollowFailures
  <1>6. LogMatchesCounters'
    BY <1>2, <1>3 DEF Inv, LogMatchesCounters
  <1> QED
    BY <1>1, <1>4, <1>5, <1>6 DEF Inv

LEMMA DeleteInv ==
    ASSUME Inv, NEW h \in Hooks, DeleteWebhook(h)
    PROVE  Inv'
  <1>1. TypeOK'
    BY SMTT(30) DEF DeleteWebhook, stats, Inv, TypeOK
  <1>2. UNCHANGED <<successes, failures, consecutive, phase, attempt, events>>
    BY DEF DeleteWebhook, stats
  <1>3. /\ log'[h] = <<>> /\ ~Known(h)' /\ status'[h] # "new"
        /\ \A g \in Hooks : g # h => log'[g] = log[g] /\ status'[g] = status[g]
    BY DEF DeleteWebhook, Inv, TypeOK, Known
  <1>4. FreshIsBlank' /\ DispatchedOnly' /\ LogIsCapped' /\ EventsStayWithTheirOwner'
    BY <1>2, <1>3
    DEF Inv, FreshIsBlank, DispatchedOnly, LogIsCapped, EventsStayWithTheirOwner
  <1>5. LogIsBehind' /\ RetriesFollowFailures'
    <2>1. \A g \in Hooks : log'[g] = log[g] \/ (g = h /\ DOMAIN log'[g] = {})
      BY <1>3
    <2> QED
      BY <1>2, <2>1 DEF Inv, LogIsBehind, RetriesFollowFailures
  <1>6. LogMatchesCounters'
    BY <1>2, <1>3 DEF Inv, LogMatchesCounters, Known
  <1> QED
    BY <1>1, <1>4, <1>5, <1>6 DEF Inv

LEMMA RetryInv ==
    ASSUME Inv, NEW h \in Hooks, NEW n \in 1..MaxEvents, Retry(h, n)
    PROVE  Inv'
  <1>1. TypeOK'
    BY DEF Retry, stats, Inv, TypeOK
  <1>2. UNCHANGED <<status, successes, failures, consecutive, log, attempt, events>>
    BY DEF Retry, stats
  <1>3. \A g \in Hooks, k \in 1..MaxEvents :
          phase'[g][k] # phase[g][k] => phase[g][k] = "pausing" /\ phase'[g][k] = "sending"
    BY DEF Retry, Inv, TypeOK
  <1>4. FreshIsBlank' /\ DispatchedOnly' /\ EventsStayWithTheirOwner'
    BY <1>2, <1>3 DEF Inv, FreshIsBlank, DispatchedOnly, EventsStayWithTheirOwner
  <1>5. LogIsCapped' /\ RetriesFollowFailures' /\ LogMatchesCounters'
    BY <1>2 DEF Inv, LogIsCapped, RetriesFollowFailures, LogMatchesCounters, Known
  <1>6. LogIsBehind'
    <2> SUFFICES ASSUME NEW g \in Hooks, NEW i \in DOMAIN log[g]
                 PROVE  /\ phase'[g][log[g][i].n] # "none"
                        /\ phase'[g][log[g][i].n] # "done" =>
                              ~log[g][i].ok /\ log[g][i].attempt < attempt[g][log[g][i].n]
      BY <1>2 DEF LogIsBehind
    <2>1. log[g][i].n \in 1..MaxEvents
      BY EntryType DEF Inv
    <2> QED
      BY <1>3, <2>1 DEF Inv, LogIsBehind
  <1> QED
    BY <1>1, <1>4, <1>5, <1>6 DEF Inv

\* A new event has left no trace in any log before it is dispatched.
LEMMA DispatchInv ==
    ASSUME Inv, NEW owner \in Owners, Dispatch(owner)
    PROVE  Inv'
  <1> DEFINE n == events + 1
  <1>1. n \in 1..MaxEvents /\ \A h \in Hooks : phase[h][n] = "none"
    BY DEF Dispatch, Inv, TypeOK, DispatchedOnly
  <1>2. \A h \in Hooks, k \in 1..MaxEvents :
          phase'[h][k] = IF h \in Matching(owner) /\ k = n THEN "sending" ELSE phase[h][k]
    BY <1>1 DEF Dispatch, Inv, TypeOK
  <1>3. UNCHANGED <<status, subscribed, successes, failures, consecutive, log, logged, attempt>>
    BY DEF Dispatch, stats
  <1>4. TypeOK'
    BY <1>1, <1>2, <1>3 DEF Dispatch, Inv, TypeOK
  <1>5. FreshIsBlank' /\ DispatchedOnly'
    BY <1>1, <1>2, <1>3 DEF Dispatch, Inv, TypeOK, FreshIsBlank, DispatchedOnly, Matching
  <1>6. LogIsCapped' /\ LogMatchesCounters' /\ RetriesFollowFailures'
    BY <1>3 DEF Inv, LogIsCapped, LogMatchesCounters, RetriesFollowFailures, Known
  <1>7. LogIsBehind'
    <2> SUFFICES ASSUME NEW h \in Hooks, NEW i \in DOMAIN log[h]
                 PROVE  /\ phase'[h][log[h][i].n] # "none"
                        /\ phase'[h][log[h][i].n] # "done" =>
                              ~log[h][i].ok /\ log[h][i].attempt < attempt[h][log[h][i].n]
      BY <1>3 DEF LogIsBehind
    <2>1. log[h][i] \in Entry
      BY DEF Inv, TypeOK
    <2>2. log[h][i].n \in 1..MaxEvents /\ log[h][i].n # n
      BY <1>1, <2>1 DEF Entry, Inv, LogIsBehind
    <2>3. phase'[h][log[h][i].n] = phase[h][log[h][i].n]
      BY <1>2, <2>2
    <2> QED
      BY <2>3 DEF Inv, LogIsBehind
  <1>8. EventsStayWithTheirOwner'
    BY <1>1, <1>2 DEF Inv, EventsStayWithTheirOwner, Matching
  <1> QED
    BY <1>4, <1>5, <1>6, <1>7, <1>8 DEF Inv

LEMMA AnswerInv ==
    ASSUME Inv, NEW h \in Hooks, NEW n \in 1..MaxEvents, NEW ok \in BOOLEAN, Answer(h, n, ok)
    PROVE  Inv'
  <1> DEFINE e == [n |-> n, attempt |-> attempt[h][n], ok |-> ok]
  <1> DEFINE s == log[h]
  <1> DEFINE t == Logged(s, e)
  <1>1. attempt[h][n] \in 0..(MaxAttempts - 1)
    BY DEF Inv, TypeOK
  <1>2. e \in Entry /\ s \in Seq(Entry) /\ Len(s) <= LogCap /\ Len(s) \in Nat
    <2>1. e \in Entry
      BY <1>1 DEF Entry
    <2>2. s \in Seq(Entry) /\ Len(s) <= LogCap
      BY DEF Inv, TypeOK, LogIsCapped
    <2> QED
      BY <2>1, <2>2
  <1>3. /\ t \in Seq(Entry)
        /\ Len(t) <= LogCap
        /\ Len(s) < LogCap => Len(t) = Len(s) + 1 /\ \A i \in 1..Len(s) : t[i] = s[i]
        /\ Len(s) = LogCap => Len(t) = Len(s) /\ \A i \in 1..(Len(s) - 1) : t[i] = s[i + 1]
        /\ t[Len(t)] = e
    BY ZenonT(40), <1>2, PushedLog
  <1>4. ASSUME NEW i \in DOMAIN t
         PROVE  \/ i = Len(t) /\ t[i] = e
                \/ i < Len(t) /\ \E d \in {0, 1} : i + d \in DOMAIN s /\ t[i] = s[i + d]
                                              /\ (d = 0 <=> Len(s) < LogCap)
    BY SMTT(30), <1>2, <1>3, PushedEntries
  <1>5. log' = [log EXCEPT ![h] = t] /\ phase[h][n] = "sending" /\ status[h] # "new"
    BY DEF Answer, Inv, FreshIsBlank
  <1>6. /\ log'[h] = t
        /\ \A g \in Hooks : g # h => log'[g] = log[g]
    BY <1>5 DEF Inv, TypeOK
  <1> HIDE DEF t
  <1>7. /\ phase \in [Hooks -> [1..MaxEvents -> {"none", "sending", "pausing", "done"}]]
        /\ attempt \in [Hooks -> [1..MaxEvents -> 0..(MaxAttempts - 1)]]
    BY DEF Inv, TypeOK
  <1>8. \/ phase' = [phase EXCEPT ![h][n] = "done"] /\ attempt' = attempt
        \/ /\ ~ok /\ attempt[h][n] + 1 \in 0..(MaxAttempts - 1)
           /\ phase' = [phase EXCEPT ![h][n] = "pausing"]
           /\ attempt' = [attempt EXCEPT ![h][n] = attempt[h][n] + 1]
    BY <1>1 DEF Answer, Finished
  <1>9. \A g \in Hooks, k \in 1..MaxEvents :
          /\ g # h \/ k # n => phase'[g][k] = phase[g][k] /\ attempt'[g][k] = attempt[g][k]
          /\ g = h /\ k = n =>
                /\ phase'[g][k] \in {"pausing", "done"}
                /\ phase'[g][k] # "done" => ~ok /\ attempt'[g][k] = attempt[g][k] + 1
    BY SMTT(30), <1>7, <1>8
  <1>10. TypeOK'
    <2>1. log' \in [Hooks -> Seq(Entry)] /\ logged' \subseteq Hooks
      BY SMTT(30), <1>3, <1>5 DEF Answer, Inv, TypeOK
    <2>2. /\ phase' \in [Hooks -> [1..MaxEvents -> {"none", "sending", "pausing", "done"}]]
          /\ attempt' \in [Hooks -> [1..MaxEvents -> 0..(MaxAttempts - 1)]]
      <3>1. ASSUME NEW u \in {"pausing", "done"}, phase' = [phase EXCEPT ![h][n] = u]
            PROVE  phase' \in [Hooks -> [1..MaxEvents -> {"none", "sending", "pausing", "done"}]]
        BY <1>7, <3>1
      <3>2. ASSUME attempt[h][n] + 1 \in 0..(MaxAttempts - 1),
                   attempt' = [attempt EXCEPT ![h][n] = attempt[h][n] + 1]
            PROVE  attempt' \in [Hooks -> [1..MaxEvents -> 0..(MaxAttempts - 1)]]
        BY <1>7, <3>2
      <3> QED
        BY <1>7, <1>8, <3>1, <3>2
    <2>3. /\ status' \in [Hooks -> {"new", "active", "paused", "failing", "deleted"}]
          /\ successes' \in [Hooks -> Nat]
          /\ failures' \in [Hooks -> Nat]
          /\ consecutive' \in [Hooks -> Nat]
      <3>1. CASE Known(h)
        <4>1. FailuresInARow(h, ok) \in Nat
          BY DEF FailuresInARow, Inv, TypeOK
        <4>2. /\ consecutive' = [consecutive EXCEPT ![h] = FailuresInARow(h, ok)]
              /\ successes' = [successes EXCEPT ![h] = IF ok THEN @ + 1 ELSE @]
              /\ failures' = [failures EXCEPT ![h] = IF ok THEN @ ELSE @ + 1]
              /\ status' = [status EXCEPT
                    ![h] = IF FailuresInARow(h, ok) >= FailLimit THEN "failing" ELSE @]
          BY <3>1 DEF Answer, Count
        <4> QED
          BY SMTT(30), <4>1, <4>2 DEF Inv, TypeOK
      <3>2. CASE ~Known(h)
        BY <3>2 DEF Answer, Count, stats, Inv, TypeOK
      <3> QED
        BY <3>1, <3>2
    <2> QED
      BY <2>1, <2>2, <2>3 DEF Answer, Inv, TypeOK
  <1>11. \A g \in Hooks : \/ status'[g] = status[g]
                          \/ Known(g) /\ status'[g] = "failing"
    <2>1. CASE ~Known(h)
      <3>1. status' = status
        BY <2>1 DEF Answer, Count
      <3> QED
        BY <3>1
    <2>2. CASE Known(h)
      <3>1. \E st \in {"failing", status[h]} : status' = [status EXCEPT ![h] = st]
        BY <2>2 DEF Answer, Count
      <3>2. \A g \in Hooks : \/ status'[g] = status[g]
                             \/ g = h /\ status'[g] = "failing"
        BY <3>1 DEF Inv, TypeOK
      <3> QED
        BY <2>2, <3>2
    <2> QED
      BY <2>1, <2>2
  <1>12. \A g \in Hooks : Known(g)' <=> Known(g)
    BY <1>11 DEF Known
  <1>13. \A g \in Hooks : status'[g] = "new" => status[g] = "new"
    BY <1>11
  <1>14. \A g \in Hooks : g # h => /\ successes'[g] = successes[g]
                                   /\ failures'[g] = failures[g]
                                   /\ consecutive'[g] = consecutive[g]
    <2>1. CASE ~Known(h)
      BY <2>1 DEF Answer, Count, stats
    <2>2. CASE Known(h)
      <3>1. \E c, u, f : /\ consecutive' = [consecutive EXCEPT ![h] = c]
                         /\ successes' = [successes EXCEPT ![h] = u]
                         /\ failures' = [failures EXCEPT ![h] = f]
        BY SMTT(30), <2>2 DEF Answer, Count
      <3> QED
        BY <3>1 DEF Inv, TypeOK
    <2> QED
      BY <2>1, <2>2
  <1>15. FreshIsBlank' /\ DispatchedOnly'
    <2>1. events' = events
      BY DEF Answer
    <2>2. DispatchedOnly'
      BY <1>5, <1>9, <2>1 DEF Inv, DispatchedOnly
    <2>3. FreshIsBlank'
      <3> SUFFICES ASSUME NEW g \in Hooks, status'[g] = "new"
                   PROVE  /\ log'[g] = <<>>
                          /\ successes'[g] = 0 /\ failures'[g] = 0 /\ consecutive'[g] = 0
                          /\ \A k \in 1..MaxEvents : phase'[g][k] = "none"
        BY DEF FreshIsBlank
      <3>1. status[g] = "new" /\ g # h
        BY <1>5, <1>13
      <3> QED
        BY <1>6, <1>9, <1>14, <3>1 DEF Inv, FreshIsBlank
    <2> QED
      BY <2>2, <2>3
  <1>16. LogIsCapped'
    BY <1>3, <1>6 DEF Inv, LogIsCapped
  <1>17. LogIsBehind'
    <2> SUFFICES ASSUME NEW g \in Hooks, NEW i \in DOMAIN log'[g]
                 PROVE  /\ phase'[g][log'[g][i].n] # "none"
                        /\ phase'[g][log'[g][i].n] # "done" =>
                              /\ ~log'[g][i].ok
                              /\ log'[g][i].attempt < attempt'[g][log'[g][i].n]
      BY DEF LogIsBehind
    <2>1. CASE g # h
      <3>1. log'[g] = log[g] /\ i \in DOMAIN log[g] /\ log[g][i].n \in 1..MaxEvents
        BY <1>6, <2>1, EntryType DEF Inv
      <3>2. /\ phase'[g][log[g][i].n] = phase[g][log[g][i].n]
            /\ attempt'[g][log[g][i].n] = attempt[g][log[g][i].n]
        BY <1>9, <2>1, <3>1
      <3> QED
        BY <3>1, <3>2 DEF Inv, LogIsBehind
    <2>2. CASE g = h
      <3>1. i \in DOMAIN t /\ log'[g][i] = t[i]
        BY <1>6, <2>2
      <3>2. CASE i = Len(t) /\ t[i] = e
        BY <1>1, <1>9, <2>2, <3>1, <3>2
      <3>3. CASE \E d \in {0, 1} : i + d \in DOMAIN s /\ t[i] = s[i + d]
        <4>1. PICK d \in {0, 1} : i + d \in DOMAIN s /\ t[i] = s[i + d]
          BY <3>3
        <4> DEFINE k == s[i + d].n
        <4>2. /\ k \in 1..MaxEvents /\ s[i + d].attempt \in Nat
              /\ attempt[h][k] \in Nat
          <5>1. k \in 1..MaxEvents /\ s[i + d].attempt \in Nat
            BY <4>1, EntryType DEF Inv
          <5> QED
            BY SMTT(30), <1>7, <5>1
        <4>3. /\ phase[h][k] # "none"
              /\ phase[h][k] # "done" => ~s[i + d].ok /\ s[i + d].attempt < attempt[h][k]
          BY <4>1 DEF Inv, LogIsBehind
        <4>4. phase'[h][k] # "none"
              /\ (phase'[h][k] # "done" => ~s[i + d].ok /\ s[i + d].attempt < attempt'[h][k])
          BY <1>5, <1>9, <4>2, <4>3
        <4> QED
          BY <2>2, <3>1, <4>1, <4>4
      <3> QED
        BY <1>4, <3>1, <3>2, <3>3
    <2> QED
      BY <2>1, <2>2
  <1>18. RetriesFollowFailures'
    <2> SUFFICES ASSUME NEW g \in Hooks, NEW i \in DOMAIN log'[g], NEW j \in DOMAIN log'[g],
                        i < j, log'[g][i].n = log'[g][j].n
                 PROVE  ~log'[g][i].ok /\ log'[g][i].attempt < log'[g][j].attempt
      BY DEF RetriesFollowFailures
    <2>1. CASE g # h
      BY <1>6, <2>1 DEF Inv, RetriesFollowFailures
    <2>2. CASE g = h
      <3>1. i \in DOMAIN t /\ j \in DOMAIN t /\ log'[g] = t /\ i # Len(t)
        BY <1>3, <1>6, <2>2
      <3>2. PICK d \in {0, 1} : i + d \in DOMAIN s /\ t[i] = s[i + d] /\ (d = 0 <=> Len(s) < LogCap)
        BY <1>4, <3>1
      <3>3. CASE j = Len(t) /\ t[j] = e
        BY SMTT(30), <1>5, <3>1, <3>2, <3>3 DEF Inv, LogIsBehind
      <3>4. CASE \E c \in {0, 1} : j + c \in DOMAIN s /\ t[j] = s[j + c] /\ (c = 0 <=> Len(s) < LogCap)
        <4>1. j + d \in DOMAIN s /\ t[j] = s[j + d]
          BY <3>2, <3>4
        <4>2. i + d < j + d
          BY <1>2, <1>3, <3>1
        <4>3. s[i + d].n = s[j + d].n
          BY <3>1, <3>2, <4>1
        <4>4. ~s[i + d].ok /\ s[i + d].attempt < s[j + d].attempt
          BY <3>2, <4>1, <4>2, <4>3 DEF Inv, RetriesFollowFailures
        <4> QED
          BY <3>1, <3>2, <4>1, <4>4
      <3> QED
        BY <1>4, <3>1, <3>3, <3>4
    <2> QED
      BY <2>1, <2>2
  <1>19. LogMatchesCounters'
    <2> SUFFICES ASSUME NEW g \in Hooks, Known(g)
                 PROVE  /\ Len(log'[g]) = IF successes'[g] + failures'[g] < LogCap
                                          THEN successes'[g] + failures'[g] ELSE LogCap
                        /\ EndsInRun(log'[g], consecutive'[g])
      BY <1>12 DEF LogMatchesCounters
    <2>1. CASE g # h
      BY <1>6, <1>14, <2>1 DEF Inv, LogMatchesCounters
    <2>2. CASE g = h
      <3>1. /\ consecutive'[h] = FailuresInARow(h, ok)
            /\ successes'[h] = IF ok THEN successes[h] + 1 ELSE successes[h]
            /\ failures'[h] = IF ok THEN failures[h] ELSE failures[h] + 1
        BY <2>2 DEF Answer, Count, Inv, TypeOK
      <3>2. successes[h] \in Nat /\ failures[h] \in Nat /\ consecutive[h] \in Nat
        BY DEF Inv, TypeOK
      <3>3. /\ Len(s) = IF successes[h] + failures[h] < LogCap
                        THEN successes[h] + failures[h] ELSE LogCap
            /\ EndsInRun(s, consecutive[h])
        BY <2>2 DEF Inv, LogMatchesCounters
      <3>4. Len(t) = IF successes'[h] + failures'[h] < LogCap
                     THEN successes'[h] + failures'[h] ELSE LogCap
        <4>1. Len(t) \in Nat
          BY <1>3
        <4>2. successes'[h] + failures'[h] = successes[h] + failures[h] + 1
          BY <3>1, <3>2
        <4> QED
          BY <1>2, <1>3, <3>2, <3>3, <4>1, <4>2
      <3>5. EndsInRun(t, consecutive'[h])
        <4>1. e.ok = ok
          OBVIOUS
        <4>2. consecutive'[h] = IF e.ok THEN 0 ELSE consecutive[h] + 1
          BY <3>1, <4>1 DEF FailuresInARow
        <4> HIDE DEF e, s
        <4> QED
          BY <1>2, <3>2, <3>3, <4>2, PushedRun DEF t
      <3> QED
        BY <1>6, <2>2, <3>4, <3>5
    <2> QED
      BY <2>1, <2>2
  <1>20. EventsStayWithTheirOwner'
    BY <1>5, <1>9 DEF Inv, EventsStayWithTheirOwner
  <1> QED
    BY <1>10, <1>15, <1>16, <1>17, <1>18, <1>19, <1>20 DEF Inv

LEMMA NextInv == Inv /\ [Next]_vars => Inv'
  <1> SUFFICES ASSUME Inv, [Next]_vars PROVE Inv'
    OBVIOUS
  <1>1. CASE UNCHANGED vars
    <2>1. /\ UNCHANGED <<status, subscribed, successes, failures, consecutive>>
          /\ UNCHANGED <<log, logged, phase, attempt, events>>
      BY <1>1 DEF vars
    <2>2. TypeOK' /\ FreshIsBlank' /\ DispatchedOnly' /\ LogIsCapped'
      BY <2>1 DEF Inv, TypeOK, FreshIsBlank, DispatchedOnly, LogIsCapped
    <2>3. LogIsBehind' /\ RetriesFollowFailures' /\ EventsStayWithTheirOwner'
      BY <2>1 DEF Inv, LogIsBehind, RetriesFollowFailures, EventsStayWithTheirOwner
    <2>4. LogMatchesCounters'
      BY <2>1 DEF Inv, LogMatchesCounters, Known
    <2> QED
      BY <2>2, <2>3, <2>4 DEF Inv
  <1>2. ASSUME NEW h \in Hooks, Ping(h) PROVE Inv'
    BY <1>2, DispatchInv DEF Ping
  <1> QED
    BY <1>1, <1>2, CreateInv, UpdateInv, DeleteInv, RetryInv, DispatchInv, AnswerInv DEF Next

THEOREM Invariance == Spec => []Inv
  BY InitInv, NextInv, PTL DEF Spec

\* The log and the counters of every webhook agree, for any number of webhooks,
\* events and attempts and any cap: the code of deliverWithRetry.
THEOREM LogsAreExact == Spec => []LogMatchesCounters
  <1>1. Inv => LogMatchesCounters
    BY DEF Inv
  <1> QED
    BY <1>1, Invariance, PTL

\* A delivery is retried after failures only, with a new number each time.
THEOREM RetriesAreEarned == Spec => []RetriesFollowFailures
  <1>1. Inv => RetriesFollowFailures
    BY DEF Inv
  <1> QED
    BY <1>1, Invariance, PTL

\* No event of dispatchWebhookEvent reaches the webhooks of two owners.
THEOREM OwnersAreSeparate == Spec => []EventsStayWithTheirOwner
  <1>1. Inv => EventsStayWithTheirOwner
    BY DEF Inv
  <1> QED
    BY <1>1, Invariance, PTL

\* The store is sound: log, counters and owners, whatever is paused, resumed,
\* deleted or answered meanwhile, for every value of the constants.
THEOREM StoreSoundness == Spec => []StoreIsSound
  <1>1. Inv => StoreIsSound
    BY DEF Inv, StoreIsSound
  <1> QED
    BY <1>1, Invariance, PTL

\* Only a full run of failures makes a webhook failing, and no answer ends that.
THEOREM FailingNeedsARun == Spec => FailingIsEarned
  <1> DEFINE Earned ==
        \A h \in Hooks :
          /\ status'[h] = "failing" /\ status[h] # "failing" =>
              consecutive'[h] >= FailLimit /\ failures'[h] = failures[h] + 1
          /\ status[h] = "failing" /\ status'[h] = "active" => log' = log
  <1>1. TypeOK /\ [Next]_vars => [Earned]_vars
    <2> SUFFICES ASSUME TypeOK, Next PROVE Earned
      OBVIOUS
    <2>1. ASSUME NEW h \in Hooks, NEW wants \in BOOLEAN, CreateWebhook(h, wants) PROVE Earned
      BY <2>1 DEF CreateWebhook, TypeOK
    <2>2. ASSUME NEW h \in Hooks, NEW to, NEW wants \in BOOLEAN, UpdateWebhook(h, to, wants)
          PROVE  Earned
      BY <2>2 DEF UpdateWebhook, TypeOK
    <2>3. ASSUME NEW h \in Hooks, DeleteWebhook(h) PROVE Earned
      BY <2>3 DEF DeleteWebhook, TypeOK
    <2>4. ASSUME NEW owner \in Owners, Dispatch(owner) PROVE Earned
      BY <2>4 DEF Dispatch
    <2>5. ASSUME NEW h \in Hooks, NEW n \in 1..MaxEvents, Retry(h, n) PROVE Earned
      BY <2>5 DEF Retry
    <2>6. ASSUME NEW h \in Hooks, NEW n \in 1..MaxEvents, NEW ok \in BOOLEAN, Answer(h, n, ok)
          PROVE  Earned
      <3>1. CASE Known(h)
        <4>1. /\ consecutive' = [consecutive EXCEPT ![h] = FailuresInARow(h, ok)]
              /\ failures' = [failures EXCEPT ![h] = IF ok THEN @ ELSE @ + 1]
              /\ status' = [status EXCEPT
                    ![h] = IF FailuresInARow(h, ok) >= FailLimit THEN "failing" ELSE @]
          BY <2>6, <3>1 DEF Answer, Count
        <4>2. FailuresInARow(h, ok) >= FailLimit => ~ok
          BY DEF FailuresInARow
        <4> QED
          BY <4>1, <4>2 DEF TypeOK
      <3>2. CASE ~Known(h)
        BY <2>6, <3>2 DEF Answer, Count
      <3> QED
        BY <3>1, <3>2
    <2>7. ASSUME NEW h \in Hooks, Ping(h) PROVE Earned
      BY <2>4, <2>7, HooksAssumption DEF Ping
    <2> QED
      BY <2>1, <2>2, <2>3, <2>4, <2>5, <2>6, <2>7 DEF Next
  <1>2. Inv => TypeOK
    BY DEF Inv
  <1> QED
    BY <1>1, <1>2, Invariance, PTL DEF Spec, FailingIsEarned
=============================================================================
