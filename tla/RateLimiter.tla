---------------------------- MODULE RateLimiter -----------------------------
(* apps/web/security/rate-limiter.js: the counter every request to /api/    *)
(* passes before its route is looked at (server.js).                        *)
(*                                                                          *)
(* The store maps a client and a group of routes to a counter and to the    *)
(* time its window began; a window that is over begins anew with the next   *)
(* request, and a timer drops the windows that are over.  Time is counted   *)
(* in ticks, Second of them to the second that Retry-After is told in.      *)
EXTENDS Integers, Sequences, FiniteSets

CONSTANTS
    Clients,        \* client addresses
    Groups,         \* groups of routes: upload, job, poll, default
    MaxRequests,    \* ROUTE_LIMITS: requests per window of each group
    WindowTicks,    \* WINDOW_MS
    Second,         \* ticks to a second
    MaxTime,        \* bound on the clock
    NoWindow,       \* no entry in the store
    Never           \* told nothing

ASSUME LimiterAssumption ==
    /\ MaxRequests \in [Groups -> Nat \ {0}]
    /\ WindowTicks \in Nat \ {0} /\ Second \in Nat \ {0} /\ MaxTime \in Nat
    /\ NoWindow \notin [count : Nat, windowStart : Nat] /\ Never \notin Nat

VARIABLES
    now,            \* Date.now()
    store,          \* client and group -> window
    admitted,       \* history: when the requests of a client and group passed
    told            \* when a refused client and group was told to come back

limiterVars == <<now, store, admitted, told>>

Counters == Clients \X Groups

LimiterInit ==
    /\ now = 0
    /\ store = [k \in Counters |-> NoWindow]
    /\ admitted = [k \in Counters |-> <<>>]
    /\ told = [k \in Counters |-> Never]

(* A window is over when more than its length has passed since it began.    *)
Expired(window) == now - window.windowStart > WindowTicks

\* Defect: a new window begins with the next tick.
EntryAhead(k) ==
    IF store[k] = NoWindow \/ Expired(store[k]) THEN [count |-> 0, windowStart |-> now + 1]
    ELSE store[k]

(* The entry a request counts on: the live one, or a new one.               *)
Entry(k) ==
    IF store[k] = NoWindow \/ Expired(store[k]) THEN [count |-> 0, windowStart |-> now]
    ELSE store[k]

Counted(k) == [Entry(k) EXCEPT !.count = @ + 1]

Limited(k) == Counted(k).count > MaxRequests[k[2]]

\* Defect: the header tells the time that has passed, not the time left.
RetryAfterElapsed(k) == (now - Entry(k).windowStart + Second - 1) \div Second

(* The seconds of the Retry-After header, rounded up.                       *)
RetryAfterSeconds(k) ==
    LET retryAfter == WindowTicks - (now - Entry(k).windowStart)
    IN  (retryAfter + Second - 1) \div Second

(* checkRateLimit for a request that passes, and for one that does not:     *)
(* both count.                                                              *)
Admitted(k) ==
    /\ ~Limited(k)
    /\ store' = [store EXCEPT ![k] = Counted(k)]
    /\ admitted' = [admitted EXCEPT ![k] = Append(@, now)]
    /\ told' = [told EXCEPT ![k] = Never]
    /\ UNCHANGED now

Refused(k) ==
    /\ Limited(k)
    /\ store' = [store EXCEPT ![k] = Counted(k)]
    /\ told' = [told EXCEPT ![k] = now + Second * RetryAfterSeconds(k)]
    /\ UNCHANGED <<now, admitted>>

\* Defect: the timer drops every entry that is not of this tick.
DroppedEarly(k) == store[k] # NoWindow /\ now > store[k].windowStart

(* The timer that drops the entries whose window is over.                   *)
Dropped(k) == store[k] # NoWindow /\ Expired(store[k])

Prune ==
    /\ \E k \in Counters : Dropped(k)
    /\ store' = [k \in Counters |-> IF Dropped(k) THEN NoWindow ELSE store[k]]
    /\ UNCHANGED <<now, admitted, told>>

LimiterTick ==
    /\ now < MaxTime
    /\ now' = now + 1
    /\ UNCHANGED <<store, admitted, told>>

-----------------------------------------------------------------------------
LimiterTypeOK ==
    /\ now \in 0..MaxTime
    /\ \A k \in Counters :
        /\ store[k] # NoWindow =>
            /\ store[k].count \in Nat \ {0}
            /\ store[k].windowStart \in 0..now
        /\ \A i \in DOMAIN admitted[k] : admitted[k][i] \in 0..now
        /\ told[k] # Never => told[k] \in Nat

(* Whatever the windows, their restarts and the pruning do to the counters, *)
(* no stretch of time as long as a window sees more than two windows' worth *)
(* of one client's requests pass.                                           *)
BurstsAreBounded ==
    \A k \in Counters :
        \A i \in DOMAIN admitted[k] :
            Cardinality({j \in DOMAIN admitted[k] : j >= i /\ admitted[k][j] - admitted[k][i] <= WindowTicks})
                <= 2 * MaxRequests[k[2]]

(* A client that was refused and has asked nothing since the time its       *)
(* Retry-After told passes once that time is over.                          *)
WaitingIsEnough ==
    \A k \in Counters : told[k] # Never /\ now > told[k] => ~Limited(k)

(* "Each IP gets its own counter with a rolling time window"                *)
(* (rate-limiter.js:7): in a rolling window at most one window's worth of   *)
(* requests would pass.                                                     *)
WindowRolls ==
    \A k \in Counters :
        \A i \in DOMAIN admitted[k] :
            Cardinality({j \in DOMAIN admitted[k] : j >= i /\ admitted[k][j] - admitted[k][i] < WindowTicks})
                <= MaxRequests[k[2]]
=============================================================================
