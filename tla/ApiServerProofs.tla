--------------------------- MODULE ApiServerProofs ---------------------------
(* What the limiter of the API and the guard of the joins promise, for any  *)
(* number of clients and groups, any limits, windows and clock, and with    *)
(* whatever the other routes do between two requests; and that a revoked    *)
(* key stays out.                                                           *)
EXTENDS ApiServer, FiniteSetTheorems, SequenceTheorems, TLAPS

-----------------------------------------------------------------------------
(* A counter with windows, as both use it.  A[1], ..., A[n] are the times   *)
(* at which requests passed, M of them to a window of W ticks.              *)

\* The times do not decrease and none is ahead of the clock.
Ordered(A, n, time) ==
    /\ \A i \in 1..n : A[i] \in Nat /\ A[i] <= time
    /\ \A i, j \in 1..n : i <= j => A[i] <= A[j]

\* Of 2M + 1 requests in a row the last is more than W after the first.
Paced(A, n, M, W) == \A i \in 1..(n - 2 * M) : A[i + 2 * M] > A[i] + W

\* The window that began at start holds the last c requests, and of the M
\* before it none is as late as W before it.
Window(A, n, c, start, M, W) ==
    /\ c <= n
    /\ \A i \in 1..n : A[i] >= start <=> i > n - c
    /\ \A i \in 1..n : A[i] <= start + W
    /\ \A i \in 1..(n - M) : A[i + M] < start => A[i] + W < start

\* Without a window at most M passed in the last W ticks, and none just now.
Idle(A, n, time, M, W) ==
    /\ \A i \in 1..n : A[i] < time
    /\ \A i \in 1..(n - M) : A[i] + W < time

\* B is A with one more request.
Longer(B, A, n, time) == B[n + 1] = time /\ \A i \in 1..n : B[i] = A[i]

\* A window that is over leaves the counter as if there were none.
LEMMA WindowEnds ==
    ASSUME NEW A, NEW n \in Nat, NEW time \in Nat, NEW M \in Nat \ {0}, NEW W \in Nat,
           NEW c \in 0..M, NEW start \in Nat,
           Ordered(A, n, time), Window(A, n, c, start, M, W), time > start + W
    PROVE  Idle(A, n, time, M, W)
<1>1. ASSUME NEW i \in 1..n PROVE A[i] < time
    BY DEF Window, Ordered
<1>2. ASSUME NEW i \in 1..(n - M) PROVE A[i] + W < time
    <2>1. i \in 1..n /\ ~(i > n - c)
        OBVIOUS
    <2>2. A[i] \in Nat /\ A[i] < start
        BY <2>1 DEF Window, Ordered
    <2> QED BY <2>2
<1> QED BY <1>1, <1>2 DEF Idle

\* Time only takes requests out of the last W ticks.
LEMMA TimePasses ==
    ASSUME NEW A, NEW n \in Nat, NEW time \in Nat, NEW M \in Nat, NEW W \in Nat
    PROVE  /\ Ordered(A, n, time) => Ordered(A, n, time + 1)
           /\ Ordered(A, n, time) /\ Idle(A, n, time, M, W) => Idle(A, n, time + 1, M, W)
<1>1. ASSUME Ordered(A, n, time) PROVE Ordered(A, n, time + 1)
    BY <1>1 DEF Ordered
<1>2. ASSUME Ordered(A, n, time), Idle(A, n, time, M, W), NEW i \in 1..n PROVE A[i] < time + 1
    BY <1>2 DEF Ordered
<1>3. ASSUME Ordered(A, n, time), Idle(A, n, time, M, W), NEW i \in 1..(n - M) PROVE A[i] + W < time + 1
    <2>1. i \in 1..n
        OBVIOUS
    <2> QED BY <1>3, <2>1 DEF Ordered, Idle
<1> QED BY <1>1, <1>2, <1>3 DEF Idle

\* A request that passes leaves the times in order.
LEMMA OrderedLonger ==
    ASSUME NEW A, NEW B, NEW n \in Nat, NEW time \in Nat, Ordered(A, n, time), Longer(B, A, n, time)
    PROVE  Ordered(B, n + 1, time)
<1>1. \A i \in 1..(n + 1) : i = n + 1 \/ i \in 1..n
    OBVIOUS
<1>2. \A i \in 1..(n + 1) : B[i] \in Nat /\ B[i] <= time
    BY <1>1 DEF Ordered, Longer
<1>3. ASSUME NEW i \in 1..(n + 1), NEW j \in 1..(n + 1), i <= j PROVE B[i] <= B[j]
    <2>1. CASE j = n + 1
        BY <2>1, <1>2 DEF Longer
    <2>2. CASE j # n + 1
        <3>1. i \in 1..n /\ j \in 1..n
            BY <2>2, <1>3
        <3> QED BY <3>1, <1>3 DEF Ordered, Longer
    <2> QED BY <2>1, <2>2
<1> QED BY <1>2, <1>3 DEF Ordered

\* The pace is kept when the request 2M before the new one is long past.
LEMMA PacedLonger ==
    ASSUME NEW A, NEW B, NEW n \in Nat, NEW time \in Nat, NEW M \in Nat \ {0}, NEW W \in Nat,
           Paced(A, n, M, W), Longer(B, A, n, time),
           \A i \in 1..n : i + 2 * M = n + 1 => A[i] + W < time
    PROVE  Paced(B, n + 1, M, W)
<1> SUFFICES ASSUME NEW i \in 1..(n + 1 - 2 * M) PROVE B[i + 2 * M] > B[i] + W
    BY DEF Paced
<1>1. i \in 1..n
    OBVIOUS
<1>2. CASE i + 2 * M = n + 1
    BY <1>1, <1>2 DEF Longer
<1>3. CASE i + 2 * M # n + 1
    <2>1. i \in 1..(n - 2 * M) /\ i + 2 * M \in 1..n
        BY <1>3
    <2> QED BY <2>1, <1>1 DEF Paced, Longer
<1> QED BY <1>2, <1>3

\* The first request of a new window.
LEMMA WindowBegins ==
    ASSUME NEW A, NEW B, NEW n \in Nat, NEW time \in Nat, NEW M \in Nat \ {0}, NEW W \in Nat,
           Ordered(A, n, time), Paced(A, n, M, W), Idle(A, n, time, M, W), Longer(B, A, n, time)
    PROVE  Paced(B, n + 1, M, W) /\ Window(B, n + 1, 1, time, M, W)
<1>1. ASSUME NEW i \in 1..n, i + 2 * M = n + 1 PROVE A[i] + W < time
    <2>1. i \in 1..(n - M)
        BY <1>1
    <2> QED BY <2>1 DEF Idle
<1>2. Paced(B, n + 1, M, W)
    BY <1>1, PacedLonger
<1>3. ASSUME NEW i \in 1..(n + 1) PROVE (B[i] >= time <=> i > n + 1 - 1) /\ B[i] <= time + W
    <2>1. CASE i = n + 1
        BY <2>1 DEF Longer
    <2>2. CASE i # n + 1
        <3>1. i \in 1..n
            BY <2>2
        <3> QED BY <3>1 DEF Longer, Idle, Ordered
    <2> QED BY <2>1, <2>2
<1>4. ASSUME NEW i \in 1..(n + 1 - M), B[i + M] < time PROVE B[i] + W < time
    <2>1. i + M # n + 1
        BY <1>4 DEF Longer
    <2>2. i \in 1..(n - M) /\ i \in 1..n
        BY <2>1
    <2> QED BY <2>2 DEF Idle, Longer
<1>5. Window(B, n + 1, 1, time, M, W)
    BY <1>3, <1>4 DEF Window
<1> QED BY <1>2, <1>5

\* One more request of the window there is.
LEMMA WindowGoesOn ==
    ASSUME NEW A, NEW B, NEW n \in Nat, NEW time \in Nat, NEW M \in Nat \ {0}, NEW W \in Nat,
           NEW c \in 0..(M - 1), NEW start \in 0..time, time <= start + W,
           Ordered(A, n, time), Paced(A, n, M, W), Window(A, n, c, start, M, W), Longer(B, A, n, time)
    PROVE  Paced(B, n + 1, M, W) /\ Window(B, n + 1, c + 1, start, M, W)
<1>1. ASSUME NEW i \in 1..n, i + 2 * M = n + 1 PROVE A[i] + W < time
    <2>1. i + M \in 1..n /\ ~(i + M > n - c) /\ i \in 1..(n - M)
        BY <1>1
    <2>2. A[i + M] < start
        BY <2>1 DEF Window, Ordered
    <2>3. A[i] + W < start /\ A[i] \in Nat
        BY <2>1, <2>2 DEF Window, Ordered
    <2> QED BY <2>3
<1>2. Paced(B, n + 1, M, W)
    BY <1>1, PacedLonger
<1>3. ASSUME NEW i \in 1..(n + 1) PROVE (B[i] >= start <=> i > n + 1 - (c + 1)) /\ B[i] <= start + W
    <2>1. CASE i = n + 1
        BY <2>1 DEF Longer
    <2>2. CASE i # n + 1
        <3>1. i \in 1..n
            BY <2>2
        <3> QED BY <3>1 DEF Longer, Window
    <2> QED BY <2>1, <2>2
<1>4. ASSUME NEW i \in 1..(n + 1 - M), B[i + M] < start PROVE B[i] + W < start
    <2>1. i + M # n + 1
        BY <1>4 DEF Longer
    <2>2. i \in 1..(n - M) /\ i \in 1..n /\ i + M \in 1..n
        BY <2>1
    <2> QED BY <2>2, <1>4 DEF Window, Longer
<1>5. Window(B, n + 1, c + 1, start, M, W)
    <2>1. c + 1 <= n + 1
        BY DEF Window
    <2> QED BY <2>1, <1>3, <1>4 DEF Window
<1> QED BY <1>2, <1>5

\* What passed within W ticks from request i on.
Burst(A, n, i, W) == {j \in 1..n : j >= i /\ A[j] - A[i] <= W}

\* At the pace kept, any W ticks see at most 2M requests.
LEMMA PaceBounds ==
    ASSUME NEW A, NEW n \in Nat, NEW time \in Nat, NEW M \in Nat \ {0}, NEW W \in Nat,
           Ordered(A, n, time), Paced(A, n, M, W), NEW i \in 1..n
    PROVE  Cardinality(Burst(A, n, i, W)) <= 2 * M
<1>1. ASSUME NEW j \in 1..n, j >= i, A[j] - A[i] <= W PROVE j \in i..(i + 2 * M - 1)
    <2>1. SUFFICES ASSUME j >= i + 2 * M PROVE FALSE
        BY <1>1
    <2>2. i \in 1..(n - 2 * M) /\ i + 2 * M \in 1..n
        BY <2>1
    <2>3. A[i + 2 * M] > A[i] + W /\ A[i + 2 * M] <= A[j]
        BY <2>1, <2>2 DEF Paced, Ordered
    <2>4. A[i] \in Nat /\ A[j] \in Nat /\ A[i + 2 * M] \in Nat
        BY <2>2 DEF Ordered
    <2> QED BY <2>3, <2>4, <1>1
<1>2. Burst(A, n, i, W) \subseteq i..(i + 2 * M - 1)
    BY <1>1 DEF Burst
<1>3. IsFiniteSet(i..(i + 2 * M - 1)) /\ Cardinality(i..(i + 2 * M - 1)) = 2 * M
    BY FS_Interval
<1>4. Cardinality(Burst(A, n, i, W)) <= Cardinality(i..(i + 2 * M - 1))
    BY <1>2, <1>3, FS_Subset
<1> QED BY <1>3, <1>4

\* What passed since the window began.
Since(A, n, start) == {i \in 1..n : A[i] >= start}

\* A window counts as many requests as it holds.
LEMMA WindowCounts ==
    ASSUME NEW A, NEW n \in Nat, NEW M \in Nat, NEW W \in Nat, NEW c \in Nat, NEW start \in Nat,
           Window(A, n, c, start, M, W)
    PROVE  Cardinality(Since(A, n, start)) = c
<1>1. Since(A, n, start) = (n - c + 1)..n
    BY DEF Window, Since
<1>2. Cardinality((n - c + 1)..n) = c
    BY FS_Interval DEF Window
<1> QED BY <1>1, <1>2

-----------------------------------------------------------------------------
(* The states of a counter: without a window, and with one that has counted *)
(* count requests, those it refused included.                               *)
Least(a, b) == IF a < b THEN a ELSE b

Closed(A, time, M, W) ==
    /\ Ordered(A, Len(A), time)
    /\ Paced(A, Len(A), M, W)
    /\ Idle(A, Len(A), time, M, W)

Open(A, time, M, W, count, start) ==
    /\ Ordered(A, Len(A), time)
    /\ Paced(A, Len(A), M, W)
    /\ start <= time
    /\ Window(A, Len(A), Least(count, M), start, M, W)

\* Appending to a sequence of times.
LEMMA AppendLonger ==
    ASSUME NEW A \in Seq(Nat), NEW time \in Nat
    PROVE  /\ Append(A, time) \in Seq(Nat)
           /\ Len(A) \in Nat /\ Len(Append(A, time)) = Len(A) + 1
           /\ Longer(Append(A, time), A, Len(A), time)
    BY DEF Longer

LEMMA OpenCloses ==
    ASSUME NEW A \in Seq(Nat), NEW time \in Nat, NEW M \in Nat \ {0}, NEW W \in Nat,
           NEW count \in Nat, NEW start \in Nat,
           Open(A, time, M, W, count, start), time > start + W
    PROVE  Closed(A, time, M, W)
<1>1. Least(count, M) \in 0..M /\ Len(A) \in Nat
    BY DEF Least
<1> QED BY <1>1, WindowEnds DEF Open, Closed

LEMMA CountersTick ==
    ASSUME NEW A \in Seq(Nat), NEW time \in Nat, NEW M \in Nat \ {0}, NEW W \in Nat,
           NEW count \in Nat, NEW start \in Nat
    PROVE  /\ Closed(A, time, M, W) => Closed(A, time + 1, M, W)
           /\ Open(A, time, M, W, count, start) => Open(A, time + 1, M, W, count, start)
<1>1. Len(A) \in Nat
    OBVIOUS
<1>2. Closed(A, time, M, W) => Closed(A, time + 1, M, W)
    BY <1>1, TimePasses DEF Closed
<1>3. start <= time => start <= time + 1
    OBVIOUS
<1>4. Ordered(A, Len(A), time) => Ordered(A, Len(A), time + 1)
    BY <1>1, TimePasses
<1>5. Open(A, time, M, W, count, start) => Open(A, time + 1, M, W, count, start)
    BY <1>3, <1>4 DEF Open
<1> QED BY <1>2, <1>5

LEMMA OpenRefuses ==
    ASSUME NEW A, NEW time, NEW M \in Nat, NEW W,
           NEW count \in Nat, NEW start, Open(A, time, M, W, count, start), count >= M
    PROVE  Open(A, time, M, W, count + 1, start)
<1>1. Least(count + 1, M) = Least(count, M)
    BY DEF Least
<1> QED BY <1>1 DEF Open

LEMMA ClosedOpens ==
    ASSUME NEW A \in Seq(Nat), NEW time \in Nat, NEW M \in Nat \ {0}, NEW W \in Nat,
           Closed(A, time, M, W)
    PROVE  Open(Append(A, time), time, M, W, 1, time)
<1> DEFINE B == Append(A, time)
           n == Len(A)
<1>1. n \in Nat /\ Len(B) = n + 1 /\ Longer(B, A, n, time)
    BY AppendLonger
<1>2. Least(1, M) = 1 /\ time <= time
    BY DEF Least
<1>3. Ordered(A, n, time) /\ Paced(A, n, M, W) /\ Idle(A, n, time, M, W)
    BY DEF Closed
<1> HIDE DEF B, n
<1>4. Ordered(B, n + 1, time)
    BY <1>1, <1>3, OrderedLonger
<1>5. Paced(B, n + 1, M, W) /\ Window(B, n + 1, 1, time, M, W)
    BY <1>1, <1>3, WindowBegins
<1>6. Open(B, time, M, W, 1, time)
    BY <1>1, <1>2, <1>4, <1>5 DEF Open
<1> QED BY <1>6 DEF B

LEMMA OpenGoesOn ==
    ASSUME NEW A \in Seq(Nat), NEW time \in Nat, NEW M \in Nat \ {0}, NEW W \in Nat,
           NEW count \in Nat, NEW start \in Nat,
           Open(A, time, M, W, count, start), count < M, time <= start + W
    PROVE  Open(Append(A, time), time, M, W, count + 1, start)
<1> DEFINE B == Append(A, time)
           n == Len(A)
<1>1. n \in Nat /\ Len(B) = n + 1 /\ Longer(B, A, n, time)
    BY AppendLonger
<1>2. Least(count, M) = count /\ Least(count + 1, M) = count + 1
    BY DEF Least
<1>3. Ordered(A, n, time) /\ Paced(A, n, M, W) /\ Window(A, n, count, start, M, W) /\ start \in 0..time
    BY <1>2 DEF Open
<1> HIDE DEF B, n
<1>4. Ordered(B, n + 1, time)
    BY <1>1, <1>3, OrderedLonger
<1>5. Paced(B, n + 1, M, W) /\ Window(B, n + 1, count + 1, start, M, W)
    <2>1. count \in 0..(M - 1)
        OBVIOUS
    <2> QED BY <1>1, <1>3, <2>1, WindowGoesOn
<1>6. Open(B, time, M, W, count + 1, start)
    BY <1>1, <1>2, <1>3, <1>4, <1>5 DEF Open
<1> QED BY <1>6 DEF B

-----------------------------------------------------------------------------
(* The limiter: every counter is closed when the store has no window for it *)
(* and open when it has one, and who was told to come back was told a time  *)
(* at which that window is over.                                            *)
Limit(k) == MaxRequests[k[2]]

Requests(k) ==
    /\ store[k] = NoWindow => Closed(admitted[k], now, Limit(k), WindowTicks)
    /\ store[k] # NoWindow =>
        Open(admitted[k], now, Limit(k), WindowTicks, store[k].count, store[k].windowStart)

Told(k) ==
    told[k] # Never /\ store[k] # NoWindow => store[k].windowStart + WindowTicks <= told[k]

LimiterTypes ==
    /\ now \in 0..MaxTime
    /\ store \in [Counters -> [count : Nat \ {0}, windowStart : Nat] \cup {NoWindow}]
    /\ admitted \in [Counters -> Seq(Nat)]
    /\ told \in [Counters -> Nat \cup {Never}]

LimiterInv == LimiterTypes /\ \A k \in Counters : Requests(k) /\ Told(k)

\* What the steps of a counter use of the types.
LEMMA CounterTypes ==
    ASSUME LimiterTypes, NEW k \in Counters
    PROVE  /\ now \in Nat /\ Limit(k) \in Nat \ {0} /\ WindowTicks \in Nat
           /\ admitted[k] \in Seq(Nat)
           /\ store[k] # NoWindow =>
                /\ store[k] \in [count : Nat \ {0}, windowStart : Nat]
                /\ store[k].count \in Nat \ {0} /\ store[k].windowStart \in Nat
           /\ told[k] \in Nat \cup {Never}
    BY LimiterAssumption DEF LimiterTypes, Counters, Limit

\* What the counter of a request is when it begins a new window, and when it
\* counts on the one there is.
LEMMA CountedFresh ==
    ASSUME LimiterTypes, NEW k \in Counters, store[k] = NoWindow \/ Expired(store[k])
    PROVE  Counted(k) = [count |-> 1, windowStart |-> now] /\ ~Limited(k)
<1>1. Entry(k) = [count |-> 0, windowStart |-> now]
    BY DEF Entry
<1>2. Counted(k) = [count |-> 1, windowStart |-> now]
    BY <1>1 DEF Counted
<1> QED BY <1>2, CounterTypes DEF Limited, Limit

LEMMA CountedOn ==
    ASSUME LimiterTypes, NEW k \in Counters, store[k] # NoWindow, ~Expired(store[k])
    PROVE  /\ Counted(k) = [count |-> store[k].count + 1, windowStart |-> store[k].windowStart]
           /\ Limited(k) <=> store[k].count + 1 > Limit(k)
           /\ Entry(k) = store[k]
           /\ now <= store[k].windowStart + WindowTicks
<1>1. Entry(k) = store[k]
    BY DEF Entry
<1>2. Counted(k) = [count |-> store[k].count + 1, windowStart |-> store[k].windowStart]
    BY <1>1, CounterTypes DEF Counted
<1>3. Limited(k) <=> store[k].count + 1 > Limit(k)
    BY <1>2 DEF Limited, Limit
<1>4. now <= store[k].windowStart + WindowTicks
    BY CounterTypes DEF Expired
<1> QED BY <1>1, <1>2, <1>3, <1>4

\* A counter that has no window, or whose window is over, is closed.
LEMMA FreshIsClosed ==
    ASSUME LimiterTypes, NEW k \in Counters, Requests(k), store[k] = NoWindow \/ Expired(store[k])
    PROVE  Closed(admitted[k], now, Limit(k), WindowTicks)
<1>1. CASE store[k] = NoWindow
    BY <1>1 DEF Requests
<1>2. CASE store[k] # NoWindow
    <2>1. now > store[k].windowStart + WindowTicks
        BY <1>2, CounterTypes DEF Expired
    <2> QED BY <1>2, <2>1, CounterTypes, OpenCloses DEF Requests
<1> QED BY <1>1, <1>2

\* Windows are no stand-in for having none.
LEMMA WindowsAreWindows ==
    \A w \in [count : Nat \ {0}, windowStart : Nat] : w # NoWindow
    BY LimiterAssumption

\* Rounding up to whole seconds tells no less than the time left.
LEMMA RoundsUp ==
    ASSUME NEW a \in Int, NEW d \in Nat \ {0}
    PROVE  (a + d - 1) \div d \in Int /\ d * ((a + d - 1) \div d) >= a
    OBVIOUS

LEMMA CounterAdmits ==
    ASSUME LimiterInv, NEW c \in Counters, Admitted(c)
    PROVE  LimiterInv'
<1> USE DEF LimiterInv
<1>t. LimiterTypes /\ Requests(c)
    OBVIOUS
<1>1. Counted(c) \in [count : Nat \ {0}, windowStart : Nat]
    <2>1. CASE store[c] = NoWindow \/ Expired(store[c])
        BY <1>t, <2>1, CountedFresh, CounterTypes
    <2>2. CASE store[c] # NoWindow /\ ~Expired(store[c])
        BY <1>t, <2>2, CountedOn, CounterTypes
    <2> QED BY <2>1, <2>2
<1>2. LimiterTypes'
    <2>1. Append(admitted[c], now) \in Seq(Nat)
        BY <1>t, CounterTypes, AppendLonger
    <2> QED BY <1>1, <1>t, <2>1 DEF LimiterTypes, Admitted
<1>3. Open(Append(admitted[c], now), now, Limit(c), WindowTicks, Counted(c).count, Counted(c).windowStart)
    <2>1. CASE store[c] = NoWindow \/ Expired(store[c])
        <3>1. Closed(admitted[c], now, Limit(c), WindowTicks)
            BY <1>t, <2>1, FreshIsClosed
        <3>2. Counted(c).count = 1 /\ Counted(c).windowStart = now
            BY <1>t, <2>1, CountedFresh
        <3> QED BY <1>t, <3>1, <3>2, CounterTypes, ClosedOpens
    <2>2. CASE store[c] # NoWindow /\ ~Expired(store[c])
        <3>1. Counted(c).count = store[c].count + 1 /\ Counted(c).windowStart = store[c].windowStart
            BY <1>t, <2>2, CountedOn
        <3>2. now <= store[c].windowStart + WindowTicks /\ store[c].count < Limit(c)
            BY <1>t, <2>2, CountedOn, CounterTypes DEF Admitted
        <3>3. Open(admitted[c], now, Limit(c), WindowTicks, store[c].count, store[c].windowStart)
            BY <1>t, <2>2 DEF Requests
        <3> QED BY <1>t, <2>2, <3>1, <3>2, <3>3, CounterTypes, OpenGoesOn
    <2> QED BY <2>1, <2>2
<1>4. ASSUME NEW k \in Counters PROVE (Requests(k) /\ Told(k))'
    <2>1. CASE k = c
        <3>1. store'[c] = Counted(c) /\ admitted'[c] = Append(admitted[c], now) /\ told'[c] = Never /\ now' = now
            BY <1>t DEF Admitted, LimiterTypes
        <3>2. Requests(c)'
            BY <3>1, <1>1, <1>3, WindowsAreWindows DEF Requests, Limit
        <3>3. Told(c)'
            BY <3>1 DEF Told
        <3> QED BY <2>1, <3>2, <3>3
    <2>2. CASE k # c
        <3>1. store'[k] = store[k] /\ admitted'[k] = admitted[k] /\ told'[k] = told[k] /\ now' = now
            BY <1>t, <2>2 DEF Admitted, LimiterTypes
        <3> QED BY <3>1 DEF Requests, Told, Limit
    <2> QED BY <2>1, <2>2
<1> QED BY <1>2, <1>4

LEMMA CounterRefuses ==
    ASSUME LimiterInv, NEW c \in Counters, Refused(c)
    PROVE  LimiterInv'
<1> USE DEF LimiterInv
<1>t. LimiterTypes /\ Requests(c)
    OBVIOUS
<1>1. store[c] # NoWindow /\ ~Expired(store[c])
    BY <1>t, CountedFresh DEF Refused
<1>2. /\ Counted(c) = [count |-> store[c].count + 1, windowStart |-> store[c].windowStart]
      /\ store[c].count >= Limit(c)
    BY <1>t, <1>1, CountedOn, CounterTypes DEF Refused
<1>3. Counted(c) \in [count : Nat \ {0}, windowStart : Nat]
    BY <1>t, <1>1, <1>2, CounterTypes
<1>4. /\ now + Second * RetryAfterSeconds(c) >= store[c].windowStart + WindowTicks
      /\ now + Second * RetryAfterSeconds(c) \in Nat
    <2> DEFINE left == WindowTicks - (now - store[c].windowStart)
               told1 == (left + Second - 1) \div Second
    <2>1. left \in Int /\ Second \in Nat \ {0} /\ now \in Nat /\ WindowTicks \in Nat
          /\ store[c].windowStart \in Nat
        BY <1>t, <1>1, CounterTypes, LimiterAssumption
    <2>2. RetryAfterSeconds(c) = told1
        BY <1>t, <1>1, CountedOn DEF RetryAfterSeconds
    <2>3. told1 \in Int /\ Second * told1 >= left
        BY <2>1, RoundsUp
    <2>4. now + left = store[c].windowStart + WindowTicks
        BY <2>1
    <2> HIDE DEF left, told1
    <2>5. Second * told1 \in Int
        BY <2>1, <2>3
    <2> QED BY <2>1, <2>2, <2>3, <2>4, <2>5
<1>5. LimiterTypes'
    BY <1>t, <1>3, <1>4 DEF LimiterTypes, Refused
<1>6. ASSUME NEW k \in Counters PROVE (Requests(k) /\ Told(k))'
    <2>1. CASE k = c
        <3>1. /\ store'[c] = Counted(c) /\ admitted'[c] = admitted[c] /\ now' = now
              /\ told'[c] = now + Second * RetryAfterSeconds(c)
            BY <1>t DEF Refused, LimiterTypes
        <3>2. Open(admitted[c], now, Limit(c), WindowTicks, store[c].count + 1, store[c].windowStart)
            BY <1>t, <1>1, <1>2, CounterTypes, OpenRefuses DEF Requests
        <3>3. Requests(c)'
            BY <3>1, <3>2, <1>2, <1>3, WindowsAreWindows DEF Requests, Limit
        <3>4. Told(c)'
            BY <3>1, <1>2, <1>4 DEF Told
        <3> QED BY <2>1, <3>3, <3>4
    <2>2. CASE k # c
        <3>1. store'[k] = store[k] /\ admitted'[k] = admitted[k] /\ told'[k] = told[k] /\ now' = now
            BY <1>t, <2>2 DEF Refused, LimiterTypes
        <3> QED BY <3>1 DEF Requests, Told, Limit
    <2> QED BY <2>1, <2>2
<1> QED BY <1>5, <1>6

LEMMA CountersPruned ==
    ASSUME LimiterInv, Prune
    PROVE  LimiterInv'
<1> USE DEF LimiterInv
<1>1. LimiterTypes'
    BY DEF LimiterTypes, Prune
<1>2. ASSUME NEW k \in Counters PROVE (Requests(k) /\ Told(k))'
    <2>1. admitted'[k] = admitted[k] /\ told'[k] = told[k] /\ now' = now
          /\ store'[k] = IF Dropped(k) THEN NoWindow ELSE store[k]
        BY DEF Prune
    <2>2. CASE Dropped(k)
        <3>1. Closed(admitted[k], now, Limit(k), WindowTicks)
            BY <2>2, FreshIsClosed DEF Dropped
        <3> QED BY <2>1, <2>2, <3>1 DEF Requests, Told, Limit
    <2>3. CASE ~Dropped(k)
        BY <2>1, <2>3 DEF Requests, Told, Limit
    <2> QED BY <2>2, <2>3
<1> QED BY <1>1, <1>2

LEMMA CountersAge ==
    ASSUME LimiterInv, LimiterTick
    PROVE  LimiterInv'
<1> USE DEF LimiterInv
<1>1. LimiterTypes'
    BY LimiterAssumption DEF LimiterTypes, LimiterTick
<1>2. ASSUME NEW k \in Counters PROVE (Requests(k) /\ Told(k))'
    <2>1. admitted' = admitted /\ told' = told /\ now' = now + 1 /\ store' = store
        BY DEF LimiterTick
    <2>2. Requests(k)'
        <3>1. CASE store[k] = NoWindow
            BY <2>1, <3>1, CounterTypes, CountersTick DEF Requests, Limit
        <3>2. CASE store[k] # NoWindow
            BY <2>1, <3>2, CounterTypes, CountersTick DEF Requests, Limit
        <3> QED BY <3>1, <3>2
    <2>3. Told(k)'
        BY <2>1 DEF Told
    <2> QED BY <2>2, <2>3
<1> QED BY <1>1, <1>2

\* What the invariant says of bursts and of waiting.
LEMMA LimiterKeepsItsWord ==
    ASSUME LimiterInv
    PROVE  LimiterTypeOK /\ BurstsAreBounded /\ WaitingIsEnough
<1> USE DEF LimiterInv
<1>1. ASSUME NEW k \in Counters
      PROVE  /\ Ordered(admitted[k], Len(admitted[k]), now)
             /\ Paced(admitted[k], Len(admitted[k]), Limit(k), WindowTicks)
             /\ Len(admitted[k]) \in Nat /\ DOMAIN admitted[k] = 1..Len(admitted[k])
    BY CounterTypes DEF Requests, Closed, Open
<1>2. LimiterTypeOK
    <2>1. now \in 0..MaxTime
        BY DEF LimiterTypes
    <2>2. ASSUME NEW k \in Counters, store[k] # NoWindow
          PROVE  store[k].count \in Nat \ {0} /\ store[k].windowStart \in 0..now
        BY <2>2, CounterTypes DEF Requests, Open
    <2>3. ASSUME NEW k \in Counters, NEW i \in DOMAIN admitted[k] PROVE admitted[k][i] \in 0..now
        BY SMTT(30), <1>1, CounterTypes DEF Ordered
    <2>4. ASSUME NEW k \in Counters, told[k] # Never PROVE told[k] \in Nat
        BY <2>4, CounterTypes
    <2> QED BY <2>1, <2>2, <2>3, <2>4 DEF LimiterTypeOK
<1>3. BurstsAreBounded
    <2> SUFFICES ASSUME NEW k \in Counters, NEW i \in DOMAIN admitted[k]
        PROVE Cardinality({j \in DOMAIN admitted[k] : j >= i /\ admitted[k][j] - admitted[k][i] <= WindowTicks})
                <= 2 * MaxRequests[k[2]]
        BY DEF BurstsAreBounded
    <2> DEFINE A == admitted[k]
               n == Len(admitted[k])
    <2>1. now \in Nat /\ Limit(k) \in Nat \ {0} /\ WindowTicks \in Nat
        BY CounterTypes
    <2>2. Ordered(A, n, now) /\ Paced(A, n, Limit(k), WindowTicks) /\ n \in Nat /\ DOMAIN A = 1..n
        BY <1>1
    <2> HIDE DEF A, n
    <2>3. i \in 1..n
        BY <2>2 DEF A
    <2>4. Cardinality(Burst(A, n, i, WindowTicks)) <= 2 * Limit(k)
        BY <2>1, <2>2, <2>3, PaceBounds
    <2> QED BY <2>2, <2>4 DEF A, Limit, Burst
<1>4. WaitingIsEnough
    <2> SUFFICES ASSUME NEW k \in Counters, told[k] # Never, now > told[k] PROVE ~Limited(k)
        BY DEF WaitingIsEnough
    <2>1. store[k] = NoWindow \/ Expired(store[k])
        BY CounterTypes DEF Told, Expired
    <2> QED BY <2>1, CountedFresh
<1> QED BY <1>2, <1>3, <1>4

-----------------------------------------------------------------------------
(* The guard of the joins: the record of an address is a window of its      *)
(* wrong guesses, which the record counts to the last.                      *)
JoinTypes ==
    /\ failedJoins \in [Guessers -> [count : Nat \ {0}, resetAt : Nat] \cup {NoRecord}]
    /\ guesses \in [Guessers -> Seq(Nat)]

Began(record) == record.resetAt - JoinWindow

Guesses(ip) ==
    /\ failedJoins[ip] = NoRecord => Closed(guesses[ip], now, MaxFailedJoins, JoinWindow)
    /\ failedJoins[ip] # NoRecord =>
        /\ Began(failedJoins[ip]) \in Nat
        /\ failedJoins[ip].count <= MaxFailedJoins
        /\ Open(guesses[ip], now, MaxFailedJoins, JoinWindow, failedJoins[ip].count, Began(failedJoins[ip]))

JoinInv == JoinTypes /\ \A ip \in Guessers : Guesses(ip)

LEMMA GuessTypes ==
    ASSUME JoinTypes, NEW ip \in Guessers
    PROVE  /\ MaxFailedJoins \in Nat \ {0} /\ JoinWindow \in Nat
           /\ guesses[ip] \in Seq(Nat)
           /\ failedJoins[ip] # NoRecord =>
                /\ failedJoins[ip] \in [count : Nat \ {0}, resetAt : Nat]
                /\ failedJoins[ip].count \in Nat \ {0} /\ failedJoins[ip].resetAt \in Nat
    BY JoinAssumption DEF JoinTypes

LEMMA RecordsAreRecords ==
    \A r \in [count : Nat \ {0}, resetAt : Nat] : r # NoRecord
    BY JoinAssumption

\* A record that is over is forgotten, which closes the window.
LEMMA ForgottenIsClosed ==
    ASSUME JoinInv, now \in Nat, NEW ip \in Guessers, Forgotten(ip, now) = NoRecord
    PROVE  Closed(guesses[ip], now, MaxFailedJoins, JoinWindow)
<1>t. JoinTypes /\ Guesses(ip)
    BY DEF JoinInv
<1>1. CASE failedJoins[ip] = NoRecord
    BY <1>t, <1>1 DEF Guesses
<1>2. CASE failedJoins[ip] # NoRecord
    <2>1. now > failedJoins[ip].resetAt
        BY <1>2 DEF Forgotten, Over
    <2>2. now > Began(failedJoins[ip]) + JoinWindow /\ Began(failedJoins[ip]) \in Nat
        BY <1>t, <1>2, <2>1, GuessTypes DEF Began, Guesses
    <2>3. Open(guesses[ip], now, MaxFailedJoins, JoinWindow, failedJoins[ip].count, Began(failedJoins[ip]))
        BY <1>t, <1>2 DEF Guesses
    <2> QED BY <1>t, <1>2, <2>2, <2>3, GuessTypes, OpenCloses
<1> QED BY <1>1, <1>2

LEMMA GuessMisses ==
    ASSUME JoinInv, now \in Nat, NEW ip \in Guessers, JoinMisses(ip, now), now' = now
    PROVE  JoinInv'
<1> DEFINE r == Recorded(Forgotten(ip, now), now)
<1>t. JoinTypes /\ Guesses(ip)
    BY DEF JoinInv
<1>1. /\ r \in [count : Nat \ {0}, resetAt : Nat]
      /\ Began(r) \in Nat /\ r.count <= MaxFailedJoins
      /\ Open(Append(guesses[ip], now), now, MaxFailedJoins, JoinWindow, r.count, Began(r))
    <2>1. CASE Forgotten(ip, now) = NoRecord
        <3>1. r = [count |-> 1, resetAt |-> now + JoinWindow]
            BY <2>1 DEF Recorded
        <3>2. Began(r) = now /\ r.count = 1 /\ r \in [count : Nat \ {0}, resetAt : Nat]
            BY <1>t, <3>1, GuessTypes DEF Began
        <3>3. Open(Append(guesses[ip], now), now, MaxFailedJoins, JoinWindow, 1, now)
            BY <1>t, <2>1, GuessTypes, ForgottenIsClosed, ClosedOpens
        <3>4. 1 <= MaxFailedJoins
            BY JoinAssumption
        <3> QED BY <3>2, <3>3, <3>4
    <2>2. CASE Forgotten(ip, now) # NoRecord
        <3> DEFINE f == failedJoins[ip]
        <3>1. Forgotten(ip, now) = f /\ f # NoRecord /\ ~(now > f.resetAt)
            BY <2>2 DEF Forgotten, Over
        <3>2. f.count < MaxFailedJoins
            BY <1>t, <3>1, GuessTypes DEF JoinMisses, JoinRateLimited, Over
        <3>3. r = [count |-> f.count + 1, resetAt |-> f.resetAt]
            BY <1>t, <2>2, <3>1, GuessTypes DEF Recorded
        <3>4. /\ Began(r) = Began(f) /\ Began(f) \in Nat /\ r.count = f.count + 1
              /\ r \in [count : Nat \ {0}, resetAt : Nat]
            BY <1>t, <3>1, <3>3, GuessTypes DEF Began, Guesses
        <3>5. now <= Began(f) + JoinWindow
            BY <1>t, <3>1, GuessTypes DEF Began
        <3>6. Open(guesses[ip], now, MaxFailedJoins, JoinWindow, f.count, Began(f))
            BY <1>t, <3>1 DEF Guesses
        <3>7. f.count \in Nat /\ f.count + 1 <= MaxFailedJoins
            BY <1>t, <3>1, <3>2, GuessTypes
        <3> HIDE DEF f, r
        <3>8. Open(Append(guesses[ip], now), now, MaxFailedJoins, JoinWindow, f.count + 1, Began(f))
            BY <1>t, <3>2, <3>4, <3>5, <3>6, <3>7, GuessTypes, OpenGoesOn
        <3> QED BY <3>4, <3>7, <3>8 DEF r
    <2> QED BY <2>1, <2>2
<1>2. /\ failedJoins' = [failedJoins EXCEPT ![ip] = r]
      /\ guesses' = [guesses EXCEPT ![ip] = Append(@, now)]
    BY DEF JoinMisses
<1> HIDE DEF r
<1>3. JoinTypes'
    <2>1. Append(guesses[ip], now) \in Seq(Nat)
        BY <1>t, GuessTypes, AppendLonger
    <2> QED BY <1>t, <1>1, <1>2, <2>1 DEF JoinTypes
<1>4. ASSUME NEW other \in Guessers PROVE Guesses(other)'
    <2>1. CASE other = ip
        <3>1. failedJoins'[ip] = r /\ guesses'[ip] = Append(guesses[ip], now)
            BY <1>t, <1>2 DEF JoinTypes
        <3> QED BY <2>1, <3>1, <1>1, RecordsAreRecords DEF Guesses, Began
    <2>2. CASE other # ip
        <3>1. failedJoins'[other] = failedJoins[other] /\ guesses'[other] = guesses[other]
            BY <1>t, <1>2, <2>2 DEF JoinTypes
        <3> QED BY <3>1 DEF Guesses, Began, JoinInv
    <2> QED BY <2>1, <2>2
<1> QED BY <1>3, <1>4 DEF JoinInv

\* Records are only forgotten.
LEMMA GuessesForgotten ==
    ASSUME JoinInv, now \in Nat, now' = now, guesses' = guesses,
           failedJoins' \in [Guessers -> [count : Nat \ {0}, resetAt : Nat] \cup {NoRecord}],
           \A ip \in Guessers : failedJoins'[ip] \in {failedJoins[ip], Forgotten(ip, now)}
    PROVE  JoinInv'
<1>1. JoinTypes'
    BY DEF JoinInv, JoinTypes
<1>2. ASSUME NEW ip \in Guessers PROVE Guesses(ip)'
    <2>1. CASE failedJoins'[ip] = failedJoins[ip]
        BY <2>1 DEF Guesses, Began, JoinInv
    <2>2. CASE failedJoins'[ip] # failedJoins[ip]
        <3>1. failedJoins'[ip] = NoRecord /\ Forgotten(ip, now) = NoRecord
            BY <2>2 DEF Forgotten
        <3> QED BY <3>1, ForgottenIsClosed DEF Guesses
    <2> QED BY <2>1, <2>2
<1> QED BY <1>1, <1>2 DEF JoinInv

LEMMA JoinSteps ==
    ASSUME JoinInv, now \in Nat, NEW ip \in Guessers,
           JoinMisses(ip, now) \/ JoinFinds(ip, now) \/ JoinRefused(ip, now), now' = now
    PROVE  JoinInv'
<1>t. JoinTypes
    BY DEF JoinInv
<1>1. CASE JoinMisses(ip, now)
    BY <1>1, GuessMisses
<1>2. CASE JoinFinds(ip, now)
    <2>1. \A other \in Guessers : failedJoins'[other] \in {failedJoins[other], Forgotten(other, now)}
        BY <1>t, <1>2 DEF JoinFinds, JoinTypes
    <2>2. failedJoins' \in [Guessers -> [count : Nat \ {0}, resetAt : Nat] \cup {NoRecord}]
        BY <1>t, <1>2 DEF JoinFinds, JoinTypes, Forgotten
    <2> QED BY <1>2, <2>1, <2>2, GuessesForgotten DEF JoinFinds
<1>3. CASE JoinRefused(ip, now)
    BY <1>3, <1>t, GuessesForgotten DEF JoinRefused, joinVars, JoinTypes
<1> QED BY <1>1, <1>2, <1>3

LEMMA JoinCleans ==
    ASSUME JoinInv, now \in Nat, CleanRecords(now), now' = now
    PROVE  JoinInv'
<1>1. \A ip \in Guessers : failedJoins'[ip] = Forgotten(ip, now)
    BY DEF CleanRecords
<1>2. failedJoins' \in [Guessers -> [count : Nat \ {0}, resetAt : Nat] \cup {NoRecord}]
    BY DEF CleanRecords, JoinInv, JoinTypes, Forgotten
<1> QED BY <1>1, <1>2, GuessesForgotten DEF CleanRecords

LEMMA GuessesAge ==
    ASSUME JoinInv, now \in Nat, now' = now + 1, UNCHANGED joinVars
    PROVE  JoinInv'
<1>1. JoinTypes'
    BY DEF JoinInv, JoinTypes, joinVars
<1>2. ASSUME NEW ip \in Guessers PROVE Guesses(ip)'
    <2>t. JoinTypes /\ Guesses(ip) /\ failedJoins' = failedJoins /\ guesses' = guesses
        BY DEF JoinInv, joinVars
    <2>1. CASE failedJoins[ip] = NoRecord
        <3>1. Closed(guesses[ip], now + 1, MaxFailedJoins, JoinWindow)
            BY <2>t, <2>1, GuessTypes, CountersTick DEF Guesses
        <3> QED BY <2>t, <2>1, <3>1 DEF Guesses
    <2>2. CASE failedJoins[ip] # NoRecord
        <3>1. Open(guesses[ip], now + 1, MaxFailedJoins, JoinWindow, failedJoins[ip].count, Began(failedJoins[ip]))
            BY <2>t, <2>2, GuessTypes, CountersTick DEF Guesses
        <3> QED BY <2>t, <2>2, <3>1 DEF Guesses, Began
    <2> QED BY <2>1, <2>2
<1> QED BY <1>1, <1>2 DEF JoinInv

LEMMA GuardKeepsItsWord ==
    ASSUME JoinInv, now \in Nat
    PROVE  GuessesAreBounded
<1> SUFFICES ASSUME NEW ip \in Guessers
    PROVE /\ \A i \in DOMAIN guesses[ip] :
                Cardinality({j \in DOMAIN guesses[ip] : j >= i /\ guesses[ip][j] - guesses[ip][i] <= JoinWindow})
                    <= 2 * MaxFailedJoins
          /\ failedJoins[ip] # NoRecord =>
                failedJoins[ip].count =
                    Cardinality({j \in DOMAIN guesses[ip] : guesses[ip][j] >= failedJoins[ip].resetAt - JoinWindow})
    BY DEF GuessesAreBounded
<1> DEFINE A == guesses[ip]
           n == Len(A)
<1>t. JoinTypes /\ Guesses(ip) /\ MaxFailedJoins \in Nat \ {0} /\ JoinWindow \in Nat
    BY GuessTypes DEF JoinInv
<1>1. /\ Ordered(A, n, now) /\ Paced(A, n, MaxFailedJoins, JoinWindow)
      /\ n \in Nat /\ DOMAIN A = 1..n
    BY <1>t, GuessTypes DEF Guesses, Closed, Open
<1>2. ASSUME NEW i \in DOMAIN A
      PROVE  Cardinality({j \in DOMAIN A : j >= i /\ A[j] - A[i] <= JoinWindow}) <= 2 * MaxFailedJoins
    <2> HIDE DEF A, n
    <2>1. i \in 1..n
        BY <1>1
    <2>2. Cardinality(Burst(A, n, i, JoinWindow)) <= 2 * MaxFailedJoins
        BY <1>1, <1>t, <2>1, PaceBounds
    <2> QED BY <1>1, <2>2 DEF Burst
<1>3. ASSUME failedJoins[ip] # NoRecord
      PROVE  failedJoins[ip].count = Cardinality({j \in DOMAIN A : A[j] >= failedJoins[ip].resetAt - JoinWindow})
    <2>1. Least(failedJoins[ip].count, MaxFailedJoins) = failedJoins[ip].count
        BY <1>t, <1>3, GuessTypes DEF Least, Guesses
    <2>2. /\ Window(A, n, failedJoins[ip].count, Began(failedJoins[ip]), MaxFailedJoins, JoinWindow)
          /\ Began(failedJoins[ip]) \in Nat /\ failedJoins[ip].count \in Nat
        BY <1>t, <1>3, <2>1, GuessTypes DEF Guesses, Open
    <2> HIDE DEF A, n
    <2>3. Cardinality(Since(A, n, Began(failedJoins[ip]))) = failedJoins[ip].count
        BY <1>t, <1>1, <2>2, WindowCounts
    <2> QED BY <1>1, <2>3 DEF Since, Began
<1> QED BY <1>2, <1>3

-----------------------------------------------------------------------------
(* The keys: whoever holds a record of a key is the account that made it,   *)
(* and the log is no longer than it may be.                                 *)
KeyRecords ==
    [ownerId : {SignedIn}, status : {"active", "revoked"}, reads : BOOLEAN, requestCount : Nat, expiresAt : Nat]

AuditEntries ==
    [actor : Credentials, key : KeyIds \cup {NoKey},
     event : {"auth.invalid_key", "auth.api_key_used", "api_key.created", "api_key.listed", "api_key.revoked"},
     outcome : {"failure", "blocked", "success"}]

KeysInv ==
    /\ Created \subseteq KeyIds
    /\ keyStore \in [Created -> KeyRecords]
    /\ auditLog \in Seq(AuditEntries) /\ Len(auditLog) <= MaxAudit
    /\ answer \in [credential : Credentials, status : {0, 200, 401, 403}]

\* The log makes room.
LEMMA LogStaysShort ==
    ASSUME KeysInv, NEW entry \in AuditEntries, Logged(entry)
    PROVE  auditLog' \in Seq(AuditEntries) /\ Len(auditLog') <= MaxAudit
<1> DEFINE log == Append(auditLog, entry)
<1>1. log \in Seq(AuditEntries) /\ Len(log) = Len(auditLog) + 1 /\ Len(auditLog) \in Nat /\ log # <<>>
    BY DEF KeysInv
<1>2. Tail(log) \in Seq(AuditEntries) /\ Len(Tail(log)) = Len(log) - 1
    BY <1>1
<1>3. auditLog' = IF Len(log) > MaxAudit THEN Tail(log) ELSE log
    BY DEF Logged
<1>4. MaxAudit \in Nat /\ Len(auditLog) <= MaxAudit
    BY AuditAssumption DEF KeysInv
<1> HIDE DEF log
<1> QED BY <1>1, <1>2, <1>3, <1>4

\* Entries are entries.
LEMMA EntriesAreEntries ==
    ASSUME NEW actor \in Credentials, NEW key \in KeyIds \cup {NoKey},
           NEW event \in {"auth.invalid_key", "auth.api_key_used", "api_key.created", "api_key.listed",
                          "api_key.revoked"},
           NEW outcome \in {"failure", "blocked", "success"}
    PROVE  Entry4(actor, key, event, outcome) \in AuditEntries
    BY DEF Entry4, AuditEntries

LEMMA OwnersAreCredentials ==
    /\ \A credential : OwnerOf(credential) \in Credentials
    /\ Nobody \in Credentials /\ SignedIn \in Credentials
    BY DEF OwnerOf, Credentials, Bearers

LEMMA MeKeepsKeys ==
    ASSUME KeysInv, NEW bearer \in Bearers, NEW time \in Nat, MeWithBearer(bearer, time)
    PROVE  KeysInv'
<1>1. answer' \in [credential : Credentials, status : {0, 200, 401, 403}]
    BY DEF MeWithBearer, Answered, Credentials
<1>2. CASE ~Authentic(bearer, time) /\ Logged(Entry4(Nobody, NoKey, "auth.invalid_key", "failure"))
           /\ UNCHANGED keyStore
    <2>1. Entry4(Nobody, NoKey, "auth.invalid_key", "failure") \in AuditEntries
        BY EntriesAreEntries, OwnersAreCredentials
    <2> QED BY <1>1, <1>2, <2>1, LogStaysShort DEF KeysInv, Created
<1>3. CASE Authentic(bearer, time) /\ CountUse(bearer)
    <2>1. bearer \in Created /\ bearer \in KeyIds /\ keyStore[bearer].ownerId = SignedIn
        BY <1>3 DEF Authentic, KeysInv, KeyRecords
    <2>2. keyStore[bearer] \in KeyRecords
        BY <2>1 DEF KeysInv
    <2>3. [keyStore[bearer] EXCEPT !.requestCount = @ + 1] \in KeyRecords
        BY <2>2 DEF KeyRecords
    <2>4. Created' = Created /\ keyStore' \in [Created -> KeyRecords]
        BY <1>3, <2>1, <2>3 DEF CountUse, KeysInv, Created
    <2>5. \E entry \in AuditEntries : Logged(entry)
        <3>1. /\ Entry4(keyStore[bearer].ownerId, bearer, "auth.invalid_key", "blocked") \in AuditEntries
              /\ Entry4(keyStore[bearer].ownerId, bearer, "auth.api_key_used", "success") \in AuditEntries
            BY <2>1, EntriesAreEntries, OwnersAreCredentials
        <3> QED BY <1>3, <3>1 DEF MeWithBearer
    <2>6. auditLog' \in Seq(AuditEntries) /\ Len(auditLog') <= MaxAudit
        BY <2>5, LogStaysShort
    <2> QED BY <1>1, <2>4, <2>6 DEF KeysInv
<1> QED BY <1>2, <1>3 DEF MeWithBearer

LEMMA CreateKeepsKeys ==
    ASSUME KeysInv, NEW credential \in Credentials, NEW valid \in BOOLEAN, NEW k \in KeyIds, NEW reads \in BOOLEAN,
           NEW expiresAt \in Nat, CreateKey(credential, valid, k, reads, expiresAt)
    PROVE  KeysInv'
<1>1. answer' \in [credential : Credentials, status : {0, 200, 401, 403}]
    BY OwnersAreCredentials DEF CreateKey, Silent
<1>2. CASE Logged(Entry4(OwnerOf(credential), NoKey, "api_key.created", "failure")) /\ UNCHANGED keyStore
    <2>1. Entry4(OwnerOf(credential), NoKey, "api_key.created", "failure") \in AuditEntries
        BY EntriesAreEntries, OwnersAreCredentials
    <2> QED BY <1>1, <1>2, <2>1, LogStaysShort DEF KeysInv, Created
<1>3. CASE UNCHANGED <<keyStore, auditLog>>
    BY <1>1, <1>3 DEF KeysInv, Created
<1>4. CASE /\ MayCreate(credential)
           /\ keyStore' = [i \in Created \cup {k} |->
                IF i # k THEN keyStore[i]
                ELSE [ownerId |-> OwnerOf(credential), status |-> "active", reads |-> reads,
                      requestCount |-> 0, expiresAt |-> expiresAt]]
           /\ Logged(Entry4(OwnerOf(credential), k, "api_key.created", "success"))
    <2>1. OwnerOf(credential) = SignedIn
        BY <1>4 DEF MayCreate, OwnerOf
    <2>2. [ownerId |-> OwnerOf(credential), status |-> "active", reads |-> reads,
           requestCount |-> 0, expiresAt |-> expiresAt] \in KeyRecords
        BY <2>1 DEF KeyRecords
    <2>3. keyStore' \in [Created \cup {k} -> KeyRecords]
        BY <1>4, <2>2 DEF KeysInv
    <2>4. Created' = Created \cup {k}
        BY <1>4 DEF Created
    <2>5. Entry4(OwnerOf(credential), k, "api_key.created", "success") \in AuditEntries
        BY EntriesAreEntries, OwnersAreCredentials
    <2>6. auditLog' \in Seq(AuditEntries) /\ Len(auditLog') <= MaxAudit
        BY <1>4, <2>5, LogStaysShort
    <2>7. Created \subseteq KeyIds
        BY DEF KeysInv
    <2> QED BY <1>1, <2>3, <2>4, <2>6, <2>7 DEF KeysInv
<1> QED BY <1>2, <1>3, <1>4 DEF CreateKey

LEMMA ListKeepsKeys ==
    ASSUME KeysInv, NEW credential \in Credentials, ListKeys(credential)
    PROVE  KeysInv'
<1>1. answer' \in [credential : Credentials, status : {0, 200, 401, 403}]
    BY OwnersAreCredentials DEF ListKeys, Silent
<1>2. Entry4(OwnerOf(credential), NoKey, "api_key.listed", "success") \in AuditEntries
    BY EntriesAreEntries, OwnersAreCredentials
<1>3. auditLog' \in Seq(AuditEntries) /\ Len(auditLog') <= MaxAudit
    BY <1>2, LogStaysShort DEF ListKeys
<1> QED BY <1>1, <1>3 DEF KeysInv, Created, ListKeys

LEMMA RevokeKeepsKeys ==
    ASSUME KeysInv, NEW credential \in Credentials, NEW k \in KeyIds, RevokeKey(credential, k)
    PROVE  KeysInv'
<1>1. answer' \in [credential : Credentials, status : {0, 200, 401, 403}]
    BY OwnersAreCredentials DEF RevokeKey, Silent
<1>2. CASE ~Revocable(credential, k)
    BY <1>1, <1>2 DEF KeysInv, Created, RevokeKey
<1>3. CASE Revocable(credential, k)
    <2>1. k \in Created /\ keyStore[k] \in KeyRecords
        BY <1>3 DEF Revocable, KeysInv
    <2>2. [keyStore[k] EXCEPT !.status = "revoked"] \in KeyRecords
        BY <2>1 DEF KeyRecords
    <2>3. keyStore' = [keyStore EXCEPT ![k].status = "revoked"]
        BY <1>3 DEF RevokeKey
    <2>4. Created' = Created /\ keyStore' \in [Created -> KeyRecords]
        BY <2>1, <2>2, <2>3 DEF KeysInv, Created
    <2>5. Entry4(OwnerOf(credential), k, "api_key.revoked", "success") \in AuditEntries
        BY EntriesAreEntries, OwnersAreCredentials
    <2>6. auditLog' \in Seq(AuditEntries) /\ Len(auditLog') <= MaxAudit
        BY <1>3, <2>5, LogStaysShort DEF RevokeKey
    <2> QED BY <1>1, <2>4, <2>6 DEF KeysInv
<1> QED BY <1>2, <1>3

LEMMA DeveloperKeepsKeys ==
    ASSUME KeysInv, NEW credential \in Credentials, NEW time \in Nat, DeveloperRequest(credential, time)
    PROVE  KeysInv'
<1>1. CASE credential \in Bearers /\ MeWithBearer(credential, time)
    BY <1>1, MeKeepsKeys
<1>2. CASE MeWithSession(credential)
    BY <1>2 DEF MeWithSession, Answered, KeysInv, Created
<1>3. ASSUME NEW valid \in BOOLEAN, NEW reads \in BOOLEAN, NEW k \in KeyIds, NEW life \in 0..MaxLife,
             CreateKey(credential, valid, k, reads, time + life)
      PROVE  KeysInv'
    <2>1. time + life \in Nat
        BY AuditAssumption
    <2> QED BY <1>3, <2>1, CreateKeepsKeys
<1>4. CASE ListKeys(credential)
    BY <1>4, ListKeepsKeys
<1>5. ASSUME NEW k \in KeyIds, RevokeKey(credential, k) PROVE KeysInv'
    BY <1>5, RevokeKeepsKeys
<1> QED BY <1>1, <1>2, <1>3, <1>4, <1>5 DEF DeveloperRequest

\* No developer request brings a dead key back, counts a use of it or lets it in.
LEMMA DeveloperKeepsOut ==
    ASSUME KeysInv, NEW credential \in Credentials, NEW time \in Nat, DeveloperRequest(credential, time),
           NEW k \in Created, Dead(k, time)
    PROVE  /\ keyStore'[k].status = "revoked" \/ keyStore'[k].status = keyStore[k].status
           /\ keyStore'[k].expiresAt = keyStore[k].expiresAt
           /\ keyStore'[k].requestCount = keyStore[k].requestCount
           /\ (answer' # answer /\ answer'.credential = k) => answer'.status = 401
<1>0. k \in KeyIds /\ k \in Bearers /\ k # Nobody /\ ~Authentic(k, time)
    BY CredentialAssumption DEF KeysInv, Bearers, Dead, Authentic
<1>s. answer' = Silent => answer'.credential # k
    BY <1>0 DEF Silent
<1>1. CASE credential \in Bearers /\ MeWithBearer(credential, time)
    <2>1. CASE Authentic(credential, time) /\ CountUse(credential)
        <3>1. credential # k
            BY <2>1, <1>0
        <3>2. keyStore'[k] = keyStore[k]
            BY <2>1, <3>1 DEF CountUse, KeysInv, Created
        <3>3. answer'.credential = credential
            BY <1>1 DEF MeWithBearer, Answered
        <3> QED BY <3>1, <3>2, <3>3
    <2>2. CASE UNCHANGED keyStore /\ Answered(credential, 401)
        BY <2>2 DEF Answered
    <2> QED BY <1>1, <2>1, <2>2 DEF MeWithBearer
<1>2. CASE credential \notin Bearers /\ MeWithSession(credential)
    BY <1>0, <1>2 DEF MeWithSession, Answered
<1>3. ASSUME NEW valid \in BOOLEAN, NEW reads \in BOOLEAN, NEW key \in KeyIds, NEW life \in 0..MaxLife,
             CreateKey(credential, valid, key, reads, time + life)
      PROVE  keyStore'[k] = keyStore[k] /\ answer' = Silent
    BY <1>3 DEF CreateKey
<1>4. CASE ListKeys(credential)
    BY <1>4, <1>s DEF ListKeys
<1>5. ASSUME NEW key \in KeyIds, RevokeKey(credential, key)
      PROVE  /\ keyStore'[k] = keyStore[k] \/ keyStore'[k] = [keyStore[k] EXCEPT !.status = "revoked"]
             /\ answer' = Silent
    <2>1. CASE key = k
        BY <1>5, <2>1 DEF RevokeKey, KeysInv, Created
    <2>2. CASE key # k
        BY <1>5, <2>2 DEF RevokeKey, KeysInv, Created
    <2> QED BY <2>1, <2>2
<1>6. keyStore[k] \in KeyRecords
    BY DEF KeysInv
<1>7. keyStore'[k] = [keyStore[k] EXCEPT !.status = "revoked"] =>
        /\ keyStore'[k].status = "revoked"
        /\ keyStore'[k].expiresAt = keyStore[k].expiresAt
        /\ keyStore'[k].requestCount = keyStore[k].requestCount
    BY <1>6 DEF KeyRecords
<1>8. CASE \E key \in KeyIds : RevokeKey(credential, key)
    BY <1>s, <1>5, <1>7, <1>8
<1> QED BY <1>s, <1>1, <1>2, <1>3, <1>4, <1>8 DEF DeveloperRequest

-----------------------------------------------------------------------------
(* The intake: no submission has more keys than files.                      *)
Names == {FilesOf[s][i].name : s \in Submissions, i \in Nat}
Keys == Nat \X Nat \X Names

Handlers ==
    [at : {"new", "taking", "writing", "answered"}, keys : Seq(Keys), status : {0, 201, 413, 500}]

IntakeInv ==
    /\ subs \in [Submissions -> Handlers]
    /\ \A s \in Submissions : Len(subs[s].keys) <= Len(FilesOf[s])
    /\ Queued \subseteq Submissions

LEMMA SetTwice ==
    ASSUME NEW f, NEW x, NEW a, NEW b
    PROVE  [[f EXCEPT ![x] = a] EXCEPT ![x] = b] = [f EXCEPT ![x] = b]
    OBVIOUS

\* A handler's record of which a field is set.
LEMMA AtIsSet ==
    ASSUME NEW r \in Handlers, NEW at \in {"new", "taking", "writing", "answered"}
    PROVE  \E h \in Handlers : h = [r EXCEPT !.at = at] /\ h.keys = r.keys
<1> DEFINE h == [at |-> at, keys |-> r.keys, status |-> r.status]
<1>1. r.keys \in Seq(Keys) /\ r.status \in {0, 201, 413, 500} /\ r = [at |-> r.at, keys |-> r.keys, status |-> r.status]
    BY DEF Handlers
<1>2. h = [r EXCEPT !.at = at]
    BY <1>1
<1>3. h \in Handlers /\ h.keys = r.keys
    BY <1>1 DEF Handlers
<1> QED BY <1>2, <1>3

LEMMA StatusIsSet ==
    ASSUME NEW r \in Handlers, NEW status \in {0, 201, 413, 500}, NEW h, h = [r EXCEPT !.status = status]
    PROVE  h \in Handlers /\ h.keys = r.keys
<1>1. r.keys \in Seq(Keys) /\ r.at \in {"new", "taking", "writing", "answered"}
      /\ r = [at |-> r.at, keys |-> r.keys, status |-> r.status]
    BY DEF Handlers
<1>2. h = [at |-> r.at, keys |-> r.keys, status |-> status]
    BY <1>1
<1>3. h \in Handlers /\ h.keys = r.keys
    BY <1>1, <1>2 DEF Handlers
<1> QED BY <1>3

LEMMA KeysAreSet ==
    ASSUME NEW r \in Handlers, NEW keys \in Seq(Keys)
    PROVE  \E h \in Handlers : h = [r EXCEPT !.keys = keys] /\ h.keys = keys
<1> DEFINE h == [at |-> r.at, keys |-> keys, status |-> r.status]
<1>1. r.status \in {0, 201, 413, 500} /\ r.at \in {"new", "taking", "writing", "answered"}
      /\ r = [at |-> r.at, keys |-> r.keys, status |-> r.status]
    BY DEF Handlers
<1>2. h = [r EXCEPT !.keys = keys]
    BY <1>1
<1>3. h \in Handlers /\ h.keys = keys
    BY <1>1 DEF Handlers
<1> QED BY <1>2, <1>3

\* A handler's record changes, and its keys stay as few as its files.
LEMMA HandlerMoves ==
    ASSUME IntakeInv, NEW s \in Submissions, NEW h \in Handlers, Len(h.keys) <= Len(FilesOf[s]),
           subs' = [subs EXCEPT ![s] = h], Queued' \subseteq Submissions
    PROVE  IntakeInv'
    BY DEF IntakeInv

LEMMA AnswerMoves ==
    ASSUME IntakeInv, NEW s \in Submissions, NEW status \in {201, 413, 500}, Answer(s, status),
           Queued' \subseteq Submissions
    PROVE  IntakeInv'
<1>1. subs \in [Submissions -> Handlers] /\ subs[s] \in Handlers
    BY DEF IntakeInv
<1>2. PICK half \in Handlers : half = [subs[s] EXCEPT !.at = "answered"] /\ half.keys = subs[s].keys
    BY <1>1, AtIsSet
<1> DEFINE h == [half EXCEPT !.status = status]
<1>3. h \in Handlers /\ h.keys = half.keys
    <2>1. status \in {0, 201, 413, 500} /\ h = [half EXCEPT !.status = status]
        OBVIOUS
    <2> HIDE DEF h
    <2> QED BY <2>1, StatusIsSet
<1> DEFINE first == [subs EXCEPT ![s] = half]
<1>4. subs' = [first EXCEPT ![s] = [first[s] EXCEPT !.status = status]]
    BY <1>2 DEF Answer
<1>5. first[s] = half /\ DOMAIN first = Submissions
      /\ \A other \in Submissions : other # s => first[other] = subs[other]
    BY <1>1
<1>6. subs' = [first EXCEPT ![s] = h]
    BY <1>3, <1>4, <1>5
<1>7. subs' = [subs EXCEPT ![s] = h]
    BY ZenonT(40), <1>6, SetTwice
<1> QED BY <1>2, <1>3, <1>7, HandlerMoves DEF IntakeInv

LEMMA PostKeepsIntake ==
    ASSUME IntakeInv, NEW s \in Submissions, PostJob(s)
    PROVE  IntakeInv'
<1>1. Queued' = Queued /\ Queued \subseteq Submissions
    BY DEF PostJob, Queued, IntakeInv
<1>2. CASE Answer(s, 413) \/ Answer(s, 500)
    BY <1>1, <1>2, AnswerMoves
<1>3. CASE subs' = [subs EXCEPT ![s].at = "taking"]
    <2> DEFINE h == [subs[s] EXCEPT !.at = "taking"]
    <2>1. subs[s] \in Handlers
        BY DEF IntakeInv
    <2>2. h \in Handlers /\ h.keys = subs[s].keys
        BY <2>1 DEF Handlers
    <2> QED BY <1>1, <1>3, <2>2, HandlerMoves DEF IntakeInv
<1> QED BY <1>2, <1>3 DEF PostJob

LEMMA TakeKeepsIntake ==
    ASSUME IntakeInv, NEW s \in Submissions, NEW time \in Nat, TakeFile(s, time)
    PROVE  IntakeInv'
<1> DEFINE i == Next1(s)
           key == InputKey(s, i, time)
           more == Append(subs[s].keys, key)
<1>1. Queued' = Queued /\ Queued \subseteq Submissions
    BY DEF TakeFile, Queued, IntakeInv
<1>2. subs[s] \in Handlers /\ subs[s].keys \in Seq(Keys) /\ Len(subs[s].keys) \in Nat
    BY DEF IntakeInv, Handlers
<1>3. i = Len(subs[s].keys) + 1 /\ i \in Nat
    BY <1>2 DEF Next1
<1>4. key \in Keys
    BY <1>3 DEF InputKey, Keys, Names
<1>5. more \in Seq(Keys) /\ Len(more) = i
    BY <1>2, <1>3, <1>4
<1>6. i <= Len(FilesOf[s])
    BY <1>3, FilesAssumption DEF TakeFile, AllTaken
<1>7. \/ Answer(s, 500)
      \/ subs' = [subs EXCEPT ![s].keys = Append(@, key)]
      \/ subs' = [subs EXCEPT ![s].at = "writing", ![s].keys = Append(@, key)]
    BY DEF TakeFile
<1> HIDE DEF key, i
<1>8. CASE subs' = [subs EXCEPT ![s].keys = Append(@, key)]
    <2>1. PICK h \in Handlers : h = [subs[s] EXCEPT !.keys = more] /\ h.keys = more
        BY <1>2, <1>5, KeysAreSet
    <2>2. subs' = [subs EXCEPT ![s] = h]
        BY <1>8, <2>1
    <2> QED BY <1>1, <1>5, <1>6, <2>1, <2>2, HandlerMoves
<1>9. CASE subs' = [subs EXCEPT ![s].at = "writing", ![s].keys = Append(@, key)]
    <2>1. PICK half \in Handlers : half = [subs[s] EXCEPT !.at = "writing"] /\ half.keys = subs[s].keys
        BY <1>2, AtIsSet
    <2>2. PICK h \in Handlers : h = [half EXCEPT !.keys = more] /\ h.keys = more
        BY <1>5, KeysAreSet
    <2> DEFINE first == [subs EXCEPT ![s] = half]
    <2>3. first[s] = half /\ DOMAIN first = Submissions
          /\ \A other \in Submissions : other # s => first[other] = subs[other]
        BY DEF IntakeInv
    <2>4. subs' = [first EXCEPT ![s] = [first[s] EXCEPT !.keys = Append(first[s].keys, key)]]
        BY <1>9, <2>1
    <2>5. subs' = [first EXCEPT ![s] = h]
        BY <2>1, <2>2, <2>3, <2>4
    <2>6. subs' = [subs EXCEPT ![s] = h]
        BY <2>5, SetTwice
    <2> QED BY <1>1, <1>5, <1>6, <2>2, <2>6, HandlerMoves
<1>10. CASE Answer(s, 500)
    BY <1>1, <1>10, AnswerMoves
<1> QED BY <1>7, <1>8, <1>9, <1>10

LEMMA WrittenKeepsIntake ==
    ASSUME IntakeInv, NEW s \in Submissions, FileWritten(s)
    PROVE  IntakeInv'
<1> DEFINE h == [subs[s] EXCEPT !.at = "taking"]
<1>1. Queued' = Queued /\ Queued \subseteq Submissions
    BY DEF FileWritten, Queued, IntakeInv
<1>2. h \in Handlers /\ h.keys = subs[s].keys
    <2>1. subs[s] \in Handlers
        BY DEF IntakeInv
    <2> QED BY <2>1 DEF Handlers
<1>3. subs' = [subs EXCEPT ![s] = h] \/ Answer(s, 500)
    BY DEF FileWritten
<1>4. CASE subs' = [subs EXCEPT ![s] = h]
    <2>1. Len(subs[s].keys) <= Len(FilesOf[s])
        BY DEF IntakeInv
    <2> HIDE DEF h
    <2> QED BY <1>1, <1>2, <1>4, <2>1, HandlerMoves
<1>5. CASE Answer(s, 500)
    BY <1>1, <1>5, AnswerMoves
<1> QED BY <1>3, <1>4, <1>5

LEMMA HandleKeepsIntake ==
    ASSUME IntakeInv, NEW s \in Submissions, NEW time \in Nat, IntakeStep(s, time)
    PROVE  IntakeInv'
<1>1. CASE TakeFile(s, time)
    BY <1>1, TakeKeepsIntake
<1>2. CASE FileWritten(s)
    BY <1>2, WrittenKeepsIntake
<1>3. CASE WriteFails(s)
    <2>1. Queued' = Queued /\ Queued \subseteq Submissions
        BY <1>3 DEF WriteFails, Queued, IntakeInv
    <2> QED BY <1>3, <2>1, AnswerMoves DEF WriteFails
<1>4. CASE EnqueueJob(s)
    <2>1. Queued' = Queued \cup {s}
        BY <1>4 DEF EnqueueJob, Queued
    <2>2. Queued' \subseteq Submissions
        BY <2>1 DEF IntakeInv
    <2> QED BY <1>4, <2>2, AnswerMoves DEF EnqueueJob
<1> QED BY <1>1, <1>2, <1>3, <1>4 DEF IntakeStep

-----------------------------------------------------------------------------
(* The server: each request passes the limiter and then at most one route.  *)
ServerInv == LimiterInv /\ KeysInv /\ IntakeInv /\ JoinInv

LEMMA ServerInvInit == ServerInit => ServerInv
<1> SUFFICES ASSUME ServerInit PROVE ServerInv
    OBVIOUS
<1> USE DEF ServerInit
<1>0. ASSUME NEW M \in Nat, NEW W PROVE Closed(<<>>, 0, M, W)
    BY DEF Closed, Ordered, Paced, Idle
<1>1. LimiterInv
    <2>1. LimiterTypes
        BY LimiterAssumption DEF LimiterInit, LimiterTypes
    <2>2. ASSUME NEW k \in Counters PROVE Requests(k) /\ Told(k)
        BY <1>0, <2>1, CounterTypes DEF LimiterInit, Requests, Told
    <2> QED BY <2>1, <2>2 DEF LimiterInv
<1>2. KeysInv
    <2>1. Created = {} /\ keyStore \in [{} -> KeyRecords]
        BY DEF KeysInit, Created
    <2>2. auditLog \in Seq(AuditEntries) /\ Len(auditLog) <= MaxAudit
        BY AuditAssumption DEF KeysInit
    <2>3. answer \in [credential : Credentials, status : {0, 200, 401, 403}]
        BY OwnersAreCredentials DEF KeysInit, Silent
    <2> QED BY <2>1, <2>2, <2>3 DEF KeysInv
<1>3. IntakeInv
    <2>1. subs \in [Submissions -> Handlers]
        BY DEF IntakeInit, Handlers
    <2>2. \A s \in Submissions : Len(subs[s].keys) <= Len(FilesOf[s])
        BY FilesAssumption DEF IntakeInit
    <2>3. Queued = {}
        BY DEF IntakeInit, Queued
    <2> QED BY <2>1, <2>2, <2>3 DEF IntakeInv
<1>4. JoinInv
    <2>1. JoinTypes
        BY DEF JoinInit, JoinTypes
    <2>2. ASSUME NEW ip \in Guessers PROVE Guesses(ip)
        BY <1>0, JoinAssumption DEF JoinInit, Guesses, LimiterInit
    <2> QED BY <2>1, <2>2 DEF JoinInv
<1> QED BY <1>1, <1>2, <1>3, <1>4 DEF ServerInv

\* What a component does not touch it keeps.
LEMMA Untouched ==
    /\ KeysInv /\ UNCHANGED keyVars => KeysInv'
    /\ IntakeInv /\ UNCHANGED intakeVars => IntakeInv'
    /\ JoinInv /\ UNCHANGED joinVars /\ now' = now => JoinInv'
    /\ LimiterInv /\ UNCHANGED limiterVars => LimiterInv'
<1>1. KeysInv /\ UNCHANGED keyVars => KeysInv'
    BY DEF KeysInv, keyVars, Created
<1>2. IntakeInv /\ UNCHANGED intakeVars => IntakeInv'
    BY DEF IntakeInv, intakeVars, Queued
<1>3. JoinInv /\ UNCHANGED joinVars /\ now' = now => JoinInv'
    BY DEF JoinInv, JoinTypes, Guesses, joinVars, Began
<1>4. LimiterInv /\ UNCHANGED limiterVars => LimiterInv'
    BY DEF LimiterInv, LimiterTypes, Requests, Told, Limit, limiterVars
<1> QED BY <1>1, <1>2, <1>3, <1>4

\* The limiter's part of a request.
LEMMA PassesLimiter ==
    ASSUME ServerInv, NEW client \in Clients, NEW group \in {JobGroup, GeneralGroup, PollGroup},
           Admitted(<<client, group>>)
    PROVE  LimiterInv' /\ now' = now
<1>1. <<client, group>> \in Counters
    BY GroupsAssumption DEF Counters
<1>2. LimiterInv'
    BY <1>1, CounterAdmits DEF ServerInv
<1> QED BY <1>2 DEF Admitted

LEMMA ServerInvNext == ServerInv /\ [ServerNext]_serverVars => ServerInv'
<1> SUFFICES ASSUME ServerInv, [ServerNext]_serverVars PROVE ServerInv'
    OBVIOUS
<1> USE DEF ServerInv
<1>0. now \in Nat
    BY LimiterAssumption DEF LimiterInv, LimiterTypes
<1>1. ASSUME NEW client \in Clients, TooMany(client) PROVE ServerInv'
    <2>1. PICK group \in Groups : Refused(<<client, group>>)
        BY <1>1 DEF TooMany
    <2>2. LimiterInv' /\ now' = now
        BY <2>1, CounterRefuses DEF Counters, Refused
    <2> QED BY <1>1, <2>2, Untouched DEF TooMany
<1>2. ASSUME NEW client \in Clients, PollJob(client) PROVE ServerInv'
    <2>1. LimiterInv' /\ now' = now
        BY <1>2, PassesLimiter DEF PollJob
    <2> QED BY <1>2, <2>1, Untouched DEF PollJob
<1>3. ASSUME NEW client \in Clients, Join(client) PROVE ServerInv'
    <2>1. LimiterInv' /\ now' = now
        BY <1>3, PassesLimiter DEF Join
    <2>2. JoinInv'
        BY <1>0, <1>3, <2>1, JoinSteps DEF Join
    <2> QED BY <1>3, <2>1, <2>2, Untouched DEF Join
<1>4. ASSUME NEW client \in Clients, NEW credential \in Credentials, Develop(client, credential) PROVE ServerInv'
    <2>1. LimiterInv' /\ now' = now
        BY <1>4, PassesLimiter DEF Develop
    <2>2. KeysInv'
        BY <1>0, <1>4, DeveloperKeepsKeys DEF Develop
    <2> QED BY <1>4, <2>1, <2>2, Untouched DEF Develop
<1>5. ASSUME NEW client \in Clients, NEW s \in Submissions, Submit(client, s) PROVE ServerInv'
    <2>1. LimiterInv' /\ now' = now
        BY <1>5, PassesLimiter DEF Submit
    <2>2. IntakeInv'
        BY <1>5, PostKeepsIntake DEF Submit
    <2> QED BY <1>5, <2>1, <2>2, Untouched DEF Submit
<1>6. ASSUME NEW s \in Submissions, Handle(s) PROVE ServerInv'
    <2>1. IntakeInv'
        BY <1>0, <1>6, HandleKeepsIntake DEF Handle
    <2> QED BY <1>6, <2>1, Untouched DEF Handle, limiterVars
<1>7. CASE ServerPrune
    <2>1. LimiterInv' /\ now' = now
        BY <1>7, CountersPruned DEF ServerPrune, Prune
    <2> QED BY <1>7, <2>1, Untouched DEF ServerPrune
<1>8. CASE ServerClean
    <2>1. JoinInv'
        BY <1>0, <1>8, JoinCleans DEF ServerClean, limiterVars
    <2> QED BY <1>8, <2>1, Untouched DEF ServerClean
<1>9. CASE ServerTick
    <2>1. LimiterInv'
        BY <1>9, CountersAge DEF ServerTick
    <2>2. JoinInv'
        BY <1>0, <1>9, GuessesAge DEF ServerTick, LimiterTick
    <2> QED BY <1>9, <2>1, <2>2, Untouched DEF ServerTick
<1>10. CASE UNCHANGED serverVars
    BY <1>10, Untouched DEF serverVars, limiterVars, keyVars, intakeVars, joinVars
<1> QED BY <1>1, <1>2, <1>3, <1>4, <1>5, <1>6, <1>7, <1>8, <1>9, <1>10 DEF ServerNext

\* The strengthening of the properties below is an invariant.
THEOREM ServerInvHolds == ServerSpec => []ServerInv
<1>1. ServerInit => ServerInv
    BY ServerInvInit
<1>2. ServerInv /\ [ServerNext]_serverVars => ServerInv'
    BY ServerInvNext
<1> QED BY <1>1, <1>2, PTL DEF ServerSpec

(* The limiter, the keys, the intake and the join guard keep their stores   *)
(* in shape under one another's requests (server.js:42-79).                 *)
THEOREM ServerTypes == ServerSpec => []ServerTypeOK
<1>1. ServerInv => ServerTypeOK
    <2> SUFFICES ASSUME ServerInv PROVE ServerTypeOK
        OBVIOUS
    <2>1. LimiterTypeOK
        BY LimiterKeepsItsWord DEF ServerInv
    <2>2. KeysTypeOK
        BY DEF ServerInv, KeysInv, KeyRecords, KeysTypeOK
    <2>3. IntakeTypeOK
        BY DEF ServerInv, IntakeInv, Handlers, IntakeTypeOK
    <2> QED BY <2>1, <2>2, <2>3 DEF ServerTypeOK
<1> QED BY <1>1, ServerInvHolds, PTL

(* Bursts and guesses are bounded and who waits as told is served           *)
(* (rate-limiter.js:78-112, p2p-signaling.js:59-75), whatever the limits,   *)
(* the windows and the number of clients, and however their requests, the   *)
(* clock and the two timers interleave.                                     *)
THEOREM LimitsAlwaysHold == ServerSpec => []LimitsHold
<1>1. ServerInv => LimitsHold
    <2> SUFFICES ASSUME ServerInv PROVE LimitsHold
        OBVIOUS
    <2>1. BurstsAreBounded /\ WaitingIsEnough
        BY LimiterKeepsItsWord DEF ServerInv
    <2>2. GuessesAreBounded
        BY GuardKeepsItsWord, LimiterAssumption DEF ServerInv, LimiterInv, LimiterTypes
    <2> QED BY <2>1, <2>2 DEF LimitsHold
<1> QED BY <1>1, ServerInvHolds, PTL

(* A key that is revoked or whose time is over never serves again, and its  *)
(* uses are no longer counted (developer-routes.js:291, api-key-auth.js),   *)
(* whatever other requests do and however the clock goes on.                *)
THEOREM DeadKeysNeverServe == ServerSpec => DeadKeysStayOut
<1> DEFINE StaysOut ==
        \A k \in Created :
            Dead(k, now) =>
                /\ Dead(k, now)'
                /\ keyStore'[k].requestCount = keyStore[k].requestCount
                /\ (answer' # answer /\ answer'.credential = k) => answer'.status = 401
<1>1. ServerInv /\ ServerInv' /\ [ServerNext]_serverVars => [StaysOut]_serverVars
    <2> SUFFICES ASSUME ServerInv, ServerInv', [ServerNext]_serverVars PROVE StaysOut \/ UNCHANGED serverVars
        OBVIOUS
    <2>t. KeysInv /\ now \in Nat /\ now' \in Nat
        BY LimiterAssumption DEF ServerInv, LimiterInv, LimiterTypes
    <2>1. ASSUME NEW client \in Clients, NEW credential \in Credentials, Develop(client, credential)
          PROVE  StaysOut
        <3>1. DeveloperRequest(credential, now) /\ now' = now
            BY <2>1 DEF Develop, Admitted
        <3> SUFFICES ASSUME NEW k \in Created, Dead(k, now)
                     PROVE  /\ Dead(k, now)'
                            /\ keyStore'[k].requestCount = keyStore[k].requestCount
                            /\ (answer' # answer /\ answer'.credential = k) => answer'.status = 401
            OBVIOUS
        <3> QED BY <2>t, <3>1, DeveloperKeepsOut DEF Dead
    <2>2. CASE UNCHANGED keyVars /\ now' >= now
        <3> SUFFICES ASSUME NEW k \in Created, Dead(k, now) PROVE Dead(k, now)'
            BY <2>2 DEF keyVars
        <3>1. keyStore[k].expiresAt \in Nat
            BY <2>t DEF KeysInv, KeyRecords
        <3> QED BY <2>t, <2>2, <3>1 DEF keyVars, Dead
    <2>3. CASE \E client \in Clients : TooMany(client) \/ PollJob(client) \/ Join(client)
        <3>1. UNCHANGED keyVars /\ now' = now
            BY <2>3 DEF TooMany, PollJob, Join, Refused, Admitted
        <3> QED BY <2>t, <2>2, <3>1
    <2>4. CASE \E client \in Clients, s \in Submissions : Submit(client, s)
        <3>1. UNCHANGED keyVars /\ now' = now
            BY <2>4 DEF Submit, Admitted
        <3> QED BY <2>t, <2>2, <3>1
    <2>5. CASE \E s \in Submissions : Handle(s)
        <3>1. UNCHANGED keyVars /\ now' = now
            BY <2>5 DEF Handle, limiterVars
        <3> QED BY <2>t, <2>2, <3>1
    <2>6. CASE ServerPrune \/ ServerClean \/ ServerTick
        <3>1. UNCHANGED keyVars /\ now' >= now
            BY <2>t, <2>6 DEF ServerPrune, ServerClean, ServerTick, Prune, LimiterTick, limiterVars
        <3> QED BY <2>t, <2>2, <3>1
    <2>7. CASE UNCHANGED serverVars
        BY <2>7
    <2>8. CASE \E client \in Clients, credential \in Credentials : Develop(client, credential)
        BY <2>1, <2>8
    <2> HIDE DEF StaysOut
    <2> QED BY <2>3, <2>4, <2>5, <2>6, <2>7, <2>8 DEF ServerNext
<1> QED BY <1>1, ServerInvHolds, PTL DEF ServerSpec, DeadKeysStayOut

-----------------------------------------------------------------------------
(* The audit log and the keys.  The log is a window onto the events: what   *)
(* it says of a key is complete while the key's creation is in it, since    *)
(* the oldest entry goes first and a creation is the oldest about its key.  *)
About(log, k, events) == {i \in DOMAIN log : log[i].key = k /\ log[i].event \in events}

UseEvents == {"auth.api_key_used", "auth.invalid_key"}
CreationEvents == {"api_key.created"}
RevocationEvents == {"api_key.revoked"}
Uses(log, k) == Cardinality(About(log, k, UseEvents))
Creation(log, k) == About(log, k, CreationEvents)
Revocation(log, k) == About(log, k, RevocationEvents)

\* What the log says of a key that was used count times.
Tells(log, k, count, revoked) ==
    /\ Uses(log, k) <= count
    /\ Creation(log, k) # {} => Uses(log, k) = count /\ (revoked <=> Revocation(log, k) # {})
    /\ \A c \in Creation(log, k), i \in DOMAIN log : log[i].key = k => c <= i

AuditInv ==
    /\ \A i \in DOMAIN auditLog : auditLog[i].key \in Created \cup {NoKey}
    /\ \A k \in Created : Tells(auditLog, k, keyStore[k].requestCount, keyStore[k].status = "revoked")

LEMMA AboutIsFinite ==
    ASSUME NEW log \in Seq(AuditEntries), NEW k, NEW events
    PROVE  /\ About(log, k, events) \subseteq 1..Len(log) /\ IsFiniteSet(About(log, k, events))
           /\ Cardinality(About(log, k, events)) \in Nat /\ DOMAIN log = 1..Len(log) /\ Len(log) \in Nat
<1>1. DOMAIN log = 1..Len(log) /\ Len(log) \in Nat
    BY LenProperties
<1>2. About(log, k, events) \in SUBSET (1..Len(log)) /\ IsFiniteSet(1..Len(log))
    BY <1>1, FS_Interval DEF About
<1> QED BY <1>1, <1>2, FS_Subset, FS_CardinalityType

LEMMA OneMoreEntry ==
    ASSUME NEW log \in Seq(AuditEntries), NEW entry \in AuditEntries, NEW k, NEW events
    PROVE  /\ About(Append(log, entry), k, events) =
                IF entry.key = k /\ entry.event \in events THEN About(log, k, events) \cup {Len(log) + 1}
                ELSE About(log, k, events)
           /\ Cardinality(About(Append(log, entry), k, events)) =
                Cardinality(About(log, k, events)) + (IF entry.key = k /\ entry.event \in events THEN 1 ELSE 0)
<1> DEFINE all == Append(log, entry)
           n == Len(log)
<1>1. /\ all \in Seq(AuditEntries) /\ Len(all) = n + 1 /\ all[n + 1] = entry
      /\ \A i \in 1..n : all[i] = log[i]
    BY AppendProperties
<1>2. /\ n \in Nat /\ DOMAIN log = 1..n /\ DOMAIN all = 1..(n + 1)
      /\ IsFiniteSet(About(log, k, events)) /\ Cardinality(About(log, k, events)) \in Nat
    BY <1>1, AboutIsFinite, LenProperties
<1> HIDE DEF all, n
<1>3. About(all, k, events) =
        IF entry.key = k /\ entry.event \in events THEN About(log, k, events) \cup {n + 1}
        ELSE About(log, k, events)
    <2>1. ASSUME NEW i \in 1..n PROVE i \in About(all, k, events) <=> i \in About(log, k, events)
        BY <1>1, <1>2, <2>1 DEF About
    <2>2. n + 1 \in About(all, k, events) <=> entry.key = k /\ entry.event \in events
        BY <1>1, <1>2 DEF About
    <2>3. About(all, k, events) \subseteq 1..(n + 1) /\ About(log, k, events) \subseteq 1..n
        BY <1>2 DEF About
    <2>4. \A i \in 1..(n + 1) : i \in 1..n \/ i = n + 1
        BY <1>2
    <2> DEFINE A == About(all, k, events)
               B == About(log, k, events)
               N == 1..n
               last == n + 1
    <2>5. /\ \A i \in N : i \in A <=> i \in B
          /\ last \in A <=> entry.key = k /\ entry.event \in events
          /\ A \subseteq N \cup {last} /\ B \subseteq N
        BY <2>1, <2>2, <2>3, <2>4
    <2> HIDE DEF A, B, N, last
    <2>6. CASE last \in A
        <3>1. A = B \cup {last}
            BY <2>5, <2>6
        <3> QED BY <2>5, <2>6, <3>1 DEF A, B, last
    <2>7. CASE last \notin A
        <3>1. A = B
            BY <2>5, <2>7
        <3> QED BY <2>5, <2>7, <3>1 DEF A, B
    <2> QED BY <2>6, <2>7
<1>4. n + 1 \notin About(log, k, events)
    BY <1>2 DEF About
<1>5. Cardinality(About(log, k, events) \cup {n + 1}) = Cardinality(About(log, k, events)) + 1
    BY <1>2, <1>4, FS_AddElement
<1> QED BY <1>2, <1>3, <1>5 DEF all, n

LEMMA OldestEntryGoes ==
    ASSUME NEW log \in Seq(AuditEntries), log # <<>>, NEW k, NEW events
    PROVE  /\ \A i \in Nat : i \in About(Tail(log), k, events) <=> i # 0 /\ i + 1 \in About(log, k, events)
           /\ Cardinality(About(Tail(log), k, events)) =
                Cardinality(About(log, k, events)) - (IF 1 \in About(log, k, events) THEN 1 ELSE 0)
<1> DEFINE rest == Tail(log)
           n == Len(log)
           old == About(log, k, events)
           new == About(rest, k, events)
<1>1. /\ rest \in Seq(AuditEntries) /\ Len(rest) = n - 1
      /\ \A i \in 1..Len(rest) : rest[i] = log[i + 1]
    BY HeadTailProperties
<1>2. /\ n \in Nat /\ DOMAIN log = 1..n /\ DOMAIN rest = 1..(n - 1)
      /\ IsFiniteSet(old) /\ Cardinality(old) \in Nat /\ old \subseteq 1..n
    BY <1>1, AboutIsFinite, LenProperties
<1> HIDE DEF rest, n
<1>3. ASSUME NEW i \in Nat PROVE i \in new <=> i # 0 /\ i + 1 \in old
    <2>1. i \in 1..(n - 1) <=> i # 0 /\ i + 1 \in 1..n
        BY <1>2
    <2>2. CASE i \in 1..(n - 1)
        BY <1>1, <1>2, <2>1, <2>2 DEF About
    <2>3. CASE i \notin 1..(n - 1)
        BY <1>2, <2>1, <2>3 DEF About
    <2> QED BY <2>2, <2>3
<1>4. new \subseteq Nat
    BY <1>2 DEF About
<1> HIDE DEF old, new
<1> DEFINE later == [i \in new |-> i + 1]
<1>5. later \in Bijection(new, old \ {1})
    <2>1. later \in [new -> old \ {1}]
        <3>1. \A i \in new : i + 1 \in old /\ i + 1 # 1
            BY <1>3, <1>4
        <3> QED BY <3>1
    <2>2. \A i, j \in new : later[i] = later[j] => i = j
        BY <1>4
    <2>3. \A j \in old \ {1} : \E i \in new : later[i] = j
        <3>1. ASSUME NEW j \in old \ {1} PROVE \E i \in new : later[i] = j
            <4>1. j - 1 \in Nat /\ j - 1 # 0 /\ (j - 1) + 1 = j
                BY <1>2
            <4>2. j - 1 \in new
                BY <1>3, <4>1
            <4> QED BY <4>1, <4>2
        <3> QED BY <3>1
    <2> HIDE DEF later
    <2> QED BY <2>1, <2>2, <2>3 DEF Bijection, Injection, Surjection, IsInjective
<1>6. IsFiniteSet(old \ {1}) /\ Cardinality(old \ {1}) = IF 1 \in old THEN Cardinality(old) - 1 ELSE Cardinality(old)
    BY <1>2, FS_RemoveElement
<1>7. Cardinality(new) = Cardinality(old \ {1})
    <2>1. IsFiniteSet(new)
        BY <1>1, AboutIsFinite DEF new
    <2>2. ExistsBijection(new, old \ {1})
        <3> HIDE DEF later
        <3> QED BY <1>5 DEF ExistsBijection
    <2> QED BY <2>1, <2>2, FS_Bijection
<1> QED BY <1>2, <1>3, <1>6, <1>7 DEF rest, old, new

\* What the log says stays true when its oldest entry goes.
LEMMA TailTells ==
    ASSUME NEW log \in Seq(AuditEntries), log # <<>>, NEW k, NEW count \in Nat, NEW revoked \in BOOLEAN,
           Tells(log, k, count, revoked)
    PROVE  Tells(Tail(log), k, count, revoked)
<1> DEFINE rest == Tail(log)
<1>1. /\ rest \in Seq(AuditEntries) /\ DOMAIN rest = 1..(Len(log) - 1) /\ DOMAIN log = 1..Len(log)
      /\ Len(log) \in Nat /\ \A i \in DOMAIN rest : rest[i] = log[i + 1]
    BY HeadTailProperties, LenProperties
<1>2. /\ \A i \in Nat : i \in Creation(rest, k) <=> i # 0 /\ i + 1 \in Creation(log, k)
      /\ \A i \in Nat : i \in Revocation(rest, k) <=> i # 0 /\ i + 1 \in Revocation(log, k)
      /\ Uses(rest, k) = Uses(log, k) - (IF 1 \in About(log, k, UseEvents) THEN 1 ELSE 0)
      /\ Uses(log, k) \in Nat
    BY OldestEntryGoes, AboutIsFinite DEF Creation, Revocation, Uses
<1>3. Creation(rest, k) \subseteq DOMAIN rest /\ Revocation(log, k) \subseteq DOMAIN log
    BY DEF Creation, Revocation, About
<1> HIDE DEF rest
<1>4. Uses(rest, k) <= count
    BY <1>2 DEF Tells
<1>5. ASSUME NEW c \in Creation(rest, k)
      PROVE  c + 1 \in Creation(log, k) /\ 1 \notin About(log, k, UseEvents) /\ 1 \notin Revocation(log, k)
    <2>1. c \in Nat /\ c # 0 /\ c + 1 \in Creation(log, k)
        BY SMTT(30), <1>1, <1>2, <1>3
    <2>2. 1 \in DOMAIN log => log[1].key # k
        BY <2>1 DEF Tells
    <2> QED BY <2>1, <2>2 DEF About, Revocation
<1>6. ASSUME Creation(rest, k) # {}
      PROVE  Uses(rest, k) = count /\ (revoked <=> Revocation(rest, k) # {})
    <2>1. PICK c : c \in Creation(rest, k)
        BY <1>6
    <2>2. Creation(log, k) # {} /\ 1 \notin About(log, k, UseEvents) /\ 1 \notin Revocation(log, k)
        BY <1>5, <2>1
    <2>3. Uses(rest, k) = count /\ (revoked <=> Revocation(log, k) # {})
        BY <1>2, <2>2 DEF Tells
    <2>4. Revocation(log, k) # {} => Revocation(rest, k) # {}
        <3>1. ASSUME NEW i \in Revocation(log, k) PROVE i - 1 \in Revocation(rest, k)
            <4>1. i \in 1..Len(log) /\ i # 1
                BY <1>1, <1>3, <2>2, <3>1
            <4>2. i - 1 \in Nat /\ i - 1 # 0 /\ (i - 1) + 1 = i
                BY <1>1, <4>1
            <4> QED BY <1>2, <4>2
        <3> QED BY <3>1
    <2>5. Revocation(rest, k) # {} => Revocation(log, k) # {}
        <3>1. Revocation(rest, k) \subseteq Nat
            BY <1>1 DEF Revocation, About
        <3> QED BY <1>2, <3>1
    <2> QED BY <2>3, <2>4, <2>5
<1>7. ASSUME NEW c \in Creation(rest, k), NEW i \in DOMAIN rest, rest[i].key = k PROVE c <= i
    <2>1. c \in Nat /\ i \in Nat /\ i + 1 \in DOMAIN log /\ log[i + 1].key = k
        BY <1>1, <1>3, <1>7
    <2>2. c + 1 <= i + 1
        BY <1>5, <2>1 DEF Tells
    <2> QED BY <2>1, <2>2
<1> QED BY <1>4, <1>6, <1>7 DEF Tells, rest

\* The log makes room for an entry: what it says with the entry it says afterwards.
LEMMA LoggedTells ==
    ASSUME auditLog \in Seq(AuditEntries), NEW entry \in AuditEntries, Logged(entry),
           NEW k, NEW count \in Nat, NEW revoked \in BOOLEAN,
           Tells(Append(auditLog, entry), k, count, revoked)
    PROVE  Tells(auditLog', k, count, revoked)
<1> DEFINE log == Append(auditLog, entry)
<1>1. log \in Seq(AuditEntries) /\ log # <<>>
    BY AppendProperties
<1>2. auditLog' = IF Len(log) > MaxAudit THEN Tail(log) ELSE log
    BY DEF Logged
<1> HIDE DEF log
<1>3. Tells(log, k, count, revoked)
    BY DEF log
<1> QED BY <1>1, <1>2, <1>3, TailTells

\* Each event and what the log says with it.
LEMMA AppendTells ==
    ASSUME NEW log \in Seq(AuditEntries), NEW entry \in AuditEntries, NEW k, NEW count \in Nat,
           NEW revoked \in BOOLEAN
    PROVE  /\ entry.key # k /\ Tells(log, k, count, revoked) => Tells(Append(log, entry), k, count, revoked)
           /\ /\ entry.key = k /\ entry.event \in UseEvents
              /\ Tells(log, k, count, revoked)
              => Tells(Append(log, entry), k, count + 1, revoked)
           /\ /\ entry.key = k /\ entry.event = "api_key.revoked"
              /\ Tells(log, k, count, FALSE)
              => Tells(Append(log, entry), k, count, TRUE)
           /\ /\ entry.key = k /\ entry.event = "api_key.created"
              /\ \A i \in DOMAIN log : log[i].key # k
              => Tells(Append(log, entry), k, 0, FALSE)
<1> DEFINE all == Append(log, entry)
           n == Len(log)
<1>1. /\ all \in Seq(AuditEntries) /\ n \in Nat /\ all[n + 1] = entry
      /\ DOMAIN log = 1..n /\ DOMAIN all = 1..(n + 1)
      /\ \A i \in 1..n : all[i] = log[i]
    BY AppendProperties, LenProperties
<1>2. /\ \A i \in 1..(n + 1) : i \in 1..n \/ i = n + 1
      /\ \A i \in 1..n : i \in 1..(n + 1) /\ i <= n + 1
      /\ n + 1 \in 1..(n + 1) /\ n + 1 <= n + 1
    BY <1>1
<1>3. /\ Creation(log, k) \subseteq 1..n /\ Revocation(log, k) \subseteq 1..n
      /\ Uses(log, k) \in Nat
    BY AboutIsFinite DEF Creation, Revocation, Uses
<1>4. Uses(all, k) = Uses(log, k) + (IF entry.key = k /\ entry.event \in UseEvents THEN 1 ELSE 0)
    BY OneMoreEntry DEF Uses
<1> HIDE DEF all, n
<1>5. Creation(all, k) = IF entry.key = k /\ entry.event = "api_key.created" THEN Creation(log, k) \cup {n + 1}
                         ELSE Creation(log, k)
    <2>1. Creation(all, k) = IF entry.key = k /\ entry.event \in CreationEvents
                             THEN Creation(log, k) \cup {n + 1} ELSE Creation(log, k)
        BY OneMoreEntry DEF Creation, all, n
    <2> QED BY <2>1 DEF CreationEvents
<1>6. Revocation(all, k) = IF entry.key = k /\ entry.event = "api_key.revoked"
                           THEN Revocation(log, k) \cup {n + 1} ELSE Revocation(log, k)
    <2>1. Revocation(all, k) = IF entry.key = k /\ entry.event \in RevocationEvents
                             THEN Revocation(log, k) \cup {n + 1} ELSE Revocation(log, k)
        BY OneMoreEntry DEF Revocation, all, n
    <2> QED BY <2>1 DEF RevocationEvents
<1>7. ASSUME \A c \in Creation(log, k), i \in DOMAIN log : log[i].key = k => c <= i,
             Creation(all, k) = Creation(log, k)
      PROVE  \A c \in Creation(all, k), i \in DOMAIN all : all[i].key = k => c <= i
    BY <1>1, <1>2, <1>3, <1>7
<1>8. ASSUME entry.key # k, Tells(log, k, count, revoked) PROVE Tells(all, k, count, revoked)
    BY <1>3, <1>4, <1>5, <1>6, <1>7, <1>8 DEF Tells
<1>9. ASSUME entry.key = k, entry.event \in UseEvents, Tells(log, k, count, revoked)
      PROVE  Tells(all, k, count + 1, revoked)
    <2>1. Creation(all, k) = Creation(log, k) /\ Revocation(all, k) = Revocation(log, k)
        BY <1>5, <1>6, <1>9 DEF UseEvents
    <2>2. Uses(all, k) = Uses(log, k) + 1
        BY <1>4, <1>9
    <2> QED BY <1>3, <1>7, <1>9, <2>1, <2>2 DEF Tells
<1>10. ASSUME entry.key = k, entry.event = "api_key.revoked", Tells(log, k, count, FALSE)
       PROVE  Tells(all, k, count, TRUE)
    <2>1. Creation(all, k) = Creation(log, k) /\ Revocation(all, k) # {}
        BY <1>5, <1>6, <1>10
    <2>2. Uses(all, k) = Uses(log, k)
        BY <1>3, <1>4, <1>10 DEF UseEvents
    <2> QED BY <1>7, <1>10, <2>1, <2>2 DEF Tells
<1>11. ASSUME entry.key = k, entry.event = "api_key.created", \A i \in DOMAIN log : log[i].key # k
       PROVE  Tells(all, k, 0, FALSE)
    <2>1. Creation(log, k) = {} /\ Revocation(log, k) = {} /\ About(log, k, UseEvents) = {}
        BY <1>11 DEF Creation, Revocation, About
    <2>2. Uses(log, k) = 0
        BY <2>1, FS_EmptySet DEF Uses
    <2>3. Creation(all, k) = {n + 1} /\ Revocation(all, k) = {} /\ Uses(all, k) = 0
        BY <1>4, <1>5, <1>6, <1>11, <2>1, <2>2 DEF UseEvents
    <2>4. \A i \in DOMAIN all : all[i].key = k => i = n + 1
        BY <1>1, <1>2, <1>11
    <2> QED BY <1>2, <2>3, <2>4 DEF Tells
<1> QED BY <1>8, <1>9, <1>10, <1>11 DEF all

IsRevoked(record) == record.status = "revoked"

\* A request whose entry the log tells the keys with keeps them told.
LEMMA LoggedKeepsAudit ==
    ASSUME KeysInv, KeysInv', AuditInv, NEW entry \in AuditEntries, Logged(entry), Created \subseteq Created',
           entry.key \in Created' \cup {NoKey},
           \A k \in Created' :
                Tells(Append(auditLog, entry), k, keyStore'[k].requestCount, IsRevoked(keyStore'[k]))
    PROVE  AuditInv'
<1> DEFINE log == Append(auditLog, entry)
<1>1. auditLog \in Seq(AuditEntries)
    BY DEF KeysInv
<1>2. \A i \in DOMAIN auditLog' : auditLog'[i].key \in Created' \cup {NoKey}
    <2>1. /\ log \in Seq(AuditEntries) /\ log # <<>> /\ DOMAIN log = 1..(Len(auditLog) + 1)
          /\ log[Len(auditLog) + 1] = entry /\ \A i \in 1..Len(auditLog) : log[i] = auditLog[i]
          /\ DOMAIN auditLog = 1..Len(auditLog) /\ Len(auditLog) \in Nat
        BY <1>1, AppendProperties, LenProperties
    <2>2. auditLog' = IF Len(log) > MaxAudit THEN Tail(log) ELSE log
        BY DEF Logged
    <2>3. /\ DOMAIN Tail(log) = 1..Len(auditLog)
          /\ \A i \in 1..Len(auditLog) : Tail(log)[i] = log[i + 1]
        <3>1. /\ Tail(log) \in Seq(AuditEntries) /\ Len(log) = Len(auditLog) + 1
              /\ Len(Tail(log)) = Len(log) - 1 /\ \A i \in 1..Len(Tail(log)) : Tail(log)[i] = log[i + 1]
            BY <1>1, <2>1, AppendProperties, HeadTailProperties
        <3>2. Len(Tail(log)) = Len(auditLog) /\ DOMAIN Tail(log) = 1..Len(Tail(log))
            BY <2>1, <3>1, LenProperties
        <3> QED BY <3>1, <3>2
    <2> HIDE DEF log
    <2>4. \A i \in 1..(Len(auditLog) + 1) : log[i].key \in Created' \cup {NoKey}
        <3>1. ASSUME NEW i \in 1..(Len(auditLog) + 1) PROVE log[i].key \in Created' \cup {NoKey}
            <4>1. CASE i \in 1..Len(auditLog)
                BY <2>1, <4>1 DEF AuditInv
            <4>2. CASE i = Len(auditLog) + 1
                BY <2>1, <4>2
            <4> QED BY <2>1, <4>1, <4>2
        <3> QED BY <3>1
    <2>5. \A i \in 1..Len(auditLog) : i + 1 \in 1..(Len(auditLog) + 1)
        BY <2>1
    <2> QED BY <2>1, <2>2, <2>3, <2>4, <2>5
<1>3. ASSUME NEW k \in Created'
      PROVE  Tells(auditLog', k, keyStore'[k].requestCount, keyStore'[k].status = "revoked")
    <2>1. keyStore'[k].requestCount \in Nat /\ IsRevoked(keyStore'[k]) \in BOOLEAN
        BY <1>3 DEF KeysInv, KeyRecords, IsRevoked
    <2>2. Tells(auditLog', k, keyStore'[k].requestCount, IsRevoked(keyStore'[k]))
        BY <1>1, <2>1, LoggedTells
    <2> QED BY <2>2 DEF IsRevoked
<1> QED BY <1>2, <1>3 DEF AuditInv

\* A key that nothing happens to is told as before.
LEMMA OthersTold ==
    ASSUME KeysInv, AuditInv, NEW entry \in AuditEntries, NEW k \in Created, entry.key # k
    PROVE  Tells(Append(auditLog, entry), k, keyStore[k].requestCount, IsRevoked(keyStore[k]))
<1>1. /\ auditLog \in Seq(AuditEntries) /\ keyStore[k].requestCount \in Nat
      /\ IsRevoked(keyStore[k]) \in BOOLEAN
    BY DEF KeysInv, KeyRecords, IsRevoked
<1>2. Tells(auditLog, k, keyStore[k].requestCount, IsRevoked(keyStore[k]))
    BY DEF AuditInv, IsRevoked
<1> QED BY <1>1, <1>2, AppendTells

LEMMA NobodysEntry ==
    ASSUME KeysInv, KeysInv', AuditInv, NEW entry \in AuditEntries, Logged(entry), entry.key = NoKey,
           UNCHANGED keyStore
    PROVE  AuditInv'
<1>1. Created' = Created /\ NoKey \notin Created
    BY CredentialAssumption DEF KeysInv, Created
<1>2. \A k \in Created' :
        Tells(Append(auditLog, entry), k, keyStore'[k].requestCount, IsRevoked(keyStore'[k]))
    BY <1>1, OthersTold
<1> QED BY <1>1, <1>2, LoggedKeepsAudit

LEMMA UseKeepsAudit ==
    ASSUME KeysInv, KeysInv', AuditInv, NEW k \in Created, CountUse(k), NEW entry \in AuditEntries,
           Logged(entry), entry.key = k, entry.event \in UseEvents
    PROVE  AuditInv'
<1>1. /\ Created' = Created /\ k \in DOMAIN keyStore /\ keyStore[k] \in KeyRecords
      /\ keyStore' = [keyStore EXCEPT ![k] = [keyStore[k] EXCEPT !.requestCount = @ + 1]]
    BY DEF CountUse, Created, KeysInv
<1>2. /\ keyStore'[k].requestCount = keyStore[k].requestCount + 1
      /\ keyStore'[k].status = keyStore[k].status
      /\ \A other \in Created : other # k => keyStore'[other] = keyStore[other]
    BY <1>1 DEF KeyRecords, Created
<1>3. Tells(Append(auditLog, entry), k, keyStore[k].requestCount + 1, IsRevoked(keyStore[k]))
    <2>1. /\ auditLog \in Seq(AuditEntries) /\ keyStore[k].requestCount \in Nat
          /\ IsRevoked(keyStore[k]) \in BOOLEAN
        BY <1>1 DEF KeysInv, KeyRecords, IsRevoked
    <2>2. Tells(auditLog, k, keyStore[k].requestCount, IsRevoked(keyStore[k]))
        BY DEF AuditInv, IsRevoked
    <2> QED BY <2>1, <2>2, AppendTells
<1>4. ASSUME NEW other \in Created'
      PROVE  Tells(Append(auditLog, entry), other, keyStore'[other].requestCount, IsRevoked(keyStore'[other]))
    <2>1. CASE other = k
        <3>1. IsRevoked(keyStore'[k]) = IsRevoked(keyStore[k])
            BY <1>2 DEF IsRevoked
        <3> QED BY <1>2, <1>3, <2>1, <3>1
    <2>2. CASE other # k
        BY <1>1, <1>2, <1>4, <2>2, OthersTold
    <2> QED BY <2>1, <2>2
<1> QED BY <1>1, <1>4, LoggedKeepsAudit

LEMMA CreationKeepsAudit ==
    ASSUME KeysInv, KeysInv', AuditInv, NEW k \in KeyIds \ Created, Created' = Created \cup {k},
           \A other \in Created : keyStore'[other] = keyStore[other],
           keyStore'[k].requestCount = 0, keyStore'[k].status = "active",
           NEW entry \in AuditEntries, Logged(entry), entry.key = k, entry.event = "api_key.created"
    PROVE  AuditInv'
<1>1. \A i \in DOMAIN auditLog : auditLog[i].key # k
    BY CredentialAssumption DEF AuditInv
<1>2. Tells(Append(auditLog, entry), k, 0, FALSE)
    <2>1. auditLog \in Seq(AuditEntries)
        BY DEF KeysInv
    <2> QED BY <1>1, <2>1, AppendTells
<1>3. ASSUME NEW other \in Created'
      PROVE  Tells(Append(auditLog, entry), other, keyStore'[other].requestCount, IsRevoked(keyStore'[other]))
    <2>1. CASE other = k
        <3>1. IsRevoked(keyStore'[k]) = FALSE
            BY DEF IsRevoked
        <3> QED BY <1>2, <2>1, <3>1
    <2>2. CASE other # k
        BY <1>3, <2>2, OthersTold
    <2> QED BY <2>1, <2>2
<1> QED BY <1>3, LoggedKeepsAudit

LEMMA RevocationKeepsAudit ==
    ASSUME KeysInv, KeysInv', AuditInv, NEW k \in Created, keyStore[k].status = "active",
           keyStore' = [keyStore EXCEPT ![k].status = "revoked"],
           NEW entry \in AuditEntries, Logged(entry), entry.key = k, entry.event = "api_key.revoked"
    PROVE  AuditInv'
<1>1. /\ Created' = Created /\ k \in DOMAIN keyStore /\ keyStore[k] \in KeyRecords
      /\ keyStore' = [keyStore EXCEPT ![k] = [keyStore[k] EXCEPT !.status = "revoked"]]
    BY DEF Created, KeysInv
<1>2. /\ keyStore'[k].requestCount = keyStore[k].requestCount
      /\ keyStore'[k].status = "revoked"
      /\ \A other \in Created : other # k => keyStore'[other] = keyStore[other]
    BY <1>1 DEF KeyRecords, Created
<1>3. Tells(Append(auditLog, entry), k, keyStore[k].requestCount, TRUE)
    <2>1. auditLog \in Seq(AuditEntries) /\ keyStore[k].requestCount \in Nat
        BY <1>1 DEF KeysInv, KeyRecords
    <2>2. Tells(auditLog, k, keyStore[k].requestCount, FALSE)
        <3>1. Tells(auditLog, k, keyStore[k].requestCount, IsRevoked(keyStore[k]))
            BY DEF AuditInv, IsRevoked
        <3>2. IsRevoked(keyStore[k]) = FALSE
            BY DEF IsRevoked
        <3> QED BY <3>1, <3>2
    <2> QED BY <2>1, <2>2, AppendTells
<1>4. ASSUME NEW other \in Created'
      PROVE  Tells(Append(auditLog, entry), other, keyStore'[other].requestCount, IsRevoked(keyStore'[other]))
    <2>1. CASE other = k
        <3>1. IsRevoked(keyStore'[k]) = TRUE
            BY <1>2 DEF IsRevoked
        <3> QED BY <1>2, <1>3, <2>1, <3>1
    <2>2. CASE other # k
        BY <1>1, <1>2, <1>4, <2>2, OthersTold
    <2> QED BY <2>1, <2>2
<1> QED BY <1>1, <1>4, LoggedKeepsAudit

LEMMA DeveloperKeepsAudit ==
    ASSUME KeysInv, KeysInv', AuditInv, NEW credential \in Credentials, NEW time \in Nat,
           DeveloperRequest(credential, time)
    PROVE  AuditInv'
<1>0. UNCHANGED <<keyStore, auditLog>> => AuditInv'
    BY DEF AuditInv, Created
<1>1. CASE credential \in Bearers /\ MeWithBearer(credential, time)
    <2>1. CASE Logged(Entry4(Nobody, NoKey, "auth.invalid_key", "failure")) /\ UNCHANGED keyStore
        <3>1. /\ Entry4(Nobody, NoKey, "auth.invalid_key", "failure") \in AuditEntries
              /\ Entry4(Nobody, NoKey, "auth.invalid_key", "failure").key = NoKey
            BY EntriesAreEntries, OwnersAreCredentials DEF Entry4
        <3> QED BY <2>1, <3>1, NobodysEntry
    <2>2. CASE /\ Authentic(credential, time) /\ CountUse(credential)
               /\ \/ Logged(Entry4(keyStore[credential].ownerId, credential, "auth.invalid_key", "blocked"))
                  \/ Logged(Entry4(keyStore[credential].ownerId, credential, "auth.api_key_used", "success"))
        <3>1. credential \in Created /\ credential \in KeyIds /\ keyStore[credential].ownerId \in Credentials
            BY <2>2, OwnersAreCredentials DEF Authentic, KeysInv, KeyRecords
        <3>2. PICK event \in UseEvents, outcome \in {"blocked", "success"} :
                    Logged(Entry4(keyStore[credential].ownerId, credential, event, outcome))
            BY <2>2 DEF UseEvents
        <3> DEFINE entry == Entry4(keyStore[credential].ownerId, credential, event, outcome)
        <3>3. entry \in AuditEntries /\ entry.key = credential /\ entry.event \in UseEvents
            BY <3>1, EntriesAreEntries DEF Entry4, UseEvents
        <3> QED BY <2>2, <3>1, <3>2, <3>3, UseKeepsAudit
    <2> QED BY <1>1, <2>1, <2>2 DEF MeWithBearer
<1>2. CASE MeWithSession(credential)
    BY <1>0, <1>2 DEF MeWithSession
<1>3. ASSUME NEW valid \in BOOLEAN, NEW reads \in BOOLEAN, NEW k \in KeyIds, NEW life \in 0..MaxLife,
             CreateKey(credential, valid, k, reads, time + life)
      PROVE  AuditInv'
    <2>1. CASE Logged(Entry4(OwnerOf(credential), NoKey, "api_key.created", "failure")) /\ UNCHANGED keyStore
        <3>1. /\ Entry4(OwnerOf(credential), NoKey, "api_key.created", "failure") \in AuditEntries
              /\ Entry4(OwnerOf(credential), NoKey, "api_key.created", "failure").key = NoKey
            BY EntriesAreEntries, OwnersAreCredentials DEF Entry4
        <3> QED BY <2>1, <3>1, NobodysEntry
    <2>2. CASE UNCHANGED <<keyStore, auditLog>>
        BY <1>0, <2>2
    <2>3. CASE /\ k \in KeyIds \ Created
               /\ keyStore' = [i \in Created \cup {k} |->
                    IF i # k THEN keyStore[i]
                    ELSE [ownerId |-> OwnerOf(credential), status |-> "active", reads |-> reads,
                          requestCount |-> 0, expiresAt |-> time + life]]
               /\ Logged(Entry4(OwnerOf(credential), k, "api_key.created", "success"))
        <3> DEFINE entry == Entry4(OwnerOf(credential), k, "api_key.created", "success")
        <3>1. entry \in AuditEntries /\ entry.key = k /\ entry.event = "api_key.created"
            BY EntriesAreEntries, OwnersAreCredentials DEF Entry4
        <3>2. /\ Created' = Created \cup {k} /\ keyStore'[k].requestCount = 0 /\ keyStore'[k].status = "active"
              /\ \A other \in Created : keyStore'[other] = keyStore[other]
            BY <2>3 DEF Created
        <3> HIDE DEF entry
        <3>3. Logged(entry)
            BY <2>3 DEF entry
        <3> QED BY <2>3, <3>1, <3>2, <3>3, CreationKeepsAudit
    <2> QED BY <1>3, <2>1, <2>2, <2>3 DEF CreateKey
<1>4. CASE ListKeys(credential)
    <2>1. /\ Entry4(OwnerOf(credential), NoKey, "api_key.listed", "success") \in AuditEntries
          /\ Entry4(OwnerOf(credential), NoKey, "api_key.listed", "success").key = NoKey
        BY EntriesAreEntries, OwnersAreCredentials DEF Entry4
    <2> QED BY <1>4, <2>1, NobodysEntry DEF ListKeys
<1>5. ASSUME NEW k \in KeyIds, RevokeKey(credential, k) PROVE AuditInv'
    <2>1. CASE ~Revocable(credential, k)
        BY <1>0, <1>5, <2>1 DEF RevokeKey
    <2>2. CASE Revocable(credential, k)
        <3> DEFINE entry == Entry4(OwnerOf(credential), k, "api_key.revoked", "success")
        <3>1. entry \in AuditEntries /\ entry.key = k /\ entry.event = "api_key.revoked"
            BY EntriesAreEntries, OwnersAreCredentials DEF Entry4
        <3>2. /\ k \in Created /\ keyStore[k].status = "active"
              /\ keyStore' = [keyStore EXCEPT ![k].status = "revoked"] /\ Logged(entry)
            BY <1>5, <2>2 DEF RevokeKey, Revocable
        <3> HIDE DEF entry
        <3> QED BY <3>1, <3>2, RevocationKeepsAudit
    <2> QED BY <2>1, <2>2
<1> QED BY <1>1, <1>2, <1>3, <1>4, <1>5 DEF DeveloperRequest

(* The log and the store tell the same story of each key, as far back as    *)
(* the log reaches (api-key-store.js, usage-store.js: appendAuditEntry),    *)
(* whatever the number of keys, the length of the log and the requests.     *)
THEOREM AuditAlwaysTells == ServerSpec => []AuditTellsTheKeys
<1>1. ServerInit => AuditInv
    BY DEF ServerInit, KeysInit, AuditInv, Created
<1>2. ServerInv /\ ServerInv' /\ AuditInv /\ [ServerNext]_serverVars => AuditInv'
    <2> SUFFICES ASSUME ServerInv, ServerInv', AuditInv, [ServerNext]_serverVars PROVE AuditInv'
        OBVIOUS
    <2>0. UNCHANGED keyVars => AuditInv'
        BY DEF AuditInv, Created, keyVars
    <2>1. ASSUME NEW client \in Clients, NEW credential \in Credentials, Develop(client, credential)
          PROVE  AuditInv'
        <3>1. KeysInv /\ KeysInv' /\ now \in Nat /\ DeveloperRequest(credential, now)
            BY <2>1, LimiterAssumption DEF ServerInv, LimiterInv, LimiterTypes, Develop
        <3> QED BY <3>1, DeveloperKeepsAudit
    <2>2. CASE UNCHANGED serverVars
        BY <2>0, <2>2 DEF serverVars, keyVars
    <2>3. CASE \E client \in Clients : TooMany(client) \/ PollJob(client) \/ Join(client)
        BY <2>0, <2>3 DEF TooMany, PollJob, Join
    <2>4. CASE \E client \in Clients, s \in Submissions : Submit(client, s)
        BY <2>0, <2>4 DEF Submit
    <2>5. CASE (\E s \in Submissions : Handle(s)) \/ ServerPrune \/ ServerClean \/ ServerTick
        BY <2>0, <2>5 DEF Handle, ServerPrune, ServerClean, ServerTick
    <2> QED BY <2>1, <2>2, <2>3, <2>4, <2>5 DEF ServerNext
<1>3. AuditInv => AuditTellsTheKeys
    <2> SUFFICES ASSUME AuditInv, NEW k \in Created
                 PROVE  /\ Uses(auditLog, k) <= keyStore[k].requestCount
                        /\ Creation(auditLog, k) # {} =>
                            /\ Uses(auditLog, k) = keyStore[k].requestCount
                            /\ (keyStore[k].status = "revoked") = (Revocation(auditLog, k) # {})
                        /\ \A c \in Creation(auditLog, k), i \in DOMAIN auditLog : auditLog[i].key = k => c <= i
        <3>1. \A k \in Created :
                /\ Entries(k, {"auth.api_key_used", "auth.invalid_key"}) = Uses(auditLog, k)
                /\ {i \in DOMAIN auditLog : auditLog[i].key = k /\ auditLog[i].event = "api_key.created"}
                    = Creation(auditLog, k)
                /\ {i \in DOMAIN auditLog : auditLog[i].key = k /\ auditLog[i].event = "api_key.revoked"}
                    = Revocation(auditLog, k)
            BY DEF Entries, Uses, About, UseEvents, Creation, CreationEvents, Revocation, RevocationEvents
        <3> QED BY <3>1 DEF AuditTellsTheKeys
    <2>1. Tells(auditLog, k, keyStore[k].requestCount, keyStore[k].status = "revoked")
        BY DEF AuditInv
    <2> QED BY <2>1 DEF Tells
<1> QED BY <1>1, <1>2, <1>3, ServerInvHolds, PTL DEF ServerSpec

-----------------------------------------------------------------------------
(* The inputs of a job.  A key is made of the time, the place of the file   *)
(* in its request and its name: two files of one request differ in their    *)
(* places, and two requests meet under a key that both of them have noted,  *)
(* which is what Alone excludes.  Keys are only ever added to a handler, so *)
(* who is alone now has always been alone.                                  *)
HeldIn(storage, k) == IF k \in DOMAIN storage THEN storage[k] ELSE NoFile

Lone(s, i, handlers) ==
    \A r \in Submissions \ {s} : \A j \in DOMAIN handlers[r].keys : handlers[r].keys[j] # handlers[s].keys[i]

\* File i of s is in the storage, if it has the key to itself.
Holds(s, i, handlers, storage) ==
    FilesOf[s][i].kind # "key" /\ Lone(s, i, handlers) => HeldIn(storage, handlers[s].keys[i]) = Sent(s, i)

\* What a handler has noted.
Shape(s, handler, queue) ==
    /\ handler.at = "new" => handler.keys = <<>>
    /\ handler.at = "writing" => handler.keys # <<>>
    /\ \A i \in 1..Len(handler.keys) : handler.keys[i][2] = i
    /\ s \in queue => handler.at = "answered" /\ Len(handler.keys) = Len(FilesOf[s])

\* The files the handler no longer waits for are in the storage.
Fits(s, handlers, storage, queue) ==
    \A i \in 1..Len(handlers[s].keys) :
        i < Len(handlers[s].keys) \/ handlers[s].at = "taking" \/ s \in queue => Holds(s, i, handlers, storage)

InputsInv ==
    \A s \in Submissions :
        /\ Shape(s, subs[s], Queued)
        /\ Fits(s, subs, stored, Queued)
        /\ s \in Queued => jobs[s] = subs[s].keys

\* No handler drops or changes a key it has noted.
KeysGrow ==
    \A r \in Submissions :
        /\ Len(subs[r].keys) <= Len(subs'[r].keys)
        /\ \A j \in 1..Len(subs[r].keys) : subs'[r].keys[j] = subs[r].keys[j]

LEMMA Holding ==
    ASSUME NEW k, NEW content, Hold(k, content)
    PROVE  /\ HeldIn(stored', k) = content
           /\ \A other : other # k => HeldIn(stored', other) = HeldIn(stored, other)
    BY DEF Hold, HeldIn

LEMMA KeysAreListed ==
    ASSUME IntakeInv, NEW s \in Submissions
    PROVE  /\ subs[s] \in Handlers /\ subs[s].keys \in Seq(Keys) /\ Len(subs[s].keys) \in Nat
           /\ DOMAIN subs[s].keys = 1..Len(subs[s].keys) /\ Len(subs[s].keys) <= Len(FilesOf[s])
           /\ Len(FilesOf[s]) \in Nat
    BY LenProperties, FilesAssumption DEF IntakeInv, Handlers

\* Who is alone in the next state is alone in this one.
LEMMA AloneBefore ==
    ASSUME IntakeInv, IntakeInv', KeysGrow, NEW t \in Submissions, NEW i \in 1..Len(subs[t].keys),
           Lone(t, i, subs')
    PROVE  Lone(t, i, subs)
<1> SUFFICES ASSUME NEW r \in Submissions \ {t}, NEW j \in DOMAIN subs[r].keys
             PROVE  subs[r].keys[j] # subs[t].keys[i]
    BY DEF Lone
<1>1. j \in 1..Len(subs[r].keys) /\ Len(subs[r].keys) \in Nat
    BY KeysAreListed
<1>2. subs'[r].keys \in Seq(Keys)
    BY DEF IntakeInv, Handlers
<1>3. Len(subs'[r].keys) \in Nat /\ DOMAIN subs'[r].keys = 1..Len(subs'[r].keys)
    BY <1>2, LenProperties
<1>4. j \in DOMAIN subs'[r].keys
    BY <1>1, <1>3 DEF KeysGrow
<1>5. subs'[r].keys[j] = subs[r].keys[j] /\ subs'[t].keys[i] = subs[t].keys[i]
    BY <1>1 DEF KeysGrow
<1> QED BY <1>4, <1>5 DEF Lone

\* A file stays in the storage unless something is written under its key.
LEMMA HoldsStays ==
    ASSUME IntakeInv, IntakeInv', KeysGrow, NEW t \in Submissions, NEW i \in 1..Len(subs[t].keys),
           Holds(t, i, subs, stored),
           Lone(t, i, subs') => HeldIn(stored', subs[t].keys[i]) = HeldIn(stored, subs[t].keys[i])
    PROVE  Holds(t, i, subs', stored')
<1>1. subs'[t].keys[i] = subs[t].keys[i]
    BY DEF KeysGrow
<1> QED BY <1>1, AloneBefore DEF Holds

\* Storing a file of one submission leaves those of the others as they are.
LEMMA OthersFit ==
    ASSUME IntakeInv, IntakeInv', KeysGrow, NEW s \in Submissions, NEW p \in 1..Len(subs'[s].keys),
           NEW content, Hold(subs'[s].keys[p], content),
           NEW t \in Submissions, t # s, subs'[t] = subs[t], Fits(t, subs, stored, Queued), Queued' = Queued
    PROVE  Fits(t, subs', stored', Queued')
<1> DEFINE key == subs'[s].keys[p]
<1>1. p \in DOMAIN subs'[s].keys
    <2>1. subs'[s].keys \in Seq(Keys)
        BY DEF IntakeInv, Handlers
    <2> QED BY <2>1, LenProperties
<1>2. ASSUME NEW i \in 1..Len(subs[t].keys), Holds(t, i, subs, stored)
      PROVE  Holds(t, i, subs', stored')
    <2>1. Lone(t, i, subs') => subs[t].keys[i] # key
        BY <1>1 DEF Lone
    <2>2. Lone(t, i, subs') => HeldIn(stored', subs[t].keys[i]) = HeldIn(stored, subs[t].keys[i])
        BY <2>1, Holding
    <2> QED BY <1>2, <2>2, HoldsStays
<1> QED BY <1>2 DEF Fits

\* A step that stores nothing and queues nothing.
LEMMA QuietlyFits ==
    ASSUME IntakeInv, IntakeInv', KeysGrow, stored' = stored, Queued' = Queued, NEW t \in Submissions,
           Len(subs'[t].keys) = Len(subs[t].keys), subs'[t].at = "taking" => subs[t].at = "taking",
           Fits(t, subs, stored, Queued)
    PROVE  Fits(t, subs', stored', Queued')
<1>1. ASSUME NEW i \in 1..Len(subs[t].keys), Holds(t, i, subs, stored)
      PROVE  Holds(t, i, subs', stored')
    BY <1>1, HoldsStays
<1> QED BY <1>1 DEF Fits

\* A handler that notes one more key.
LEMMA KeysGrowByOne ==
    ASSUME IntakeInv, NEW s \in Submissions, NEW key \in Keys, subs'[s].keys = Append(subs[s].keys, key),
           \A t \in Submissions \ {s} : subs'[t] = subs[t]
    PROVE  /\ KeysGrow
           /\ Len(subs'[s].keys) = Len(subs[s].keys) + 1 /\ subs'[s].keys[Len(subs[s].keys) + 1] = key
           /\ subs'[s].keys # <<>>
<1>1. subs[s].keys \in Seq(Keys)
    BY KeysAreListed
<1>2. /\ Len(subs'[s].keys) = Len(subs[s].keys) + 1 /\ subs'[s].keys[Len(subs[s].keys) + 1] = key
      /\ \A j \in 1..Len(subs[s].keys) : subs'[s].keys[j] = subs[s].keys[j]
      /\ subs'[s].keys # <<>>
    BY <1>1, AppendProperties
<1>3. ASSUME NEW r \in Submissions
      PROVE  /\ Len(subs[r].keys) <= Len(subs'[r].keys)
             /\ \A j \in 1..Len(subs[r].keys) : subs'[r].keys[j] = subs[r].keys[j]
    <2>1. Len(subs[r].keys) \in Nat /\ Len(subs[s].keys) \in Nat
        BY KeysAreListed
    <2>2. CASE r = s
        BY <1>2, <2>1, <2>2
    <2>3. CASE r # s
        BY <2>1, <2>3
    <2> QED BY <2>2, <2>3
<1>4. KeysGrow
    BY <1>3 DEF KeysGrow
<1> QED BY <1>2, <1>4

LEMMA KeysStay ==
    ASSUME IntakeInv, \A t \in Submissions : subs'[t].keys = subs[t].keys
    PROVE  KeysGrow
<1>1. \A t \in Submissions : Len(subs[t].keys) \in Nat
    BY KeysAreListed
<1> QED BY <1>1 DEF KeysGrow

LEMMA TakeKeepsInputs ==
    ASSUME IntakeInv, IntakeInv', InputsInv, NEW s \in Submissions, NEW time \in Nat, TakeFile(s, time)
    PROVE  InputsInv'
<1> DEFINE n == Len(subs[s].keys)
           i == Next1(s)
           key == InputKey(s, i, time)
<1>1. /\ subs[s].at = "taking" /\ s \notin Queued /\ Queued' = Queued /\ jobs' = jobs
      /\ subs \in [Submissions -> Handlers]
    BY DEF TakeFile, InputsInv, Shape, IntakeInv, Queued
<1>2. i = n + 1 /\ n \in Nat /\ i \in Nat
    BY KeysAreListed DEF Next1
<1>3. key[2] = i /\ key \in Keys
    BY <1>2 DEF InputKey, Keys, Names
<1>4. CASE Answer(s, 500) /\ UNCHANGED stored
    <2>1. /\ subs'[s].at = "answered" /\ subs'[s].keys = subs[s].keys
          /\ \A t \in Submissions \ {s} : subs'[t] = subs[t]
        BY <1>1, <1>4 DEF Handlers, Answer
    <2>2. KeysGrow
        BY <2>1, KeysStay
    <2>3. \A t \in Submissions : Fits(t, subs', stored', Queued')
        BY <1>1, <1>4, <2>1, <2>2, QuietlyFits DEF InputsInv
    <2>4. \A t \in Submissions : Shape(t, subs'[t], Queued') /\ (t \in Queued' => jobs'[t] = subs'[t].keys)
        BY <1>1, <2>1 DEF InputsInv, Shape
    <2> QED BY <2>3, <2>4 DEF InputsInv, Fits, Shape, Holds, Lone
<1>5. CASE /\ subs'[s].keys = Append(subs[s].keys, key)
           /\ \A t \in Submissions \ {s} : subs'[t] = subs[t]
           /\ \/ subs'[s].at = "writing" /\ Hold(key, Torn)
              \/ subs'[s].at = "taking" /\ UNCHANGED stored /\ FilesOf[s][i].kind = "key"
    <2>1. KeysGrow /\ Len(subs'[s].keys) = i /\ subs'[s].keys[i] = key /\ subs'[s].keys # <<>>
        BY <1>2, <1>3, <1>5, KeysGrowByOne
    <2>2. Shape(s, subs'[s], Queued')
        <3>1. ASSUME NEW j \in 1..i PROVE subs'[s].keys[j][2] = j
            <4>1. CASE j = i
                BY <1>3, <2>1, <4>1
            <4>2. CASE j \in 1..n
                BY <2>1, <4>2 DEF InputsInv, Shape, KeysGrow
            <4> QED BY <1>2, <4>1, <4>2
        <3> QED BY <1>1, <1>5, <2>1, <3>1 DEF Shape
    <2>3. ASSUME NEW j \in 1..n PROVE Holds(s, j, subs', stored')
        <3>1. Holds(s, j, subs, stored) /\ subs[s].keys[j][2] = j
            BY <1>1 DEF InputsInv, Fits, Shape
        <3>2. subs[s].keys[j] # key
            BY <1>2, <1>3, <3>1
        <3>3. HeldIn(stored', subs[s].keys[j]) = HeldIn(stored, subs[s].keys[j])
            BY <1>5, <3>2, Holding DEF HeldIn
        <3> QED BY <2>1, <3>1, <3>3, HoldsStays
    <2>4. Fits(s, subs', stored', Queued')
        <3> SUFFICES ASSUME NEW j \in 1..i, j < i \/ subs'[s].at = "taking"
                     PROVE  Holds(s, j, subs', stored')
            BY <1>1, <2>1 DEF Fits
        <3>1. CASE j \in 1..n
            BY <2>3, <3>1
        <3>2. CASE j = i
            <4>1. FilesOf[s][i].kind = "key"
                BY <1>2, <1>5, <3>2
            <4> QED BY <3>2, <4>1 DEF Holds
        <3> QED BY <1>2, <3>1, <3>2
    <2>5. ASSUME NEW t \in Submissions, t # s PROVE Fits(t, subs', stored', Queued')
        <3>1. subs'[t] = subs[t] /\ Fits(t, subs, stored, Queued)
            BY <1>5, <2>5 DEF InputsInv
        <3>2. CASE Hold(key, Torn)
            <4>1. i \in 1..Len(subs'[s].keys)
                BY <1>2, <2>1
            <4> QED BY <1>1, <2>1, <2>5, <3>1, <3>2, <4>1, OthersFit
        <3>3. CASE UNCHANGED stored
            BY <1>1, <2>1, <3>1, <3>3, QuietlyFits
        <3> QED BY <1>5, <3>2, <3>3
    <2>6. \A t \in Submissions : Fits(t, subs', stored', Queued')
        BY <2>4, <2>5
    <2>7. \A t \in Submissions : Shape(t, subs'[t], Queued') /\ (t \in Queued' => jobs'[t] = subs'[t].keys)
        BY <1>1, <1>5, <2>2 DEF InputsInv
    <2> QED BY <2>6, <2>7 DEF InputsInv, Fits, Shape, Holds, Lone
<1>6. \/ Answer(s, 500) /\ UNCHANGED stored
      \/ subs' = [subs EXCEPT ![s].keys = Append(@, key)] /\ UNCHANGED stored /\ FilesOf[s][i].kind = "key"
      \/ subs' = [subs EXCEPT ![s].at = "writing", ![s].keys = Append(@, key)] /\ Hold(key, Torn)
    BY DEF TakeFile
<1> HIDE DEF key, i, n
<1> QED BY <1>1, <1>4, <1>5, <1>6 DEF Handlers

LEMMA WriteKeepsInputs ==
    ASSUME IntakeInv, IntakeInv', InputsInv, NEW s \in Submissions, FileWritten(s)
    PROVE  InputsInv'
<1> DEFINE i == Len(subs[s].keys)
           key == subs[s].keys[i]
<1>1. /\ subs[s].at = "writing" /\ s \notin Queued /\ Queued' = Queued /\ jobs' = jobs
      /\ subs \in [Submissions -> Handlers] /\ subs[s].keys \in Seq(Keys) /\ subs[s].keys # <<>>
    BY DEF FileWritten, InputsInv, Shape, IntakeInv, Handlers, Queued
<1>2. i \in Nat /\ i >= 1 /\ i \in 1..i
    BY <1>1, LenProperties, EmptySeq
<1>3. key[2] = i
    BY <1>2 DEF InputsInv, Shape
<1>4. Hold(key, Sent(s, i))
    BY DEF FileWritten
<1>5. /\ subs'[s].at \in {"taking", "answered"} /\ subs'[s].keys = subs[s].keys
      /\ \A t \in Submissions \ {s} : subs'[t] = subs[t]
    BY <1>1 DEF Handlers, FileWritten, Answer
<1>6. KeysGrow /\ subs'[s].keys[i] = key /\ i \in 1..Len(subs'[s].keys)
    BY <1>2, <1>5, KeysStay
<1>7. ASSUME NEW j \in 1..i PROVE Holds(s, j, subs', stored')
    <2>1. CASE j = i
        BY <1>4, <1>6, <2>1, Holding DEF Holds
    <2>2. CASE j < i
        <3>1. Holds(s, j, subs, stored) /\ subs[s].keys[j][2] = j
            BY <2>2 DEF InputsInv, Fits, Shape
        <3>2. subs[s].keys[j] # key
            BY <1>3, <2>2, <3>1
        <3>3. HeldIn(stored', subs[s].keys[j]) = HeldIn(stored, subs[s].keys[j])
            BY <1>4, <3>2, Holding
        <3> QED BY <1>6, <3>1, <3>3, HoldsStays
    <2> QED BY <1>2, <2>1, <2>2
<1>8. ASSUME NEW t \in Submissions, t # s PROVE Fits(t, subs', stored', Queued')
    <2>1. subs'[t] = subs[t] /\ Fits(t, subs, stored, Queued)
        BY <1>5, <1>8 DEF InputsInv
    <2> QED BY <1>1, <1>4, <1>6, <1>8, <2>1, OthersFit
<1>9. \A t \in Submissions : Fits(t, subs', stored', Queued')
    BY <1>5, <1>7, <1>8 DEF Fits
<1>10. \A t \in Submissions : Shape(t, subs'[t], Queued') /\ (t \in Queued' => jobs'[t] = subs'[t].keys)
    BY <1>1, <1>5 DEF InputsInv, Shape
<1> QED BY <1>9, <1>10 DEF InputsInv, Fits, Shape, Holds, Lone

\* The last file of a request whose write failed is claimed of nobody.
LEMMA FailureKeepsInputs ==
    ASSUME IntakeInv, IntakeInv', InputsInv, NEW s \in Submissions, WriteFails(s)
    PROVE  InputsInv'
<1>1. /\ s \notin Queued /\ Queued' = Queued /\ jobs' = jobs /\ stored' = stored
      /\ subs[s].at = "writing" /\ subs \in [Submissions -> Handlers]
    BY DEF WriteFails, InputsInv, Shape, IntakeInv, Queued
<1>2. /\ subs'[s].at = "answered" /\ subs'[s].keys = subs[s].keys
      /\ \A t \in Submissions \ {s} : subs'[t] = subs[t]
    BY <1>1 DEF Handlers, WriteFails, Answer
<1>3. KeysGrow
    BY <1>2, KeysStay
<1>4. \A t \in Submissions : Fits(t, subs', stored', Queued')
    BY <1>1, <1>2, <1>3, QuietlyFits DEF InputsInv
<1>5. \A t \in Submissions : Shape(t, subs'[t], Queued') /\ (t \in Queued' => jobs'[t] = subs'[t].keys)
    BY <1>1, <1>2 DEF InputsInv, Shape
<1> QED BY <1>4, <1>5 DEF InputsInv, Fits, Shape, Holds, Lone

LEMMA EnqueueKeepsInputs ==
    ASSUME IntakeInv, IntakeInv', InputsInv, NEW s \in Submissions, EnqueueJob(s)
    PROVE  InputsInv'
<1>1. /\ subs[s].at = "taking" /\ s \notin Queued /\ stored' = stored
      /\ subs \in [Submissions -> Handlers] /\ subs[s].keys \in Seq(Keys)
    BY DEF EnqueueJob, Ready, InputsInv, Shape, IntakeInv, Handlers, Queued
<1>2. Len(subs[s].keys) = Len(FilesOf[s])
    <2>1. Len(subs[s].keys) \in Nat /\ Len(subs[s].keys) <= Len(FilesOf[s]) /\ Len(FilesOf[s]) \in Nat
        BY KeysAreListed
    <2>2. Len(subs[s].keys) + 1 > Len(FilesOf[s])
        BY DEF EnqueueJob, Ready, AllTaken, Next1
    <2> QED BY <2>1, <2>2
<1>3. /\ subs'[s].at = "answered" /\ subs'[s].keys = subs[s].keys
      /\ \A t \in Submissions \ {s} : subs'[t] = subs[t]
    BY <1>1 DEF Handlers, EnqueueJob, Answer
<1>4. /\ Queued' = Queued \cup {s} /\ jobs'[s] = subs[s].keys
      /\ \A t \in Queued : jobs'[t] = IF t = s THEN subs[s].keys ELSE jobs[t]
    BY DEF EnqueueJob, Queued
<1>5. KeysGrow
    BY <1>3, KeysStay
<1>6. ASSUME NEW t \in Submissions PROVE Fits(t, subs', stored', Queued')
    <2>1. ASSUME NEW i \in 1..Len(subs[t].keys), Holds(t, i, subs, stored)
          PROVE  Holds(t, i, subs', stored')
        BY <1>1, <1>5, <2>1, HoldsStays
    <2>2. Fits(t, subs, stored, Queued)
        BY DEF InputsInv
    <2> QED BY <1>1, <1>3, <1>4, <2>1, <2>2 DEF Fits
<1>7. \A t \in Submissions : Shape(t, subs'[t], Queued') /\ (t \in Queued' => jobs'[t] = subs'[t].keys)
    BY <1>1, <1>2, <1>3, <1>4 DEF InputsInv, Shape
<1> QED BY <1>6, <1>7 DEF InputsInv, Fits, Shape, Holds, Lone

\* A request that is refused leaves nothing behind.
LEMMA PostKeepsInputs ==
    ASSUME IntakeInv, IntakeInv', InputsInv, NEW s \in Submissions, PostJob(s)
    PROVE  InputsInv'
<1>1. /\ subs[s].at = "new" /\ subs[s].keys = <<>> /\ s \notin Queued
      /\ stored' = stored /\ jobs' = jobs /\ Queued' = Queued /\ subs \in [Submissions -> Handlers]
    BY DEF PostJob, InputsInv, Shape, IntakeInv, Queued
<1>2. /\ subs'[s].keys = <<>> /\ subs'[s].at \in {"answered", "taking"}
      /\ \A t \in Submissions \ {s} : subs'[t] = subs[t]
    BY <1>1 DEF Handlers, PostJob, Answer
<1>3. KeysGrow
    BY <1>1, <1>2, KeysStay
<1>4. ASSUME NEW t \in Submissions PROVE Fits(t, subs', stored', Queued')
    <2>1. CASE t = s
        BY <1>2, <2>1 DEF Fits
    <2>2. CASE t # s
        BY <1>1, <1>2, <1>3, <2>2, QuietlyFits DEF InputsInv
    <2> QED BY <2>1, <2>2
<1>5. \A t \in Submissions : Shape(t, subs'[t], Queued') /\ (t \in Queued' => jobs'[t] = subs'[t].keys)
    BY <1>1, <1>2 DEF InputsInv, Shape
<1> QED BY <1>4, <1>5 DEF InputsInv, Fits, Shape, Holds, Lone

(* Whatever the requests that are handled at once, the names of their files *)
(* and the order in which their writes end or fail, each input of a queued  *)
(* job that is alone under its key holds what was sent for it               *)
(* (api-routes.js: POST /api/v1/jobs), for ever after.                      *)
THEOREM InputsStayTheirs == ServerSpec => []InputsAreTheirs
<1>1. ServerInit => InputsInv
    BY DEF ServerInit, IntakeInit, InputsInv, Fits, Shape, Queued
<1>2. ServerInv /\ ServerInv' /\ InputsInv /\ [ServerNext]_serverVars => InputsInv'
    <2> SUFFICES ASSUME ServerInv, ServerInv', InputsInv, [ServerNext]_serverVars PROVE InputsInv'
        OBVIOUS
    <2>1. IntakeInv /\ IntakeInv' /\ now \in Nat
        BY LimiterAssumption DEF ServerInv, LimiterInv, LimiterTypes
    <2>2. UNCHANGED intakeVars => InputsInv'
        <3> SUFFICES ASSUME UNCHANGED intakeVars PROVE InputsInv'
            OBVIOUS
        <3>1. /\ subs' = subs /\ stored' = stored /\ jobs' = jobs /\ Queued' = Queued
            BY DEF Queued, intakeVars
        <3> QED BY <3>1 DEF InputsInv, Fits, Shape, Holds, Lone
    <2>3. ASSUME NEW client \in Clients, NEW s \in Submissions, Submit(client, s) PROVE InputsInv'
        BY <2>1, <2>3, PostKeepsInputs DEF Submit
    <2>4. ASSUME NEW s \in Submissions, Handle(s) PROVE InputsInv'
        BY <2>1, <2>4, TakeKeepsInputs, WriteKeepsInputs, FailureKeepsInputs, EnqueueKeepsInputs
           DEF Handle, IntakeStep
    <2>5. CASE UNCHANGED serverVars
        BY <2>2, <2>5 DEF serverVars, intakeVars
    <2>6. CASE \E client \in Clients :
                \/ TooMany(client) \/ PollJob(client) \/ Join(client)
                \/ \E credential \in Credentials : Develop(client, credential)
        BY <2>2, <2>6 DEF TooMany, PollJob, Join, Develop, intakeVars
    <2>7. CASE ServerPrune \/ ServerClean \/ ServerTick
        BY <2>2, <2>7 DEF ServerPrune, ServerClean, ServerTick, intakeVars
    <2> QED BY <2>3, <2>4, <2>5, <2>6, <2>7 DEF ServerNext
<1>3. ServerInv /\ InputsInv => InputsAreTheirs
    <2> SUFFICES ASSUME ServerInv, InputsInv, NEW s \in Queued
                 PROVE  /\ Len(jobs[s]) = Len(FilesOf[s])
                        /\ \A i \in DOMAIN jobs[s] :
                            FilesOf[s][i].kind # "key" /\ Alone(s, i) => Held(jobs[s][i]) = Sent(s, i)
        BY DEF InputsAreTheirs
    <2>1. s \in Submissions /\ DOMAIN subs[s].keys = 1..Len(subs[s].keys)
        BY KeysAreListed DEF ServerInv, IntakeInv
    <2>2. /\ jobs[s] = subs[s].keys /\ Len(jobs[s]) = Len(FilesOf[s])
          /\ \A i \in 1..Len(subs[s].keys) : Holds(s, i, subs, stored)
        BY <2>1 DEF InputsInv, Fits, Shape
    <2> QED BY <2>1, <2>2 DEF Holds, Lone, Alone, HeldIn, Held
<1> QED BY <1>1, <1>2, <1>3, ServerInvHolds, PTL DEF ServerSpec
=============================================================================
