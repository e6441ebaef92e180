------------------------------ MODULE P2pProofs ------------------------------
(***************************************************************************)
(* Theorems about the relay and the pages on top of it, for every set of   *)
(* codes, rooms, peers and streams, every length of the queue and every    *)
(* time to live: rooms stay sound, peers that are connected know of each   *)
(* other and miss nothing, and signals arrive in order; all of it also     *)
(* when the relay's clients are the pages of P2pHandshake, who make no     *)
(* more connections than they are urged to and of whom two that are left   *)
(* alone are paired by a single offer.                                     *)
(***************************************************************************)
EXTENDS P2pHandshake, TLAPS, FiniteSetTheorems, SequenceTheorems, WellFoundedInduction

-----------------------------------------------------------------------------
(* Only: the elements of a sequence that belong to a set *)

Increasing(f) == \A i, j \in DOMAIN f : i < j => f[i] < f[j]

LEMMA FirstNumbers ==
    ASSUME NEW n \in Nat
    PROVE  IsFiniteSet(1..n) /\ Cardinality(1..n) = n
<1>1. IsFiniteSet(1..n) /\ Cardinality(1..n) = IF 1 > n THEN 0 ELSE n - 1 + 1
  BY FS_Interval
<1>. QED
  BY <1>1

\* A finite set of numbers can be listed in increasing order.
LEMMA Listing ==
    ASSUME NEW n \in Nat, NEW S \in SUBSET (1..n)
    PROVE  \E f \in [1..Cardinality(S) -> S] : Increasing(f)
<1> DEFINE Listed(T) == \E f \in [1..Cardinality(T) -> T] : Increasing(f)
           Bad == {m \in Nat : \E T \in SUBSET (1..m) : ~Listed(T)}
<1>1. SUFFICES ASSUME Bad # {} PROVE FALSE
  BY <1>1
<1>2. \E m \in Bad : \A k \in Bad : ~ (<<k, m>> \in OpToRel(<, Nat))
  BY <1>1, NatLessThanWellFounded, WFMin
<1>3. PICK m \in Bad : \A k \in Bad : ~ (<<k, m>> \in OpToRel(<, Nat))
  BY <1>2
<1>4. ASSUME NEW k \in Nat, k < m, NEW T \in SUBSET (1..k) PROVE Listed(T)
  <2>1. <<k, m>> \in Nat \X Nat /\ <<k, m>>[1] = k /\ <<k, m>>[2] = m
    OBVIOUS
  <2>2. k \notin Bad
    BY <1>3, <1>4, <2>1 DEF OpToRel
  <2>. QED
    BY <1>4, <2>2
<1>5. PICK T \in SUBSET (1..m) : ~Listed(T)
  BY <1>3
<1>6. m \in Nat /\ IsFiniteSet(1..m) /\ IsFiniteSet(T)
  <2>1. m \in Nat
    BY <1>3
  <2>2. IsFiniteSet(1..m)
    BY <2>1, FirstNumbers
  <2>. QED
    BY <2>1, <2>2, FS_Subset
<1>7. CASE m \notin T
  <2>1. m # 0
    <3>1. ASSUME m = 0 PROVE FALSE
      <4>1. T = {}
        BY <3>1
      <4>2. Cardinality(T) = 0
        BY <4>1, FS_EmptySet
      <4>3. [i \in {} |-> 0] \in [1..0 -> T] /\ Increasing([i \in {} |-> 0])
        BY DEF Increasing
      <4>. QED
        BY <1>5, <4>2, <4>3
    <3>. QED
      BY <3>1
  <2>2. m - 1 \in Nat /\ m - 1 < m /\ T \in SUBSET (1..(m - 1))
    BY <1>6, <1>7, <2>1
  <2>. QED
    BY <1>4, <1>5, <2>2
<1>8. CASE m \in T
  <2> DEFINE U == T \ {m}
             c == Cardinality(U)
  <2>1. m - 1 \in Nat /\ m - 1 < m /\ U \in SUBSET (1..(m - 1))
    BY <1>6, <1>8
  <2>2. PICK f \in [1..c -> U] : Increasing(f)
    BY <1>4, <2>1
  <2>3. Cardinality(T) = c + 1 /\ c \in Nat
    <3>1. IsFiniteSet(U) /\ T = U \cup {m} /\ m \notin U
      BY <1>6, <1>8, FS_RemoveElement
    <3>. QED
      BY <3>1, FS_AddElement, FS_CardinalityType
  <2> HIDE DEF c
  <2> DEFINE g == [i \in 1..(c + 1) |-> IF i = c + 1 THEN m ELSE f[i]]
  <2>4. g \in [1..(c + 1) -> T]
    <3>1. ASSUME NEW i \in 1..(c + 1) PROVE g[i] \in T
      <4>1. i = c + 1 \/ i \in 1..c
        BY <2>3
      <4>. QED
        BY <1>8, <2>2, <4>1
    <3>. QED
      BY <3>1
  <2>5. Increasing(g)
    <3>1. SUFFICES ASSUME NEW i \in 1..(c + 1), NEW j \in 1..(c + 1), i < j PROVE g[i] < g[j]
      BY DEF Increasing
    <3>2. i \in 1..c /\ (j = c + 1 \/ j \in 1..c)
      BY <2>3, <3>1
    <3>3. g[i] = f[i]
      BY <2>3, <3>2
    <3>6. f[i] \in 1..(m - 1)
      BY <2>1, <2>2, <3>2
    <3>4. CASE j = c + 1
      BY <1>6, <3>3, <3>4, <3>6
    <3>5. CASE j \in 1..c
      BY <2>2, <2>3, <3>1, <3>2, <3>3, <3>5, <3>6 DEF Increasing
    <3>. QED
      BY <3>2, <3>4, <3>5
  <2>. QED
    BY <1>5, <2>3, <2>4, <2>5
<1>. QED
  BY <1>7, <1>8

\* What Only picks: every element of the set, in the order of the sequence.
LEMMA Picked ==
    ASSUME NEW A, NEW q \in Seq(A), NEW keep
    PROVE  \E n \in 0..Len(q) : \E f \in [1..n -> 1..Len(q)] :
              /\ \A i, j \in 1..n : i < j => f[i] < f[j]
              /\ \A i \in 1..n : q[f[i]] \in keep
              /\ \A k \in 1..Len(q) : q[k] \in keep => \E i \in 1..n : f[i] = k
              /\ Only(q, keep) = [i \in 1..n |-> q[f[i]]]
<1> DEFINE at == {i \in DOMAIN q : q[i] \in keep}
           n == Cardinality(at)
           f == CHOOSE g \in [1..n -> at] : \A i, j \in DOMAIN g : i < j => g[i] < g[j]
<1>1. Len(q) \in Nat /\ DOMAIN q = 1..Len(q) /\ at \in SUBSET (1..Len(q))
  BY LenProperties
<1>2. IsFiniteSet(at) /\ n \in 0..Len(q)
  <2>1. IsFiniteSet(1..Len(q)) /\ Cardinality(1..Len(q)) = Len(q)
    BY <1>1, FirstNumbers
  <2>2. IsFiniteSet(at) /\ n <= Len(q)
    BY <1>1, <2>1, FS_Subset
  <2>. QED
    BY <1>1, <2>2, FS_CardinalityType
<1>3. f \in [1..n -> at] /\ \A i, j \in DOMAIN f : i < j => f[i] < f[j]
  <2>1. \E g \in [1..n -> at] : \A i, j \in DOMAIN g : i < j => g[i] < g[j]
    BY <1>1, Listing DEF Increasing
  <2>. QED
    BY <2>1
<1>4. Only(q, keep) = [i \in DOMAIN f |-> q[f[i]]]
  BY DEF Only
<1> HIDE DEF f
<1>5. DOMAIN f = 1..n /\ n \in Nat
  BY <1>2, <1>3
<1>6. f \in Surjection(1..n, at)
  <2>1. f \in Injection(1..n, at)
    <3>1. ASSUME NEW i \in 1..n, NEW j \in 1..n, f[i] = f[j] PROVE i = j
      <4>1. f[i] \in 1..Len(q) /\ f[j] \in 1..Len(q) /\ ~(f[i] < f[j]) /\ ~(f[j] < f[i])
        BY <1>1, <1>3, <3>1
      <4>2. ~(i < j) /\ ~(j < i)
        BY <1>3, <1>5, <4>1
      <4>. QED
        BY <1>5, <4>2
    <3>. QED
      BY <1>3, <1>5, <3>1 DEF Injection, IsInjective
  <2>2. Cardinality(1..n) = n
    BY <1>5, FirstNumbers
  <2>. QED
    BY <1>2, <2>1, <2>2, FS_Injection
<1>7. \A k \in at : \E i \in 1..n : f[i] = k
  BY <1>6 DEF Surjection
<1>8. f \in [1..n -> 1..Len(q)]
  BY <1>1, <1>3
<1>9. \A i, j \in 1..n : i < j => f[i] < f[j]
  BY <1>3, <1>5
<1>10. \A i \in 1..n : q[f[i]] \in keep
  BY <1>3
<1>11. \A k \in 1..Len(q) : q[k] \in keep => \E i \in 1..n : f[i] = k
  BY <1>1, <1>7
<1>12. Only(q, keep) = [i \in 1..n |-> q[f[i]]]
  BY <1>4, <1>5
<1> HIDE DEF n, at
<1>. QED
  BY <1>2, <1>8, <1>9, <1>10, <1>11, <1>12

\* s has the elements of q that belong to keep, in their order, and no other.
PickOf(s, q, keep) ==
    /\ Len(s) <= Len(q)
    /\ \A i \in 1..Len(s) : s[i] \in keep /\ \E k \in 1..Len(q) : s[i] = q[k]
    /\ \A i, j \in 1..Len(s) : i < j =>
          \E k, l \in 1..Len(q) : k < l /\ s[i] = q[k] /\ s[j] = q[l]
    /\ \A k \in 1..Len(q) : q[k] \in keep => \E i \in 1..Len(s) : s[i] = q[k]

LEMMA OnlyPicks ==
    ASSUME NEW A, NEW q \in Seq(A), NEW keep
    PROVE  Only(q, keep) \in Seq(A) /\ PickOf(Only(q, keep), q, keep)
<1>0. PICK n \in 0..Len(q) : \E f \in [1..n -> 1..Len(q)] :
        /\ \A i, j \in 1..n : i < j => f[i] < f[j]
        /\ \A i \in 1..n : q[f[i]] \in keep
        /\ \A k \in 1..Len(q) : q[k] \in keep => \E i \in 1..n : f[i] = k
        /\ Only(q, keep) = [i \in 1..n |-> q[f[i]]]
  BY Picked
<1>1. PICK f \in [1..n -> 1..Len(q)] :
        /\ \A i, j \in 1..n : i < j => f[i] < f[j]
        /\ \A i \in 1..n : q[f[i]] \in keep
        /\ \A k \in 1..Len(q) : q[k] \in keep => \E i \in 1..n : f[i] = k
        /\ Only(q, keep) = [i \in 1..n |-> q[f[i]]]
  BY <1>0
<1> DEFINE s == Only(q, keep)
<1>2. Len(q) \in Nat /\ q \in [1..Len(q) -> A]
  BY LenProperties
<1>3. s \in Seq(A) /\ Len(s) = n
  <2>1. \A i \in 1..n : q[f[i]] \in A
    BY <1>1, <1>2
  <2>2. n \in Nat
    BY <1>2
  <2>3. /\ [i \in 1..n |-> q[f[i]]] \in Seq(A)
        /\ Len([i \in 1..n |-> q[f[i]]]) = n
    BY <2>1, <2>2
  <2>. QED
    BY <1>1, <2>3
<1> HIDE DEF s
<1>4. \A i \in 1..n : s[i] = q[f[i]]
  BY <1>1 DEF s
<1>5. Len(s) <= Len(q)
  BY <1>2, <1>3
<1>6. \A i \in 1..n : s[i] \in keep /\ \E k \in 1..Len(q) : s[i] = q[k]
  BY <1>1, <1>4
<1>7. \A i, j \in 1..n : i < j => \E k, l \in 1..Len(q) : k < l /\ s[i] = q[k] /\ s[j] = q[l]
  <2>1. TAKE i, j \in 1..n
  <2>2. f[i] \in 1..Len(q) /\ f[j] \in 1..Len(q) /\ s[i] = q[f[i]] /\ s[j] = q[f[j]]
    BY <1>4
  <2>. QED
    BY <1>1, <2>2
<1>8. \A k \in 1..Len(q) : q[k] \in keep => \E i \in 1..n : s[i] = q[k]
  <2>1. TAKE k \in 1..Len(q)
  <2>2. ASSUME q[k] \in keep PROVE \E i \in 1..n : s[i] = q[k]
    <3>1. PICK i \in 1..n : f[i] = k
      BY <1>1, <2>2
    <3>. QED
      BY <1>4, <3>1
  <2>. QED
    BY <2>2
<1>9. PickOf(s, q, keep)
  BY <1>3, <1>5, <1>6, <1>7, <1>8 DEF PickOf
<1>. QED
  BY <1>3, <1>9 DEF s

-----------------------------------------------------------------------------
(* Members *)

LineOf(s) == Len(s) <= 2 /\ \A i, j \in 1..Len(s) : s[i] = s[j] => i = j

\* A peer that leaves is no longer listed, the others stay listed once.
LEMMA OthersListed ==
    ASSUME NEW r \in Rooms, NEW p \in Peers, members[r] \in Seq(Peers)
    PROVE  /\ Others(r, p) \in Seq(Peers)
           /\ PickOf(Others(r, p), members[r], Peers \ {p})
BY OnlyPicks DEF Others

LEMMA PickedLine ==
    ASSUME NEW A, NEW s \in Seq(A), NEW q \in Seq(A), NEW keep,
           PickOf(s, q, keep), LineOf(q)
    PROVE  LineOf(s)
<1>1. Len(s) \in Nat /\ Len(q) \in Nat
  BY LenProperties
<1>2. \A i, j \in 1..Len(s) : i < j => s[i] # s[j]
  <2>1. TAKE i, j \in 1..Len(s)
  <2>2. ASSUME i < j PROVE s[i] # s[j]
    <3>1. PICK k \in 1..Len(q), l \in 1..Len(q) : k < l /\ s[i] = q[k] /\ s[j] = q[l]
      BY <2>2 DEF PickOf
    <3>2. k # l
      BY <1>1, <3>1
    <3>. QED
      BY <3>1, <3>2 DEF LineOf
  <2>. QED
    BY <2>2
<1>3. \A i, j \in 1..Len(s) : s[i] = s[j] => i = j
  <2>1. TAKE i, j \in 1..Len(s)
  <2>2. i < j \/ j < i \/ i = j
    BY <1>1
  <2>. QED
    BY <1>2, <2>2
<1>. QED
  BY <1>1, <1>3 DEF LineOf, PickOf

-----------------------------------------------------------------------------
(* The invariant behind RelayIsSound *)

\* Only peers of a room that has a code have streams or are found by requests.
HomesHaveCodes ==
    /\ \A p \in Peers : home[p] = NoRoom => stream[p] = NoConn
    /\ \A p \in Peers : home[p] # NoRoom => codeOf[home[p]] # NoCode
    /\ \A code \in Codes : rooms[code] # NoRoom => codeOf[rooms[code]] # NoCode

\* A room lists at most two peers, each once, all its own, the host first.
MembersAreHome ==
    \A r \in Rooms :
        /\ LineOf(members[r])
        /\ \A i \in 1..Len(members[r]) :
              home[members[r][i]] = r /\ (role[members[r][i]] = "host" => i = 1)

StreamsAreTheirs ==
    \A p \in Peers : stream[p] # NoConn =>
        owner[stream[p]] = p /\ wire[stream[p]] \in {"open", "lost", "ended"}

Sound == TypeOK /\ HomesHaveCodes /\ MembersAreHome /\ StreamsAreTheirs

\* The sequences of a step, and that requests find rooms.
LEMMA QueuedUp ==
    ASSUME NEW A, NEW q \in Seq(A), NEW news \in Seq(A), Len(q) <= QueueCap
    PROVE  /\ QueueUp(q, news) \in Seq(A)
           /\ Len(QueueUp(q, news)) <= QueueCap
           /\ Len(q) <= Len(QueueUp(q, news))
           /\ \A i \in 1..Len(q) : QueueUp(q, news)[i] = q[i]
           /\ \A i \in 1..Len(QueueUp(q, news)) : i > Len(q) =>
                 i - Len(q) \in 1..Len(news) /\ QueueUp(q, news)[i] = news[i - Len(q)]
<1> DEFINE n == IF QueueCap - Len(q) < Len(news) THEN QueueCap - Len(q) ELSE Len(news)
           cut == SubSeq(news, 1, n)
<1>1. QueueCap \in Nat /\ Len(q) \in Nat /\ Len(news) \in Nat /\ news \in [1..Len(news) -> A]
  BY NumbersAssumption, LenProperties
<1>2. n \in Nat /\ n <= Len(news) /\ Len(q) + n <= QueueCap
  BY <1>1
<1>3. QueueUp(q, news) = q \o cut
  BY DEF QueueUp
<1> HIDE DEF n
<1>4. cut \in Seq(A) /\ Len(cut) = n /\ \A i \in 1..n : cut[i] = news[i]
  <2>1. \A i \in 1..n : news[i] \in A
    BY <1>1, <1>2
  <2>2. /\ cut \in Seq(A)
        /\ Len(cut) = IF 1 <= n THEN n - 1 + 1 ELSE 0
        /\ \A i \in 1..(n - 1 + 1) : cut[i] = news[1 + i - 1]
    BY <1>2, <2>1, SubSeqProperties
  <2>3. n - 1 + 1 = n /\ \A i \in 1..n : 1 + i - 1 = i
    BY <1>2
  <2>. QED
    BY <1>2, <2>2, <2>3
<1> HIDE DEF cut
<1>5. /\ q \o cut \in Seq(A)
      /\ Len(q \o cut) = Len(q) + n
      /\ \A i \in 1..(Len(q) + n) : (q \o cut)[i] = IF i <= Len(q) THEN q[i] ELSE cut[i - Len(q)]
  BY <1>4, ConcatProperties
<1>6. \A i \in 1..Len(q) : QueueUp(q, news)[i] = q[i]
  BY <1>1, <1>2, <1>3, <1>5
<1>7. \A i \in 1..Len(QueueUp(q, news)) : i > Len(q) =>
         i - Len(q) \in 1..Len(news) /\ QueueUp(q, news)[i] = news[i - Len(q)]
  <2>1. TAKE i \in 1..Len(QueueUp(q, news))
  <2>2. ASSUME i > Len(q) PROVE i - Len(q) \in 1..n /\ i \in 1..(Len(q) + n)
    BY <1>1, <1>2, <1>3, <1>5, <2>2
  <2>3. ASSUME i > Len(q) PROVE QueueUp(q, news)[i] = cut[i - Len(q)]
    BY <1>1, <1>3, <1>5, <2>2, <2>3
  <2>. QED
    BY <1>1, <1>2, <1>4, <2>2, <2>3
<1>. QED
  BY <1>1, <1>2, <1>3, <1>5, <1>6, <1>7

LEMMA RoomsFound ==
    ASSUME TypeOK, HomesHaveCodes, NEW p \in Peers, home[p] # NoRoom
    PROVE  /\ home[p] \in Rooms
           /\ codeOf[home[p]] \in Codes
           /\ RoomAt(p) \in Rooms \cup {NoRoom}
<1>1. home[p] \in Rooms
  BY DEF TypeOK
<1>2. codeOf[home[p]] \in Codes
  BY <1>1 DEF TypeOK, HomesHaveCodes
<1>. QED
  BY <1>1, <1>2 DEF TypeOK, RoomAt

Entry == [to : Peers, signal : Signal]

\* What a signal of p adds to the queue of r when there is room.
News(r, p, signal) ==
    [i \in DOMAIN Unreachable(r, p) |-> [to |-> Unreachable(r, p)[i], signal |-> signal]]

LEMMA NewsAreQueued ==
    ASSUME TypeOK, NEW r \in Rooms, NEW p \in Peers, NEW signal \in Signal
    PROVE  /\ Unreachable(r, p) \in Seq(Peers)
           /\ PickOf(Unreachable(r, p), Others(r, p), {q \in Peers : ~Writable(q)})
           /\ News(r, p, signal) \in Seq(Entry)
           /\ Len(News(r, p, signal)) = Len(Unreachable(r, p))
           /\ \A i \in 1..Len(News(r, p, signal)) :
                 /\ News(r, p, signal)[i].to = Unreachable(r, p)[i]
                 /\ News(r, p, signal)[i].signal = signal
<1> DEFINE absent == Unreachable(r, p)
           news == [i \in DOMAIN absent |-> [to |-> absent[i], signal |-> signal]]
<1>1. Others(r, p) \in Seq(Peers)
  BY OthersListed DEF TypeOK
<1>2. absent \in Seq(Peers) /\ PickOf(absent, Others(r, p), {q \in Peers : ~Writable(q)})
  BY <1>1, OnlyPicks DEF Unreachable
<1>0. News(r, p, signal) = news
  BY DEF News
<1> HIDE DEF absent
<1>3. Len(absent) \in Nat /\ DOMAIN absent = 1..Len(absent) /\ absent \in [1..Len(absent) -> Peers]
  BY <1>2, LenProperties
<1>4. news = [i \in 1..Len(absent) |-> [to |-> absent[i], signal |-> signal]]
  BY <1>3
<1>5. \A i \in 1..Len(absent) : [to |-> absent[i], signal |-> signal] \in Entry
  BY <1>3 DEF Entry
<1>6. /\ news \in Seq(Entry)
      /\ Len(news) = Len(absent)
      /\ \A i \in 1..Len(absent) : news[i] = [to |-> absent[i], signal |-> signal]
  BY <1>3, <1>4, <1>5
<1>7. \A i \in 1..Len(news) : news[i].to = absent[i] /\ news[i].signal = signal
  BY <1>6
<1> HIDE DEF news
<1>. QED
  BY <1>0, <1>2, <1>6, <1>7 DEF absent

LEMMA Touched ==
    ASSUME TypeOK, NEW r, Touch(r)
    PROVE  idle' \in [Rooms -> 0..TtlTicks + 1]
<1>1. 0 \in 0..TtlTicks + 1
  BY NumbersAssumption
<1>. QED
  BY <1>1 DEF Touch, TypeOK

LEMMA TypesKept == ASSUME TypeOK, HomesHaveCodes, [Next]_vars PROVE TypeOK'
<1>1. ASSUME NEW r \in Rooms, NEW code \in Codes, NEW p \in Peers, CreateRoom(r, code, p)
      PROVE  TypeOK'
  <2>1. <<p>> \in Seq(Peers)
    OBVIOUS
  <2>2. idle' \in [Rooms -> 0..TtlTicks + 1]
    BY <1>1, Touched DEF CreateRoom
  <2>. QED
    BY <1>1, <2>1, <2>2 DEF CreateRoom, TypeOK
<1>2. ASSUME NEW code \in Codes, NEW p \in Peers, JoinRoom(code, p) PROVE TypeOK'
  <2> DEFINE r == rooms[code]
  <2>1. r \in Rooms
    BY <1>2 DEF JoinRoom, TypeOK
  <2>2. Append(members[r], p) \in Seq(Peers)
    BY <2>1, AppendProperties DEF TypeOK
  <2>3. members' = [members EXCEPT ![r] = Append(members[r], p)]
    BY <1>2 DEF JoinRoom
  <2>4. idle' \in [Rooms -> 0..TtlTicks + 1]
    BY <1>2, Touched DEF JoinRoom
  <2>5. members' \in [Rooms -> Seq(Peers)] /\ role' \in [Peers -> {"none", "host", "joiner"}]
        /\ home' \in [Peers -> Rooms \cup {NoRoom}]
    BY <1>2, <2>1, <2>2, <2>3 DEF JoinRoom, TypeOK
  <2>. QED
    BY <1>2, <2>4, <2>5 DEF JoinRoom, TypeOK
<1>3. ASSUME NEW c \in Conns, NEW p \in Peers, OpenEvents(c, p) PROVE TypeOK'
  <2> DEFINE r == RoomAt(p)
             sigs == SignalsFor(r, p)
             mine == [i \in DOMAIN sigs |-> sigs[i].signal]
             rest == Only(queued[r], QueuedFor(Peers \ {p}))
  <2>1. r \in Rooms
    BY <1>3, RoomsFound DEF OpenEvents
  <2>2. sigs \in Seq([to : Peers, signal : Signal])
    BY <2>1, OnlyPicks DEF SignalsFor, TypeOK
  <2>3. rest \in Seq([to : Peers, signal : Signal]) /\ Len(rest) <= QueueCap
    <3>1. rest \in Seq([to : Peers, signal : Signal]) /\ Len(rest) <= Len(queued[r])
      BY <2>1, OnlyPicks DEF TypeOK, PickOf
    <3>2. Len(rest) \in Nat /\ Len(queued[r]) \in Nat /\ Len(queued[r]) <= QueueCap
      BY <2>1, <3>1, LenProperties DEF TypeOK
    <3>. QED
      BY <3>1, <3>2, NumbersAssumption
  <2> HIDE DEF sigs, rest
  <2>4. mine \in Seq(Signal)
    <3>1. Len(sigs) \in Nat /\ DOMAIN sigs = 1..Len(sigs)
          /\ sigs \in [1..Len(sigs) -> [to : Peers, signal : Signal]]
      BY <2>2, LenProperties
    <3>2. \A i \in 1..Len(sigs) : sigs[i].signal \in Signal
      BY <3>1
    <3>. QED
      BY <3>1, <3>2 DEF mine
  <2> HIDE DEF mine
  <2>5. got' = [got EXCEPT ![p] = got[p] \o mine]
    BY <1>3 DEF OpenEvents, mine, sigs
  <2>6. got' \in [Peers -> Seq(Signal)]
    BY <2>4, <2>5, ConcatProperties DEF TypeOK
  <2>7. queued' = [queued EXCEPT ![r] = rest]
    BY <1>3 DEF OpenEvents, rest
  <2>8. queued' \in [Rooms -> Seq([to : Peers, signal : Signal])]
        /\ \A s \in Rooms : Len(queued'[s]) <= QueueCap
    BY <2>1, <2>3, <2>7 DEF TypeOK
  <2>9. idle' \in [Rooms -> 0..TtlTicks + 1]
    BY <1>3, Touched DEF OpenEvents
  <2>10. paired' \in [Peers -> SUBSET (Peers \X Peers)]
    <3>1. ASSUME NEW q \in Peers, q \in Told(r, p)
          PROVE  <<members[r][1], members[r][2]>> \in Peers \X Peers
      <4>1. Len(members[r]) = 2
        BY <3>1 DEF Told
      <4>2. members[r] \in [1..Len(members[r]) -> Peers]
        BY <2>1, LenProperties DEF TypeOK
      <4>. QED
        BY <4>1, <4>2
    <3>2. paired' = [q \in Peers |->
            IF q \in Told(r, p) THEN paired[q] \cup {<<members[r][1], members[r][2]>>}
                                ELSE paired[q]]
      BY <1>3 DEF OpenEvents
    <3>. QED
      BY <3>1, <3>2 DEF TypeOK
  <2>11. owner' \in [Conns -> Peers \cup {NoPeer}] /\ wire' \in [Conns -> Wires]
         /\ stream' \in [Peers -> Conns \cup {NoConn}]
    BY <1>3 DEF OpenEvents, TypeOK, Wires
  <2>. QED
    BY <1>3, <2>6, <2>8, <2>9, <2>10, <2>11 DEF OpenEvents, TypeOK
<1>4. ASSUME NEW c \in Conns, LoseStream(c) PROVE TypeOK'
  BY <1>4 DEF LoseStream, TypeOK, Wires
<1>5. ASSUME NEW c \in Conns, CloseStream(c) PROVE TypeOK'
  <2>1. wire' \in [Conns -> Wires] /\ stream' \in [Peers -> Conns \cup {NoConn}]
    BY <1>5 DEF CloseStream, ClearedStream, TypeOK, Wires
  <2>2. rooms' \in [Codes -> Rooms \cup {NoRoom}]
    BY <1>5 DEF CloseStream, Unregister, TypeOK
  <2>3. idle' \in [Rooms -> 0..TtlTicks + 1]
    BY <1>5, Touched DEF CloseStream
  <2>. QED
    BY <1>5, <2>1, <2>2, <2>3 DEF CloseStream, TypeOK
<1>6. ASSUME NEW kind \in {"signal", "leave"}, NEW p \in Peers, RequestArrives(kind, p)
      PROVE  TypeOK'
  <2>1. RoomAt(p) \in Rooms
    BY <1>6, RoomsFound DEF RequestArrives
  <2>2. pending' \subseteq Request
    BY <1>6, <2>1 DEF RequestArrives, TypeOK, Request
  <2>3. wire' \in [Conns -> Wires]
    BY <1>6 DEF RequestArrives, Closing, TypeOK, Wires
  <2>. QED
    BY <1>6, <2>2, <2>3 DEF RequestArrives, TypeOK
<1>7. ASSUME NEW req \in pending, RelaySignal(req) PROVE TypeOK'
  <2> DEFINE r == req.room
             p == req.peer
             signal == [from |-> p, n |-> relayed + 1]
             news == News(r, p, signal)
  <2>1. r \in Rooms /\ p \in Peers
    BY DEF TypeOK, Request
  <2>2. relayed' \in 0..MaxSignals /\ signal \in Signal
    BY <1>7, <2>1, NumbersAssumption DEF RelaySignal, TypeOK, Signal
  <2>3. news \in Seq([to : Peers, signal : Signal])
    BY <2>1, <2>2, NewsAreQueued DEF Entry
  <2>4. queued' = [queued EXCEPT ![r] = QueueUp(queued[r], news)]
    BY <1>7 DEF RelaySignal, News
  <2>5. got' = [q \in Peers |->
          IF q \in ToSet(Others(r, p)) /\ Reaches(q) THEN Append(got[q], signal) ELSE got[q]]
    BY <1>7 DEF RelaySignal
  <2> HIDE DEF news, signal
  <2>6. queued' \in [Rooms -> Seq([to : Peers, signal : Signal])]
        /\ \A s \in Rooms : Len(queued'[s]) <= QueueCap
    <3>1. /\ QueueUp(queued[r], news) \in Seq([to : Peers, signal : Signal])
          /\ Len(QueueUp(queued[r], news)) <= QueueCap
      BY <2>1, <2>3, QueuedUp DEF TypeOK
    <3>. QED
      BY <2>1, <2>4, <3>1 DEF TypeOK
  <2>7. got' \in [Peers -> Seq(Signal)]
    <3>1. \A q \in Peers : Append(got[q], signal) \in Seq(Signal)
      BY <2>2, AppendProperties DEF TypeOK
    <3>. QED
      BY <2>5, <3>1 DEF TypeOK
  <2>8. idle' \in [Rooms -> 0..TtlTicks + 1] /\ pending' \subseteq Request
    BY <1>7, Touched DEF RelaySignal, TypeOK
  <2>. QED
    BY <1>7, <2>2, <2>6, <2>7, <2>8 DEF RelaySignal, TypeOK
<1>8. ASSUME NEW req \in pending, RejectSignal(req) PROVE TypeOK'
  BY <1>8 DEF RejectSignal, TypeOK
<1>9. ASSUME NEW req \in pending, NEW readable \in BOOLEAN, Leave(req, readable) PROVE TypeOK'
  <2>1. req.room \in Rooms /\ req.peer \in Peers
    BY DEF TypeOK, Request
  <2>2. Others(req.room, req.peer) \in Seq(Peers)
    BY <2>1, OthersListed DEF TypeOK
  <2>3. members' \in [Rooms -> Seq(Peers)]
    BY <1>9, <2>1, <2>2 DEF Leave, TypeOK
  <2>4. rooms' \in [Codes -> Rooms \cup {NoRoom}]
    BY <1>9 DEF Leave, Unregister, TypeOK
  <2>. QED
    BY <1>9, <2>3, <2>4 DEF Leave, TypeOK
<1>10. CASE Purge
  <2>1. rooms' \in [Codes -> Rooms \cup {NoRoom}] /\ wire' \in [Conns -> Wires]
    BY <1>10 DEF Purge, TypeOK, Wires
  <2>. QED
    BY <1>10, <2>1 DEF Purge, TypeOK
<1>11. CASE Tick
  <2>1. idle' \in [Rooms -> 0..TtlTicks + 1]
    <3>1. \A r \in Rooms : idle[r] \in 0..TtlTicks + 1 /\
             (idle[r] <= TtlTicks => idle[r] + 1 \in 0..TtlTicks + 1)
      BY NumbersAssumption DEF TypeOK
    <3>2. idle' = [r \in Rooms |-> IF Registered(r) /\ idle[r] <= TtlTicks
                                   THEN idle[r] + 1 ELSE idle[r]]
      BY <1>11 DEF Tick
    <3>. QED
      BY <3>1, <3>2
  <2>. QED
    BY <1>11, <2>1 DEF Tick, TypeOK
<1>12. CASE UNCHANGED vars
  BY <1>12 DEF vars, TypeOK
<1>. QED
  BY <1>1, <1>2, <1>3, <1>4, <1>5, <1>6, <1>7, <1>8, <1>9, <1>10, <1>11, <1>12 DEF Next

LEMMA HomesKept ==
    ASSUME TypeOK, HomesHaveCodes, [Next]_vars
    PROVE  HomesHaveCodes'
<1>0. ASSUME UNCHANGED <<codeOf, home>>,
             \A p \in Peers : stream'[p] \in {stream[p], NoConn},
             \A code \in Codes : rooms'[code] \in {rooms[code], NoRoom}
      PROVE  HomesHaveCodes'
  BY <1>0 DEF HomesHaveCodes
<1>1. ASSUME NEW r \in Rooms, NEW code \in Codes, NEW p \in Peers, CreateRoom(r, code, p)
      PROVE  HomesHaveCodes'
  <2>1. home' = [home EXCEPT ![p] = r] /\ codeOf' = [codeOf EXCEPT ![r] = code]
        /\ rooms' = [rooms EXCEPT ![code] = r] /\ stream' = stream
    BY <1>1 DEF CreateRoom
  <2>2. \A s \in Rooms : codeOf[s] # NoCode => codeOf'[s] # NoCode
    BY <2>1, MarkersAssumption DEF TypeOK
  <2>3. codeOf'[r] # NoCode /\ r # NoRoom
    BY <2>1, MarkersAssumption DEF TypeOK
  <2>4. \A q \in Peers : home'[q] = IF q = p THEN r ELSE home[q]
    BY <2>1 DEF TypeOK
  <2>5. \A k \in Codes : rooms'[k] = IF k = code THEN r ELSE rooms[k]
    BY <2>1 DEF TypeOK
  <2>6. \A q \in Peers : home[q] \in Rooms \cup {NoRoom}
    BY DEF TypeOK
  <2>7. \A k \in Codes : rooms[k] \in Rooms \cup {NoRoom}
    BY DEF TypeOK
  <2>. QED
    BY <2>1, <2>2, <2>3, <2>4, <2>5, <2>6, <2>7 DEF HomesHaveCodes
<1>2. ASSUME NEW code \in Codes, NEW p \in Peers, JoinRoom(code, p) PROVE HomesHaveCodes'
  <2>1. /\ home' = [home EXCEPT ![p] = rooms[code]]
        /\ rooms[code] # NoRoom
        /\ UNCHANGED <<rooms, codeOf, stream>>
    BY <1>2 DEF JoinRoom
  <2>2. \A q \in Peers : home'[q] = IF q = p THEN rooms[code] ELSE home[q]
    BY <2>1 DEF TypeOK
  <2>. QED
    BY <2>1, <2>2 DEF HomesHaveCodes
<1>3. ASSUME NEW c \in Conns, NEW p \in Peers, OpenEvents(c, p) PROVE HomesHaveCodes'
  <2>1. /\ stream' = [stream EXCEPT ![p] = c]
        /\ home[p] # NoRoom
        /\ UNCHANGED <<rooms, codeOf, home>>
    BY <1>3 DEF OpenEvents
  <2>2. \A q \in Peers : q # p => stream'[q] = stream[q]
    BY <2>1 DEF TypeOK
  <2>. QED
    BY <2>1, <2>2 DEF HomesHaveCodes
<1>4. ASSUME NEW c \in Conns, LoseStream(c) PROVE HomesHaveCodes'
  BY <1>4 DEF LoseStream, HomesHaveCodes
<1>5. ASSUME NEW c \in Conns, CloseStream(c) PROVE HomesHaveCodes'
  <2>1. UNCHANGED <<codeOf, home>> /\ \A p \in Peers : stream'[p] \in {stream[p], NoConn}
    BY <1>5 DEF CloseStream, ClearedStream, TypeOK
  <2>2. \A code \in Codes : rooms'[code] \in {rooms[code], NoRoom}
    BY <1>5 DEF CloseStream, Unregister, TypeOK
  <2>. QED
    BY <1>0, <2>1, <2>2
<1>6. ASSUME NEW kind \in {"signal", "leave"}, NEW p \in Peers, RequestArrives(kind, p)
      PROVE  HomesHaveCodes'
  BY <1>6 DEF RequestArrives, HomesHaveCodes
<1>7. ASSUME NEW req \in pending, RelaySignal(req) PROVE HomesHaveCodes'
  BY <1>7 DEF RelaySignal, HomesHaveCodes
<1>8. ASSUME NEW req \in pending, RejectSignal(req) PROVE HomesHaveCodes'
  BY <1>8 DEF RejectSignal, HomesHaveCodes
<1>9. ASSUME NEW req \in pending, NEW readable \in BOOLEAN, Leave(req, readable)
      PROVE  HomesHaveCodes'
  <2>1. UNCHANGED <<codeOf, home, stream>>
    BY <1>9 DEF Leave
  <2>2. \A code \in Codes : rooms'[code] \in {rooms[code], NoRoom}
    BY <1>9 DEF Leave, Unregister, TypeOK
  <2>. QED
    BY <1>0, <2>1, <2>2
<1>10. CASE Purge
  <2>1. UNCHANGED <<codeOf, home, stream>>
        /\ \A code \in Codes : rooms'[code] \in {rooms[code], NoRoom}
    BY <1>10 DEF Purge
  <2>. QED
    BY <1>0, <2>1
<1>11. CASE Tick
  BY <1>11 DEF Tick, HomesHaveCodes
<1>12. CASE UNCHANGED vars
  BY <1>12 DEF vars, HomesHaveCodes
<1>. QED
  BY <1>1, <1>2, <1>3, <1>4, <1>5, <1>6, <1>7, <1>8, <1>9, <1>10, <1>11, <1>12 DEF Next

LEMMA MembersKept ==
    ASSUME TypeOK, MembersAreHome, [Next]_vars
    PROVE  MembersAreHome'
<1>0. ASSUME UNCHANGED <<members, home, role>> PROVE MembersAreHome'
  BY <1>0 DEF MembersAreHome, LineOf
<1>1. ASSUME NEW r \in Rooms, NEW code \in Codes, NEW p \in Peers, CreateRoom(r, code, p)
      PROVE  MembersAreHome'
  <2>1. /\ members' = [members EXCEPT ![r] = <<p>>]
        /\ home[p] = NoRoom
        /\ home' = [home EXCEPT ![p] = r]
        /\ role' = [role EXCEPT ![p] = "host"]
    BY <1>1 DEF CreateRoom
  <2>2. ASSUME NEW s \in Rooms, s # r
        PROVE  /\ LineOf(members'[s])
               /\ \A i \in 1..Len(members'[s]) : home'[members'[s][i]] = s
                      /\ (role'[members'[s][i]] = "host" => i = 1)
    <3>1. members'[s] = members[s] /\ LineOf(members[s])
      BY <2>1, <2>2 DEF TypeOK, MembersAreHome
    <3>2. ASSUME NEW i \in 1..Len(members[s])
          PROVE  home'[members[s][i]] = s /\ (role'[members[s][i]] = "host" => i = 1)
      <4>1. members[s][i] \in Peers
        BY ElementOfSeq DEF TypeOK
      <4>2. home[members[s][i]] = s /\ (role[members[s][i]] = "host" => i = 1)
        BY DEF MembersAreHome
      <4>3. members[s][i] # p
        BY <2>1, <4>2, MarkersAssumption
      <4>. QED
        BY <2>1, <4>1, <4>2, <4>3 DEF TypeOK
    <3>. QED
      BY <3>1, <3>2
  <2>3. members'[r] = <<p>> /\ home'[p] = r
    BY <2>1 DEF TypeOK
  <2>4. /\ LineOf(members'[r])
        /\ \A i \in 1..Len(members'[r]) : home'[members'[r][i]] = r
               /\ (role'[members'[r][i]] = "host" => i = 1)
    BY <2>3 DEF LineOf
  <2>. QED
    BY <2>2, <2>4 DEF MembersAreHome
<1>2. ASSUME NEW code \in Codes, NEW p \in Peers, JoinRoom(code, p) PROVE MembersAreHome'
  <2> DEFINE r == rooms[code]
             line == Append(members[r], p)
  <2>1. /\ members' = [members EXCEPT ![r] = line]
        /\ home[p] = NoRoom /\ r # NoRoom
        /\ home' = [home EXCEPT ![p] = r]
        /\ role' = [role EXCEPT ![p] = "joiner"]
        /\ ~(Len(members[r]) >= 2)
    BY <1>2 DEF JoinRoom, Full
  <2>2. r \in Rooms
    BY <2>1 DEF TypeOK
  <2> HIDE DEF r
  <2>3. ASSUME NEW s \in Rooms, NEW i \in 1..Len(members[s])
        PROVE  /\ home'[members[s][i]] = s /\ (role'[members[s][i]] = "host" => i = 1)
               /\ members[s][i] # p
    <3>1. members[s][i] \in Peers
      BY ElementOfSeq DEF TypeOK
    <3>2. home[members[s][i]] = s /\ (role[members[s][i]] = "host" => i = 1)
      BY DEF MembersAreHome
    <3>3. members[s][i] # p
      BY <2>1, <3>2, MarkersAssumption
    <3>. QED
      BY <2>1, <3>1, <3>2, <3>3 DEF TypeOK
  <2>4. members[r] \in Seq(Peers) /\ Len(members[r]) \in 0..1 /\ LineOf(members[r])
    <3>1. members[r] \in Seq(Peers) /\ LineOf(members[r])
      BY <2>2 DEF TypeOK, MembersAreHome
    <3>2. Len(members[r]) \in Nat
      BY <3>1, LenProperties
    <3>3. ~(Len(members[r]) >= 2)
      BY <2>1
    <3>4. \A n \in Nat : ~(n >= 2) => n \in 0..1
      OBVIOUS
    <3>5. Len(members[r]) \in 0..1
      BY <3>2, <3>3, <3>4
    <3>. QED
      BY <3>1, <3>5
  <2>5. /\ Len(line) = Len(members[r]) + 1
        /\ \A i \in 1..Len(members[r]) : line[i] = members[r][i]
        /\ line[Len(members[r]) + 1] = p
    BY <2>4, AppendProperties
  <2> HIDE DEF line
  <2>6. \A i \in 1..Len(line) : i \in 1..Len(members[r]) \/ i = Len(members[r]) + 1
    BY <2>4, <2>5
  <2>7. home'[p] = r /\ role'[p] = "joiner"
    BY <2>1 DEF TypeOK
  <2>8. \A i \in 1..Len(line) : home'[line[i]] = r /\ (role'[line[i]] = "host" => i = 1)
    BY <2>2, <2>3, <2>5, <2>6, <2>7
  <2>9. LineOf(line)
    <3>1. Len(line) <= 2
      BY <2>4, <2>5
    <3>2. ASSUME NEW i \in 1..Len(line), NEW j \in 1..Len(line), line[i] = line[j]
          PROVE  i = j
      <4>1. CASE i \in 1..Len(members[r]) /\ j \in 1..Len(members[r])
        BY <2>4, <2>5, <3>2, <4>1 DEF LineOf
      <4>2. CASE i = Len(members[r]) + 1 /\ j \in 1..Len(members[r])
        BY <2>2, <2>3, <2>5, <3>2, <4>2
      <4>3. CASE j = Len(members[r]) + 1 /\ i \in 1..Len(members[r])
        BY <2>2, <2>3, <2>5, <3>2, <4>3
      <4>. QED
        BY <2>6, <4>1, <4>2, <4>3
    <3>. QED
      BY <3>1, <3>2 DEF LineOf
  <2>10. members'[r] = line /\ \A s \in Rooms : s # r => members'[s] = members[s]
    BY <2>1, <2>2 DEF TypeOK
  <2>. QED
    BY <2>3, <2>8, <2>9, <2>10 DEF MembersAreHome
<1>3. ASSUME NEW c \in Conns, NEW p \in Peers, OpenEvents(c, p) PROVE MembersAreHome'
  BY <1>0, <1>3 DEF OpenEvents
<1>4. ASSUME NEW c \in Conns, LoseStream(c) PROVE MembersAreHome'
  BY <1>0, <1>4 DEF LoseStream
<1>5. ASSUME NEW c \in Conns, CloseStream(c) PROVE MembersAreHome'
  BY <1>0, <1>5 DEF CloseStream
<1>6. ASSUME NEW kind \in {"signal", "leave"}, NEW p \in Peers, RequestArrives(kind, p)
      PROVE  MembersAreHome'
  BY <1>0, <1>6 DEF RequestArrives
<1>7. ASSUME NEW req \in pending, RelaySignal(req) PROVE MembersAreHome'
  BY <1>0, <1>7 DEF RelaySignal
<1>8. ASSUME NEW req \in pending, RejectSignal(req) PROVE MembersAreHome'
  BY <1>0, <1>8 DEF RejectSignal
<1>9. ASSUME NEW req \in pending, NEW readable \in BOOLEAN, Leave(req, readable)
      PROVE  MembersAreHome'
  <2> DEFINE r == req.room
             left == Others(r, req.peer)
  <2>1. r \in Rooms /\ req.peer \in Peers /\ members[r] \in Seq(Peers) /\ LineOf(members[r])
    BY DEF TypeOK, Request, MembersAreHome
  <2>2. /\ members' = [members EXCEPT ![r] = members'[r]]
        /\ members'[r] \in {members[r], left}
        /\ UNCHANGED <<home, role>>
    BY <1>9, <2>1 DEF Leave, TypeOK
  <2>3. left \in Seq(Peers) /\ PickOf(left, members[r], Peers \ {req.peer})
    BY <2>1, OthersListed
  <2>4. LineOf(left)
    BY <2>1, <2>3, PickedLine
  <2> HIDE DEF left
  <2>5. ASSUME NEW i \in 1..Len(left)
        PROVE  home[left[i]] = r /\ (role[left[i]] = "host" => i = 1)
    <3>1. PICK k \in 1..Len(members[r]) : left[i] = members[r][k]
      BY <2>3 DEF PickOf
    <3>2. home[left[i]] = r /\ (role[left[i]] = "host" => k = 1)
      BY <2>1, <3>1 DEF MembersAreHome
    <3>3. ASSUME i # 1, k = 1 PROVE FALSE
      <4>1. Len(left) \in Nat /\ Len(members[r]) \in Nat
        BY <2>1, <2>3, LenProperties
      <4>2. 1 \in 1..Len(left) /\ 1 < i
        BY <3>3, <4>1
      <4>3. PICK l \in 1..Len(members[r]), m \in 1..Len(members[r]) :
              l < m /\ left[i] = members[r][m]
        BY <2>3, <4>2 DEF PickOf
      <4>4. m = k
        BY <2>1, <3>1, <4>3 DEF LineOf
      <4>. QED
        BY <3>3, <4>1, <4>3, <4>4
    <3>. QED
      BY <3>2, <3>3
  <2>6. \A s \in Rooms : s # r => members'[s] = members[s]
    BY <2>1, <2>2 DEF TypeOK
  <2>7. ASSUME NEW s \in Rooms
        PROVE  /\ LineOf(members'[s])
               /\ \A i \in 1..Len(members'[s]) : home'[members'[s][i]] = s
                      /\ (role'[members'[s][i]] = "host" => i = 1)
    <3>1. CASE members'[s] = members[s]
      BY <2>2, <3>1 DEF MembersAreHome
    <3>2. CASE s = r /\ members'[s] = left
      BY <2>2, <2>4, <2>5, <3>2
    <3>. QED
      BY <2>2, <2>6, <3>1, <3>2
  <2>. QED
    BY <2>7 DEF MembersAreHome
<1>10. CASE Purge
  BY <1>0, <1>10 DEF Purge
<1>11. CASE Tick
  BY <1>0, <1>11 DEF Tick
<1>12. CASE UNCHANGED vars
  BY <1>0, <1>12 DEF vars
<1>. QED
  BY <1>1, <1>2, <1>3, <1>4, <1>5, <1>6, <1>7, <1>8, <1>9, <1>10, <1>11, <1>12 DEF Next

LEMMA StreamsKept ==
    ASSUME TypeOK, StreamsAreTheirs, [Next]_vars
    PROVE  StreamsAreTheirs'
<1>0. ASSUME UNCHANGED <<stream, owner>>,
             \A c \in Conns : wire'[c] = wire[c] \/ wire'[c] \in {"lost", "ended"}
      PROVE  StreamsAreTheirs'
  BY <1>0 DEF StreamsAreTheirs, TypeOK
<1>1. ASSUME NEW r \in Rooms, NEW code \in Codes, NEW p \in Peers, CreateRoom(r, code, p)
      PROVE  StreamsAreTheirs'
  BY <1>0, <1>1 DEF CreateRoom
<1>2. ASSUME NEW code \in Codes, NEW p \in Peers, JoinRoom(code, p) PROVE StreamsAreTheirs'
  BY <1>0, <1>2 DEF JoinRoom
<1>3. ASSUME NEW c \in Conns, NEW p \in Peers, OpenEvents(c, p) PROVE StreamsAreTheirs'
  <2>1. /\ wire[c] = "unused"
        /\ owner' = [owner EXCEPT ![c] = p]
        /\ wire' = [wire EXCEPT ![c] = "open"]
        /\ stream' = [stream EXCEPT ![p] = c]
    BY <1>3 DEF OpenEvents
  <2>2. ASSUME NEW q \in Peers, q # p, stream[q] # NoConn PROVE stream[q] \in Conns \ {c}
    BY <2>1, <2>2 DEF StreamsAreTheirs, TypeOK
  <2>. QED
    BY <2>1, <2>2 DEF StreamsAreTheirs, TypeOK
<1>4. ASSUME NEW c \in Conns, LoseStream(c) PROVE StreamsAreTheirs'
  BY <1>0, <1>4 DEF LoseStream, TypeOK
<1>5. ASSUME NEW c \in Conns, CloseStream(c) PROVE StreamsAreTheirs'
  <2>1. /\ owner' = owner
        /\ wire' = [wire EXCEPT ![c] = "closed"]
        /\ stream' = [stream EXCEPT ![owner[c]] = NoConn]
    BY <1>5 DEF CloseStream, ClearedStream
  <2>2. ASSUME NEW q \in Peers, stream'[q] # NoConn
        PROVE  stream'[q] = stream[q] /\ stream[q] \in Conns \ {c}
    BY <2>1, <2>2 DEF StreamsAreTheirs, TypeOK
  <2>. QED
    BY <2>1, <2>2 DEF StreamsAreTheirs, TypeOK
<1>6. ASSUME NEW kind \in {"signal", "leave"}, NEW p \in Peers, RequestArrives(kind, p)
      PROVE  StreamsAreTheirs'
  BY <1>0, <1>6 DEF RequestArrives, Closing
<1>7. ASSUME NEW req \in pending, RelaySignal(req) PROVE StreamsAreTheirs'
  BY <1>0, <1>7 DEF RelaySignal
<1>8. ASSUME NEW req \in pending, RejectSignal(req) PROVE StreamsAreTheirs'
  BY <1>0, <1>8 DEF RejectSignal
<1>9. ASSUME NEW req \in pending, NEW readable \in BOOLEAN, Leave(req, readable)
      PROVE  StreamsAreTheirs'
  BY <1>0, <1>9 DEF Leave
<1>10. CASE Purge
  BY <1>0, <1>10 DEF Purge
<1>11. CASE Tick
  BY <1>0, <1>11 DEF Tick
<1>12. CASE UNCHANGED vars
  BY <1>0, <1>12 DEF vars
<1>. QED
  BY <1>1, <1>2, <1>3, <1>4, <1>5, <1>6, <1>7, <1>8, <1>9, <1>10, <1>11, <1>12 DEF Next

THEOREM SoundFromTheStart == Init => Sound
<1> SUFFICES ASSUME Init PROVE Sound
  OBVIOUS
<1>1. TypeOK
  <2>1. <<>> \in Seq(Peers) /\ <<>> \in Seq([to : Peers, signal : Signal]) /\ <<>> \in Seq(Signal)
        /\ Len(<<>>) = 0
    OBVIOUS
  <2>2. 0 \in 0..MaxSignals /\ 0 \in 0..TtlTicks + 1 /\ 0 <= QueueCap
    BY NumbersAssumption
  <2>3. /\ members \in [Rooms -> Seq(Peers)] /\ got \in [Peers -> Seq(Signal)]
        /\ queued \in [Rooms -> Seq([to : Peers, signal : Signal])]
        /\ \A r \in Rooms : Len(queued[r]) <= QueueCap
    BY <2>1, <2>2 DEF Init
  <2>. QED
    BY <2>2, <2>3 DEF Init, TypeOK, Wires
<1>2. HomesHaveCodes /\ StreamsAreTheirs
  BY DEF Init, HomesHaveCodes, StreamsAreTheirs
<1>3. MembersAreHome
  BY DEF Init, MembersAreHome, LineOf
<1>. QED
  BY <1>1, <1>2, <1>3 DEF Sound

THEOREM SoundKept == Sound /\ [Next]_vars => Sound'
BY TypesKept, HomesKept, MembersKept, StreamsKept DEF Sound

LEMMA SoundRooms == ASSUME Sound PROVE RoomsAreSound
<1>1. ASSUME NEW r \in Rooms
      PROVE  /\ Len(members[r]) <= 2 /\ IsInjective(members[r])
             /\ \A p \in ToSet(members[r]) : home[p] = r
             /\ \A i \in DOMAIN members[r] : role[members[r][i]] = "host" => i = 1
  <2>1. DOMAIN members[r] = 1..Len(members[r])
    BY LenProperties DEF Sound, TypeOK
  <2>2. LineOf(members[r]) /\ \A i \in 1..Len(members[r]) :
          home[members[r][i]] = r /\ (role[members[r][i]] = "host" => i = 1)
    BY DEF Sound, MembersAreHome
  <2>. QED
    BY <2>1, <2>2 DEF LineOf, IsInjective, ToSet
<1>. QED
  BY <1>1 DEF RoomsAreSound, Sound, StreamsAreTheirs

LEMMA AlwaysSound == Spec => []Sound
<1>1. Init => Sound
  BY SoundFromTheStart
<1>2. Sound /\ [Next]_vars => Sound'
  BY SoundKept
<1>. QED
  BY <1>1, <1>2, PTL DEF Spec

\* A room never has three peers, two hosts or a peer of another room, and writes
\* to no stream of another peer, whatever awaits and late closes do
\* (p2p-signaling.js:207-420).
THEOREM RoomsStaySound == Spec => []RelayIsSound
<1>1. Sound => RelayIsSound
  BY SoundRooms DEF RelayIsSound, Sound
<1>. QED
  BY <1>1, AlwaysSound, PTL

-----------------------------------------------------------------------------
(* The invariant behind PeersMeet: what is queued is queued for a peer of the *)
(* room that has no stream.                                                    *)

WaitingFits ==
    \A r \in Rooms : \A i \in 1..Len(queued[r]) :
        home[queued[r][i].to] = r /\ ~Writable(queued[r][i].to)

LEMMA Queues ==
    ASSUME TypeOK, NEW r \in Rooms
    PROVE  /\ queued[r] \in Seq(Entry)
           /\ Len(queued[r]) \in Nat
           /\ \A i \in 1..Len(queued[r]) : queued[r][i] \in Entry
<1>1. queued[r] \in Seq(Entry)
  BY DEF TypeOK, Entry
<1>. QED
  BY <1>1, LenProperties

\* Who is found by a request to open a stream is in the room he belongs to.
LEMMA OpenedAtHome ==
    ASSUME TypeOK, HomesHaveCodes, MembersAreHome,
           NEW c \in Conns, NEW p \in Peers, OpenEvents(c, p)
    PROVE  RoomAt(p) \in Rooms /\ home[p] = RoomAt(p)
<1>1. RoomAt(p) \in Rooms
  BY RoomsFound DEF OpenEvents
<1>2. PICK i \in DOMAIN members[RoomAt(p)] : members[RoomAt(p)][i] = p
  BY DEF OpenEvents, In
<1>3. DOMAIN members[RoomAt(p)] = 1..Len(members[RoomAt(p)])
  BY <1>1, LenProperties DEF TypeOK
<1>. QED
  BY <1>1, <1>2, <1>3 DEF MembersAreHome

\* What a step does to the streams: one peer gets one, or none does.
LEMMA StreamsGained ==
    ASSUME TypeOK, StreamsAreTheirs, [Next]_vars
    PROVE  \/ \A q \in Peers : (Writable(q)' => Writable(q)) /\ (Reaches(q)' => Reaches(q))
           \/ \E c \in Conns, p \in Peers : OpenEvents(c, p)
<1> DEFINE Kept ==
      \A q \in Peers : (Writable(q)' => Writable(q)) /\ (Reaches(q)' => Reaches(q))
<1>3. SUFFICES ASSUME \A c \in Conns, p \in Peers : ~OpenEvents(c, p) PROVE Kept
  OBVIOUS
<1>0. ASSUME stream' = stream,
             \A c \in Conns : wire'[c] = wire[c] \/ wire'[c] = "ended"
                              \/ (wire[c] = "open" /\ wire'[c] = "lost")
      PROVE  Kept
  BY <1>0 DEF Writable, Reaches, TypeOK
<1>1. ASSUME NEW r \in Rooms, NEW code \in Codes, NEW p \in Peers, CreateRoom(r, code, p)
      PROVE  Kept
  BY <1>0, <1>1 DEF CreateRoom
<1>2. ASSUME NEW code \in Codes, NEW p \in Peers, JoinRoom(code, p) PROVE Kept
  BY <1>0, <1>2 DEF JoinRoom
<1>4. ASSUME NEW c \in Conns, LoseStream(c) PROVE Kept
  BY <1>0, <1>4 DEF LoseStream, TypeOK
<1>5. ASSUME NEW c \in Conns, CloseStream(c) PROVE Kept
  <2>1. /\ wire' = [wire EXCEPT ![c] = "closed"]
        /\ stream' = [stream EXCEPT ![owner[c]] = NoConn]
    BY <1>5 DEF CloseStream, ClearedStream
  <2>2. ASSUME NEW q \in Peers, stream'[q] # NoConn
        PROVE  stream'[q] = stream[q] /\ stream[q] \in Conns \ {c}
    BY <2>1, <2>2 DEF StreamsAreTheirs, TypeOK
  <2>3. \A d \in Conns \ {c} : wire'[d] = wire[d]
    BY <2>1 DEF TypeOK
  <2>. QED
    BY <2>2, <2>3 DEF Writable, Reaches
<1>6. ASSUME NEW kind \in {"signal", "leave"}, NEW p \in Peers, RequestArrives(kind, p)
      PROVE  Kept
  BY <1>0, <1>6 DEF RequestArrives, Closing
<1>7. ASSUME NEW req \in pending, RelaySignal(req) PROVE Kept
  BY <1>0, <1>7 DEF RelaySignal
<1>8. ASSUME NEW req \in pending, RejectSignal(req) PROVE Kept
  BY <1>0, <1>8 DEF RejectSignal
<1>9. ASSUME NEW req \in pending, NEW readable \in BOOLEAN, Leave(req, readable) PROVE Kept
  BY <1>0, <1>9 DEF Leave
<1>10. CASE Purge
  BY <1>0, <1>10 DEF Purge
<1>11. CASE Tick
  BY <1>0, <1>11 DEF Tick
<1>12. CASE UNCHANGED vars
  BY <1>0, <1>12 DEF vars
<1> HIDE DEF Kept
<1>. QED
  BY <1>1, <1>2, <1>3, <1>4, <1>5, <1>6, <1>7, <1>8, <1>9, <1>10, <1>11, <1>12 DEF Next

LEMMA HomesStay ==
    ASSUME TypeOK, [Next]_vars, NEW q \in Peers, home[q] # NoRoom
    PROVE  home'[q] = home[q]
<1>1. ASSUME NEW r \in Rooms, NEW code \in Codes, NEW p \in Peers, CreateRoom(r, code, p)
      PROVE  home'[q] = home[q]
  BY <1>1 DEF CreateRoom, TypeOK
<1>2. ASSUME NEW code \in Codes, NEW p \in Peers, JoinRoom(code, p)
      PROVE  home'[q] = home[q]
  BY <1>2 DEF JoinRoom, TypeOK
<1>. QED
  BY <1>1, <1>2 DEF Next, OpenEvents, LoseStream, CloseStream, RequestArrives, RelaySignal,
     RejectSignal, Leave, Purge, Tick, vars

LEMMA QueuesStay ==
    ASSUME [Next]_vars
    PROVE  \/ queued' = queued
           \/ \E c \in Conns, p \in Peers : OpenEvents(c, p)
           \/ \E req \in pending : RelaySignal(req)
BY DEF Next, CreateRoom, JoinRoom, LoseStream, CloseStream, RequestArrives,
   RejectSignal, Leave, Purge, Tick, vars

\* What opening a stream leaves in the queues.
LEMMA QueuesOpened ==
    ASSUME TypeOK, HomesHaveCodes, MembersAreHome,
           NEW c \in Conns, NEW p \in Peers, OpenEvents(c, p)
    PROVE  /\ \A s \in Rooms : s # home[p] => queued'[s] = queued[s]
           /\ queued'[home[p]] \in Seq(Entry)
           /\ PickOf(queued'[home[p]], queued[home[p]], QueuedFor(Peers \ {p}))
           /\ \A i \in 1..Len(queued'[home[p]]) : queued'[home[p]][i].to # p
<1> DEFINE r == home[p]
<1>1. r \in Rooms /\ RoomAt(p) = r
  BY OpenedAtHome
<1>2. queued' = [queued EXCEPT ![r] = Only(queued[r], QueuedFor(Peers \ {p}))]
  BY <1>1 DEF OpenEvents
<1>3. queued'[r] = Only(queued[r], QueuedFor(Peers \ {p}))
      /\ \A s \in Rooms : s # r => queued'[s] = queued[s]
  BY <1>1, <1>2 DEF TypeOK
<1>4. queued'[r] \in Seq(Entry) /\ PickOf(queued'[r], queued[r], QueuedFor(Peers \ {p}))
  BY <1>1, <1>3, OnlyPicks, Queues
<1>5. \A i \in 1..Len(queued'[r]) : queued'[r][i].to # p
  BY <1>4 DEF PickOf, QueuedFor
<1>. QED
  BY <1>3, <1>4, <1>5

\* What relaying a signal adds to the queue: one copy for every other peer of the
\* room that has no stream, as far as there is room.
LEMMA QueuesRelayed ==
    ASSUME TypeOK, MembersAreHome, NEW req \in pending, RelaySignal(req)
    PROVE  LET r == req.room IN
           /\ r \in Rooms /\ req.peer \in Peers
           /\ \A s \in Rooms : s # r => queued'[s] = queued[s]
           /\ queued'[r] \in Seq(Entry) /\ Len(queued[r]) <= Len(queued'[r])
           /\ \A i \in 1..Len(queued[r]) : queued'[r][i] = queued[r][i]
           /\ \A i \in 1..Len(queued'[r]) : i > Len(queued[r]) =>
                 /\ queued'[r][i].signal = [from |-> req.peer, n |-> relayed + 1]
                 /\ queued'[r][i].to # req.peer
                 /\ home[queued'[r][i].to] = r
                 /\ ~Writable(queued'[r][i].to)
           /\ \A i, j \in 1..Len(queued'[r]) : i > Len(queued[r]) /\ i < j =>
                 queued'[r][i].to # queued'[r][j].to
<1> DEFINE r == req.room
           p == req.peer
           signal == [from |-> p, n |-> relayed + 1]
           absent == Unreachable(r, p)
           news == News(r, p, signal)
           q == queued'[r]
           old == Len(queued[r])
<1>1. r \in Rooms /\ p \in Peers
  BY DEF TypeOK, Request
<1>2. signal \in Signal
  BY <1>1, NumbersAssumption DEF RelaySignal, TypeOK, Signal
<1>3. queued' = [queued EXCEPT ![r] = QueueUp(queued[r], news)]
  BY DEF RelaySignal, News
<1>4. q = QueueUp(queued[r], news) /\ \A s \in Rooms : s # r => queued'[s] = queued[s]
  BY <1>1, <1>3 DEF TypeOK
<1>5. /\ absent \in Seq(Peers)
      /\ PickOf(absent, Others(r, p), {x \in Peers : ~Writable(x)})
      /\ news \in Seq(Entry) /\ Len(news) = Len(absent)
      /\ \A i \in 1..Len(news) : news[i].to = absent[i] /\ news[i].signal = signal
  BY <1>1, <1>2, NewsAreQueued
<1>6. /\ Others(r, p) \in Seq(Peers) /\ PickOf(Others(r, p), members[r], Peers \ {p})
      /\ members[r] \in Seq(Peers) /\ LineOf(members[r])
  BY <1>1, OthersListed DEF TypeOK, MembersAreHome
<1>7. LineOf(absent)
  BY <1>5, <1>6, PickedLine
<1>8. ASSUME NEW i \in 1..Len(absent)
      PROVE  absent[i] # p /\ home[absent[i]] = r /\ ~Writable(absent[i])
  <2>1. PICK k \in 1..Len(Others(r, p)) : absent[i] = Others(r, p)[k] /\ ~Writable(absent[i])
    BY <1>5 DEF PickOf
  <2>2. PICK l \in 1..Len(members[r]) : absent[i] = members[r][l] /\ absent[i] # p
    BY <1>6, <2>1 DEF PickOf
  <2>. QED
    BY <1>1, <2>1, <2>2 DEF MembersAreHome
<1> HIDE DEF absent, news, signal
<1>9. /\ q \in Seq(Entry)
      /\ old <= Len(q)
      /\ \A i \in 1..old : q[i] = queued[r][i]
      /\ \A i \in 1..Len(q) : i > old => i - old \in 1..Len(news) /\ q[i] = news[i - old]
  <2>1. queued[r] \in Seq(Entry) /\ Len(queued[r]) <= QueueCap
    BY <1>1, Queues DEF TypeOK
  <2>2. /\ QueueUp(queued[r], news) \in Seq(Entry)
        /\ Len(queued[r]) <= Len(QueueUp(queued[r], news))
        /\ \A i \in 1..Len(queued[r]) : QueueUp(queued[r], news)[i] = queued[r][i]
        /\ \A i \in 1..Len(QueueUp(queued[r], news)) : i > Len(queued[r]) =>
              /\ i - Len(queued[r]) \in 1..Len(news)
              /\ QueueUp(queued[r], news)[i] = news[i - Len(queued[r])]
    BY SMTT(30), <1>5, <2>1, QueuedUp
  <2>. QED
    BY <1>4, <2>2
<1>10. Len(q) \in Nat /\ old \in Nat
  BY <1>1, <1>9, LenProperties, Queues
<1> HIDE DEF q, old
<1>11. ASSUME NEW i \in 1..Len(q), i > old
       PROVE  q[i].signal = signal /\ q[i].to # p /\ home[q[i].to] = r /\ ~Writable(q[i].to)
  <2>1. i - old \in 1..Len(absent) /\ q[i].to = absent[i - old] /\ q[i].signal = signal
    BY <1>5, <1>9, <1>11
  <2>. QED
    BY <1>8, <2>1
<1>12. ASSUME NEW i \in 1..Len(q), NEW j \in 1..Len(q), i > old, i < j PROVE q[i].to # q[j].to
  <2>1. j > old /\ i - old # j - old
    BY <1>10, <1>12
  <2>2. /\ i - old \in 1..Len(absent) /\ q[i].to = absent[i - old]
        /\ j - old \in 1..Len(absent) /\ q[j].to = absent[j - old]
    BY <1>5, <1>9, <1>12, <2>1
  <2>. QED
    BY <1>7, <2>1, <2>2 DEF LineOf
<1>. QED
  BY <1>1, <1>4, <1>9, <1>11, <1>12 DEF q, old, signal

LEMMA WaitingKept ==
    ASSUME Sound, WaitingFits, [Next]_vars
    PROVE  WaitingFits'
<1>1. TypeOK /\ HomesHaveCodes /\ MembersAreHome /\ StreamsAreTheirs
  BY DEF Sound
<1>2. ASSUME NEW r \in Rooms, NEW i \in 1..Len(queued[r])
      PROVE  /\ queued[r][i].to \in Peers
             /\ home[queued[r][i].to] = r /\ home'[queued[r][i].to] = r
             /\ ~Writable(queued[r][i].to)
  <2>1. queued[r][i].to \in Peers
    BY <1>1, Queues DEF Entry
  <2>2. home[queued[r][i].to] = r /\ ~Writable(queued[r][i].to) /\ r # NoRoom
    BY MarkersAssumption DEF WaitingFits
  <2>. QED
    BY <1>1, <2>1, <2>2, HomesStay
<1>3. ASSUME NEW c \in Conns, NEW p \in Peers, OpenEvents(c, p) PROVE WaitingFits'
  <2>1. stream' = [stream EXCEPT ![p] = c] /\ wire' = [wire EXCEPT ![c] = "open"]
        /\ wire[c] = "unused"
    BY <1>3 DEF OpenEvents
  <2>2. ASSUME NEW q \in Peers, q # p PROVE Writable(q)' => Writable(q)
    <3>1. stream'[q] = stream[q] /\ (stream[q] # NoConn => stream[q] \in Conns \ {c})
      BY <1>1, <2>1, <2>2 DEF TypeOK, StreamsAreTheirs
    <3>2. \A d \in Conns \ {c} : wire'[d] = wire[d]
      BY <1>1, <2>1 DEF TypeOK
    <3>. QED
      BY <3>1, <3>2 DEF Writable
  <2>3. /\ home[p] \in Rooms
        /\ \A s \in Rooms : s # home[p] => queued'[s] = queued[s]
        /\ PickOf(queued'[home[p]], queued[home[p]], QueuedFor(Peers \ {p}))
        /\ \A i \in 1..Len(queued'[home[p]]) : queued'[home[p]][i].to # p
    BY <1>1, <1>3, OpenedAtHome, QueuesOpened
  <2>4. ASSUME NEW s \in Rooms, NEW i \in 1..Len(queued'[s])
        PROVE  (home[queued[s][i].to] = s /\ ~Writable(queued[s][i].to))'
    <3>1. queued'[s][i].to # p /\ \E k \in 1..Len(queued[s]) : queued'[s][i] = queued[s][k]
      <4>1. CASE s = home[p]
        BY <2>3, <4>1 DEF PickOf
      <4>2. CASE s # home[p]
        <5>1. queued'[s] = queued[s]
          BY <2>3, <4>2
        <5>2. home[queued[s][i].to] = s
          BY <1>2, <5>1
        <5>. QED
          BY <4>2, <5>1, <5>2
      <4>. QED
        BY <4>1, <4>2
    <3>2. PICK k \in 1..Len(queued[s]) : queued'[s][i] = queued[s][k]
      BY <3>1
    <3>3. PICK t \in Peers : t = queued[s][k].to
      BY <1>2
    <3>4. home'[t] = s /\ ~Writable(t)'
      BY <1>2, <2>2, <3>1, <3>2, <3>3
    <3>. QED
      BY <3>2, <3>3, <3>4 DEF Writable
  <2>. QED
    BY <2>4 DEF WaitingFits
<1>4. ASSUME \A c \in Conns, p \in Peers : ~OpenEvents(c, p)
      PROVE  \A q \in Peers : Writable(q)' => Writable(q)
  BY <1>1, <1>4, StreamsGained
<1>5. ASSUME NEW req \in pending, RelaySignal(req),
             \A c \in Conns, p \in Peers : ~OpenEvents(c, p)
      PROVE  WaitingFits'
  <2> DEFINE r == req.room
  <2>1. /\ r \in Rooms
        /\ \A s \in Rooms : s # r => queued'[s] = queued[s]
        /\ queued'[r] \in Seq(Entry)
        /\ \A i \in 1..Len(queued[r]) : queued'[r][i] = queued[r][i]
        /\ \A i \in 1..Len(queued'[r]) : i > Len(queued[r]) =>
              home[queued'[r][i].to] = r /\ ~Writable(queued'[r][i].to)
    BY <1>1, <1>5, QueuesRelayed
  <2>2. home' = home
    BY <1>5 DEF RelaySignal
  <2>3. ASSUME NEW i \in 1..Len(queued'[r])
        PROVE  (home[queued[r][i].to] = r /\ ~Writable(queued[r][i].to))'
    <3>1. queued'[r][i].to \in Peers
      <4>1. queued'[r][i] \in Entry
        BY <2>1, ElementOfSeq
      <4>. QED
        BY <4>1 DEF Entry
    <3>2. Len(queued[r]) \in Nat /\ (i \in 1..Len(queued[r]) \/ i > Len(queued[r]))
      BY <1>1, <2>1, Queues
    <3>3. home[queued'[r][i].to] = r /\ ~Writable(queued'[r][i].to)
      BY <1>2, <2>1, <3>2
    <3>4. PICK t \in Peers : t = queued'[r][i].to
      BY <3>1
    <3>5. ~Writable(t)'
      BY <1>4, <1>5, <3>3, <3>4
    <3>. QED
      BY <2>2, <3>3, <3>4, <3>5 DEF Writable
  <2>4. ASSUME NEW s \in Rooms, s # r, NEW i \in 1..Len(queued'[s])
        PROVE  (home[queued[s][i].to] = s /\ ~Writable(queued[s][i].to))'
    <3>1. queued'[s] = queued[s]
      BY <2>1, <2>4
    <3>2. PICK t \in Peers : t = queued[s][i].to
      BY <1>2, <2>4, <3>1
    <3>3. home'[t] = s /\ ~Writable(t)'
      BY <1>2, <1>4, <1>5, <2>4, <3>1, <3>2
    <3>. QED
      BY <3>1, <3>2, <3>3 DEF Writable
  <2>. QED
    BY <2>3, <2>4 DEF WaitingFits
<1>6. ASSUME queued' = queued, \A c \in Conns, p \in Peers : ~OpenEvents(c, p)
      PROVE  WaitingFits'
  <2>1. ASSUME NEW s \in Rooms, NEW i \in 1..Len(queued[s])
        PROVE  (home[queued[s][i].to] = s /\ ~Writable(queued[s][i].to))'
    <3>1. PICK t \in Peers : t = queued[s][i].to
      BY <1>2
    <3>2. home'[t] = s /\ ~Writable(t)'
      BY <1>2, <1>4, <1>6, <3>1
    <3>. QED
      BY <1>6, <3>1, <3>2 DEF Writable
  <2>. QED
    BY <1>6, <2>1 DEF WaitingFits
<1>. QED
  BY <1>3, <1>5, <1>6, QueuesStay

LEMMA BothKnowKept ==
    ASSUME Sound, BothKnow, [Next]_vars
    PROVE  BothKnow'
<1> DEFINE Reaching(r) == Len(members[r]) = 2 /\ \A p \in ToSet(members[r]) : Reaches(p)
           Knowing(r) == \A p \in ToSet(members[r]) : <<members[r][1], members[r][2]>> \in paired[p]
<1>1. TypeOK /\ HomesHaveCodes /\ MembersAreHome /\ StreamsAreTheirs
  BY DEF Sound
<1>2. \A r \in Rooms : ToSet(members[r]) \subseteq Peers
  BY <1>1, LenProperties DEF TypeOK, ToSet
<1>3. ASSUME NEW s \in Rooms, members'[s] = members[s],
             \A q \in ToSet(members[s]) : Reaches(q)' => Reaches(q),
             \A q \in ToSet(members[s]) : paired[q] \subseteq paired'[q],
             Reaching(s)'
      PROVE  Knowing(s)'
  <2>1. Reaching(s)
    BY <1>3
  <2>2. Knowing(s)
    BY <2>1 DEF BothKnow
  <2>. QED
    BY <1>3, <2>2
<1>4. ASSUME UNCHANGED <<members, paired>>, \A q \in Peers : Reaches(q)' => Reaches(q)
      PROVE  BothKnow'
  BY <1>2, <1>3, <1>4 DEF BothKnow
<1>5. ASSUME \A c \in Conns, p \in Peers : ~OpenEvents(c, p)
      PROVE  \A q \in Peers : Reaches(q)' => Reaches(q)
  BY <1>1, <1>5, StreamsGained
<1>6. ASSUME NEW c \in Conns, NEW p \in Peers, OpenEvents(c, p) PROVE BothKnow'
  <2>0. PICK r \in Rooms : r = RoomAt(p) /\ home[p] = r
    BY <1>1, <1>6, OpenedAtHome
  <2> DEFINE pair == <<members[r][1], members[r][2]>>
  <2>1. /\ stream' = [stream EXCEPT ![p] = c]
        /\ wire' = [wire EXCEPT ![c] = "open"] /\ wire[c] = "unused"
        /\ members' = members
        /\ paired' = [q \in Peers |-> IF q \in Told(r, p) THEN paired[q] \cup {pair}
                                                          ELSE paired[q]]
    BY <1>6, <2>0 DEF OpenEvents
  <2>2. r \in Rooms /\ home[p] = r
    BY <2>0
  <2>3. ASSUME NEW q \in Peers, q # p PROVE Reaches(q)' => Reaches(q)
    <3>1. stream'[q] = stream[q] /\ (stream[q] # NoConn => stream[q] \in Conns \ {c})
      BY ZenonT(40), <1>1, <2>1, <2>3 DEF TypeOK, StreamsAreTheirs
    <3>2. \A d \in Conns \ {c} : wire'[d] = wire[d]
      BY <1>1, <2>1 DEF TypeOK
    <3>. QED
      BY <3>1, <3>2 DEF Reaches
  <2> HIDE DEF pair
  <2>4. \A q \in Peers : paired[q] \subseteq paired'[q]
    BY <1>1, <2>1 DEF TypeOK
  <2>5. ASSUME NEW s \in Rooms, s # r, Reaching(s)' PROVE Knowing(s)'
    <3>1. p \notin ToSet(members[s])
      <4>1. DOMAIN members[s] = 1..Len(members[s])
        BY <1>1, LenProperties DEF TypeOK
      <4>. QED
        BY <1>1, <2>2, <2>5, <4>1 DEF MembersAreHome, ToSet
    <3>2. /\ members'[s] = members[s]
          /\ \A q \in ToSet(members[s]) : Reaches(q)' => Reaches(q)
          /\ \A q \in ToSet(members[s]) : paired[q] \subseteq paired'[q]
      BY <1>2, <2>1, <2>3, <2>4, <3>1
    <3>. QED
      BY <1>3, <2>5, <3>2
  <2>6. ASSUME Reaching(r)' PROVE Knowing(r)'
    <3>1. Len(members[r]) = 2 /\ \A q \in ToSet(members[r]) : Reaches(q)'
      BY <2>1, <2>6
    <3>2. \A q \in ToSet(members[r]) : q \in Told(r, p)
      BY <1>2, <2>2, <2>3, <3>1 DEF Told
    <3>3. \A q \in ToSet(members[r]) : pair \in paired'[q]
      BY <1>2, <2>1, <2>2, <3>2
    <3>. QED
      BY <2>1, <3>3 DEF pair
  <2>. QED
    BY <2>5, <2>6 DEF BothKnow
<1>7. ASSUME NEW r \in Rooms, NEW code \in Codes, NEW p \in Peers, CreateRoom(r, code, p),
             \A q \in Peers : Reaches(q)' => Reaches(q)
      PROVE  BothKnow'
  <2>1. members' = [members EXCEPT ![r] = <<p>>] /\ paired' = paired
    BY <1>7 DEF CreateRoom
  <2>2. Len(members'[r]) # 2 /\ \A s \in Rooms : s # r => members'[s] = members[s]
    BY <1>1, <2>1 DEF TypeOK
  <2>3. ASSUME NEW s \in Rooms, Reaching(s)' PROVE Knowing(s)'
    <3>1. members'[s] = members[s]
      BY <2>2, <2>3
    <3>. QED
      BY <1>2, <1>3, <1>7, <2>1, <2>3, <3>1
  <2>. QED
    BY <2>3 DEF BothKnow
<1>8. ASSUME NEW code \in Codes, NEW p \in Peers, JoinRoom(code, p),
             \A q \in Peers : Reaches(q)' => Reaches(q)
      PROVE  BothKnow'
  <2>0. PICK r : r = rooms[code]
    OBVIOUS
  <2>1. /\ members' = [members EXCEPT ![r] = Append(members[r], p)]
        /\ r # NoRoom /\ home[p] = NoRoom
        /\ paired' = paired /\ stream' = stream
    BY <1>8, <2>0 DEF JoinRoom
  <2>2. r \in Rooms /\ members[r] \in Seq(Peers)
    BY <1>1, <2>0, <2>1 DEF TypeOK
  <2>3. /\ members'[r] = Append(members[r], p)
        /\ \A s \in Rooms : s # r => members'[s] = members[s]
    BY <1>1, <2>1, <2>2 DEF TypeOK
  <2>4. p \in ToSet(Append(members[r], p))
    <3>1. Append(members[r], p)[Len(members[r]) + 1] = p
          /\ Len(Append(members[r], p)) = Len(members[r]) + 1
          /\ Append(members[r], p) \in Seq(Peers)
      BY <2>2, AppendProperties
    <3>2. Len(members[r]) \in Nat
          /\ DOMAIN Append(members[r], p) = 1..Len(Append(members[r], p))
      BY <2>2, <3>1, LenProperties
    <3>3. Len(members[r]) + 1 \in DOMAIN Append(members[r], p)
      BY <3>1, <3>2
    <3>. QED
      BY <3>1, <3>3 DEF ToSet
  <2>5. ~Reaches(p)'
    BY <1>1, <2>1 DEF HomesHaveCodes, Reaches
  <2>6. ASSUME NEW s \in Rooms, Reaching(s)' PROVE Knowing(s)'
    <3>1. s # r
      BY <2>3, <2>4, <2>5, <2>6
    <3>2. members'[s] = members[s]
      BY <2>3, <3>1
    <3>. QED
      BY <1>2, <1>3, <1>8, <2>1, <2>6, <3>2
  <2>. QED
    BY <2>6 DEF BothKnow
<1>9. ASSUME NEW req \in pending, NEW readable \in BOOLEAN, Leave(req, readable),
             \A q \in Peers : Reaches(q)' => Reaches(q)
      PROVE  BothKnow'
  <2> DEFINE r == req.room
             p == req.peer
             left == Others(r, p)
  <2>1. r \in Rooms /\ p \in Peers /\ members[r] \in Seq(Peers) /\ LineOf(members[r])
    BY <1>1 DEF TypeOK, Request, MembersAreHome
  <2>2. /\ members' = [members EXCEPT ![r] = IF readable /\ In(r, p) THEN left ELSE members[r]]
        /\ paired' = paired
    BY <1>9 DEF Leave
  <2>3. left \in Seq(Peers) /\ PickOf(left, members[r], Peers \ {p})
    BY <2>1, OthersListed
  <2> HIDE DEF left
  <2>4. ASSUME In(r, p) PROVE Len(left) # 2
    <3>1. PICK i \in 1..Len(members[r]) : members[r][i] = p
      BY <2>1, <2>4, LenProperties DEF In
    <3>2. ASSUME Len(left) = 2 PROVE FALSE
      <4>1. 1 \in 1..Len(left) /\ 2 \in 1..Len(left) /\ 1 < 2
        BY <3>2
      <4>2. PICK k \in 1..Len(members[r]), l \in 1..Len(members[r]) :
              k < l /\ left[1] = members[r][k] /\ left[2] = members[r][l]
        BY <2>3, <4>1 DEF PickOf
      <4>3. left[1] # p /\ left[2] # p
        BY <2>3, <4>1 DEF PickOf
      <4>4. Len(members[r]) \in Nat /\ Len(members[r]) <= 2
        BY <2>1, LenProperties DEF LineOf
      <4>5. i = k \/ i = l
        BY <3>1, <4>2, <4>4
      <4>. QED
        BY <3>1, <4>2, <4>3, <4>5
    <3>. QED
      BY <3>2
  <2>5. ASSUME NEW s \in Rooms, Reaching(s)' PROVE Knowing(s)'
    <3>1. members'[s] = members[s]
      BY <1>1, <2>1, <2>2, <2>4, <2>5 DEF TypeOK
    <3>. QED
      BY <1>2, <1>3, <1>9, <2>2, <2>5, <3>1
  <2>. QED
    BY <2>5 DEF BothKnow
<1>10. \/ UNCHANGED <<members, paired>>
       \/ \E c \in Conns, p \in Peers : OpenEvents(c, p)
       \/ \E r \in Rooms, code \in Codes, p \in Peers : CreateRoom(r, code, p)
       \/ \E code \in Codes, p \in Peers : JoinRoom(code, p)
       \/ \E req \in pending, readable \in BOOLEAN : Leave(req, readable)
  BY DEF Next, LoseStream, CloseStream, RequestArrives, RelaySignal, RejectSignal, Purge,
     Tick, vars
<1> HIDE DEF Reaching, Knowing
<1>. QED
  BY <1>4, <1>5, <1>6, <1>7, <1>8, <1>9, <1>10

LEMMA AlwaysMeeting == Spec => [](Sound /\ WaitingFits /\ BothKnow)
<1>1. Init => Sound /\ WaitingFits /\ BothKnow
  <2>1. ASSUME Init PROVE WaitingFits /\ BothKnow
    BY <2>1 DEF Init, WaitingFits, BothKnow
  <2>. QED
    BY <2>1, SoundFromTheStart
<1>2. Sound /\ WaitingFits /\ BothKnow /\ [Next]_vars => Sound' /\ WaitingFits' /\ BothKnow'
  BY SoundKept, WaitingKept, BothKnowKept
<1>. QED
  BY <1>1, <1>2, PTL DEF Spec

LEMMA NobodyWaits ==
    ASSUME Sound, WaitingFits
    PROVE  NoneWaitsConnected
<1>1. SUFFICES ASSUME NEW p \in Peers, home[p] # NoRoom, Writable(p)
               PROVE  WaitingFor(p) = <<>>
  BY DEF NoneWaitsConnected
<1> DEFINE r == home[p]
           sigs == Only(queued[r], QueuedFor({p}))
<1>2. r \in Rooms /\ WaitingFor(p) = sigs
  BY <1>1 DEF Sound, TypeOK, WaitingFor, SignalsFor
<1>3. sigs \in Seq(Entry) /\ PickOf(sigs, queued[r], QueuedFor({p}))
  BY <1>2, OnlyPicks, Queues DEF Sound
<1> HIDE DEF sigs
<1>4. ASSUME sigs # <<>> PROVE FALSE
  <2>1. 1 \in 1..Len(sigs)
    <3>1. Len(sigs) \in Nat \ {0}
      BY <1>3, <1>4, EmptySeq
    <3>. QED
      BY <3>1
  <2>2. PICK k \in 1..Len(queued[r]) : queued[r][k].to = p
    BY <1>3, <2>1 DEF PickOf, QueuedFor
  <2>. QED
    BY <1>1, <1>2, <2>2 DEF WaitingFits
<1>. QED
  BY <1>2, <1>4

\* As soon as both peers of a room have their streams open each knows of the
\* other and nothing waits for it, in whatever order they joined, connected,
\* dropped out and came back (p2p-signaling.js:248-282, 345-358).
THEOREM PeersAlwaysMeet == Spec => []PeersMeet
<1>1. Sound /\ WaitingFits /\ BothKnow => PeersMeet
  BY NobodyWaits DEF PeersMeet
<1>. QED
  BY <1>1, AlwaysMeeting, PTL

-----------------------------------------------------------------------------
(* The order of signals *)

GotInOrder ==
    \A p \in Peers : \A i, j \in 1..Len(got[p]) : i < j => got[p][i].n < got[p][j].n
GotAreOld ==
    \A p \in Peers : \A i \in 1..Len(got[p]) : got[p][i].n <= relayed /\ got[p][i].from # p
QueuedInOrder ==
    \A r \in Rooms : \A i, j \in 1..Len(queued[r]) :
        i < j /\ queued[r][i].to = queued[r][j].to =>
            queued[r][i].signal.n < queued[r][j].signal.n
QueuedAreOld ==
    \A r \in Rooms : \A i \in 1..Len(queued[r]) :
        queued[r][i].signal.n <= relayed /\ queued[r][i].signal.from # queued[r][i].to

\* What waits was relayed after what has been received.
GotFirst ==
    \A p \in Peers, r \in Rooms : \A i \in 1..Len(got[p]), j \in 1..Len(queued[r]) :
        queued[r][j].to = p => got[p][i].n < queued[r][j].signal.n

InOrder == GotInOrder /\ GotAreOld /\ QueuedInOrder /\ QueuedAreOld /\ GotFirst

Handed(g, sigs) == g \o [i \in DOMAIN sigs |-> sigs[i].signal]

\* g is in order, what q holds for p is, and the former comes before the latter.
Due(p, g, q) ==
    /\ \A i, j \in 1..Len(g) : i < j => g[i].n < g[j].n
    /\ \A i, j \in 1..Len(q) : i < j /\ q[i].to = q[j].to => q[i].signal.n < q[j].signal.n
    /\ \A i \in 1..Len(g), j \in 1..Len(q) : q[j].to = p => g[i].n < q[j].signal.n

\* all is in order and made of g and of what q holds for p.
Continues(all, p, g, q) ==
    /\ all \in Seq(Signal)
    /\ \A i, j \in 1..Len(all) : i < j => all[i].n < all[j].n
    /\ \A i \in 1..Len(all) :
          \/ \E k \in 1..Len(g) : all[i] = g[k]
          \/ \E k \in 1..Len(q) : q[k].to = p /\ all[i] = q[k].signal

\* Handing over what waits keeps the order.
LEMMA HandedInOrder ==
    ASSUME NEW p \in Peers, NEW g \in Seq(Signal), NEW q \in Seq(Entry), NEW sigs \in Seq(Entry),
           PickOf(sigs, q, QueuedFor({p})), Due(p, g, q)
    PROVE  Continues(Handed(g, sigs), p, g, q)
<1> DEFINE mine == [i \in DOMAIN sigs |-> sigs[i].signal]
           all == g \o mine
<1>0. Handed(g, sigs) = all
  BY DEF Handed
<1>1. /\ Len(sigs) \in Nat /\ DOMAIN sigs = 1..Len(sigs) /\ sigs \in [1..Len(sigs) -> Entry]
      /\ Len(g) \in Nat
  BY LenProperties
<1>2. /\ mine \in Seq(Signal) /\ Len(mine) = Len(sigs)
      /\ \A i \in 1..Len(sigs) : mine[i] = sigs[i].signal
  <2>1. \A i \in 1..Len(sigs) : sigs[i].signal \in Signal
    BY <1>1 DEF Entry
  <2>. QED
    BY <1>1, <2>1
<1>3. \A i \in 1..Len(sigs) : \E k \in 1..Len(q) : sigs[i] = q[k] /\ q[k].to = p
  <2>1. TAKE i \in 1..Len(sigs)
  <2>2. PICK k \in 1..Len(q) : sigs[i] = q[k] /\ sigs[i] \in QueuedFor({p})
    BY DEF PickOf
  <2>. QED
    BY <2>2 DEF QueuedFor
<1>4. \A i, j \in 1..Len(sigs) : i < j => sigs[i].signal.n < sigs[j].signal.n
  <2>1. TAKE i, j \in 1..Len(sigs)
  <2>2. ASSUME i < j PROVE sigs[i].signal.n < sigs[j].signal.n
    <3>1. PICK k \in 1..Len(q), l \in 1..Len(q) : k < l /\ sigs[i] = q[k] /\ sigs[j] = q[l]
      BY <2>2 DEF PickOf
    <3>2. sigs[i].to = p /\ sigs[j].to = p
      BY <1>3
    <3>. QED
      BY <3>1, <3>2 DEF Due
  <2>. QED
    BY <2>2
<1> HIDE DEF mine
<1>5. /\ all \in Seq(Signal) /\ Len(all) = Len(g) + Len(sigs)
      /\ \A i \in 1..(Len(g) + Len(sigs)) :
            all[i] = IF i <= Len(g) THEN g[i] ELSE mine[i - Len(g)]
  <2>1. /\ g \o mine \in Seq(Signal) /\ Len(g \o mine) = Len(g) + Len(mine)
        /\ \A i \in 1..(Len(g) + Len(mine)) :
              (g \o mine)[i] = IF i <= Len(g) THEN g[i] ELSE mine[i - Len(g)]
    BY <1>2, ConcatProperties
  <2>. QED
    BY <1>2, <2>1
<1> HIDE DEF all
<1>6. ASSUME NEW i \in 1..Len(all)
      PROVE  \/ i \in 1..Len(g) /\ all[i] = g[i]
             \/ i > Len(g) /\ i - Len(g) \in 1..Len(sigs) /\ all[i] = sigs[i - Len(g)].signal
  <2>1. CASE i <= Len(g)
    <3>1. i \in 1..Len(g) /\ i \in 1..(Len(g) + Len(sigs))
      BY <1>1, <1>5, <2>1
    <3>. QED
      BY <1>5, <2>1, <3>1
  <2>2. CASE i > Len(g)
    <3>1. i - Len(g) \in 1..Len(sigs) /\ ~(i <= Len(g)) /\ i \in 1..(Len(g) + Len(sigs))
      BY <1>1, <1>5, <2>2
    <3>. QED
      BY <1>2, <1>5, <2>2, <3>1
  <2>. QED
    BY <1>1, <2>1, <2>2
<1>7. ASSUME NEW i \in 1..Len(all)
      PROVE  \/ \E k \in 1..Len(g) : all[i] = g[k]
             \/ \E k \in 1..Len(q) : q[k].to = p /\ all[i] = q[k].signal
  BY <1>3, <1>6
<1>8. ASSUME NEW i \in 1..Len(all), NEW j \in 1..Len(all), i < j PROVE all[i].n < all[j].n
  <2>1. CASE i \in 1..Len(g) /\ all[i] = g[i] /\ j \in 1..Len(g) /\ all[j] = g[j]
    BY <1>8, <2>1 DEF Due
  <2>2. CASE i \in 1..Len(g) /\ all[i] = g[i] /\ j - Len(g) \in 1..Len(sigs)
             /\ all[j] = sigs[j - Len(g)].signal
    BY <1>3, <2>2 DEF Due
  <2>3. CASE i > Len(g) /\ i - Len(g) \in 1..Len(sigs) /\ all[i] = sigs[i - Len(g)].signal
             /\ j - Len(g) \in 1..Len(sigs) /\ all[j] = sigs[j - Len(g)].signal
    <3>1. i - Len(g) < j - Len(g)
      BY <1>1, <1>5, <1>8
    <3>. QED
      BY <1>4, <2>3, <3>1
  <2>4. ~(i > Len(g) /\ j \in 1..Len(g))
    BY <1>1, <1>5, <1>8
  <2>. QED
    BY <1>6, <2>1, <2>2, <2>3, <2>4
<1>. QED
  BY <1>0, <1>5, <1>7, <1>8 DEF Continues

LEMMA InOrderKept ==
    ASSUME Sound, WaitingFits, InOrder, [Next]_vars
    PROVE  InOrder'
<1>1. TypeOK /\ HomesHaveCodes /\ MembersAreHome /\ StreamsAreTheirs
  BY DEF Sound
<1>2. \A p \in Peers : got[p] \in Seq(Signal) /\ Len(got[p]) \in Nat
  BY <1>1, LenProperties DEF TypeOK
<1>3. \A r \in Rooms : queued[r] \in Seq(Entry) /\ Len(queued[r]) \in Nat
        /\ \A i \in 1..Len(queued[r]) : queued[r][i] \in Entry
  BY <1>1, Queues
<1>4. GotInOrder /\ GotAreOld /\ QueuedInOrder /\ QueuedAreOld /\ GotFirst
  BY DEF InOrder
<1>5. ASSUME NEW c \in Conns, NEW p \in Peers, OpenEvents(c, p) PROVE InOrder'
  <2>1. PICK r \in Rooms : r = RoomAt(p) /\ home[p] = r
    BY <1>1, <1>5, OpenedAtHome
  <2>2. PICK sigs \in Seq(Entry) : sigs = SignalsFor(r, p) /\ PickOf(sigs, queued[r], QueuedFor({p}))
    BY <1>3, OnlyPicks DEF SignalsFor
  <2>3. got' = [got EXCEPT ![p] = Handed(got[p], sigs)] /\ relayed' = relayed
    BY <1>5, <2>1, <2>2 DEF OpenEvents, Handed
  <2>4. got'[p] = Handed(got[p], sigs) /\ \A q \in Peers : q # p => got'[q] = got[q]
    BY <1>1, <2>3 DEF TypeOK
  <2>5. /\ \A i, j \in 1..Len(got'[p]) : i < j => got'[p][i].n < got'[p][j].n
        /\ \A i \in 1..Len(got'[p]) :
              \/ \E k \in 1..Len(got[p]) : got'[p][i] = got[p][k]
              \/ \E k \in 1..Len(queued[r]) :
                    queued[r][k].to = p /\ got'[p][i] = queued[r][k].signal
    <3>1. got[p] \in Seq(Signal) /\ queued[r] \in Seq(Entry) /\ Due(p, got[p], queued[r])
      BY <1>2, <1>3, <1>4 DEF GotInOrder, QueuedInOrder, GotFirst, Due
    <3>2. Continues(Handed(got[p], sigs), p, got[p], queued[r])
      BY <2>2, <3>1, HandedInOrder
    <3>. QED
      BY <2>4, <3>2 DEF Continues
  <2>6. /\ \A s \in Rooms : s # r => queued'[s] = queued[s]
        /\ PickOf(queued'[r], queued[r], QueuedFor(Peers \ {p}))
        /\ \A i \in 1..Len(queued'[r]) : queued'[r][i].to # p
    BY <1>1, <1>5, <2>1, QueuesOpened
  <2>7. \A s \in Rooms : \A i \in 1..Len(queued'[s]) :
          \E k \in 1..Len(queued[s]) : queued'[s][i] = queued[s][k]
    <3>1. TAKE s \in Rooms
    <3>2. CASE s = r
      BY <2>6, <3>2 DEF PickOf
    <3>3. CASE s # r
      BY <2>6, <3>3
    <3>. QED
      BY <3>2, <3>3
  <2>8. GotInOrder'
    BY <1>4, <2>4, <2>5 DEF GotInOrder
  <2>9. GotAreOld'
    <3>1. ASSUME NEW i \in 1..Len(got'[p]) PROVE got'[p][i].n <= relayed /\ got'[p][i].from # p
      BY <1>4, <2>5 DEF GotAreOld, QueuedAreOld
    <3>. QED
      BY <1>4, <2>3, <2>4, <3>1 DEF GotAreOld
  <2>10. QueuedInOrder'
    <3>1. ASSUME NEW s \in Rooms, NEW i \in 1..Len(queued'[s]), NEW j \in 1..Len(queued'[s]),
                 i < j, queued'[s][i].to = queued'[s][j].to
          PROVE  queued'[s][i].signal.n < queued'[s][j].signal.n
      <4>1. CASE s # r
        BY <1>4, <2>6, <3>1, <4>1 DEF QueuedInOrder
      <4>2. CASE s = r
        <5>1. PICK k \in 1..Len(queued[r]), l \in 1..Len(queued[r]) :
                k < l /\ queued'[r][i] = queued[r][k] /\ queued'[r][j] = queued[r][l]
          BY <2>6, <3>1, <4>2 DEF PickOf
        <5>. QED
          BY <1>4, <3>1, <4>2, <5>1 DEF QueuedInOrder
      <4>. QED
        BY <4>1, <4>2
    <3>. QED
      BY <3>1 DEF QueuedInOrder
  <2>11. QueuedAreOld'
    BY <1>4, <2>3, <2>7 DEF QueuedAreOld
  <2>12. GotFirst'
    <3>1. ASSUME NEW q \in Peers, NEW s \in Rooms, NEW i \in 1..Len(got'[q]),
                 NEW j \in 1..Len(queued'[s]), queued'[s][j].to = q
          PROVE  got'[q][i].n < queued'[s][j].signal.n
      <4>1. PICK k \in 1..Len(queued[s]) : queued'[s][j] = queued[s][k]
        BY <2>7
      <4>2. q # p
        <5>1. home[q] = s
          BY <3>1, <4>1 DEF WaitingFits
        <5>. QED
          BY <2>1, <2>6, <3>1, <5>1
      <4>. QED
        BY <1>4, <2>4, <3>1, <4>1, <4>2 DEF GotFirst
    <3>. QED
      BY <3>1 DEF GotFirst
  <2>. QED
    BY <2>8, <2>9, <2>10, <2>11, <2>12 DEF InOrder
<1>6. ASSUME NEW req \in pending, RelaySignal(req) PROVE InOrder'
  <2> DEFINE r == req.room
             n == relayed + 1
             signal == [from |-> req.peer, n |-> n]
  <2>1. /\ r \in Rooms /\ req.peer \in Peers
        /\ \A s \in Rooms : s # r => queued'[s] = queued[s]
        /\ queued'[r] \in Seq(Entry) /\ Len(queued[r]) <= Len(queued'[r])
        /\ \A i \in 1..Len(queued[r]) : queued'[r][i] = queued[r][i]
        /\ \A i \in 1..Len(queued'[r]) : i > Len(queued[r]) =>
              /\ queued'[r][i].signal = [from |-> req.peer, n |-> relayed + 1]
              /\ queued'[r][i].to # req.peer
              /\ home[queued'[r][i].to] = r
              /\ ~Writable(queued'[r][i].to)
        /\ \A i, j \in 1..Len(queued'[r]) : i > Len(queued[r]) /\ i < j =>
              queued'[r][i].to # queued'[r][j].to
    BY <1>1, <1>6, QueuesRelayed
  <2>2. /\ relayed \in Nat /\ n \in Nat /\ relayed' = n /\ signal.n = n /\ signal.from = req.peer
    BY SMTT(30), <1>1, <1>6, NumbersAssumption DEF RelaySignal, TypeOK
  <2>3. signal \in Signal
    BY <1>1, <1>6, <2>1, NumbersAssumption DEF RelaySignal, TypeOK, Signal
  <2>4. \A q \in Peers : \/ got'[q] = got[q]
                         \/ q # req.peer /\ Reaches(q) /\ got'[q] = Append(got[q], signal)
    <3>1. got' = [q \in Peers |->
            IF q \in ToSet(Others(r, req.peer)) /\ Reaches(q) THEN Append(got[q], signal)
                                                             ELSE got[q]]
      BY <1>6 DEF RelaySignal
    <3>2. req.peer \notin ToSet(Others(r, req.peer))
      <4>1. /\ Others(r, req.peer) \in Seq(Peers)
            /\ PickOf(Others(r, req.peer), members[r], Peers \ {req.peer})
        BY <1>1, <2>1, OthersListed DEF TypeOK
      <4>2. DOMAIN Others(r, req.peer) = 1..Len(Others(r, req.peer))
        BY <4>1, LenProperties
      <4>. QED
        BY <4>1, <4>2 DEF PickOf, ToSet
    <3>. QED
      BY <3>1, <3>2
  <2> HIDE DEF signal, n
  <2>5. ASSUME NEW q \in Peers, NEW i \in 1..Len(got'[q])
        PROVE  \/ i \in 1..Len(got[q]) /\ got'[q][i] = got[q][i]
               \/ /\ i = Len(got[q]) + 1 /\ got'[q][i] = signal
                  /\ q # req.peer /\ Reaches(q)
    <3>1. CASE got'[q] = got[q]
      BY <3>1
    <3>2. CASE q # req.peer /\ Reaches(q) /\ got'[q] = Append(got[q], signal)
      <4>1. /\ Len(got'[q]) = Len(got[q]) + 1
            /\ \A k \in 1..Len(got[q]) : got'[q][k] = got[q][k]
            /\ got'[q][Len(got[q]) + 1] = signal
        BY <1>2, <2>3, <3>2, AppendProperties
      <4>2. i \in 1..Len(got[q]) \/ i = Len(got[q]) + 1
        BY <1>2, <4>1
      <4>. QED
        BY <3>2, <4>1, <4>2
    <3>. QED
      BY <2>4, <3>1, <3>2
  <2>6. ASSUME NEW s \in Rooms, NEW i \in 1..Len(queued'[s])
        PROVE  \/ i \in 1..Len(queued[s]) /\ queued'[s][i] = queued[s][i]
               \/ /\ s = r /\ i > Len(queued[r]) /\ queued'[s][i].signal = signal
                  /\ queued'[s][i].to # req.peer /\ ~Writable(queued'[s][i].to)
    <3>1. CASE s # r
      BY <2>1, <3>1
    <3>2. CASE s = r
      <4>1. i \in 1..Len(queued[r]) \/ i > Len(queued[r])
        BY <1>3, <2>1, <3>2
      <4>. QED
        BY <2>1, <3>2, <4>1 DEF signal, n
    <3>. QED
      BY <3>1, <3>2
  <2>8. \A s \in Signal : s.n \in Int
    BY NumbersAssumption DEF Signal
  <2>9. \A q \in Peers : \A i \in 1..Len(got[q]) : got[q][i].n \in Int /\ got[q][i].n < n
    <3>1. ASSUME NEW q \in Peers, NEW i \in 1..Len(got[q])
          PROVE  got[q][i].n \in Int /\ got[q][i].n < n
      <4>1. got[q][i].n \in Int
        BY <1>2, <2>8, ElementOfSeq
      <4>2. got[q][i].n <= relayed
        BY <1>4 DEF GotAreOld
      <4>. QED
        BY <2>2, <4>1, <4>2 DEF n
    <3>. QED
      BY <3>1
  <2>10. \A s \in Rooms : \A i \in 1..Len(queued[s]) :
           queued[s][i].signal.n \in Int /\ queued[s][i].signal.n < n
    <3>1. ASSUME NEW s \in Rooms, NEW i \in 1..Len(queued[s])
          PROVE  queued[s][i].signal.n \in Int /\ queued[s][i].signal.n < n
      <4>1. queued[s][i].signal.n \in Int
        BY <1>3, <2>8 DEF Entry
      <4>2. queued[s][i].signal.n <= relayed
        BY <1>4 DEF QueuedAreOld
      <4>. QED
        BY <2>2, <4>1, <4>2 DEF n
    <3>. QED
      BY <3>1
  <2>11. GotInOrder'
    <3>1. ASSUME NEW q \in Peers, NEW i \in 1..Len(got'[q]), NEW j \in 1..Len(got'[q]), i < j
          PROVE  got'[q][i].n < got'[q][j].n
      <4>1. i # Len(got[q]) + 1 /\ (j = Len(got[q]) + 1 \/ j \in 1..Len(got[q]))
        <5>1. j \in 1..Len(got[q]) \/ j = Len(got[q]) + 1
          BY <2>5
        <5>. QED
          BY <1>2, <3>1, <5>1
      <4>2. i \in 1..Len(got[q]) /\ got'[q][i] = got[q][i]
        BY <2>5, <4>1
      <4>3. CASE j \in 1..Len(got[q]) /\ got'[q][j] = got[q][j]
        BY <1>4, <3>1, <4>2, <4>3 DEF GotInOrder
      <4>4. CASE got'[q][j] = signal
        BY <2>2, <2>9, <4>2, <4>4
      <4>. QED
        BY <2>5, <4>3, <4>4
    <3>. QED
      BY <3>1 DEF GotInOrder
  <2>12. GotAreOld'
    <3>1. ASSUME NEW q \in Peers, NEW i \in 1..Len(got'[q])
          PROVE  got'[q][i].n <= n /\ got'[q][i].from # q
      <4>1. CASE i \in 1..Len(got[q]) /\ got'[q][i] = got[q][i]
        BY <1>4, <2>2, <2>9, <4>1 DEF GotAreOld
      <4>2. CASE got'[q][i] = signal /\ q # req.peer
        BY <2>2, <4>2
      <4>. QED
        BY <2>5, <4>1, <4>2
    <3>. QED
      BY <2>2, <3>1 DEF GotAreOld
  <2>13. QueuedInOrder'
    <3>1. ASSUME NEW s \in Rooms, NEW i \in 1..Len(queued'[s]), NEW j \in 1..Len(queued'[s]),
                 i < j, queued'[s][i].to = queued'[s][j].to
          PROVE  queued'[s][i].signal.n < queued'[s][j].signal.n
      <4>1. ~(s = r /\ i > Len(queued[r]))
        BY <2>1, <3>1
      <4>2. i \in 1..Len(queued[s]) /\ queued'[s][i] = queued[s][i]
        BY <2>6, <4>1
      <4>3. CASE j \in 1..Len(queued[s]) /\ queued'[s][j] = queued[s][j]
        BY <1>4, <3>1, <4>2, <4>3 DEF QueuedInOrder
      <4>4. CASE queued'[s][j].signal = signal
        BY <2>2, <2>10, <4>2, <4>4
      <4>. QED
        BY <2>6, <4>3, <4>4
    <3>. QED
      BY <3>1 DEF QueuedInOrder
  <2>14. QueuedAreOld'
    <3>1. ASSUME NEW s \in Rooms, NEW i \in 1..Len(queued'[s])
          PROVE  queued'[s][i].signal.n <= n /\ queued'[s][i].signal.from # queued'[s][i].to
      <4>1. CASE i \in 1..Len(queued[s]) /\ queued'[s][i] = queued[s][i]
        BY <1>4, <2>2, <2>10, <4>1 DEF QueuedAreOld
      <4>2. CASE queued'[s][i].signal = signal /\ queued'[s][i].to # req.peer
        BY <2>2, <4>2
      <4>. QED
        BY <2>6, <4>1, <4>2
    <3>. QED
      BY <2>2, <3>1 DEF QueuedAreOld
  <2>15. GotFirst'
    <3>1. ASSUME NEW q \in Peers, NEW s \in Rooms, NEW i \in 1..Len(got'[q]),
                 NEW j \in 1..Len(queued'[s]), queued'[s][j].to = q
          PROVE  got'[q][i].n < queued'[s][j].signal.n
      <4>1. ~Writable(q)
        <5>1. CASE j \in 1..Len(queued[s]) /\ queued'[s][j] = queued[s][j]
          BY <3>1, <5>1 DEF WaitingFits
        <5>2. CASE ~Writable(queued'[s][j].to)
          BY <3>1, <5>2
        <5>. QED
          BY <2>6, <5>1, <5>2
      <4>2. ~Reaches(q)
        BY <4>1 DEF Writable, Reaches
      <4>3. i \in 1..Len(got[q]) /\ got'[q][i] = got[q][i]
        BY <2>5, <4>2
      <4>4. CASE j \in 1..Len(queued[s]) /\ queued'[s][j] = queued[s][j]
        BY <1>4, <3>1, <4>3, <4>4 DEF GotFirst
      <4>5. CASE queued'[s][j].signal = signal
        BY <2>2, <2>9, <4>3, <4>5
      <4>. QED
        BY <2>6, <4>4, <4>5
    <3>. QED
      BY <3>1 DEF GotFirst
  <2>. QED
    BY <2>11, <2>12, <2>13, <2>14, <2>15 DEF InOrder
<1>7. ASSUME UNCHANGED <<got, queued, relayed>> PROVE InOrder'
  BY <1>7 DEF InOrder, GotInOrder, GotAreOld, QueuedInOrder, QueuedAreOld, GotFirst
<1>8. \/ UNCHANGED <<got, queued, relayed>>
      \/ \E c \in Conns, p \in Peers : OpenEvents(c, p)
      \/ \E req \in pending : RelaySignal(req)
  BY DEF Next, CreateRoom, JoinRoom, LoseStream, CloseStream, RequestArrives, RejectSignal,
     Leave, Purge, Tick, vars
<1>. QED
  BY <1>5, <1>6, <1>7, <1>8

LEMMA OrderSeen == ASSUME Sound, WaitingFits, InOrder PROVE SignalsInOrder
<1>1. SUFFICES ASSUME NEW p \in Peers
      PROVE  LET all == got[p] \o [i \in DOMAIN WaitingFor(p) |-> WaitingFor(p)[i].signal]
             IN /\ \A i, j \in DOMAIN all : i < j => all[i].n < all[j].n
                /\ \A i \in DOMAIN all : all[i].from # p
  BY DEF SignalsInOrder
<1>2. /\ got[p] \in Seq(Signal)
      /\ \A i, j \in 1..Len(got[p]) : i < j => got[p][i].n < got[p][j].n
      /\ \A i \in 1..Len(got[p]) : got[p][i].from # p
  BY DEF Sound, TypeOK, InOrder, GotInOrder, GotAreOld
<1>7. \A k \in 1..Len(got[p]) : got[p][k].from # p
  BY <1>2
<1> DEFINE all == Handed(got[p], WaitingFor(p))
<1> HIDE DEF all
<1>3. /\ all \in Seq(Signal)
      /\ \A i, j \in 1..Len(all) : i < j => all[i].n < all[j].n
      /\ \A i \in 1..Len(all) : all[i].from # p
  <2>1. CASE home[p] = NoRoom
    <3>1. <<>> \in Seq(Entry) /\ Len(<<>>) = 0 /\ WaitingFor(p) = <<>>
      BY <2>1, EmptySeq DEF WaitingFor
    <3>2. PICK q \in Seq(Entry) : q = WaitingFor(p) /\ Len(q) = 0
      BY <3>1
    <3>3. PickOf(q, q, QueuedFor({p})) /\ Due(p, got[p], q)
      BY <1>2, <3>2 DEF PickOf, Due
    <3>4. Continues(Handed(got[p], q), p, got[p], q)
      BY <1>2, <3>3, HandedInOrder
    <3>5. Continues(all, p, got[p], q)
      BY <3>2, <3>4 DEF all
    <3>6. ASSUME NEW i \in 1..Len(all) PROVE all[i].from # p
      <4>1. PICK k \in 1..Len(got[p]) : all[i] = got[p][k]
        <5>1. \A k \in 1..Len(q) : FALSE
          BY <3>2
        <5>. QED
          BY <3>5, <5>1 DEF Continues
      <4>. QED
        BY <1>7, <4>1
    <3>. QED
      BY <3>5, <3>6 DEF Continues
  <2>2. CASE home[p] # NoRoom
    <3>1. PICK r \in Rooms : r = home[p]
      BY <2>2 DEF Sound, TypeOK
    <3>2. PICK q \in Seq(Entry) : q = queued[r]
      BY Queues DEF Sound
    <3>3. PICK sigs \in Seq(Entry) : sigs = WaitingFor(p) /\ PickOf(sigs, q, QueuedFor({p}))
      BY <2>2, <3>1, <3>2, OnlyPicks DEF WaitingFor, SignalsFor
    <3>4. Due(p, got[p], q) /\ \A k \in 1..Len(q) : q[k].signal.from # q[k].to
      BY <3>2 DEF InOrder, GotInOrder, QueuedInOrder, GotFirst, QueuedAreOld, Due
    <3>5. Continues(Handed(got[p], sigs), p, got[p], q)
      BY <1>2, <3>3, <3>4, HandedInOrder
    <3>6. Continues(all, p, got[p], q)
      BY <3>3, <3>5 DEF all
    <3>7. ASSUME NEW i \in 1..Len(all) PROVE all[i].from # p
      <4>1. CASE \E k \in 1..Len(got[p]) : all[i] = got[p][k]
        BY <1>7, <4>1
      <4>2. CASE \E k \in 1..Len(q) : q[k].to = p /\ all[i] = q[k].signal
        BY <3>4, <4>2
      <4>. QED
        BY <3>6, <4>1, <4>2 DEF Continues
    <3>. QED
      BY <3>6, <3>7 DEF Continues
  <2>. QED
    BY <2>1, <2>2
<1>4. DOMAIN all = 1..Len(all)
  BY <1>3, LenProperties
<1>5. all = got[p] \o [i \in DOMAIN WaitingFor(p) |-> WaitingFor(p)[i].signal]
  BY DEF Handed, all
<1>6. /\ \A i, j \in DOMAIN all : i < j => all[i].n < all[j].n
      /\ \A i \in DOMAIN all : all[i].from # p
  BY <1>3, <1>4
<1>. QED
  BY <1>5, <1>6

\* A peer gets the signals of the others in the order they were relayed, none
\* twice and none of its own, whether they were written to its stream or waited
\* in the room's queue (p2p-signaling.js:262-282, 345-358).
THEOREM SignalsStayInOrder == Spec => []SignalsInOrder
<1>1. Init => InOrder
  BY DEF Init, InOrder, GotInOrder, GotAreOld, QueuedInOrder, QueuedAreOld, GotFirst
<1>2. Sound /\ WaitingFits /\ InOrder /\ [Next]_vars => InOrder'
  BY InOrderKept
<1>3. Sound /\ WaitingFits /\ InOrder => SignalsInOrder
  BY OrderSeen
<1>. QED
  BY <1>1, <1>2, <1>3, AlwaysMeeting, PTL DEF Spec

-----------------------------------------------------------------------------
(* The pages on top of the relay *)

\* A peer has at most one stream whose ends both know of it.
OneStreamEach ==
    \A c, d \in Conns : owner[c] = owner[d] /\ wire[c] = "open" /\ wire[d] = "open" => c = d

LEMMA OneStreamKept ==
    ASSUME TypeOK, OneStreamEach, [Next]_vars
    PROVE  OneStreamEach'
<1>1. ASSUME owner' = owner, \A c \in Conns : wire'[c] = "open" => wire[c] = "open"
      PROVE  OneStreamEach'
  BY <1>1 DEF OneStreamEach
<1>2. ASSUME NEW c \in Conns, NEW p \in Peers, OpenEvents(c, p) PROVE OneStreamEach'
  <2>1. /\ owner' = [owner EXCEPT ![c] = p]
        /\ wire' = [wire EXCEPT ![c] = "open"]
        /\ \A d \in Conns : owner[d] = p => wire[d] # "open"
    BY <1>2 DEF OpenEvents
  <2>. QED
    BY <2>1 DEF OneStreamEach, TypeOK
<1>3. ASSUME NEW c \in Conns, LoseStream(c) PROVE OneStreamEach'
  BY <1>1, <1>3 DEF LoseStream, TypeOK
<1>4. ASSUME NEW c \in Conns, CloseStream(c) PROVE OneStreamEach'
  BY <1>1, <1>4 DEF CloseStream, TypeOK
<1>5. ASSUME NEW kind \in {"signal", "leave"}, NEW p \in Peers, RequestArrives(kind, p)
      PROVE  OneStreamEach'
  BY <1>1, <1>5 DEF RequestArrives, Closing, TypeOK
<1>6. CASE Purge
  BY <1>1, <1>6 DEF Purge, TypeOK
<1>7. ASSUME UNCHANGED <<owner, wire>> PROVE OneStreamEach'
  BY <1>1, <1>7
<1>8. \/ \E c \in Conns, p \in Peers : OpenEvents(c, p)
      \/ \E c \in Conns : LoseStream(c) \/ CloseStream(c)
      \/ \E kind \in {"signal", "leave"}, p \in Peers : RequestArrives(kind, p)
      \/ Purge
      \/ UNCHANGED <<owner, wire>>
  BY DEF Next, CreateRoom, JoinRoom, RelaySignal, RejectSignal, Leave, Tick, vars
<1>. QED
  BY <1>2, <1>3, <1>4, <1>5, <1>6, <1>7, <1>8

\* A page that says goodbye to a room that is gone closes its stream, if it has one.
LEMMA GoodbyesAreSteps ==
    ASSUME TypeOK, OneStreamEach, NEW p \in Peers, Goodbye(p)
    PROVE  [Next]_vars
<1>1. CASE RequestArrives("leave", p)
  BY <1>1 DEF Next
<1>2. CASE /\ wire' = Closing(p)
           /\ UNCHANGED <<rooms, codeOf, members, role, home, stream, owner, queued, pending,
                          idle, relayed, got, paired>>
  <2>1. CASE \A c \in Conns : ~(owner[c] = p /\ wire[c] = "open")
    <3>1. wire' = wire
      BY <1>2, <2>1 DEF Closing, TypeOK
    <3>. QED
      BY <1>2, <3>1 DEF vars
  <2>2. CASE \E c \in Conns : owner[c] = p /\ wire[c] = "open"
    <3>1. PICK c \in Conns : owner[c] = p /\ wire[c] = "open"
      BY <2>2
    <3>2. \A d \in Conns : owner[d] = p /\ wire[d] = "open" <=> d = c
      BY <3>1 DEF OneStreamEach
    <3>3. wire' = [wire EXCEPT ![c] = "lost"]
      BY <1>2, <3>2 DEF Closing, TypeOK
    <3>4. LoseStream(c)
      BY <1>2, <3>1, <3>3 DEF LoseStream
    <3>. QED
      BY <3>4 DEF Next
  <2>. QED
    BY <2>1, <2>2
<1>. QED
  BY <1>1, <1>2 DEF Goodbye

LEMMA PageStepsStutter ==
    ASSUME NEW p \in Peers, PageStep(p)
    PROVE  UNCHANGED vars
BY DEF PageStep, HandlePeer, HandlePeerLeft, HandleExpired, OfferReady, HandleOffer,
   AnswerReady, HandleAnswer, Handle

\* What the pages do to the relay is what its clients may do.
LEMMA HandshakeSteps ==
    ASSUME TypeOK, OneStreamEach, [HandshakeNext]_hsVars
    PROVE  [Next]_vars
<1>1. ASSUME NEW r \in Rooms, NEW code \in Codes, NEW p \in Peers, Create(r, code, p)
      PROVE  [Next]_vars
  BY <1>1 DEF Create, Next
<1>2. ASSUME NEW code \in Codes, NEW p \in Peers, Join(code, p) PROVE [Next]_vars
  BY <1>2 DEF Join, Next
<1>3. ASSUME NEW c \in Conns, NEW p \in Peers, Open(c, p) PROVE [Next]_vars
  BY <1>3 DEF Open, Next
<1>4. ASSUME NEW c \in Conns, Lose(c) \/ Close(c) PROVE [Next]_vars
  BY <1>4 DEF Lose, Close, Next
<1>5. ASSUME NEW p \in Peers, Arrive(p) PROVE [Next]_vars
  BY <1>5 DEF Arrive, Next
<1>6. ASSUME NEW p \in Peers, Goodbye(p) PROVE [Next]_vars
  BY <1>6, GoodbyesAreSteps
<1>7. ASSUME NEW p \in Peers, PageStep(p) PROVE [Next]_vars
  BY <1>7, PageStepsStutter
<1>8. ASSUME NEW p \in Peers, NEW m \in outbox[p], Refused(p, m) PROVE [Next]_vars
  BY <1>8 DEF Refused
<1>9. ASSUME NEW req \in pending, NEW m \in outbox[req.peer], Relay(req, m) \/ Fail(req, m)
      PROVE  [Next]_vars
  BY <1>9 DEF Relay, Fail, Next
<1>10. ASSUME NEW req \in pending, NEW readable \in BOOLEAN, Left(req, readable)
       PROVE  [Next]_vars
  BY <1>10 DEF Left, Next
<1>11. CASE Expire
  BY <1>11 DEF Expire, Next
<1>12. CASE HandshakeTick
  BY <1>12 DEF HandshakeTick, Next
<1>13. CASE UNCHANGED hsVars
  BY <1>13 DEF hsVars
<1> HIDE DEF Next, vars
<1>. QED
  BY <1>1, <1>2, <1>3, <1>4, <1>5, <1>6, <1>7, <1>8, <1>9, <1>10, <1>11, <1>12, <1>13
     DEF HandshakeNext

\* The pages with their queues of events, offers and answers use the relay in no
\* way P2pSignaling does not allow: what is proved of it holds for the two together.
THEOREM PagesUseTheRelay == HandshakeSpec => Spec
<1>1. HandshakeInit => Init /\ TypeOK /\ HomesHaveCodes /\ OneStreamEach
  <2>1. HandshakeInit => Init
    BY DEF HandshakeInit
  <2>2. Init => OneStreamEach
    BY DEF Init, OneStreamEach
  <2>3. Init => TypeOK /\ HomesHaveCodes
    BY SoundFromTheStart DEF Sound
  <2>. QED
    BY <2>1, <2>2, <2>3
<1>2. TypeOK /\ HomesHaveCodes /\ OneStreamEach /\ [HandshakeNext]_hsVars =>
        TypeOK' /\ HomesHaveCodes' /\ OneStreamEach' /\ [Next]_vars
  <2> SUFFICES ASSUME TypeOK, HomesHaveCodes, OneStreamEach, [HandshakeNext]_hsVars
               PROVE  TypeOK' /\ HomesHaveCodes' /\ OneStreamEach' /\ [Next]_vars
    OBVIOUS
  <2>1. [Next]_vars
    BY HandshakeSteps
  <2>. QED
    BY <2>1, TypesKept, HomesKept, OneStreamKept
<1>. QED
  BY <1>1, <1>2, PTL DEF HandshakeSpec, Spec

\* Offers, answers and their signals reach the other page in the order they were
\* relayed, none twice, none back to its sender, whatever the two pages do
\* (p2p-client.js:225-360, p2p-signaling.js:262-282).
THEOREM SignalsReachPagesInOrder == HandshakeSpec => []SignalsInOrder
BY PagesUseTheRelay, SignalsStayInOrder, PTL

-----------------------------------------------------------------------------
(* The events a page has not handled yet *)

\* The events a page may make a connection on.
Urgent == {"peer-joined", "peers-connected", "signal"}
HostEvents == {"peer-joined", "peers-connected"}

Brings(q, events) == \E i \in 1..Len(q) : q[i].event \in events
NoSignals(q) == \A i \in 1..Len(q) : q[i].event # "signal"
OnlySignal(q, n) ==
    \E i \in 1..Len(q) :
        /\ q[i].event = "signal" /\ q[i].n = n
        /\ \A j \in 1..Len(q) : j # i => q[j].event # "signal"
Old(q, m) == \A i \in 1..Len(q) : q[i].event = "signal" => q[i].n <= m
UrgentIn(q) == {i \in 1..Len(q) : q[i].event \in Urgent}
Urges(q) == Cardinality(UrgentIn(q))

\* The signals of a page's stream that h has and g has not.
Extra(g, h) == [i \in 1..(Len(h) - Len(g)) |-> [event |-> "signal", n |-> h[Len(g) + i].n]]

\* As many numbers as there are others to tell them apart.
LEMMA NoMore ==
    ASSUME NEW S, NEW T, IsFiniteSet(S), IsFiniteSet(T), NEW f \in [S -> T],
           \A x, y \in S : f[x] = f[y] => x = y
    PROVE  Cardinality(S) <= Cardinality(T)
<1>1. Cardinality(S) \in Nat /\ Cardinality(T) \in Nat
    BY FS_CardinalityType
<1>2. ~(Cardinality(T) < Cardinality(S))
    BY FS_PigeonHole
<1> QED BY <1>1, <1>2

LEMMA UrgesAreFew ==
    ASSUME NEW q \in Seq(PageEvent)
    PROVE  /\ Len(q) \in Nat /\ IsFiniteSet(UrgentIn(q)) /\ Urges(q) \in Nat /\ Urges(q) <= Len(q)
           /\ ~Brings(q, Urgent) => Urges(q) = 0
<1>1. Len(q) \in Nat
    BY LenProperties
<1>2. IsFiniteSet(1..Len(q)) /\ Cardinality(1..Len(q)) = Len(q)
    BY <1>1, FirstNumbers
<1>3. UrgentIn(q) \subseteq 1..Len(q)
    BY DEF UrgentIn
<1>4. IsFiniteSet(UrgentIn(q)) /\ Cardinality(UrgentIn(q)) <= Len(q)
    BY <1>2, <1>3, FS_Subset
<1>5. Cardinality(UrgentIn(q)) \in Nat
    BY <1>4, FS_CardinalityType
<1>6. ~Brings(q, Urgent) => UrgentIn(q) = {}
    BY DEF Brings, UrgentIn
<1> QED BY <1>1, <1>4, <1>5, <1>6, FS_EmptySet DEF Urges

LEMMA Appended ==
    ASSUME NEW q \in Seq(PageEvent), NEW e \in Seq(PageEvent)
    PROVE  /\ q \o e \in Seq(PageEvent)
           /\ \A events : Brings(q \o e, events) <=> Brings(q, events) \/ Brings(e, events)
           /\ NoSignals(q) /\ NoSignals(e) => NoSignals(q \o e)
           /\ \A m : Old(q, m) /\ Old(e, m) => Old(q \o e, m)
           /\ \A n : OnlySignal(q, n) /\ NoSignals(e) => OnlySignal(q \o e, n)
           /\ \A n : NoSignals(q) /\ OnlySignal(e, n) => OnlySignal(q \o e, n)
           /\ Urges(q \o e) <= Urges(q) + Urges(e)
<1> DEFINE s == q \o e
<1>1. /\ s \in Seq(PageEvent) /\ Len(s) = Len(q) + Len(e)
      /\ \A i \in 1..(Len(q) + Len(e)) : s[i] = IF i <= Len(q) THEN q[i] ELSE e[i - Len(q)]
    BY ConcatProperties
<1>2. Len(q) \in Nat /\ Len(e) \in Nat
    BY LenProperties
<1> HIDE DEF s
<1>3. \A i \in 1..Len(q) : i \in 1..Len(s) /\ s[i] = q[i]
    BY <1>1, <1>2
<1>4. ASSUME NEW i \in 1..Len(e) PROVE Len(q) + i \in 1..Len(s) /\ s[Len(q) + i] = e[i]
    <2>1. Len(q) + i \in 1..(Len(q) + Len(e)) /\ ~(Len(q) + i <= Len(q)) /\ (Len(q) + i) - Len(q) = i
        BY <1>2
    <2> QED BY <1>1, <2>1
<1>5. ASSUME NEW i \in 1..Len(s)
      PROVE  \/ i \in 1..Len(q) /\ s[i] = q[i]
             \/ i - Len(q) \in 1..Len(e) /\ s[i] = e[i - Len(q)] /\ i = Len(q) + (i - Len(q))
    BY <1>1, <1>2
<1>6. ASSUME NEW events PROVE Brings(s, events) <=> Brings(q, events) \/ Brings(e, events)
    <2>1. Brings(s, events) => Brings(q, events) \/ Brings(e, events)
        BY <1>5 DEF Brings
    <2>2. Brings(q, events) => Brings(s, events)
        BY <1>3 DEF Brings
    <2>3. Brings(e, events) => Brings(s, events)
        BY <1>4 DEF Brings
    <2> QED BY <2>1, <2>2, <2>3
<1>7. NoSignals(q) /\ NoSignals(e) => NoSignals(s)
    BY <1>5 DEF NoSignals
<1>8. ASSUME NEW n, OnlySignal(q, n), NoSignals(e) PROVE OnlySignal(s, n)
    <2>1. PICK i \in 1..Len(q) : /\ q[i].event = "signal" /\ q[i].n = n
                                 /\ \A j \in 1..Len(q) : j # i => q[j].event # "signal"
        BY <1>8 DEF OnlySignal
    <2>2. ASSUME NEW j \in 1..Len(s), j # i PROVE s[j].event # "signal"
        BY <1>5, <1>8, <2>1, <2>2 DEF NoSignals
    <2> QED BY <1>3, <2>1, <2>2 DEF OnlySignal
<1>9. ASSUME NEW n, NoSignals(q), OnlySignal(e, n) PROVE OnlySignal(s, n)
    <2>1. PICK i \in 1..Len(e) : /\ e[i].event = "signal" /\ e[i].n = n
                                 /\ \A j \in 1..Len(e) : j # i => e[j].event # "signal"
        BY <1>9 DEF OnlySignal
    <2>2. ASSUME NEW j \in 1..Len(s), j # Len(q) + i PROVE s[j].event # "signal"
        <3>1. j \in 1..Len(q) => s[j].event # "signal"
            BY <1>3, <1>9 DEF NoSignals
        <3>2. j - Len(q) \in 1..Len(e) /\ s[j] = e[j - Len(q)] /\ j = Len(q) + (j - Len(q))
                => s[j].event # "signal"
            BY <2>1, <2>2
        <3> QED BY <1>5, <3>1, <3>2
    <2> QED BY <1>4, <2>1, <2>2 DEF OnlySignal
<1>10. Urges(s) <= Urges(q) + Urges(e)
    <2> DEFINE A == UrgentIn(q)
               B == UrgentIn(e)
               C == UrgentIn(s) \ A
               f == [i \in C |-> i - Len(q)]
    <2>1. IsFiniteSet(A) /\ IsFiniteSet(B) /\ IsFiniteSet(UrgentIn(s)) /\ IsFiniteSet(C)
        BY <1>1, UrgesAreFew, FS_Difference
    <2>2. A \subseteq UrgentIn(s)
        BY <1>3 DEF UrgentIn
    <2>3. ASSUME NEW i \in C PROVE i - Len(q) \in B
        BY <1>5, <2>3 DEF UrgentIn
    <2>4. f \in [C -> B]
        BY <2>3
    <2>5. \A x, y \in C : f[x] = f[y] => x = y
        BY <1>1, <1>2 DEF UrgentIn
    <2> HIDE DEF f
    <2>6. Cardinality(C) <= Cardinality(B)
        BY <2>1, <2>4, <2>5, NoMore
    <2>7. UrgentIn(s) = A \cup C /\ A \cap C = {}
        BY <2>2
    <2> HIDE DEF A, C
    <2>8. Cardinality(UrgentIn(s)) = Cardinality(A) + Cardinality(C)
        <3>1. Cardinality(A \cup C) = Cardinality(A) + Cardinality(C) - Cardinality(A \cap C)
            BY <2>1, FS_Union
        <3>2. Cardinality(A) \in Nat /\ Cardinality(C) \in Nat /\ Cardinality(A \cap C) = 0
            BY <2>1, <2>7, FS_CardinalityType, FS_EmptySet
        <3> QED BY <2>7, <3>1, <3>2
    <2>9. Cardinality(A) \in Nat /\ Cardinality(B) \in Nat /\ Cardinality(C) \in Nat
        BY <2>1, FS_CardinalityType
    <2> QED BY <2>6, <2>8, <2>9 DEF Urges, A
<1>11. \A m : Old(q, m) /\ Old(e, m) => Old(s, m)
    BY <1>5 DEF Old
<1> QED BY <1>1, <1>6, <1>7, <1>8, <1>9, <1>10, <1>11 DEF s

\* Handling the first event.
LEMMA Handled ==
    ASSUME NEW q \in Seq(PageEvent), q # <<>>
    PROVE  /\ Tail(q) \in Seq(PageEvent) /\ Head(q) \in PageEvent /\ Len(q) >= 1 /\ Head(q) = q[1]
           /\ \A events : Brings(Tail(q), events) => Brings(q, events)
           /\ \A events : Brings(q, events) /\ Head(q).event \notin events => Brings(Tail(q), events)
           /\ NoSignals(q) => NoSignals(Tail(q)) /\ Head(q).event # "signal"
           /\ \A m : Old(q, m) => Old(Tail(q), m) /\ (Head(q).event = "signal" => Head(q).n <= m)
           /\ \A n : OnlySignal(q, n) =>
                IF Head(q).event = "signal" THEN Head(q).n = n /\ NoSignals(Tail(q))
                ELSE OnlySignal(Tail(q), n)
           /\ Urges(Tail(q)) + (IF Head(q).event \in Urgent THEN 1 ELSE 0) <= Urges(q)
<1> DEFINE t == Tail(q)
<1>1. /\ Head(q) = q[1] /\ t \in Seq(PageEvent) /\ Len(t) = Len(q) - 1
      /\ \A i \in 1..Len(t) : t[i] = q[i + 1]
    BY HeadTailProperties
<1>2. Len(q) \in Nat /\ Len(q) >= 1 /\ q[1] \in PageEvent
    BY LenProperties, EmptySeq
<1> HIDE DEF t
<1>3. ASSUME NEW i \in 1..Len(t) PROVE i + 1 \in 1..Len(q) /\ t[i] = q[i + 1] /\ i + 1 # 1
    BY <1>1, <1>2
<1>4. ASSUME NEW i \in 1..Len(q), i # 1 PROVE i - 1 \in 1..Len(t) /\ t[i - 1] = q[i]
    BY <1>1, <1>2, <1>4
<1>5. \A events : Brings(t, events) => Brings(q, events)
    BY <1>3 DEF Brings
<1>6. \A events : Brings(q, events) /\ Head(q).event \notin events => Brings(t, events)
    BY <1>1, <1>4 DEF Brings
<1>7. NoSignals(q) => NoSignals(t) /\ Head(q).event # "signal"
    BY <1>1, <1>2, <1>3 DEF NoSignals
<1>8. ASSUME NEW n, OnlySignal(q, n)
      PROVE  IF Head(q).event = "signal" THEN Head(q).n = n /\ NoSignals(t) ELSE OnlySignal(t, n)
    <2>1. PICK i \in 1..Len(q) : /\ q[i].event = "signal" /\ q[i].n = n
                                 /\ \A j \in 1..Len(q) : j # i => q[j].event # "signal"
        BY <1>8 DEF OnlySignal
    <2>2. CASE i = 1
        BY <1>1, <1>3, <2>1, <2>2 DEF NoSignals
    <2>3. CASE i # 1
        <3>1. Head(q).event # "signal"
            BY <1>1, <1>2, <2>1, <2>3
        <3>2. i - 1 \in 1..Len(t) /\ t[i - 1] = q[i]
            BY <1>4, <2>3
        <3>3. ASSUME NEW j \in 1..Len(t), j # i - 1 PROVE t[j].event # "signal"
            <4>1. j + 1 \in 1..Len(q) /\ t[j] = q[j + 1] /\ j + 1 # i
                BY <1>3, <3>3
            <4> QED BY <2>1, <4>1
        <3> QED BY <2>1, <3>1, <3>2, <3>3 DEF OnlySignal
    <2> QED BY <2>2, <2>3
<1>9. Urges(t) + (IF Head(q).event \in Urgent THEN 1 ELSE 0) <= Urges(q)
    <2> DEFINE A == UrgentIn(q)
               B == UrgentIn(t)
               f == [i \in B |-> i + 1]
    <2>1. IsFiniteSet(A) /\ IsFiniteSet(B) /\ IsFiniteSet(A \ {1})
        BY <1>1, UrgesAreFew, FS_Difference
    <2>2. ASSUME NEW i \in B PROVE i + 1 \in A \ {1}
        BY <1>3 DEF UrgentIn
    <2>3. f \in [B -> A \ {1}]
        BY <2>2
    <2>4. \A x, y \in B : f[x] = f[y] => x = y
        BY <1>1, <1>2 DEF UrgentIn
    <2> HIDE DEF f
    <2>5. Cardinality(B) <= Cardinality(A \ {1})
        BY <2>1, <2>3, <2>4, NoMore
    <2>6. Cardinality(A \ {1}) = IF 1 \in A THEN Cardinality(A) - 1 ELSE Cardinality(A)
        BY <2>1, FS_RemoveElement
    <2>7. 1 \in A <=> Head(q).event \in Urgent
        BY <1>1, <1>2 DEF UrgentIn
    <2>8. Cardinality(A) \in Nat /\ Cardinality(B) \in Nat
        BY <2>1, FS_CardinalityType
    <2> HIDE DEF A, B
    <2>9. Cardinality(B) + (IF 1 \in A THEN 1 ELSE 0) <= Cardinality(A)
        BY <2>5, <2>6, <2>8
    <2> QED BY <2>7, <2>9 DEF A, B, Urges
<1>10. \A m : Old(q, m) => Old(t, m) /\ (Head(q).event = "signal" => Head(q).n <= m)
    BY <1>1, <1>2, <1>3 DEF Old
<1> QED BY <1>1, <1>2, <1>5, <1>6, <1>7, <1>8, <1>9, <1>10 DEF t

-----------------------------------------------------------------------------
(* What the relay writes to the streams *)

Plain == {"peer-joined", "peers-connected", "peer-left", "room-expired"}

LEMMA Said ==
    ASSUME NEW event \in Plain
    PROVE  /\ Say(event) \in Seq(PageEvent) /\ Len(Say(event)) = 1 /\ NoSignals(Say(event))
           /\ \A events : Brings(Say(event), events) <=> event \in events
           /\ \A m : Old(Say(event), m)
           /\ Urges(Say(event)) <= (IF event \in HostEvents THEN 1 ELSE 0)
<1> DEFINE s == Say(event)
<1>1. [event |-> event, n |-> 0] \in PageEvent
    BY DEF PageEvent, Plain
<1>2. s \in Seq(PageEvent) /\ Len(s) = 1 /\ s[1] = [event |-> event, n |-> 0]
    BY <1>1 DEF Say
<1> HIDE DEF s
<1>3. \A i \in 1..Len(s) : i = 1
    BY <1>2
<1>4. 1 \in 1..Len(s) /\ s[1].event = event /\ event # "signal"
    BY <1>2 DEF Plain
<1>5. NoSignals(s) /\ \A m : Old(s, m)
    BY <1>3, <1>4 DEF NoSignals, Old
<1>6. \A events : Brings(s, events) <=> event \in events
    BY <1>3, <1>4 DEF Brings
<1>7. Urges(s) <= (IF event \in HostEvents THEN 1 ELSE 0)
    <2>1. CASE event \in HostEvents
        BY <1>2, <2>1, UrgesAreFew
    <2>2. CASE event \notin HostEvents
        <3>1. event \notin Urgent
            BY <2>2, <1>4 DEF Urgent, HostEvents
        <3>2. Urges(s) = 0
            BY <1>2, <1>6, <3>1, UrgesAreFew
        <3> QED BY <2>2, <3>2
    <2> QED BY <2>1, <2>2
<1> QED BY <1>2, <1>5, <1>6, <1>7 DEF s

LEMMA NothingSaid ==
    /\ <<>> \in Seq(PageEvent) /\ Len(<<>>) = 0 /\ NoSignals(<<>>) /\ Urges(<<>>) = 0
    /\ \A events : ~Brings(<<>>, events)
    /\ \A m : Old(<<>>, m)
<1>1. <<>> \in Seq(PageEvent) /\ Len(<<>>) = 0
    OBVIOUS
<1>2. \A i \in 1..Len(<<>>) : FALSE
    BY <1>1
<1>3. NoSignals(<<>>) /\ (\A events : ~Brings(<<>>, events)) /\ (\A m : Old(<<>>, m))
    BY <1>2 DEF NoSignals, Brings, Old
<1> QED BY <1>1, <1>3, UrgesAreFew

LEMMA ExtraIs ==
    ASSUME NEW g \in Seq(Signal), NEW h \in Seq(Signal), Len(g) <= Len(h)
    PROVE  /\ Extra(g, h) \in Seq(PageEvent) /\ Len(Extra(g, h)) = Len(h) - Len(g)
           /\ \A i \in 1..Len(Extra(g, h)) :
                /\ Extra(g, h)[i].event = "signal"
                /\ Len(g) + i \in 1..Len(h) /\ Extra(g, h)[i].n = h[Len(g) + i].n
<1> DEFINE k == Len(h) - Len(g)
<1>1. Len(g) \in Nat /\ Len(h) \in Nat /\ k \in Nat
    BY LenProperties
<1>2. ASSUME NEW i \in 1..k
      PROVE  /\ Len(g) + i \in 1..Len(h)
             /\ [event |-> "signal", n |-> h[Len(g) + i].n] \in PageEvent
    <2>1. Len(g) + i \in 1..Len(h)
        BY <1>1
    <2>2. h[Len(g) + i] \in Signal
        BY <2>1, LenProperties
    <2> QED BY <2>1, <2>2 DEF PageEvent, Signal
<1>3. Extra(g, h) \in Seq(PageEvent) /\ Len(Extra(g, h)) = k
    BY <1>1, <1>2 DEF Extra
<1>4. \A i \in 1..k : Extra(g, h)[i] = [event |-> "signal", n |-> h[Len(g) + i].n]
    BY DEF Extra
<1> HIDE DEF k
<1>5. ASSUME NEW i \in 1..k
      PROVE  /\ Extra(g, h)[i].event = "signal"
             /\ Len(g) + i \in 1..Len(h) /\ Extra(g, h)[i].n = h[Len(g) + i].n
    <2>1. Extra(g, h)[i] = [event |-> "signal", n |-> h[Len(g) + i].n]
        BY <1>4
    <2> QED BY <1>2, <2>1
<1> QED BY <1>3, <1>5 DEF k

LEMMA Handing ==
    ASSUME NEW g \in Seq(Signal), NEW h \in Seq(Signal), Len(g) <= Len(h)
    PROVE  /\ Extra(g, h) \in Seq(PageEvent)
           /\ Urges(Extra(g, h)) <= Len(h) - Len(g)
           /\ \A events : "signal" \notin events => ~Brings(Extra(g, h), events)
           /\ g = h => NoSignals(Extra(g, h)) /\ Extra(g, h) = <<>>
           /\ Len(h) = Len(g) + 1 => OnlySignal(Extra(g, h), h[Len(h)].n)
           /\ \A m : (\A i \in 1..Len(h) : h[i].n <= m) => Old(Extra(g, h), m)
<1> DEFINE x == Extra(g, h)
<1>1. /\ x \in Seq(PageEvent) /\ Len(x) = Len(h) - Len(g)
      /\ \A i \in 1..Len(x) : x[i].event = "signal" /\ Len(g) + i \in 1..Len(h) /\ x[i].n = h[Len(g) + i].n
    BY ExtraIs
<1>2. Len(g) \in Nat /\ Len(h) \in Nat
    BY LenProperties
<1> HIDE DEF x
<1>3. Urges(x) <= Len(h) - Len(g)
    BY <1>1, UrgesAreFew
<1>4. \A events : "signal" \notin events => ~Brings(x, events)
    BY <1>1 DEF Brings
<1>5. g = h => NoSignals(x) /\ x = <<>>
    <2> SUFFICES ASSUME g = h PROVE NoSignals(x) /\ x = <<>>
        OBVIOUS
    <2>1. Len(x) = 0
        BY <1>1, <1>2
    <2> QED BY <1>1, <2>1, EmptySeq DEF NoSignals
<1>6. Len(h) = Len(g) + 1 => OnlySignal(x, h[Len(h)].n)
    <2> SUFFICES ASSUME Len(h) = Len(g) + 1 PROVE OnlySignal(x, h[Len(h)].n)
        OBVIOUS
    <2>1. Len(x) = 1 /\ 1 \in 1..Len(x) /\ Len(g) + 1 = Len(h)
        BY <1>1, <1>2
    <2>2. \A j \in 1..Len(x) : j = 1
        BY <2>1
    <2> QED BY <1>1, <2>1, <2>2 DEF OnlySignal
<1>7. \A m : (\A i \in 1..Len(h) : h[i].n <= m) => Old(x, m)
    BY <1>1 DEF Old
<1> QED BY <1>1, <1>3, <1>4, <1>5, <1>6, <1>7 DEF x

\* What a page has to handle after the relay has written to the streams.
LEMMA Written ==
    ASSUME inbox \in [Peers -> Seq(PageEvent)], NEW p \in Peers,
           got[p] \in Seq(Signal), got'[p] \in Seq(Signal), Len(got[p]) <= Len(got'[p]),
           NEW told, NEW event, told = {} \/ event \in Plain, Write(told, event)
    PROVE  /\ inbox'[p] \in Seq(PageEvent)
           /\ \A events : "signal" \notin events =>
                (Brings(inbox'[p], events) <=> Brings(inbox[p], events) \/ (p \in told /\ event \in events))
           /\ got'[p] = got[p] =>
                /\ NoSignals(inbox[p]) => NoSignals(inbox'[p])
                /\ \A n : OnlySignal(inbox[p], n) => OnlySignal(inbox'[p], n)
                /\ p \notin told => inbox'[p] = inbox[p]
           /\ Len(got'[p]) = Len(got[p]) + 1 /\ NoSignals(inbox[p]) =>
                OnlySignal(inbox'[p], got'[p][Len(got'[p])].n)
           /\ \A m : Old(inbox[p], m) /\ (\A i \in 1..Len(got'[p]) : got'[p][i].n <= m) =>
                Old(inbox'[p], m)
           /\ Urges(inbox'[p]) <= Urges(inbox[p]) + (IF p \in told /\ event \in HostEvents THEN 1 ELSE 0)
                                    + (Len(got'[p]) - Len(got[p]))
<1> DEFINE say == IF p \in told THEN Say(event) ELSE <<>>
           q == inbox[p] \o say
           x == Extra(got[p], got'[p])
<1>1. inbox[p] \in Seq(PageEvent)
    OBVIOUS
<1>2. /\ say \in Seq(PageEvent) /\ NoSignals(say)
      /\ \A events : Brings(say, events) <=> p \in told /\ event \in events
      /\ \A m : Old(say, m)
      /\ Urges(say) <= (IF p \in told /\ event \in HostEvents THEN 1 ELSE 0)
      /\ p \notin told => say = <<>>
    <2>1. CASE p \in told
        BY <2>1, Said
    <2>2. CASE p \notin told
        BY <2>2, NothingSaid
    <2> QED BY <2>1, <2>2
<1>3. inbox'[p] = q \o x
    BY DEF Write, NewSignals, Extra
<1> HIDE DEF say
<1>4. /\ q \in Seq(PageEvent)
      /\ \A events : Brings(q, events) <=> Brings(inbox[p], events) \/ Brings(say, events)
      /\ NoSignals(inbox[p]) => NoSignals(q)
      /\ \A m : Old(inbox[p], m) => Old(q, m)
      /\ \A n : OnlySignal(inbox[p], n) => OnlySignal(q, n)
      /\ Urges(q) <= Urges(inbox[p]) + Urges(say)
    BY <1>1, <1>2, Appended
<1>5. p \notin told => q = inbox[p]
    BY <1>1, <1>2
<1> HIDE DEF q
<1>6. /\ x \in Seq(PageEvent)
      /\ Urges(x) <= Len(got'[p]) - Len(got[p])
      /\ \A events : "signal" \notin events => ~Brings(x, events)
      /\ got[p] = got'[p] => NoSignals(x) /\ x = <<>>
      /\ Len(got'[p]) = Len(got[p]) + 1 => OnlySignal(x, got'[p][Len(got'[p])].n)
      /\ \A m : (\A i \in 1..Len(got'[p]) : got'[p][i].n <= m) => Old(x, m)
    BY Handing
<1> HIDE DEF x
<1>7. /\ q \o x \in Seq(PageEvent)
      /\ \A events : Brings(q \o x, events) <=> Brings(q, events) \/ Brings(x, events)
      /\ NoSignals(q) /\ NoSignals(x) => NoSignals(q \o x)
      /\ \A m : Old(q, m) /\ Old(x, m) => Old(q \o x, m)
      /\ \A n : OnlySignal(q, n) /\ NoSignals(x) => OnlySignal(q \o x, n)
      /\ \A n : NoSignals(q) /\ OnlySignal(x, n) => OnlySignal(q \o x, n)
      /\ Urges(q \o x) <= Urges(q) + Urges(x)
    BY <1>4, <1>6, Appended
<1>8. \A events : "signal" \notin events =>
        (Brings(inbox'[p], events) <=> Brings(inbox[p], events) \/ (p \in told /\ event \in events))
    BY <1>2, <1>3, <1>4, <1>6, <1>7
<1>9. got'[p] = got[p] =>
        /\ NoSignals(inbox[p]) => NoSignals(inbox'[p])
        /\ \A n : OnlySignal(inbox[p], n) => OnlySignal(inbox'[p], n)
        /\ p \notin told => inbox'[p] = inbox[p]
    <2>1. x = <<>> => q \o x = q
        BY <1>4
    <2> QED BY <1>3, <1>4, <1>5, <1>6, <1>7, <2>1
<1>10. Len(got'[p]) = Len(got[p]) + 1 /\ NoSignals(inbox[p]) => OnlySignal(inbox'[p], got'[p][Len(got'[p])].n)
    BY <1>3, <1>4, <1>6, <1>7
<1>11. \A m : Old(inbox[p], m) /\ (\A i \in 1..Len(got'[p]) : got'[p][i].n <= m) => Old(inbox'[p], m)
    BY <1>3, <1>4, <1>6, <1>7
<1>12. Urges(inbox'[p]) <= Urges(inbox[p]) + (IF p \in told /\ event \in HostEvents THEN 1 ELSE 0)
                            + (Len(got'[p]) - Len(got[p]))
    <2>1. Urges(q \o x) \in Nat /\ Urges(q) \in Nat /\ Urges(x) \in Nat /\ Urges(inbox[p]) \in Nat /\ Urges(say) \in Nat
          /\ Len(got'[p]) \in Nat /\ Len(got[p]) \in Nat
        BY <1>1, <1>2, <1>4, <1>6, <1>7, UrgesAreFew, LenProperties
    <2> DEFINE d == IF p \in told /\ event \in HostEvents THEN 1 ELSE 0
    <2>2. d \in Nat /\ Urges(say) <= d
        BY <1>2
    <2> HIDE DEF d
    <2>3. Urges(inbox'[p]) <= Urges(inbox[p]) + d + (Len(got'[p]) - Len(got[p]))
        <3> DEFINE A == Urges(q \o x)
                   B == Urges(q)
                   C == Urges(x)
                   E == Urges(inbox[p])
                   F == Urges(say)
                   K == Len(got'[p]) - Len(got[p])
        <3>1. A \in Nat /\ B \in Nat /\ C \in Nat /\ E \in Nat /\ F \in Nat /\ K \in Int
            BY <2>1
        <3>2. A <= B + C /\ B <= E + F /\ F <= d /\ C <= K
            BY <1>4, <1>6, <1>7, <2>2
        <3> HIDE DEF A, B, C, E, F, K
        <3>3. A <= E + d + K
            BY <2>2, <3>1, <3>2
        <3>4. Urges(inbox'[p]) = A
            BY <1>3 DEF A
        <3> QED BY <3>3, <3>4 DEF E, K
    <2> QED BY <2>3 DEF d
<1> QED BY <1>3, <1>7, <1>8, <1>9, <1>10, <1>11, <1>12

-----------------------------------------------------------------------------
(* How many connections a page makes *)

RelayInv == Sound /\ WaitingFits /\ InOrder

LEMMA RelayKept == RelayInv /\ [Next]_vars => RelayInv'
    BY SoundKept, WaitingKept, InOrderKept DEF RelayInv

LEMMA RelayHolds == HandshakeSpec => []RelayInv
<1>1. Init => RelayInv
    <2>1. Init => WaitingFits /\ InOrder
        BY DEF Init, WaitingFits, InOrder, GotInOrder, GotAreOld, QueuedInOrder, QueuedAreOld, GotFirst
    <2> QED BY <2>1, SoundFromTheStart DEF RelayInv
<1> QED BY <1>1, RelayKept, PagesUseTheRelay, PTL DEF Spec

Housed == {p \in Peers : home[p] # NoRoom}
Used == {c \in Conns : wire[c] # "unused"}
Budget(p) == Len(got[p]) + Cardinality(Housed) + Cardinality(Used)

LEMMA Sizes ==
    /\ IsFiniteSet(Housed) /\ IsFiniteSet(Used)
    /\ Cardinality(Housed) \in Nat /\ Cardinality(Used) \in Nat
    /\ Cardinality(Housed) <= Cardinality(Peers) /\ Cardinality(Used) <= Cardinality(Conns)
    /\ Cardinality(Peers) \in Nat /\ Cardinality(Conns) \in Nat
<1>1. Housed \subseteq Peers /\ Used \subseteq Conns
    BY DEF Housed, Used
<1>2. /\ IsFiniteSet(Housed) /\ IsFiniteSet(Used)
      /\ Cardinality(Housed) <= Cardinality(Peers) /\ Cardinality(Used) <= Cardinality(Conns)
    BY <1>1, FiniteAssumption, FS_Subset
<1> QED BY <1>2, FiniteAssumption, FS_CardinalityType

\* A page has received no more signals than were relayed: they are numbered.
LEMMA GotAreFew ==
    ASSUME RelayInv, NEW p \in Peers
    PROVE  got[p] \in Seq(Signal) /\ Len(got[p]) \in Nat /\ Len(got[p]) <= MaxSignals
<1> DEFINE S == 1..Len(got[p])
           T == 1..relayed
           f == [i \in S |-> got[p][i].n]
<1>1. /\ got[p] \in Seq(Signal) /\ Len(got[p]) \in Nat /\ relayed \in 0..MaxSignals /\ relayed \in Nat
      /\ MaxSignals \in Nat
    BY LenProperties, NumbersAssumption DEF RelayInv, Sound, TypeOK
<1>2. ASSUME NEW i \in S PROVE got[p][i].n \in T
    <2>1. got[p][i] \in Signal
        BY <1>1, LenProperties
    <2>2. got[p][i].n <= relayed /\ got[p][i].n \in 1..MaxSignals
        BY <2>1 DEF RelayInv, InOrder, GotAreOld, Signal
    <2> QED BY <1>1, <2>2
<1>3. f \in [S -> T]
    BY <1>2
<1>4. ASSUME NEW x \in S, NEW y \in S, f[x] = f[y] PROVE x = y
    <2>1. got[p][x].n = got[p][y].n /\ got[p][x].n \in T
        BY <1>2, <1>4
    <2>2. ~(x < y) /\ ~(y < x)
        BY <1>1, <2>1 DEF RelayInv, InOrder, GotInOrder
    <2> QED BY <1>1, <2>2
<1> HIDE DEF f
<1>5. Cardinality(S) <= Cardinality(T)
    BY <1>1, <1>3, <1>4, FirstNumbers, NoMore
<1>6. Cardinality(S) = Len(got[p]) /\ Cardinality(T) = relayed
    BY <1>1, FirstNumbers
<1> QED BY <1>1, <1>5, <1>6

LEMMA BudgetIsFinite ==
    ASSUME RelayInv, NEW p \in Peers
    PROVE  Budget(p) \in Nat /\ Budget(p) <= MaxPc /\ MaxPc \in Nat
    BY SMTT(30), Sizes, GotAreFew, NumbersAssumption DEF Budget, MaxPc

\* Opening a stream hands over what waits, and nothing when nothing does.
LEMMA OpenedHands ==
    ASSUME Sound, Sound', NEW c \in Conns, NEW p \in Peers, OpenEvents(c, p)
    PROVE  /\ \A q \in Peers : q # p => got'[q] = got[q]
           /\ Len(got[p]) <= Len(got'[p])
           /\ Len(queued[home[p]]) = 0 => got'[p] = got[p]
<1>1. PICK r \in Rooms : r = RoomAt(p) /\ home[p] = r
    BY OpenedAtHome DEF Sound
<1>2. PICK sigs \in Seq(Entry) : sigs = SignalsFor(r, p) /\ PickOf(sigs, queued[r], QueuedFor({p}))
    BY <1>1, Queues, OnlyPicks DEF Sound, SignalsFor
<1>3. got'[p] = got[p] \o [i \in DOMAIN sigs |-> sigs[i].signal] /\ \A q \in Peers : q # p => got'[q] = got[q]
    BY <1>1, <1>2 DEF OpenEvents, Sound, TypeOK
<1>4. /\ DOMAIN sigs = 1..Len(sigs) /\ Len(sigs) \in Nat /\ sigs \in [1..Len(sigs) -> Entry]
      /\ got[p] \in Seq(Signal) /\ Len(got[p]) \in Nat
    BY LenProperties DEF Sound, TypeOK
<1> DEFINE mine == [i \in DOMAIN sigs |-> sigs[i].signal]
<1>5. mine \in Seq(Signal) /\ Len(mine) = Len(sigs)
    <2>1. \A i \in 1..Len(sigs) : sigs[i].signal \in Signal
        BY <1>4 DEF Entry
    <2> QED BY <1>4, <2>1
<1> HIDE DEF mine
<1>6. Len(got'[p]) = Len(got[p]) + Len(mine)
    BY <1>3, <1>4, <1>5, ConcatProperties DEF mine
<1>7. Len(queued[r]) = 0 => got'[p] = got[p]
    <2> SUFFICES ASSUME Len(queued[r]) = 0 PROVE got'[p] = got[p]
        OBVIOUS
    <2>1. Len(sigs) <= Len(queued[r])
        BY <1>2 DEF PickOf
    <2>2. Len(mine) = 0
        BY <1>4, <1>5, <2>1
    <2>3. mine = <<>>
        BY <1>5, <2>2, EmptySeq
    <2> QED BY <1>3, <1>4, <2>3 DEF mine
<1> QED BY <1>1, <1>3, <1>4, <1>5, <1>6, <1>7

\* Relaying a signal hands it to whom it reaches, once.
LEMMA RelayedHands ==
    ASSUME Sound, NEW req \in pending, RelaySignal(req), NEW q \in Peers
    PROVE  \/ got'[q] = got[q]
           \/ /\ q # req.peer /\ In(req.room, q) /\ Reaches(q)
              /\ Len(got'[q]) = Len(got[q]) + 1 /\ got'[q][Len(got'[q])].n = relayed + 1
<1> DEFINE signal == [from |-> req.peer, n |-> relayed + 1]
<1>1. req.room \in Rooms /\ req.peer \in Peers /\ members[req.room] \in Seq(Peers)
    BY DEF Sound, TypeOK, Request
<1>2. got'[q] = IF q \in ToSet(Others(req.room, req.peer)) /\ Reaches(q) THEN Append(got[q], signal)
                ELSE got[q]
    BY DEF RelaySignal
<1>3. signal \in Signal /\ got[q] \in Seq(Signal)
    <2>1. relayed + 1 \in 1..MaxSignals
        BY NumbersAssumption DEF RelaySignal, Sound, TypeOK
    <2> QED BY <1>1, <2>1 DEF Signal, Sound, TypeOK
<1>4. CASE q \in ToSet(Others(req.room, req.peer)) /\ Reaches(q)
    <2>1. /\ Others(req.room, req.peer) \in Seq(Peers)
          /\ PickOf(Others(req.room, req.peer), members[req.room], Peers \ {req.peer})
        BY <1>1, OthersListed
    <2>2. PICK i \in 1..Len(Others(req.room, req.peer)) : Others(req.room, req.peer)[i] = q
        BY <1>4, <2>1, LenProperties DEF ToSet
    <2>3. q # req.peer /\ \E k \in 1..Len(members[req.room]) : members[req.room][k] = q
        BY <2>1, <2>2 DEF PickOf
    <2>4. In(req.room, q)
        BY <1>1, <2>3, LenProperties DEF In
    <2>5. /\ Len(Append(got[q], signal)) = Len(got[q]) + 1
          /\ Append(got[q], signal)[Len(got[q]) + 1] = signal
        BY <1>3, AppendProperties
    <2> QED BY <1>2, <1>4, <2>3, <2>4, <2>5
<1> QED BY <1>2, <1>4

PageTypes ==
    /\ inbox \in [Peers -> Seq(PageEvent)]
    /\ outbox \in [Peers -> SUBSET Message]
    /\ content \in [1..MaxSignals -> Message \cup {NoSignal}]
    /\ pc \in [Peers -> Nat]
    /\ sig \in [Peers -> {"none", "offering", "local", "answering", "stable", "closed", "gone"}]
    /\ remote \in [Peers -> 0..MaxPc]
    /\ failed \in BOOLEAN

\* Each connection a page made or will make for what it has to handle is paid for by
\* a peer that came, a stream that was opened or a signal that was received.
Counted == \A p \in Peers : pc[p] + Urges(inbox[p]) <= Budget(p)

\* A page that made no connection does nothing on one.
NoneYet == \A p \in Peers : pc[p] = 0 => sig[p] \in {"none", "gone"}

InboxesAreOld == \A p \in Peers : Old(inbox[p], relayed)

PagesInv == RelayInv /\ PageTypes /\ Counted /\ NoneYet /\ InboxesAreOld

LEMMA HousedGrow ==
    ASSUME Sound, [Next]_vars
    PROVE  Housed \subseteq Housed' /\ Used \subseteq Used'
<1>1. \A p \in Peers : home[p] # NoRoom => home'[p] = home[p]
    BY ZenonT(40), MarkersAssumption
       DEF Sound, TypeOK, Next, vars, CreateRoom, JoinRoom, OpenEvents, LoseStream, CloseStream,
           RequestArrives, RelaySignal, RejectSignal, Leave, Purge, Tick
<1>2. \A c \in Conns : wire[c] # "unused" => wire'[c] # "unused"
    <2>1. ASSUME NEW c \in Conns, NEW p \in Peers, OpenEvents(c, p)
          PROVE  \A d \in Conns : wire[d] # "unused" => wire'[d] # "unused"
        BY <2>1 DEF Sound, TypeOK, OpenEvents
    <2>2. ASSUME NEW c \in Conns, LoseStream(c) \/ CloseStream(c)
          PROVE  \A d \in Conns : wire[d] # "unused" => wire'[d] # "unused"
        BY <2>2 DEF Sound, TypeOK, LoseStream, CloseStream
    <2>3. ASSUME NEW kind \in {"signal", "leave"}, NEW p \in Peers, RequestArrives(kind, p)
          PROVE  \A d \in Conns : wire[d] # "unused" => wire'[d] # "unused"
        BY <2>3 DEF RequestArrives, Closing
    <2>4. CASE Purge
        BY <2>4 DEF Purge
    <2>5. CASE UNCHANGED wire
        BY <2>5
    <2> QED BY <2>1, <2>2, <2>3, <2>4, <2>5
            DEF Next, vars, CreateRoom, JoinRoom, RelaySignal, RejectSignal, Leave, Tick
<1> QED BY SMTT(30), <1>1, <1>2 DEF Housed, Used

LEMMA GotGrows ==
    ASSUME Sound, Sound', [Next]_vars, NEW p \in Peers
    PROVE  Len(got[p]) <= Len(got'[p])
<1>0. got[p] \in Seq(Signal) /\ Len(got[p]) \in Nat
    BY LenProperties DEF Sound, TypeOK
<1>1. ASSUME NEW c \in Conns, NEW q \in Peers, OpenEvents(c, q) PROVE Len(got[p]) <= Len(got'[p])
    BY <1>0, <1>1, OpenedHands
<1>2. ASSUME NEW req \in pending, RelaySignal(req) PROVE Len(got[p]) <= Len(got'[p])
    BY <1>0, <1>2, RelayedHands
<1>3. CASE got' = got
    BY <1>0, <1>3
<1> QED BY <1>1, <1>2, <1>3
        DEF Next, vars, CreateRoom, JoinRoom, LoseStream, CloseStream, RequestArrives, RejectSignal,
            Leave, Purge, Tick

LEMMA BudgetGrows ==
    ASSUME RelayInv, RelayInv', [Next]_vars, NEW p \in Peers
    PROVE  /\ Len(got[p]) <= Len(got'[p]) /\ Len(got[p]) \in Nat /\ Len(got'[p]) \in Nat
           /\ Cardinality(Housed) <= Cardinality(Housed') /\ Cardinality(Used) <= Cardinality(Used')
           /\ Cardinality(Housed) \in Nat /\ Cardinality(Housed') \in Nat
           /\ Cardinality(Used) \in Nat /\ Cardinality(Used') \in Nat
           /\ Budget(p) \in Nat /\ Budget(p)' \in Nat /\ Budget(p) <= Budget(p)'
<1>1. Len(got[p]) <= Len(got'[p])
    BY GotGrows DEF RelayInv
<1>2. Housed' \subseteq Peers /\ Used' \subseteq Conns
    BY DEF Housed, Used
<1>3. IsFiniteSet(Housed') /\ IsFiniteSet(Used')
    BY <1>2, FiniteAssumption, FS_Subset
<1>4. Cardinality(Housed) <= Cardinality(Housed') /\ Cardinality(Used) <= Cardinality(Used')
    BY <1>3, HousedGrow, FS_Subset DEF RelayInv
<1>5. Len(got[p]) \in Nat /\ Len(got'[p]) \in Nat
    BY LenProperties DEF RelayInv, Sound, TypeOK
<1>6. Cardinality(Housed) \in Nat /\ Cardinality(Housed') \in Nat
      /\ Cardinality(Used) \in Nat /\ Cardinality(Used') \in Nat
    BY <1>3, Sizes, FS_CardinalityType
<1> DEFINE A == Len(got[p])
           B == Len(got'[p])
           C == Cardinality(Housed)
           D == Cardinality(Housed')
           E == Cardinality(Used)
           F == Cardinality(Used')
<1>7. /\ A \in Nat /\ B \in Nat /\ C \in Nat /\ D \in Nat /\ E \in Nat /\ F \in Nat
      /\ A <= B /\ C <= D /\ E <= F
    BY <1>1, <1>4, <1>5, <1>6
<1>8. Budget(p) = A + C + E /\ Budget(p)' = B + D + F
    BY DEF Budget
<1> HIDE DEF A, B, C, D, E, F
<1>9. Budget(p) \in Nat /\ Budget(p)' \in Nat /\ Budget(p) <= Budget(p)'
    BY <1>7, <1>8
<1> QED BY <1>7, <1>9 DEF A, B, C, D, E, F

\* A step of the relay that writes to the streams: what it says counts for nothing,
\* or somebody came or opened a stream.
LEMMA WritingCounts ==
    ASSUME PagesInv, RelayInv', [Next]_vars, NEW told, NEW event, told = {} \/ event \in Plain,
           Write(told, event), pc' = pc,
           \/ event \notin HostEvents
           \/ Cardinality(Housed) < Cardinality(Housed')
           \/ Cardinality(Used) < Cardinality(Used')
    PROVE  Counted'
<1> SUFFICES ASSUME NEW p \in Peers PROVE pc'[p] + Urges(inbox'[p]) <= Budget(p)'
    BY DEF Counted
<1>1. /\ inbox[p] \in Seq(PageEvent) /\ pc[p] \in Nat /\ Urges(inbox[p]) \in Nat
      /\ pc[p] + Urges(inbox[p]) <= Budget(p)
    BY UrgesAreFew DEF PagesInv, PageTypes, Counted
<1>2. /\ Len(got[p]) <= Len(got'[p]) /\ Len(got[p]) \in Nat /\ Len(got'[p]) \in Nat
      /\ Cardinality(Housed) <= Cardinality(Housed') /\ Cardinality(Used) <= Cardinality(Used')
      /\ Cardinality(Housed) \in Nat /\ Cardinality(Housed') \in Nat
      /\ Cardinality(Used) \in Nat /\ Cardinality(Used') \in Nat
    BY BudgetGrows DEF PagesInv
<1>3. /\ inbox'[p] \in Seq(PageEvent)
      /\ Urges(inbox'[p]) <= Urges(inbox[p]) + (IF p \in told /\ event \in HostEvents THEN 1 ELSE 0)
                                    + (Len(got'[p]) - Len(got[p]))
    <2>1. got[p] \in Seq(Signal) /\ got'[p] \in Seq(Signal) /\ inbox \in [Peers -> Seq(PageEvent)]
        BY DEF PagesInv, PageTypes, RelayInv, Sound, TypeOK
    <2> QED BY <1>2, <2>1, Written
<1>4. Urges(inbox'[p]) \in Nat
    BY <1>3, UrgesAreFew
<1> DEFINE u == Urges(inbox[p])
           v == Urges(inbox'[p])
           d == IF p \in told /\ event \in HostEvents THEN 1 ELSE 0
<1>5. u \in Nat /\ v \in Nat /\ d \in {0, 1} /\ v <= u + d + (Len(got'[p]) - Len(got[p]))
    BY <1>1, <1>3, <1>4
<1>6. d = 0 \/ Cardinality(Housed) < Cardinality(Housed') \/ Cardinality(Used) < Cardinality(Used')
    OBVIOUS
<1>7. pc[p] + u <= Len(got[p]) + Cardinality(Housed) + Cardinality(Used)
    BY <1>1 DEF Budget
<1> HIDE DEF u, v, d
<1>8. pc[p] + v <= Len(got'[p]) + Cardinality(Housed') + Cardinality(Used')
    <2> DEFINE A == Len(got[p])
               B == Len(got'[p])
               C == Cardinality(Housed)
               D == Cardinality(Housed')
               E == Cardinality(Used)
               F == Cardinality(Used')
               G == pc[p]
    <2>1. /\ A \in Nat /\ B \in Nat /\ C \in Nat /\ D \in Nat /\ E \in Nat /\ F \in Nat /\ G \in Nat
          /\ A <= B /\ C <= D /\ E <= F /\ v <= u + d + (B - A) /\ G + u <= A + C + E
          /\ (d = 0 \/ C < D \/ E < F)
        BY <1>1, <1>2, <1>5, <1>6, <1>7
    <2> HIDE DEF A, B, C, D, E, F, G
    <2>2. G + v <= B + D + F
        BY <1>5, <2>1
    <2> QED BY <2>2 DEF A, B, C, D, E, F, G
<1> QED BY <1>8 DEF Budget, v

\* A step that writes nothing and makes no connection.
LEMMA SilenceCounts ==
    ASSUME PagesInv, RelayInv', [Next]_vars, inbox' = inbox, pc' = pc
    PROVE  Counted'
<1> SUFFICES ASSUME NEW p \in Peers PROVE pc'[p] + Urges(inbox'[p]) <= Budget(p)'
    BY DEF Counted
<1>1. Budget(p) \in Nat /\ Budget(p)' \in Nat /\ Budget(p) <= Budget(p)'
    BY BudgetGrows DEF PagesInv
<1>2. pc[p] \in Nat /\ Urges(inbox[p]) \in Nat /\ pc[p] + Urges(inbox[p]) <= Budget(p)
    BY UrgesAreFew DEF PagesInv, PageTypes, Counted
<1>3. pc'[p] = pc[p] /\ Urges(inbox'[p]) = Urges(inbox[p])
    OBVIOUS
<1> QED BY <1>1, <1>2, <1>3

Doing == {"none", "offering", "local", "answering", "stable", "closed", "gone"}

\* A step of the page p.
LEMMA PageMoves ==
    ASSUME PagesInv, NEW p \in Peers, UNCHANGED <<vars, content, failed>>,
           NEW q \in Seq(PageEvent), Old(q, relayed), inbox' = [inbox EXCEPT ![p] = q],
           NEW k \in Nat, pc' = [pc EXCEPT ![p] = k], k + Urges(q) <= pc[p] + Urges(inbox[p]),
           NEW doing \in Doing, sig' = [sig EXCEPT ![p] = doing], k = 0 => doing \in {"none", "gone"},
           NEW other \in 0..MaxPc, remote' = [remote EXCEPT ![p] = other],
           outbox' \in [Peers -> SUBSET Message]
    PROVE  PagesInv'
<1>1. RelayInv'
    BY RelayKept DEF PagesInv
<1>2. PageTypes'
    BY DEF PagesInv, PageTypes, Doing, Message, PageEvent, MaxPc
<1>3. Counted'
    <2>1. \A r \in Peers : Budget(r)' = Budget(r)
        BY DEF Budget, Housed, Used, vars
    <2>2. ASSUME NEW r \in Peers PROVE pc'[r] + Urges(inbox'[r]) <= Budget(r)
        <3>1. CASE r # p
            BY <3>1 DEF PagesInv, PageTypes, Counted
        <3>2. CASE r = p
            <4>1. pc'[p] = k /\ inbox'[p] = q
                BY DEF PagesInv, PageTypes
            <4>2. pc[p] + Urges(inbox[p]) <= Budget(p) /\ pc[p] \in Nat /\ inbox[p] \in Seq(PageEvent)
                BY DEF PagesInv, PageTypes, Counted
            <4>3. Urges(q) \in Nat /\ Urges(inbox[p]) \in Nat /\ Budget(p) \in Nat
                BY <4>2, UrgesAreFew, BudgetIsFinite DEF PagesInv
            <4>4. k + Urges(q) <= Budget(p)
                BY <4>2, <4>3
            <4> QED BY <3>2, <4>1, <4>4
        <3> QED BY <3>1, <3>2
    <2> QED BY <2>1, <2>2 DEF Counted
<1>4. NoneYet'
    BY DEF PagesInv, PageTypes, NoneYet
<1>5. InboxesAreOld'
    BY DEF PagesInv, PageTypes, InboxesAreOld, vars
<1> QED BY <1>1, <1>2, <1>3, <1>4, <1>5 DEF PagesInv

\* A connection whose number is used is counted.
LEMMA NumbersFit ==
    ASSUME PagesInv, NEW p \in Peers
    PROVE  /\ pc[p] \in Nat /\ pc[p] <= MaxPc /\ MaxPc \in Nat
           /\ sig[p] \notin {"none", "gone"} => pc[p] \in 1..MaxPc
<1>1. /\ pc[p] \in Nat /\ Urges(inbox[p]) \in Nat /\ pc[p] + Urges(inbox[p]) <= Budget(p)
      /\ Budget(p) \in Nat /\ Budget(p) <= MaxPc /\ MaxPc \in Nat
    BY UrgesAreFew, BudgetIsFinite DEF PagesInv, PageTypes, Counted
<1>2. sig[p] \notin {"none", "gone"} => pc[p] # 0
    BY DEF PagesInv, NoneYet
<1> QED BY <1>1, <1>2

LEMMA HeadIs ==
    ASSUME PagesInv, NEW p \in Peers, inbox[p] # <<>>
    PROVE  /\ Tail(inbox[p]) \in Seq(PageEvent) /\ Old(Tail(inbox[p]), relayed)
           /\ Head(inbox[p]).event = "signal" => Head(inbox[p]).n \in 1..MaxSignals
           /\ Urges(Tail(inbox[p])) \in Nat /\ Urges(inbox[p]) \in Nat
           /\ Urges(Tail(inbox[p])) <= Urges(inbox[p])
           /\ Head(inbox[p]).event \in Urgent => Urges(Tail(inbox[p])) + 1 <= Urges(inbox[p])
<1>1. inbox[p] \in Seq(PageEvent) /\ Old(inbox[p], relayed)
    BY DEF PagesInv, PageTypes, InboxesAreOld
<1>2. /\ Tail(inbox[p]) \in Seq(PageEvent) /\ Head(inbox[p]) \in PageEvent
      /\ Old(Tail(inbox[p]), relayed)
      /\ Urges(Tail(inbox[p])) + (IF Head(inbox[p]).event \in Urgent THEN 1 ELSE 0) <= Urges(inbox[p])
    BY <1>1, Handled
<1>3. Head(inbox[p]).event = "signal" => Head(inbox[p]).n \in 1..MaxSignals
    BY <1>2 DEF PageEvent
<1>4. Urges(Tail(inbox[p])) \in Nat /\ Urges(inbox[p]) \in Nat
    BY <1>1, <1>2, UrgesAreFew
<1>5. CASE Head(inbox[p]).event \in Urgent
    BY <1>2, <1>3, <1>4, <1>5
<1>6. CASE Head(inbox[p]).event \notin Urgent
    BY <1>2, <1>3, <1>4, <1>6
<1> QED BY <1>5, <1>6

LEMMA PageKeepsInv ==
    ASSUME PagesInv, NEW p \in Peers, PageStep(p)
    PROVE  PagesInv'
<1> USE DEF PageTypes
<1>0. /\ inbox \in [Peers -> Seq(PageEvent)] /\ outbox \in [Peers -> SUBSET Message]
      /\ pc \in [Peers -> Nat] /\ sig \in [Peers -> Doing] /\ remote \in [Peers -> 0..MaxPc]
      /\ content \in [1..MaxSignals -> Message \cup {NoSignal}]
      /\ Old(inbox[p], relayed) /\ Urges(inbox[p]) \in Nat
    BY UrgesAreFew DEF PagesInv, Doing, InboxesAreOld
<1> DEFINE t == Tail(inbox[p])
<1>1. pc[p] \in Nat /\ sig[p] \in Doing /\ remote[p] \in 0..MaxPc /\ inbox[p] \in Seq(PageEvent)
      /\ (pc[p] = 0 => sig[p] \in {"none", "gone"})
    BY <1>0 DEF PagesInv, NoneYet
<1>2. /\ pc = [pc EXCEPT ![p] = pc[p]] /\ sig = [sig EXCEPT ![p] = sig[p]]
      /\ remote = [remote EXCEPT ![p] = remote[p]] /\ inbox = [inbox EXCEPT ![p] = inbox[p]]
    BY <1>0
<1>3. ASSUME NEW event \in HostEvents, HandlePeer(p, event) PROVE PagesInv'
    <2>1. inbox[p] # <<>> /\ Head(inbox[p]).event = event
          /\ inbox' = [inbox EXCEPT ![p] = t] /\ UNCHANGED <<vars, content, failed>> /\ outbox' = outbox
        BY <1>3 DEF HandlePeer, Handle
    <2>2. t \in Seq(PageEvent) /\ Old(t, relayed) /\ Urges(t) + 1 <= Urges(inbox[p]) /\ Urges(t) \in Nat
        BY <2>1, HeadIs DEF Urgent, HostEvents
    <2>3. CASE Offers(p)
        <3>1. /\ pc' = [pc EXCEPT ![p] = pc[p] + 1] /\ sig' = [sig EXCEPT ![p] = "offering"]
              /\ remote' = [remote EXCEPT ![p] = 0]
            BY <1>3, <2>3 DEF HandlePeer, NewConnection
        <3>2. pc[p] + 1 \in Nat /\ pc[p] + 1 + Urges(t) <= pc[p] + Urges(inbox[p]) /\ pc[p] + 1 # 0
            BY <1>0, <1>1, <2>2
        <3>3. "offering" \in Doing /\ 0 \in 0..MaxPc
            BY NumbersFit DEF Doing
        <3> HIDE DEF t
        <3> QED BY <1>0, <2>1, <2>2, <3>1, <3>2, <3>3, PageMoves
    <2>4. CASE ~Offers(p)
        <3>1. /\ pc' = [pc EXCEPT ![p] = pc[p]] /\ sig' = [sig EXCEPT ![p] = sig[p]]
              /\ remote' = [remote EXCEPT ![p] = remote[p]]
            BY <1>2, <1>3, <2>4 DEF HandlePeer, Keep
        <3>2. pc[p] + Urges(t) <= pc[p] + Urges(inbox[p])
            BY <1>0, <1>1, <2>2
        <3> HIDE DEF t
        <3>3. PICK k \in Nat, doing \in Doing, other \in 0..MaxPc :
                k = pc[p] /\ doing = sig[p] /\ other = remote[p]
            BY <1>1
        <3>4. /\ k + Urges(t) <= pc[p] + Urges(inbox[p]) /\ (k = 0 => doing \in {"none", "gone"})
              /\ pc' = [pc EXCEPT ![p] = k] /\ sig' = [sig EXCEPT ![p] = doing]
              /\ remote' = [remote EXCEPT ![p] = other] /\ outbox' \in [Peers -> SUBSET Message]
            BY <1>0, <1>1, <2>1, <2>2, <3>1, <3>2, <3>3
        <3> QED BY <2>1, <2>2, <3>4, PageMoves
    <2> QED BY <2>3, <2>4
<1>4. ASSUME HandlePeerLeft(p) PROVE PagesInv'
    <2>1. /\ inbox[p] # <<>> /\ inbox' = [inbox EXCEPT ![p] = t] /\ UNCHANGED <<vars, content, failed>>
          /\ outbox' = outbox /\ pc' = pc /\ remote' = remote
          /\ sig' = [sig EXCEPT ![p] = IF pc[p] = 0 THEN sig[p] ELSE "closed"]
        BY <1>4 DEF HandlePeerLeft, Handle
    <2>2. t \in Seq(PageEvent) /\ Old(t, relayed) /\ Urges(t) <= Urges(inbox[p]) /\ Urges(t) \in Nat
        BY <2>1, HeadIs
    <2>3. pc[p] + Urges(t) <= pc[p] + Urges(inbox[p])
        BY <1>0, <1>1, <2>2
    <2> DEFINE doing == IF pc[p] = 0 THEN sig[p] ELSE "closed"
    <2>4. doing \in Doing /\ (pc[p] = 0 => doing \in {"none", "gone"})
        BY <1>1 DEF Doing
    <2> HIDE DEF t, doing
    <2>5. sig' = [sig EXCEPT ![p] = doing]
        BY <2>1 DEF doing
    <2>6. PICK k \in Nat, other \in 0..MaxPc : k = pc[p] /\ other = remote[p]
        BY <1>1
    <2>7. /\ k + Urges(t) <= pc[p] + Urges(inbox[p]) /\ (k = 0 => doing \in {"none", "gone"})
          /\ pc' = [pc EXCEPT ![p] = k] /\ remote' = [remote EXCEPT ![p] = other]
          /\ outbox' \in [Peers -> SUBSET Message]
        BY <1>0, <1>2, <2>1, <2>3, <2>4, <2>6
    <2> QED BY <2>1, <2>2, <2>4, <2>5, <2>7, PageMoves
<1>5. ASSUME HandleExpired(p) PROVE PagesInv'
    <2>1. /\ inbox' = [inbox EXCEPT ![p] = <<>>] /\ UNCHANGED <<vars, content, failed>>
          /\ outbox' = outbox /\ pc' = pc /\ remote' = remote /\ sig' = [sig EXCEPT ![p] = "gone"]
        BY <1>5 DEF HandleExpired
    <2>2. PICK q \in Seq(PageEvent) : q = <<>> /\ Old(q, relayed) /\ Urges(q) = 0
        BY NothingSaid
    <2>3. pc[p] + Urges(q) <= pc[p] + Urges(inbox[p]) /\ "gone" \in Doing
        BY <1>0, <1>1, <2>2 DEF Doing
    <2>4. inbox' = [inbox EXCEPT ![p] = q]
        BY <2>1, <2>2
    <2> QED BY <1>0, <1>1, <1>2, <2>1, <2>2, <2>3, <2>4, PageMoves
<1>6. ASSUME OfferReady(p) PROVE PagesInv'
    <2>1. /\ sig[p] = "offering" /\ sig' = [sig EXCEPT ![p] = "local"]
          /\ outbox' = [outbox EXCEPT ![p] = @ \cup {[type |-> "offer", pc |-> pc[p]]}]
          /\ UNCHANGED <<vars, content, failed>> /\ inbox' = inbox /\ pc' = pc /\ remote' = remote
        BY <1>6 DEF OfferReady
    <2>2. pc[p] \in 1..MaxPc /\ pc[p] # 0
        BY <2>1, NumbersFit
    <2>3. [type |-> "offer", pc |-> pc[p]] \in Message
        BY <2>2 DEF Message
    <2>4. outbox' \in [Peers -> SUBSET Message]
        BY <1>0, <2>1, <2>3
    <2>5. pc[p] + Urges(inbox[p]) <= pc[p] + Urges(inbox[p]) /\ "local" \in Doing
        BY <1>0, <1>1 DEF Doing
    <2> QED BY <1>0, <1>1, <1>2, <2>1, <2>2, <2>4, <2>5, PageMoves
<1>7. ASSUME AnswerReady(p) PROVE PagesInv'
    <2>1. /\ sig[p] = "answering" /\ sig' = [sig EXCEPT ![p] = "stable"]
          /\ outbox' = [outbox EXCEPT ![p] = @ \cup {[type |-> "answer", pc |-> pc[p]]}]
          /\ UNCHANGED <<vars, content, failed>> /\ inbox' = inbox /\ pc' = pc /\ remote' = remote
        BY <1>7 DEF AnswerReady
    <2>2. pc[p] \in 1..MaxPc /\ pc[p] # 0
        BY <2>1, NumbersFit
    <2>3. [type |-> "answer", pc |-> pc[p]] \in Message
        BY <2>2 DEF Message
    <2>4. outbox' \in [Peers -> SUBSET Message]
        BY <1>0, <2>1, <2>3
    <2>5. pc[p] + Urges(inbox[p]) <= pc[p] + Urges(inbox[p]) /\ "stable" \in Doing
        BY <1>0, <1>1 DEF Doing
    <2> QED BY <1>0, <1>1, <1>2, <2>1, <2>2, <2>4, <2>5, PageMoves
<1>8. ASSUME Handle(p, "signal"), content[Head(inbox[p]).n].type \in {"offer", "answer"}
      PROVE  /\ inbox[p] # <<>> /\ inbox' = [inbox EXCEPT ![p] = t] /\ UNCHANGED <<vars, content, failed>>
             /\ outbox' = outbox
             /\ t \in Seq(PageEvent) /\ Old(t, relayed) /\ Urges(t) + 1 <= Urges(inbox[p]) /\ Urges(t) \in Nat
             /\ content[Head(inbox[p]).n].pc \in 1..MaxPc
    <2>1. /\ inbox[p] # <<>> /\ inbox' = [inbox EXCEPT ![p] = t] /\ UNCHANGED <<vars, content, failed>>
          /\ outbox' = outbox /\ Head(inbox[p]).event = "signal"
        BY <1>8 DEF Handle
    <2>2. /\ t \in Seq(PageEvent) /\ Old(t, relayed) /\ Urges(t) + 1 <= Urges(inbox[p]) /\ Urges(t) \in Nat
          /\ Head(inbox[p]).n \in 1..MaxSignals
        BY <2>1, HeadIs DEF Urgent
    <2>3. content[Head(inbox[p]).n] \in Message
        BY <1>0, <1>8, <2>2 DEF NoSignal
    <2>4. content[Head(inbox[p]).n].pc \in 1..MaxPc
        BY <2>3 DEF Message
    <2> QED BY <2>1, <2>2, <2>4
<1>9. ASSUME HandleOffer(p) PROVE PagesInv'
    <2> DEFINE other == content[Head(inbox[p]).n].pc
    <2>1. /\ inbox' = [inbox EXCEPT ![p] = t] /\ UNCHANGED <<vars, content, failed>> /\ outbox' = outbox
          /\ t \in Seq(PageEvent) /\ Old(t, relayed) /\ Urges(t) + 1 <= Urges(inbox[p]) /\ Urges(t) \in Nat
          /\ other \in 1..MaxPc
        BY <1>8, <1>9 DEF HandleOffer
    <2>2. /\ pc' = [pc EXCEPT ![p] = pc[p] + 1] /\ sig' = [sig EXCEPT ![p] = "answering"]
          /\ remote' = [remote EXCEPT ![p] = other]
        BY <1>9 DEF HandleOffer, NewConnection
    <2> HIDE DEF t, other
    <2>3. /\ pc[p] + 1 \in Nat /\ pc[p] + 1 + Urges(t) <= pc[p] + Urges(inbox[p]) /\ pc[p] + 1 # 0
          /\ "answering" \in Doing /\ other \in 0..MaxPc
        BY <1>0, <1>1, <2>1, NumbersFit DEF Doing
    <2> QED BY <1>0, <2>1, <2>2, <2>3, PageMoves
<1>10. ASSUME HandleAnswer(p) PROVE PagesInv'
    <2> DEFINE other == content[Head(inbox[p]).n].pc
    <2>1. /\ inbox' = [inbox EXCEPT ![p] = t] /\ UNCHANGED <<vars, content, failed>> /\ outbox' = outbox
          /\ t \in Seq(PageEvent) /\ Old(t, relayed) /\ Urges(t) + 1 <= Urges(inbox[p]) /\ Urges(t) \in Nat
          /\ other \in 1..MaxPc
        BY <1>8, <1>10 DEF HandleAnswer
    <2>2. pc[p] + Urges(t) <= pc[p] + Urges(inbox[p]) /\ other \in 0..MaxPc
        BY SMTT(30), <1>0, <1>1, <2>1, NumbersFit
    <2>3. CASE Accepts(p)
        <3>1. pc' = pc /\ sig' = [sig EXCEPT ![p] = "stable"] /\ remote' = [remote EXCEPT ![p] = other]
            BY <1>10, <2>3 DEF HandleAnswer
        <3>2. "stable" \in Doing /\ pc[p] # 0
            BY <1>1, <2>3 DEF Doing, Accepts
        <3> HIDE DEF t, other
        <3>3. PICK k \in Nat : k = pc[p]
            BY <1>1
        <3>4. /\ k + Urges(t) <= pc[p] + Urges(inbox[p]) /\ k # 0
              /\ pc' = [pc EXCEPT ![p] = k] /\ outbox' \in [Peers -> SUBSET Message]
            BY <1>0, <1>2, <2>1, <2>2, <3>1, <3>2, <3>3
        <3> QED BY <2>1, <2>2, <3>1, <3>2, <3>4, PageMoves
    <2>4. CASE ~Accepts(p)
        <3>1. /\ pc' = [pc EXCEPT ![p] = pc[p]] /\ sig' = [sig EXCEPT ![p] = sig[p]]
              /\ remote' = [remote EXCEPT ![p] = remote[p]]
            BY <1>2, <1>10, <2>4 DEF HandleAnswer, Keep
        <3> HIDE DEF t, other
        <3>3. PICK k \in Nat, doing \in Doing, had \in 0..MaxPc :
                k = pc[p] /\ doing = sig[p] /\ had = remote[p]
            BY <1>1
        <3>4. /\ k + Urges(t) <= pc[p] + Urges(inbox[p]) /\ (k = 0 => doing \in {"none", "gone"})
              /\ pc' = [pc EXCEPT ![p] = k] /\ sig' = [sig EXCEPT ![p] = doing]
              /\ remote' = [remote EXCEPT ![p] = had] /\ outbox' \in [Peers -> SUBSET Message]
            BY <1>0, <1>1, <2>1, <2>2, <3>1, <3>3
        <3> QED BY <2>1, <2>2, <3>4, PageMoves
    <2> QED BY <2>3, <2>4
<1> QED BY <1>3, <1>4, <1>5, <1>6, <1>7, <1>9, <1>10 DEF PageStep, HostEvents

LEMMA RelayedGrows ==
    ASSUME Sound, Sound', [Next]_vars
    PROVE  relayed \in Nat /\ relayed' \in Nat /\ relayed <= relayed'
<1>1. relayed \in Nat /\ relayed' \in Nat
    BY SMTT(30), NumbersAssumption DEF Sound, TypeOK
<1>2. relayed' = relayed \/ relayed' = relayed + 1
    BY DEF Next, vars, CreateRoom, JoinRoom, OpenEvents, LoseStream, CloseStream, RequestArrives,
           RelaySignal, RejectSignal, Leave, Purge, Tick
<1> QED BY <1>1, <1>2

LEMMA OldStays ==
    ASSUME NEW q \in Seq(PageEvent), NEW m \in Nat, NEW k \in Nat, m <= k, Old(q, m)
    PROVE  Old(q, k)
<1> SUFFICES ASSUME NEW i \in 1..Len(q), q[i].event = "signal" PROVE q[i].n <= k
    BY DEF Old
<1>1. q[i] \in PageEvent
    BY LenProperties
<1>2. q[i].n \in Int /\ q[i].n <= m
    BY <1>1, NumbersAssumption DEF PageEvent, Old
<1> QED BY <1>2

\* A step of the relay that leaves the pages' connections alone and writes event to
\* the pages in told.
LEMMA WritingKeeps ==
    ASSUME PagesInv, [Next]_vars, NEW told, NEW event, told = {} \/ event \in Plain,
           Write(told, event), UNCHANGED <<pc, sig, remote>>,
           \/ event \notin HostEvents
           \/ Cardinality(Housed) < Cardinality(Housed')
           \/ Cardinality(Used) < Cardinality(Used'),
           outbox' \in [Peers -> SUBSET Message], failed' \in BOOLEAN,
           content' \in [1..MaxSignals -> Message \cup {NoSignal}]
    PROVE  PagesInv'
<1>1. RelayInv /\ RelayInv'
    BY RelayKept DEF PagesInv
<1>2. Counted'
    BY <1>1, WritingCounts
<1>3. ASSUME NEW p \in Peers PROVE inbox'[p] \in Seq(PageEvent) /\ Old(inbox'[p], relayed')
    <2>1. /\ inbox \in [Peers -> Seq(PageEvent)] /\ got[p] \in Seq(Signal) /\ got'[p] \in Seq(Signal)
          /\ inbox[p] \in Seq(PageEvent)
        BY <1>1 DEF PagesInv, PageTypes, RelayInv, Sound, TypeOK
    <2>2. Len(got[p]) <= Len(got'[p])
        BY <1>1, GotGrows DEF RelayInv
    <2>3. /\ inbox'[p] \in Seq(PageEvent)
          /\ \A m : Old(inbox[p], m) /\ (\A i \in 1..Len(got'[p]) : got'[p][i].n <= m) => Old(inbox'[p], m)
        BY <2>1, <2>2, Written
    <2>4. relayed \in Nat /\ relayed' \in Nat /\ relayed <= relayed'
        BY <1>1, RelayedGrows DEF RelayInv
    <2>5. Old(inbox[p], relayed')
        BY <2>1, <2>4, OldStays DEF PagesInv, InboxesAreOld
    <2>6. \A i \in 1..Len(got'[p]) : got'[p][i].n <= relayed'
        BY <1>1 DEF RelayInv, InOrder, GotAreOld
    <2> QED BY <2>3, <2>5, <2>6
<1>4. PageTypes'
    <2>1. inbox' \in [Peers -> Seq(PageEvent)]
        BY <1>3 DEF Write
    <2> QED BY <2>1 DEF PagesInv, PageTypes, PageEvent, Message, MaxPc, NoSignal
<1>5. NoneYet' /\ InboxesAreOld'
    BY <1>3 DEF PagesInv, NoneYet, InboxesAreOld
<1> QED BY <1>1, <1>2, <1>4, <1>5 DEF PagesInv

LEMMA SilenceKeeps ==
    ASSUME PagesInv, [Next]_vars, UNCHANGED <<inbox, pc, sig, remote>>,
           outbox' \in [Peers -> SUBSET Message], failed' \in BOOLEAN, content' = content
    PROVE  PagesInv'
<1>1. RelayInv /\ RelayInv'
    BY RelayKept DEF PagesInv
<1>2. Counted'
    BY <1>1, SilenceCounts
<1>3. relayed \in Nat /\ relayed' \in Nat /\ relayed <= relayed'
    BY <1>1, RelayedGrows DEF RelayInv
<1>4. ASSUME NEW p \in Peers PROVE Old(inbox[p], relayed')
    BY <1>3, OldStays DEF PagesInv, PageTypes, InboxesAreOld
<1>5. PageTypes'
    BY DEF PagesInv, PageTypes, PageEvent, Message, MaxPc, NoSignal
<1>6. NoneYet' /\ InboxesAreOld'
    BY <1>4 DEF PagesInv, NoneYet, InboxesAreOld
<1> QED BY <1>1, <1>2, <1>5, <1>6 DEF PagesInv

\* Somebody who comes, and a stream that is opened, are one more.
LEMMA OneMore ==
    ASSUME Sound
    PROVE  /\ \A code \in Codes, p \in Peers : JoinRoom(code, p) => Cardinality(Housed) < Cardinality(Housed')
           /\ \A c \in Conns, p \in Peers : OpenEvents(c, p) => Cardinality(Used) < Cardinality(Used')
<1>1. /\ IsFiniteSet(Housed) /\ IsFiniteSet(Used)
      /\ Cardinality(Housed) \in Nat /\ Cardinality(Used) \in Nat
    BY Sizes
<1>2. ASSUME NEW code \in Codes, NEW p \in Peers, JoinRoom(code, p)
      PROVE  Cardinality(Housed) < Cardinality(Housed')
    <2>1. home[p] = NoRoom /\ rooms[code] # NoRoom /\ home' = [home EXCEPT ![p] = rooms[code]]
        BY <1>2 DEF JoinRoom
    <2>2. Housed' = Housed \cup {p} /\ p \notin Housed
        BY <2>1 DEF Housed, Sound, TypeOK
    <2>3. Cardinality(Housed \cup {p}) = Cardinality(Housed) + 1
        BY <1>1, <2>2, FS_AddElement
    <2> QED BY <1>1, <2>2, <2>3
<1>3. ASSUME NEW c \in Conns, NEW p \in Peers, OpenEvents(c, p) PROVE Cardinality(Used) < Cardinality(Used')
    <2>1. wire[c] = "unused" /\ wire' = [wire EXCEPT ![c] = "open"]
        BY <1>3 DEF OpenEvents
    <2>2. Used' = Used \cup {c} /\ c \notin Used
        BY <2>1 DEF Used, Sound, TypeOK
    <2>3. Cardinality(Used \cup {c}) = Cardinality(Used) + 1
        BY <1>1, <2>2, FS_AddElement
    <2> QED BY <1>1, <2>2, <2>3
<1> QED BY <1>2, <1>3

LEMMA GoodbyeKeeps ==
    ASSUME PagesInv, [Next]_vars, NEW p \in Peers, Goodbye(p)
    PROVE  PagesInv'
<1>1. RelayInv /\ RelayInv'
    BY RelayKept DEF PagesInv
<1>2. /\ inbox' = [inbox EXCEPT ![p] = <<>>] /\ sig' = [sig EXCEPT ![p] = "gone"]
      /\ UNCHANGED <<outbox, content, pc, remote, failed>>
    BY DEF Goodbye
<1>3. PICK q \in Seq(PageEvent) : q = <<>> /\ Urges(q) = 0 /\ Old(q, relayed')
    BY NothingSaid
<1>4. /\ inbox' = [inbox EXCEPT ![p] = q]
      /\ \A r \in Peers : inbox'[r] = IF r = p THEN q ELSE inbox[r]
    BY <1>2, <1>3 DEF PagesInv, PageTypes
<1>5. ASSUME NEW r \in Peers
      PROVE  pc'[r] + Urges(inbox'[r]) <= Budget(r)' /\ Old(inbox'[r], relayed')
    <2>1. /\ inbox[r] \in Seq(PageEvent) /\ pc[r] \in Nat /\ Old(inbox[r], relayed)
          /\ pc[r] + Urges(inbox[r]) <= Budget(r)
        BY DEF PagesInv, PageTypes, Counted, InboxesAreOld
    <2>2. Budget(r) \in Nat /\ Budget(r)' \in Nat /\ Budget(r) <= Budget(r)'
        BY <1>1, BudgetGrows
    <2>3. Urges(inbox'[r]) \in Nat /\ Urges(inbox[r]) \in Nat /\ Urges(inbox'[r]) <= Urges(inbox[r])
        BY <1>3, <1>4, <2>1, UrgesAreFew
    <2>4. relayed \in Nat /\ relayed' \in Nat /\ relayed <= relayed'
        BY <1>1, RelayedGrows DEF RelayInv
    <2>5. Old(inbox'[r], relayed')
        BY <1>3, <1>4, <2>1, <2>4, OldStays
    <2>6. pc'[r] = pc[r]
        BY <1>2
    <2> QED BY <2>1, <2>2, <2>3, <2>5, <2>6
<1>6. PageTypes'
    BY <1>2, <1>4 DEF PagesInv, PageTypes, PageEvent, Message, MaxPc, NoSignal
<1>7. NoneYet'
    BY <1>2 DEF PagesInv, PageTypes, NoneYet
<1> QED BY <1>1, <1>5, <1>6, <1>7 DEF PagesInv, Counted, InboxesAreOld

LEMMA PagesKept ==
    ASSUME PagesInv, [Next]_vars, [HandshakeNext]_hsVars
    PROVE  PagesInv'
<1>0. /\ outbox \in [Peers -> SUBSET Message] /\ failed \in BOOLEAN
      /\ content \in [1..MaxSignals -> Message \cup {NoSignal}]
      /\ Sound
    BY DEF PagesInv, PageTypes, RelayInv
<1>1. ASSUME NEW r \in Rooms, NEW code \in Codes, NEW p \in Peers, Create(r, code, p) PROVE PagesInv'
    BY <1>0, <1>1, SilenceKeeps DEF Create, pageVars
<1>2. ASSUME NEW code \in Codes, NEW p \in Peers, Join(code, p) PROVE PagesInv'
    <2> DEFINE told == Reached(ToSet(members[rooms[code]]))
    <2>1. /\ Write(told, "peer-joined") /\ UNCHANGED <<outbox, content, pc, sig, remote, failed>>
          /\ Cardinality(Housed) < Cardinality(Housed') /\ "peer-joined" \in Plain
        BY <1>0, <1>2, OneMore DEF Join, Plain
    <2> HIDE DEF told
    <2> QED BY <1>0, <2>1, WritingKeeps
<1>3. ASSUME NEW c \in Conns, NEW p \in Peers, Open(c, p) PROVE PagesInv'
    <2> DEFINE told == Told(home[p], p)
    <2>1. /\ Write(told, "peers-connected") /\ UNCHANGED <<outbox, content, pc, sig, remote, failed>>
          /\ Cardinality(Used) < Cardinality(Used') /\ "peers-connected" \in Plain
        BY <1>0, <1>3, OneMore DEF Open, Plain
    <2> HIDE DEF told
    <2> QED BY <1>0, <2>1, WritingKeeps
<1>4. ASSUME NEW c \in Conns, Lose(c) PROVE PagesInv'
    BY <1>0, <1>4, SilenceKeeps DEF Lose, pageVars
<1>5. ASSUME NEW c \in Conns, Close(c) PROVE PagesInv'
    <2> DEFINE told == Reached(ToSet(Others(home[owner[c]], owner[c])))
    <2>1. /\ Write(told, "peer-left") /\ UNCHANGED <<outbox, content, pc, sig, remote, failed>>
          /\ "peer-left" \notin HostEvents /\ "peer-left" \in Plain
        BY <1>5 DEF Close, Plain, HostEvents
    <2> HIDE DEF told
    <2> QED BY <1>0, <2>1, WritingKeeps
<1>6. ASSUME NEW p \in Peers, Arrive(p) PROVE PagesInv'
    BY <1>0, <1>6, SilenceKeeps DEF Arrive, pageVars
<1>7. ASSUME NEW req \in pending, NEW m \in outbox[req.peer], Relay(req, m) PROVE PagesInv'
    <2>1. /\ Write({}, "signal") /\ UNCHANGED <<pc, sig, remote, failed>> /\ "signal" \notin HostEvents
          /\ outbox' = [outbox EXCEPT ![req.peer] = @ \ {m}] /\ content' = [content EXCEPT ![relayed'] = m]
        BY <1>7 DEF Relay, HostEvents
    <2>2. req.peer \in Peers /\ m \in Message
        BY <1>0 DEF Sound, TypeOK, Request
    <2>3. outbox' \in [Peers -> SUBSET Message] /\ content' \in [1..MaxSignals -> Message \cup {NoSignal}]
        BY <1>0, <2>1, <2>2
    <2> QED BY <1>0, <2>1, <2>3, WritingKeeps
<1>8. ASSUME NEW p \in Peers, NEW m \in outbox[p],
             \/ Refused(p, m)
             \/ \E req \in pending : req.peer = p /\ Fail(req, m)
      PROVE  PagesInv'
    <2>1. /\ outbox' = [outbox EXCEPT ![p] = @ \ {m}] /\ failed' = TRUE
          /\ UNCHANGED <<inbox, content, pc, sig, remote>>
        BY <1>8 DEF Refused, Fail
    <2>2. outbox' \in [Peers -> SUBSET Message]
        BY <1>0, <2>1
    <2> QED BY <2>1, <2>2, SilenceKeeps
<1>9. ASSUME NEW req \in pending, NEW readable \in BOOLEAN, Left(req, readable) PROVE PagesInv'
    <2> DEFINE told == IF readable /\ In(req.room, req.peer)
                       THEN Reached(ToSet(Others(req.room, req.peer))) ELSE {}
    <2>1. /\ Write(told, "peer-left") /\ UNCHANGED <<outbox, content, pc, sig, remote, failed>>
          /\ "peer-left" \notin HostEvents /\ "peer-left" \in Plain
        BY <1>9 DEF Left, Plain, HostEvents
    <2> HIDE DEF told
    <2> QED BY <1>0, <2>1, WritingKeeps
<1>10. CASE Expire
    <2> DEFINE told == Reached({p \in Peers : \E r \in Stale : In(r, p)})
    <2>1. /\ Write(told, "room-expired") /\ UNCHANGED <<outbox, content, pc, sig, remote, failed>>
          /\ "room-expired" \notin HostEvents /\ "room-expired" \in Plain
        BY <1>10 DEF Expire, Plain, HostEvents
    <2> HIDE DEF told
    <2> QED BY <1>0, <2>1, WritingKeeps
<1>11. CASE HandshakeTick
    BY <1>0, <1>11, SilenceKeeps DEF HandshakeTick, pageVars
<1>12. CASE UNCHANGED hsVars
    BY <1>0, <1>12, SilenceKeeps DEF hsVars, pageVars
<1>13. ASSUME NEW req \in pending, NEW m \in outbox[req.peer], Fail(req, m) PROVE PagesInv'
    <2>1. req.peer \in Peers
        BY <1>0 DEF Sound, TypeOK, Request
    <2> QED BY <1>8, <1>13, <2>1
<1> QED BY <1>1, <1>2, <1>3, <1>4, <1>5, <1>6, <1>7, <1>8, <1>9, <1>10, <1>11, <1>12, <1>13,
           GoodbyeKeeps, PageKeepsInv DEF HandshakeNext

LEMMA PagesHold == HandshakeSpec => []PagesInv
<1>1. HandshakeInit /\ RelayInv => PagesInv
    <2> SUFFICES ASSUME HandshakeInit, RelayInv PROVE PagesInv
        OBVIOUS
    <2>1. PageTypes
        <3>1. MaxSignals \in Nat /\ MaxPc \in Nat
            BY Sizes, NumbersAssumption DEF MaxPc
        <3>2. PICK none \in Seq(PageEvent) : none = <<>>
            BY NothingSaid
        <3>3. inbox \in [Peers -> Seq(PageEvent)]
            BY <3>2 DEF HandshakeInit
        <3>4. outbox \in [Peers -> SUBSET Message]
            BY DEF HandshakeInit
        <3>5. content \in [1..MaxSignals -> Message \cup {NoSignal}]
            BY DEF HandshakeInit
        <3>0. 0 \in 0..MaxPc /\ 0 \in Nat
            BY <3>1
        <3> HIDE DEF MaxPc
        <3>6. pc \in [Peers -> Nat] /\ remote \in [Peers -> 0..MaxPc]
            BY <3>0 DEF HandshakeInit
        <3>8. failed \in BOOLEAN
            BY DEF HandshakeInit
        <3>7. sig \in [Peers -> Doing]
            BY DEF HandshakeInit, Doing
        <3> QED BY <3>3, <3>4, <3>5, <3>6, <3>7, <3>8 DEF PageTypes, Doing
    <2>2. Counted
        <3> SUFFICES ASSUME NEW p \in Peers PROVE pc[p] + Urges(inbox[p]) <= Budget(p)
            BY DEF Counted
        <3>1. pc[p] = 0 /\ inbox[p] = <<>>
            BY DEF HandshakeInit
        <3>2. Urges(inbox[p]) = 0
            BY <3>1, NothingSaid
        <3> QED BY <3>1, <3>2, BudgetIsFinite
    <2>3. NoneYet /\ InboxesAreOld
        BY NothingSaid DEF HandshakeInit, NoneYet, InboxesAreOld
    <2> QED BY <2>1, <2>2, <2>3 DEF PagesInv
<1>2. PagesInv /\ [Next]_vars /\ [HandshakeNext]_hsVars => PagesInv'
    BY PagesKept
<1> QED BY <1>1, <1>2, RelayHolds, PagesUseTheRelay, PTL DEF HandshakeSpec, Spec

\* The pages' events, messages and connections keep their types, and a page makes no
\* more connections than there are offers to answer, peers that join and streams
\* that are opened (p2p-client.js:225-360).
THEOREM HandshakeTypes == HandshakeSpec => []HandshakeTypeOK
<1>1. PagesInv => HandshakeTypeOK
    <2> SUFFICES ASSUME PagesInv PROVE HandshakeTypeOK
        OBVIOUS
    <2>1. \A p \in Peers : pc[p] \in 0..MaxPc
        BY NumbersFit
    <2>2. pc \in [Peers -> 0..MaxPc]
        BY <2>1 DEF PagesInv, PageTypes
    <2> QED BY <2>2 DEF PagesInv, PageTypes, RelayInv, Sound, HandshakeTypeOK
<1> QED BY <1>1, PagesHold, PTL

-----------------------------------------------------------------------------
(* One offer is enough.  The argument is about the time in which nothing    *)
(* has gone wrong yet: no stream was lost and no POST failed.  What was      *)
(* given a code keeps it: a room that is unregistered by the last goodbye to *)
(* an earlier room of its code would be out of its peers' reach.             *)

Calm == ~failed /\ \A c \in Conns : wire[c] \in {"unused", "open"}

\* No code is given to two rooms.
CodesAreFresh == \A r, s \in Rooms : codeOf[r] = codeOf[s] /\ codeOf[r] # NoCode => r = s

\* A code is one of its room; each room has one host; requests are for the room of
\* who makes them.
RoomsKnown ==
    /\ \A code \in Codes : rooms[code] # NoRoom => codeOf[rooms[code]] = code
    /\ \A p \in Peers : role[p] = "host" => home[p] # NoRoom
    /\ \A p, q \in Peers : role[p] = "host" /\ role[q] = "host" /\ home[p] = home[q] => p = q
    /\ \A r \in Rooms : codeOf[r] # NoCode => \E h \in Peers : role[h] = "host" /\ home[h] = r
    /\ \A r \in Rooms : codeOf[r] = NoCode => Len(queued[r]) = 0
    /\ \A req \in pending : req.room = home[req.peer]

Seated ==
    \A p \in Peers : stream[p] # NoConn => sig[p] # "gone" /\ In(home[p], p) /\ RoomAt(p) = home[p]
Active == \A p \in Peers : pc[p] # 0 \/ outbox[p] # {} \/ inbox[p] # <<>> => stream[p] # NoConn
NoneExpired == \A p \in Peers : ~Brings(inbox[p], {"room-expired"})
LeaversGone == \A req \in pending : req.kind = "leave" => sig[req.peer] = "gone"

Unasked(p) == pc[p] = 0 /\ outbox[p] = {} /\ NoSignals(inbox[p])
Asked(p) == pc[p] = 1 /\ remote[p] = 1 /\ NoSignals(inbox[p])

\* Nothing is said in a room before its host has made an offer.
HostFirst ==
    \A h, q \in Peers : role[h] = "host" /\ home[q] = home[h] /\ pc[h] = 0 =>
        Unasked(q) /\ Len(queued[home[h]]) = 0

\* Nobody leaves a joiner whose host is there.
JoinersStay ==
    \A h, j \in Peers : role[h] = "host" /\ role[j] # "host" /\ home[j] = home[h] /\ In(home[h], h) =>
        ~Brings(inbox[j], {"peer-left"}) /\ sig[j] # "closed"

Pair(h, j) ==
    /\ role[h] = "host" /\ h # j /\ home[j] = home[h]
    /\ In(home[h], h) /\ In(home[h], j) /\ stream[h] # NoConn /\ stream[j] # NoConn

Offer1 == [type |-> "offer", pc |-> 1]
Answer1 == [type |-> "answer", pc |-> 1]

\* How far the handshake of the first offer is.
Offering(h, j) == sig[h] = "offering" /\ outbox[h] = {} /\ NoSignals(inbox[h]) /\ Unasked(j)
Offered(h, j) == sig[h] = "local" /\ outbox[h] = {Offer1} /\ NoSignals(inbox[h]) /\ Unasked(j)
Received(h, j) ==
    /\ sig[h] = "local" /\ outbox[h] = {} /\ NoSignals(inbox[h]) /\ pc[j] = 0 /\ outbox[j] = {}
    /\ \E n \in 1..MaxSignals : OnlySignal(inbox[j], n) /\ content[n] = Offer1
Answering(h, j) ==
    sig[h] = "local" /\ outbox[h] = {} /\ NoSignals(inbox[h]) /\ Asked(j) /\ sig[j] = "answering" /\ outbox[j] = {}
Answered(h, j) ==
    sig[h] = "local" /\ outbox[h] = {} /\ NoSignals(inbox[h]) /\ Asked(j) /\ sig[j] = "stable" /\ outbox[j] = {Answer1}
Returned(h, j) ==
    /\ sig[h] = "local" /\ outbox[h] = {} /\ Asked(j) /\ sig[j] = "stable" /\ outbox[j] = {}
    /\ \E n \in 1..MaxSignals : OnlySignal(inbox[h], n) /\ content[n] = Answer1
Connected(h, j) ==
    /\ sig[h] = "stable" /\ remote[h] = 1 /\ outbox[h] = {} /\ NoSignals(inbox[h])
    /\ Asked(j) /\ sig[j] = "stable" /\ outbox[j] = {}

Stage(h, j) ==
    \/ Offering(h, j) \/ Offered(h, j) \/ Received(h, j) \/ Answering(h, j)
    \/ Answered(h, j) \/ Returned(h, j) \/ Connected(h, j)

UnderWay(h, j) == Pair(h, j) /\ pc[h] = 1 /\ ~Brings(inbox[h], HostEvents) /\ sig[h] # "closed"
Staged == \A h, j \in Peers : UnderWay(h, j) => Stage(h, j)

CalmInv == Seated /\ Active /\ NoneExpired /\ LeaversGone /\ HostFirst /\ JoinersStay /\ Staged

OfferInv == PagesInv /\ CodesAreFresh /\ RoomsKnown /\ (Calm => CalmInv)

LEMMA MembersFew ==
    ASSUME Sound, NEW r \in Rooms
    PROVE  /\ \A p \in Peers : In(r, p) => home[p] = r
           /\ \A p, q \in Peers : In(r, p) /\ In(r, q) /\ p # q =>
                /\ Len(members[r]) = 2 /\ p \in ToSet(members[r])
                /\ \A x \in Peers : In(r, x) => x \in {p, q}
<1>1. /\ members[r] \in Seq(Peers) /\ Len(members[r]) \in Nat /\ DOMAIN members[r] = 1..Len(members[r])
      /\ Len(members[r]) <= 2
    BY LenProperties DEF Sound, TypeOK, MembersAreHome, LineOf
<1>2. \A p \in Peers : In(r, p) => home[p] = r
    BY <1>1 DEF In, Sound, MembersAreHome
<1>3. ASSUME NEW p \in Peers, NEW q \in Peers, In(r, p), In(r, q), p # q
      PROVE  /\ Len(members[r]) = 2 /\ p \in ToSet(members[r])
             /\ \A x \in Peers : In(r, x) => x \in {p, q}
    <2>1. PICK i \in 1..Len(members[r]) : members[r][i] = p
        BY <1>1, <1>3 DEF In
    <2>2. PICK k \in 1..Len(members[r]) : members[r][k] = q
        BY <1>1, <1>3 DEF In
    <2>3. i # k
        BY <1>3, <2>1, <2>2
    <2> DEFINE n == Len(members[r])
    <2>a. n \in Nat /\ n <= 2 /\ i \in 1..n /\ k \in 1..n /\ i # k
        BY <1>1, <2>1, <2>2, <2>3
    <2>4. Len(members[r]) = 2
        <3> HIDE DEF n
        <3>1. n = 2
            BY <2>a
        <3> QED BY <3>1 DEF n
    <2>5. ASSUME NEW x \in Peers, In(r, x) PROVE x \in {p, q}
        <3>1. PICK l \in 1..Len(members[r]) : members[r][l] = x
            BY <1>1, <2>5 DEF In
        <3>2. l = i \/ l = k
            BY <2>1, <2>2, <2>3, <2>4, <3>1
        <3> QED BY <2>1, <2>2, <3>1, <3>2
    <2>6. p \in ToSet(members[r])
        BY <1>1, <2>1 DEF ToSet
    <2> QED BY <2>4, <2>5, <2>6
<1> QED BY <1>2, <1>3

\* While it is calm, who has a stream is reached.
LEMMA CalmReaches ==
    ASSUME Sound, Calm, NEW p \in Peers, stream[p] # NoConn
    PROVE  /\ Reaches(p) /\ stream[p] \in Conns /\ owner[stream[p]] = p /\ wire[stream[p]] = "open"
           /\ home[p] \in Rooms /\ home[p] # NoRoom /\ codeOf[home[p]] # NoCode
<1>1. stream[p] \in Conns /\ owner[stream[p]] = p /\ wire[stream[p]] \in {"open", "lost", "ended"}
    BY DEF Sound, TypeOK, StreamsAreTheirs
<1>2. wire[stream[p]] = "open"
    BY <1>1 DEF Calm
<1>3. home[p] # NoRoom /\ home[p] \in Rooms /\ codeOf[home[p]] # NoCode
    BY DEF Sound, TypeOK, HomesHaveCodes
<1> QED BY <1>1, <1>2, <1>3 DEF Reaches

\* What has gone wrong stays so.
LEMMA WasCalm ==
    ASSUME Sound, [Next]_vars, [HandshakeNext]_hsVars, Calm'
    PROVE  Calm
<1>1. \A c \in Conns : wire[c] \notin {"unused", "open"} => wire'[c] \notin {"unused", "open"}
    <2>1. ASSUME NEW c \in Conns, NEW p \in Peers, OpenEvents(c, p)
          PROVE  \A d \in Conns : wire[d] \notin {"unused", "open"} => wire'[d] \notin {"unused", "open"}
        BY <2>1 DEF Sound, TypeOK, OpenEvents
    <2>2. ASSUME NEW c \in Conns, LoseStream(c) \/ CloseStream(c)
          PROVE  \A d \in Conns : wire[d] \notin {"unused", "open"} => wire'[d] \notin {"unused", "open"}
        BY <2>2 DEF Sound, TypeOK, LoseStream, CloseStream
    <2>3. ASSUME NEW kind \in {"signal", "leave"}, NEW p \in Peers, RequestArrives(kind, p)
          PROVE  \A d \in Conns : wire[d] \notin {"unused", "open"} => wire'[d] \notin {"unused", "open"}
        BY <2>3 DEF RequestArrives, Closing
    <2>4. CASE Purge
        BY <2>4 DEF Purge
    <2>5. CASE UNCHANGED wire
        BY SMTT(30), <2>5
    <2> QED BY <2>1, <2>2, <2>3, <2>4, <2>5
            DEF Next, vars, CreateRoom, JoinRoom, RelaySignal, RejectSignal, Leave, Tick
<1>2. failed => failed'
    BY DEF HandshakeNext, Create, Join, Open, Lose, Close, Arrive, Relay, Fail, Refused, Goodbye, Left,
           Expire, HandshakeTick, PageStep, HandlePeer, HandlePeerLeft, HandleExpired, OfferReady,
           HandleOffer, AnswerReady, HandleAnswer, Handle, hsVars, pageVars
<1> QED BY <1>1, <1>2 DEF Calm

\* A request finds its peer's own room or none.
LEMMA RoomIsHome ==
    ASSUME Sound, CodesAreFresh, RoomsKnown, NEW p \in Peers, home[p] # NoRoom, RoomAt(p) # NoRoom
    PROVE  RoomAt(p) = home[p]
<1>1. home[p] \in Rooms /\ codeOf[home[p]] \in Codes /\ RoomAt(p) \in Rooms
    BY RoomsFound DEF Sound
<1>2. codeOf[RoomAt(p)] = codeOf[home[p]]
    BY <1>1 DEF RoomAt, RoomsKnown
<1>3. codeOf[home[p]] # NoCode
    BY DEF Sound, HomesHaveCodes
<1> QED BY <1>1, <1>2, <1>3 DEF CodesAreFresh

LEMMA RequestsKnown ==
    ASSUME Sound, CodesAreFresh, RoomsKnown, [Next]_vars
    PROVE  \A req \in pending' : req.room = home'[req.peer]
<1>1. ASSUME NEW req \in pending PROVE req.room = home'[req.peer]
    <2>1. req.peer \in Peers /\ req.room \in Rooms /\ req.room = home[req.peer]
        BY DEF Sound, TypeOK, Request, RoomsKnown
    <2>2. home[req.peer] # NoRoom
        BY <2>1, MarkersAssumption
    <2> QED BY <2>1, <2>2, HomesStay DEF Sound
<1>2. ASSUME NEW p \in Peers, NEW kind \in {"signal", "leave"}, RequestArrives(kind, p)
      PROVE  \A req \in pending' : req.room = home'[req.peer]
    <2>1. RoomAt(p) = home[p] /\ home' = home
        BY <1>2, RoomIsHome DEF RequestArrives
    <2>2. pending' = pending \cup {[kind |-> kind, room |-> RoomAt(p), peer |-> p]}
        BY SMTT(30), <1>2 DEF RequestArrives
    <2> QED BY <1>1, <2>1, <2>2
<1>3. \/ \E p \in Peers, kind \in {"signal", "leave"} : RequestArrives(kind, p)
      \/ pending' \subseteq pending
    BY DEF Next, vars, CreateRoom, JoinRoom, OpenEvents, LoseStream, CloseStream, RelaySignal, RejectSignal,
           Leave, Purge, Tick
<1> QED BY <1>1, <1>2, <1>3

LEMMA UnusedEmpty ==
    ASSUME Sound, RoomsKnown, [Next]_vars
    PROVE  \A r \in Rooms : codeOf'[r] = NoCode => Len(queued'[r]) = 0
<1> SUFFICES ASSUME NEW r \in Rooms, codeOf'[r] = NoCode PROVE Len(queued'[r]) = 0
    OBVIOUS
<1>1. codeOf[r] = NoCode
    <2>1. ASSUME NEW s \in Rooms, NEW code \in Codes, NEW p \in Peers, CreateRoom(s, code, p)
          PROVE  codeOf[r] = NoCode
        BY <2>1, MarkersAssumption DEF CreateRoom, Sound, TypeOK
    <2>2. CASE UNCHANGED codeOf
        BY <2>2
    <2> QED BY <2>1, <2>2 DEF Next, vars, JoinRoom, OpenEvents, LoseStream, CloseStream, RequestArrives,
                              RelaySignal, RejectSignal, Leave, Purge, Tick
<1>2. Len(queued[r]) = 0
    BY <1>1 DEF RoomsKnown
<1>3. ASSUME NEW c \in Conns, NEW p \in Peers, OpenEvents(c, p) PROVE Len(queued'[r]) = 0
    <2>1. r # home[p]
        BY <1>1, <1>3 DEF OpenEvents, Sound, HomesHaveCodes
    <2> QED BY <1>2, <1>3, <2>1, QueuesOpened DEF Sound
<1>4. ASSUME NEW req \in pending, RelaySignal(req) PROVE Len(queued'[r]) = 0
    <2>1. req.peer \in Peers /\ req.room \in Rooms /\ req.room = home[req.peer]
        BY DEF Sound, TypeOK, Request, RoomsKnown
    <2>2. home[req.peer] # NoRoom
        BY <2>1, MarkersAssumption
    <2>3. r # req.room
        BY <1>1, <2>1, <2>2 DEF Sound, HomesHaveCodes
    <2> QED BY <1>2, <1>4, <2>3, QueuesRelayed DEF Sound
<1> QED BY <1>2, <1>3, <1>4, QueuesStay

LEMMA RoomsKnownKept ==
    ASSUME Sound, CodesAreFresh, RoomsKnown, [Next]_vars
    PROVE  RoomsKnown'
<1>1. ASSUME NEW r \in Rooms, NEW code \in Codes, NEW p \in Peers, CreateRoom(r, code, p)
      PROVE  /\ \A c \in Codes : rooms'[c] # NoRoom => codeOf'[rooms'[c]] = c
             /\ \A q \in Peers : role'[q] = "host" => home'[q] # NoRoom
             /\ \A x, y \in Peers : role'[x] = "host" /\ role'[y] = "host" /\ home'[x] = home'[y] => x = y
             /\ \A s \in Rooms : codeOf'[s] # NoCode => \E h \in Peers : role'[h] = "host" /\ home'[h] = s
    <2>1. /\ rooms' = [rooms EXCEPT ![code] = r] /\ codeOf' = [codeOf EXCEPT ![r] = code]
          /\ role' = [role EXCEPT ![p] = "host"] /\ home' = [home EXCEPT ![p] = r]
          /\ codeOf[r] = NoCode /\ home[p] = NoRoom
        BY <1>1 DEF CreateRoom
    <2>2. /\ rooms \in [Codes -> Rooms \cup {NoRoom}] /\ codeOf \in [Rooms -> Codes \cup {NoCode}]
          /\ role \in [Peers -> {"none", "host", "joiner"}] /\ home \in [Peers -> Rooms \cup {NoRoom}]
        BY DEF Sound, TypeOK
    <2>3. \A q \in Peers : home[q] # r
        BY <2>1, MarkersAssumption DEF Sound, HomesHaveCodes
    <2>4. \A c \in Codes : rooms[c] # r
        BY <2>1, MarkersAssumption DEF Sound, HomesHaveCodes
    <2>5. \A c \in Codes : rooms'[c] # NoRoom => codeOf'[rooms'[c]] = c
        BY <2>1, <2>2, <2>4 DEF RoomsKnown
    <2>6. \A q \in Peers : role'[q] = "host" => home'[q] # NoRoom
        BY <2>1, <2>2, MarkersAssumption DEF RoomsKnown
    <2>7. \A x, y \in Peers : role'[x] = "host" /\ role'[y] = "host" /\ home'[x] = home'[y] => x = y
        BY <2>1, <2>2, <2>3 DEF RoomsKnown
    <2>8. ASSUME NEW s \in Rooms, codeOf'[s] # NoCode
          PROVE  \E h \in Peers : role'[h] = "host" /\ home'[h] = s
        <3>1. CASE s = r
            BY <2>1, <2>2, <3>1
        <3>2. CASE s # r
            <4>1. PICK h \in Peers : role[h] = "host" /\ home[h] = s
                BY <2>1, <2>2, <2>8, <3>2 DEF RoomsKnown
            <4>2. h # p
                BY <2>1, <4>1, MarkersAssumption
            <4> QED BY <2>1, <2>2, <4>1, <4>2
        <3> QED BY <3>1, <3>2
    <2> QED BY <2>5, <2>6, <2>7, <2>8
<1>2. ASSUME NEW code \in Codes, NEW p \in Peers, JoinRoom(code, p)
      PROVE  /\ \A c \in Codes : rooms'[c] # NoRoom => codeOf'[rooms'[c]] = c
             /\ \A q \in Peers : role'[q] = "host" => home'[q] # NoRoom
             /\ \A x, y \in Peers : role'[x] = "host" /\ role'[y] = "host" /\ home'[x] = home'[y] => x = y
             /\ \A s \in Rooms : codeOf'[s] # NoCode => \E h \in Peers : role'[h] = "host" /\ home'[h] = s
    <2>1. /\ rooms' = rooms /\ codeOf' = codeOf
          /\ role' = [role EXCEPT ![p] = "joiner"] /\ home' = [home EXCEPT ![p] = rooms[code]]
          /\ rooms[code] # NoRoom /\ home[p] = NoRoom
        BY <1>2 DEF JoinRoom
    <2>2. role \in [Peers -> {"none", "host", "joiner"}] /\ home \in [Peers -> Rooms \cup {NoRoom}]
        BY DEF Sound, TypeOK
    <2>3. \A q \in Peers : role'[q] = "host" => q # p /\ role[q] = "host" /\ home'[q] = home[q]
        BY <2>1, <2>2
    <2>4. ASSUME NEW s \in Rooms, codeOf'[s] # NoCode
          PROVE  \E h \in Peers : role'[h] = "host" /\ home'[h] = s
        <3>1. PICK h \in Peers : role[h] = "host" /\ home[h] = s
            BY <2>1, <2>4 DEF RoomsKnown
        <3>2. h # p
            BY <2>1, <3>1, MarkersAssumption
        <3> QED BY <2>1, <2>2, <3>1, <3>2
    <2> QED BY <2>1, <2>3, <2>4 DEF RoomsKnown
<1>3. ASSUME UNCHANGED <<codeOf, role, home>>, \A c \in Codes : rooms'[c] \in {rooms[c], NoRoom}
      PROVE  /\ \A c \in Codes : rooms'[c] # NoRoom => codeOf'[rooms'[c]] = c
             /\ \A q \in Peers : role'[q] = "host" => home'[q] # NoRoom
             /\ \A x, y \in Peers : role'[x] = "host" /\ role'[y] = "host" /\ home'[x] = home'[y] => x = y
             /\ \A s \in Rooms : codeOf'[s] # NoCode => \E h \in Peers : role'[h] = "host" /\ home'[h] = s
    <2>1. \A c \in Codes : rooms'[c] # NoRoom => rooms'[c] = rooms[c]
        BY <1>3
    <2> QED BY <1>3, <2>1 DEF RoomsKnown
<1>4. \/ \E r \in Rooms, code \in Codes, p \in Peers : CreateRoom(r, code, p)
      \/ \E code \in Codes, p \in Peers : JoinRoom(code, p)
      \/ UNCHANGED <<codeOf, role, home>> /\ \A c \in Codes : rooms'[c] \in {rooms[c], NoRoom}
    <2>1. rooms \in [Codes -> Rooms \cup {NoRoom}]
        BY DEF Sound, TypeOK
    <2>2. \A code : Unregister(code) => \A c \in Codes : rooms'[c] \in {rooms[c], NoRoom}
        BY <2>1 DEF Unregister
    <2>3. ASSUME NEW c \in Conns, CloseStream(c) PROVE UNCHANGED rooms \/ \E code : Unregister(code)
        BY <2>3 DEF CloseStream
    <2>4. ASSUME NEW req \in pending, NEW readable \in BOOLEAN, Leave(req, readable)
          PROVE  UNCHANGED rooms \/ \E code : Unregister(code)
        BY <2>4 DEF Leave
    <2>5. UNCHANGED rooms => \A c \in Codes : rooms'[c] \in {rooms[c], NoRoom}
        OBVIOUS
    <2>6. ASSUME Purge PROVE \A c \in Codes : rooms'[c] \in {rooms[c], NoRoom}
        BY <2>6 DEF Purge
    <2>7. ASSUME NEW c \in Conns, CloseStream(c) \/ LoseStream(c)
          PROVE UNCHANGED <<codeOf, role, home>> /\ \A d \in Codes : rooms'[d] \in {rooms[d], NoRoom}
        BY <2>2, <2>3, <2>5, <2>7 DEF CloseStream, LoseStream
    <2>8. ASSUME NEW req \in pending, NEW readable \in BOOLEAN, Leave(req, readable)
          PROVE UNCHANGED <<codeOf, role, home>> /\ \A d \in Codes : rooms'[d] \in {rooms[d], NoRoom}
        BY <2>2, <2>4, <2>5, <2>8 DEF Leave
    <2>9. ASSUME Purge
          PROVE UNCHANGED <<codeOf, role, home>> /\ \A d \in Codes : rooms'[d] \in {rooms[d], NoRoom}
        BY <2>6, <2>9 DEF Purge
    <2> QED BY <2>5, <2>7, <2>8, <2>9
            DEF Next, vars, OpenEvents, RequestArrives, RelaySignal, RejectSignal, Tick
<1>5. /\ \A c \in Codes : rooms'[c] # NoRoom => codeOf'[rooms'[c]] = c
      /\ \A q \in Peers : role'[q] = "host" => home'[q] # NoRoom
      /\ \A x, y \in Peers : role'[x] = "host" /\ role'[y] = "host" /\ home'[x] = home'[y] => x = y
      /\ \A s \in Rooms : codeOf'[s] # NoCode => \E h \in Peers : role'[h] = "host" /\ home'[h] = s
    BY <1>1, <1>2, <1>3, <1>4
<1> QED BY <1>5, RequestsKnown, UnusedEmpty DEF RoomsKnown

\* A calm step: what holds before and after it, but for the calm of the pages after it.
Smooth ==
    /\ PagesInv /\ PagesInv' /\ [Next]_vars /\ Calm /\ Calm'
    /\ CodesAreFresh /\ RoomsKnown /\ CalmInv

LEMMA SmoothFacts ==
    ASSUME Smooth
    PROVE  /\ Sound /\ Sound' /\ InboxesAreOld /\ PageTypes /\ PageTypes' /\ NoneYet /\ RelayInv
           /\ [Next]_vars /\ Calm /\ Calm' /\ CodesAreFresh /\ RoomsKnown
           /\ Seated /\ Active /\ NoneExpired /\ LeaversGone /\ HostFirst /\ JoinersStay /\ Staged
           /\ \A p \in Peers : got[p] \in Seq(Signal) /\ got'[p] \in Seq(Signal) /\ Len(got[p]) <= Len(got'[p])
           /\ inbox \in [Peers -> Seq(PageEvent)]
           /\ \A p \in Peers : Reaches(p) => stream[p] # NoConn
<1>1. Sound /\ Sound'
    BY DEF Smooth, PagesInv, RelayInv
<1>2. \A p \in Peers : got[p] \in Seq(Signal) /\ got'[p] \in Seq(Signal)
    BY <1>1 DEF Sound, TypeOK
<1>3. \A p \in Peers : Len(got[p]) <= Len(got'[p])
    BY <1>1, GotGrows DEF Smooth
<1> QED BY <1>1, <1>2, <1>3 DEF Smooth, PagesInv, CalmInv, PageTypes, Reaches

\* Who has no stream has done nothing yet.
LEMMA Absent ==
    ASSUME Smooth, NEW p \in Peers, stream[p] = NoConn
    PROVE  /\ pc[p] = 0 /\ outbox[p] = {} /\ inbox[p] = <<>> /\ Len(inbox[p]) = 0
           /\ NoSignals(inbox[p]) /\ \A events : ~Brings(inbox[p], events)
           /\ sig[p] \in {"none", "gone"}
<1>1. pc[p] = 0 /\ outbox[p] = {} /\ inbox[p] = <<>>
    BY SmoothFacts DEF Active
<1> QED BY <1>1, SmoothFacts, NothingSaid DEF NoneYet

LEMMA Newcomer ==
    ASSUME Smooth, NEW p \in Peers, home[p] = NoRoom
    PROVE  stream[p] = NoConn
BY SmoothFacts DEF Sound, HomesHaveCodes

LEMMA Present ==
    ASSUME Smooth, NEW p \in Peers, stream[p] # NoConn
    PROVE  /\ Reaches(p) /\ stream[p] \in Conns /\ owner[stream[p]] = p /\ wire[stream[p]] = "open"
           /\ home[p] \in Rooms /\ home[p] # NoRoom /\ codeOf[home[p]] # NoCode /\ codeOf[home[p]] \in Codes
           /\ sig[p] # "gone" /\ In(home[p], p) /\ RoomAt(p) = home[p]
<1>1. /\ Reaches(p) /\ stream[p] \in Conns /\ owner[stream[p]] = p /\ wire[stream[p]] = "open"
      /\ home[p] \in Rooms /\ home[p] # NoRoom /\ codeOf[home[p]] # NoCode
    BY SmoothFacts, CalmReaches
<1>2. codeOf[home[p]] \in Codes
    BY <1>1, SmoothFacts, RoomsFound DEF Sound
<1>3. sig[p] # "gone" /\ In(home[p], p) /\ RoomAt(p) = home[p]
    BY SmoothFacts DEF Seated
<1> QED BY <1>1, <1>2, <1>3

\* A page keeps the signals it has and gets no other.
SameSignals(p) ==
    /\ NoSignals(inbox[p]) => NoSignals(inbox'[p])
    /\ \A n : OnlySignal(inbox[p], n) => OnlySignal(inbox'[p], n)

LEMMA StageStays ==
    ASSUME InboxesAreOld, NEW h \in Peers, NEW j \in Peers,
           pc'[h] = pc[h], pc'[j] = pc[j], sig'[h] = sig[h], sig'[j] = sig[j],
           remote'[h] = remote[h], remote'[j] = remote[j], outbox'[h] = outbox[h], outbox'[j] = outbox[j],
           SameSignals(h), SameSignals(j),
           \A n \in 1..MaxSignals : n <= relayed => content'[n] = content[n],
           Stage(h, j)
    PROVE  Stage(h, j)'
<1>1. ASSUME NEW n \in 1..MaxSignals, NEW p \in Peers, OnlySignal(inbox[p], n)
      PROVE  OnlySignal(inbox'[p], n) \/ ~SameSignals(p)
    BY <1>1 DEF SameSignals
<1>2. ASSUME NEW n \in 1..MaxSignals, NEW p \in Peers, OnlySignal(inbox[p], n)
      PROVE  content'[n] = content[n]
    BY <1>2 DEF OnlySignal, InboxesAreOld, Old
<1>3. CASE Offering(h, j)
    BY <1>3 DEF Stage, Offering, Unasked, SameSignals
<1>4. CASE Offered(h, j)
    BY <1>4 DEF Stage, Offered, Unasked, SameSignals, Offer1
<1>5. CASE Received(h, j)
    <2>1. PICK n \in 1..MaxSignals : OnlySignal(inbox[j], n) /\ content[n] = Offer1
        BY <1>5 DEF Received
    <2>2. OnlySignal(inbox'[j], n) /\ content'[n] = Offer1
        BY <1>1, <1>2, <2>1
    <2>3. Received(h, j)'
        BY <1>5, <2>2 DEF Received, SameSignals, Offer1
    <2> QED BY <2>3 DEF Stage
<1>6. CASE Answering(h, j)
    BY <1>6 DEF Stage, Answering, Asked, SameSignals
<1>7. CASE Answered(h, j)
    BY <1>7 DEF Stage, Answered, Asked, SameSignals, Answer1
<1>8. CASE Returned(h, j)
    <2>1. PICK n \in 1..MaxSignals : OnlySignal(inbox[h], n) /\ content[n] = Answer1
        BY <1>8 DEF Returned
    <2>2. OnlySignal(inbox'[h], n) /\ content'[n] = Answer1
        BY <1>1, <1>2, <2>1
    <2>3. Returned(h, j)'
        BY <1>8, <2>2 DEF Returned, Asked, SameSignals, Answer1
    <2> QED BY <2>3 DEF Stage
<1>9. CASE Connected(h, j)
    BY <1>9 DEF Stage, Connected, Asked, SameSignals
<1> QED BY <1>3, <1>4, <1>5, <1>6, <1>7, <1>8, <1>9 DEF Stage

\* Nothing happens in the pages and their streams.
LEMMA CreateStaysCalm ==
    ASSUME Smooth, NEW r \in Rooms, NEW code \in Codes, NEW p \in Peers, Create(r, code, p)
    PROVE  CalmInv'
<1>1. /\ rooms' = [rooms EXCEPT ![code] = r] /\ codeOf' = [codeOf EXCEPT ![r] = code]
      /\ members' = [members EXCEPT ![r] = <<p>>]
      /\ role' = [role EXCEPT ![p] = "host"] /\ home' = [home EXCEPT ![p] = r]
      /\ codeOf[r] = NoCode /\ home[p] = NoRoom /\ rooms[code] = NoRoom
      /\ UNCHANGED <<stream, wire, queued, pending, inbox, outbox, content, pc, sig, remote, failed>>
    BY DEF Create, CreateRoom, pageVars
<1>2. /\ rooms \in [Codes -> Rooms \cup {NoRoom}] /\ codeOf \in [Rooms -> Codes \cup {NoCode}]
      /\ role \in [Peers -> {"none", "host", "joiner"}] /\ home \in [Peers -> Rooms \cup {NoRoom}]
      /\ members \in [Rooms -> Seq(Peers)]
    BY SmoothFacts DEF Sound, TypeOK
<1>3. \A q \in Peers : home[q] # r
    BY <1>1, SmoothFacts, MarkersAssumption DEF Sound, HomesHaveCodes
<1>4. stream[p] = NoConn
    BY <1>1, Newcomer
<1>5. \A q \in Peers : q # p => role'[q] = role[q] /\ home'[q] = home[q]
    BY <1>1, <1>2
<1>6. role'[p] = "host" /\ home'[p] = r
    BY <1>1, <1>2
<1>7. \A s \in Rooms, x \in Peers : s # r => (In(s, x)' <=> In(s, x))
    BY <1>1, <1>2 DEF In
<1>8. ASSUME NEW q \in Peers, stream'[q] # NoConn
      PROVE  sig'[q] # "gone" /\ In(home[q], q)' /\ home'[q] = home[q] /\ RoomAt(q)' = home'[q]
    <2>1. q # p /\ stream[q] # NoConn
        BY <1>1, <1>4, <1>8
    <2>2. sig[q] # "gone" /\ In(home[q], q) /\ RoomAt(q) = home[q] /\ home[q] \in Rooms /\ codeOf[home[q]] \in Codes
        BY <2>1, Present
    <2>3. codeOf[home[q]] # code /\ home'[q] = home[q] /\ home[q] # r
        BY <1>1, <1>3, <1>5, <2>1, <2>2, MarkersAssumption DEF RoomAt
    <2>4. RoomAt(q)' = home'[q]
        BY <1>1, <1>2, <2>2, <2>3 DEF RoomAt
    <2>5. In(home[q], q)'
        BY <1>1, <1>2, <2>2, <2>3 DEF In
    <2> QED BY <1>1, <2>2, <2>3, <2>4, <2>5
<1>9. Seated'
    BY <1>8 DEF Seated, In
<1>10. Active' /\ NoneExpired' /\ LeaversGone'
    BY <1>1, SmoothFacts DEF Active, NoneExpired, LeaversGone
<1>11. HostFirst'
    <2> SUFFICES ASSUME NEW h \in Peers, NEW q \in Peers, role'[h] = "host", home'[q] = home'[h], pc'[h] = 0
                 PROVE  Unasked(q)' /\ Len(queued'[home'[h]]) = 0
        BY DEF HostFirst
    <2>1. CASE h = p
        <3>1. q = p
            BY <1>3, <1>5, <1>6, <2>1
        <3>2. Unasked(q)'
            BY <1>1, <1>4, <3>1, Absent DEF Unasked
        <3> QED BY <1>1, <1>6, <2>1, <3>2, SmoothFacts DEF RoomsKnown
    <2>2. CASE h # p
        <3>1. role[h] = "host" /\ home'[h] = home[h] /\ home[h] # r
            BY <1>3, <1>5, <2>2
        <3>2. q # p /\ home[q] = home[h]
            BY <1>5, <1>6, <3>1
        <3>3. Unasked(q) /\ Len(queued[home[h]]) = 0
            BY <1>1, <3>1, <3>2, SmoothFacts DEF HostFirst
        <3> QED BY <1>1, <3>1, <3>3 DEF Unasked
    <2> QED BY <2>1, <2>2
<1>12. JoinersStay'
    <2> SUFFICES ASSUME NEW h \in Peers, NEW j \in Peers, role'[h] = "host", role'[j] # "host",
                        home'[j] = home'[h], In(home[h], h)'
                 PROVE  ~Brings(inbox'[j], {"peer-left"}) /\ sig'[j] # "closed"
        BY DEF JoinersStay, In
    <2>1. j # p /\ role[j] # "host" /\ home'[j] = home[j] /\ home[j] # r
        BY <1>3, <1>5, <1>6
    <2>2. h # p /\ role[h] = "host" /\ home'[h] = home[h]
        BY <1>5, <1>6, <2>1
    <2>3. In(home[h], h)
        <3>1. home[h] \in Rooms
            BY <1>2, <2>2, SmoothFacts DEF RoomsKnown
        <3> QED BY <1>1, <1>2, <1>3, <2>2, <3>1 DEF In
    <2> QED BY <1>1, <2>1, <2>2, <2>3, SmoothFacts DEF JoinersStay
<1>13. Staged'
    <2> SUFFICES ASSUME NEW h \in Peers, NEW j \in Peers, UnderWay(h, j)' PROVE Stage(h, j)'
        BY DEF Staged
    <2>1. stream[h] # NoConn /\ stream[j] # NoConn /\ h # p /\ j # p
        BY <1>1, <1>4 DEF UnderWay, Pair
    <2>2. In(home[h], h) /\ In(home[j], j)
        BY <2>1, Present
    <2>3. UnderWay(h, j)
        BY <1>1, <1>5, <2>1, <2>2 DEF UnderWay, Pair
    <2>4. Stage(h, j)
        BY <2>3, SmoothFacts DEF Staged
    <2> QED BY <1>1, <2>4, StageStays, SmoothFacts DEF SameSignals
<1> QED BY <1>9, <1>10, <1>11, <1>12, <1>13 DEF CalmInv

\* What a page finds when its relay writes an event.
LEMMA CalmWrite ==
    ASSUME Smooth, NEW told, NEW event, told = {} \/ event \in Plain, Write(told, event), NEW p \in Peers
    PROVE  /\ \A events : "signal" \notin events =>
                 (Brings(inbox'[p], events) <=> Brings(inbox[p], events) \/ (p \in told /\ event \in events))
           /\ got'[p] = got[p] => SameSignals(p) /\ (p \notin told => inbox'[p] = inbox[p])
           /\ Len(got'[p]) = Len(got[p]) + 1 /\ NoSignals(inbox[p]) =>
                 OnlySignal(inbox'[p], got'[p][Len(got'[p])].n)
<1>1. inbox \in [Peers -> Seq(PageEvent)]
    BY SmoothFacts
<1>2. got[p] \in Seq(Signal) /\ got'[p] \in Seq(Signal) /\ Len(got[p]) <= Len(got'[p])
    BY SmoothFacts
<1> QED BY <1>1, <1>2, Written DEF SameSignals

LEMMA JoinStaysCalm ==
    ASSUME Smooth, NEW code \in Codes, NEW p \in Peers, Join(code, p)
    PROVE  CalmInv'
<1> DEFINE r == rooms[code]
           told == Reached(ToSet(members[r]))
<1>1. /\ members' = [members EXCEPT ![r] = Append(@, p)]
      /\ role' = [role EXCEPT ![p] = "joiner"] /\ home' = [home EXCEPT ![p] = r]
      /\ home[p] = NoRoom /\ r # NoRoom /\ Write(told, "peer-joined") /\ got' = got
      /\ UNCHANGED <<rooms, codeOf, stream, wire, queued, pending, outbox, content, pc, sig, remote, failed>>
    BY DEF Join, JoinRoom
<1>2. /\ rooms \in [Codes -> Rooms \cup {NoRoom}] /\ members \in [Rooms -> Seq(Peers)] /\ r \in Rooms
      /\ role \in [Peers -> {"none", "host", "joiner"}] /\ home \in [Peers -> Rooms \cup {NoRoom}]
    BY <1>1, SmoothFacts DEF Sound, TypeOK
<1>3. stream[p] = NoConn
    BY <1>1, Newcomer
<1>4. \A q \in Peers : q # p => role'[q] = role[q] /\ home'[q] = home[q]
    BY <1>1, <1>2
<1>5. role'[p] = "joiner" /\ home'[p] = r
    BY <1>1, <1>2
<1>6. ASSUME NEW s \in Rooms, NEW q \in Peers, q # p PROVE In(s, q)' <=> In(s, q)
    <2>1. CASE s # r
        BY <1>1, <1>2, <2>1 DEF In
    <2>2. CASE s = r
        <3>1. members'[r] = Append(members[r], p) /\ members[r] \in Seq(Peers) /\ Len(members[r]) \in Nat
            BY <1>1, <1>2, LenProperties
        <3>2. /\ Len(members'[r]) = Len(members[r]) + 1 /\ members'[r][Len(members[r]) + 1] = p
              /\ \A i \in 1..Len(members[r]) : members'[r][i] = members[r][i]
              /\ members'[r] \in Seq(Peers)
            BY <3>1, AppendProperties
        <3>3. DOMAIN members[r] = 1..Len(members[r]) /\ DOMAIN members'[r] = 1..Len(members'[r])
            BY <3>1, <3>2, LenProperties
        <3> DEFINE n == Len(members[r])
                   d == Len(members'[r])
        <3>4. \A i \in 1..d : i \in 1..n \/ i = n + 1
            <4>1. n \in Nat /\ d = n + 1
                BY <3>1, <3>2
            <4> HIDE DEF n, d
            <4> QED BY <4>1
        <3>5. \A i \in 1..n : i \in 1..d
            <4>1. n \in Nat /\ d = n + 1
                BY <3>1, <3>2
            <4> HIDE DEF n, d
            <4> QED BY <4>1
        <3> QED BY <1>6, <2>2, <3>2, <3>3, <3>4, <3>5 DEF In
    <2> QED BY <2>1, <2>2
<1>7. \A q \in Peers : q \in told => stream[q] # NoConn
    BY SmoothFacts DEF Reached
<1>8. \A q \in Peers :
        /\ SameSignals(q) /\ (q \notin told => inbox'[q] = inbox[q])
        /\ \A events : "signal" \notin events =>
              (Brings(inbox'[q], events) <=> Brings(inbox[q], events) \/ (q \in told /\ "peer-joined" \in events))
    BY <1>1, CalmWrite DEF Plain
<1> HIDE DEF told
<1>9. Seated'
    <2> SUFFICES ASSUME NEW q \in Peers, stream'[q] # NoConn
                 PROVE  sig'[q] # "gone" /\ In(home[q], q)' /\ RoomAt(q)' = home'[q]
        BY DEF Seated
    <2>1. q # p /\ stream[q] # NoConn
        BY <1>1, <1>3
    <2>2. sig[q] # "gone" /\ In(home[q], q) /\ RoomAt(q) = home[q] /\ home[q] \in Rooms
        BY <2>1, Present
    <2>3. home'[q] = home[q]
        BY <1>4, <2>1
    <2>4. In(home[q], q)'
        BY <1>6, <2>1, <2>2, <2>3 DEF In
    <2> QED BY <1>1, <2>2, <2>3, <2>4 DEF RoomAt
<1>10. Active'
    BY <1>1, <1>7, <1>8, SmoothFacts DEF Active
<1>11. NoneExpired' /\ LeaversGone'
    BY <1>1, <1>8, SmoothFacts DEF NoneExpired, LeaversGone
<1>12. HostFirst'
    <2> SUFFICES ASSUME NEW h \in Peers, NEW q \in Peers, role'[h] = "host", home'[q] = home'[h], pc'[h] = 0
                 PROVE  Unasked(q)' /\ Len(queued'[home'[h]]) = 0
        BY DEF HostFirst
    <2>1. h # p /\ role[h] = "host" /\ home'[h] = home[h] /\ pc[h] = 0
        BY <1>1, <1>4, <1>5
    <2>2. Len(queued[home[h]]) = 0
        BY <2>1, SmoothFacts DEF HostFirst
    <2>3. Unasked(q)
        <3>1. CASE q = p
            BY <1>3, <3>1, Absent DEF Unasked
        <3>2. CASE q # p
            BY <1>4, <2>1, <3>2, SmoothFacts DEF HostFirst
        <3> QED BY <3>1, <3>2
    <2> QED BY <1>1, <1>8, <2>1, <2>2, <2>3 DEF Unasked, SameSignals
<1>13. JoinersStay'
    <2> SUFFICES ASSUME NEW h \in Peers, NEW j \in Peers, role'[h] = "host", role'[j] # "host",
                        home'[j] = home'[h], In(home[h], h)'
                 PROVE  ~Brings(inbox'[j], {"peer-left"}) /\ sig'[j] # "closed"
        BY DEF JoinersStay, In
    <2>1. h # p /\ role[h] = "host" /\ home'[h] = home[h] /\ home[h] \in Rooms
        <3>1. h # p /\ role[h] = "host"
            BY <1>4, <1>5
        <3> QED BY <1>2, <1>4, <3>1, SmoothFacts DEF RoomsKnown
    <2>2. In(home[h], h)
        BY <1>6, <2>1 DEF In
    <2>3. CASE j = p
        <3>1. ~Brings(inbox[p], {"peer-left"}) /\ sig[p] # "closed"
            BY <1>3, Absent
        <3> QED BY <1>1, <1>8, <2>3, <3>1
    <2>4. CASE j # p
        <3>1. ~Brings(inbox[j], {"peer-left"}) /\ sig[j] # "closed"
            BY <1>4, <2>1, <2>2, <2>4, SmoothFacts DEF JoinersStay
        <3> QED BY <1>1, <1>8, <3>1
    <2> QED BY <2>3, <2>4
<1>14. Staged'
    <2> SUFFICES ASSUME NEW h \in Peers, NEW j \in Peers, UnderWay(h, j)' PROVE Stage(h, j)'
        BY DEF Staged
    <2>1. stream[h] # NoConn /\ stream[j] # NoConn /\ h # p /\ j # p
        BY <1>1, <1>3 DEF UnderWay, Pair
    <2>2. In(home[h], h) /\ In(home[j], j)
        BY <2>1, Present
    <2>3. ~Brings(inbox'[h], HostEvents)
        BY DEF UnderWay
    <2>4. ~Brings(inbox[h], HostEvents)
        BY <1>8, <2>3 DEF HostEvents
    <2>5. UnderWay(h, j)
        BY <1>1, <1>4, <2>1, <2>2, <2>4 DEF UnderWay, Pair
    <2>6. Stage(h, j)
        BY <2>5, SmoothFacts DEF Staged
    <2> QED BY <1>1, <1>8, <2>6, StageStays, SmoothFacts
<1> QED BY <1>9, <1>10, <1>11, <1>12, <1>13, <1>14 DEF CalmInv

LEMMA OpenStaysCalm ==
    ASSUME Smooth, NEW c \in Conns, NEW p \in Peers, Open(c, p)
    PROVE  CalmInv'
<1> DEFINE told == Told(home[p], p)
<1>1. /\ OpenEvents(c, p) /\ Write(told, "peers-connected") /\ sig[p] # "gone"
      /\ stream' = [stream EXCEPT ![p] = c]
      /\ home[p] # NoRoom /\ RoomAt(p) # NoRoom /\ In(RoomAt(p), p)
      /\ \A d \in Conns : owner[d] = p => wire[d] # "open"
      /\ UNCHANGED <<rooms, codeOf, members, role, home, pending, outbox, content, pc, sig, remote, failed>>
    BY DEF Open, OpenEvents
<1>2. stream[p] = NoConn
    BY <1>1, Present
<1>3. \A q \in Peers : q # p => stream'[q] = stream[q]
    BY <1>1 DEF Sound, TypeOK
<1>4. RoomAt(p) = home[p] /\ home[p] \in Rooms
    BY <1>1, OpenedAtHome, SmoothFacts DEF Sound
<1>5. /\ \A q \in Peers : q # p => got'[q] = got[q]
      /\ Len(queued[home[p]]) = 0 => got'[p] = got[p]
    BY <1>1, OpenedHands, SmoothFacts
<1>6. \A q \in Peers : q \in told /\ q # p => stream[q] # NoConn
    BY SmoothFacts DEF Told
<1>7. \A q \in Peers :
        /\ got'[q] = got[q] => SameSignals(q) /\ (q \notin told => inbox'[q] = inbox[q])
        /\ \A events : "signal" \notin events =>
              (Brings(inbox'[q], events) <=> Brings(inbox[q], events) \/ (q \in told /\ "peers-connected" \in events))
    BY <1>1, CalmWrite DEF Plain
<1>8. stream'[p] # NoConn
    BY <1>1, SmoothFacts, MarkersAssumption DEF Sound, TypeOK
<1>9. \A q \in Peers : stream[q] # NoConn => stream'[q] # NoConn
    BY <1>3, <1>8
<1>t. told = Told(home[p], p)
    OBVIOUS
<1> HIDE DEF told
<1>10. Seated'
    <2> SUFFICES ASSUME NEW q \in Peers, stream'[q] # NoConn
                 PROVE  sig'[q] # "gone" /\ In(home[q], q)' /\ RoomAt(q)' = home'[q]
        BY DEF Seated
    <2>1. sig[q] # "gone" /\ In(home[q], q) /\ RoomAt(q) = home[q]
        <3>1. CASE q = p
            BY <1>1, <1>4, <3>1
        <3>2. CASE q # p
            BY <1>3, <3>2, Present
        <3> QED BY <3>1, <3>2
    <2> QED BY <1>1, <2>1 DEF RoomAt, In
<1>11. Active'
    <2> SUFFICES ASSUME NEW q \in Peers, pc'[q] # 0 \/ outbox'[q] # {} \/ inbox'[q] # <<>>
                 PROVE  stream'[q] # NoConn
        BY DEF Active
    <2>1. CASE q = p
        BY <1>8, <2>1
    <2>2. CASE q # p
        BY <1>1, <1>5, <1>6, <1>7, <1>9, <2>2, SmoothFacts DEF Active
    <2> QED BY <2>1, <2>2
<1>12. NoneExpired' /\ LeaversGone'
    BY <1>1, <1>7, SmoothFacts DEF NoneExpired, LeaversGone
<1>13. HostFirst'
    <2> SUFFICES ASSUME NEW h \in Peers, NEW q \in Peers, role'[h] = "host", home'[q] = home'[h], pc'[h] = 0
                 PROVE  Unasked(q)' /\ Len(queued'[home'[h]]) = 0
        BY DEF HostFirst
    <2>1. Unasked(q) /\ Len(queued[home[h]]) = 0
        BY <1>1, SmoothFacts DEF HostFirst
    <2>2. got'[q] = got[q]
        BY <1>1, <1>5, <2>1
    <2>3. Unasked(q)'
        BY <1>1, <1>7, <2>1, <2>2 DEF Unasked, SameSignals
    <2>4. home[h] \in Rooms
        BY <1>1, SmoothFacts DEF RoomsKnown, Sound, TypeOK
    <2>5. Len(queued'[home[h]]) = 0
        <3>1. CASE home[h] = home[p]
            <4>1. /\ PickOf(queued'[home[p]], queued[home[p]], QueuedFor(Peers \ {p}))
                  /\ queued'[home[p]] \in Seq(Entry)
                BY <1>1, QueuesOpened, SmoothFacts DEF Sound
            <4>2. Len(queued'[home[p]]) \in Nat /\ Len(queued'[home[p]]) <= Len(queued[home[p]])
                BY <4>1, LenProperties DEF PickOf
            <4> DEFINE m == Len(queued'[home[p]])
                       n == Len(queued[home[p]])
            <4>3. m \in Nat /\ m <= n /\ n = 0
                BY <2>1, <3>1, <4>2
            <4>4. m = 0
                <5> HIDE DEF m, n
                <5> QED BY <4>3
            <4> QED BY <3>1, <4>4
        <3>2. CASE home[h] # home[p]
            BY <1>1, <2>1, <2>4, <3>2, QueuesOpened, SmoothFacts DEF Sound
        <3> QED BY <3>1, <3>2
    <2> QED BY <1>1, <2>3, <2>5
<1>14. JoinersStay'
    <2> SUFFICES ASSUME NEW h \in Peers, NEW j \in Peers, role'[h] = "host", role'[j] # "host",
                        home'[j] = home'[h], In(home[h], h)'
                 PROVE  ~Brings(inbox'[j], {"peer-left"}) /\ sig'[j] # "closed"
        BY DEF JoinersStay, In
    <2>1. In(home[h], h)
        BY <1>1 DEF In
    <2>2. ~Brings(inbox[j], {"peer-left"}) /\ sig[j] # "closed"
        BY <1>1, <2>1, SmoothFacts DEF JoinersStay
    <2> QED BY <1>1, <1>7, <2>2
<1>15. Staged'
    <2> SUFFICES ASSUME NEW h \in Peers, NEW j \in Peers, UnderWay(h, j)' PROVE Stage(h, j)'
        BY DEF Staged
    <2>1. h # p
        BY <1>1, <1>2, Absent DEF UnderWay
    <2>2. ~Brings(inbox'[h], HostEvents) /\ Pair(h, j)' /\ h # j
        BY DEF UnderWay, Pair
    <2>3. stream[h] # NoConn /\ role[h] = "host" /\ home[j] = home[h] /\ In(home[h], h) /\ In(home[h], j)
        BY <1>1, <1>3, <2>1, <2>2 DEF Pair, In
    <2>4. h \notin told
        BY <1>7, <2>2 DEF HostEvents
    <2>5. j # p
        <3> SUFFICES ASSUME j = p PROVE FALSE
            OBVIOUS
        <3>1. Len(members[home[p]]) = 2 /\ h \in ToSet(members[home[p]])
            BY <1>4, <2>2, <2>3, MembersFew, SmoothFacts
        <3>2. Reaches(h)
            BY <2>3, Present
        <3> QED BY <1>t, <2>4, <3>1, <3>2 DEF Told
    <2>6. stream[j] # NoConn
        BY <1>3, <2>2, <2>5 DEF Pair
    <2>7. UnderWay(h, j)
        BY <1>1, <1>7, <2>2, <2>3, <2>6 DEF UnderWay, Pair, HostEvents
    <2>8. Stage(h, j)
        BY <2>7, SmoothFacts DEF Staged
    <2> QED BY <1>1, <1>5, <1>7, <2>1, <2>5, <2>8, StageStays, SmoothFacts
<1> QED BY <1>10, <1>11, <1>12, <1>13, <1>14, <1>15 DEF CalmInv

\* What the other page of the room is handed.
LEMMA RelayGives ==
    ASSUME Sound, NEW req \in pending, RelaySignal(req), NEW q \in Peers,
           q # req.peer, In(req.room, q), Reaches(q)
    PROVE  Len(got'[q]) = Len(got[q]) + 1 /\ got'[q][Len(got'[q])].n = relayed + 1
<1> DEFINE signal == [from |-> req.peer, n |-> relayed + 1]
<1>1. req.room \in Rooms /\ req.peer \in Peers /\ members[req.room] \in Seq(Peers)
    BY DEF Sound, TypeOK, Request
<1>2. got'[q] = IF q \in ToSet(Others(req.room, req.peer)) /\ Reaches(q) THEN Append(got[q], signal)
                ELSE got[q]
    BY DEF RelaySignal
<1>3. relayed + 1 \in 1..MaxSignals
    BY NumbersAssumption DEF RelaySignal, Sound, TypeOK
<1>4. signal \in Signal /\ got[q] \in Seq(Signal)
    BY <1>1, <1>3 DEF Signal, Sound, TypeOK
<1>5. q \in ToSet(Others(req.room, req.peer))
    <2>1. /\ Others(req.room, req.peer) \in Seq(Peers)
          /\ PickOf(Others(req.room, req.peer), members[req.room], Peers \ {req.peer})
        BY <1>1, OthersListed
    <2>2. PICK k \in 1..Len(members[req.room]) : members[req.room][k] = q
        BY <1>1, LenProperties DEF In
    <2>3. \E i \in 1..Len(Others(req.room, req.peer)) : Others(req.room, req.peer)[i] = q
        BY <2>1, <2>2 DEF PickOf
    <2> QED BY <2>1, <2>3, LenProperties DEF ToSet
<1>6. /\ Len(Append(got[q], signal)) = Len(got[q]) + 1
      /\ Append(got[q], signal)[Len(got[q]) + 1] = signal
    BY <1>4, AppendProperties
<1> QED BY <1>2, <1>5, <1>6

LEMMA RelayStaysCalm ==
    ASSUME Smooth, NEW req \in pending, NEW m \in outbox[req.peer], Relay(req, m)
    PROVE  CalmInv'
<1> DEFINE s == req.peer
           r == req.room
<1>1. /\ RelaySignal(req) /\ Write({}, "signal") /\ relayed' = relayed + 1
      /\ outbox' = [outbox EXCEPT ![s] = @ \ {m}] /\ content' = [content EXCEPT ![relayed'] = m]
      /\ pending' = pending \ {req}
      /\ UNCHANGED <<rooms, codeOf, members, role, home, stream, wire, pc, sig, remote, failed>>
    BY DEF Relay, RelaySignal
<1>2. s \in Peers /\ r \in Rooms /\ r = home[s]
    BY SmoothFacts DEF Sound, TypeOK, Request, RoomsKnown
<1>3. stream[s] # NoConn
    BY <1>2, SmoothFacts DEF Active
<1>4. In(r, s)
    BY <1>2, <1>3, Present
<1>5. \A q \in Peers : got'[q] = got[q] \/ (q # s /\ In(r, q) /\ Reaches(q))
    BY <1>1, RelayedHands, SmoothFacts
<1>6. \A q \in Peers : In(r, q) => home[q] = r
    BY <1>2, MembersFew, SmoothFacts
<1>7. \A q \in Peers :
        /\ got'[q] = got[q] => SameSignals(q) /\ inbox'[q] = inbox[q]
        /\ \A events : "signal" \notin events => (Brings(inbox'[q], events) <=> Brings(inbox[q], events))
        /\ Len(got'[q]) = Len(got[q]) + 1 /\ NoSignals(inbox[q]) =>
              OnlySignal(inbox'[q], got'[q][Len(got'[q])].n)
    BY <1>1, CalmWrite
<1>8. /\ outbox \in [Peers -> SUBSET Message] /\ relayed + 1 \in 1..MaxSignals
      /\ content \in [1..MaxSignals -> Message \cup {NoSignal}] /\ relayed \in Nat
    BY SMTT(30), <1>1, SmoothFacts, NumbersAssumption DEF PageTypes, RelaySignal, Sound, TypeOK
<1>9. /\ \A q \in Peers : q # s => outbox'[q] = outbox[q]
      /\ outbox'[s] = outbox[s] \ {m}
      /\ content'[relayed + 1] = m
      /\ \A n \in 1..MaxSignals : n <= relayed => content'[n] = content[n]
    BY <1>1, <1>2, <1>8
<1> HIDE DEF s, r
<1>10. Seated'
    BY <1>1, SmoothFacts DEF Seated, In, RoomAt
<1>11. Active'
    <2> SUFFICES ASSUME NEW q \in Peers, pc'[q] # 0 \/ outbox'[q] # {} \/ inbox'[q] # <<>>
                 PROVE  stream'[q] # NoConn
        BY DEF Active
    <2>1. got'[q] = got[q] \/ stream[q] # NoConn
        BY <1>5, SmoothFacts
    <2>2. outbox[q] # {} \/ outbox'[q] = {}
        BY <1>3, <1>9
    <2> QED BY <1>1, <1>7, <2>1, <2>2, SmoothFacts DEF Active
<1>12. NoneExpired' /\ LeaversGone'
    BY <1>1, <1>7, SmoothFacts DEF NoneExpired, LeaversGone
<1>13. HostFirst'
    <2> SUFFICES ASSUME NEW h \in Peers, NEW q \in Peers, role'[h] = "host", home'[q] = home'[h], pc'[h] = 0
                 PROVE  Unasked(q)' /\ Len(queued'[home'[h]]) = 0
        BY DEF HostFirst
    <2>1. Unasked(q) /\ Len(queued[home[h]]) = 0 /\ home[q] = home[h]
        BY <1>1, SmoothFacts DEF HostFirst
    <2>2. home[h] # r
        BY <1>1, <1>2, SmoothFacts DEF HostFirst, Unasked, s, r
    <2>3. home[h] \in Rooms
        BY <1>1, SmoothFacts DEF RoomsKnown, Sound, TypeOK
    <2>4. queued'[home[h]] = queued[home[h]]
        BY <1>1, <2>2, <2>3, QueuesRelayed, SmoothFacts DEF Sound, r
    <2>5. got'[q] = got[q] /\ q # s
        BY <1>2, <1>5, <1>6, <2>1, <2>2
    <2> QED BY <1>1, <1>7, <1>9, <2>1, <2>4, <2>5 DEF Unasked, SameSignals
<1>14. JoinersStay'
    BY <1>1, <1>7, SmoothFacts DEF JoinersStay, In
<1>15. Staged'
    <2> SUFFICES ASSUME NEW h \in Peers, NEW j \in Peers, UnderWay(h, j)' PROVE Stage(h, j)'
        BY DEF Staged
    <2>1. UnderWay(h, j)
        BY <1>1, <1>7 DEF UnderWay, Pair, In, HostEvents
    <2>2. Stage(h, j) /\ Pair(h, j) /\ pc[h] = 1
        BY <2>1, SmoothFacts DEF Staged, UnderWay
    <2>3. In(home[h], h) /\ In(home[h], j) /\ h # j /\ home[j] = home[h] /\ home[h] \in Rooms
        <3>1. stream[h] # NoConn
            BY <2>2 DEF Pair
        <3> QED BY <2>2, <3>1, Present DEF Pair
    <2>4. Reaches(h) /\ Reaches(j)
        BY <2>2, Present DEF Pair
    <2>5. CASE r # home[h]
        <3>1. got'[h] = got[h] /\ got'[j] = got[j] /\ h # s /\ j # s
            BY <1>2, <1>5, <1>6, <2>3, <2>5
        <3> QED BY <1>1, <1>7, <1>9, <2>2, <3>1, StageStays, SmoothFacts
    <2>6. CASE r = home[h] /\ s = h
        <3>1. Offered(h, j)
            BY <2>2, <2>6 DEF Stage, Offering, Received, Answering, Answered, Returned, Connected, s
        <3>2. m = Offer1 /\ outbox'[h] = {} /\ content'[relayed + 1] = Offer1
            BY <1>9, <2>6, <3>1 DEF Offered, s
        <3>3. Len(got'[j]) = Len(got[j]) + 1 /\ got'[j][Len(got'[j])].n = relayed + 1
            BY <1>1, <2>3, <2>4, <2>6, RelayGives, SmoothFacts DEF s, r
        <3>4. NoSignals(inbox[j])
            BY <3>1 DEF Offered, Unasked
        <3>5. OnlySignal(inbox'[j], relayed + 1)
            BY <1>7, <3>3, <3>4
        <3>6. got'[h] = got[h] /\ NoSignals(inbox'[h])
            BY <1>5, <1>7, <2>6, <3>1 DEF Offered, SameSignals
        <3>7. Received(h, j)'
            <4>1. sig'[h] = "local" /\ pc'[j] = 0 /\ outbox'[j] = {}
                BY <1>1, <1>9, <2>3, <2>6, <3>1 DEF Offered, Unasked
            <4>2. \E n \in 1..MaxSignals : OnlySignal(inbox'[j], n) /\ content'[n] = Offer1
                BY <1>8, <3>2, <3>5
            <4> QED BY <3>2, <3>6, <4>1, <4>2 DEF Received, Offer1
        <3> QED BY <3>7 DEF Stage
    <2>7. CASE r = home[h] /\ s = j
        <3>1. Answered(h, j)
            BY <2>2, <2>7 DEF Stage, Offering, Offered, Unasked, Received, Answering, Returned, Connected, s
        <3>2. m = Answer1 /\ outbox'[j] = {} /\ content'[relayed + 1] = Answer1
            BY <1>9, <2>7, <3>1 DEF Answered, s
        <3>3. Len(got'[h]) = Len(got[h]) + 1 /\ got'[h][Len(got'[h])].n = relayed + 1
            BY <1>1, <2>3, <2>4, <2>7, RelayGives, SmoothFacts DEF s, r
        <3>4. NoSignals(inbox[h])
            BY <3>1 DEF Answered
        <3>5. OnlySignal(inbox'[h], relayed + 1)
            BY <1>7, <3>3, <3>4
        <3>6. got'[j] = got[j] /\ NoSignals(inbox'[j])
            BY <1>5, <1>7, <2>7, <3>1 DEF Answered, Asked, SameSignals
        <3>7. Returned(h, j)'
            <4>1. sig'[h] = "local" /\ outbox'[h] = {} /\ sig'[j] = "stable"
                BY <1>1, <1>9, <2>3, <2>7, <3>1 DEF Answered
            <4>2. pc'[j] = 1 /\ remote'[j] = 1
                BY <1>1, <3>1 DEF Answered, Asked
            <4>3. \E n \in 1..MaxSignals : OnlySignal(inbox'[h], n) /\ content'[n] = Answer1
                BY <1>8, <3>2, <3>5
            <4> QED BY <3>2, <3>6, <4>1, <4>2, <4>3 DEF Returned, Asked, Answer1
        <3> QED BY <3>7 DEF Stage
    <2>8. r = home[h] => s \in {h, j}
        BY <1>2, <1>4, <2>3, MembersFew, SmoothFacts
    <2> QED BY <2>5, <2>6, <2>7, <2>8
<1> QED BY <1>10, <1>11, <1>12, <1>13, <1>14, <1>15 DEF CalmInv

\* While it is calm only who has no stream says goodbye.
LEMMA GoodbyeStaysCalm ==
    ASSUME Smooth, NEW p \in Peers, Goodbye(p)
    PROVE  CalmInv'
<1>1. wire' = Closing(p)
    BY DEF Goodbye, RequestArrives
<1>2. stream[p] = NoConn
    <2> SUFFICES ASSUME stream[p] # NoConn PROVE FALSE
        OBVIOUS
    <2>1. stream[p] \in Conns /\ owner[stream[p]] = p /\ wire[stream[p]] = "open"
        BY Present
    <2>2. wire'[stream[p]] = "lost"
        BY <1>1, <2>1 DEF Closing
    <2> QED BY <2>1, <2>2, SmoothFacts DEF Calm
<1>3. /\ sig' = [sig EXCEPT ![p] = "gone"] /\ inbox' = [inbox EXCEPT ![p] = <<>>]
      /\ UNCHANGED <<rooms, codeOf, members, role, home, stream, queued, outbox, content, pc, remote, failed>>
    BY DEF Goodbye, RequestArrives
<1>4. sig \in [Peers -> Doing] /\ inbox \in [Peers -> Seq(PageEvent)]
    BY SmoothFacts DEF PageTypes, Doing
<1>5. \A q \in Peers : inbox'[q] = inbox[q]
    BY <1>2, <1>3, <1>4, Absent
<1>6. sig'[p] = "gone" /\ \A q \in Peers : q # p => sig'[q] = sig[q]
    BY <1>3, <1>4
<1>7. \A req \in pending' : req \in pending \/ req.peer = p
    BY DEF Goodbye, RequestArrives
<1>8. Seated'
    BY <1>2, <1>3, <1>6, SmoothFacts DEF Seated, In, RoomAt
<1>9. Active' /\ NoneExpired'
    BY <1>3, <1>5, SmoothFacts DEF Active, NoneExpired
<1>10. LeaversGone'
    <2> SUFFICES ASSUME NEW req \in pending', req.kind = "leave" PROVE sig'[req.peer] = "gone"
        BY DEF LeaversGone
    <2>1. req.peer \in Peers
        BY SmoothFacts DEF Sound, TypeOK, Request
    <2> QED BY <1>6, <1>7, <2>1, SmoothFacts DEF LeaversGone
<1>11. HostFirst'
    BY <1>3, <1>5, SmoothFacts DEF HostFirst, Unasked
<1>12. JoinersStay'
    BY <1>3, <1>5, <1>6, SmoothFacts DEF JoinersStay, In
<1>13. Staged'
    <2> SUFFICES ASSUME NEW h \in Peers, NEW j \in Peers, UnderWay(h, j)' PROVE Stage(h, j)'
        BY DEF Staged
    <2>1. h # p /\ j # p
        BY <1>2, <1>3 DEF UnderWay, Pair
    <2>2. UnderWay(h, j)
        BY <1>3, <1>5, <1>6, <2>1 DEF UnderWay, Pair, In
    <2>3. Stage(h, j)
        BY <2>2, SmoothFacts DEF Staged
    <2> QED BY <1>3, <1>5, <1>6, <2>1, <2>3, StageStays, SmoothFacts DEF SameSignals
<1> QED BY <1>8, <1>9, <1>10, <1>11, <1>12, <1>13 DEF CalmInv

LEMMA LeftStaysCalm ==
    ASSUME Smooth, NEW req \in pending, NEW readable \in BOOLEAN, Left(req, readable)
    PROVE  CalmInv'
<1> DEFINE p == req.peer
           r == req.room
           gone == readable /\ In(r, p)
           told == IF gone THEN Reached(ToSet(Others(r, p))) ELSE {}
<1>1. /\ Leave(req, readable) /\ Write(told, "peer-left") /\ req.kind = "leave"
      /\ members' = [members EXCEPT ![r] = IF gone THEN Others(r, p) ELSE @]
      /\ rooms' = rooms \/ (members'[r] = <<>> /\ rooms' = [rooms EXCEPT ![codeOf[r]] = NoRoom])
      /\ pending' = pending \ {req}
      /\ UNCHANGED <<codeOf, role, home, stream, wire, queued, got, outbox, content, pc, sig, remote, failed>>
    BY DEF Left, Leave, Unregister
<1>2. p \in Peers /\ r \in Rooms /\ r = home[p]
    BY SmoothFacts DEF Sound, TypeOK, Request, RoomsKnown
<1>3. stream[p] = NoConn
    <2>1. sig[p] = "gone"
        BY <1>1, SmoothFacts DEF LeaversGone
    <2> QED BY <1>2, <2>1, Present
<1>4. members \in [Rooms -> Seq(Peers)] /\ rooms \in [Codes -> Rooms \cup {NoRoom}]
    BY SmoothFacts DEF Sound, TypeOK
<1>5. ASSUME NEW q \in Peers, In(r, q), q # p PROVE In(r, q)'
    <2>1. CASE gone
        <3>1. members'[r] = Others(r, p)
            BY <1>1, <1>2, <1>4, <2>1
        <3>2. Others(r, p) \in Seq(Peers) /\ PickOf(Others(r, p), members[r], Peers \ {p})
            BY <1>2, <1>4, OthersListed
        <3>3. PICK k \in 1..Len(members[r]) : members[r][k] = q
            BY <1>2, <1>4, <1>5, LenProperties DEF In
        <3>4. \E i \in 1..Len(Others(r, p)) : Others(r, p)[i] = q
            BY <1>5, <3>2, <3>3 DEF PickOf
        <3>5. DOMAIN members'[r] = 1..Len(members'[r])
            BY <3>1, <3>2, LenProperties
        <3> QED BY <3>1, <3>4, <3>5 DEF In
    <2>2. CASE ~gone
        BY <1>1, <1>2, <1>4, <1>5, <2>2 DEF In
    <2> QED BY <2>1, <2>2
<1>6. ASSUME NEW q \in Peers, q \in ToSet(Others(r, p)) \/ (gone /\ In(r, q)') PROVE In(r, q) /\ q # p
    <2>1. Others(r, p) \in Seq(Peers) /\ PickOf(Others(r, p), members[r], Peers \ {p})
        BY <1>2, <1>4, OthersListed
    <2>2. gone => members'[r] = Others(r, p)
        BY <1>1, <1>2, <1>4
    <2>3. PICK i \in 1..Len(Others(r, p)) : Others(r, p)[i] = q
        BY <1>6, <2>1, <2>2, LenProperties DEF In, ToSet
    <2>4. q \in Peers \ {p} /\ \E k \in 1..Len(members[r]) : members[r][k] = q
        BY <2>1, <2>3 DEF PickOf
    <2> QED BY <1>2, <1>4, <2>4, LenProperties DEF In
<1>7. \A x \in Rooms, q \in Peers : In(x, q)' => In(x, q)
    <2> SUFFICES ASSUME NEW x \in Rooms, NEW q \in Peers, In(x, q)' PROVE In(x, q)
        OBVIOUS
    <2>1. CASE x = r /\ gone
        BY <1>6, <2>1
    <2>2. CASE x # r
        BY <1>1, <1>4, <2>2 DEF In
    <2>3. CASE ~gone
        <3>1. members' = members
            BY <1>1, <1>4, <2>3
        <3> QED BY <3>1 DEF In
    <2> QED BY <2>1, <2>2, <2>3
<1>8. \A x \in Rooms, q \in Peers : In(x, q) /\ q # p => In(x, q)'
    <2> SUFFICES ASSUME NEW x \in Rooms, NEW q \in Peers, In(x, q), q # p PROVE In(x, q)'
        OBVIOUS
    <2>1. CASE x = r
        BY <1>5, <2>1
    <2>2. CASE x # r
        BY <1>1, <1>4, <2>2 DEF In
    <2> QED BY <2>1, <2>2
<1>9. \A q \in Peers :
        /\ SameSignals(q) /\ (q \notin told => inbox'[q] = inbox[q])
        /\ \A events : "signal" \notin events =>
              (Brings(inbox'[q], events) <=> Brings(inbox[q], events) \/ (q \in told /\ "peer-left" \in events))
    BY <1>1, CalmWrite DEF Plain
<1>10. \A q \in Peers : q \in told => gone /\ q # p /\ In(r, q) /\ stream[q] # NoConn
    BY <1>6, SmoothFacts DEF Reached
<1>g. gone => In(r, p)
    OBVIOUS
<1>11. gone => \A q \in Peers : In(r, q)' => q # p
    BY <1>6
<1> HIDE DEF told, gone, p, r
<1>12. Seated'
    <2> SUFFICES ASSUME NEW q \in Peers, stream'[q] # NoConn
                 PROVE  sig'[q] # "gone" /\ In(home[q], q)' /\ RoomAt(q)' = home'[q]
        BY DEF Seated
    <2>1. q # p /\ stream[q] # NoConn
        BY <1>1, <1>3
    <2>2. /\ sig[q] # "gone" /\ In(home[q], q) /\ RoomAt(q) = home[q] /\ home[q] \in Rooms
          /\ codeOf[home[q]] # NoCode
        BY <2>1, Present
    <2>3. In(home[q], q)' /\ home'[q] = home[q]
        <3>1. home' = home
            BY <1>1
        <3>2. \E i \in DOMAIN members'[home[q]] : members'[home[q]][i] = q
            BY <1>8, <2>1, <2>2 DEF In
        <3> QED BY <3>1, <3>2 DEF In
    <2>4. RoomAt(q)' = home[q]
        <3>1. CASE rooms' = rooms
            BY <1>1, <2>2, <3>1 DEF RoomAt
        <3>2. CASE members'[r] = <<>> /\ rooms' = [rooms EXCEPT ![codeOf[r]] = NoRoom]
            <4>1. home[q] # r
                BY <1>1, <2>3, <3>2 DEF In
            <4>2. codeOf[home[q]] # codeOf[r]
                BY <1>2, <2>2, <4>1, SmoothFacts DEF CodesAreFresh
            <4> QED BY <1>1, <2>2, <3>2, <4>2 DEF RoomAt
        <3> QED BY <1>1, <3>1, <3>2
    <2> QED BY <1>1, <2>2, <2>3, <2>4
<1>13. Active'
    BY <1>1, <1>9, <1>10, SmoothFacts DEF Active
<1>14. NoneExpired' /\ LeaversGone'
    BY <1>1, <1>9, SmoothFacts DEF NoneExpired, LeaversGone
<1>15. HostFirst'
    BY <1>1, <1>9, SmoothFacts DEF HostFirst, Unasked, SameSignals
<1>16. \A q \in Peers : role[q] = "host" => home[q] \in Rooms
    BY SmoothFacts DEF RoomsKnown, Sound, TypeOK
<1>17. ASSUME NEW h \in Peers, role[h] = "host", NEW q \in Peers, In(home[h], q)'
       PROVE  /\ In(home[h], q)
              /\ \E i \in DOMAIN members'[home[h]] : members'[home[h]][i] = q
    <2>1. \E i \in DOMAIN members'[home[h]] : members'[home[h]][i] = q
        BY <1>1, <1>17 DEF In
    <2> QED BY <1>7, <1>16, <1>17, <2>1 DEF In
<1>18. JoinersStay'
    <2> SUFFICES ASSUME NEW h \in Peers, NEW j \in Peers, role'[h] = "host", role'[j] # "host",
                        home'[j] = home'[h], In(home[h], h)'
                 PROVE  ~Brings(inbox'[j], {"peer-left"}) /\ sig'[j] # "closed"
        BY DEF JoinersStay, In
    <2>1. role[h] = "host" /\ role[j] # "host" /\ home[j] = home[h] /\ In(home[h], h)
        BY <1>1, <1>17
    <2>2. ~Brings(inbox[j], {"peer-left"}) /\ sig[j] # "closed"
        BY <2>1, SmoothFacts DEF JoinersStay
    <2>3. j \notin told
        <3> SUFFICES ASSUME j \in told PROVE FALSE
            OBVIOUS
        <3>1. gone /\ j # p /\ In(r, j) /\ In(r, p)
            BY <1>g, <1>10
        <3>2. home[j] = r
            BY <1>2, <3>1, MembersFew, SmoothFacts
        <3>3. In(r, h)'
            BY <1>1, <2>1, <3>2 DEF In
        <3>4. h # p /\ In(r, h) /\ h # j
            BY <1>11, <2>1, <3>1, <3>2, <3>3
        <3>5. h \in {j, p}
            BY <1>2, <3>1, <3>4, MembersFew, SmoothFacts
        <3> QED BY <3>4, <3>5
    <2> QED BY <1>1, <1>9, <2>2, <2>3
<1>19. Staged'
    <2> SUFFICES ASSUME NEW h \in Peers, NEW j \in Peers, UnderWay(h, j)' PROVE Stage(h, j)'
        BY DEF Staged
    <2>1. role[h] = "host" /\ stream[h] # NoConn /\ stream[j] # NoConn /\ home[j] = home[h]
        BY <1>1 DEF UnderWay, Pair
    <2>2. In(home[h], h) /\ In(home[j], j)
        BY <2>1, Present
    <2>3. UnderWay(h, j)
        BY <1>1, <1>9, <2>1, <2>2 DEF UnderWay, Pair, HostEvents
    <2>4. Stage(h, j)
        BY <2>3, SmoothFacts DEF Staged
    <2> QED BY <1>1, <1>9, <2>4, StageStays, SmoothFacts
<1> QED BY <1>12, <1>13, <1>14, <1>15, <1>18, <1>19 DEF CalmInv

\* What the daemon purges has no stream while it is calm.
LEMMA ExpireStaysCalm ==
    ASSUME Smooth, Expire
    PROVE  CalmInv'
<1> DEFINE expired == {p \in Peers : \E r \in Stale : In(r, p)}
<1>1. /\ Write(Reached(expired), "room-expired") /\ got' = got
      /\ rooms' = [code \in Codes |-> IF rooms[code] \in Stale THEN NoRoom ELSE rooms[code]]
      /\ wire' = [c \in Conns |-> IF \E p \in expired : stream[p] = c THEN "ended" ELSE wire[c]]
      /\ UNCHANGED <<codeOf, members, role, home, stream, queued, pending, outbox, content, pc, sig, remote, failed>>
    BY DEF Expire, Purge
<1>2. \A q \in expired : stream[q] = NoConn
    <2> SUFFICES ASSUME NEW q \in expired, stream[q] # NoConn PROVE FALSE
        OBVIOUS
    <2>1. q \in Peers /\ stream[q] \in Conns
        BY Present
    <2>2. wire'[stream[q]] = "ended"
        BY <1>1, <2>1
    <2> QED BY <2>1, <2>2, SmoothFacts DEF Calm
<1>3. Reached(expired) = {}
    BY <1>2, SmoothFacts DEF Reached
<1>4. \A q \in Peers : inbox'[q] = inbox[q]
    BY <1>1, <1>3, CalmWrite
<1>5. Seated'
    <2> SUFFICES ASSUME NEW q \in Peers, stream'[q] # NoConn
                 PROVE  sig'[q] # "gone" /\ In(home[q], q)' /\ RoomAt(q)' = home'[q]
        BY DEF Seated
    <2>1. /\ sig[q] # "gone" /\ In(home[q], q) /\ RoomAt(q) = home[q] /\ home[q] \in Rooms
          /\ codeOf[home[q]] \in Codes
        BY <1>1, Present
    <2>2. home[q] \notin Stale
        BY <1>1, <1>2, <2>1
    <2>3. RoomAt(q)' = home'[q]
        BY <1>1, <2>1, <2>2 DEF RoomAt
    <2> QED BY <1>1, <2>1, <2>3 DEF In
<1>6. Active' /\ NoneExpired' /\ LeaversGone' /\ HostFirst' /\ JoinersStay'
    BY <1>1, <1>4, SmoothFacts DEF Active, NoneExpired, LeaversGone, HostFirst, Unasked, JoinersStay, In
<1>7. Staged'
    <2> SUFFICES ASSUME NEW h \in Peers, NEW j \in Peers, UnderWay(h, j)' PROVE Stage(h, j)'
        BY DEF Staged
    <2>1. UnderWay(h, j)
        BY <1>1, <1>4 DEF UnderWay, Pair, In
    <2>2. Stage(h, j)
        BY <2>1, SmoothFacts DEF Staged
    <2> QED BY <1>1, <1>4, <2>2, StageStays, SmoothFacts DEF SameSignals
<1> QED BY <1>5, <1>6, <1>7 DEF CalmInv

LEMMA SilenceStaysCalm ==
    ASSUME Smooth, UNCHANGED <<rooms, codeOf, members, role, home, stream, queued>>, UNCHANGED pageVars,
           \A req \in pending' : req \in pending \/ req.kind # "leave"
    PROVE  CalmInv'
<1>1. Seated' /\ Active' /\ NoneExpired' /\ LeaversGone' /\ HostFirst' /\ JoinersStay'
    BY SmoothFacts DEF Seated, RoomAt, In, Active, NoneExpired, LeaversGone, HostFirst, Unasked, JoinersStay,
       pageVars
<1>2. Staged'
    <2> SUFFICES ASSUME NEW h \in Peers, NEW j \in Peers, UnderWay(h, j)' PROVE Stage(h, j)'
        BY DEF Staged
    <2>1. UnderWay(h, j)
        BY DEF UnderWay, Pair, In, pageVars
    <2>2. Stage(h, j)
        BY <2>1, SmoothFacts DEF Staged
    <2> QED BY <2>2, StageStays, SmoothFacts DEF SameSignals, pageVars
<1> QED BY <1>1, <1>2 DEF CalmInv

\* What a step of page p leaves alone.
OnlyPage(p) ==
    /\ UNCHANGED <<vars, content, failed>>
    /\ \A q \in Peers : q # p =>
          /\ inbox'[q] = inbox[q] /\ outbox'[q] = outbox[q]
          /\ pc'[q] = pc[q] /\ sig'[q] = sig[q] /\ remote'[q] = remote[q]
    /\ \A events : Brings(inbox'[p], events) => Brings(inbox[p], events)
    /\ pc'[p] = pc[p] \/ pc'[p] = pc[p] + 1

\* The parts that any step of a page that is there keeps.
LEMMA PageCalm ==
    ASSUME Smooth, NEW p \in Peers, OnlyPage(p), stream[p] # NoConn, sig'[p] # "gone",
           sig'[p] = "closed" => sig[p] = "closed" \/ Brings(inbox[p], {"peer-left"}),
           \A h \in Peers : UnderWay(h, p)' => Stage(h, p)',
           \A j \in Peers : UnderWay(p, j)' => Stage(p, j)',
           \A h \in Peers : role[h] = "host" /\ home[p] = home[h] /\ pc'[h] = 0 => Unasked(p)'
    PROVE  CalmInv'
<1>1. /\ UNCHANGED <<rooms, codeOf, members, role, home, stream, wire, queued, pending, content>>
      /\ relayed' = relayed
    BY DEF OnlyPage, vars
<1>2. \A q \in Peers : q # p =>
          /\ inbox'[q] = inbox[q] /\ outbox'[q] = outbox[q]
          /\ pc'[q] = pc[q] /\ sig'[q] = sig[q] /\ remote'[q] = remote[q]
    BY DEF OnlyPage
<1>3. \A q \in Peers : \A events : Brings(inbox'[q], events) => Brings(inbox[q], events)
    BY <1>2 DEF OnlyPage
<1>4. Seated'
    <2>1. \A q \in Peers : stream'[q] # NoConn => sig'[q] # "gone"
        BY <1>1, <1>2, SmoothFacts DEF Seated
    <2> QED BY <1>1, <2>1, SmoothFacts DEF Seated, In, RoomAt
<1>5. Active'
    BY <1>1, <1>2, SmoothFacts DEF Active
<1>6. NoneExpired'
    BY <1>3, SmoothFacts DEF NoneExpired
<1>7. LeaversGone'
    <2> SUFFICES ASSUME NEW req \in pending, req.kind = "leave" PROVE sig'[req.peer] = "gone"
        BY <1>1 DEF LeaversGone
    <2>1. req.peer \in Peers /\ sig[req.peer] = "gone"
        BY SmoothFacts DEF Sound, TypeOK, Request, LeaversGone
    <2>2. req.peer # p
        BY <2>1, Present
    <2> QED BY <1>2, <2>1, <2>2
<1>8. HostFirst'
    <2> SUFFICES ASSUME NEW h \in Peers, NEW q \in Peers, role[h] = "host", home[q] = home[h], pc'[h] = 0
                 PROVE  Unasked(q)' /\ Len(queued[home[h]]) = 0
        BY <1>1 DEF HostFirst
    <2>1. pc[h] = 0
        BY <1>2, SmoothFacts DEF OnlyPage, PageTypes
    <2>2. Unasked(q) /\ Len(queued[home[h]]) = 0
        BY <2>1, SmoothFacts DEF HostFirst
    <2>3. CASE q = p
        BY <2>1, <2>2, <2>3
    <2>4. CASE q # p
        BY <1>2, <2>2, <2>4 DEF Unasked
    <2> QED BY <2>2, <2>3, <2>4
<1>9. JoinersStay'
    <2> SUFFICES ASSUME NEW h \in Peers, NEW j \in Peers, role[h] = "host", role[j] # "host",
                        home[j] = home[h], In(home[h], h)
                 PROVE  ~Brings(inbox'[j], {"peer-left"}) /\ sig'[j] # "closed"
        BY <1>1 DEF JoinersStay, In
    <2>1. ~Brings(inbox[j], {"peer-left"}) /\ sig[j] # "closed"
        BY SmoothFacts DEF JoinersStay
    <2> QED BY <1>2, <1>3, <2>1
<1>10. Staged'
    <2> SUFFICES ASSUME NEW h \in Peers, NEW j \in Peers, UnderWay(h, j)' PROVE Stage(h, j)'
        BY DEF Staged
    <2>1. CASE h = p \/ j = p
        BY <2>1
    <2>2. CASE h # p /\ j # p
        <3>1. UnderWay(h, j)
            BY <1>1, <1>2, <2>2 DEF UnderWay, Pair, In
        <3>2. Stage(h, j)
            BY <3>1, SmoothFacts DEF Staged
        <3> QED BY <1>1, <1>2, <2>2, <3>2, StageStays, SmoothFacts DEF SameSignals
    <2> QED BY <2>1, <2>2
<1> QED BY <1>4, <1>5, <1>6, <1>7, <1>8, <1>9, <1>10 DEF CalmInv

\* What a page takes from its inbox.
LEMMA Taken ==
    ASSUME Smooth, NEW p \in Peers, NEW event, Handle(p, event)
    PROVE  /\ inbox[p] # <<>> /\ inbox[p] \in Seq(PageEvent) /\ Head(inbox[p]).event = event
           /\ inbox'[p] = Tail(inbox[p]) /\ \A q \in Peers : q # p => inbox'[q] = inbox[q]
           /\ UNCHANGED <<vars, outbox, content, failed>> /\ Brings(inbox[p], {event})
           /\ \A events : Brings(inbox'[p], events) => Brings(inbox[p], events)
           /\ \A events : event \notin events /\ ~Brings(inbox'[p], events) => ~Brings(inbox[p], events)
           /\ NoSignals(inbox[p]) => NoSignals(inbox'[p]) /\ event # "signal"
           /\ \A n : OnlySignal(inbox[p], n) =>
                IF event = "signal" THEN Head(inbox[p]).n = n /\ NoSignals(inbox'[p])
                ELSE OnlySignal(inbox'[p], n)
           /\ stream[p] # NoConn
<1>1. /\ inbox[p] # <<>> /\ inbox[p] \in Seq(PageEvent) /\ Head(inbox[p]).event = event
      /\ inbox' = [inbox EXCEPT ![p] = Tail(@)] /\ UNCHANGED <<vars, outbox, content, failed>>
    BY SmoothFacts DEF Handle
<1>2. inbox'[p] = Tail(inbox[p]) /\ \A q \in Peers : q # p => inbox'[q] = inbox[q]
    BY <1>1, SmoothFacts
<1>3. stream[p] # NoConn
    BY <1>1, SmoothFacts DEF Active
<1>4. Brings(inbox[p], {event})
    <2>1. Len(inbox[p]) \in Nat /\ Len(inbox[p]) >= 1 /\ Head(inbox[p]) = inbox[p][1]
        BY <1>1, Handled, LenProperties
    <2>2. 1 \in 1..Len(inbox[p]) /\ inbox[p][1].event = event
        BY <1>1, <2>1
    <2> QED BY <2>2 DEF Brings
<1> QED BY <1>1, <1>2, <1>3, <1>4, Handled

LEMMA PairsStay ==
    ASSUME UNCHANGED vars, NEW h \in Peers, NEW j \in Peers
    PROVE  Pair(h, j)' <=> Pair(h, j)
BY DEF vars, Pair, In

\* Before the host's first connection nothing is there to be handled but that a peer came or left.
LEMMA NotAsked ==
    ASSUME Smooth, NEW p \in Peers, OnlyPage(p), NEW h \in Peers,
           role[h] = "host", home[p] = home[h], pc'[h] = 0
    PROVE  /\ Unasked(p) /\ sig[p] \in {"none", "gone"}
           /\ \A j \in Peers : home[j] = home[h] => Unasked(j)
<1>1. pc[h] = 0
    BY SmoothFacts DEF OnlyPage, PageTypes
<1>2. \A j \in Peers : home[j] = home[h] => Unasked(j)
    BY <1>1, SmoothFacts DEF HostFirst
<1>3. Unasked(p)
    BY <1>2
<1> QED BY <1>2, <1>3, SmoothFacts DEF NoneYet, Unasked

LEMMA StageOfHost ==
    ASSUME NEW h \in Peers, NEW j \in Peers, Stage(h, j)
    PROVE  /\ sig[h] \in {"offering", "local", "stable"}
           /\ sig[h] = "offering" => Offering(h, j)
           /\ ~NoSignals(inbox[h]) => Returned(h, j)
           /\ ~NoSignals(inbox[j]) => Received(h, j)
           /\ pc[j] # 0 => sig[j] \in {"answering", "stable"}
           /\ sig[j] = "answering" /\ pc[j] # 0 => Answering(h, j)
BY DEF Stage, Offering, Offered, Received, Answering, Answered, Returned, Connected, Unasked, Asked

LEMMA PeerStaysCalm ==
    ASSUME Smooth, NEW p \in Peers, NEW event, HandlePeer(p, event)
    PROVE  CalmInv'
<1>1. event \in HostEvents /\ Handle(p, event) /\ event # "signal" /\ event # "peer-left"
    BY DEF HandlePeer, HostEvents
<1>2. /\ inbox'[p] = Tail(inbox[p]) /\ \A q \in Peers : q # p => inbox'[q] = inbox[q]
      /\ UNCHANGED <<vars, outbox, content, failed>>
      /\ \A events : Brings(inbox'[p], events) => Brings(inbox[p], events)
      /\ SameSignals(p) /\ stream[p] # NoConn
    BY <1>1, Taken DEF SameSignals
<1>3. UNCHANGED <<rooms, codeOf, members, role, home, stream, relayed>>
    BY <1>2 DEF vars
<1>4. /\ pc \in [Peers -> Nat] /\ sig \in [Peers -> Doing] /\ remote \in [Peers -> 0..MaxPc]
    BY SmoothFacts DEF PageTypes, Doing
<1>5. sig[p] # "gone"
    BY <1>2, Present
<1>6. CASE Offers(p)
    <2>1. /\ role[p] = "host" /\ pc' = [pc EXCEPT ![p] = @ + 1] /\ sig' = [sig EXCEPT ![p] = "offering"]
          /\ remote' = [remote EXCEPT ![p] = 0]
        BY <1>6 DEF Offers, HandlePeer, NewConnection
    <2>2. /\ pc'[p] = pc[p] + 1 /\ sig'[p] = "offering"
          /\ \A q \in Peers : q # p => pc'[q] = pc[q] /\ sig'[q] = sig[q] /\ remote'[q] = remote[q]
        BY <1>4, <2>1
    <2>3. OnlyPage(p)
        BY <1>2, <2>2 DEF OnlyPage
    <2>4. ASSUME NEW j \in Peers, UnderWay(p, j)' PROVE Stage(p, j)'
        <3>1. pc[p] = 0 /\ Pair(p, j) /\ j # p /\ home[j] = home[p]
            BY <1>2, <1>4, <2>2, <2>4, PairsStay DEF UnderWay, Pair
        <3>2. Unasked(p) /\ Unasked(j)
            BY <2>1, <3>1, SmoothFacts DEF HostFirst
        <3>3. Offering(p, j)'
            BY <1>2, <2>2, <3>1, <3>2 DEF Offering, Unasked, SameSignals
        <3> QED BY <3>3 DEF Stage
    <2>5. \A h \in Peers : UnderWay(h, p)' => h = p
        BY <1>2, <2>1, PairsStay, SmoothFacts DEF UnderWay, Pair, RoomsKnown
    <2>6. \A h \in Peers : role[h] = "host" /\ home[p] = home[h] /\ pc'[h] = 0 => Unasked(p)'
        <3> SUFFICES ASSUME NEW h \in Peers, role[h] = "host", home[p] = home[h], pc'[h] = 0 PROVE FALSE
            OBVIOUS
        <3>1. h = p
            BY <2>1, SmoothFacts DEF RoomsKnown
        <3> QED BY <1>4, <2>2, <3>1
    <2> QED BY <1>2, <2>2, <2>3, <2>4, <2>5, <2>6, PageCalm
<1>7. CASE ~Offers(p)
    <2>1. UNCHANGED <<pc, sig, remote>> /\ role[p] # "host"
        BY <1>7 DEF Offers, HandlePeer, Keep
    <2>2. OnlyPage(p)
        BY <1>2, <2>1 DEF OnlyPage
    <2>3. ASSUME NEW h \in Peers, UnderWay(h, p)' PROVE Stage(h, p)'
        <3>1. h # p /\ UnderWay(h, p)
            BY <1>2, <2>1, <2>3, PairsStay DEF UnderWay, Pair
        <3>2. Stage(h, p)
            BY <3>1, SmoothFacts DEF Staged
        <3>3. SameSignals(h)
            BY <1>2, <3>1 DEF SameSignals
        <3> QED BY <1>2, <2>1, <3>2, <3>3, StageStays, SmoothFacts
    <2>4. \A j \in Peers : ~UnderWay(p, j)'
        BY <1>2, <2>1, PairsStay DEF UnderWay, Pair
    <2>5. \A h \in Peers : role[h] = "host" /\ home[p] = home[h] /\ pc'[h] = 0 => Unasked(p)'
        BY <1>2, <2>1, <2>2, NotAsked DEF Unasked, SameSignals
    <2> QED BY <1>2, <1>5, <2>1, <2>2, <2>3, <2>4, <2>5, PageCalm
<1> QED BY <1>6, <1>7

LEMMA PeerLeftStaysCalm ==
    ASSUME Smooth, NEW p \in Peers, HandlePeerLeft(p)
    PROVE  CalmInv'
<1>1. Handle(p, "peer-left") /\ sig' = [sig EXCEPT ![p] = IF pc[p] = 0 THEN @ ELSE "closed"]
      /\ UNCHANGED <<pc, remote>>
    BY DEF HandlePeerLeft
<1>2. /\ \A q \in Peers : q # p => inbox'[q] = inbox[q]
      /\ UNCHANGED <<vars, outbox, content, failed>>
      /\ \A events : Brings(inbox'[p], events) => Brings(inbox[p], events)
      /\ SameSignals(p) /\ stream[p] # NoConn /\ Brings(inbox[p], {"peer-left"})
    BY <1>1, Taken DEF SameSignals
<1>3. sig \in [Peers -> Doing] /\ sig[p] # "gone"
    BY <1>2, Present, SmoothFacts DEF PageTypes, Doing
<1>4. /\ sig'[p] = IF pc[p] = 0 THEN sig[p] ELSE "closed"
      /\ \A q \in Peers : q # p => sig'[q] = sig[q]
    BY <1>1, <1>3
<1>5. OnlyPage(p)
    BY <1>1, <1>2, <1>4 DEF OnlyPage
<1>6. ASSUME NEW h \in Peers PROVE ~UnderWay(h, p)'
    <2> SUFFICES ASSUME UnderWay(h, p)' PROVE FALSE
        OBVIOUS
    <2>1. Pair(h, p)
        BY <1>2, PairsStay DEF UnderWay
    <2>2. role[h] = "host" /\ h # p /\ home[p] = home[h] /\ In(home[h], h) /\ role[p] # "host"
        BY <2>1, SmoothFacts DEF Pair, RoomsKnown
    <2> QED BY <1>2, <2>2, SmoothFacts DEF JoinersStay
<1>7. \A j \in Peers : ~UnderWay(p, j)'
    BY <1>1, <1>4 DEF UnderWay
<1>8. \A h \in Peers : role[h] = "host" /\ home[p] = home[h] /\ pc'[h] = 0 => Unasked(p)'
    BY <1>1, <1>2, <1>5, NotAsked DEF Unasked, SameSignals
<1> QED BY <1>2, <1>3, <1>4, <1>5, <1>6, <1>7, <1>8, PageCalm

LEMMA OfferReadyStaysCalm ==
    ASSUME Smooth, NEW p \in Peers, OfferReady(p)
    PROVE  CalmInv'
<1>1. /\ sig[p] = "offering" /\ sig' = [sig EXCEPT ![p] = "local"]
      /\ outbox' = [outbox EXCEPT ![p] = @ \cup {[type |-> "offer", pc |-> pc[p]]}]
      /\ UNCHANGED <<vars, inbox, content, pc, remote, failed>>
    BY DEF OfferReady
<1>2. sig \in [Peers -> Doing] /\ outbox \in [Peers -> SUBSET Message] /\ pc[p] # 0
    BY <1>1, SmoothFacts DEF PageTypes, Doing, NoneYet
<1>3. stream[p] # NoConn
    BY <1>2, SmoothFacts DEF Active
<1>4. /\ sig'[p] = "local" /\ outbox'[p] = outbox[p] \cup {[type |-> "offer", pc |-> pc[p]]}
      /\ \A q \in Peers : q # p => sig'[q] = sig[q] /\ outbox'[q] = outbox[q]
    BY <1>1, <1>2
<1>5. OnlyPage(p)
    BY <1>1, <1>4 DEF OnlyPage
<1>6. ASSUME NEW j \in Peers, UnderWay(p, j)' PROVE Stage(p, j)'
    <2>1. UnderWay(p, j) /\ pc[p] = 1 /\ j # p
        BY <1>1, <1>6, PairsStay DEF UnderWay, Pair
    <2>2. Offering(p, j)
        BY <1>1, <2>1, StageOfHost, SmoothFacts DEF Staged
    <2>3. Offered(p, j)'
        BY <1>1, <1>4, <2>1, <2>2 DEF Offering, Offered, Offer1, Unasked
    <2> QED BY <2>3 DEF Stage
<1>7. ASSUME NEW h \in Peers, UnderWay(h, p)' PROVE Stage(h, p)'
    <2>1. UnderWay(h, p)
        BY <1>1, <1>4, <1>7, PairsStay DEF UnderWay, Pair
    <2> QED BY <1>1, <1>2, <2>1, StageOfHost, SmoothFacts DEF Staged
<1>8. \A h \in Peers : role[h] = "host" /\ home[p] = home[h] /\ pc'[h] = 0 => Unasked(p)'
    BY <1>1, <1>5, NotAsked
<1> QED BY <1>3, <1>4, <1>5, <1>6, <1>7, <1>8, PageCalm

LEMMA AnswerReadyStaysCalm ==
    ASSUME Smooth, NEW p \in Peers, AnswerReady(p)
    PROVE  CalmInv'
<1>1. /\ sig[p] = "answering" /\ sig' = [sig EXCEPT ![p] = "stable"]
      /\ outbox' = [outbox EXCEPT ![p] = @ \cup {[type |-> "answer", pc |-> pc[p]]}]
      /\ UNCHANGED <<vars, inbox, content, pc, remote, failed>>
    BY DEF AnswerReady
<1>2. sig \in [Peers -> Doing] /\ outbox \in [Peers -> SUBSET Message] /\ pc[p] # 0
    BY <1>1, SmoothFacts DEF PageTypes, Doing, NoneYet
<1>3. stream[p] # NoConn
    BY <1>2, SmoothFacts DEF Active
<1>4. /\ sig'[p] = "stable" /\ outbox'[p] = outbox[p] \cup {[type |-> "answer", pc |-> pc[p]]}
      /\ \A q \in Peers : q # p => sig'[q] = sig[q] /\ outbox'[q] = outbox[q]
    BY <1>1, <1>2
<1>5. OnlyPage(p)
    BY <1>1, <1>4 DEF OnlyPage
<1>6. ASSUME NEW j \in Peers, UnderWay(p, j)' PROVE Stage(p, j)'
    <2>1. UnderWay(p, j)
        BY <1>1, <1>6, PairsStay DEF UnderWay, Pair
    <2> QED BY <1>1, <2>1, StageOfHost, SmoothFacts DEF Staged
<1>7. ASSUME NEW h \in Peers, UnderWay(h, p)' PROVE Stage(h, p)'
    <2>1. UnderWay(h, p) /\ h # p
        BY <1>1, <1>4, <1>7, PairsStay DEF UnderWay, Pair
    <2>2. Answering(h, p)
        BY <1>1, <1>2, <2>1, StageOfHost, SmoothFacts DEF Staged
    <2>3. Answered(h, p)'
        BY <1>1, <1>4, <2>1, <2>2 DEF Answering, Answered, Answer1, Asked
    <2> QED BY <2>3 DEF Stage
<1>8. \A h \in Peers : role[h] = "host" /\ home[p] = home[h] /\ pc'[h] = 0 => Unasked(p)'
    BY <1>1, <1>5, NotAsked
<1> QED BY <1>3, <1>4, <1>5, <1>6, <1>7, <1>8, PageCalm

LEMMA OfferStaysCalm ==
    ASSUME Smooth, NEW p \in Peers, HandleOffer(p)
    PROVE  CalmInv'
<1> DEFINE n == Head(inbox[p]).n
<1>1. /\ Handle(p, "signal") /\ content[n].type = "offer"
      /\ pc' = [pc EXCEPT ![p] = @ + 1] /\ sig' = [sig EXCEPT ![p] = "answering"]
      /\ remote' = [remote EXCEPT ![p] = content[n].pc]
    BY DEF HandleOffer, NewConnection
<1>2. /\ \A q \in Peers : q # p => inbox'[q] = inbox[q]
      /\ UNCHANGED <<vars, outbox, content, failed>>
      /\ \A events : Brings(inbox'[p], events) => Brings(inbox[p], events)
      /\ ~NoSignals(inbox[p]) /\ stream[p] # NoConn
      /\ \A m : OnlySignal(inbox[p], m) => n = m /\ NoSignals(inbox'[p])
    BY <1>1, Taken
<1>3. pc \in [Peers -> Nat] /\ sig \in [Peers -> Doing] /\ remote \in [Peers -> 0..MaxPc]
    BY SmoothFacts DEF PageTypes, Doing
<1>4. /\ pc'[p] = pc[p] + 1 /\ sig'[p] = "answering" /\ remote'[p] = content[n].pc
      /\ \A q \in Peers : q # p => pc'[q] = pc[q] /\ sig'[q] = sig[q] /\ remote'[q] = remote[q]
    BY <1>1, <1>3
<1> HIDE DEF n
<1>5. OnlyPage(p)
    BY <1>2, <1>4 DEF OnlyPage
<1>6. ASSUME NEW j \in Peers PROVE ~UnderWay(p, j)'
    <2> SUFFICES ASSUME UnderWay(p, j)' PROVE FALSE
        OBVIOUS
    <2>1. pc[p] = 0 /\ role[p] = "host"
        BY <1>2, <1>3, <1>4, PairsStay DEF UnderWay, Pair
    <2> QED BY <1>2, <2>1, SmoothFacts DEF HostFirst, Unasked
<1>7. ASSUME NEW h \in Peers, UnderWay(h, p)' PROVE Stage(h, p)'
    <2>1. UnderWay(h, p) /\ h # p
        BY <1>2, <1>4, <1>7, PairsStay DEF UnderWay, Pair
    <2>2. Received(h, p)
        BY <1>2, <2>1, StageOfHost, SmoothFacts DEF Staged
    <2>3. PICK m \in 1..MaxSignals : OnlySignal(inbox[p], m) /\ content[m] = Offer1
        BY <2>2 DEF Received
    <2>4. remote'[p] = 1 /\ NoSignals(inbox'[p])
        BY <1>2, <1>4, <2>3 DEF Offer1
    <2>5. pc'[p] = 1
        BY <1>4, <2>2 DEF Received
    <2>6. Answering(h, p)'
        BY <1>2, <1>4, <2>1, <2>2, <2>4, <2>5 DEF Received, Answering, Asked
    <2> QED BY <2>6 DEF Stage
<1>8. \A h \in Peers : role[h] = "host" /\ home[p] = home[h] /\ pc'[h] = 0 => Unasked(p)'
    BY <1>2, <1>5, NotAsked DEF Unasked
<1> QED BY <1>2, <1>4, <1>5, <1>6, <1>7, <1>8, PageCalm

LEMMA AnswerStaysCalm ==
    ASSUME Smooth, NEW p \in Peers, HandleAnswer(p)
    PROVE  CalmInv'
<1> DEFINE n == Head(inbox[p]).n
<1>1. /\ Handle(p, "signal") /\ content[n].type = "answer" /\ pc' = pc
      /\ IF Accepts(p)
         THEN sig' = [sig EXCEPT ![p] = "stable"] /\ remote' = [remote EXCEPT ![p] = content[n].pc]
         ELSE UNCHANGED <<sig, remote>>
    BY DEF HandleAnswer, Keep
<1>2. /\ \A q \in Peers : q # p => inbox'[q] = inbox[q]
      /\ UNCHANGED <<vars, outbox, content, failed>>
      /\ \A events : Brings(inbox'[p], events) => Brings(inbox[p], events)
      /\ ~NoSignals(inbox[p]) /\ stream[p] # NoConn
      /\ \A m : OnlySignal(inbox[p], m) => n = m /\ NoSignals(inbox'[p])
      /\ ~Brings(inbox'[p], HostEvents) => ~Brings(inbox[p], HostEvents)
    BY <1>1, Taken DEF HostEvents
<1>3. sig \in [Peers -> Doing] /\ remote \in [Peers -> 0..MaxPc] /\ sig[p] # "gone"
    BY <1>2, Present, SmoothFacts DEF PageTypes, Doing
<1>4. /\ Accepts(p) => sig'[p] = "stable" /\ remote'[p] = content[n].pc
      /\ ~Accepts(p) => sig'[p] = sig[p] /\ remote'[p] = remote[p]
      /\ \A q \in Peers : q # p => sig'[q] = sig[q] /\ remote'[q] = remote[q]
    BY <1>1, <1>3
<1> HIDE DEF n
<1>5. OnlyPage(p)
    BY <1>1, <1>2, <1>4 DEF OnlyPage
<1>6. ASSUME NEW j \in Peers, UnderWay(p, j)' PROVE Stage(p, j)'
    <2>1. Pair(p, j) /\ pc[p] = 1 /\ ~Brings(inbox[p], HostEvents) /\ j # p
        BY <1>1, <1>2, <1>6, PairsStay DEF UnderWay, Pair
    <2>2. sig[p] # "closed"
        BY <1>4, <1>6 DEF UnderWay, Accepts
    <2>3. Returned(p, j)
        BY <1>2, <2>1, <2>2, StageOfHost, SmoothFacts DEF Staged, UnderWay
    <2>4. PICK m \in 1..MaxSignals : OnlySignal(inbox[p], m) /\ content[m] = Answer1
        BY <2>3 DEF Returned
    <2>5. Accepts(p)
        BY <2>3 DEF Returned, Accepts
    <2>6. sig'[p] = "stable" /\ remote'[p] = 1 /\ NoSignals(inbox'[p])
        BY <1>2, <1>4, <2>4, <2>5 DEF Answer1
    <2>7. Connected(p, j)'
        BY <1>1, <1>2, <1>4, <2>1, <2>3, <2>6 DEF Returned, Connected, Asked
    <2> QED BY <2>7 DEF Stage
<1>7. ASSUME NEW h \in Peers, UnderWay(h, p)' PROVE Stage(h, p)'
    <2>1. UnderWay(h, p)
        BY <1>1, <1>2, <1>4, <1>7, PairsStay DEF UnderWay, Pair
    <2>2. Received(h, p)
        BY <1>2, <2>1, StageOfHost, SmoothFacts DEF Staged
    <2>3. PICK m \in 1..MaxSignals : OnlySignal(inbox[p], m) /\ content[m] = Offer1
        BY <2>2 DEF Received
    <2> QED BY <1>1, <1>2, <2>3 DEF Offer1
<1>8. \A h \in Peers : role[h] = "host" /\ home[p] = home[h] /\ pc'[h] = 0 => Unasked(p)'
    BY <1>2, <1>5, NotAsked DEF Unasked
<1> QED BY <1>2, <1>3, <1>4, <1>5, <1>6, <1>7, <1>8, PageCalm DEF Accepts

LEMMA PagesStayCalm ==
    ASSUME Smooth, NEW p \in Peers, PageStep(p)
    PROVE  CalmInv'
<1>1. ~HandleExpired(p)
    <2> SUFFICES ASSUME HandleExpired(p) PROVE FALSE
        OBVIOUS
    <2>1. inbox[p] \in Seq(PageEvent) /\ inbox[p] # <<>> /\ Head(inbox[p]).event = "room-expired"
        BY SmoothFacts DEF HandleExpired
    <2>2. Len(inbox[p]) \in Nat /\ Len(inbox[p]) >= 1 /\ Head(inbox[p]) = inbox[p][1]
        BY <2>1, Handled, LenProperties
    <2>3. 1 \in 1..Len(inbox[p]) /\ inbox[p][1].event = "room-expired"
        BY <2>1, <2>2
    <2>4. Brings(inbox[p], {"room-expired"})
        BY <2>3 DEF Brings
    <2> QED BY <2>4, SmoothFacts DEF NoneExpired
<1> QED BY <1>1, PeerStaysCalm, PeerLeftStaysCalm, OfferReadyStaysCalm, OfferStaysCalm, AnswerReadyStaysCalm,
           AnswerStaysCalm DEF PageStep

LEMMA ArriveStaysCalm ==
    ASSUME Smooth, NEW p \in Peers, Arrive(p)
    PROVE  CalmInv'
<1>1. UNCHANGED pageVars /\ UNCHANGED <<rooms, codeOf, members, role, home, stream, queued>>
    BY DEF Arrive, RequestArrives
<1>2. \A req \in pending' : req \in pending \/ req.kind # "leave"
    BY DEF Arrive, RequestArrives
<1> QED BY <1>1, <1>2, SilenceStaysCalm

LEMMA CalmStays ==
    ASSUME Smooth, [HandshakeNext]_hsVars
    PROVE  CalmInv'
<1>1. ASSUME NEW c \in Conns, Lose(c) \/ Close(c) PROVE FALSE
    <2>1. wire \in [Conns -> Wires]
        BY SmoothFacts DEF Sound, TypeOK
    <2>2. wire'[c] \notin {"unused", "open"}
        BY <1>1, <2>1 DEF Lose, LoseStream, Close, CloseStream
    <2> QED BY <2>2, SmoothFacts DEF Calm
<1>2. ASSUME NEW req \in pending, NEW m \in outbox[req.peer] PROVE ~Fail(req, m)
    BY SmoothFacts DEF Calm, Fail
<1>3. ASSUME NEW p \in Peers, NEW m \in outbox[p] PROVE ~Refused(p, m)
    BY SmoothFacts DEF Calm, Refused
<1>4. CASE HandshakeTick
    BY <1>4, SilenceStaysCalm DEF HandshakeTick, Tick
<1>5. CASE UNCHANGED hsVars
    BY <1>5, SilenceStaysCalm DEF hsVars, vars
<1> QED BY <1>1, <1>2, <1>3, <1>4, <1>5, CreateStaysCalm, JoinStaysCalm, OpenStaysCalm, ArriveStaysCalm,
           RelayStaysCalm, GoodbyeStaysCalm, LeftStaysCalm, ExpireStaysCalm, PagesStayCalm DEF HandshakeNext

LEMMA OfferKept ==
    ASSUME OfferInv, CodesAreFresh', [Next]_vars, [HandshakeNext]_hsVars
    PROVE  OfferInv'
<1>1. PagesInv /\ PagesInv' /\ Sound /\ RoomsKnown'
    BY PagesKept, RoomsKnownKept DEF OfferInv, PagesInv, RelayInv
<1>2. ASSUME Calm' PROVE CalmInv'
    <2>1. Calm
        BY <1>1, <1>2, WasCalm
    <2>2. Smooth
        BY <1>1, <1>2, <2>1 DEF Smooth, OfferInv
    <2> QED BY <2>2, CalmStays
<1> QED BY <1>1, <1>2 DEF OfferInv

LEMMA OfferFromTheStart == HandshakeInit /\ PagesInv => RoomsKnown /\ CalmInv
<1> SUFFICES ASSUME HandshakeInit, PagesInv PROVE RoomsKnown /\ CalmInv
    OBVIOUS
<1>1. /\ \A p \in Peers : role[p] = "none" /\ stream[p] = NoConn /\ pc[p] = 0 /\ outbox[p] = {} /\ inbox[p] = <<>>
                          /\ home[p] = NoRoom
      /\ pending = {} /\ \A r \in Rooms : codeOf[r] = NoCode /\ queued[r] = <<>>
      /\ \A code \in Codes : rooms[code] = NoRoom
    BY DEF HandshakeInit, Init
<1>2. RoomsKnown
    BY <1>1 DEF RoomsKnown
<1>3. \A p \in Peers : \A events : ~Brings(inbox[p], events)
    BY <1>1, NothingSaid
<1>4. CalmInv
    BY <1>1, <1>3 DEF CalmInv, Seated, Active, NoneExpired, LeaversGone, HostFirst, JoinersStay, Staged, UnderWay,
       Pair
<1> QED BY <1>2, <1>4

LEMMA OfferHolds == HandshakeSpec /\ []CodesAreFresh => []OfferInv
<1>1. HandshakeInit /\ PagesInv /\ CodesAreFresh => OfferInv
    BY OfferFromTheStart DEF OfferInv
<1>2. OfferInv /\ CodesAreFresh' /\ [Next]_vars /\ [HandshakeNext]_hsVars => OfferInv'
    BY OfferKept
<1> QED BY <1>1, <1>2, PagesHold, PagesUseTheRelay, PTL DEF HandshakeSpec, Spec

LEMMA OneOfferSeen == ASSUME OfferInv PROVE OneOfferConnects
<1> SUFFICES ASSUME NEW r \in Rooms, Quiet, Undisturbed(r), pc[members[r][1]] = 1
             PROVE  Paired(members[r][1], members[r][2])
    BY DEF OneOfferConnects
<1> DEFINE a == members[r][1]
           b == members[r][2]
<1>1. Calm
    BY DEF Undisturbed, Calm
<1>2. /\ Sound /\ RoomsKnown /\ Seated /\ Active /\ HostFirst /\ Staged /\ PageTypes
    BY <1>1 DEF OfferInv, PagesInv, RelayInv, CalmInv
<1>3. members[r] \in Seq(Peers) /\ Len(members[r]) = 2 /\ LineOf(members[r])
    BY <1>2 DEF Undisturbed, Sound, TypeOK, MembersAreHome
<1>4. 1 \in 1..Len(members[r]) /\ 2 \in 1..Len(members[r]) /\ DOMAIN members[r] = 1..Len(members[r])
    BY <1>3, LenProperties
<1>5. a \in Peers /\ b \in Peers /\ a # b
    BY <1>3, <1>4, ElementOfSeq DEF LineOf
<1>6. /\ home[a] = r /\ home[b] = r /\ (role[b] = "host" => 2 = 1) /\ In(r, a) /\ In(r, b)
    BY <1>2, <1>4 DEF Sound, MembersAreHome, In
<1>7. a \in ToSet(members[r]) /\ b \in ToSet(members[r])
    BY <1>4 DEF ToSet
<1> HIDE DEF a, b
<1>8. stream[a] # NoConn /\ stream[b] # NoConn /\ sig[a] # "closed"
    BY <1>7 DEF Undisturbed, Reaches
<1>9. pc[a] = 1
    BY DEF a
<1>10. role[a] = "host"
    <2>1. PICK x \in Peers : role[x] = "host" /\ home[x] = r
        <3>1. home[a] # NoRoom
            BY <1>6, MarkersAssumption
        <3>2. codeOf[r] # NoCode
            BY <1>2, <1>5, <1>6, <3>1 DEF Sound, HomesHaveCodes
        <3> QED BY <1>2, <3>2 DEF RoomsKnown
    <2>2. pc[x] # 0
        BY <1>2, <1>5, <1>6, <1>9, <2>1 DEF HostFirst, Unasked
    <2>3. In(r, x)
        BY <1>2, <2>1, <2>2 DEF Active, Seated
    <2>4. x \in {a, b}
        BY <1>2, <1>5, <1>6, <2>3, MembersFew
    <2> QED BY <1>6, <2>1, <2>4
<1>11. \A p \in Peers : inbox[p] = <<>> /\ outbox[p] = {} /\ sig[p] \notin {"offering", "answering"}
    BY DEF Quiet
<1>12. \A p \in Peers : NoSignals(inbox[p]) /\ (\A n : ~OnlySignal(inbox[p], n)) /\ ~Brings(inbox[p], HostEvents)
    <2>1. Len(<<>>) = 0 /\ NoSignals(<<>>) /\ ~Brings(<<>>, HostEvents)
        BY NothingSaid
    <2>2. \A n : ~OnlySignal(<<>>, n)
        BY <2>1 DEF OnlySignal
    <2> QED BY <1>11, <2>1, <2>2
<1>13. UnderWay(a, b)
    BY <1>5, <1>6, <1>8, <1>9, <1>10, <1>12 DEF UnderWay, Pair
<1>14. Stage(a, b)
    BY <1>2, <1>5, <1>13 DEF Staged
<1>15. Connected(a, b)
    BY <1>5, <1>11, <1>12, <1>14 DEF Stage, Offering, Offered, Received, Answering, Answered, Returned
<1>16. Paired(a, b)
    BY <1>9, <1>15 DEF Connected, Asked, Paired
<1> QED BY <1>16 DEF a, b

\* When no code is given to two rooms, one offer is enough: whatever the order in
\* which its messages are queued, handed over and handled, the handshake of an
\* undisturbed room comes to rest with the two newest connections paired
\* (p2p-client.js:225-360, p2p-signaling.js:245-360).
THEOREM OneOfferIsEnough == HandshakeSpec /\ []CodesAreFresh => []HandshakeIsSound
<1>1. OfferInv => OneOfferConnects
    BY OneOfferSeen
<1> QED BY <1>1, OfferHolds, HandshakeTypes, PTL DEF HandshakeIsSound
=============================================================================
