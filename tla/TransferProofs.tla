--------------------------- MODULE TransferProofs ---------------------------
(***************************************************************************)
(* Theorems about the file transfer, for any files, chunks and watermarks: *)
(* the buffer stays bounded whatever calls run side by side, and a single  *)
(* call delivers its files whole and in order, that is, implements         *)
(* FileCopy.                                                               *)
(***************************************************************************)
EXTENDS P2pTransfer, TLAPS, FiniteSetTheorems, SequenceTheorems, WellFoundedInduction

-----------------------------------------------------------------------------
(* Numbers and sequences *)

LEMMA LeastNumber ==
    ASSUME NEW S \in SUBSET Nat, S # {}
    PROVE  \E m \in S : \A k \in S : m <= k
<1>1. PICK m \in S : \A k \in S : ~ (<<k, m>> \in OpToRel(<, Nat))
  BY NatLessThanWellFounded, WFMin
<1>2. ASSUME NEW k \in S PROVE m <= k
  <2>1. <<k, m>> \in Nat \X Nat /\ <<k, m>>[1] = k /\ <<k, m>>[2] = m
    OBVIOUS
  <2>. QED
    BY <1>1, <2>1 DEF OpToRel
<1>. QED
  BY <1>2

\* What FlattenSeq's recursive function is, part by part.
Sums(g, s, m) == g = [i \in 1..m |-> IF i = 1 THEN s[i] ELSE g[i - 1] \o s[i]]

LEMMA SumsExist ==
    ASSUME NEW s, NEW n \in Nat \ {0}
    PROVE  \E g : Sums(g, s, n)
<1> DEFINE Bad == {m \in 1..n : ~ \E g : Sums(g, s, m)}
<1>1. SUFFICES ASSUME Bad # {} PROVE FALSE
  <2>1. n \in 1..n
    OBVIOUS
  <2>. QED
    BY <1>1, <2>1
<1>2. Bad \in SUBSET Nat
  OBVIOUS
<1>3. PICK m \in Bad : \A k \in Bad : m <= k
  <2> HIDE DEF Bad
  <2>. QED
    BY <1>1, <1>2, LeastNumber
<1>4. m \in 1..n /\ ~ \E g : Sums(g, s, m)
  OBVIOUS
<1>5. m # 1
  <2>1. Sums([i \in 1..1 |-> s[i]], s, 1)
    BY DEF Sums
  <2>. QED
    BY <1>4, <2>1
<1>6. m - 1 \in 1..n /\ m - 1 \notin Bad
  <2>1. m \in Nat /\ m - 1 \in 1..n /\ ~(m <= m - 1)
    BY <1>4, <1>5
  <2> HIDE DEF Bad
  <2>. QED
    BY <1>3, <2>1
<1>7. PICK g : Sums(g, s, m - 1)
  BY <1>6
<1> DEFINE h == [i \in 1..m |-> IF i = 1 THEN s[i] ELSE g[i - 1] \o s[i]]
<1>8. ASSUME NEW i \in 1..(m - 1) PROVE h[i] = g[i]
  <2>1. g[i] = IF i = 1 THEN s[i] ELSE g[i - 1] \o s[i]
    BY <1>7 DEF Sums
  <2>2. i \in 1..m
    BY <1>4
  <2>. QED
    BY <2>1, <2>2
<1>9. Sums(h, s, m)
  <2>1. ASSUME NEW i \in 1..m, i # 1 PROVE h[i - 1] = g[i - 1]
    <3>1. i - 1 \in 1..(m - 1)
      BY <1>4, <2>1
    <3> HIDE DEF h
    <3>. QED
      BY <1>8, <3>1
  <2>. QED
    BY <2>1 DEF Sums
<1>. QED
  BY <1>4, <1>9

LEMMA Flattened ==
    ASSUME NEW A, NEW s \in Seq(Seq(A)), s # <<>>
    PROVE  \E g : /\ \A i \in 1..Len(s) : g[i] = IF i = 1 THEN s[i] ELSE g[i - 1] \o s[i]
                  /\ FlattenSeq(s) = g[Len(s)]
<1> DEFINE f == CHOOSE g : g = [i \in 1..Len(s) |-> IF i = 1 THEN s[i] ELSE g[i - 1] \o s[i]]
<1>1. Len(s) \in Nat \ {0}
  BY EmptySeq, LenProperties
<1>2. FlattenSeq(s) = f[Len(s)]
  BY <1>1 DEF FlattenSeq
<1>3. f = [i \in 1..Len(s) |-> IF i = 1 THEN s[i] ELSE f[i - 1] \o s[i]]
  <2>1. \E g : g = [i \in 1..Len(s) |-> IF i = 1 THEN s[i] ELSE g[i - 1] \o s[i]]
    BY <1>1, SumsExist DEF Sums
  <2>. QED
    BY <2>1, Zenon
<1> HIDE DEF f
<1>4. \A i \in 1..Len(s) : f[i] = IF i = 1 THEN s[i] ELSE f[i - 1] \o s[i]
  BY <1>3
<1>. QED
  BY <1>2, <1>4

-----------------------------------------------------------------------------
(* The script of a call *)

LEMMA FileScriptParts ==
    ASSUME NEW f \in Files
    PROVE  /\ FileScript(f) \in Seq(Message)
           /\ Len(FileScript(f)) = ChunkCount[f] + 2
           /\ FileScript(f)[1] = Msg("start", f, 0)
           /\ \A i \in 1..ChunkCount[f] : FileScript(f)[i + 1] = Msg("chunk", f, i)
           /\ FileScript(f)[ChunkCount[f] + 2] = Msg("end", f, 0)
<1> DEFINE c == ChunkCount[f]
           chunks == [i \in 1..c |-> Msg("chunk", f, i)]
           begin == <<Msg("start", f, 0)>>
           finish == <<Msg("end", f, 0)>>
<1>1. c \in Nat
  BY TransferAssumption
<1>2. /\ Msg("start", f, 0) \in Message /\ Msg("end", f, 0) \in Message
      /\ \A i \in 1..c : Msg("chunk", f, i) \in Message
  BY <1>1 DEF Msg, Message
<1>3. /\ chunks \in Seq(Message) /\ Len(chunks) = c
      /\ begin \in Seq(Message) /\ Len(begin) = 1 /\ begin[1] = Msg("start", f, 0)
      /\ finish \in Seq(Message) /\ Len(finish) = 1 /\ finish[1] = Msg("end", f, 0)
  BY <1>1, <1>2
<1>4. \A i \in 1..c : chunks[i] = Msg("chunk", f, i)
  OBVIOUS
<1>5. FileScript(f) = begin \o chunks \o finish
  BY DEF FileScript
<1> HIDE DEF c, chunks, begin, finish
<1> DEFINE front == begin \o chunks
<1>6. /\ front \in Seq(Message) /\ Len(front) = c + 1 /\ front[1] = Msg("start", f, 0)
      /\ \A i \in 1..c : front[i + 1] = Msg("chunk", f, i)
  <2>1. /\ front \in Seq(Message) /\ Len(front) = 1 + c
        /\ \A i \in 1..(1 + c) : front[i] = IF i <= 1 THEN begin[i] ELSE chunks[i - 1]
    BY SMTT(30), <1>3, ConcatProperties
  <2> HIDE DEF front
  <2>2. 1 + c = c + 1 /\ 1 \in 1..(c + 1)
    BY <1>1
  <2>3. front[1] = begin[1]
    BY <2>1, <2>2
  <2>4. ASSUME NEW i \in 1..c PROVE front[i + 1] = chunks[i]
    <3>1. i + 1 \in 1..(c + 1) /\ ~(i + 1 <= 1) /\ (i + 1) - 1 = i
      BY <1>1
    <3>. QED
      BY <2>1, <2>2, <3>1
  <2>. QED
    BY <1>3, <1>4, <2>1, <2>2, <2>3, <2>4
<1> HIDE DEF front
<1>7. /\ front \o finish \in Seq(Message) /\ Len(front \o finish) = c + 2
      /\ \A i \in 1..(c + 1) : (front \o finish)[i] = front[i]
      /\ (front \o finish)[c + 2] = Msg("end", f, 0)
  <2> DEFINE all == front \o finish
  <2>1. /\ all \in Seq(Message) /\ Len(all) = c + 1 + 1
        /\ \A i \in 1..(c + 1 + 1) : all[i] = IF i <= c + 1 THEN front[i] ELSE finish[i - (c + 1)]
    <3>1. /\ all \in Seq(Message) /\ Len(all) = Len(front) + Len(finish)
          /\ \A i \in 1..(Len(front) + Len(finish)) :
                all[i] = IF i <= Len(front) THEN front[i] ELSE finish[i - Len(front)]
      BY <1>3, <1>6, ConcatProperties
    <3> HIDE DEF all
    <3>. QED
      BY <1>3, <1>6, <3>1
  <2> HIDE DEF all
  <2>2. c + 1 + 1 = c + 2 /\ c + 2 \in 1..(c + 2) /\ ~(c + 2 <= c + 1) /\ c + 2 - (c + 1) = 1
    BY <1>1
  <2>3. \A i \in 1..(c + 1) : i \in 1..(c + 2) /\ i <= c + 1
    BY <1>1
  <2>4. all[c + 2] = finish[1]
    <3>1. ASSUME NEW i \in 1..(c + 1 + 1), i = c + 2 PROVE all[i] = finish[1]
      <4>1. ~(i <= c + 1) /\ i - (c + 1) = 1
        BY <1>1, <3>1
      <4>. QED
        BY <2>1, <4>1
    <3>2. c + 2 \in 1..(c + 1 + 1)
      BY <2>2
    <3>. QED
      BY <3>1, <3>2
  <2>5. \A i \in 1..(c + 1) : all[i] = front[i]
    BY <2>1, <2>2, <2>3
  <2>. QED
    BY <1>3, <2>1, <2>2, <2>4, <2>5 DEF all
<1>8. FileScript(f) = front \o finish
  BY <1>5 DEF front
<1>9. \A i \in 1..c : i + 1 \in 1..(c + 1)
  BY <1>1
<1>. QED
  BY <1>1, <1>6, <1>7, <1>8, <1>9 DEF c

\* q has the messages of the first k of the files F, the j-th one those of file at[j]:
\* what each message is follows from the one before it.
Starts(q, at, j) ==
    /\ q[j].i = 0
    /\ IF j = 1 THEN at[j] = 1 ELSE q[j - 1].kind = "end" /\ at[j] = at[j - 1] + 1
Goes(q, at, j) ==
    /\ j # 1 /\ q[j - 1].kind # "end"
    /\ at[j] = at[j - 1] /\ q[j].i = q[j - 1].i + 1
Ends(q, at, j) ==
    /\ j # 1 /\ q[j - 1].kind # "end"
    /\ at[j] = at[j - 1] /\ q[j - 1].i = ChunkCount[q[j].file]
InShape(F, q, at, j) ==
    /\ q[j].file = F[at[j]]
    /\ q[j].kind = "start" => Starts(q, at, j)
    /\ q[j].kind = "chunk" => Goes(q, at, j)
    /\ q[j].kind = "end" => Ends(q, at, j)
Shaped(F, k, q, at) ==
    /\ q \in Seq(Message) /\ at \in [1..Len(q) -> 1..k]
    /\ \A j \in 1..Len(q) : InShape(F, q, at, j)
    /\ IF k = 0 THEN q = <<>> ELSE q # <<>> /\ q[Len(q)].kind = "end" /\ at[Len(q)] = k

LEMMA OneMoreFile ==
    ASSUME NEW F \in Seq(Files), NEW k \in Nat, k < Len(F),
           NEW q, NEW at, Shaped(F, k, q, at)
    PROVE  \E at2 : Shaped(F, k + 1, q \o FileScript(F[k + 1]), at2)
<1> DEFINE f == F[k + 1]
           c == ChunkCount[f]
           n == Len(q)
           s == FileScript(f)
           q2 == q \o s
           at2 == [j \in 1..(n + c + 2) |-> IF j <= n THEN at[j] ELSE k + 1]
<1>1. f \in Files /\ c \in Nat /\ q \in Seq(Message) /\ n \in Nat /\ k + 1 \in Nat
  BY TransferAssumption DEF Shaped
<1>2. /\ s \in Seq(Message) /\ Len(s) = c + 2 /\ s[1] = Msg("start", f, 0)
      /\ \A i \in 1..c : s[i + 1] = Msg("chunk", f, i)
      /\ s[c + 2] = Msg("end", f, 0)
  BY <1>1, FileScriptParts
<1> HIDE DEF f, c, n, s
<1>3. /\ q2 \in Seq(Message) /\ Len(q2) = n + c + 2
      /\ \A j \in 1..n : q2[j] = q[j]
      /\ \A i \in 1..(c + 2) : q2[n + i] = s[i]
  BY SMTT(30), <1>1, <1>2 DEF n
<1> HIDE DEF q2
<1>4. /\ q2[n + 1] = Msg("start", f, 0) /\ q2[n + c + 2] = Msg("end", f, 0)
      /\ \A i \in 1..c : q2[n + 1 + i] = Msg("chunk", f, i)
  <2>1. 1 \in 1..(c + 2) /\ c + 2 \in 1..(c + 2)
    BY <1>1
  <2>2. ASSUME NEW i \in 1..c PROVE q2[n + 1 + i] = Msg("chunk", f, i)
    <3>1. i + 1 \in 1..(c + 2) /\ n + (i + 1) = n + 1 + i
      BY <1>1
    <3>. QED
      BY <1>2, <1>3, <3>1
  <2>3. q2[n + (c + 2)] = q2[n + c + 2]
    BY <1>1
  <2>. QED
    BY <1>2, <1>3, <2>1, <2>2, <2>3
<1>5. at \in [1..n -> 1..k] /\ at2 \in [1..Len(q2) -> 1..(k + 1)]
  BY <1>1, <1>3 DEF Shaped, n
<1>6. /\ \A j \in 1..n : at2[j] = at[j]
      /\ \A j \in (n + 1)..(n + c + 2) : at2[j] = k + 1
  BY <1>1
<1> HIDE DEF at2
<1>7. n = 0 => k = 0
  BY <1>1 DEF Shaped, n
<1>8. n # 0 => q2[n].kind = "end" /\ at2[n] = k
  BY <1>1, <1>3, <1>6 DEF Shaped, n
<1>9. ASSUME NEW j \in 1..Len(q2) PROVE InShape(F, q2, at2, j)
  <2>1. CASE j \in 1..n
    <3>1. q2[j] = q[j] /\ at2[j] = at[j] /\ InShape(F, q, at, j)
      BY <1>3, <1>6, <2>1 DEF Shaped, n
    <3>2. j # 1 => j - 1 \in 1..n
      BY <1>1, <2>1
    <3>3. j # 1 => q2[j - 1] = q[j - 1] /\ at2[j - 1] = at[j - 1]
      BY <1>3, <1>6, <3>2
    <3>. QED
      BY <3>1, <3>3 DEF InShape, Starts, Goes, Ends
  <2>2. CASE j = n + 1
    <3>1. q2[j].kind = "start" /\ q2[j].i = 0 /\ q2[j].file = f
      BY <1>4, <2>2 DEF Msg
    <3>2. at2[j] = k + 1 /\ j - 1 = n /\ (j = 1 <=> n = 0)
      BY <1>1, <1>6, <2>2
    <3>3. Starts(q2, at2, j)
      BY <1>1, <1>7, <1>8, <3>1, <3>2 DEF Starts
    <3>. QED
      BY <3>1, <3>2, <3>3 DEF InShape, f
  <2>3. CASE j \in (n + 2)..(n + 1 + c)
    <3>1. PICK i \in 1..c : j = n + 1 + i
      <4>1. j - (n + 1) \in 1..c /\ j = n + 1 + (j - (n + 1))
        BY <1>1, <2>3
      <4>. QED
        BY <4>1
    <3>2. q2[j].kind = "chunk" /\ q2[j].i = i /\ q2[j].file = f
      <4>1. q2[n + 1 + i] = Msg("chunk", f, i)
        BY <1>4
      <4>. QED
        BY <3>1, <4>1 DEF Msg
    <3>3. q2[j - 1].kind # "end" /\ q2[j - 1].i = i - 1
      <4>1. CASE i = 1
        <5>1. j - 1 = n + 1
          BY <1>1, <3>1, <4>1
        <5>. QED
          BY <1>4, <4>1, <5>1 DEF Msg
      <4>2. CASE i # 1
        <5>1. i - 1 \in 1..c /\ j - 1 = n + 1 + (i - 1)
          BY <1>1, <3>1, <4>2
        <5>2. q2[n + 1 + (i - 1)] = Msg("chunk", f, i - 1)
          BY <1>4, <5>1
        <5>. QED
          BY <5>1, <5>2 DEF Msg
      <4>. QED
        BY <4>1, <4>2
    <3>4. at2[j] = k + 1 /\ at2[j - 1] = k + 1 /\ j # 1
      <4>1. j \in (n + 1)..(n + c + 2) /\ j - 1 \in (n + 1)..(n + c + 2) /\ j # 1
        BY <1>1, <2>3
      <4>. QED
        BY <1>6, <4>1
    <3>5. Goes(q2, at2, j)
      BY <1>1, <3>1, <3>2, <3>3, <3>4 DEF Goes
    <3>. QED
      BY <3>2, <3>4, <3>5 DEF InShape, f
  <2>4. CASE j = n + c + 2
    <3>1. q2[j].kind = "end" /\ q2[j].file = f
      BY <1>4, <2>4 DEF Msg
    <3>2. q2[j - 1].kind # "end" /\ q2[j - 1].i = c
      <4>1. CASE c = 0
        <5>1. j - 1 = n + 1
          BY <1>1, <2>4, <4>1
        <5>. QED
          BY <1>4, <4>1, <5>1 DEF Msg
      <4>2. CASE c # 0
        <5>1. c \in 1..c /\ j - 1 = n + 1 + c
          BY <1>1, <2>4, <4>2
        <5>2. q2[n + 1 + c] = Msg("chunk", f, c)
          BY <1>4, <5>1
        <5>. QED
          BY <5>1, <5>2 DEF Msg
      <4>. QED
        BY <4>1, <4>2
    <3>3. at2[j] = k + 1 /\ at2[j - 1] = k + 1 /\ j # 1
      <4>1. j \in (n + 1)..(n + c + 2) /\ j - 1 \in (n + 1)..(n + c + 2) /\ j # 1
        BY <1>1, <2>4
      <4>. QED
        BY <1>6, <4>1
    <3>4. Ends(q2, at2, j)
      BY <3>1, <3>2, <3>3 DEF Ends, c
    <3>. QED
      BY <3>1, <3>3, <3>4 DEF InShape, f
  <2>. QED
    BY <1>1, <1>3, <2>1, <2>2, <2>3, <2>4
<1>10. q2 # <<>> /\ q2[Len(q2)].kind = "end" /\ at2[Len(q2)] = k + 1
  <2>1. Len(q2) = n + c + 2 /\ n + c + 2 \in (n + 1)..(n + c + 2) /\ Len(q2) # 0
    BY <1>1, <1>3
  <2>2. q2 # <<>>
    BY <2>1
  <2>. QED
    BY <1>4, <1>6, <2>1, <2>2 DEF Msg
<1>11. Shaped(F, k + 1, q2, at2)
  BY <1>1, <1>3, <1>5, <1>9, <1>10 DEF Shaped
<1>. QED
  BY <1>11 DEF q2, s, f

LEMMA ScriptIsShaped ==
    ASSUME NEW b \in Batches
    PROVE  \E at : Shaped(FilesOf[b], Len(FilesOf[b]), Script(b), at)
<1> DEFINE F == FilesOf[b]
           n == Len(F)
           s == [k \in DOMAIN F |-> FileScript(F[k])]
<1>1. F \in Seq(Files) /\ n \in Nat /\ DOMAIN F = 1..n
  BY TransferAssumption, LenProperties
<1>2. s \in Seq(Seq(Message)) /\ Len(s) = n /\ \A k \in 1..n : s[k] = FileScript(F[k])
  BY <1>1, FileScriptParts
<1>3. Script(b) = FlattenSeq(s)
  BY DEF Script
<1>4. Shaped(F, 0, <<>>, <<>>)
  BY <1>1 DEF Shaped
<1> HIDE DEF F, n, s
<1>5. CASE n = 0
  <2>1. s = <<>>
    BY <1>2, <1>5, EmptySeq
  <2>2. FlattenSeq(s) = <<>>
    BY <1>2, <1>5, <2>1 DEF FlattenSeq
  <2>. QED
    BY <1>3, <1>4, <1>5, <2>2 DEF F, n
<1>6. CASE n # 0
  <2>1. s # <<>>
    BY <1>2, <1>6, EmptySeq
  <2>2. PICK g : /\ \A i \in 1..n : g[i] = IF i = 1 THEN s[i] ELSE g[i - 1] \o s[i]
                 /\ FlattenSeq(s) = g[n]
    BY <1>2, <2>1, Flattened
  <2> DEFINE Bad == {k \in 1..n : ~ \E at : Shaped(F, k, g[k], at)}
  <2>3. Bad = {}
    <3>1. SUFFICES ASSUME Bad # {} PROVE FALSE
      BY <3>1
    <3>2. Bad \in SUBSET Nat
      BY <1>1
    <3>3. PICK m \in Bad : \A k \in Bad : m <= k
      <4> HIDE DEF Bad
      <4>. QED
        BY <3>1, <3>2, LeastNumber
    <3>4. m \in 1..n /\ ~ \E at : Shaped(F, m, g[m], at)
      OBVIOUS
    <3>5. CASE m = 1
      <4>1. g[m] = <<>> \o FileScript(F[1]) /\ F[1] \in Files
        <5>1. g[m] = FileScript(F[1]) /\ F[1] \in Files
          BY <1>1, <1>2, <2>2, <3>4, <3>5
        <5>. QED
          BY <5>1, FileScriptParts
      <4>2. 0 \in Nat /\ 0 < n /\ 0 + 1 = 1
        BY <1>1, <1>6
      <4>3. \E at2 : Shaped(F, 1, <<>> \o FileScript(F[1]), at2)
        BY <1>1, <1>4, <4>2, OneMoreFile DEF n
      <4>. QED
        BY <3>4, <3>5, <4>1, <4>3
    <3>6. CASE m # 1
      <4>1. m - 1 \in 1..n /\ m - 1 \in Nat /\ m - 1 < n /\ ~(m <= m - 1) /\ (m - 1) + 1 = m
        BY <1>1, <3>4, <3>6
      <4>2. m - 1 \notin Bad
        BY <3>3, <4>1
      <4>3. PICK at : Shaped(F, m - 1, g[m - 1], at)
        BY <4>1, <4>2
      <4>4. g[m] = g[m - 1] \o FileScript(F[m])
        BY <1>2, <2>2, <3>4, <3>6
      <4> HIDE DEF Bad
      <4>5. \E at2 : Shaped(F, (m - 1) + 1, g[m - 1] \o FileScript(F[(m - 1) + 1]), at2)
        BY <1>1, <4>1, <4>3, OneMoreFile DEF n
      <4>. QED
        BY <3>4, <4>1, <4>4, <4>5
    <3>. QED
      BY <3>5, <3>6
  <2>4. n \in 1..n
    BY <1>1, <1>6
  <2>5. \E at : Shaped(F, n, g[n], at)
    BY <2>3, <2>4
  <2>. QED
    BY <1>3, <2>2, <2>5 DEF F, n
<1>. QED
  BY <1>5, <1>6

LEMMA ScriptType ==
    ASSUME NEW b \in Batches
    PROVE  Script(b) \in Seq(Message) /\ Len(Script(b)) \in Nat
BY ScriptIsShaped, LenProperties DEF Shaped

\* A call suspends next before a chunk, or at its end, and sends no chunk on the way.
LEMMA NextStopIs ==
    ASSUME NEW b \in Batches, NEW i \in 0..Len(Script(b))
    PROVE  /\ NextStop(b, i) \in (i + 1)..(Len(Script(b)) + 1)
           /\ NextStop(b, i) = Len(Script(b)) + 1 \/ Script(b)[NextStop(b, i)].kind = "chunk"
           /\ \A k \in (i + 1)..(NextStop(b, i) - 1) : Script(b)[k].kind # "chunk"
<1> DEFINE n == Len(Script(b))
           Stops == {j \in (i + 1)..(n + 1) : j = n + 1 \/ Script(b)[j].kind = "chunk"}
<1>1. n \in Nat /\ i \in Nat /\ i <= n
  BY ScriptType
<1>2. Stops \in SUBSET Nat /\ n + 1 \in Stops
  BY <1>1
<1>3. PICK j \in Stops : \A k \in Stops : j <= k
  <2> HIDE DEF Stops
  <2>. QED
    BY <1>2, LeastNumber
<1>4. ASSUME NEW k \in (i + 1)..(j - 1) PROVE Script(b)[k].kind # "chunk"
  <2>1. j \in (i + 1)..(n + 1) /\ ~(j <= k)
    BY <1>1
  <2>2. k \in (i + 1)..(n + 1)
    BY <1>1, <2>1
  <2>. QED
    BY <1>3, <2>1, <2>2
<1>. QED
  BY <1>3, <1>4 DEF NextStop

-----------------------------------------------------------------------------
(* The buffer *)

ChunksAt(msgs) == {k \in DOMAIN msgs : msgs[k].kind = "chunk"}

LEMMA ChunksAreFinite ==
    ASSUME NEW msgs \in Seq(Message)
    PROVE  /\ IsFiniteSet(ChunksAt(msgs)) /\ ChunksAt(msgs) \in SUBSET (1..Len(msgs))
           /\ Buffered(msgs) = Cardinality(ChunksAt(msgs)) /\ Buffered(msgs) \in Nat
<1>1. Len(msgs) \in Nat /\ DOMAIN msgs = 1..Len(msgs)
  BY LenProperties
<1>2. IsFiniteSet(1..Len(msgs))
  BY <1>1, FS_Interval
<1>3. ChunksAt(msgs) \in SUBSET (1..Len(msgs)) /\ Buffered(msgs) = Cardinality(ChunksAt(msgs))
  BY <1>1 DEF ChunksAt, Buffered
<1>. QED
  BY <1>2, <1>3, FS_Subset, FS_CardinalityType

\* What is sent in one go adds at most its first message to the chunks buffered.
LEMMA SentAdds ==
    ASSUME NEW msgs \in Seq(Message), NEW more \in Seq(Message),
           \A k \in 2..Len(more) : more[k].kind # "chunk"
    PROVE  /\ Buffered(msgs \o more) <= Buffered(msgs) + 1
           /\ more = <<>> \/ more[1].kind # "chunk" => Buffered(msgs \o more) = Buffered(msgs)
<1> DEFINE n == Len(msgs)
           all == msgs \o more
<1>1. n \in Nat /\ Len(more) \in Nat
  BY LenProperties
<1>2. /\ all \in Seq(Message) /\ Len(all) = n + Len(more)
      /\ \A i \in 1..(n + Len(more)) : all[i] = IF i <= n THEN msgs[i] ELSE more[i - n]
  BY ConcatProperties
<1>3. /\ DOMAIN all = 1..(n + Len(more)) /\ DOMAIN msgs = 1..n
  BY <1>2, LenProperties
<1> HIDE DEF all, n
<1>4. ASSUME NEW k \in ChunksAt(all), k \notin ChunksAt(msgs)
      PROVE  k = n + 1 /\ more # <<>> /\ more[1].kind = "chunk"
  <2>1. k \in 1..(n + Len(more)) /\ all[k].kind = "chunk"
    BY <1>3 DEF ChunksAt
  <2>2. ~(k <= n)
    BY <1>1, <1>2, <1>3, <1>4, <2>1 DEF ChunksAt
  <2>3. k - n \in 1..Len(more) /\ all[k] = more[k - n]
    BY <1>1, <1>2, <2>1, <2>2
  <2>4. k - n = 1
    <3>1. k - n \notin 2..Len(more)
      BY <2>1, <2>3
    <3>. QED
      BY <1>1, <2>1, <2>3, <3>1
  <2>5. more # <<>>
    BY <1>1, <2>3, EmptySeq
  <2>. QED
    BY <1>1, <2>1, <2>3, <2>4, <2>5
<1>5. ChunksAt(msgs) \subseteq ChunksAt(all)
  BY <1>1, <1>2, <1>3 DEF ChunksAt
<1>6. /\ IsFiniteSet(ChunksAt(msgs)) /\ IsFiniteSet(ChunksAt(all))
      /\ Buffered(msgs) = Cardinality(ChunksAt(msgs)) /\ Buffered(msgs) \in Nat
      /\ Buffered(all) = Cardinality(ChunksAt(all)) /\ Buffered(all) \in Nat
  BY <1>2, ChunksAreFinite
<1>7. Buffered(all) <= Buffered(msgs) + 1
  <2>1. ChunksAt(all) \in SUBSET (ChunksAt(msgs) \cup {n + 1})
    BY <1>4
  <2>2. /\ IsFiniteSet(ChunksAt(msgs) \cup {n + 1})
        /\ Cardinality(ChunksAt(msgs) \cup {n + 1}) <= Buffered(msgs) + 1
        /\ Cardinality(ChunksAt(msgs) \cup {n + 1}) \in Nat
    <3>1. /\ IsFiniteSet(ChunksAt(msgs) \cup {n + 1})
          /\ Cardinality(ChunksAt(msgs) \cup {n + 1}) =
                IF n + 1 \in ChunksAt(msgs) THEN Cardinality(ChunksAt(msgs))
                ELSE Cardinality(ChunksAt(msgs)) + 1
      BY <1>6, FS_AddElement
    <3>. QED
      BY <1>6, <3>1
  <2>3. Cardinality(ChunksAt(all)) <= Cardinality(ChunksAt(msgs) \cup {n + 1})
    BY <2>1, <2>2, FS_Subset
  <2>. QED
    BY <1>6, <2>2, <2>3
<1>8. more = <<>> \/ more[1].kind # "chunk" => Buffered(all) = Buffered(msgs)
  <2>1. SUFFICES ASSUME more = <<>> \/ more[1].kind # "chunk"
                 PROVE  Buffered(all) = Buffered(msgs)
    OBVIOUS
  <2>2. ChunksAt(all) = ChunksAt(msgs)
    BY <1>4, <1>5, <2>1
  <2>. QED
    BY <1>6, <2>2
<1>. QED
  BY <1>7, <1>8 DEF all

\* A message handed over leaves no more chunks behind than there were.
LEMMA TailHasFewer ==
    ASSUME NEW msgs \in Seq(Message), msgs # <<>>
    PROVE  Tail(msgs) \in Seq(Message) /\ Buffered(Tail(msgs)) <= Buffered(msgs)
<1> DEFINE rest == Tail(msgs)
<1>1. /\ Len(msgs) \in Nat /\ rest \in Seq(Message) /\ Len(rest) = Len(msgs) - 1
      /\ \A i \in 1..Len(rest) : rest[i] = msgs[i + 1]
      /\ DOMAIN msgs = 1..Len(msgs)
  BY HeadTailProperties, LenProperties
<1> HIDE DEF rest
<1>2. DOMAIN rest = 1..(Len(msgs) - 1) /\ Len(rest) \in Nat
  BY <1>1, LenProperties
<1> DEFINE later == [k \in ChunksAt(rest) |-> k + 1]
<1>3. ASSUME NEW k \in ChunksAt(rest) PROVE k \in Nat /\ k + 1 \in ChunksAt(msgs)
  <2>1. k \in 1..(Len(msgs) - 1) /\ rest[k].kind = "chunk" /\ rest[k] = msgs[k + 1]
    BY <1>1, <1>2 DEF ChunksAt
  <2>2. k \in Nat /\ k + 1 \in 1..Len(msgs)
    BY <1>1, <2>1
  <2>. QED
    BY <1>1, <2>1, <2>2 DEF ChunksAt
<1>4. later \in Injection(ChunksAt(rest), ChunksAt(msgs))
  <2>1. later \in [ChunksAt(rest) -> ChunksAt(msgs)]
    BY <1>3
  <2>2. ASSUME NEW k \in ChunksAt(rest), NEW l \in ChunksAt(rest), later[k] = later[l]
        PROVE  k = l
    BY <1>3, <2>2
  <2>. QED
    BY <2>1, <2>2 DEF Injection, IsInjective
<1>5. /\ IsFiniteSet(ChunksAt(msgs)) /\ Buffered(msgs) = Cardinality(ChunksAt(msgs))
      /\ Buffered(rest) = Cardinality(ChunksAt(rest))
  BY <1>1, ChunksAreFinite
<1>6. Cardinality(ChunksAt(rest)) <= Cardinality(ChunksAt(msgs))
  <2> HIDE DEF later
  <2>. QED
    BY <1>4, <1>5, FS_Injection
<1>. QED
  BY <1>1, <1>5, <1>6 DEF rest

-----------------------------------------------------------------------------
(* The buffer stays bounded, whatever calls run side by side *)

Suspended == {"reading", "waiting", "resumed"}
Resumed == {b \in Batches : state[b] = "resumed"}

\* A suspended call is about to send a chunk.
AtChunk(b) == pos[b] \in 1..Len(Script(b)) /\ Script(b)[pos[b]].kind = "chunk"
CallsAreAtChunks == \A b \in Batches : state[b] \in Suspended => AtChunk(b)

\* A call that is resumed sends without looking: what it will send is counted already.
RoomIsKept == Buffered(buffer) + Cardinality(Resumed) <= High + Cardinality(Batches)

\* The callback, when one is set, is that of a call that waits.
WaiterWaits == waiter # NoBatch => state[waiter] = "waiting"

SenderInv == TypeOK /\ CallsAreAtChunks /\ WaiterWaits /\ RoomIsKept

LEMMA Sending ==
    ASSUME TypeOK, NEW b \in Batches, NEW i \in 0..Len(Script(b)),
           NEW from \in Nat, from = i + 1 \/ (from = i /\ i # 0),
           Send(b, from, NextStop(b, i))
    PROVE  /\ buffer' \in Seq(Message) /\ pos' \in [Batches -> Nat]
           /\ state' \in [Batches -> {"idle", "reading", "waiting", "resumed", "done", "failed"}]
           /\ Buffered(buffer') <= Buffered(buffer) + 1
           /\ from = i + 1 => Buffered(buffer') = Buffered(buffer)
           /\ \A c \in Batches \ {b} : state'[c] = state[c] /\ pos'[c] = pos[c]
           /\ state'[b] \in {"reading", "done", "failed"}
           /\ state'[b] = "reading" => AtChunk(b)'
<1> DEFINE S == Script(b)
           n == Len(S)
           stop == NextStop(b, i)
<1>1. /\ S \in Seq(Message) /\ n \in Nat /\ DOMAIN S = 1..n
      /\ i \in Nat /\ i <= n /\ from \in i..(i + 1) /\ from # 0
  BY ScriptType, LenProperties
<1>2. /\ stop \in (i + 1)..(n + 1)
      /\ stop = n + 1 \/ S[stop].kind = "chunk"
      /\ \A k \in (i + 1)..(stop - 1) : S[k].kind # "chunk"
  BY NextStopIs
<1>3. IF open
      THEN /\ buffer' = buffer \o SubSeq(S, from, stop - 1)
           /\ pos' = [pos EXCEPT ![b] = stop]
           /\ state' = [state EXCEPT ![b] = IF stop > n THEN "done" ELSE "reading"]
      ELSE /\ state' = [state EXCEPT ![b] = "failed"]
           /\ UNCHANGED <<buffer, pos>>
  BY DEF Send
<1>4. AtChunk(b)' <=> pos'[b] \in 1..n /\ S[pos'[b]].kind = "chunk"
  BY DEF AtChunk, Script, FileScript, Msg
<1> HIDE DEF S, n, stop
<1>5. CASE open
  <2> DEFINE more == SubSeq(S, from, stop - 1)
  <2>1. \A k \in from..(stop - 1) : S[k] \in Message
    <3>1. \A k \in 1..n : S[k] \in Message
      BY <1>1 DEF n
    <3>2. \A k \in from..(stop - 1) : k \in 1..n
      BY <1>1, <1>2
    <3>. QED
      BY <3>1, <3>2
  <2>2. /\ more \in Seq(Message)
        /\ Len(more) = IF from <= stop - 1 THEN stop - 1 - from + 1 ELSE 0
        /\ \A k \in 1..(stop - 1 - from + 1) : more[k] = S[from + k - 1]
    <3>1. from \in Int /\ stop - 1 \in Int
      BY <1>1, <1>2
    <3>. QED
      BY <2>1, <3>1, SubSeqProperties
  <2> HIDE DEF more
  <2>3. ASSUME NEW k \in 1..Len(more), k # 1 \/ from = i + 1 PROVE more[k].kind # "chunk"
    <3>1. /\ k \in 1..(stop - 1 - from + 1) /\ more[k] = S[from + k - 1]
      BY <1>1, <1>2, <2>2
    <3>2. from + k - 1 \in (i + 1)..(stop - 1)
      BY <1>1, <1>2, <2>3, <3>1
    <3>. QED
      BY <1>2, <3>1, <3>2
  <2>4. buffer \in Seq(Message) /\ buffer' = buffer \o more
    BY <1>3, <1>5 DEF TypeOK, more
  <2>5. \A k \in 2..Len(more) : more[k].kind # "chunk"
    <3>1. Len(more) \in Nat
      BY <2>2, LenProperties
    <3>2. \A k \in 2..Len(more) : k \in 1..Len(more) /\ k # 1
      BY <3>1
    <3>. QED
      BY <2>3, <3>2
  <2>6. from = i + 1 => more = <<>> \/ more[1].kind # "chunk"
    <3>1. more # <<>> => 1 \in 1..Len(more)
      BY <2>2, EmptySeq
    <3>. QED
      BY <2>3, <3>1
  <2>7. /\ buffer' \in Seq(Message) /\ Buffered(buffer') <= Buffered(buffer) + 1
        /\ from = i + 1 => Buffered(buffer') = Buffered(buffer)
    BY <2>2, <2>4, <2>5, <2>6, SentAdds, ConcatProperties
  <2>8. stop \in Nat
    BY <1>1, <1>2
  <2>9. /\ pos' \in [Batches -> Nat]
        /\ state' \in [Batches -> {"idle", "reading", "waiting", "resumed", "done", "failed"}]
        /\ \A c \in Batches \ {b} : state'[c] = state[c] /\ pos'[c] = pos[c]
        /\ state'[b] \in {"reading", "done"} /\ pos'[b] = stop
        /\ state'[b] = "reading" => ~(stop > n)
    BY <1>3, <1>5, <2>8 DEF TypeOK
  <2>10. state'[b] = "reading" => AtChunk(b)'
    BY <1>1, <1>2, <1>4, <2>9
  <2>. QED
    BY <2>7, <2>9, <2>10
<1>6. CASE ~open
  BY SMTT(30), <1>3, <1>6, ChunksAreFinite DEF TypeOK
<1>. QED
  BY <1>5, <1>6

LEMMA ResumedAreFinite ==
    /\ IsFiniteSet(Resumed) /\ Cardinality(Resumed) \in Nat /\ Cardinality(Batches) \in Nat
    /\ \A b \in Batches : state[b] # "resumed" => Cardinality(Resumed) + 1 <= Cardinality(Batches)
<1>1. IsFiniteSet(Batches) /\ Resumed \in SUBSET Batches
  BY TransferAssumption DEF Resumed
<1>2. IsFiniteSet(Resumed) /\ Cardinality(Resumed) \in Nat /\ Cardinality(Batches) \in Nat
  BY <1>1, FS_Subset, FS_CardinalityType
<1>3. ASSUME NEW b \in Batches, state[b] # "resumed"
      PROVE  Cardinality(Resumed) + 1 <= Cardinality(Batches)
  <2>1. Cardinality(Resumed \cup {b}) = Cardinality(Resumed) + 1
    BY <1>2, <1>3, FS_AddElement DEF Resumed
  <2>2. Resumed \cup {b} \in SUBSET Batches
    BY <1>1
  <2>. QED
    BY <1>1, <2>1, <2>2, FS_Subset
<1>. QED
  BY <1>2, <1>3

\* The receiver's records stay records.
LEMMA TakeKeepsTypes ==
    ASSUME TypeOK, NEW m \in Message, Take(m)
    PROVE  incoming' \in Seq(Record) /\ received' \in Seq(Record)
<1>1. /\ incoming \in Seq(Record) /\ received \in Seq(Record)
      /\ Len(incoming) \in Nat /\ DOMAIN incoming = 1..Len(incoming)
      /\ m.file \in Files /\ m.i \in Nat /\ m.kind \in {"start", "chunk", "end"}
      /\ ChunkCount[m.file] \in Nat
  BY TransferAssumption, LenProperties DEF TypeOK, Message
<1>2. CASE m.kind = "start"
  <2>1. Begun(m.file) \in Record
    BY <1>1 DEF Begun, Record, Piece
  <2>. QED
    BY SMTT(30), <1>1, <1>2, <2>1, AppendProperties DEF Take
<1>3. CASE m.kind = "chunk"
  <2>1. CASE incoming = <<>>
    BY <1>1, <1>3, <2>1 DEF Take
  <2>2. CASE incoming # <<>>
    <3>1. 1 \in 1..Len(incoming) /\ incoming[1] \in Record
      BY <1>1, <2>2, EmptySeq
    <3>2. incoming[1].file \in Files /\ incoming[1].chunks \in Seq(Piece)
      BY <3>1 DEF Record
    <3>3. Filled(incoming[1].chunks, m) \in Seq(Piece)
      <4> DEFINE old == incoming[1].chunks
                 size == IF m.i > Len(old) THEN m.i ELSE Len(old)
                 piece(i) == IF i = m.i THEN [file |-> m.file, i |-> m.i]
                             ELSE IF i <= Len(old) THEN old[i] ELSE NoChunk
      <4>1. Len(old) \in Nat /\ size \in Nat /\ old \in [1..Len(old) -> Piece]
        BY <1>1, <3>2, LenProperties
      <4>2. \A i \in 1..size : piece(i) \in Piece
        BY <1>1, <4>1 DEF Piece
      <4>3. [i \in 1..size |-> piece(i)] \in Seq(Piece)
        <5> HIDE DEF size, piece, old
        <5>. QED
          BY <4>1, <4>2
      <4>. QED
        BY <4>3 DEF Filled
    <3>4. [incoming[1] EXCEPT !.chunks = Filled(@, m)] \in Record
      BY <3>1, <3>3 DEF Record
    <3>5. incoming' = [incoming EXCEPT ![1] = [incoming[1] EXCEPT !.chunks = Filled(@, m)]]
      BY <1>3, <2>2 DEF Take
    <3>. QED
      BY <1>1, <1>3, <3>1, <3>4, <3>5, ExceptSeq DEF Take
  <2>. QED
    BY <2>1, <2>2
<1>4. CASE m.kind = "end"
  <2>1. CASE UnderWay(m.file) = {}
    BY <1>1, <1>4, <2>1 DEF Take
  <2>2. CASE UnderWay(m.file) # {}
    <3> DEFINE k == TransferOf(m.file)
    <3>1. k \in 1..Len(incoming)
      BY <1>1, <2>2 DEF UnderWay, TransferOf
    <3>2. incoming' = RemoveAt(incoming, k) /\ received' = Append(received, incoming[k])
      BY <1>4, <2>2 DEF Take, Ended
    <3> HIDE DEF k
    <3>3. /\ SubSeq(incoming, 1, k - 1) \in Seq(Record)
          /\ SubSeq(incoming, k + 1, Len(incoming)) \in Seq(Record)
      <4>1. /\ \A i \in 1..(k - 1) : incoming[i] \in Record
            /\ \A i \in (k + 1)..Len(incoming) : incoming[i] \in Record
        BY <1>1, <3>1
      <4>2. k - 1 \in Int /\ k + 1 \in Int /\ Len(incoming) \in Int
        BY <1>1, <3>1
      <4>. QED
        BY <4>1, <4>2, SubSeqProperties
    <3>. QED
      BY <1>1, <3>1, <3>2, <3>3, AppendProperties, ConcatProperties DEF RemoveAt
  <2>. QED
    BY <2>1, <2>2
<1>. QED
  BY <1>1, <1>2, <1>3, <1>4

LEMMA SenderInvInit == Init => SenderInv
<1>1. SUFFICES ASSUME Init PROVE SenderInv
  OBVIOUS
<1>2. TypeOK
  BY <1>1 DEF Init, TypeOK
<1>3. CallsAreAtChunks
  BY <1>1 DEF Init, CallsAreAtChunks, Suspended
<1>4. RoomIsKept
  <2>1. ChunksAt(buffer) = {} /\ Resumed = {}
    BY <1>1 DEF Init, ChunksAt, Resumed
  <2>2. Buffered(buffer) = 0 /\ Cardinality(Resumed) = 0
    BY <1>2, <2>1, ChunksAreFinite, FS_EmptySet DEF TypeOK
  <2>3. Cardinality(Batches) \in Nat /\ High \in Nat
    BY TransferAssumption, FS_CardinalityType
  <2>. QED
    BY <2>2, <2>3 DEF RoomIsKept
<1>5. WaiterWaits
  BY <1>1 DEF Init, WaiterWaits
<1>. QED
  BY <1>2, <1>3, <1>4, <1>5 DEF SenderInv

\* One call moves; the receiver does not.
LEMMA CallMoves ==
    ASSUME SenderInv, NEW b \in Batches,
           buffer' \in Seq(Message), pos' \in [Batches -> Nat],
           state' \in [Batches -> {"idle", "reading", "waiting", "resumed", "done", "failed"}],
           \A c \in Batches \ {b} : state'[c] = state[c] /\ pos'[c] = pos[c],
           state'[b] # "resumed", state'[b] \in Suspended => AtChunk(b)',
           \/ waiter' = waiter /\ state[b] # "waiting"
           \/ waiter' = b /\ state'[b] = "waiting",
           \/ Buffered(buffer') = Buffered(buffer)
           \/ Buffered(buffer') <= Buffered(buffer) + 1 /\ state[b] = "resumed"
           \/ Buffered(buffer') <= High + 1,
           UNCHANGED <<open, incoming, received>>
    PROVE  SenderInv'
<1>1. TypeOK'
  BY SMTT(30) DEF SenderInv, TypeOK
<1>2. CallsAreAtChunks'
  <2>1. ASSUME NEW c \in Batches, state'[c] \in Suspended PROVE AtChunk(c)'
    <3>1. CASE c = b
      BY SMTT(30), <2>1, <3>1
    <3>2. CASE c # b
      <4>1. AtChunk(c) /\ pos'[c] = pos[c]
        BY <2>1, <3>2 DEF SenderInv, CallsAreAtChunks
      <4>. QED
        BY <4>1 DEF AtChunk, Script, FileScript, Msg
    <3>. QED
      BY <3>1, <3>2
  <2>. QED
    BY <2>1 DEF CallsAreAtChunks
<1>3. RoomIsKept'
  <2>1. Resumed' = Resumed \ {b}
    BY DEF Resumed
  <2>2. /\ Cardinality(Resumed') =
              IF b \in Resumed THEN Cardinality(Resumed) - 1 ELSE Cardinality(Resumed)
        /\ Cardinality(Resumed) \in Nat /\ Cardinality(Batches) \in Nat
        /\ b \notin Resumed => Cardinality(Resumed) + 1 <= Cardinality(Batches)
        /\ Cardinality(Resumed) <= Cardinality(Batches)
    <3>1. IsFiniteSet(Batches) /\ Resumed \in SUBSET Batches
      BY TransferAssumption DEF Resumed
    <3>2. Cardinality(Resumed) <= Cardinality(Batches)
      BY <3>1, FS_Subset
    <3>3. Cardinality(Resumed \ {b}) =
              IF b \in Resumed THEN Cardinality(Resumed) - 1 ELSE Cardinality(Resumed)
      BY ResumedAreFinite, FS_RemoveElement
    <3>4. b \notin Resumed => state[b] # "resumed"
      BY DEF Resumed
    <3>. QED
      BY <2>1, <3>2, <3>3, <3>4, ResumedAreFinite
  <2>3. /\ High \in Nat /\ Buffered(buffer) \in Nat /\ Buffered(buffer') \in Nat
        /\ Buffered(buffer) + Cardinality(Resumed) <= High + Cardinality(Batches)
    BY TransferAssumption, ChunksAreFinite DEF SenderInv, TypeOK, RoomIsKept
  <2>4. state[b] = "resumed" <=> b \in Resumed
    BY DEF Resumed
  <2>5. Buffered(buffer') + Cardinality(Resumed') <= High + Cardinality(Batches)
    BY <2>2, <2>3, <2>4
  <2>. QED
    BY <2>5 DEF RoomIsKept, Buffered
<1>4. WaiterWaits'
  BY DEF SenderInv, TypeOK, WaiterWaits
<1>. QED
  BY <1>1, <1>2, <1>3, <1>4 DEF SenderInv

LEMMA ReceiveMoves == ASSUME SenderInv, Receive PROVE SenderInv'
<1> DEFINE rest == Tail(buffer)
<1>1. /\ buffer \in Seq(Message) /\ buffer # <<>> /\ Take(Head(buffer))
      /\ buffer' = rest /\ UNCHANGED <<open, pos>>
  BY DEF SenderInv, TypeOK, Receive
<1>2. Head(buffer) \in Message /\ rest \in Seq(Message) /\ Buffered(rest) <= Buffered(buffer)
  BY <1>1, HeadTailProperties, TailHasFewer
<1>3. incoming' \in Seq(Record) /\ received' \in Seq(Record)
  BY <1>1, <1>2, TakeKeepsTypes DEF SenderInv
<1>4. /\ High \in Nat /\ Low \in Nat /\ Low < High
      /\ Buffered(buffer) \in Nat /\ Buffered(rest) \in Nat
      /\ Cardinality(Resumed) \in Nat /\ Cardinality(Batches) \in Nat
      /\ Buffered(buffer) + Cardinality(Resumed) <= High + Cardinality(Batches)
  BY <1>1, <1>2, TransferAssumption, ChunksAreFinite, ResumedAreFinite DEF SenderInv, RoomIsKept
<1>5. \A b \in Batches : AtChunk(b)' <=> AtChunk(b)
  BY <1>1 DEF AtChunk, Script, FileScript, Msg
<1>6. CASE Falls(rest) /\ waiter # NoBatch
  <2>1. state' = [state EXCEPT ![waiter] = "resumed"] /\ waiter' = NoBatch
    BY <1>6 DEF Receive
  <2>2. TypeOK'
    BY <1>1, <1>2, <1>3, <2>1 DEF SenderInv, TypeOK
  <2>3. RoomIsKept'
    <3>1. Resumed' \in SUBSET Batches
      BY DEF Resumed
    <3>2. Cardinality(Resumed') <= Cardinality(Batches) /\ Cardinality(Resumed') \in Nat
      BY <3>1, TransferAssumption, FS_Subset, FS_CardinalityType
    <3>3. Buffered(rest) <= Low
      BY <1>6 DEF Falls
    <3>4. Buffered(buffer') + Cardinality(Resumed') <= High + Cardinality(Batches)
      BY <1>1, <1>4, <3>2, <3>3
    <3>. QED
      BY <3>4 DEF RoomIsKept, Buffered
  <2>4. CallsAreAtChunks'
    <3>1. ASSUME NEW b \in Batches, state'[b] \in Suspended PROVE AtChunk(b)
      <4>1. CASE b = waiter
        BY <1>6, <4>1 DEF SenderInv, CallsAreAtChunks, WaiterWaits, Suspended
      <4>2. CASE b # waiter
        BY <2>1, <3>1, <4>2 DEF SenderInv, TypeOK, CallsAreAtChunks
      <4>. QED
        BY <4>1, <4>2
    <3>. QED
      BY <1>5, <3>1 DEF CallsAreAtChunks
  <2>5. WaiterWaits'
    BY <2>1 DEF WaiterWaits
  <2>. QED
    BY <2>2, <2>3, <2>4, <2>5 DEF SenderInv
<1>7. CASE ~(Falls(rest) /\ waiter # NoBatch)
  <2>1. UNCHANGED <<state, waiter>>
    BY <1>7 DEF Receive
  <2>2. TypeOK'
    BY <1>1, <1>2, <1>3, <2>1 DEF SenderInv, TypeOK
  <2>3. RoomIsKept'
    <3>1. Resumed' = Resumed
      BY <2>1 DEF Resumed
    <3>2. Buffered(buffer') + Cardinality(Resumed') <= High + Cardinality(Batches)
      BY <1>1, <1>2, <1>4, <3>1
    <3>. QED
      BY <3>2 DEF RoomIsKept, Buffered
  <2>4. CallsAreAtChunks'
    BY <1>5, <2>1 DEF SenderInv, CallsAreAtChunks
  <2>5. WaiterWaits'
    BY <2>1 DEF SenderInv, WaiterWaits
  <2>. QED
    BY <2>2, <2>3, <2>4, <2>5 DEF SenderInv
<1>. QED
  BY <1>6, <1>7

LEMMA SenderInvNext == ASSUME SenderInv, [Next]_vars PROVE SenderInv'
<1>. USE DEF SenderInv
<1>1. ASSUME NEW b \in Batches, SendFiles(b) PROVE SenderInv'
  <2>1. 0 \in 0..Len(Script(b)) /\ 1 \in Nat /\ 1 = 0 + 1
    BY ScriptType
  <2>2. Send(b, 1, NextStop(b, 0)) /\ state[b] = "idle" /\ UNCHANGED <<open, waiter, incoming, received>>
    BY <1>1 DEF SendFiles
  <2>3. /\ buffer' \in Seq(Message) /\ pos' \in [Batches -> Nat]
        /\ state' \in [Batches -> {"idle", "reading", "waiting", "resumed", "done", "failed"}]
        /\ Buffered(buffer') = Buffered(buffer)
        /\ \A c \in Batches \ {b} : state'[c] = state[c] /\ pos'[c] = pos[c]
        /\ state'[b] \in {"reading", "done", "failed"}
        /\ state'[b] = "reading" => AtChunk(b)'
    BY <2>1, <2>2, Sending
  <2>4. state'[b] # "resumed" /\ (state'[b] \in Suspended => AtChunk(b)') /\ state[b] # "waiting"
    BY <2>2, <2>3 DEF Suspended
  <2>. QED
    BY <2>2, <2>3, <2>4, CallMoves
<1>2. ASSUME NEW b \in Batches, SliceRead(b) PROVE SenderInv'
  <2>1. /\ state[b] = "reading" /\ UNCHANGED <<open, incoming, received>>
        /\ pos[b] \in 1..Len(Script(b)) /\ Len(Script(b)) \in Nat /\ AtChunk(b)
    BY <1>2, ScriptType DEF SliceRead, CallsAreAtChunks, AtChunk, Suspended
  <2>2. /\ TypeOK /\ High \in Nat /\ Buffered(buffer) \in Nat
    BY TransferAssumption, ChunksAreFinite DEF TypeOK
  <2>3. CASE Full
    <3>1. state' = [state EXCEPT ![b] = "waiting"] /\ waiter' = b /\ UNCHANGED <<buffer, pos>>
      BY SMTT(30), <1>2, <2>3 DEF SliceRead
    <3>2. AtChunk(b)'
      BY <2>1, <3>1 DEF AtChunk, Script, FileScript, Msg
    <3>3. /\ buffer' \in Seq(Message) /\ pos' \in [Batches -> Nat]
          /\ state' \in [Batches -> {"idle", "reading", "waiting", "resumed", "done", "failed"}]
          /\ \A c \in Batches \ {b} : state'[c] = state[c] /\ pos'[c] = pos[c]
          /\ state'[b] = "waiting" /\ Buffered(buffer') = Buffered(buffer)
      BY <2>2, <3>1 DEF TypeOK
    <3>. QED
      BY <2>1, <3>1, <3>2, <3>3, CallMoves
  <2>4. CASE ~Full
    <3>1. Send(b, pos[b], NextStop(b, pos[b])) /\ UNCHANGED waiter
      BY <1>2, <2>4 DEF SliceRead
    <3>2. pos[b] \in 0..Len(Script(b)) /\ pos[b] \in Nat /\ pos[b] # 0
      BY <2>1
    <3>3. /\ buffer' \in Seq(Message) /\ pos' \in [Batches -> Nat]
          /\ state' \in [Batches -> {"idle", "reading", "waiting", "resumed", "done", "failed"}]
          /\ Buffered(buffer') <= Buffered(buffer) + 1
          /\ \A c \in Batches \ {b} : state'[c] = state[c] /\ pos'[c] = pos[c]
          /\ state'[b] \in {"reading", "done", "failed"}
          /\ state'[b] = "reading" => AtChunk(b)'
      BY <3>1, <3>2, Sending
    <3>4. state'[b] # "resumed" /\ (state'[b] \in Suspended => AtChunk(b)') /\ state[b] # "waiting"
      BY <2>1, <3>3 DEF Suspended
    <3>5. Buffered(buffer) <= High /\ Buffered(buffer') \in Nat
      BY <2>2, <2>4, <3>3, ChunksAreFinite DEF Full
    <3>6. Buffered(buffer') <= High + 1
      BY <2>2, <3>3, <3>5
    <3>. QED
      BY <2>1, <3>1, <3>3, <3>4, <3>6, CallMoves
  <2>. QED
    BY <2>3, <2>4
<1>3. ASSUME NEW b \in Batches, Resume(b) PROVE SenderInv'
  <2>1. /\ state[b] = "resumed" /\ UNCHANGED <<open, waiter, incoming, received>>
        /\ Send(b, pos[b], NextStop(b, pos[b]))
        /\ pos[b] \in 1..Len(Script(b)) /\ Len(Script(b)) \in Nat
    BY <1>3, ScriptType DEF Resume, CallsAreAtChunks, AtChunk, Suspended
  <2>2. pos[b] \in 0..Len(Script(b)) /\ pos[b] \in Nat /\ pos[b] # 0
    BY <2>1
  <2>3. /\ buffer' \in Seq(Message) /\ pos' \in [Batches -> Nat]
        /\ state' \in [Batches -> {"idle", "reading", "waiting", "resumed", "done", "failed"}]
        /\ Buffered(buffer') <= Buffered(buffer) + 1
        /\ \A c \in Batches \ {b} : state'[c] = state[c] /\ pos'[c] = pos[c]
        /\ state'[b] \in {"reading", "done", "failed"}
        /\ state'[b] = "reading" => AtChunk(b)'
    BY <2>1, <2>2, Sending
  <2>4. state'[b] # "resumed" /\ (state'[b] \in Suspended => AtChunk(b)') /\ state[b] # "waiting"
    BY <2>1, <2>3 DEF Suspended
  <2>. QED
    BY <2>1, <2>3, <2>4, CallMoves
<1>4. ASSUME CloseChannel PROVE SenderInv'
  <2>1. /\ buffer' = <<>> /\ open' \in BOOLEAN
        /\ UNCHANGED <<state, pos, waiter, incoming, received>>
    BY <1>4 DEF CloseChannel
  <2>2. TypeOK' /\ CallsAreAtChunks' /\ WaiterWaits'
    <3>1. TypeOK' /\ WaiterWaits'
      BY <2>1 DEF TypeOK, WaiterWaits
    <3>2. \A b \in Batches : AtChunk(b)' <=> AtChunk(b)
      BY <2>1 DEF AtChunk, Script, FileScript, Msg
    <3>. QED
      BY <2>1, <3>1, <3>2 DEF CallsAreAtChunks
  <2>3. Resumed' = Resumed
    BY <2>1 DEF Resumed
  <2>4. Buffered(buffer') = 0
    <3>1. <<>> \in Seq(Message) /\ ChunksAt(<<>>) = {}
      BY DEF ChunksAt
    <3>. QED
      BY <2>1, <3>1, ChunksAreFinite, FS_EmptySet
  <2>5. /\ High \in Nat /\ Buffered(buffer) \in Nat
        /\ Cardinality(Resumed) \in Nat /\ Cardinality(Batches) \in Nat
        /\ Buffered(buffer) + Cardinality(Resumed) <= High + Cardinality(Batches)
    BY TransferAssumption, ChunksAreFinite, ResumedAreFinite DEF TypeOK, RoomIsKept
  <2>6. Buffered(buffer') + Cardinality(Resumed') <= High + Cardinality(Batches)
    BY <2>3, <2>4, <2>5
  <2>. QED
    BY <2>2, <2>6 DEF RoomIsKept, Buffered
<1>5. ASSUME UNCHANGED vars PROVE SenderInv'
  BY <1>5 DEF vars, TypeOK, CallsAreAtChunks, AtChunk, WaiterWaits, RoomIsKept, Resumed, Script,
              FileScript, Msg, Buffered
<1>. QED
  BY <1>1, <1>2, <1>3, <1>4, <1>5, ReceiveMoves DEF Next

\* Whatever calls of sendP2pFiles run side by side, a suspended call is about to send
\* a chunk, and the one callback is that of a call that waits.
THEOREM SenderStaysSound == Spec => []SenderInv
  BY SenderInvInit, SenderInvNext, PTL DEF Spec

LEMMA RoomBounds == SenderInv => TypeOK /\ BufferIsBounded
<1>1. SUFFICES ASSUME SenderInv PROVE BufferIsBounded
  BY DEF SenderInv
<1>2. /\ High \in Nat /\ Buffered(buffer) \in Nat
      /\ Cardinality(Resumed) \in Nat /\ Cardinality(Batches) \in Nat
      /\ Buffered(buffer) + Cardinality(Resumed) <= High + Cardinality(Batches)
  BY <1>1, TransferAssumption, ChunksAreFinite, ResumedAreFinite
     DEF SenderInv, TypeOK, RoomIsKept
<1>. QED
  BY <1>2 DEF BufferIsBounded

\* However many calls of sendP2pFiles the page starts, and whatever their files, never
\* more than the high watermark and one chunk per call is buffered
\* (p2p-client.js:483-561).
THEOREM BufferStaysBounded == Spec => [](TypeOK /\ BufferIsBounded)
  BY SenderStaysSound, RoomBounds, PTL

-----------------------------------------------------------------------------
(* A single call delivers its files *)

\* A file of which the first i chunks are there, and one that is all there.
Partly(f, i) ==
    [file |-> f,
     chunks |-> [j \in 1..ChunkCount[f] |-> IF j <= i THEN [file |-> f, i |-> j] ELSE NoChunk]]
Complete(f) == [file |-> f, chunks |-> Whole(f)]

\* The first m files of the call b are received, and nothing else is.
Arrived(b, m) == received = [k \in 1..m |-> Complete(FilesOf[b][k])]

\* What the receiver has when it has taken the first n messages of b's script, the
\* j-th of which belongs to the file at[j].
Taken(b, at, n) ==
    IF n = 0 THEN incoming = <<>> /\ Arrived(b, 0)
    ELSE IF Script(b)[n].kind = "end" THEN incoming = <<>> /\ Arrived(b, at[n])
    ELSE incoming = <<Partly(Script(b)[n].file, Script(b)[n].i)>> /\ Arrived(b, at[n] - 1)

\* The buffer holds the stretch of the script from the first message not taken to the
\* last one sent.
InFlight(b, at) ==
    \E n \in 0..(pos[b] - 1) :
        buffer = SubSeq(Script(b), n + 1, pos[b] - 1) /\ Taken(b, at, n)

OneCallInv(b, at) ==
    /\ SenderInv
    /\ pos[b] \in 1..(Len(Script(b)) + 1)
    /\ state[b] = "idle" => pos[b] = 1
    /\ \E m \in 0..Len(FilesOf[b]) : Arrived(b, m)
    /\ open => InFlight(b, at)

LEMMA ChunksReplaced ==
    ASSUME NEW f, NEW i, NEW j
    PROVE  [Partly(f, i) EXCEPT !.chunks = Partly(f, j).chunks] = Partly(f, j)
<1> DEFINE A == [k \in 1..ChunkCount[f] |-> IF k <= i THEN [file |-> f, i |-> k] ELSE NoChunk]
           B == [k \in 1..ChunkCount[f] |-> IF k <= j THEN [file |-> f, i |-> k] ELSE NoChunk]
<1>1. Partly(f, i) = [file |-> f, chunks |-> A] /\ Partly(f, j) = [file |-> f, chunks |-> B]
  BY DEF Partly
<1> HIDE DEF A, B
<1>2. [[file |-> f, chunks |-> A] EXCEPT !.chunks = B] = [file |-> f, chunks |-> B]
  OBVIOUS
<1>3. Partly(f, j).chunks = B
  BY <1>1
<1>. QED
  BY <1>1, <1>2, <1>3

LEMMA Growing ==
    ASSUME NEW f \in Files
    PROVE  /\ Begun(f) = Partly(f, 0) /\ Partly(f, ChunkCount[f]) = Complete(f)
           /\ \A m \in Message :
                m.file = f /\ m.i # 0 =>
                    Filled(Partly(f, m.i - 1).chunks, m) = Partly(f, m.i).chunks
<1>1. ChunkCount[f] \in Nat
  BY TransferAssumption
<1>2. Begun(f) = Partly(f, 0)
  BY <1>1 DEF Begun, Partly
<1>3. Partly(f, ChunkCount[f]) = Complete(f)
  BY <1>1 DEF Partly, Complete, Whole
<1>4. ASSUME NEW m \in Message, m.file = f, m.i # 0
      PROVE  Filled(Partly(f, m.i - 1).chunks, m) = Partly(f, m.i).chunks
  <2> DEFINE old == Partly(f, m.i - 1).chunks
  <2>1. m.i \in 1..ChunkCount[f]
    BY <1>1, <1>4 DEF Message
  <2>2. Len(old) = ChunkCount[f]
    BY <1>1 DEF Partly
  <2>3. \A j \in 1..ChunkCount[f] :
            old[j] = IF j <= m.i - 1 THEN [file |-> f, i |-> j] ELSE NoChunk
    BY DEF Partly
  <2> HIDE DEF old
  <2>4. (IF m.i > Len(old) THEN m.i ELSE Len(old)) = ChunkCount[f]
    BY <1>1, <2>1, <2>2
  <2>5. Filled(old, m) =
            [j \in 1..ChunkCount[f] |-> IF j = m.i THEN [file |-> m.file, i |-> m.i]
                                        ELSE IF j <= Len(old) THEN old[j] ELSE NoChunk]
    BY <2>4 DEF Filled
  <2>6. \A j \in 1..ChunkCount[f] :
            (IF j = m.i THEN [file |-> m.file, i |-> m.i]
             ELSE IF j <= Len(old) THEN old[j] ELSE NoChunk)
            = IF j <= m.i THEN [file |-> f, i |-> j] ELSE NoChunk
    BY <1>1, <1>4, <2>1, <2>2, <2>3
  <2>7. Filled(old, m) =
            [j \in 1..ChunkCount[f] |-> IF j <= m.i THEN [file |-> f, i |-> j] ELSE NoChunk]
    BY <2>5, <2>6
  <2>. QED
    BY <2>7 DEF old, Partly
<1>. QED
  BY <1>2, <1>3, <1>4

LEMMA ArrivedLength ==
    ASSUME NEW b, NEW m \in Nat, Arrived(b, m)
    PROVE  /\ Len(received) = m /\ DOMAIN received = 1..m
           /\ \A k \in 1..m : received[k] = Complete(FilesOf[b][k])
BY DEF Arrived

\* The receiver takes the next message of the script as it should.
LEMMA TakesNext ==
    ASSUME TypeOK, NEW b \in Batches, NEW at, Shaped(FilesOf[b], Len(FilesOf[b]), Script(b), at),
           NEW n \in Nat, n < Len(Script(b)), Taken(b, at, n), Take(Script(b)[n + 1])
    PROVE  /\ Taken(b, at, n + 1)'
           /\ \/ UNCHANGED received
              \/ \E m \in Nat : m < Len(FilesOf[b]) /\ Arrived(b, m) /\ Arrived(b, m + 1)'
<1> DEFINE F == FilesOf[b]
           S == Script(b)
           j == n + 1
           m == S[j]
           f == m.file
<1>1. /\ S \in Seq(Message) /\ Len(S) \in Nat /\ j \in 1..Len(S) /\ m \in Message
      /\ F \in Seq(Files) /\ Len(F) \in Nat /\ j # 0 /\ j - 1 = n
  BY ScriptType, TransferAssumption, LenProperties
<1>2. InShape(F, S, at, j) /\ at[j] \in 1..Len(F) /\ (n # 0 => at[n] \in 1..Len(F))
  BY SMTT(30), <1>1 DEF Shaped
<1>3. f \in Files /\ m.kind \in {"start", "chunk", "end"} /\ f = F[at[j]]
  BY <1>1, <1>2 DEF Message, InShape
<1>4. Taken(b, at, j)' <=>
        IF m.kind = "end" THEN incoming' = <<>> /\ Arrived(b, at[j])'
        ELSE incoming' = <<Partly(f, m.i)>> /\ Arrived(b, at[j] - 1)'
  BY <1>1 DEF Taken, Script, FileScript, Msg
<1>5. \A i : UNCHANGED received /\ Arrived(b, i) => Arrived(b, i)'
  BY DEF Arrived, Complete, Whole
<1>6. CASE m.kind = "start"
  <2>1. m.i = 0 /\ (IF j = 1 THEN at[j] = 1 ELSE S[n].kind = "end" /\ at[j] = at[n] + 1)
    BY <1>1, <1>2, <1>6 DEF InShape, Starts
  <2>2. incoming = <<>> /\ Arrived(b, at[j] - 1)
    BY <1>1, <1>2, <2>1 DEF Taken
  <2>3. incoming' = Append(incoming, Begun(f)) /\ UNCHANGED received
    BY <1>6 DEF Take
  <2>4. incoming' = <<Partly(f, m.i)>>
    BY <1>3, <2>1, <2>2, <2>3, Growing
  <2>. QED
    BY <1>4, <1>5, <1>6, <2>2, <2>3, <2>4
<1>7. CASE m.kind = "chunk"
  <2>1. j # 1 /\ S[n].kind # "end" /\ at[j] = at[n] /\ m.i = S[n].i + 1
    BY <1>1, <1>2, <1>7 DEF InShape, Goes
  <2>2. n \in 1..Len(S) /\ S[n] \in Message /\ S[n].file = F[at[n]]
    BY <1>1, <2>1 DEF Shaped, InShape
  <2>3. incoming = <<Partly(f, m.i - 1)>> /\ Arrived(b, at[j] - 1)
    <3>1. S[n].i \in Nat /\ S[n].i = m.i - 1
      BY <2>1, <2>2 DEF Message
    <3>. QED
      BY <1>3, <2>1, <2>2, <3>1 DEF Taken
  <2>4. m.i # 0
    BY <2>1, <2>2 DEF Message
  <2>5. UNCHANGED received /\ incoming' = [incoming EXCEPT ![1].chunks = Filled(@, m)]
    BY <1>7, <2>3 DEF Take
  <2>6. Filled(Partly(f, m.i - 1).chunks, m) = Partly(f, m.i).chunks
    BY <1>1, <1>3, <2>4, Growing
  <2>7. incoming' = <<Partly(f, m.i)>>
    <3>1. [Partly(f, m.i - 1) EXCEPT !.chunks = Partly(f, m.i).chunks] = Partly(f, m.i)
      BY ChunksReplaced
    <3>2. incoming' = <<[Partly(f, m.i - 1) EXCEPT !.chunks = Filled(@, m)]>>
      BY <2>3, <2>5
    <3>3. incoming' = <<[Partly(f, m.i - 1) EXCEPT !.chunks = Partly(f, m.i).chunks]>>
      <4>1. [Partly(f, m.i - 1) EXCEPT !.chunks = Filled(@, m)]
              = [Partly(f, m.i - 1) EXCEPT !.chunks = Filled(Partly(f, m.i - 1).chunks, m)]
        OBVIOUS
      <4>. QED
        BY <2>6, <3>2, <4>1
    <3>. QED
      BY <3>1, <3>3
  <2>. QED
    BY <1>4, <1>5, <1>7, <2>3, <2>5, <2>7
<1>8. CASE m.kind = "end"
  <2>1. j # 1 /\ S[n].kind # "end" /\ at[j] = at[n] /\ S[n].i = ChunkCount[f]
    BY <1>1, <1>2, <1>8 DEF InShape, Ends
  <2>2. n \in 1..Len(S) /\ S[n].file = F[at[n]]
    BY <1>1, <2>1 DEF Shaped, InShape
  <2>3. incoming = <<Complete(f)>> /\ Arrived(b, at[j] - 1)
    BY <1>3, <2>1, <2>2, Growing DEF Taken
  <2>4. UnderWay(f) = {1} /\ TransferOf(f) = 1 /\ incoming[1] = Complete(f)
    <3>1. UnderWay(f) = {1}
      BY <2>3 DEF UnderWay, Complete
    <3>. QED
      BY <2>3, <3>1 DEF TransferOf
  <2>5. incoming' = RemoveAt(incoming, 1) /\ received' = Append(received, Complete(f))
    BY <1>8, <2>4 DEF Take, Ended
  <2>6. incoming' = <<>>
    BY <2>3, <2>5 DEF RemoveAt
  <2>7. Arrived(b, at[j])'
    <3> DEFINE k == at[j] - 1
    <3>1. k \in Nat /\ k + 1 = at[j]
      BY <1>2
    <3>2. received = [i \in 1..k |-> Complete(F[i])]
      BY <2>3 DEF Arrived
    <3>3. f = F[k + 1]
      BY <1>3, <3>1
    <3> HIDE DEF k, F, f
    <3>4. Append(received, Complete(F[k + 1])) = [i \in 1..(k + 1) |-> Complete(F[i])]
      BY <3>1, <3>2
    <3>5. received' = [i \in 1..(k + 1) |-> Complete(F[i])]
      BY <2>5, <3>3, <3>4
    <3>. QED
      BY <3>1, <3>5 DEF Arrived, Complete, Whole, F
  <2>8. at[j] - 1 \in Nat /\ at[j] - 1 < Len(F) /\ (at[j] - 1) + 1 = at[j]
    BY <1>1, <1>2
  <2>9. \E i \in Nat : i < Len(F) /\ Arrived(b, i) /\ Arrived(b, i + 1)'
    <3>1. Arrived(b, (at[j] - 1) + 1)'
      BY <2>7, <2>8
    <3>. QED
      BY <2>3, <2>8, <3>1
  <2>. QED
    BY <1>4, <1>8, <2>6, <2>7, <2>9
<1>. QED
  BY <1>3, <1>6, <1>7, <1>8

LEMMA OneCallInit ==
    ASSUME NEW b \in Batches, NEW at
    PROVE  Init => OneCallInv(b, at)
<1>1. SUFFICES ASSUME Init PROVE OneCallInv(b, at)
  OBVIOUS
<1>2. /\ Len(Script(b)) \in Nat /\ Len(FilesOf[b]) \in Nat /\ Script(b) \in Seq(Message)
      /\ SenderInv
  BY <1>1, ScriptType, SenderInvInit, TransferAssumption, LenProperties
<1>3. pos[b] = 1 /\ received = <<>> /\ incoming = <<>> /\ buffer = <<>>
  BY <1>1 DEF Init
<1>4. Arrived(b, 0) /\ 0 \in 0..Len(FilesOf[b])
  BY <1>2, <1>3 DEF Arrived
<1>5. InFlight(b, at)
  <2>1. SubSeq(Script(b), 0 + 1, 1 - 1) = <<>>
    BY SubSeqEmpty
  <2>2. Taken(b, at, 0) /\ 0 \in 0..(pos[b] - 1)
    BY <1>3, <1>4 DEF Taken
  <2>. QED
    BY <1>3, <2>1, <2>2 DEF InFlight
<1>. QED
  BY <1>2, <1>3, <1>4, <1>5 DEF OneCallInv

\* Sending extends the stretch in flight.
LEMMA SendingExtends ==
    ASSUME NEW b \in Batches, NEW at, OneCallInv(b, at), NEW i \in 0..Len(Script(b)),
           pos[b] = i + 1 \/ pos[b] = i, Send(b, pos[b], NextStop(b, i)),
           state'[b] # "idle", UNCHANGED <<open, incoming, received>>, SenderInv'
    PROVE  OneCallInv(b, at)'
<1> DEFINE S == Script(b)
           p == pos[b]
           stop == NextStop(b, i)
<1>1. /\ S \in Seq(Message) /\ Len(S) \in Nat /\ p \in 1..(Len(S) + 1)
      /\ stop \in (i + 1)..(Len(S) + 1) /\ i \in Nat /\ b \in DOMAIN pos
  BY ScriptType, NextStopIs DEF OneCallInv, SenderInv, TypeOK
<1>2. stop \in p..(Len(S) + 1)
  BY <1>1
<1>3. PICK m \in 0..Len(FilesOf[b]) : Arrived(b, m)
  BY DEF OneCallInv
<1>4. Arrived(b, m)'
  BY <1>3 DEF Arrived, Complete, Whole
<1>5. pos'[b] \in 1..(Len(S) + 1)
  <2>1. pos'[b] \in {p, stop}
    <3> HIDE DEF S, stop
    <3> QED BY <1>1 DEF Send, stop
  <2> HIDE DEF S, stop, p
  <2> QED BY <1>1, <1>2, <2>1
<1>6. ASSUME open' PROVE InFlight(b, at)'
  <2>1. open /\ buffer' = buffer \o SubSeq(S, p, stop - 1) /\ pos'[b] = stop
    <3> HIDE DEF stop
    <3>1. open
      BY <1>6
    <3>2. buffer' = buffer \o SubSeq(S, p, stop - 1) /\ pos' = [pos EXCEPT ![b] = stop]
      BY <3>1, Zenon DEF Send, stop
    <3> HIDE DEF S, p
    <3> QED BY <1>1, <3>1, <3>2
  <2>2. PICK n \in 0..(p - 1) : buffer = SubSeq(S, n + 1, p - 1) /\ Taken(b, at, n)
    BY SMTT(30), <2>1 DEF OneCallInv, InFlight
  <2>3. Taken(b, at, n)'
    BY <2>2 DEF Taken, Arrived, Complete, Whole, Script, FileScript, Msg, Partly
  <2>4. SubSeq(S, n + 1, p - 1) \o SubSeq(S, p, stop - 1) = SubSeq(S, n + 1, stop - 1)
    <3> HIDE DEF S, p, stop
    <3>1. /\ n + 1 \in 1..(Len(S) + 1) /\ p - 1 \in (n + 1 - 1)..Len(S)
          /\ stop - 1 \in (p - 1)..Len(S) /\ (p - 1) + 1 = p
      BY <1>1, <1>2, <2>2
    <3>2. SubSeq(S, n + 1, p - 1) \o SubSeq(S, (p - 1) + 1, stop - 1) = SubSeq(S, n + 1, stop - 1)
      <4> DEFINE from == n + 1
                 mid == p - 1
                 to == stop - 1
      <4>1. S \in Seq(Message) /\ from \in 1..(Len(S) + 1) /\ mid \in (from - 1)..Len(S) /\ to \in mid..Len(S)
        BY <1>1, <3>1
      <4> HIDE DEF from, mid, to
      <4>2. SubSeq(S, from, mid) \o SubSeq(S, mid + 1, to) = SubSeq(S, from, to)
        BY <4>1, ConcatAdjacentSubSeq
      <4> QED BY <4>2 DEF from, mid, to
    <3>. QED
      BY <3>1, <3>2
  <2>5. buffer' = SubSeq(S, n + 1, pos'[b] - 1) /\ n \in 0..(pos'[b] - 1)
    <3>1. buffer' = SubSeq(S, n + 1, stop - 1)
      BY <2>1, <2>2, <2>4
    <3>2. n \in 0..(stop - 1)
      BY SMTT(30), <1>1, <1>2, <2>2
    <3>. QED
      BY <2>1, <3>1, <3>2
  <2>6. buffer' = SubSeq(Script(b)', n + 1, pos'[b] - 1)
    BY <2>5 DEF Script, FileScript, Msg
  <2>. QED
    BY <2>3, <2>5, <2>6 DEF InFlight
<1>7. Len(Script(b)') = Len(S)
  BY DEF Script, FileScript, Msg
<1>. QED
  BY <1>3, <1>4, <1>5, <1>6, <1>7 DEF OneCallInv

LEMMA OneCallNext ==
    ASSUME NEW b \in Batches, Batches = {b},
           NEW at, Shaped(FilesOf[b], Len(FilesOf[b]), Script(b), at),
           OneCallInv(b, at), [Next]_vars
    PROVE  /\ OneCallInv(b, at)'
           /\ \/ UNCHANGED received
              \/ \E m \in Nat : m < Len(FilesOf[b]) /\ Arrived(b, m) /\ Arrived(b, m + 1)'
<1>1. /\ Script(b) \in Seq(Message) /\ Len(Script(b)) \in Nat
      /\ pos[b] \in 1..(Len(Script(b)) + 1) /\ TypeOK /\ SenderInv /\ SenderInv'
  BY ScriptType, SenderInvNext DEF OneCallInv, SenderInv
<1>2. ASSUME SendFiles(b) PROVE OneCallInv(b, at)' /\ UNCHANGED received
  <2>1. pos[b] = 1 /\ Send(b, 1, NextStop(b, 0)) /\ UNCHANGED <<open, incoming, received>>
    BY <1>2 DEF SendFiles, OneCallInv
  <2>2. 0 \in 0..Len(Script(b)) /\ pos[b] = 0 + 1
    BY <1>1, <2>1
  <2>3. state'[b] # "idle"
    BY <1>1, <2>1 DEF Send, TypeOK
  <2>. QED
    BY <1>1, <2>1, <2>2, <2>3, SendingExtends
<1>3. ASSUME SliceRead(b) \/ Resume(b), Send(b, pos[b], NextStop(b, pos[b]))
      PROVE  OneCallInv(b, at)' /\ UNCHANGED received
  <2>1. UNCHANGED <<open, incoming, received>> /\ state[b] \in Suspended
    BY <1>3 DEF SliceRead, Resume, Suspended
  <2>2. pos[b] \in 0..Len(Script(b))
    BY <1>1, <2>1 DEF SenderInv, CallsAreAtChunks, AtChunk
  <2>3. state'[b] # "idle"
    BY <1>1, <1>3 DEF Send, TypeOK
  <2>. QED
    BY <1>1, <1>3, <2>1, <2>2, <2>3, SendingExtends
<1>4. ASSUME UNCHANGED <<pos, buffer, incoming, received>>, state[b] = "idle" \/ state'[b] # "idle",
             open' => open
      PROVE  OneCallInv(b, at)' /\ UNCHANGED received
  <2>1. InFlight(b, at) /\ open' => InFlight(b, at)'
    BY <1>4 DEF InFlight, Taken, Arrived, Complete, Whole, Script, FileScript, Msg, Partly
  <2>2. (\E m \in 0..Len(FilesOf[b]) : Arrived(b, m))'
    BY <1>4 DEF OneCallInv, Arrived, Complete, Whole
  <2>3. Len(Script(b)') = Len(Script(b))
    BY DEF Script, FileScript, Msg
  <2>. QED
    BY SMTT(30), <1>1, <1>4, <2>1, <2>2, <2>3 DEF OneCallInv
<1>5. ASSUME SliceRead(b), ~Send(b, pos[b], NextStop(b, pos[b]))
      PROVE  OneCallInv(b, at)' /\ UNCHANGED received
  <2>1. UNCHANGED <<pos, buffer, incoming, received, open>> /\ state'[b] # "idle"
    BY <1>1, <1>5 DEF SliceRead, TypeOK
  <2>. QED
    BY <1>4, <2>1
<1>6. ASSUME Receive
      PROVE  /\ OneCallInv(b, at)'
             /\ \/ UNCHANGED received
                \/ \E m \in Nat : m < Len(FilesOf[b]) /\ Arrived(b, m) /\ Arrived(b, m + 1)'
  <2>1. /\ open /\ buffer # <<>> /\ Take(Head(buffer)) /\ buffer' = Tail(buffer)
        /\ UNCHANGED <<open, pos>>
    BY <1>6 DEF Receive
  <2>2. PICK n \in 0..(pos[b] - 1) :
            buffer = SubSeq(Script(b), n + 1, pos[b] - 1) /\ Taken(b, at, n)
    BY <2>1 DEF OneCallInv, InFlight
  <2>3. n \in Nat /\ n + 1 \in 1..Len(Script(b)) /\ pos[b] - 1 \in (n + 1)..Len(Script(b))
    <3>1. ~(pos[b] - 1 < n + 1)
      <4>1. n + 1 \in Int /\ pos[b] - 1 \in Int
        BY <1>1, <2>2
      <4>. QED
        BY <2>1, <2>2, <4>1, SubSeqEmpty
    <3>. QED
      BY <1>1, <2>2, <3>1
  <2>4. /\ Head(buffer) = Script(b)[n + 1]
        /\ Tail(buffer) = SubSeq(Script(b), n + 1 + 1, pos[b] - 1)
    BY <1>1, <2>2, <2>3, HeadTailOfSubSeq
  <2>5. /\ Taken(b, at, n + 1)'
        /\ \/ UNCHANGED received
           \/ \E m \in Nat : m < Len(FilesOf[b]) /\ Arrived(b, m) /\ Arrived(b, m + 1)'
    <3>1. n < Len(Script(b)) /\ Take(Script(b)[n + 1])
      BY SMTT(30), <1>1, <2>1, <2>3, <2>4
    <3>. QED
      BY <1>1, <2>2, <2>3, <3>1, TakesNext
  <2>6. InFlight(b, at)'
    <3>1. n + 1 \in 0..(pos'[b] - 1) /\ buffer' = SubSeq(Script(b)', n + 1 + 1, pos'[b] - 1)
      <4>1. buffer' = SubSeq(Script(b), n + 1 + 1, pos[b] - 1) /\ pos' = pos
        BY <2>1, <2>4
      <4>2. n + 1 \in 0..(pos[b] - 1)
        BY <1>1, <2>3
      <4>. QED
        BY <4>1, <4>2 DEF Script, FileScript, Msg
    <3>. QED
      BY <2>5, <3>1 DEF InFlight
  <2>7. (\E m \in 0..Len(FilesOf[b]) : Arrived(b, m))'
    <3>1. Len(FilesOf[b]) \in Nat
      BY TransferAssumption, LenProperties
    <3>2. CASE UNCHANGED received
      BY <3>2 DEF OneCallInv, Arrived, Complete, Whole
    <3>3. CASE \E m \in Nat : m < Len(FilesOf[b]) /\ Arrived(b, m) /\ Arrived(b, m + 1)'
      <4>1. PICK m \in Nat : m < Len(FilesOf[b]) /\ Arrived(b, m + 1)'
        BY <3>3
      <4>2. m + 1 \in 0..Len(FilesOf[b])
        BY <3>1, <4>1
      <4>. QED
        BY <4>1, <4>2
    <3>. QED
      BY <2>5, <3>2, <3>3
  <2>8. state'[b] = "idle" => state[b] = "idle"
    BY <1>1, <1>6 DEF Receive, TypeOK
  <2>9. Len(Script(b)') = Len(Script(b))
    BY DEF Script, FileScript, Msg
  <2>. QED
    BY <1>1, <2>1, <2>5, <2>6, <2>7, <2>8, <2>9 DEF OneCallInv
<1>7. ASSUME CloseChannel PROVE OneCallInv(b, at)' /\ UNCHANGED received
  <2>1. ~open' /\ UNCHANGED <<state, pos, received>>
    BY <1>7 DEF CloseChannel
  <2>2. (\E m \in 0..Len(FilesOf[b]) : Arrived(b, m))'
    BY <2>1 DEF OneCallInv, Arrived, Complete, Whole
  <2>3. Len(Script(b)') = Len(Script(b))
    BY DEF Script, FileScript, Msg
  <2>. QED
    BY <1>1, <2>1, <2>2, <2>3 DEF OneCallInv
<1>8. ASSUME UNCHANGED vars PROVE OneCallInv(b, at)' /\ UNCHANGED received
  <2>1. UNCHANGED <<pos, buffer, incoming, received, open, state>>
    BY <1>8 DEF vars
  <2>. QED
    BY <1>4, <2>1
<1>9. Resume(b) => Send(b, pos[b], NextStop(b, pos[b]))
  BY DEF Resume
<1>. QED
  BY <1>2, <1>3, <1>5, <1>6, <1>7, <1>8, <1>9 DEF Next

\* What has arrived intact is what was received.
LEMMA Receives ==
    ASSUME NEW b \in Batches, NEW m \in 0..Len(FilesOf[b]), Arrived(b, m)
    PROVE  /\ ReceivedIntact
           /\ [k \in DOMAIN received |-> IF Intact(received[k]) THEN received[k].file ELSE NoBatch]
                = [k \in 1..m |-> FilesOf[b][k]]
<1>1. m \in Nat
  BY TransferAssumption, LenProperties
<1>2. DOMAIN received = 1..m /\ \A k \in 1..m : received[k] = Complete(FilesOf[b][k])
  BY <1>1, ArrivedLength
<1>3. \A k \in 1..m : received[k].chunks = Whole(received[k].file) /\ received[k].file = FilesOf[b][k]
  BY <1>2 DEF Complete
<1>. QED
  BY <1>2, <1>3 DEF ReceivedIntact, Intact

\* One call of sendP2pFiles delivers what it sends: every file received has all its
\* chunks, in place, and the buffer stays bounded (p2p-client.js:394-561), for any
\* files, of any number of chunks, and any watermarks.
THEOREM OneCallStaysSound ==
    ASSUME NEW b \in Batches, Batches = {b}
    PROVE  Spec => []TransferIsSound
<1>1. PICK at : Shaped(FilesOf[b], Len(FilesOf[b]), Script(b), at)
  BY ScriptIsShaped
<1>2. Init => OneCallInv(b, at)
  BY OneCallInit
<1>3. OneCallInv(b, at) /\ [Next]_vars => OneCallInv(b, at)'
  BY <1>1, OneCallNext
<1>4. OneCallInv(b, at) => TransferIsSound
  BY RoomBounds, Receives DEF OneCallInv, TransferIsSound
<1>. QED
  BY <1>2, <1>3, <1>4, PTL DEF Spec

\* One call of sendP2pFiles implements FileCopy: its files arrive whole and in the
\* order they were chosen, wherever the channel breaks.
THEOREM OneCallCopiesFiles ==
    ASSUME NEW b \in Batches, Batches = {b}
    PROVE  Spec => ImplementsFileCopy
<1> DEFINE arrived == [k \in DOMAIN received |->
                          IF Intact(received[k]) THEN received[k].file ELSE NoBatch]
           F == FilesOf[b]
<1>1. PICK at : Shaped(FilesOf[b], Len(FilesOf[b]), Script(b), at)
  BY ScriptIsShaped
<1>2. TheCall = b /\ F \in Seq(Files) /\ Len(F) \in Nat
  BY TransferAssumption, LenProperties DEF TheCall
<1>3. Init => OneCallInv(b, at) /\ Copy!Init
  <2>1. ASSUME Init PROVE Copy!Init
    BY <2>1 DEF Init, Copy!Init
  <2>. QED
    BY <2>1, OneCallInit
<1>4. OneCallInv(b, at) /\ [Next]_vars => OneCallInv(b, at)'
  BY <1>1, OneCallNext
<1>5. OneCallInv(b, at) /\ [Next]_vars => [Copy!Arrive]_arrived
  <2>1. SUFFICES ASSUME OneCallInv(b, at), [Next]_vars PROVE Copy!Arrive \/ arrived' = arrived
    OBVIOUS
  <2>2. CASE UNCHANGED received
    BY <2>2 DEF Intact, Whole
  <2>3. CASE \E m \in Nat : m < Len(F) /\ Arrived(b, m) /\ Arrived(b, m + 1)'
    <3>1. PICK m \in Nat : m < Len(F) /\ Arrived(b, m) /\ Arrived(b, m + 1)'
      BY <2>3
    <3>2. m \in 0..Len(F) /\ m + 1 \in 0..Len(F)
      BY <1>2, <3>1
    <3>3. arrived = [k \in 1..m |-> F[k]]
      BY <3>1, <3>2, Receives
    <3>4. arrived' = [k \in 1..(m + 1) |-> F[k]]
      <4>1. received' = [k \in 1..(m + 1) |-> Complete(F[k])]
        BY <3>1 DEF Arrived, Complete, Whole
      <4>2. DOMAIN received' = 1..(m + 1) /\ \A k \in 1..(m + 1) : received'[k] = Complete(F[k])
        BY <4>1
      <4>3. \A k \in 1..(m + 1) :
                received'[k].chunks = Whole(received'[k].file) /\ received'[k].file = F[k]
        BY <4>2 DEF Complete
      <4>. QED
        BY <4>2, <4>3 DEF Intact, Whole
    <3> HIDE DEF arrived, F
    <3>5. Len(arrived) = m /\ arrived' = Append(arrived, F[m + 1])
      BY <3>1, <3>3, <3>4
    <3>. QED
      BY <1>2, <3>1, <3>5 DEF Copy!Arrive, arrived, F
  <2>. QED
    BY <1>1, <2>1, <2>2, <2>3, OneCallNext
<1>. QED
  BY <1>3, <1>4, <1>5, PTL DEF Spec, ImplementsFileCopy, Copy!Spec, arrived
=============================================================================
