--------------------------- MODULE PipelineProofs ---------------------------
(***************************************************************************)
(* Theorems about a document job in the worker and the studio in front of  *)
(* it, for any jobs, files and steps: its bar never goes back, a chain     *)
(* delivers the pages it started from under the lock it should, and a bill *)
(* adds up, says its amount in words and fits its paper, for any number of *)
(* items and every amount.                                                 *)
(***************************************************************************)
EXTENDS Studio, TLAPS, FiniteSetTheorems, SequenceTheorems, WellFoundedInduction

-----------------------------------------------------------------------------
(* Bills *)

\* A clamped number is at least its bound.
LEMMA AtLeastBounds ==
    ASSUME NEW low \in Int, NEW x \in Int
    PROVE  AtLeast(low, x) \in Int /\ AtLeast(low, x) >= low /\ AtLeast(low, x) >= x
BY DEF AtLeast

\* The roll a slip is printed on is cut long enough for everything drawn on
\* it: any number of items, with or without the code to scan, the optional
\* lines of the head and the lines of discount and tax (pos-billing.ts:83-340).
THEOREM RollHoldsTheSlip ==
    ASSUME NEW items \in Nat, NEW upi \in BOOLEAN, NEW heads \in 0..32, NEW sums \in 1..3
    PROVE  RollDrawn(items, upi, heads, sums) <= RollLength(items, upi)
<1> DEFINE needed == 120 + 24 * items + 90 + (IF upi THEN 110 ELSE 20) + 60
           drawn == RollDrawn(items, upi, heads, sums)
           cut == RollLength(items, upi)
<1>1. needed \in Int
    OBVIOUS
<1>2. cut = AtLeast(350, needed)
    BY DEF RollLength
<1>3. drawn \in Int /\ drawn <= needed
    <2>1. CASE upi
        BY <2>1 DEF RollDrawn, RollHead, RollBody
    <2>2. CASE ~upi
        BY <2>2 DEF RollDrawn, RollHead, RollBody
    <2> QED BY <2>1, <2>2
<1> HIDE DEF needed, drawn, cut
<1>4. cut \in Int /\ cut >= needed
    BY <1>1, <1>2, AtLeastBounds
<1>5. drawn <= cut
    BY <1>1, <1>3, <1>4
<1> QED BY <1>5 DEF drawn, cut

\* An invoice of at most eleven items, each on one line, leaves room for the
\* words, the bank and the declaration, whatever its HSN codes and rates: the
\* summary has at most a line for each item (gst-invoice.ts:652-834).
THEOREM ElevenItemsFit ==
    ASSUME NEW items \in 0..11, NEW codes \in 0..items
    PROVE  InvoiceRoom(items, codes) >= 0
BY DEF InvoiceRoom, InvoiceHead, InvoiceTable, InvoiceSummary, InvoiceFoot

\* With twelve items of twelve codes it does not.
THEOREM TwelveItemsMayNotFit == InvoiceRoom(12, 12) < 0
BY DEF InvoiceRoom, InvoiceHead, InvoiceTable, InvoiceSummary, InvoiceFoot

\* An estimate of at most twenty items with three lines of terms leaves room
\* to sign above its foot (estimate-maker.ts:190-334).
THEOREM TwentyItemsFit ==
    ASSUME NEW items \in 0..20, NEW sums \in 1..3
    PROVE  EstimateRoom(items, sums, 3) >= 0
BY DEF EstimateRoom, EstimateHead, EstimateTable, EstimateFoot

\* What an invoice rounds off is at most half a rupee either way, for every
\* sum of its figures in paise (gst-invoice.ts:254-255).
THEOREM RoundOffIsSmall ==
    ASSUME NEW raw \in Int
    PROVE  Rounded(raw, 100) * 100 - raw \in -50..50
<1> DEFINE q == (raw + 50) \div 100
           r == (raw + 50) % 100
<1>1. q \in Int /\ r \in 0..99 /\ raw + 50 = 100 * q + r
    OBVIOUS
<1>2. 100 \div 2 = 50
    OBVIOUS
<1>3. Rounded(raw, 100) = q
    BY <1>2 DEF Rounded
<1> HIDE DEF q, r
<1> QED BY <1>1, <1>3

\* A percentage the worker takes is between 0 and 100, whatever is sent, and
\* one that is there already is kept (pos-billing.ts:75-80).
THEOREM PercentIsInRange ==
    ASSUME NEW x \in Int
    PROVE  Percent(x) \in 0..100 /\ (x \in 0..100 => Percent(x) = x)
BY DEF Percent, AtLeast

-----------------------------------------------------------------------------
(* Sequences that are put together or thinned out *)

LEMMA LeastNumber ==
    ASSUME NEW S \in SUBSET Nat, S # {}
    PROVE  \E m \in S : \A k \in S : m <= k
<1>1. PICK m \in S : \A k \in S : ~ (<<k, m>> \in OpToRel(<, Nat))
    BY NatLessThanWellFounded, WFMin
<1>2. ASSUME NEW k \in S PROVE m <= k
    <2>1. <<k, m>> \in Nat \X Nat /\ <<k, m>>[1] = k /\ <<k, m>>[2] = m
        OBVIOUS
    <2> QED BY <1>1, <2>1 DEF OpToRel
<1> QED BY <1>2

\* What the recursive function of Those is, up to a place.
Thins(g, s, places, n) ==
    g = [i \in 0..n |-> IF i = 0 THEN <<>>
                        ELSE IF i \in places THEN Append(g[i - 1], s[i]) ELSE g[i - 1]]

LEMMA ThinsExist ==
    ASSUME NEW s, NEW places, NEW n \in Nat
    PROVE  \E g : Thins(g, s, places, n)
<1> DEFINE Bad == {m \in 0..n : ~ \E g : Thins(g, s, places, m)}
<1>1. SUFFICES ASSUME Bad # {} PROVE FALSE
    <2>1. n \in 0..n
        OBVIOUS
    <2> QED BY <1>1, <2>1
<1>2. Bad \in SUBSET Nat
    OBVIOUS
<1>3. PICK m \in Bad : \A k \in Bad : m <= k
    <2> HIDE DEF Bad
    <2> QED BY <1>1, <1>2, LeastNumber
<1>4. m \in 0..n /\ ~ \E g : Thins(g, s, places, m)
    OBVIOUS
<1>5. m # 0
    <2>1. Thins([i \in 0..0 |-> <<>>], s, places, 0)
        BY DEF Thins
    <2> QED BY <1>4, <2>1
<1>6. m - 1 \in 0..n /\ m - 1 \notin Bad
    <2>1. m \in Nat /\ m - 1 \in 0..n /\ ~(m <= m - 1)
        BY <1>4, <1>5
    <2> HIDE DEF Bad
    <2> QED BY <1>3, <2>1
<1>7. PICK g : Thins(g, s, places, m - 1)
    BY <1>6
<1> DEFINE h == [i \in 0..m |-> IF i = 0 THEN <<>>
                                ELSE IF i \in places THEN Append(g[i - 1], s[i]) ELSE g[i - 1]]
<1>8. ASSUME NEW i \in 0..(m - 1) PROVE h[i] = g[i]
    <2>1. g[i] = IF i = 0 THEN <<>>
                 ELSE IF i \in places THEN Append(g[i - 1], s[i]) ELSE g[i - 1]
        BY <1>7 DEF Thins
    <2>2. i \in 0..m
        BY <1>4
    <2> QED BY <2>1, <2>2
<1>9. Thins(h, s, places, m)
    <2>1. ASSUME NEW i \in 0..m, i # 0 PROVE h[i - 1] = g[i - 1]
        <3>1. i - 1 \in 0..(m - 1)
            BY <1>4, <2>1
        <3> HIDE DEF h
        <3> QED BY <1>8, <3>1
    <2> QED BY <2>1 DEF Thins
<1> QED BY <1>4, <1>9

LEMMA ThoseAre ==
    ASSUME NEW s, NEW places, Len(s) \in Nat
    PROVE  \E g : /\ g[0] = <<>> /\ Those(s, places) = g[Len(s)]
                  /\ \A i \in 1..Len(s) :
                        g[i] = IF i \in places THEN Append(g[i - 1], s[i]) ELSE g[i - 1]
<1> DEFINE f == CHOOSE g : g = [i \in 0..Len(s) |->
                    IF i = 0 THEN <<>>
                    ELSE IF i \in places THEN Append(g[i - 1], s[i]) ELSE g[i - 1]]
<1>1. Those(s, places) = f[Len(s)]
    BY DEF Those
<1>2. f = [i \in 0..Len(s) |-> IF i = 0 THEN <<>>
               ELSE IF i \in places THEN Append(f[i - 1], s[i]) ELSE f[i - 1]]
    <2>1. \E g : g = [i \in 0..Len(s) |-> IF i = 0 THEN <<>>
                          ELSE IF i \in places THEN Append(g[i - 1], s[i]) ELSE g[i - 1]]
        <3>1. \E g : Thins(g, s, places, Len(s))
            BY ThinsExist
        <3> QED BY <3>1 DEF Thins
    <2> QED BY <2>1, Zenon
<1> HIDE DEF f
<1>3. f[0] = <<>>
    BY <1>2
<1>4. \A i \in 1..Len(s) : f[i] = IF i \in places THEN Append(f[i - 1], s[i]) ELSE f[i - 1]
    <2>1. SUFFICES ASSUME NEW i \in 1..Len(s)
                   PROVE  f[i] = IF i \in places THEN Append(f[i - 1], s[i]) ELSE f[i - 1]
        OBVIOUS
    <2>2. i \in 0..Len(s) /\ i # 0
        OBVIOUS
    <2> QED BY <1>2, <2>2
<1> QED BY <1>1, <1>3, <1>4

\* What is thinned out is still of the same kind.
LEMMA ThoseIsSeq ==
    ASSUME NEW A, NEW s \in Seq(A), NEW places
    PROVE  Those(s, places) \in Seq(A)
<1>0. Len(s) \in Nat
    BY LenProperties
<1>1. PICK g : /\ g[0] = <<>> /\ Those(s, places) = g[Len(s)]
               /\ \A i \in 1..Len(s) :
                     g[i] = IF i \in places THEN Append(g[i - 1], s[i]) ELSE g[i - 1]
    BY <1>0, ThoseAre
<1> DEFINE Bad == {m \in 0..Len(s) : g[m] \notin Seq(A)}
<1>2. SUFFICES ASSUME Bad # {} PROVE FALSE
    BY <1>0, <1>1, <1>2
<1>3. PICK m \in Bad : \A k \in Bad : m <= k
    <2>1. Bad \in SUBSET Nat
        BY <1>0
    <2> HIDE DEF Bad
    <2> QED BY <1>2, <2>1, LeastNumber
<1>4. m # 0
    <2>1. g[0] \in Seq(A)
        BY <1>1
    <2> QED BY <1>3, <2>1
<1>5. m \in 1..Len(s) /\ m - 1 \in 0..Len(s) /\ ~(m <= m - 1)
    BY <1>0, <1>3, <1>4
<1>6. g[m - 1] \in Seq(A)
    BY <1>3, <1>5
<1>7. s[m] \in A
    BY <1>5, ElementOfSeq
<1>8. g[m] \in Seq(A)
    <2> DEFINE before == g[m - 1]
    <2>1. g[m] = IF m \in places THEN Append(before, s[m]) ELSE before
        BY <1>1, <1>5
    <2>2. before \in Seq(A)
        BY <1>6
    <2> HIDE DEF before
    <2>3. Append(before, s[m]) \in Seq(A)
        BY <1>7, <2>2, AppendProperties
    <2> QED BY <2>1, <2>2, <2>3
<1> QED BY <1>3, <1>8

-----------------------------------------------------------------------------
(* Rising numbers *)

Rises(s, low, high) ==
    /\ s \in Seq(low..high)
    /\ \A i, j \in 1..Len(s) : i <= j => s[i] <= s[j]

LEMMA RisesWithin ==
    ASSUME NEW a \in Int, NEW b \in Int, NEW low \in Int, NEW high \in Int,
           low <= a, b <= high, NEW s, Rises(s, a, b)
    PROVE  Rises(s, low, high)
<1>1. a..b \subseteq low..high
    OBVIOUS
<1>2. s \in Seq(low..high)
    <2>1. s \in Seq(a..b)
        BY DEF Rises
    <2>2. s \in [1..Len(s) -> a..b] /\ Len(s) \in Nat
        BY <2>1, LenProperties
    <2>3. s \in [1..Len(s) -> low..high]
        BY <1>1, <2>2
    <2> QED BY <2>2, <2>3
<1> QED BY <1>2 DEF Rises

LEMMA NoneRises ==
    ASSUME NEW low, NEW high
    PROVE  Rises(<<>>, low, high)
BY DEF Rises

LEMMA OneRises ==
    ASSUME NEW low \in Int, NEW high \in Int, NEW x \in low..high
    PROVE  Rises(<<x>>, low, high)
BY DEF Rises

LEMMA BothRise ==
    ASSUME NEW a \in Int, NEW b \in Int, NEW c \in Int, a <= b, b <= c,
           NEW s, Rises(s, a, b), NEW t, Rises(t, b, c)
    PROVE  Rises(s \o t, a, c)
<1> DEFINE st == s \o t
<1>1. Rises(s, a, c) /\ Rises(t, a, c)
    BY RisesWithin
<1>2. s \in Seq(a..c) /\ t \in Seq(a..c) /\ s \in Seq(a..b) /\ t \in Seq(b..c)
    BY <1>1 DEF Rises
<1>3. /\ Len(s) \in Nat /\ Len(t) \in Nat
      /\ \A i \in 1..Len(s) : s[i] \in a..b
      /\ \A i \in 1..Len(t) : t[i] \in b..c
    BY <1>2, LenProperties
<1>4. /\ st \in Seq(a..c) /\ Len(st) = Len(s) + Len(t)
      /\ \A i \in 1..Len(s) + Len(t) : st[i] = IF i <= Len(s) THEN s[i] ELSE t[i - Len(s)]
    BY <1>2, ConcatProperties
<1> HIDE DEF st
<1>5. ASSUME NEW i \in 1..Len(st), NEW j \in 1..Len(st), i <= j PROVE st[i] <= st[j]
    <2>1. CASE j <= Len(s)
        <3>1. i \in 1..Len(s) /\ j \in 1..Len(s) /\ st[i] = s[i] /\ st[j] = s[j]
            BY <1>3, <1>4, <1>5, <2>1
        <3> QED BY <1>5, <3>1 DEF Rises
    <2>2. CASE i > Len(s)
        <3>1. /\ i - Len(s) \in 1..Len(t) /\ j - Len(s) \in 1..Len(t)
              /\ st[i] = t[i - Len(s)] /\ st[j] = t[j - Len(s)] /\ i - Len(s) <= j - Len(s)
            BY SMTT(30), <1>3, <1>4, <1>5, <2>2
        <3> QED BY <3>1 DEF Rises
    <2>3. CASE i <= Len(s) /\ j > Len(s)
        <3>1. /\ i \in 1..Len(s) /\ j - Len(s) \in 1..Len(t)
              /\ st[i] = s[i] /\ st[j] = t[j - Len(s)]
            BY <1>3, <1>4, <1>5, <2>3
        <3>2. s[i] \in a..b /\ t[j - Len(s)] \in b..c
            BY <1>3, <3>1
        <3> QED BY <3>1, <3>2
    <2> QED BY <1>3, <1>4, <2>1, <2>2, <2>3
<1> QED BY <1>4, <1>5 DEF st, Rises

\* One number after the others.
LEMMA ThenRises ==
    ASSUME NEW a \in Int, NEW b \in Int, NEW c \in Int, a <= b, b <= c,
           NEW s, Rises(s, a, b), NEW x \in b..c
    PROVE  Rises(Append(s, x), a, c)
<1>1. Rises(<<x>>, b, c)
    BY OneRises
<1>2. Rises(s \o <<x>>, a, c)
    BY <1>1, BothRise
<1>3. Append(s, x) = s \o <<x>>
    BY AppendIsConcat, <1>1 DEF Rises
<1> QED BY <1>2, <1>3

\* The chosen pages of a file, in order.
LEMMA ChosenRise ==
    ASSUME NEW n \in Nat, NEW places
    PROVE  Rises(Chosen(n, places), 1, n)
<1> DEFINE s == [p \in 1..n |-> p]
<1>0. Len(s) = n /\ \A i \in 1..n : s[i] = i
    OBVIOUS
<1>1. Chosen(n, places) = Those(s, places)
    BY DEF Chosen
<1> HIDE DEF s
<1>2. PICK g : /\ g[0] = <<>> /\ Those(s, places) = g[n]
               /\ \A i \in 1..n :
                     g[i] = IF i \in places THEN Append(g[i - 1], s[i]) ELSE g[i - 1]
    BY <1>0, ThoseAre
<1> DEFINE Bad == {m \in 0..n : ~Rises(g[m], 1, m)}
<1>3. SUFFICES ASSUME Bad # {} PROVE FALSE
    BY <1>1, <1>2, <1>3
<1>4. PICK m \in Bad : \A k \in Bad : m <= k
    <2>1. Bad \in SUBSET Nat
        OBVIOUS
    <2> HIDE DEF Bad
    <2> QED BY <1>3, <2>1, LeastNumber
<1>5. m # 0
    <2>1. Rises(g[0], 1, 0)
        BY <1>2, NoneRises
    <2> QED BY <1>4, <2>1
<1>6. m \in 1..n /\ m - 1 \in 0..n /\ ~(m <= m - 1)
    BY <1>4, <1>5
<1> DEFINE before == g[m - 1]
           last == m - 1
<1>7. Rises(before, 1, last)
    BY <1>4, <1>6
<1>8. g[m] = IF m \in places THEN Append(before, m) ELSE before
    BY <1>0, <1>2, <1>6
<1>9. last \in Int /\ last <= m /\ m \in Int /\ m \in last..m /\ m >= 1
    BY <1>6
<1> HIDE DEF before, last
<1>10. Rises(before, 1, m)
    BY <1>7, <1>9, RisesWithin
<1>11. CASE last >= 1
    <2>1. Rises(Append(before, m), 1, m)
        BY <1>7, <1>9, <1>11, ThenRises
    <2>2. Rises(g[m], 1, m)
        BY <1>8, <1>10, <2>1
    <2> QED BY <1>4, <2>2
<1>12. CASE last = 0
    <2>1. before = <<>>
        BY <1>2, <1>12 DEF before, last
    <2>2. Append(before, m) = <<m>>
        BY <2>1
    <2>3. Rises(Append(before, m), 1, m)
        BY <1>9, <2>2, OneRises
    <2>4. Rises(g[m], 1, m)
        BY <1>8, <1>10, <2>3
    <2> QED BY <1>4, <2>4
<1> QED BY <1>6, <1>11, <1>12 DEF last

-----------------------------------------------------------------------------
(* Percents *)

LEMMA Division ==
    ASSUME NEW a \in Int, NEW d \in Nat \ {0}
    PROVE  a \div d \in Int /\ d * (a \div d) <= a /\ a < d * (a \div d) + d
<1>1. a \div d \in Int /\ a % d \in 0..(d - 1)
    OBVIOUS
<1>2. a = d * (a \div d) + (a % d)
    OBVIOUS
<1> DEFINE q == a \div d
           r == a % d
           p == d * q
<1>3. q \in Int /\ r \in 0..(d - 1) /\ a = p + r /\ p \in Int
    BY <1>1, <1>2
<1> HIDE DEF q, r, p
<1>4. p <= a /\ a < p + d
    BY <1>3
<1> QED BY <1>1, <1>4 DEF q, p

LEMMA TimesGrows ==
    ASSUME NEW d \in Nat, NEW a \in Int, NEW b \in Int, a <= b
    PROVE  d * a <= d * b
OBVIOUS

LEMMA DivisionGrows ==
    ASSUME NEW d \in Nat \ {0}, NEW a \in Int, NEW b \in Int, a <= b
    PROVE  a \div d <= b \div d
<1> DEFINE q == a \div d
           r == b \div d
           dq == d * q
           dr == d * r
           drr == d * (r + 1)
<1>1. q \in Int /\ r \in Int /\ dq <= a /\ b < dr + d /\ dq \in Int /\ dr \in Int
    BY Division
<1>2. drr = dr + d
    BY <1>1
<1>3. q >= r + 1 => drr <= dq
    BY <1>1, TimesGrows
<1> HIDE DEF q, r, dq, dr, drr
<1>4. q <= r
    BY <1>1, <1>2, <1>3
<1> QED BY <1>4 DEF q, r

LEMMA DivisionOf ==
    ASSUME NEW d \in Nat \ {0}, NEW q \in Int, NEW r \in 0..(d - 1)
    PROVE  (d * q + r) \div d = q
<1> DEFINE a == d * q + r
           p == a \div d
           dq == d * q
           dp == d * p
           dqq == d * (q + 1)
           dpp == d * (p + 1)
<1>1. dq \in Int /\ a = dq + r /\ a \in Int
    OBVIOUS
<1>2. p \in Int /\ dp <= a /\ a < dp + d /\ dp \in Int
    BY <1>1, Division
<1>3. dqq = dq + d /\ dpp = dp + d
    BY <1>1, <1>2
<1>4. (p >= q + 1 => dqq <= dp) /\ (q >= p + 1 => dpp <= dq)
    BY <1>2, TimesGrows
<1> HIDE DEF p, dq, dp, dqq, dpp, a
<1>5. p = q
    BY <1>1, <1>2, <1>3, <1>4
<1> QED BY <1>5 DEF p, a

\* A share is within what is shared out, and grows with the part.
LEMMA ShareIs ==
    ASSUME NEW from \in Nat, NEW n \in Nat \ {0}, NEW i \in 0..n, NEW width \in Nat
    PROVE  Share(from, i, n, width) \in from..(from + width)
<1> DEFINE all == 2 * n
           fn == from * n
           iw == i * width
           nw == n * width
           sum == 2 * (fn + iw) + n
           low == all * from + n
           high == all * (from + width) + n
<1>1. all \in Nat \ {0} /\ n \in 0..(all - 1)
    OBVIOUS
<1>2. fn \in Nat /\ iw \in Nat /\ nw \in Nat
    OBVIOUS
<1>3. iw <= nw
    <2>1. width * i <= width * n
        BY TimesGrows
    <2> QED BY <2>1
<1>4. low = 2 * fn + n
    OBVIOUS
<1>5. high = 2 * (fn + nw) + n
    OBVIOUS
<1>6. Share(from, i, n, width) = sum \div all
    BY DEF Share
<1>7. low \div all = from
    BY <1>1, DivisionOf
<1>8. high \div all = from + width
    BY <1>1, DivisionOf
<1>9. low <= sum /\ sum <= high /\ low \in Int /\ sum \in Int /\ high \in Int
    <2> HIDE DEF fn, iw, nw, low, high
    <2> QED BY <1>2, <1>3, <1>4, <1>5
<1> HIDE DEF sum, low, high, all
<1>10. low \div all <= sum \div all /\ sum \div all <= high \div all /\ sum \div all \in Int
    BY <1>1, <1>9, DivisionGrows, Division
<1> QED BY <1>6, <1>7, <1>8, <1>10

LEMMA ShareGrows ==
    ASSUME NEW from \in Nat, NEW n \in Nat \ {0}, NEW i \in 0..n, NEW j \in 0..n, i <= j,
           NEW width \in Nat
    PROVE  Share(from, i, n, width) <= Share(from, j, n, width)
<1> DEFINE all == 2 * n
           fn == from * n
           iw == i * width
           jw == j * width
           a == 2 * (fn + iw) + n
           b == 2 * (fn + jw) + n
<1>1. all \in Nat \ {0}
    OBVIOUS
<1>2. fn \in Nat /\ iw \in Nat /\ jw \in Nat
    OBVIOUS
<1>3. iw <= jw
    <2>1. width * i <= width * j
        BY TimesGrows
    <2> QED BY <2>1
<1>4. a <= b /\ a \in Int /\ b \in Int
    <2> HIDE DEF fn, iw, jw
    <2> QED BY <1>2, <1>3
<1>5. Share(from, i, n, width) = a \div all /\ Share(from, j, n, width) = b \div all
    BY DEF Share
<1> HIDE DEF all, a, b
<1> QED BY <1>1, <1>4, <1>5, DivisionGrows

LEMMA FirstRise ==
    ASSUME NEW n \in Nat
    PROVE  Rises([i \in 1..n |-> i], 1, n)
<1> DEFINE s == [i \in 1..n |-> i]
<1>1. s \in Seq(1..n) /\ Len(s) = n /\ \A i \in 1..n : s[i] = i
    OBVIOUS
<1> QED BY <1>1 DEF Rises

\* What is reported page by page.
LEMMA PerPageRises ==
    ASSUME NEW from \in Nat, NEW n \in Nat, NEW width \in Nat, NEW pages, Rises(pages, 1, n)
    PROVE  Rises(PerPage(from, pages, n, width), from, from + width)
<1> DEFINE s == PerPage(from, pages, n, width)
           Part(i) == Share(from, i, n, width)
<1>1. pages \in Seq(1..n) /\ Len(pages) \in Nat /\ DOMAIN pages = 1..Len(pages)
    BY LenProperties DEF Rises
<1>2. \A k \in 1..Len(pages) : pages[k] \in 1..n
    BY <1>1, ElementOfSeq
<1>3. s = [k \in 1..Len(pages) |-> Part(pages[k])]
    BY <1>1 DEF PerPage
<1>4. ASSUME NEW k \in 1..Len(pages) PROVE Part(pages[k]) \in from..(from + width)
    <2>1. pages[k] \in 0..n /\ n \in Nat \ {0}
        BY <1>2
    <2> QED BY <2>1, ShareIs
<1>5. ASSUME NEW k \in 1..Len(pages), NEW l \in 1..Len(pages), k <= l
      PROVE  Part(pages[k]) <= Part(pages[l])
    <2>1. pages[k] \in 0..n /\ pages[l] \in 0..n /\ n \in Nat \ {0}
        BY <1>2
    <2>2. pages[k] <= pages[l]
        BY <1>5 DEF Rises
    <2> QED BY <2>1, <2>2, ShareGrows
<1> HIDE DEF Part
<1>6. s \in Seq(from..(from + width)) /\ Len(s) = Len(pages)
    BY <1>1, <1>3, <1>4
<1>7. \A k \in 1..Len(pages) : s[k] = Part(pages[k])
    BY <1>3
<1> HIDE DEF s
<1>8. Rises(s, from, from + width)
    BY <1>5, <1>6, <1>7 DEF Rises
<1> QED BY <1>8 DEF s

\* A page-by-page part between a beginning and an end.
LEMMA AroundRises ==
    ASSUME NEW a \in Int, NEW b \in Int, NEW c \in Int, NEW d \in Int, a <= b, b <= c, c <= d,
           NEW first, Rises(first, a, b), NEW part, Rises(part, b, c), NEW last, Rises(last, c, d)
    PROVE  Rises(first \o part \o last, a, d)
<1>1. Rises(first \o part, a, c)
    BY BothRise
<1>2. Rises((first \o part) \o last, a, d)
    BY <1>1, BothRise
<1> QED BY <1>2

\* A list of files that came in or were made.
AreFiles(files) ==
    IsSeq(files) /\ files # <<>> /\ \A i \in DOMAIN files : IsFile(files[i])

LEMMA SeqIs ==
    ASSUME NEW s, IsSeq(s)
    PROVE  /\ Len(s) \in Nat /\ DOMAIN s = 1..Len(s)
           /\ s \in Seq({s[i] : i \in 1..Len(s)})
           /\ s = [i \in 1..Len(s) |-> s[i]]
<1>1. s \in Seq({s[i] : i \in DOMAIN s})
    BY DEF IsSeq
<1>2. Len(s) \in Nat /\ DOMAIN s = 1..Len(s)
    BY <1>1, LenProperties
<1>3. s \in [1..Len(s) -> {s[i] : i \in DOMAIN s}]
    BY <1>1, LenProperties
<1> QED BY <1>1, <1>2, <1>3

LEMMA FilesAre ==
    ASSUME NEW files, AreFiles(files)
    PROVE  /\ Len(files) \in Nat \ {0} /\ DOMAIN files = 1..Len(files)
           /\ 1 \in DOMAIN files
           /\ \A i \in 1..Len(files) : IsFile(files[i]) /\ Total(files[i]) \in Nat
<1>1. IsSeq(files) /\ files # <<>>
    BY DEF AreFiles
<1>2. Len(files) \in Nat /\ DOMAIN files = 1..Len(files)
    BY <1>1, SeqIs
<1>3. Len(files) # 0
    <2>1. files \in Seq({files[i] : i \in 1..Len(files)})
        BY <1>1, SeqIs
    <2> QED BY <1>1, <2>1, EmptySeq
<1>4. ASSUME NEW i \in 1..Len(files) PROVE IsFile(files[i]) /\ Total(files[i]) \in Nat
    <2>1. IsFile(files[i])
        BY <1>2 DEF AreFiles
    <2> QED BY <2>1, SeqIs DEF IsFile, Total
<1> QED BY <1>2, <1>3, <1>4

LEMMA Marks ==
    /\ Rises(<<10>>, 0, 10) /\ Rises(<<15>>, 0, 100) /\ Rises(<<15, 30>>, 0, 30)
    /\ Rises(<<15, 25>>, 0, 25) /\ Rises(<<10, 40>>, 0, 40) /\ Rises(<<15, 35>>, 0, 35)
    /\ Rises(<<90, 100>>, 85, 100) /\ Rises(<<100>>, 90, 100) /\ Rises(<<90, 100>>, 80, 100)
    /\ Rises(<<90, 100>>, 75, 100) /\ Rises(<<80>>, 75, 80)
BY DEF Rises

LEMMA Marks2 ==
    /\ Rises(<<20, 100>>, 0, 100) /\ Rises(<<20, 50, 85, 100>>, 0, 100)
    /\ Rises(<<15, 40, 85>>, 0, 100) /\ Rises(<<20, 50, 80, 100>>, 0, 100)
    /\ Rises(<<20, 50, 100>>, 0, 100) /\ Rises(<<20, 60, 100>>, 0, 100)
    /\ Rises(<<20, 40, 80, 100>>, 0, 100) /\ Rises(<<15, 35, 55, 85, 100>>, 0, 100)
    /\ Rises(<<10, 35, 95, 100>>, 0, 100) /\ Rises(<<10, 90, 100>>, 0, 100)
    /\ Rises(<<60>>, 10, 90) /\ Rises(<<100>>, 10, 100) /\ Rises(<<90, 100>>, 10, 100)
    /\ Rises(<<90, 100>>, 90, 100)
BY DEF Rises

\* The percents a processor reports never fall and stay a percentage, whatever
\* it is given.
LEMMA ReportsRise ==
    ASSUME NEW op, NEW files, NEW opt, op \in BillingOps \/ AreFiles(files)
    PROVE  Rises(Reports(op, files, opt), 0, 100)
<1> DEFINE n == Total(files[1])
           All == AllPages(files[1])
<1>1. CASE op \in {"merge-pdf", "image-to-pdf", "jpg-to-pdf"}
    <2> DEFINE count == Len(files)
               each == [i \in DOMAIN files |-> i]
    <2>1. count \in Nat /\ each = [i \in 1..count |-> i]
        BY <1>1, FilesAre DEF BillingOps
    <2>2. Rises(each, 1, count)
        <3> HIDE DEF count
        <3> QED BY SMTT(30), <2>1, FirstRise
    <2>3. Reports(op, files, opt) = <<10>> \o PerPage(10, each, count, 75) \o <<90, 100>>
        BY ZenonT(40), <1>1 DEF Reports
    <2> HIDE DEF count, each
    <2> DEFINE part == PerPage(10, each, count, 75)
    <2>4. Rises(part, 10, 85)
        BY <2>1, <2>2, PerPageRises
    <2> HIDE DEF part
    <2>5. Rises(<<10>> \o part \o <<90, 100>>, 0, 100)
        BY <2>4, AroundRises, Marks
    <2> QED BY <2>3, <2>5 DEF part
<1>2. CASE op \in {"extract-pages", "rotate-pdf", "reorder-pdf", "delete-pages", "delete-pdf-pages"}
    BY <1>2, Marks2 DEF Reports
<1>3. CASE op \in {"crop-pdf", "compress-pdf", "protect-pdf", "unlock-pdf"}
    BY <1>3, Marks2 DEF Reports
<1>4. CASE op \in {"strip-metadata-pdf", "flatten-pdf", "gst-invoice-pdf", "estimate-maker", "tax-receipt"}
    BY <1>4, Marks2 DEF Reports
<1>5. CASE op = "pos-billing"
    <2> DEFINE code == IF opt.upi THEN <<60>> ELSE <<>>
    <2>1. Reports(op, files, opt) = <<10>> \o code \o <<90, 100>>
        BY <1>5 DEF Reports
    <2>2. Rises(code, 10, 90)
        BY Marks2, NoneRises
    <2> HIDE DEF code
    <2>3. Rises(<<10>> \o code, 0, 90)
        BY <2>2, Marks, BothRise
    <2> QED BY <2>1, <2>3, Marks2, BothRise
<1>6. CASE op \in {"split-pdf", "watermark-pdf", "page-numbers-pdf", "repair-pdf", "redact-pdf",
                   "compare-pdf"}
    <2>0. AreFiles(files)
        BY <1>6 DEF BillingOps
    <2>1. n \in Nat
        BY <2>0, FilesAre
    <2>2. All = [i \in 1..n |-> i]
        BY DEF AllPages
    <2> HIDE DEF n
    <2>3. Rises(All, 1, n)
        BY <2>1, <2>2, FirstRise
    <2> HIDE DEF All
    <2>4. CASE op = "split-pdf"
        <3> DEFINE pages == IF opt.mode = "all-pages" \/ opt.ranges = <<>>
                            THEN PerPage(10, All, n, 80) ELSE <<>>
        <3>1. Reports(op, files, opt) = <<10>> \o pages \o <<100>>
            BY <2>4 DEF Reports, All, n
        <3>2. Rises(pages, 10, 90)
            <4>1. Rises(PerPage(10, All, n, 80), 10, 90)
                BY <2>1, <2>3, PerPageRises
            <4> QED BY <4>1, NoneRises
        <3> HIDE DEF pages
        <3>3. Rises(<<10>> \o pages, 0, 90)
            BY <3>2, Marks, BothRise
        <3> QED BY <3>1, <3>3, Marks, BothRise
    <2>5. CASE op = "watermark-pdf"
        <3> DEFINE pages == Chosen(n, Stamped(opt.which, opt.listed, n))
        <3>1. Reports(op, files, opt) = <<15, 30>> \o PerPage(30, pages, n, 55) \o <<90, 100>>
            BY <2>5 DEF Reports, n
        <3>2. Rises(pages, 1, n)
            BY <2>1, ChosenRise
        <3> HIDE DEF pages
        <3> DEFINE part == PerPage(30, pages, n, 55)
        <3>3. Rises(part, 30, 85)
            BY <2>1, <3>2, PerPageRises
        <3> HIDE DEF part
        <3>4. Rises(<<15, 30>> \o part \o <<90, 100>>, 0, 100)
            BY <3>3, AroundRises, Marks
        <3> QED BY <3>1, <3>4 DEF part
    <2>6. CASE op = "page-numbers-pdf"
        <3>1. Reports(op, files, opt) = <<15, 25>> \o PerPage(25, All, n, 60) \o <<90, 100>>
            BY <2>6 DEF Reports, n, All
        <3> DEFINE part == PerPage(25, All, n, 60)
        <3>3. Rises(part, 25, 85)
            BY <2>1, <2>3, PerPageRises
        <3> HIDE DEF part
        <3>4. Rises(<<15, 25>> \o part \o <<90, 100>>, 0, 100)
            BY <3>3, AroundRises, Marks
        <3> QED BY <3>1, <3>4 DEF part
    <2>7. CASE op = "repair-pdf"
        <3>1. Reports(op, files, opt) = <<10, 40>> \o PerPage(40, All, n, 40) \o <<90, 100>>
            BY <2>7 DEF Reports, n, All
        <3> DEFINE part == PerPage(40, All, n, 40)
        <3>3. Rises(part, 40, 80)
            BY <2>1, <2>3, PerPageRises
        <3> HIDE DEF part
        <3>4. Rises(<<10, 40>> \o part \o <<90, 100>>, 0, 100)
            BY <3>3, AroundRises, Marks
        <3> QED BY <3>1, <3>4 DEF part
    <2>8. CASE op = "redact-pdf"
        <3> DEFINE pages == Chosen(n, {opt.boxes[k].page : k \in DOMAIN opt.boxes})
                   part == PerPage(30, pages, n, 45)
                   clean == IF opt.sanitize THEN <<80>> ELSE <<>>
        <3>1. Reports(op, files, opt) = <<15, 30>> \o part \o clean \o <<90, 100>>
            BY <2>8 DEF Reports, n
        <3>2. Rises(pages, 1, n)
            BY <2>1, ChosenRise
        <3> HIDE DEF pages
        <3>3. Rises(part, 30, 75)
            BY <2>1, <3>2, PerPageRises
        <3>4. Rises(clean, 75, 80)
            BY Marks, NoneRises
        <3> HIDE DEF part, clean
        <3>5. Rises(<<15, 30>> \o part, 0, 75)
            BY <3>3, Marks, BothRise
        <3>6. Rises((<<15, 30>> \o part) \o clean, 0, 80)
            BY <3>4, <3>5, BothRise
        <3> QED BY <3>1, <3>6, Marks, BothRise
    <2>9. CASE op = "compare-pdf"
        <3>1. CASE Len(files) < 2
            BY <2>9, <3>1, Marks DEF Reports
        <3>2. CASE ~(Len(files) < 2)
            <4> DEFINE most == IF n > Total(files[2]) THEN n ELSE Total(files[2])
                       each == [i \in 1..most |-> i]
            <4>1. most \in Nat
                <5>1. Total(files[2]) \in Nat
                    BY <2>0, <3>2, FilesAre
                <5> QED BY <2>1, <5>1
            <4>2. Reports(op, files, opt) = <<15, 35>> \o PerPage(35, each, most, 50) \o <<90, 100>>
                BY <2>9, <3>2 DEF Reports, n
            <4> HIDE DEF most
            <4>3. Rises(each, 1, most)
                BY <4>1, FirstRise
            <4> HIDE DEF each
            <4> DEFINE part == PerPage(35, each, most, 50)
            <4>4. Rises(part, 35, 85)
                BY <4>1, <4>3, PerPageRises
            <4> HIDE DEF part
            <4>5. Rises(<<15, 35>> \o part \o <<90, 100>>, 0, 100)
                BY <4>4, AroundRises, Marks
            <4> QED BY <4>2, <4>5 DEF part
        <3> QED BY <3>1, <3>2
    <2> QED BY <1>6, <2>4, <2>5, <2>6, <2>7, <2>8, <2>9
<1>7. CASE op \notin {"merge-pdf", "image-to-pdf", "jpg-to-pdf", "extract-pages", "rotate-pdf",
                      "reorder-pdf", "delete-pages", "delete-pdf-pages", "crop-pdf", "compress-pdf",
                      "protect-pdf", "unlock-pdf", "strip-metadata-pdf", "flatten-pdf",
                      "gst-invoice-pdf", "estimate-maker", "tax-receipt", "pos-billing", "split-pdf",
                      "watermark-pdf", "page-numbers-pdf", "repair-pdf", "redact-pdf", "compare-pdf"}
    <2>1. Reports(op, files, opt) = <<>>
        BY <1>7 DEF Reports
    <2> QED BY <2>1, NoneRises
<1> QED BY <1>1, <1>2, <1>3, <1>4, <1>5, <1>6, <1>7

-----------------------------------------------------------------------------
(* Pages and files *)

LEMMA PageFields ==
    ASSUME NEW page, IsPage(page)
    PROVE  DOMAIN page = {"of", "turn", "marks", "cut", "sheet", "notes", "sound"}
BY DEF IsPage, Page

LEMMA FileFields ==
    ASSUME NEW file, IsFile(file)
    PROVE  DOMAIN file = {"kind", "pages", "password", "traces", "form"}
BY DEF IsFile, NewFile

LEMMA SeqOver ==
    ASSUME NEW n \in Nat, NEW s, s = [i \in 1..n |-> s[i]]
    PROVE  IsSeq(s) /\ Len(s) = n /\ DOMAIN s = 1..n
<1>1. DOMAIN s = 1..n /\ s \in [1..n -> {s[i] : i \in DOMAIN s}]
    OBVIOUS
<1>2. s \in Seq({s[i] : i \in DOMAIN s})
    BY <1>1
<1> QED BY <1>1, <1>2, LenProperties DEF IsSeq

LEMMA AppendIs ==
    ASSUME NEW c \in Nat, NEW s, s = [i \in 1..c |-> s[i]], NEW x
    PROVE  Append(s, x) = [k \in 1..(c + 1) |-> IF k = c + 1 THEN x ELSE s[k]]
<1> DEFINE T == {s[i] : i \in 1..c} \cup {x}
           more == Append(s, x)
<1>1. \A i \in 1..c : s[i] \in T
    OBVIOUS
<1>2. x \in T
    OBVIOUS
<1> HIDE DEF T
<1>3. s \in Seq(T) /\ Len(s) = c
    <2>1. s \in [1..c -> T]
        BY <1>1
    <2> QED BY <2>1, SeqOver
<1>4. more \in Seq(T) /\ Len(more) = c + 1 /\ more[c + 1] = x /\ \A k \in 1..c : more[k] = s[k]
    BY <1>2, <1>3, AppendProperties
<1> HIDE DEF more
<1>5. more \in [1..(c + 1) -> T]
    BY <1>4, LenProperties
<1>6. \A k \in 1..(c + 1) : more[k] = IF k = c + 1 THEN x ELSE s[k]
    BY <1>4
<1> QED BY <1>5, <1>6 DEF more

LEMMA AppendPutsBehind ==
    ASSUME NEW c \in Nat, NEW s, s = [i \in 1..c |-> s[i]], NEW x
    PROVE  s \o <<x>> = Append(s, x)
<1> DEFINE T == {s[i] : i \in 1..c} \cup {x}
<1>1. x \in T /\ \A i \in 1..c : s[i] \in T
    OBVIOUS
<1> HIDE DEF T
<1>2. s \in [1..c -> T]
    BY <1>1
<1>3. s \in Seq(T)
    BY <1>2
<1> QED BY <1>1, <1>3, AppendIsConcat

LEMMA FaceParts ==
    ASSUME NEW of, NEW turn, NEW marks, NEW x
    PROVE  LET face == [of |-> of, turn |-> turn, marks |-> marks]
           IN /\ [face EXCEPT !.turn = x] = [of |-> of, turn |-> x, marks |-> marks]
              /\ [face EXCEPT !.marks = x] = [of |-> of, turn |-> turn, marks |-> x]
              /\ face.of = of /\ face.turn = turn /\ face.marks = marks
OBVIOUS

LEMMA TurnedPage ==
    ASSUME NEW page, IsPage(page), NEW turn
    PROVE  LET new == [page EXCEPT !.turn = turn]
           IN IsPage(new) /\ Face(new) = [Face(page) EXCEPT !.turn = turn]
<1> DEFINE new == [page EXCEPT !.turn = turn]
<1>1. DOMAIN new = DOMAIN page /\ new.marks = page.marks /\ new.of = page.of /\ new.turn = turn
    BY PageFields
<1> HIDE DEF new
<1>2. IsPage(new)
    BY <1>1 DEF IsPage
<1>3. Face(new) = [Face(page) EXCEPT !.turn = turn]
    <2> DEFINE marks == [k \in DOMAIN page.marks |-> page.marks[k].kind]
    <2>1. /\ Face(page) = [of |-> page.of, turn |-> page.turn, marks |-> marks]
          /\ Face(new) = [of |-> page.of, turn |-> turn, marks |-> marks]
        BY <1>1 DEF Face
    <2> HIDE DEF marks
    <2> QED BY <2>1, FaceParts
<1> QED BY <1>2, <1>3 DEF new

LEMMA NotedPage ==
    ASSUME NEW page, IsPage(page), NEW notes
    PROVE  LET new == [page EXCEPT !.notes = notes]
           IN IsPage(new) /\ Face(new) = Face(page)
<1> DEFINE new == [page EXCEPT !.notes = notes]
<1>1. /\ DOMAIN new = DOMAIN page /\ new.marks = page.marks /\ new.of = page.of
      /\ new.turn = page.turn
    BY PageFields
<1> HIDE DEF new
<1>2. IsPage(new)
    BY <1>1 DEF IsPage
<1>3. Face(new) = Face(page)
    BY <1>1 DEF Face
<1> QED BY <1>2, <1>3 DEF new

\* On whichever sheet it is laid, a picture is the same picture.
LEMMA LaidPage ==
    ASSUME NEW page, IsPage(page), NEW sheet
    PROVE  LET new == [page EXCEPT !.sheet = sheet]
           IN IsPage(new) /\ Face(new) = Face(page)
<1> DEFINE new == [page EXCEPT !.sheet = sheet]
<1>1. /\ DOMAIN new = DOMAIN page /\ new.marks = page.marks /\ new.of = page.of
      /\ new.turn = page.turn
    BY PageFields
<1> HIDE DEF new
<1>2. IsPage(new)
    BY <1>1 DEF IsPage
<1>3. Face(new) = Face(page)
    BY <1>1 DEF Face
<1> QED BY <1>2, <1>3 DEF new

\* A mark is put behind the others.
LEMMA MarkedPage ==
    ASSUME NEW page, IsPage(page), NEW kind, NEW drawn
    PROVE  /\ IsPage(Marked(page, kind, drawn))
           /\ Face(Marked(page, kind, drawn)) = [Face(page) EXCEPT !.marks = Append(@, kind)]
<1> DEFINE new == Marked(page, kind, drawn)
           mark == [kind |-> kind, drawn |-> drawn]
           marks == page.marks
           c == Len(marks)
           more == Append(marks, mark)
<1>1. IsSeq(marks)
    BY DEF IsPage
<1>2. c \in Nat /\ DOMAIN marks = 1..c /\ marks = [k \in 1..c |-> marks[k]]
    BY <1>1, SeqIs
<1>5. more = [k \in 1..(c + 1) |-> IF k = c + 1 THEN mark ELSE marks[k]]
    <2> HIDE DEF c, marks, mark
    <2> QED BY <1>2, AppendIs
<1>6. DOMAIN new = DOMAIN page /\ new.marks = more /\ new.of = page.of /\ new.turn = page.turn
    BY PageFields DEF Marked
<1>7. DOMAIN more = 1..(c + 1)
    BY <1>5
<1>8. IsSeq(more)
    <2>1. more = [k \in 1..(c + 1) |-> more[k]]
        BY <1>5
    <2> HIDE DEF c, more
    <2> QED BY <1>2, <2>1, SeqOver
<1> HIDE DEF new, more
<1>9. IsPage(new)
    BY <1>6, <1>8 DEF IsPage
<1> DEFINE before == [k \in DOMAIN marks |-> marks[k].kind]
           after == [k \in DOMAIN more |-> more[k].kind]
<1>10. after = Append(before, kind)
    <2>1. before = [k \in 1..c |-> marks[k].kind]
        BY <1>2
    <2>2. Append(before, kind) = [k \in 1..(c + 1) |-> IF k = c + 1 THEN kind ELSE before[k]]
        <3>1. before = [k \in 1..c |-> before[k]]
            BY <2>1
        <3> HIDE DEF before, c
        <3> QED BY <1>2, <3>1, AppendIs
    <2>3. ASSUME NEW k \in 1..(c + 1)
          PROVE  more[k].kind = IF k = c + 1 THEN kind ELSE before[k]
        <3>1. CASE k = c + 1
            <4>1. more[k] = mark
                BY <1>5, <3>1
            <4> QED BY <3>1, <4>1
        <3>2. CASE k \in 1..c
            <4>1. more[k] = marks[k] /\ k # c + 1 /\ before[k] = marks[k].kind
                BY <1>2, <1>5, <3>2
            <4> QED BY <4>1
        <3> QED BY <1>2, <3>1, <3>2
    <2> HIDE DEF before
    <2> QED BY <1>7, <2>2, <2>3
<1>11. Face(new) = [Face(page) EXCEPT !.marks = Append(@, kind)]
    <2>1. Face(new) = [of |-> page.of, turn |-> page.turn, marks |-> after]
        BY <1>6 DEF Face
    <2>2. Face(page) = [of |-> page.of, turn |-> page.turn, marks |-> before]
        BY DEF Face
    <2> HIDE DEF before, after
    <2>3. /\ Face(page).marks = before
          /\ [Face(page) EXCEPT !.marks = after] = [of |-> page.of, turn |-> page.turn, marks |-> after]
        BY <2>2, FaceParts
    <2> QED BY <1>10, <2>1, <2>3
<1> QED BY <1>9, <1>11 DEF new

LEMMA NewFileIs ==
    ASSUME NEW n \in Nat, NEW pages, pages = [i \in 1..n |-> pages[i]],
           \A i \in 1..n : IsPage(pages[i])
    PROVE  /\ IsFile(NewFile(pages)) /\ NewFile(pages).kind = "pdf"
           /\ NewFile(pages).pages = pages /\ NewFile(pages).password = NoPassword
<1> DEFINE file == NewFile(pages)
<1>1. IsSeq(pages) /\ DOMAIN pages = 1..n
    BY SeqOver
<1>2. /\ DOMAIN file = DOMAIN NewFile(<<>>) /\ file.kind = "pdf" /\ file.pages = pages
      /\ file.password = NoPassword
    BY DEF NewFile
<1> HIDE DEF file
<1> QED BY <1>1, <1>2 DEF file, IsFile

LEMMA RedrawnIs ==
    ASSUME NEW file, IsFile(file), file.kind = "pdf", NEW pages,
           pages = [i \in 1..Total(file) |-> pages[i]], \A i \in 1..Total(file) : IsPage(pages[i])
    PROVE  LET new == [file EXCEPT !.pages = pages]
           IN /\ IsFile(new) /\ new.kind = "pdf" /\ new.pages = pages
              /\ new.password = file.password
<1> DEFINE new == [file EXCEPT !.pages = pages]
<1>1. IsSeq(pages) /\ DOMAIN pages = 1..Total(file)
    <2>1. Total(file) \in Nat
        BY SeqIs DEF IsFile, Total
    <2> QED BY <2>1, SeqOver
<1>2. /\ DOMAIN new = DOMAIN file /\ new.kind = "pdf" /\ new.pages = pages
      /\ new.password = file.password
    BY FileFields
<1> HIDE DEF new
<1> QED BY <1>1, <1>2 DEF new, IsFile

\* What the file says of itself does not touch its pages.
LEMMA ResaidIs ==
    ASSUME NEW file, IsFile(file), file.kind = "pdf", NEW x, NEW new,
           new = [file EXCEPT !.traces = x] \/ new = [file EXCEPT !.form = x]
    PROVE  IsFile(new) /\ new.kind = "pdf" /\ new.pages = file.pages /\ new.password = file.password
<1>1. /\ DOMAIN new = DOMAIN file /\ new.kind = file.kind /\ new.pages = file.pages
      /\ new.password = file.password
    BY FileFields
<1> QED BY <1>1 DEF IsFile

LEMMA RelockedIs ==
    ASSUME NEW file, IsFile(file), file.kind = "pdf", NEW x, NEW new,
           new = [file EXCEPT !.password = x]
    PROVE  IsFile(new) /\ new.kind = "pdf" /\ new.pages = file.pages /\ new.password = x
<1>1. /\ DOMAIN new = DOMAIN file /\ new.kind = file.kind /\ new.pages = file.pages
      /\ new.password = x
    BY FileFields
<1> QED BY <1>1 DEF IsFile

\* What a step that keeps a file makes of its pages.
PageByPage(step, old, new) ==
    /\ IsFile(new) /\ new.kind = "pdf" /\ Len(new.pages) = Len(old.pages)
    /\ \A i \in 1..Len(old.pages) : Face(new.pages[i]) = Worked(step, i, Face(old.pages[i]))

LEMMA TargetsAre ==
    ASSUME NEW which, NEW listed, NEW n \in Nat, NEW i \in 1..n
    PROVE  i \in Targets(which, listed, n) <=> i \in Targets(which, listed, i)
BY DEF Targets

LEMMA StampedAre ==
    ASSUME NEW which, NEW listed, NEW n \in Nat, NEW i \in 1..n
    PROVE  i \in Stamped(which, listed, n) <=> i \in Stamped(which, listed, i)
BY DEF Stamped

LEMMA PagesOf ==
    ASSUME NEW file, IsFile(file)
    PROVE  /\ Total(file) \in Nat /\ Total(file) = Len(file.pages)
           /\ DOMAIN file.pages = 1..Total(file)
           /\ file.pages = [i \in 1..Total(file) |-> file.pages[i]]
           /\ \A i \in 1..Total(file) : IsPage(file.pages[i])
<1>1. IsSeq(file.pages) /\ \A i \in DOMAIN file.pages : IsPage(file.pages[i])
    BY DEF IsFile
<1> QED BY <1>1, SeqIs DEF Total

\* The pages of a file, each as a step leaves it.
Redone(step, file, pages) ==
    /\ pages = [i \in 1..Total(file) |-> pages[i]]
    /\ \A i \in 1..Total(file) :
           IsPage(pages[i]) /\ Face(pages[i]) = Worked(step, i, Face(file.pages[i]))

LEMMA DrawnAnew ==
    ASSUME NEW step, NEW file, IsFile(file), file.kind = "pdf",
           NEW pages, Redone(step, file, pages),
           NEW new, new = [file EXCEPT !.pages = pages]
    PROVE  PageByPage(step, file, new) /\ new.password = file.password
<1> DEFINE n == Total(file)
<1>1. n \in Nat /\ n = Len(file.pages)
    BY PagesOf
<1>2. pages = [i \in 1..n |-> pages[i]] /\ \A i \in 1..n :
          IsPage(pages[i]) /\ Face(pages[i]) = Worked(step, i, Face(file.pages[i]))
    BY DEF Redone
<1>3. IsFile(new) /\ new.kind = "pdf" /\ new.pages = pages /\ new.password = file.password
    BY <1>2, RedrawnIs
<1>4. Len(new.pages) = n
    BY <1>1, <1>2, <1>3, SeqOver
<1>5. PageByPage(step, file, new)
    BY <1>1, <1>2, <1>3, <1>4 DEF PageByPage
<1> QED BY <1>3, <1>5

LEMMA Rotates ==
    ASSUME NEW step, step.op = "rotate-pdf", NEW files, IsFile(files[1]),
           RotatePdf(files, step.opt).done
    PROVE  \E new : /\ RotatePdf(files, step.opt) = Gives(<<new>>)
                    /\ PageByPage(step, files[1], new)
                    /\ files[1].password = NoPassword /\ new.password = NoPassword
<1> DEFINE file == files[1]
           opt == step.opt
           n == Total(file)
           targets == Targets(opt.which, opt.listed, n)
           pages == [i \in 1..n |-> IF i \in targets
                        THEN [file.pages[i] EXCEPT !.turn = (file.pages[i].turn + opt.rotation) % 360]
                        ELSE file.pages[i]]
           new == [file EXCEPT !.pages = pages]
<1>1. RotatePdf(files, opt) = Gives(<<new>>) /\ Opens(file)
    BY DEF RotatePdf, Redrawn, Throws
<1>2. file.kind = "pdf" /\ file.password = NoPassword
    BY <1>1 DEF Opens, Safe
<1>3. n \in Nat /\ \A i \in 1..n : IsPage(file.pages[i])
    BY PagesOf
<1>4. ASSUME NEW i \in 1..n
      PROVE  IsPage(pages[i]) /\ Face(pages[i]) = Worked(step, i, Face(file.pages[i]))
    <2> DEFINE page == file.pages[i]
               turn == (page.turn + opt.rotation) % 360
    <2>1. IsPage(page)
        BY <1>3
    <2>2. CASE i \in targets
        <3>1. pages[i] = [page EXCEPT !.turn = turn]
            BY <2>2
        <3>2. Face(page).turn = page.turn
            BY DEF Face
        <3>3. Worked(step, i, Face(page)) = [Face(page) EXCEPT !.turn = turn]
            BY <1>3, <2>2, <3>2, TargetsAre DEF Worked
        <3> HIDE DEF page, pages, turn
        <3>4. IsPage(pages[i]) /\ Face(pages[i]) = Worked(step, i, Face(page))
            BY <2>1, <3>1, <3>3, TurnedPage
        <3> QED BY <3>4 DEF page
    <2>3. CASE i \notin targets
        <3>1. pages[i] = page
            BY <2>3
        <3>2. Worked(step, i, Face(page)) = Face(page)
            BY <1>3, <2>3, TargetsAre DEF Worked
        <3> QED BY <2>1, <3>1, <3>2
    <2> QED BY <2>2, <2>3
<1>5. pages = [i \in 1..n |-> pages[i]]
    OBVIOUS
<1>6. PageByPage(step, file, new) /\ new.password = file.password
    <2>1. IsFile(file) /\ new = [file EXCEPT !.pages = pages]
        OBVIOUS
    <2> HIDE DEF pages, file, new
    <2>2. Redone(step, file, pages)
        BY <1>4, <1>5 DEF Redone
    <2> QED BY <1>2, <2>1, <2>2, DrawnAnew
<1> HIDE DEF new
<1> QED BY <1>1, <1>2, <1>6

LEMMA Watermarks ==
    ASSUME NEW step, step.op = "watermark-pdf", NEW files, IsFile(files[1]),
           WatermarkPdf(files, step.opt).done
    PROVE  \E new : /\ WatermarkPdf(files, step.opt) = Gives(<<new>>)
                    /\ PageByPage(step, files[1], new)
                    /\ files[1].password = NoPassword /\ new.password = NoPassword
<1> DEFINE file == files[1]
           opt == step.opt
           n == Total(file)
           targets == Stamped(opt.which, opt.listed, n)
           drawn == <<opt.text, opt.opacity>>
           pages == [i \in 1..n |-> IF i \in targets THEN Marked(file.pages[i], "watermark", drawn)
                                    ELSE file.pages[i]]
           new == [file EXCEPT !.pages = pages]
<1>1. WatermarkPdf(files, opt) = Gives(<<new>>) /\ Opens(file)
    BY DEF WatermarkPdf, Redrawn, Throws
<1>2. file.kind = "pdf" /\ file.password = NoPassword
    BY <1>1 DEF Opens, Safe
<1>3. n \in Nat /\ \A i \in 1..n : IsPage(file.pages[i])
    BY PagesOf
<1>4. ASSUME NEW i \in 1..n
      PROVE  IsPage(pages[i]) /\ Face(pages[i]) = Worked(step, i, Face(file.pages[i]))
    <2> DEFINE page == file.pages[i]
    <2>1. IsPage(page)
        BY <1>3
    <2>2. CASE i \in targets
        <3>1. pages[i] = Marked(page, "watermark", drawn)
            BY <2>2
        <3>2. Worked(step, i, Face(page)) = [Face(page) EXCEPT !.marks = Append(@, "watermark")]
            BY <1>3, <2>2, StampedAre DEF Worked
        <3> HIDE DEF page, pages, drawn
        <3>3. IsPage(pages[i]) /\ Face(pages[i]) = Worked(step, i, Face(page))
            BY <2>1, <3>1, <3>2, MarkedPage
        <3> QED BY <3>3 DEF page
    <2>3. CASE i \notin targets
        <3>1. pages[i] = page
            BY <2>3
        <3>2. Worked(step, i, Face(page)) = Face(page)
            BY <1>3, <2>3, StampedAre DEF Worked
        <3> QED BY <2>1, <3>1, <3>2
    <2> QED BY <2>2, <2>3
<1>5. pages = [i \in 1..n |-> pages[i]]
    OBVIOUS
<1>6. PageByPage(step, file, new) /\ new.password = file.password
    <2>1. IsFile(file) /\ new = [file EXCEPT !.pages = pages]
        OBVIOUS
    <2> HIDE DEF pages, file, new
    <2>2. Redone(step, file, pages)
        BY <1>4, <1>5 DEF Redone
    <2> QED BY <1>2, <2>1, <2>2, DrawnAnew
<1> HIDE DEF new
<1> QED BY <1>1, <1>2, <1>6

LEMMA Numbers ==
    ASSUME NEW step, step.op = "page-numbers-pdf", NEW files, IsFile(files[1]),
           PageNumbersPdf(files, step.opt).done
    PROVE  \E new : /\ PageNumbersPdf(files, step.opt) = Gives(<<new>>)
                    /\ PageByPage(step, files[1], new)
                    /\ files[1].password = NoPassword /\ new.password = NoPassword
<1> DEFINE file == files[1]
           opt == step.opt
           n == Total(file)
           last == IF opt.format = "bare" THEN 0 ELSE n + opt.startAt - 1
           Number(i) == <<opt.position, opt.format, opt.startAt + i - 1, last>>
           pages == [i \in 1..n |-> IF i \in 1..n
                                    THEN Marked(file.pages[i], "number", Number(i))
                                    ELSE file.pages[i]]
           new == [file EXCEPT !.pages = pages]
<1>1. PageNumbersPdf(files, opt) = Gives(<<new>>) /\ Opens(file)
    BY DEF PageNumbersPdf, Redrawn, Throws
<1>2. file.kind = "pdf" /\ file.password = NoPassword
    BY <1>1 DEF Opens, Safe
<1>3. n \in Nat /\ \A i \in 1..n : IsPage(file.pages[i])
    BY PagesOf
<1>4. ASSUME NEW i \in 1..n
      PROVE  IsPage(pages[i]) /\ Face(pages[i]) = Worked(step, i, Face(file.pages[i]))
    <2> DEFINE page == file.pages[i]
               number == Number(i)
    <2>1. IsPage(page)
        BY <1>3
    <2>2. pages[i] = Marked(page, "number", number)
        OBVIOUS
    <2>3. Worked(step, i, Face(page)) = [Face(page) EXCEPT !.marks = Append(@, "number")]
        BY DEF Worked
    <2> HIDE DEF page, pages, number
    <2>4. IsPage(pages[i]) /\ Face(pages[i]) = Worked(step, i, Face(page))
        BY <2>1, <2>2, <2>3, MarkedPage
    <2> QED BY <2>4 DEF page
<1>5. pages = [i \in 1..n |-> pages[i]]
    OBVIOUS
<1>6. PageByPage(step, file, new) /\ new.password = file.password
    <2>1. IsFile(file) /\ new = [file EXCEPT !.pages = pages]
        OBVIOUS
    <2> HIDE DEF pages, file, new
    <2>2. Redone(step, file, pages)
        BY <1>4, <1>5 DEF Redone
    <2> QED BY <1>2, <2>1, <2>2, DrawnAnew
<1> HIDE DEF new
<1> QED BY <1>1, <1>2, <1>6

LEMMA Redacts ==
    ASSUME NEW step, step.op = "redact-pdf", NEW files, IsFile(files[1]),
           RedactPdf(files, step.opt).done
    PROVE  \E new : /\ RedactPdf(files, step.opt) = Gives(<<new>>)
                    /\ PageByPage(step, files[1], new)
                    /\ new.password = files[1].password
<1> DEFINE file == files[1]
           opt == step.opt
           n == Total(file)
           OnPage(i) == {k \in DOMAIN opt.boxes : opt.boxes[k].page = i}
           Rest(i, notes) == {note \in notes : \A k \in OnPage(i) : opt.boxes[k].spot # note.spot}
           Covered(i, page) ==
               [Marked(page, "redaction", <<Cardinality(OnPage(i))>>) EXCEPT !.notes = Rest(i, @)]
           pages == [i \in 1..n |-> IF i \in {j \in 1..n : OnPage(j) # {}}
                                    THEN Covered(i, file.pages[i]) ELSE file.pages[i]]
           redacted == [file EXCEPT !.pages = pages]
           new == IF opt.sanitize THEN [redacted EXCEPT !.traces = @ \ {"author", "xmp"}]
                  ELSE redacted
<1>1. RedactPdf(files, opt) = Gives(<<new>>) /\ Safe(file)
    BY ZenonT(40) DEF RedactPdf, Redrawn, Throws
<1>2. file.kind = "pdf"
    BY <1>1 DEF Safe
<1>3. n \in Nat /\ \A i \in 1..n : IsPage(file.pages[i])
    BY PagesOf
<1>4. ASSUME NEW i \in 1..n
      PROVE  IsPage(pages[i]) /\ Face(pages[i]) = Worked(step, i, Face(file.pages[i]))
    <2> DEFINE page == file.pages[i]
               count == <<Cardinality(OnPage(i))>>
               drawn == Marked(page, "redaction", count)
               notes == Rest(i, drawn.notes)
    <2>1. IsPage(page)
        BY <1>3
    <2>2. CASE \E b \in DOMAIN opt.boxes : opt.boxes[b].page = i
        <3>1. pages[i] = [drawn EXCEPT !.notes = notes]
            BY <2>2
        <3>2. Worked(step, i, Face(page)) = [Face(page) EXCEPT !.marks = Append(@, "redaction")]
            BY <2>2 DEF Worked
        <3>3. IsPage(drawn) /\ Face(drawn) = Worked(step, i, Face(page))
            <4> HIDE DEF page, count
            <4> QED BY <2>1, <3>2, MarkedPage
        <3> HIDE DEF page, pages, notes, drawn
        <3>4. IsPage(pages[i]) /\ Face(pages[i]) = Worked(step, i, Face(page))
            BY SMTT(30), <3>1, <3>3, NotedPage
        <3> QED BY <3>4 DEF page
    <2>3. CASE ~ \E b \in DOMAIN opt.boxes : opt.boxes[b].page = i
        <3>1. pages[i] = page
            BY <2>3
        <3>2. Worked(step, i, Face(page)) = Face(page)
            BY <2>3 DEF Worked
        <3> QED BY <2>1, <3>1, <3>2
    <2> QED BY <2>2, <2>3
<1>5. pages = [i \in 1..n |-> pages[i]]
    OBVIOUS
<1>6. PageByPage(step, file, redacted) /\ redacted.password = file.password
    <2>1. IsFile(file) /\ redacted = [file EXCEPT !.pages = pages]
        OBVIOUS
    <2> HIDE DEF pages, file, redacted
    <2>2. Redone(step, file, pages)
        BY <1>4, <1>5 DEF Redone
    <2> QED BY <1>2, <2>1, <2>2, DrawnAnew
<1> HIDE DEF redacted
<1>7. PageByPage(step, file, new) /\ new.password = file.password
    <2> DEFINE rest == redacted.traces \ {"author", "xmp"}
               clean == [redacted EXCEPT !.traces = rest]
    <2>1. IsFile(redacted) /\ redacted.kind = "pdf"
        BY <1>6 DEF PageByPage
    <2>2. /\ IsFile(clean) /\ clean.kind = "pdf" /\ clean.pages = redacted.pages
          /\ clean.password = redacted.password
        <3>1. clean = [redacted EXCEPT !.traces = rest]
            OBVIOUS
        <3> HIDE DEF rest, clean
        <3> QED BY <2>1, <3>1, ResaidIs
    <2>3. new = IF opt.sanitize THEN clean ELSE redacted
        OBVIOUS
    <2> HIDE DEF clean, new
    <2> QED BY <1>6, <2>2, <2>3 DEF PageByPage
<1> HIDE DEF new
<1> QED BY SMTT(30), <1>1, <1>7

-----------------------------------------------------------------------------
(* Sequences that are put together *)

\* What FlattenSeq's recursive function is, up to a place.
Sums(g, s, n) == g = [i \in 1..n |-> IF i = 1 THEN s[i] ELSE g[i - 1] \o s[i]]

LEMMA SumsExist ==
    ASSUME NEW s, NEW n \in Nat \ {0}
    PROVE  \E g : Sums(g, s, n)
<1> DEFINE Bad == {m \in 1..n : ~ \E g : Sums(g, s, m)}
<1>1. SUFFICES ASSUME Bad # {} PROVE FALSE
    <2>1. n \in 1..n
        OBVIOUS
    <2> QED BY <1>1, <2>1
<1>2. Bad \in SUBSET Nat
    OBVIOUS
<1>3. PICK m \in Bad : \A k \in Bad : m <= k
    <2> HIDE DEF Bad
    <2> QED BY <1>1, <1>2, LeastNumber
<1>4. m \in 1..n /\ ~ \E g : Sums(g, s, m)
    OBVIOUS
<1>5. m # 1
    <2>1. Sums([i \in 1..1 |-> s[i]], s, 1)
        BY DEF Sums
    <2> QED BY <1>4, <2>1
<1>6. m - 1 \in 1..n /\ m - 1 \notin Bad
    <2>1. m \in Nat /\ m - 1 \in 1..n /\ ~(m <= m - 1)
        BY <1>4, <1>5
    <2> HIDE DEF Bad
    <2> QED BY <1>3, <2>1
<1>7. PICK g : Sums(g, s, m - 1)
    BY <1>6
<1> DEFINE h == [i \in 1..m |-> IF i = 1 THEN s[i] ELSE g[i - 1] \o s[i]]
<1>8. ASSUME NEW i \in 1..(m - 1) PROVE h[i] = g[i]
    <2>1. g[i] = IF i = 1 THEN s[i] ELSE g[i - 1] \o s[i]
        BY <1>7 DEF Sums
    <2>2. i \in 1..m
        BY <1>4
    <2> QED BY <2>1, <2>2
<1>9. Sums(h, s, m)
    <2>1. ASSUME NEW i \in 1..m, i # 1 PROVE h[i - 1] = g[i - 1]
        <3>1. i - 1 \in 1..(m - 1)
            BY <1>4, <2>1
        <3> HIDE DEF h
        <3> QED BY <1>8, <3>1
    <2> QED BY <2>1 DEF Sums
<1> QED BY <1>4, <1>9

LEMMA SumsAre ==
    ASSUME NEW s, Len(s) \in Nat \ {0}
    PROVE  \E g : /\ \A i \in 1..Len(s) : g[i] = IF i = 1 THEN s[i] ELSE g[i - 1] \o s[i]
                  /\ FlattenSeq(s) = g[Len(s)]
<1> DEFINE f == CHOOSE g : g = [i \in 1..Len(s) |-> IF i = 1 THEN s[i] ELSE g[i - 1] \o s[i]]
<1>1. FlattenSeq(s) = f[Len(s)]
    BY DEF FlattenSeq
<1>2. f = [i \in 1..Len(s) |-> IF i = 1 THEN s[i] ELSE f[i - 1] \o s[i]]
    <2>1. \E g : g = [i \in 1..Len(s) |-> IF i = 1 THEN s[i] ELSE g[i - 1] \o s[i]]
        BY SumsExist DEF Sums
    <2> QED BY <2>1, Zenon
<1> HIDE DEF f
<1>3. \A i \in 1..Len(s) : f[i] = IF i = 1 THEN s[i] ELSE f[i - 1] \o s[i]
    BY <1>2
<1> QED BY <1>1, <1>3

\* What is put together is still of the same kind.
LEMMA FlattenIsSeq ==
    ASSUME NEW A, NEW s \in Seq(Seq(A)), Len(s) # 0
    PROVE  FlattenSeq(s) \in Seq(A)
<1> DEFINE n == Len(s)
<1>0. n \in Nat \ {0} /\ \A i \in 1..n : s[i] \in Seq(A)
    BY LenProperties, ElementOfSeq
<1>1. PICK g : /\ \A i \in 1..n : g[i] = IF i = 1 THEN s[i] ELSE g[i - 1] \o s[i]
               /\ FlattenSeq(s) = g[n]
    BY <1>0, SumsAre
<1> HIDE DEF n
<1> DEFINE Bad == {m \in 1..n : g[m] \notin Seq(A)}
<1>2. SUFFICES ASSUME Bad # {} PROVE FALSE
    <2>1. n \in 1..n
        BY <1>0
    <2> QED BY <1>1, <1>2, <2>1
<1>3. PICK m \in Bad : \A k \in Bad : m <= k
    <2>1. Bad \in SUBSET Nat
        BY <1>0
    <2> HIDE DEF Bad
    <2> QED BY <1>2, <2>1, LeastNumber
<1>4. m \in 1..n /\ m # 1
    BY <1>0, <1>1, <1>3
<1>5. m - 1 \in 1..n /\ ~(m <= m - 1)
    BY <1>0, <1>4
<1>6. g[m - 1] \in Seq(A)
    BY <1>3, <1>5
<1>7. g[m] \in Seq(A)
    <2> DEFINE before == g[m - 1]
               last == s[m]
    <2>1. g[m] = before \o last
        BY <1>1, <1>4
    <2>2. before \in Seq(A) /\ last \in Seq(A)
        BY <1>0, <1>4, <1>6
    <2> HIDE DEF before, last
    <2>3. before \o last \in Seq(A)
        BY <2>2, ConcatProperties
    <2> QED BY <2>1, <2>3
<1> QED BY <1>3, <1>7

LEMMA FlattenOne ==
    ASSUME NEW t, NEW s, s = <<t>>
    PROVE  FlattenSeq(s) = t
<1>1. Len(s) = 1 /\ s[1] = t
    OBVIOUS
<1>2. PICK g : /\ \A i \in 1..Len(s) : g[i] = IF i = 1 THEN s[i] ELSE g[i - 1] \o s[i]
               /\ FlattenSeq(s) = g[Len(s)]
    BY <1>1, SumsAre
<1> QED BY <1>1, <1>2

LEMMA FlattenSingles ==
    ASSUME NEW n \in Nat \ {0}, NEW x, x = [i \in 1..n |-> x[i]],
           NEW s, s = [i \in 1..n |-> <<x[i]>>]
    PROVE  FlattenSeq(s) = x
<1>0. Len(s) = n
    <2>1. s = [i \in 1..n |-> s[i]]
        OBVIOUS
    <2> QED BY <2>1, SeqOver
<1>1. PICK g : /\ \A i \in 1..n : g[i] = IF i = 1 THEN s[i] ELSE g[i - 1] \o s[i]
               /\ FlattenSeq(s) = g[n]
    BY <1>0, SumsAre
<1> DEFINE First(m) == [i \in 1..m |-> x[i]]
           Bad == {m \in 1..n : g[m] # First(m)}
<1>2. SUFFICES ASSUME Bad # {} PROVE FALSE
    <2>1. n \in 1..n /\ First(n) = x
        OBVIOUS
    <2> HIDE DEF First
    <2> QED BY <1>1, <1>2, <2>1
<1>3. PICK m \in Bad : \A k \in Bad : m <= k
    <2>1. Bad \in SUBSET Nat
        OBVIOUS
    <2> HIDE DEF Bad
    <2> QED BY <1>2, <2>1, LeastNumber
<1>4. m # 1
    <2>1. g[1] = <<x[1]>>
        <3>1. 1 \in 1..n /\ s[1] = <<x[1]>>
            OBVIOUS
        <3> QED BY <1>1, <3>1
    <2>2. First(1) = <<x[1]>>
        OBVIOUS
    <2> QED BY <1>3, <2>1, <2>2
<1>5. m \in 1..n /\ m - 1 \in 1..n /\ ~(m <= m - 1)
    BY <1>3, <1>4
<1>6. g[m - 1] = First(m - 1)
    BY <1>3, <1>5
<1>7. g[m] = First(m)
    <2> DEFINE c == m - 1
               before == First(c)
               last == x[m]
    <2>1. g[m] = before \o <<last>>
        BY <1>1, <1>4, <1>5, <1>6
    <2>2. c \in Nat /\ m = c + 1
        BY <1>5
    <2>3. before = [i \in 1..c |-> before[i]]
        OBVIOUS
    <2>4. Append(before, last) = [k \in 1..(c + 1) |-> IF k = c + 1 THEN last ELSE before[k]]
        <3> HIDE DEF c, before, last
        <3> QED BY <2>2, <2>3, AppendIs
    <2>5. before \o <<last>> = Append(before, last)
        <3> HIDE DEF before, last, c
        <3> QED BY <2>2, <2>3, AppendPutsBehind
    <2>6. [k \in 1..(c + 1) |-> IF k = c + 1 THEN last ELSE before[k]] = First(m)
        BY <2>2
    <2> QED BY <2>1, <2>4, <2>5, <2>6
<1> QED BY <1>3, <1>7

-----------------------------------------------------------------------------
(* The processors that put pages together or take them apart *)

\* The pages of a list of files are pages in order.
LEMMA PagesArePages ==
    ASSUME NEW files, AreFiles(files)
    PROVE  \E n \in Nat : /\ Pages(files) = [i \in 1..n |-> Pages(files)[i]]
                          /\ \A i \in 1..n : IsPage(Pages(files)[i])
<1> DEFINE n == Len(files)
           Of(i) == {files[i].pages[k] : k \in DOMAIN files[i].pages}
           A == UNION {Of(i) : i \in 1..n}
           s == [i \in DOMAIN files |-> files[i].pages]
           pages == Pages(files)
<1>1. n \in Nat \ {0} /\ DOMAIN files = 1..n /\ \A i \in 1..n : IsFile(files[i])
    BY FilesAre
<1>2. \A page \in A : IsPage(page)
    BY <1>1 DEF IsFile
<1>3. s \in Seq(Seq(A)) /\ Len(s) # 0
    <2>1. ASSUME NEW i \in 1..n PROVE files[i].pages \in Seq(A)
        <3> DEFINE here == files[i].pages
        <3>1. IsSeq(here)
            BY <1>1 DEF IsFile
        <3>2. here \in Seq({here[k] : k \in DOMAIN here})
            BY <3>1 DEF IsSeq
        <3>3. {here[k] : k \in DOMAIN here} \subseteq A
            OBVIOUS
        <3> HIDE DEF here, A
        <3> DEFINE B == {here[k] : k \in DOMAIN here}
        <3>4. here \in [1..Len(here) -> B] /\ Len(here) \in Nat
            BY <3>2, LenProperties
        <3>5. here \in [1..Len(here) -> A]
            BY <3>3, <3>4
        <3>6. here \in Seq(A)
            BY <3>4, <3>5
        <3> QED BY <3>6 DEF here
    <2>2. s = [i \in 1..n |-> s[i]] /\ s \in [1..n -> Seq(A)]
        BY <1>1, <2>1
    <2> HIDE DEF n, A, s
    <2> QED BY <1>1, <2>2, SeqOver
<1>4. pages \in Seq(A)
    <2>1. pages = FlattenSeq(s)
        BY DEF Pages
    <2> HIDE DEF s, A, pages
    <2> QED BY <1>3, <2>1, FlattenIsSeq
<1> HIDE DEF A, pages
<1>5. /\ Len(pages) \in Nat /\ pages = [i \in 1..Len(pages) |-> pages[i]]
      /\ \A i \in 1..Len(pages) : pages[i] \in A
    BY <1>4, LenProperties, ElementOfSeq
<1> QED BY <1>2, <1>5 DEF pages

LEMMA PagesOfOne ==
    ASSUME NEW files, AreFiles(files), Len(files) = 1
    PROVE  Pages(files) = files[1].pages
<1> DEFINE s == [i \in DOMAIN files |-> files[i].pages]
           one == files[1].pages
<1>1. s = <<one>>
    BY FilesAre
<1>2. Pages(files) = FlattenSeq(s)
    BY DEF Pages
<1> HIDE DEF s, one
<1>3. Pages(files) = one
    BY <1>1, <1>2, FlattenOne
<1> QED BY <1>3 DEF one

LEMMA PagesOfPictures ==
    ASSUME NEW files, AreFiles(files), \A i \in DOMAIN files : files[i].kind # "pdf"
    PROVE  Pages(files) = [i \in DOMAIN files |-> files[i].pages[1]]
<1> DEFINE n == Len(files)
           x == [i \in DOMAIN files |-> files[i].pages[1]]
           s == [i \in DOMAIN files |-> files[i].pages]
<1>1. n \in Nat \ {0} /\ DOMAIN files = 1..n /\ \A i \in 1..n : IsFile(files[i])
    BY FilesAre
<1>2. ASSUME NEW i \in 1..n PROVE files[i].pages = <<files[i].pages[1]>>
    <2> DEFINE here == files[i].pages
    <2>1. IsSeq(here) /\ Len(here) = 1
        BY <1>1 DEF IsFile
    <2> HIDE DEF here
    <2>2. here = [k \in 1..1 |-> here[k]]
        BY <2>1, SeqIs
    <2>3. here = <<here[1]>>
        BY <2>2
    <2> QED BY <2>3 DEF here
<1>3. x = [i \in 1..n |-> x[i]] /\ s = [i \in 1..n |-> <<x[i]>>]
    BY <1>1, <1>2
<1>4. Pages(files) = FlattenSeq(s)
    BY DEF Pages
<1> HIDE DEF n, x, s
<1>5. FlattenSeq(s) = x
    BY <1>1, <1>3, FlattenSingles
<1> QED BY <1>4, <1>5 DEF x

\* Whether a step leaves the file under a password, and whether it reads one
\* that is.
LockMoves(op, old, new) ==
    /\ (new.password # NoPassword) <=>
           IF op \in {"protect-pdf", "unlock-pdf", "repair-pdf"} THEN op = "protect-pdf"
           ELSE old.password # NoPassword
    /\ old.password # NoPassword =>
           op \in {"unlock-pdf", "repair-pdf", "strip-metadata-pdf", "flatten-pdf", "redact-pdf"}

\* Two lists of pages that look alike but for the sheet they are on.
SameFaces(new, old) ==
    DOMAIN new = DOMAIN old /\ \A i \in DOMAIN old : Face(new[i]) = Face(old[i])

LEMMA Merges ==
    ASSUME NEW files, AreFiles(files), MergePdf(files).done
    PROVE  \E new : /\ MergePdf(files) = Gives(<<new>>) /\ IsFile(new) /\ new.kind = "pdf"
                    /\ new.pages = Pages(files) /\ LockMoves("merge-pdf", files[1], new)
<1> DEFINE new == NewFile(Pages(files))
<1>1. MergePdf(files) = Gives(<<new>>) /\ \A i \in DOMAIN files : Opens(files[i])
    BY DEF MergePdf, Throws, Pages
<1>2. files[1].password = NoPassword
    BY <1>1, FilesAre DEF Opens
<1>3. IsFile(new) /\ new.kind = "pdf" /\ new.pages = Pages(files) /\ new.password = NoPassword
    <2> DEFINE pages == Pages(files)
    <2>1. PICK n \in Nat : pages = [i \in 1..n |-> pages[i]] /\ \A i \in 1..n : IsPage(pages[i])
        BY PagesArePages
    <2> HIDE DEF pages
    <2>2. /\ IsFile(NewFile(pages)) /\ NewFile(pages).kind = "pdf"
          /\ NewFile(pages).pages = pages /\ NewFile(pages).password = NoPassword
        BY <2>1, NewFileIs
    <2> QED BY <2>2 DEF pages
<1> HIDE DEF new
<1> QED BY <1>1, <1>2, <1>3 DEF LockMoves

LEMMA Pictures ==
    ASSUME NEW files, NEW opt, AreFiles(files), ImageToPdf(files, opt).done
    PROVE  \E new : /\ ImageToPdf(files, opt) = Gives(<<new>>) /\ IsFile(new) /\ new.kind = "pdf"
                    /\ SameFaces(new.pages, Pages(files))
                    /\ LockMoves("image-to-pdf", files[1], new)
<1> DEFINE laid == Laid(files, opt)
           old == Pages(files)
           new == NewFile(laid)
           sheet == <<opt.pageSize, opt.orientation>>
<1>1. /\ ImageToPdf(files, opt) = Gives(<<new>>)
      /\ \A i \in DOMAIN files : files[i].kind # "pdf"
    BY DEF ImageToPdf, Throws
<1>2. files[1].password = NoPassword
    BY <1>1, FilesAre DEF IsFile
<1>3. PICK n \in Nat : old = [i \in 1..n |-> old[i]] /\ \A i \in 1..n : IsPage(old[i])
    BY PagesArePages
<1>4. laid = [i \in 1..n |-> [old[i] EXCEPT !.sheet = sheet]]
    <2>1. old = [i \in DOMAIN files |-> files[i].pages[1]]
        BY <1>1, PagesOfPictures
    <2>2. DOMAIN files = 1..n
        BY <1>3, <2>1
    <2> HIDE DEF old
    <2> QED BY <2>1, <2>2 DEF Laid
<1> HIDE DEF laid, old, sheet
<1>5. ASSUME NEW i \in 1..n
      PROVE  IsPage(laid[i]) /\ Face(laid[i]) = Face(old[i])
    <2>1. laid[i] = [old[i] EXCEPT !.sheet = sheet] /\ IsPage(old[i])
        BY <1>3, <1>4
    <2> QED BY <2>1, LaidPage
<1>6. laid = [i \in 1..n |-> laid[i]]
    BY <1>4
<1>7. IsFile(new) /\ new.kind = "pdf" /\ new.pages = laid /\ new.password = NoPassword
    BY <1>5, <1>6, NewFileIs
<1>8. SameFaces(laid, old)
    <2>1. DOMAIN laid = 1..n /\ DOMAIN old = 1..n
        BY <1>3, <1>6
    <2> QED BY <1>5, <2>1 DEF SameFaces
<1> HIDE DEF new
<1> QED BY <1>1, <1>2, <1>7, <1>8 DEF LockMoves, old

\* A step that does not draw on pages leaves them as they are.
LEMMA NothingDrawn ==
    ASSUME NEW step, NEW i, NEW face,
           step.op \notin {"rotate-pdf", "watermark-pdf", "page-numbers-pdf", "redact-pdf"}
    PROVE  Worked(step, i, face) = face
BY DEF Worked

LEMMA PagesUntouched ==
    ASSUME NEW step, NEW file, IsFile(file), NEW new, IsFile(new), new.kind = "pdf",
           new.pages = file.pages,
           step.op \notin {"rotate-pdf", "watermark-pdf", "page-numbers-pdf", "redact-pdf"}
    PROVE  PageByPage(step, file, new)
BY NothingDrawn DEF PageByPage

LEMMA Compresses ==
    ASSUME NEW step, step.op = "compress-pdf", NEW files, IsFile(files[1]),
           CompressPdf(files, step.opt).done
    PROVE  \E new : /\ CompressPdf(files, step.opt) = Gives(<<new>>)
                    /\ PageByPage(step, files[1], new)
                    /\ files[1].password = NoPassword /\ new.password = NoPassword
<1> DEFINE file == files[1]
           traces == IF step.opt.level = "extreme" THEN file.traces \ {"author"} ELSE file.traces
           new == [file EXCEPT !.traces = traces]
<1>1. CompressPdf(files, step.opt) = Gives(<<new>>) /\ Opens(file)
    BY DEF CompressPdf, Throws
<1>2. file.kind = "pdf" /\ file.password = NoPassword /\ IsFile(file)
    BY <1>1 DEF Opens, Safe
<1>3. /\ IsFile(new) /\ new.kind = "pdf" /\ new.pages = file.pages
      /\ new.password = file.password
    <2> HIDE DEF traces, file
    <2> QED BY <1>2, ResaidIs
<1> HIDE DEF new
<1>4. PageByPage(step, file, new)
    BY <1>2, <1>3, PagesUntouched
<1> QED BY <1>1, <1>2, <1>3, <1>4

LEMMA Protects ==
    ASSUME NEW step, step.op = "protect-pdf", NEW files, IsFile(files[1]),
           ProtectPdf(files, step.opt).done
    PROVE  \E new : /\ ProtectPdf(files, step.opt) = Gives(<<new>>)
                    /\ PageByPage(step, files[1], new)
                    /\ files[1].password = NoPassword /\ new.password # NoPassword
<1> DEFINE file == files[1]
           new == [file EXCEPT !.password = step.opt.userPassword]
<1>1. /\ ProtectPdf(files, step.opt) = Gives(<<new>>) /\ Opens(file)
      /\ step.opt.userPassword # NoPassword
    BY DEF ProtectPdf, Throws
<1>2. file.kind = "pdf" /\ file.password = NoPassword /\ IsFile(file)
    BY <1>1 DEF Opens, Safe
<1>3. /\ IsFile(new) /\ new.kind = "pdf" /\ new.pages = file.pages
      /\ new.password = step.opt.userPassword
    <2> HIDE DEF file
    <2> QED BY <1>2, RelockedIs
<1> HIDE DEF new
<1>4. PageByPage(step, file, new)
    BY <1>2, <1>3, PagesUntouched
<1> QED BY <1>1, <1>2, <1>3, <1>4

LEMMA Unlocks ==
    ASSUME NEW step, step.op = "unlock-pdf", NEW files, IsFile(files[1]),
           UnlockPdf(files, step.opt).done
    PROVE  \E new : /\ UnlockPdf(files, step.opt) = Gives(<<new>>)
                    /\ PageByPage(step, files[1], new) /\ new.password = NoPassword
<1> DEFINE file == files[1]
           new == [file EXCEPT !.password = NoPassword]
<1>1. UnlockPdf(files, step.opt) = Gives(<<new>>) /\ Safe(file)
    BY DEF UnlockPdf, Throws
<1>2. file.kind = "pdf" /\ IsFile(file)
    BY <1>1 DEF Safe
<1>3. IsFile(new) /\ new.kind = "pdf" /\ new.pages = file.pages /\ new.password = NoPassword
    <2> HIDE DEF file
    <2> QED BY <1>2, RelockedIs
<1> HIDE DEF new
<1>4. PageByPage(step, file, new)
    BY <1>2, <1>3, PagesUntouched
<1> QED BY <1>1, <1>3, <1>4

LEMMA Strips ==
    ASSUME NEW step, step.op = "strip-metadata-pdf", NEW files, IsFile(files[1]),
           StripMetadataPdf(files, step.opt).done
    PROVE  \E new : /\ StripMetadataPdf(files, step.opt) = Gives(<<new>>)
                    /\ PageByPage(step, files[1], new) /\ new.password = files[1].password
<1> DEFINE file == files[1]
           traces == file.traces \ (step.opt.strip \intersect {"author", "xmp"})
           new == [file EXCEPT !.traces = traces]
<1>1. StripMetadataPdf(files, step.opt) = Gives(<<new>>) /\ Safe(file)
    BY DEF StripMetadataPdf, Throws
<1>2. file.kind = "pdf" /\ IsFile(file)
    BY <1>1 DEF Safe
<1>3. /\ IsFile(new) /\ new.kind = "pdf" /\ new.pages = file.pages
      /\ new.password = file.password
    <2> HIDE DEF traces, file
    <2> QED BY <1>2, ResaidIs
<1> HIDE DEF new
<1>4. PageByPage(step, file, new)
    BY <1>2, <1>3, PagesUntouched
<1> QED BY <1>1, <1>3, <1>4

\* However far it got.
LEMMA Flattens ==
    ASSUME NEW step, step.op = "flatten-pdf", NEW files, IsFile(files[1]), NEW most,
           FlattenUpTo(files, step.opt, most).done
    PROVE  \E new : /\ FlattenUpTo(files, step.opt, most) = Gives(<<new>>)
                    /\ PageByPage(step, files[1], new) /\ new.password = files[1].password
<1> DEFINE file == files[1]
           opt == step.opt
           n == Total(file)
           Left(notes) == IF opt.annotations THEN {}
                          ELSE IF opt.signatures
                               THEN {note \in notes : note.kind # "signature"}
                               ELSE notes
           pages == [i \in 1..n |-> IF i \in 1..most
                                    THEN [file.pages[i] EXCEPT !.notes = Left(file.pages[i].notes)]
                                    ELSE file.pages[i]]
           drawn == [file EXCEPT !.pages = pages]
           new == [drawn EXCEPT !.form = drawn.form /\ ~opt.forms]
<1>1. FlattenUpTo(files, opt, most) = Gives(<<new>>) /\ Safe(file)
    BY DEF FlattenUpTo, Redrawn, Throws
<1>2. file.kind = "pdf"
    BY <1>1 DEF Safe
<1>3. n \in Nat /\ \A i \in 1..n : IsPage(file.pages[i])
    BY PagesOf
<1>4. ASSUME NEW i \in 1..n
      PROVE  IsPage(pages[i]) /\ Face(pages[i]) = Worked(step, i, Face(file.pages[i]))
    <2> DEFINE page == file.pages[i]
               notes == Left(page.notes)
    <2>1. IsPage(page) /\ Worked(step, i, Face(page)) = Face(page)
        BY <1>3, NothingDrawn
    <2>2. pages[i] = [page EXCEPT !.notes = notes] \/ pages[i] = page
        OBVIOUS
    <2> HIDE DEF page, pages, notes
    <2>3. IsPage(pages[i]) /\ Face(pages[i]) = Worked(step, i, Face(page))
        BY <2>1, <2>2, NotedPage
    <2> QED BY <2>3 DEF page
<1>5. pages = [i \in 1..n |-> pages[i]]
    OBVIOUS
<1>6. PageByPage(step, file, drawn) /\ drawn.password = file.password
    <2>1. IsFile(file) /\ drawn = [file EXCEPT !.pages = pages]
        OBVIOUS
    <2> HIDE DEF pages, file, drawn
    <2>2. Redone(step, file, pages)
        BY <1>4, <1>5 DEF Redone
    <2> QED BY <1>2, <2>1, <2>2, DrawnAnew
<1> HIDE DEF drawn
<1>7. PageByPage(step, file, new) /\ new.password = file.password
    <2> DEFINE form == drawn.form /\ ~opt.forms
    <2>1. IsFile(drawn) /\ drawn.kind = "pdf"
        BY <1>6 DEF PageByPage
    <2>2. new = [drawn EXCEPT !.form = form]
        OBVIOUS
    <2> HIDE DEF form, new
    <2>3. /\ IsFile(new) /\ new.kind = "pdf" /\ new.pages = drawn.pages
          /\ new.password = drawn.password
        BY <2>1, <2>2, ResaidIs
    <2> QED BY <1>6, <2>3 DEF PageByPage
<1> HIDE DEF new
<1> QED BY <1>1, <1>7

\* Pages a step picked from a sequence make a file.
LEMMA PickedFile ==
    ASSUME NEW A, \A page \in A : IsPage(page), NEW pages \in Seq(A)
    PROVE  /\ IsFile(NewFile(pages)) /\ NewFile(pages).kind = "pdf"
           /\ NewFile(pages).password = NoPassword
<1>1. /\ Len(pages) \in Nat /\ pages = [i \in 1..Len(pages) |-> pages[i]]
      /\ \A i \in 1..Len(pages) : IsPage(pages[i])
    BY LenProperties, ElementOfSeq
<1> QED BY <1>1, NewFileIs

LEMMA Repairs ==
    ASSUME NEW files, IsFile(files[1]), RepairPdf(files).done
    PROVE  \E new : /\ RepairPdf(files) = Gives(<<new>>) /\ IsFile(new) /\ new.kind = "pdf"
                    /\ new.password = NoPassword
<1> DEFINE file == files[1]
           found == Those(file.pages, {i \in 1..Total(file) : file.pages[i].sound})
           shown == IF file.password = NoPassword THEN found
                    ELSE [i \in DOMAIN found |-> [found[i] EXCEPT !.of = "scrambled"]]
           A == {file.pages[i] : i \in DOMAIN file.pages}
           B == {[page EXCEPT !.of = "scrambled"] : page \in A}
           new == NewFile(shown)
<1>1. RepairPdf(files) = Gives(<<new>>)
    BY DEF RepairPdf, Throws
<1>2. file.pages \in Seq(A) /\ \A page \in A : IsPage(page)
    BY DEF IsFile, IsSeq
<1>3. \A page \in B : IsPage(page)
    <2>1. SUFFICES ASSUME NEW page \in A PROVE IsPage([page EXCEPT !.of = "scrambled"])
        OBVIOUS
    <2> DEFINE other == [page EXCEPT !.of = "scrambled"]
    <2>2. IsPage(page)
        BY <1>2
    <2>3. DOMAIN other = DOMAIN page /\ other.marks = page.marks
        BY <2>2, PageFields
    <2> HIDE DEF other
    <2> QED BY <2>2, <2>3 DEF IsPage, other
<1>4. found \in Seq(A)
    <2> HIDE DEF A
    <2> QED BY <1>2, ThoseIsSeq
<1>5. shown \in Seq(A) \/ shown \in Seq(B)
    <2> HIDE DEF found, A
    <2>1. found \in [1..Len(found) -> A] /\ Len(found) \in Nat
        BY <1>4, LenProperties
    <2> DEFINE hidden == [i \in DOMAIN found |-> [found[i] EXCEPT !.of = "scrambled"]]
    <2>2. hidden \in [1..Len(found) -> B]
        BY <2>1
    <2> HIDE DEF B
    <2>3. hidden \in Seq(B)
        BY <2>1, <2>2
    <2> QED BY <1>4, <2>3
<1> HIDE DEF shown, A, B
<1>6. IsFile(new) /\ new.kind = "pdf" /\ new.password = NoPassword
    BY <1>2, <1>3, <1>5, PickedFile
<1> HIDE DEF new
<1> QED BY <1>1, <1>6

\* The pages a range names are pages of the file.
LEMMA RangeNames ==
    ASSUME NEW text, NEW total \in Nat
    PROVE  SplitRange(text, total) \in Seq(1..total)
<1> DEFINE all == [p \in 1..total |-> p]
<1>1. all \in Seq(1..total)
    OBVIOUS
<1> HIDE DEF all
<1>2. \A places : Chosen(total, places) \in Seq(1..total)
    BY <1>1, ThoseIsSeq DEF Chosen, all
<1>3. <<>> \in Seq(1..total) /\ \A from \in 1..total : <<from>> \in Seq(1..total)
    OBVIOUS
<1> QED BY <1>2, <1>3 DEF SplitRange

LEMMA Splits ==
    ASSUME NEW files, IsFile(files[1]), NEW opt, IsSeq(opt.ranges),
           SplitPdf(files, opt).done, NEW made, made = SplitPdf(files, opt).files, made # <<>>
    PROVE  /\ AreFiles(made) /\ files[1].password = NoPassword
           /\ \A i \in DOMAIN made : made[i].kind = "pdf" /\ made[i].password = NoPassword
<1> DEFINE file == files[1]
           n == Total(file)
           Picks == Seq(1..n)
           every == opt.mode = "all-pages" \/ opt.ranges = <<>>
           single == [i \in 1..n |-> <<i>>]
           ranges == [r \in DOMAIN opt.ranges |-> SplitRange(opt.ranges[r], n)]
           some == Those(ranges, {r \in DOMAIN ranges : ranges[r] # <<>>})
           wanted == IF every THEN single ELSE some
           A == {file.pages[i] : i \in DOMAIN file.pages}
<1>1. made = [w \in DOMAIN wanted |-> Copied(file, wanted[w])] /\ Opens(file)
    BY DEF SplitPdf, Throws, Gives
<1>2. /\ n \in Nat /\ DOMAIN file.pages = 1..n /\ \A page \in A : IsPage(page)
      /\ \A i \in 1..n : file.pages[i] \in A
    <2>1. n \in Nat /\ DOMAIN file.pages = 1..n /\ \A i \in 1..n : IsPage(file.pages[i])
        BY PagesOf
    <2> QED BY <2>1
<1>3. wanted \in Seq(Picks)
    <2>1. single \in Seq(Picks)
        <3>1. \A i \in 1..n : <<i>> \in Picks
            BY <1>2
        <3> HIDE DEF Picks
        <3>2. single \in [1..n -> Picks]
            BY <3>1
        <3> HIDE DEF single
        <3> QED BY <1>2, <3>2
    <2>2. ranges \in Seq(Picks)
        <3>1. Len(opt.ranges) \in Nat /\ DOMAIN opt.ranges = 1..Len(opt.ranges)
            BY SeqIs
        <3>2. \A r \in DOMAIN opt.ranges : SplitRange(opt.ranges[r], n) \in Picks
            BY <1>2, RangeNames
        <3> HIDE DEF Picks, n
        <3>3. ranges \in [1..Len(opt.ranges) -> Picks]
            BY <3>1, <3>2
        <3> HIDE DEF ranges
        <3> QED BY <3>1, <3>3
    <2>3. some \in Seq(Picks)
        <3> HIDE DEF ranges, Picks
        <3> QED BY <2>2, ThoseIsSeq
    <2> HIDE DEF single, some, Picks
    <2> QED BY <2>1, <2>3
<1> HIDE DEF wanted
<1>4. ASSUME NEW w \in DOMAIN wanted
      PROVE  /\ IsFile(Copied(file, wanted[w])) /\ Copied(file, wanted[w]).kind = "pdf"
             /\ Copied(file, wanted[w]).password = NoPassword
    <2> DEFINE picked == wanted[w]
               pages == [k \in DOMAIN picked |-> file.pages[picked[k]]]
    <2>1. picked \in Seq(1..n)
        BY <1>3, LenProperties, ElementOfSeq
    <2> HIDE DEF picked, n, file, A
    <2>2. picked \in [1..Len(picked) -> 1..n] /\ Len(picked) \in Nat
        BY <2>1, LenProperties
    <2>3. pages \in [1..Len(picked) -> A]
        BY <1>2, <2>2
    <2> HIDE DEF pages
    <2>4. pages \in Seq(A)
        BY <2>2, <2>3
    <2>5. Copied(file, picked) = NewFile(pages)
        BY DEF Copied, pages
    <2>6. /\ IsFile(NewFile(pages)) /\ NewFile(pages).kind = "pdf"
          /\ NewFile(pages).password = NoPassword
        BY <1>2, <2>4, PickedFile
    <2> QED BY <2>5, <2>6 DEF picked
<1>5. IsSeq(made) /\ DOMAIN made = DOMAIN wanted
    <2>1. Len(wanted) \in Nat /\ DOMAIN wanted = 1..Len(wanted)
        BY <1>3, LenProperties
    <2>2. made = [w \in 1..Len(wanted) |-> made[w]]
        BY <1>1, <2>1
    <2> QED BY <2>1, <2>2, SeqOver
<1>6. file.password = NoPassword
    BY <1>1 DEF Opens
<1>7. \A i \in DOMAIN made : /\ IsFile(made[i]) /\ made[i].kind = "pdf"
                             /\ made[i].password = NoPassword
    BY <1>1, <1>4, <1>5
<1> HIDE DEF file
<1> QED BY <1>5, <1>6, <1>7 DEF AreFiles, file

\* What a step of a chain makes of the files it works on.
StepMakes(step, old, new) ==
    /\ AreFiles(new) /\ \A i \in DOMAIN new : new[i].kind = "pdf"
    /\ LockMoves(step.op, old[1], new[1])
    /\ step.op \notin {"split-pdf", "repair-pdf"} =>
          /\ Len(new) = 1
          /\ IF step.op \in {"merge-pdf", "image-to-pdf"}
             THEN SameFaces(new[1].pages, Pages(old))
             ELSE PageByPage(step, old[1], new[1])

LEMMA OneMade ==
    ASSUME NEW new, IsFile(new), new.kind = "pdf", NEW made, made = <<new>>
    PROVE  /\ AreFiles(made) /\ Len(made) = 1 /\ made[1] = new
           /\ \A i \in DOMAIN made : made[i].kind = "pdf"
<1>1. Len(made) = 1 /\ DOMAIN made = 1..1 /\ made[1] = new /\ made # <<>>
    OBVIOUS
<1>2. IsSeq(made)
    <2>1. made = [i \in 1..1 |-> made[i]]
        BY <1>1
    <2> QED BY <2>1, SeqOver
<1> QED BY <1>1, <1>2 DEF AreFiles

\* The lock a step that keeps a file leaves on it.
LEMMA LockKept ==
    ASSUME NEW op, NEW old, NEW new,
           \/ op \in {"rotate-pdf", "watermark-pdf", "page-numbers-pdf", "compress-pdf"}
              /\ old.password = NoPassword /\ new.password = NoPassword
           \/ op \in {"strip-metadata-pdf", "flatten-pdf", "redact-pdf"}
              /\ new.password = old.password
           \/ op = "protect-pdf" /\ old.password = NoPassword /\ new.password # NoPassword
           \/ op = "unlock-pdf" /\ new.password = NoPassword
    PROVE  LockMoves(op, old, new)
BY DEF LockMoves

LEMMA PageStepMakes ==
    ASSUME NEW step, NEW old, NEW new, PageByPage(step, old[1], new),
           step.op \notin {"merge-pdf", "image-to-pdf", "split-pdf", "repair-pdf"},
           LockMoves(step.op, old[1], new), NEW made, made = <<new>>
    PROVE  StepMakes(step, old, made)
<1>1. /\ AreFiles(made) /\ Len(made) = 1 /\ made[1] = new
      /\ \A i \in DOMAIN made : made[i].kind = "pdf"
    BY OneMade DEF PageByPage
<1> QED BY <1>1 DEF StepMakes

LEMMA GivesOne ==
    ASSUME NEW outcome, NEW new, outcome = Gives(<<new>>)
    PROVE  outcome.files = <<new>>
BY DEF Gives

LEMMA FlattenMakes ==
    ASSUME NEW step, step.op = "flatten-pdf", NEW old, AreFiles(old), NEW most,
           FlattenUpTo(old, step.opt, most).done,
           NEW new, new = FlattenUpTo(old, step.opt, most).files
    PROVE  StepMakes(step, old, new)
<1>1. PICK file : /\ FlattenUpTo(old, step.opt, most) = Gives(<<file>>)
                  /\ PageByPage(step, old[1], file) /\ file.password = old[1].password
    BY FilesAre, Flattens
<1>2. new = <<file>>
    BY <1>1, GivesOne
<1>3. LockMoves(step.op, old[1], file)
    BY <1>1, LockKept
<1> QED BY <1>1, <1>2, <1>3, PageStepMakes

LEMMA ProcessMakes ==
    ASSUME NEW step, step.op \in Chainable, step.op = "split-pdf" => IsSeq(step.opt.ranges),
           NEW old, AreFiles(old), Process(step.op, old, step.opt).done,
           NEW new, new = Process(step.op, old, step.opt).files, new # <<>>
    PROVE  StepMakes(step, old, new)
<1> DEFINE outcome == Process(step.op, old, step.opt)
<1>0. IsFile(old[1])
    BY FilesAre
<1>1. CASE step.op = "merge-pdf"
    <2>1. outcome = MergePdf(old)
        BY <1>1 DEF Process, BillingOps
    <2>2. PICK file : /\ MergePdf(old) = Gives(<<file>>) /\ IsFile(file) /\ file.kind = "pdf"
                      /\ file.pages = Pages(old) /\ LockMoves("merge-pdf", old[1], file)
        BY <2>1, Merges
    <2>3. new = <<file>>
        BY <2>1, <2>2, GivesOne
    <2>4. /\ AreFiles(new) /\ Len(new) = 1 /\ new[1] = file
          /\ \A i \in DOMAIN new : new[i].kind = "pdf"
        BY <2>2, <2>3, OneMade
    <2>5. SameFaces(new[1].pages, Pages(old))
        BY <2>2, <2>4 DEF SameFaces
    <2> QED BY <1>1, <2>2, <2>4, <2>5 DEF StepMakes
<1>2. CASE step.op = "image-to-pdf"
    <2>1. outcome = ImageToPdf(old, step.opt)
        BY <1>2 DEF Process, BillingOps
    <2>2. PICK file : /\ ImageToPdf(old, step.opt) = Gives(<<file>>) /\ IsFile(file)
                      /\ file.kind = "pdf" /\ SameFaces(file.pages, Pages(old))
                      /\ LockMoves("image-to-pdf", old[1], file)
        BY <2>1, Pictures
    <2>3. new = <<file>>
        BY <2>1, <2>2, GivesOne
    <2>4. /\ AreFiles(new) /\ Len(new) = 1 /\ new[1] = file
          /\ \A i \in DOMAIN new : new[i].kind = "pdf"
        BY <2>2, <2>3, OneMade
    <2> QED BY <1>2, <2>2, <2>4 DEF StepMakes
<1>3. CASE step.op = "repair-pdf"
    <2>1. outcome = RepairPdf(old)
        BY <1>3 DEF Process, BillingOps
    <2>2. PICK file : /\ RepairPdf(old) = Gives(<<file>>) /\ IsFile(file) /\ file.kind = "pdf"
                      /\ file.password = NoPassword
        BY <1>0, <2>1, Repairs
    <2>3. new = <<file>>
        BY <2>1, <2>2, GivesOne
    <2>4. /\ AreFiles(new) /\ Len(new) = 1 /\ new[1] = file
          /\ \A i \in DOMAIN new : new[i].kind = "pdf"
        BY <2>2, <2>3, OneMade
    <2>5. LockMoves("repair-pdf", old[1], file)
        BY <2>2 DEF LockMoves
    <2> QED BY <1>3, <2>4, <2>5 DEF StepMakes
<1>4. CASE step.op = "split-pdf"
    <2>1. outcome = SplitPdf(old, step.opt)
        BY <1>4 DEF Process, BillingOps
    <2>2. /\ AreFiles(new) /\ old[1].password = NoPassword
          /\ \A i \in DOMAIN new : new[i].kind = "pdf" /\ new[i].password = NoPassword
        BY <1>0, <1>4, <2>1, Splits
    <2>3. LockMoves("split-pdf", old[1], new[1])
        BY <2>2, FilesAre DEF LockMoves
    <2> QED BY <1>4, <2>2, <2>3 DEF StepMakes
<1>5. CASE step.op = "flatten-pdf"
    <2>1. outcome = FlattenUpTo(old, step.opt, Total(old[1]))
        BY <1>5 DEF Process, BillingOps, FlattenPdf
    <2> QED BY <1>5, <2>1, FlattenMakes
<1>6. CASE step.op \in {"rotate-pdf", "watermark-pdf", "page-numbers-pdf", "compress-pdf",
                        "strip-metadata-pdf", "redact-pdf", "protect-pdf", "unlock-pdf"}
    <2>1. PICK file : /\ outcome = Gives(<<file>>) /\ PageByPage(step, old[1], file)
                      /\ LockMoves(step.op, old[1], file)
        <3>1. CASE step.op = "rotate-pdf"
            <4>1. outcome = RotatePdf(old, step.opt)
                BY <3>1 DEF Process, BillingOps
            <4> QED BY <1>0, <3>1, <4>1, Rotates, LockKept
        <3>2. CASE step.op = "watermark-pdf"
            <4>1. outcome = WatermarkPdf(old, step.opt)
                BY <3>2 DEF Process, BillingOps
            <4> QED BY <1>0, <3>2, <4>1, Watermarks, LockKept
        <3>3. CASE step.op = "page-numbers-pdf"
            <4>1. outcome = PageNumbersPdf(old, step.opt)
                BY <3>3 DEF Process, BillingOps
            <4> QED BY <1>0, <3>3, <4>1, Numbers, LockKept
        <3>4. CASE step.op = "compress-pdf"
            <4>1. outcome = CompressPdf(old, step.opt)
                BY <3>4 DEF Process, BillingOps
            <4> QED BY <1>0, <3>4, <4>1, Compresses, LockKept
        <3>5. CASE step.op = "strip-metadata-pdf"
            <4>1. outcome = StripMetadataPdf(old, step.opt)
                BY <3>5 DEF Process, BillingOps
            <4> QED BY <1>0, <3>5, <4>1, Strips, LockKept
        <3>6. CASE step.op = "redact-pdf"
            <4>1. outcome = RedactPdf(old, step.opt)
                BY <3>6 DEF Process, BillingOps
            <4> QED BY <1>0, <3>6, <4>1, Redacts, LockKept
        <3>7. CASE step.op = "protect-pdf"
            <4>1. outcome = ProtectPdf(old, step.opt)
                BY <3>7 DEF Process, BillingOps
            <4> QED BY <1>0, <3>7, <4>1, Protects, LockKept
        <3>8. CASE step.op = "unlock-pdf"
            <4>1. outcome = UnlockPdf(old, step.opt)
                BY <3>8 DEF Process, BillingOps
            <4> QED BY <1>0, <3>8, <4>1, Unlocks, LockKept
        <3> HIDE DEF outcome
        <3> QED BY <1>6, <3>1, <3>2, <3>3, <3>4, <3>5, <3>6, <3>7, <3>8
    <2>2. new = <<file>>
        BY <2>1, GivesOne
    <2> QED BY <1>6, <2>1, <2>2, PageStepMakes
<1> QED BY <1>1, <1>2, <1>3, <1>4, <1>5, <1>6 DEF Chainable

-----------------------------------------------------------------------------
(* The pages and the lock after some steps *)

\* What the recursive function of Faces is, up to a step.
Works(f, pages, steps, n) ==
    f = [k \in 0..n |-> [i \in DOMAIN pages |->
            IF k = 0 THEN Face(pages[i]) ELSE Worked(steps[k], i, f[k - 1][i])]]

LEMMA WorksExist ==
    ASSUME NEW pages, NEW steps, NEW n \in Nat
    PROVE  \E f : Works(f, pages, steps, n)
<1> DEFINE Bad == {m \in 0..n : ~ \E f : Works(f, pages, steps, m)}
<1>1. SUFFICES ASSUME Bad # {} PROVE FALSE
    <2>1. n \in 0..n
        OBVIOUS
    <2> QED BY <1>1, <2>1
<1>2. Bad \in SUBSET Nat
    OBVIOUS
<1>3. PICK m \in Bad : \A k \in Bad : m <= k
    <2> HIDE DEF Bad
    <2> QED BY <1>1, <1>2, LeastNumber
<1>4. m \in 0..n /\ ~ \E f : Works(f, pages, steps, m)
    OBVIOUS
<1>5. m # 0
    <2> DEFINE f == [k \in 0..0 |-> [i \in DOMAIN pages |-> Face(pages[i])]]
    <2>1. Works(f, pages, steps, 0)
        <3>1. [k \in 0..0 |-> [i \in DOMAIN pages |->
                 IF k = 0 THEN Face(pages[i]) ELSE Worked(steps[k], i, f[k - 1][i])]] = f
            OBVIOUS
        <3> HIDE DEF f
        <3> QED BY <3>1 DEF Works
    <2> QED BY <1>4, <2>1
<1>6. m - 1 \in 0..n /\ m - 1 \notin Bad
    <2>1. m \in Nat /\ m - 1 \in 0..n /\ ~(m <= m - 1)
        BY <1>4, <1>5
    <2> HIDE DEF Bad
    <2> QED BY <1>3, <2>1
<1>7. PICK f : Works(f, pages, steps, m - 1)
    BY <1>6
<1> DEFINE Made(g, k) == [i \in DOMAIN pages |->
                             IF k = 0 THEN Face(pages[i]) ELSE Worked(steps[k], i, g[k - 1][i])]
           h == [k \in 0..m |-> Made(f, k)]
<1>8. ASSUME NEW k \in 0..(m - 1) PROVE h[k] = f[k]
    <2>1. f[k] = Made(f, k)
        BY <1>7 DEF Works
    <2>2. k \in 0..m
        BY <1>4
    <2> QED BY <2>1, <2>2
<1>9. ASSUME NEW k \in 0..m PROVE Made(f, k) = Made(h, k)
    <2>1. CASE k = 0
        BY <2>1
    <2>2. CASE k # 0
        <3>1. k - 1 \in 0..(m - 1)
            BY <1>4, <2>2
        <3>2. h[k - 1] = f[k - 1]
            BY <1>8, <3>1
        <3> HIDE DEF h
        <3> QED BY <3>2
    <2> QED BY <2>1, <2>2
<1>10. Works(h, pages, steps, m)
    <2>1. h = [k \in 0..m |-> Made(h, k)]
        <3>1. h = [k \in 0..m |-> Made(f, k)]
            OBVIOUS
        <3> HIDE DEF h, Made
        <3> QED BY <1>9, <3>1
    <2> HIDE DEF h
    <2> QED BY <2>1 DEF Works
<1> QED BY <1>4, <1>10

LEMMA FacesAre ==
    ASSUME NEW pages, NEW steps, Len(steps) \in Nat
    PROVE  \E f : Works(f, pages, steps, Len(steps)) /\ Faces(pages, steps) = f[Len(steps)]
<1> DEFINE n == Len(steps)
           f == CHOOSE g : g = [k \in 0..n |-> [i \in DOMAIN pages |->
                    IF k = 0 THEN Face(pages[i]) ELSE Worked(steps[k], i, g[k - 1][i])]]
<1>1. Faces(pages, steps) = f[n]
    BY DEF Faces
<1>2. f = [k \in 0..n |-> [i \in DOMAIN pages |->
              IF k = 0 THEN Face(pages[i]) ELSE Worked(steps[k], i, f[k - 1][i])]]
    <2>1. \E g : g = [k \in 0..n |-> [i \in DOMAIN pages |->
                     IF k = 0 THEN Face(pages[i]) ELSE Worked(steps[k], i, g[k - 1][i])]]
        <3>1. \E g : Works(g, pages, steps, n)
            BY WorksExist
        <3> HIDE DEF n
        <3> QED BY <3>1, Zenon DEF Works
    <2> QED BY <2>1, Zenon
<1> HIDE DEF f
<1> QED BY <1>1, <1>2 DEF Works

LEMMA FacesNone ==
    ASSUME NEW pages, NEW steps, Len(steps) = 0
    PROVE  Faces(pages, steps) = [i \in DOMAIN pages |-> Face(pages[i])]
<1>1. PICK f : Works(f, pages, steps, Len(steps)) /\ Faces(pages, steps) = f[Len(steps)]
    BY FacesAre
<1> QED BY <1>1 DEF Works

\* One step more works on every page the steps before it left.
WorksOn(pages, step, before, after) ==
    after = [i \in DOMAIN pages |-> Worked(step, i, before[i])]

LEMMA FacesGrow ==
    ASSUME NEW pages, NEW steps, IsSeq(steps), NEW step, NEW more, more = Append(steps, step)
    PROVE  WorksOn(pages, step, Faces(pages, steps), Faces(pages, more))
<1> DEFINE n == Len(steps)
<1>1. n \in Nat /\ Len(steps) = n /\ steps = [k \in 1..n |-> steps[k]]
    BY SeqIs
<1> HIDE DEF n
<1>2. more = [k \in 1..(n + 1) |-> IF k = n + 1 THEN step ELSE steps[k]]
    BY <1>1, AppendIs
<1>3. Len(more) = n + 1
    <2>1. more = [k \in 1..(n + 1) |-> more[k]]
        BY <1>2
    <2> DEFINE c == n + 1
    <2>2. c \in Nat /\ more = [k \in 1..c |-> more[k]]
        BY <1>1, <2>1
    <2> HIDE DEF c
    <2>3. Len(more) = c
        BY <2>2, SeqOver
    <2> QED BY <2>3 DEF c
<1>4. PICK f : Works(f, pages, steps, n) /\ Faces(pages, steps) = f[n]
    BY <1>1, FacesAre
<1>5. PICK g : Works(g, pages, more, n + 1) /\ Faces(pages, more) = g[n + 1]
    <2>1. Len(more) \in Nat
        BY <1>1, <1>3
    <2>2. \E g : Works(g, pages, more, Len(more)) /\ Faces(pages, more) = g[Len(more)]
        BY <2>1, FacesAre
    <2> QED BY <1>3, <2>2
<1> DEFINE Bad == {k \in 0..n : f[k] # g[k]}
<1>6. Bad = {}
    <2>1. SUFFICES ASSUME Bad # {} PROVE FALSE
        OBVIOUS
    <2>2. PICK m \in Bad : \A k \in Bad : m <= k
        <3>1. Bad \in SUBSET Nat
            BY <1>1
        <3> HIDE DEF Bad
        <3> QED BY <2>1, <3>1, LeastNumber
    <2>3. /\ f[m] = [i \in DOMAIN pages |->
                 IF m = 0 THEN Face(pages[i]) ELSE Worked(steps[m], i, f[m - 1][i])]
          /\ g[m] = [i \in DOMAIN pages |->
                 IF m = 0 THEN Face(pages[i]) ELSE Worked(more[m], i, g[m - 1][i])]
        <3>1. m \in 0..n /\ m \in 0..(n + 1)
            BY <1>1, <2>2
        <3> QED BY <1>4, <1>5, <3>1 DEF Works
    <2>4. m # 0
        BY <2>2, <2>3
    <2>5. m - 1 \in 0..n /\ ~(m <= m - 1) /\ m \in 1..n
        BY <1>1, <2>2, <2>4
    <2>6. f[m - 1] = g[m - 1]
        BY <2>2, <2>5
    <2>7. more[m] = steps[m]
        BY <1>1, <1>2, <2>5
    <2> QED BY <2>2, <2>3, <2>4, <2>6, <2>7
<1>7. f[n] = g[n]
    BY <1>1, <1>6
<1>8. g[n + 1] = [i \in DOMAIN pages |-> Worked(more[n + 1], i, g[n][i])]
    <2> DEFINE c == n + 1
    <2>1. c \in 0..c /\ c # 0 /\ c - 1 = n
        BY <1>1
    <2>2. g = [k \in 0..c |-> [i \in DOMAIN pages |->
              IF k = 0 THEN Face(pages[i]) ELSE Worked(more[k], i, g[k - 1][i])]]
        BY <1>5 DEF Works
    <2> HIDE DEF c
    <2>3. g[c] = [i \in DOMAIN pages |-> Worked(more[c], i, g[n][i])]
        BY <2>1, <2>2
    <2> QED BY <2>3 DEF c
<1>9. more[n + 1] = step
    BY <1>1, <1>2
<1> QED BY <1>4, <1>5, <1>7, <1>8, <1>9 DEF WorksOn

\* The last of the first n steps that sets, removes or loses a password.
Deciding(steps, n) ==
    {k \in 1..n : steps[k].op \in {"protect-pdf", "unlock-pdf", "repair-pdf"}}
LastOf(S) == CHOOSE k \in S : \A j \in S : j <= k

LEMMA LockedIs ==
    ASSUME NEW first, NEW steps, NEW n
    PROVE  Locked(first, steps, n) =
              IF Deciding(steps, n) = {} THEN first.password # NoPassword
              ELSE steps[LastOf(Deciding(steps, n))].op = "protect-pdf"
BY DEF Locked, Deciding, LastOf

LEMMA LastOfIs ==
    ASSUME NEW n \in Nat, NEW S \in SUBSET (1..n), S # {}
    PROVE  LastOf(S) \in S /\ \A j \in S : j <= LastOf(S)
<1> DEFINE Down == {n - k : k \in S}
<1>1. PICK m \in Down : \A d \in Down : m <= d
    <2>1. Down \in SUBSET Nat /\ Down # {}
        <3>1. ASSUME NEW k \in S PROVE n - k \in Nat
            <4>1. k \in 1..n
                OBVIOUS
            <4> QED BY <4>1
        <3>2. PICK k \in S : TRUE
            OBVIOUS
        <3>3. n - k \in Down
            BY <3>2
        <3> QED BY <3>1, <3>3
    <2> HIDE DEF Down
    <2> QED BY <2>1, LeastNumber
<1>2. PICK k \in S : m = n - k
    OBVIOUS
<1>3. \A j \in S : j <= k
    <2>1. SUFFICES ASSUME NEW j \in S PROVE j <= k
        OBVIOUS
    <2>2. m <= n - j
        BY <1>1
    <2>3. k \in 1..n /\ j \in 1..n
        OBVIOUS
    <2> HIDE DEF Down
    <2> QED BY <1>2, <2>2, <2>3
<1>4. \E last \in S : \A j \in S : j <= last
    BY <1>3
<1> QED BY <1>4, Zenon DEF LastOf

\* The steps before n are the same in a longer chain.
LEMMA LockedBefore ==
    ASSUME NEW first, NEW steps, NEW more, NEW n \in Nat,
           \A k \in 1..n : more[k] = steps[k]
    PROVE  Locked(first, more, n) = Locked(first, steps, n)
<1> DEFINE S == Deciding(steps, n)
<1>1. Deciding(more, n) = S
    BY DEF Deciding
<1>2. CASE S = {}
    BY <1>1, <1>2, LockedIs
<1>3. CASE S # {}
    <2>1. S \in SUBSET (1..n)
        BY DEF Deciding
    <2> HIDE DEF S
    <2>2. LastOf(S) \in 1..n
        BY <1>3, <2>1, LastOfIs
    <2>3. more[LastOf(S)] = steps[LastOf(S)]
        BY <2>2
    <2>4. /\ Locked(first, more, n) = (more[LastOf(S)].op = "protect-pdf")
          /\ Locked(first, steps, n) = (steps[LastOf(S)].op = "protect-pdf")
        BY <1>1, <1>3, LockedIs DEF S
    <2> QED BY <2>3, <2>4
<1> QED BY <1>2, <1>3

LEMMA LockedGrows ==
    ASSUME NEW first, NEW more, NEW n \in Nat
    PROVE  Locked(first, more, n + 1) =
              IF more[n + 1].op \in {"protect-pdf", "unlock-pdf", "repair-pdf"}
              THEN more[n + 1].op = "protect-pdf" ELSE Locked(first, more, n)
<1> DEFINE c == n + 1
           S == Deciding(more, c)
           ops == {"protect-pdf", "unlock-pdf", "repair-pdf"}
<1>1. CASE more[c].op \in ops
    <2>1. c \in S /\ S \in SUBSET (1..c) /\ c \in Nat
        BY <1>1 DEF Deciding
    <2> HIDE DEF S, c
    <2>2. LastOf(S) \in S /\ c <= LastOf(S)
        BY <2>1, LastOfIs
    <2>3. LastOf(S) = c
        <3>1. LastOf(S) \in 1..c
            BY <2>1, <2>2
        <3> HIDE DEF S
        <3> QED BY <2>1, <2>2, <3>1
    <2>4. Locked(first, more, c) = (more[LastOf(S)].op = "protect-pdf")
        BY <2>1, LockedIs DEF S
    <2> QED BY <1>1, <2>3, <2>4 DEF c
<1>2. CASE more[c].op \notin ops
    <2>1. S = Deciding(more, n)
        <3>1. \A k \in 1..c : k \in 1..n \/ k = c
            OBVIOUS
        <3>2. 1..n \subseteq 1..c
            OBVIOUS
        <3> HIDE DEF c
        <3> QED BY <1>2, <3>1, <3>2 DEF Deciding
    <2> HIDE DEF S, c
    <2>2. Locked(first, more, c) = Locked(first, more, n)
        BY <2>1, LockedIs DEF S
    <2> QED BY <1>2, <2>2 DEF c
<1> QED BY <1>1, <1>2

-----------------------------------------------------------------------------
(* The inductive invariant *)

\* A job made in a studio, whatever is in its form.
StudioJob(j) ==
    /\ DOMAIN j = {"kind", "files", "lenient", "steps", "form"}
    /\ j.kind = "studio" /\ j.files = <<>>
    /\ IsSeq(j.steps) /\ Len(j.steps) = 1
    /\ DOMAIN j.steps[1] = {"op", "opt"} /\ j.steps[1].op \in BillingOps

SourceOf(files, steps) ==
    IF steps # <<>> /\ steps[1].op \in {"merge-pdf", "image-to-pdf"}
    THEN Pages(files) ELSE files[1].pages

\* What a chain has in its hands after the steps it kept.
Carried(files, steps, held) ==
    /\ AreFiles(held)
    /\ (held[1].password # NoPassword) <=> Locked(files[1], steps, Len(steps))
    /\ \A k \in DOMAIN steps : Locked(files[1], steps, k - 1) =>
          steps[k].op \in {"unlock-pdf", "repair-pdf", "strip-metadata-pdf",
                           "flatten-pdf", "redact-pdf"}
    /\ (\A k \in DOMAIN steps : steps[k].op \notin {"split-pdf", "repair-pdf"}) =>
          /\ steps # <<>> => Len(held) = 1
          /\ [i \in DOMAIN held[1].pages |-> Face(held[1].pages[i])]
                = Faces(SourceOf(files, steps), steps)

\* A job before its first step, and a chain or another job later.
Fresh ==
    status \in {"draft", "posting", "queued"} =>
        at = 1 /\ reported = 0 /\ progress = 0 /\ kept = <<>>

InHand ==
    IF job.kind = "chain"
    THEN /\ Carried(job.files, KeptSteps, buffers)
         /\ kept = <<>> /\ status # "done" => buffers = job.files
    ELSE IF status = "done" THEN \A i \in DOMAIN buffers : buffers[i].kind = "pdf"
    ELSE buffers = job.files

\* The bar stands where the running step's last report put it.
OnTheBar ==
    /\ progress \in Percents
    /\ status = "running" =>
          /\ reported = 0 \/ reported \in 1..Len(StepReports)
          /\ progress = IF reported = 0 THEN StepBase(at) ELSE Mapped(StepReports[reported])

PipelineInv ==
    /\ job \in Jobs \/ StudioJob(job)
    /\ status \in {"draft", "posting", "queued", "running", "done", "failed"}
    /\ status \in {"draft", "posting"} => job.kind = "studio"
    /\ at \in 1..Len(job.steps) /\ cancelled \in BOOLEAN
    /\ kept \in Seq(1..Len(job.steps))
    /\ local = {} \/ \E outcome : local = {outcome}
    /\ Fresh /\ InHand /\ OnTheBar

\* Pages that look as some steps leave those of a source, and what a step
\* makes of them.
Looks(pages, source, steps) == [i \in DOMAIN pages |-> Face(pages[i])] = Faces(source, steps)
Moves(step, old, new) ==
    /\ DOMAIN new = DOMAIN old
    /\ \A i \in DOMAIN old : Face(new[i]) = Worked(step, i, Face(old[i]))

\* There is a face for every page of the source.
LEMMA FacesOver ==
    ASSUME NEW steps, IsSeq(steps), NEW source
    PROVE  DOMAIN Faces(source, steps) = DOMAIN source
<1>1. Len(steps) \in Nat
    BY SeqIs
<1>2. PICK f : Works(f, source, steps, Len(steps)) /\ Faces(source, steps) = f[Len(steps)]
    BY <1>1, FacesAre
<1> QED BY <1>1, <1>2 DEF Works

LEMMA FacesMove ==
    ASSUME NEW steps, IsSeq(steps), NEW step, NEW more, more = Append(steps, step),
           NEW source, NEW old, Looks(old, source, steps), NEW new, Moves(step, old, new)
    PROVE  Looks(new, source, more)
<1>1. Faces(source, more) = [i \in DOMAIN source |-> Worked(step, i, Faces(source, steps)[i])]
    <2>1. WorksOn(source, step, Faces(source, steps), Faces(source, more))
        BY FacesGrow
    <2> QED BY <2>1 DEF WorksOn
<1>2. [i \in DOMAIN old |-> Face(old[i])] = Faces(source, steps)
    BY DEF Looks
<1>3. DOMAIN old = DOMAIN source
    <2>1. DOMAIN [i \in DOMAIN old |-> Face(old[i])] = DOMAIN old
        OBVIOUS
    <2> QED BY <1>2, <2>1, FacesOver
<1>4. \A i \in DOMAIN old : Faces(source, steps)[i] = Face(old[i])
    <2>1. SUFFICES ASSUME NEW i \in DOMAIN old PROVE Faces(source, steps)[i] = Face(old[i])
        OBVIOUS
    <2>2. [j \in DOMAIN old |-> Face(old[j])][i] = Face(old[i])
        OBVIOUS
    <2> QED BY <1>2, <2>2
<1>5. DOMAIN new = DOMAIN old /\ \A i \in DOMAIN old : Face(new[i]) = Worked(step, i, Face(old[i]))
    BY DEF Moves
<1> QED BY <1>1, <1>3, <1>4, <1>5 DEF Looks

LEMMA CarriedFrom ==
    ASSUME NEW files, AreFiles(files), NEW steps, steps = <<>>
    PROVE  Carried(files, steps, files)
<1>1. Len(steps) = 0 /\ DOMAIN steps = {}
    OBVIOUS
<1>2. Locked(files[1], steps, Len(steps)) <=> files[1].password # NoPassword
    BY <1>1 DEF Locked
<1>3. SourceOf(files, steps) = files[1].pages
    BY DEF SourceOf
<1>4. Faces(SourceOf(files, steps), steps)
         = [i \in DOMAIN files[1].pages |-> Face(files[1].pages[i])]
    BY <1>1, <1>3, FacesNone
<1> QED BY <1>1, <1>2, <1>4 DEF Carried

\* The first of the files is as good as all of them.
LEMMA CarriedFirst ==
    ASSUME NEW files, NEW steps, NEW held, Carried(files, steps, held), NEW one, one = <<held[1]>>
    PROVE  Carried(files, steps, one)
<1>1. AreFiles(held)
    BY DEF Carried
<1>2. IsFile(held[1])
    BY <1>1, FilesAre
<1>3. one = [i \in 1..1 |-> one[i]] /\ one[1] = held[1] /\ one # <<>>
    OBVIOUS
<1>4. IsSeq(one) /\ Len(one) = 1 /\ DOMAIN one = 1..1
    BY <1>3, SeqOver
<1>5. AreFiles(one)
    BY <1>2, <1>3, <1>4 DEF AreFiles
<1> QED BY <1>3, <1>4, <1>5 DEF Carried

LEMMA CarriedOn ==
    ASSUME NEW files, AreFiles(files), NEW steps, IsSeq(steps), NEW held,
           Carried(files, steps, held), steps = <<>> => held = files,
           NEW step, NEW new, StepMakes(step, held, new), NEW more, more = Append(steps, step)
    PROVE  Carried(files, more, new)
<1> DEFINE n == Len(steps)
           first == files[1]
           Reading == {"unlock-pdf", "repair-pdf", "strip-metadata-pdf", "flatten-pdf", "redact-pdf"}
<1>1. /\ n \in Nat /\ Len(steps) = n /\ DOMAIN steps = 1..n
      /\ steps = [k \in 1..n |-> steps[k]]
    BY SeqIs
<1> HIDE DEF n
<1>2. more = [k \in 1..(n + 1) |-> IF k = n + 1 THEN step ELSE steps[k]]
    BY <1>1, AppendIs
<1>3. /\ DOMAIN more = 1..(n + 1) /\ more[n + 1] = step /\ \A k \in 1..n : more[k] = steps[k]
      /\ more # <<>>
    <2>1. /\ DOMAIN more = 1..(n + 1) /\ more[n + 1] = step /\ \A k \in 1..n : more[k] = steps[k]
        BY <1>1, <1>2
    <2>2. n + 1 \in DOMAIN more /\ DOMAIN <<>> = {}
        BY <1>1, <2>1
    <2> QED BY <2>1, <2>2
<1>4. Len(more) = n + 1
    <2> DEFINE c == n + 1
    <2>1. c \in Nat /\ more = [k \in 1..c |-> more[k]]
        BY <1>1, <1>2
    <2> HIDE DEF c
    <2>2. Len(more) = c
        BY <2>1, SeqOver
    <2> QED BY <2>2 DEF c
<1>5. AreFiles(new) /\ AreFiles(held)
    BY DEF StepMakes, Carried
<1>6. ASSUME NEW k \in 0..n PROVE Locked(first, more, k) = Locked(first, steps, k)
    <2>1. \A j \in 1..k : more[j] = steps[j]
        BY <1>1, <1>3
    <2>2. k \in Nat
        BY <1>1
    <2> HIDE DEF first
    <2> QED BY <2>1, <2>2, LockedBefore
<1>7. (held[1].password # NoPassword) <=> Locked(first, more, n)
    <2>1. (held[1].password # NoPassword) <=> Locked(first, steps, n)
        BY <1>1 DEF Carried
    <2>2. n \in 0..n
        BY <1>1
    <2> HIDE DEF first
    <2> QED BY <1>6, <2>1, <2>2
<1>8. LockMoves(step.op, held[1], new[1])
    BY DEF StepMakes
<1>9. (new[1].password # NoPassword) <=> Locked(first, more, Len(more))
    <2>1. Locked(first, more, n + 1) =
              IF more[n + 1].op \in {"protect-pdf", "unlock-pdf", "repair-pdf"}
              THEN more[n + 1].op = "protect-pdf" ELSE Locked(first, more, n)
        BY <1>1, LockedGrows
    <2> HIDE DEF first
    <2> QED BY <1>3, <1>4, <1>7, <1>8, <2>1 DEF LockMoves
<1>10. ASSUME NEW k \in DOMAIN more, Locked(first, more, k - 1) PROVE more[k].op \in Reading
    <2>1. CASE k \in 1..n
        <3>1. k - 1 \in 0..n /\ k \in DOMAIN steps /\ more[k] = steps[k]
            BY <1>1, <1>3, <2>1
        <3>2. Locked(first, steps, k - 1)
            BY <1>6, <1>10, <3>1
        <3> QED BY <3>1, <3>2 DEF Carried
    <2>2. CASE k = n + 1
        <3>1. k - 1 = n
            BY <1>1, <2>2
        <3>2. held[1].password # NoPassword
            BY <1>7, <1>10, <3>1
        <3> QED BY <1>3, <1>8, <2>2, <3>2 DEF LockMoves
    <2> QED BY <1>1, <1>3, <2>1, <2>2
<1>11. ASSUME \A k \in DOMAIN more : more[k].op \notin {"split-pdf", "repair-pdf"}
       PROVE  /\ Len(new) = 1
              /\ [i \in DOMAIN new[1].pages |-> Face(new[1].pages[i])]
                    = Faces(SourceOf(files, more), more)
    <2>1. step.op \notin {"split-pdf", "repair-pdf"}
        <3>1. n + 1 \in DOMAIN more
            BY <1>1, <1>3
        <3> QED BY <1>3, <1>11, <3>1
    <2>2. \A k \in DOMAIN steps : steps[k].op \notin {"split-pdf", "repair-pdf"}
        <3>1. \A k \in 1..n : k \in DOMAIN more
            BY <1>1, <1>3
        <3> QED BY <1>1, <1>3, <1>11, <3>1
    <2>3. /\ Len(new) = 1
          /\ IF step.op \in {"merge-pdf", "image-to-pdf"}
             THEN SameFaces(new[1].pages, Pages(held))
             ELSE PageByPage(step, held[1], new[1])
        BY <2>1 DEF StepMakes
    <2>4. /\ steps # <<>> => Len(held) = 1
          /\ [i \in DOMAIN held[1].pages |-> Face(held[1].pages[i])]
                = Faces(SourceOf(files, steps), steps)
        BY <2>2 DEF Carried
    <2>5. IsFile(new[1]) /\ IsFile(held[1])
        BY <1>5, FilesAre
    <2> DEFINE source == SourceOf(files, more)
               made == new[1].pages
    <2>6. CASE step.op \in {"merge-pdf", "image-to-pdf"}
        <3>1. CASE steps = <<>>
            <4>1. n = 0
                BY <1>1, <3>1
            <4>2. source = Pages(files) /\ SameFaces(made, source)
                BY <1>3, <2>3, <2>6, <3>1, <4>1 DEF SourceOf
            <4> HIDE DEF source, made
            <4>3. Looks(source, source, steps)
                BY <1>1, <4>1, FacesNone DEF Looks
            <4>4. Moves(step, source, made)
                BY <2>6, <4>2, NothingDrawn DEF Moves, SameFaces
            <4>5. Looks(made, source, more)
                BY <4>3, <4>4, FacesMove
            <4> QED BY <2>3, <4>5 DEF Looks, source, made
        <3>2. CASE steps # <<>>
            <4> DEFINE old == held[1].pages
            <4>1. SameFaces(made, old)
                BY <1>5, <2>3, <2>4, <2>6, <3>2, PagesOfOne
            <4>2. source = SourceOf(files, steps)
                <5>1. n # 0
                    BY <1>1, <3>2
                <5>2. more[1] = steps[1]
                    BY <1>1, <1>3, <5>1
                <5> QED BY <1>3, <3>2, <5>2 DEF SourceOf
            <4>3. Looks(old, source, steps)
                BY <2>4, <4>2 DEF Looks
            <4> HIDE DEF source, made, old
            <4>4. Moves(step, old, made)
                BY <2>6, <4>1, NothingDrawn DEF Moves, SameFaces
            <4>5. Looks(made, source, more)
                BY <4>3, <4>4, FacesMove
            <4> QED BY <2>3, <4>5 DEF Looks, source, made
        <3> QED BY <3>1, <3>2
    <2>7. CASE step.op \notin {"merge-pdf", "image-to-pdf"}
        <3> DEFINE old == held[1].pages
        <3>1. source = SourceOf(files, steps)
            <4>1. CASE steps = <<>>
                <5>1. n = 0 /\ more[1] = step
                    BY <1>1, <1>3, <4>1
                <5> QED BY <2>7, <4>1, <5>1 DEF SourceOf
            <4>2. CASE steps # <<>>
                <5>1. n # 0
                    BY <1>1, <4>2
                <5>2. more[1] = steps[1]
                    BY <1>1, <1>3, <5>1
                <5> QED BY <1>3, <4>2, <5>2 DEF SourceOf
            <4> QED BY <4>1, <4>2
        <3>2. Looks(old, source, steps)
            BY <2>4, <3>1 DEF Looks
        <3>3. Moves(step, old, made)
            <4>1. /\ DOMAIN made = 1..Len(made) /\ DOMAIN old = 1..Len(old)
                BY <2>5, PagesOf
            <4>2. /\ Len(made) = Len(old)
                  /\ \A i \in 1..Len(old) : Face(made[i]) = Worked(step, i, Face(old[i]))
                BY <2>3, <2>7 DEF PageByPage
            <4> HIDE DEF made, old
            <4> QED BY <4>1, <4>2 DEF Moves
        <3> HIDE DEF source, made, old
        <3>4. Looks(made, source, more)
            BY <3>2, <3>3, FacesMove
        <3> QED BY <2>3, <3>4 DEF Looks, source, made
    <2> QED BY <2>6, <2>7
<1> HIDE DEF first
<1> QED BY <1>3, <1>5, <1>9, <1>10, <1>11 DEF Carried, first

-----------------------------------------------------------------------------
(* What any operation gives *)

LEMMA GivesIs ==
    ASSUME NEW files, NEW outcome, outcome = Gives(files)
    PROVE  outcome.files = files /\ outcome.done
BY DEF Gives

LEMMA NewKind ==
    ASSUME NEW pages
    PROVE  NewFile(pages).kind = "pdf"
BY DEF NewFile

\* Whatever a processor gives is a PDF.
LEMMA ProcessKinds ==
    ASSUME NEW op, NEW files, op \in BillingOps \/ AreFiles(files), NEW opt,
           op = "split-pdf" => IsSeq(opt.ranges), Process(op, files, opt).done,
           NEW made, made = Process(op, files, opt).files
    PROVE  \A i \in DOMAIN made : made[i].kind = "pdf"
<1> DEFINE outcome == Process(op, files, opt)
<1>0. ASSUME NEW file, file.kind = "pdf", made = <<file>>
      PROVE  \A i \in DOMAIN made : made[i].kind = "pdf"
    BY <1>0
<1>1. CASE op \in Chainable
    <2>1. CASE made = <<>>
        BY <2>1
    <2>2. CASE made # <<>>
        <3> DEFINE step == [op |-> op, opt |-> opt]
        <3>1. step.op = op /\ step.opt = opt
            OBVIOUS
        <3> HIDE DEF step
        <3>2. AreFiles(files)
            BY <1>1 DEF Chainable, BillingOps
        <3>3. StepMakes(step, files, made)
            BY <1>1, <2>2, <3>1, <3>2, ProcessMakes
        <3> QED BY <3>3 DEF StepMakes
    <2> QED BY <2>1, <2>2
<1>2. CASE op \in BillingOps
    <2>1. outcome = Bills(op, opt)
        BY <1>2 DEF Process, BillingOps
    <2>2. PICK bill : outcome = Issues(bill)
        BY <1>2, <2>1 DEF Bills, BillingOps, Throws
    <2> DEFINE file == NewFile(<<Page(bill)>>)
    <2>3. made = <<file>> /\ file.kind = "pdf"
        BY <2>2, GivesOne, NewKind DEF Issues
    <2> HIDE DEF file
    <2> QED BY <1>0, <2>3
<1>3. CASE op = "extract-pages"
    <2> DEFINE file == files[1]
               picked == SelectSeq(opt.pages, LAMBDA p : p \in 1..Total(file))
    <2>1. outcome = ExtractPages(files, opt)
        BY <1>3 DEF Process, BillingOps
    <2>2. \/ outcome = Gives(<<Copied(file, picked)>>)
          \/ outcome = Gives([k \in DOMAIN picked |-> Copied(file, <<picked[k]>>)])
        BY <2>1 DEF ExtractPages, Throws
    <2> DEFINE each == [k \in DOMAIN picked |-> Copied(file, <<picked[k]>>)]
               copy == Copied(file, picked)
    <2>3. \A some : Copied(file, some).kind = "pdf"
        BY NewKind DEF Copied
    <2>4. copy.kind = "pdf" /\ \A k \in DOMAIN each : each[k].kind = "pdf"
        <3> HIDE DEF picked, file
        <3> QED BY <2>3
    <2>5. outcome = Gives(<<copy>>) \/ outcome = Gives(each)
        BY <2>2
    <2> HIDE DEF copy, each, outcome
    <2>6. made = <<copy>> \/ made = each
        BY <2>5, GivesIs DEF outcome
    <2> QED BY <1>0, <2>4, <2>6
<1>4. CASE op \in {"reorder-pdf", "delete-pages", "delete-pdf-pages"}
    <2> DEFINE file == files[1]
               picked == SelectSeq(opt.pageOrder, LAMBDA p : p \in 1..Total(file))
               copy == Copied(file, picked)
    <2>1. outcome = ReorderDeletePages(files, opt)
        BY <1>4 DEF Process, BillingOps
    <2>2. outcome = Gives(<<copy>>)
        BY <2>1 DEF ReorderDeletePages, Throws
    <2>3. made = <<copy>> /\ copy.kind = "pdf"
        <3>1. made = <<copy>>
            BY <2>2, GivesOne
        <3> QED BY <3>1, NewKind DEF Copied
    <2> HIDE DEF copy
    <2> QED BY <1>0, <2>3
<1>5. CASE op = "jpg-to-pdf"
    <2>1. outcome = ImageToPdf(files, opt)
        BY <1>5 DEF Process, BillingOps
    <2>2. PICK file : outcome = Gives(<<file>>) /\ file.kind = "pdf"
        BY <1>5, <2>1, Pictures DEF BillingOps
    <2>3. made = <<file>>
        BY <2>2, GivesOne
    <2> QED BY <1>0, <2>2, <2>3
<1>6. CASE op = "compare-pdf"
    <2> DEFINE a == files[1]
               b == files[2]
               most == IF Total(a) > Total(b) THEN Total(a) ELSE Total(b)
               Drawn(i) == IF opt.mode # "side-by-side" /\ i <= Total(b) /\ b.pages[i].sound
                           THEN <<b.pages[i], Page("difference")>>
                           ELSE <<Page("difference")>>
               file == NewFile(FlattenSeq([i \in 1..most |-> Drawn(i)]))
    <2>1. outcome = ComparePdf(files, opt)
        BY <1>6 DEF Process, BillingOps
    <2>2. outcome = Gives(<<file>>)
        BY <2>1 DEF ComparePdf, Throws
    <2>3. made = <<file>> /\ file.kind = "pdf"
        BY <2>2, GivesOne, NewKind
    <2> HIDE DEF file
    <2> QED BY <1>0, <2>3
<1>7. CASE op = "crop-pdf"
    <2> DEFINE file == files[1]
               Within(part) == IF ~part.dash THEN {part.from}
                               ELSE IF NoNumber \in {part.from, part.to} THEN {}
                               ELSE part.from..part.to \union part.to..part.from
               targets == IF opt.which # "text" THEN Targets(opt.which, opt.listed, Total(file))
                          ELSE {p \in 1..Total(file) :
                                   \E i \in DOMAIN opt.text : p \in Within(opt.text[i])}
               pages == [i \in 1..Total(file) |->
                            IF i \in targets
                            THEN [file.pages[i] EXCEPT !.cut = file.pages[i].cut + opt.cut]
                            ELSE file.pages[i]]
               cropped == [file EXCEPT !.pages = pages]
    <2>1. outcome = CropPdf(files, opt)
        BY <1>7 DEF Process, BillingOps
    <2>2. outcome = Gives(<<cropped>>) /\ Opens(file)
        BY <2>1 DEF CropPdf, Redrawn, Throws
    <2> HIDE DEF pages
    <2>3. cropped.kind = "pdf"
        <3>1. IsFile(file)
            BY <1>7, FilesAre DEF BillingOps
        <3> QED BY <2>2, <3>1, FileFields DEF Opens, Safe
    <2>4. made = <<cropped>>
        BY <2>2, GivesOne
    <2> HIDE DEF cropped
    <2> QED BY <1>0, <2>3, <2>4
<1>8. CASE op \notin Chainable \cup BillingOps
              \cup {"extract-pages", "reorder-pdf", "delete-pages", "delete-pdf-pages",
                    "jpg-to-pdf", "compare-pdf", "crop-pdf"}
    <2>1. outcome = Throws
        BY <1>8 DEF Process, Chainable, BillingOps
    <2> QED BY <2>1 DEF Throws
<1> QED BY <1>1, <1>2, <1>3, <1>4, <1>5, <1>6, <1>7, <1>8

-----------------------------------------------------------------------------
(* The bar of a chain *)

\* Where a step's report puts the bar, between the ends of the step's share.
Bar(low, high, sub) == (2 * (100 * low + sub * (high - low)) + 100) \div 200

LEMMA BarIs ==
    ASSUME NEW low \in Nat, NEW high \in Nat, low <= high, NEW sub \in 0..100
    PROVE  Bar(low, high, sub) \in low..high
<1> DEFINE width == high - low
           part == sub * width
           sum == 2 * (100 * low + part) + 100
           least == 200 * low + 100
           most == 200 * high + 100
<1>1. width \in Nat /\ high = low + width
    OBVIOUS
<1>2. part \in Nat /\ part <= 100 * width
    <2> HIDE DEF width
    <2>1. width * sub <= width * 100
        BY <1>1, TimesGrows
    <2>2. part \in Int /\ part = width * sub /\ 0 <= width * sub
        BY <1>1
    <2> QED BY <1>1, <2>1, <2>2
<1>3. least <= sum /\ sum <= most /\ least \in Int /\ sum \in Int /\ most \in Int
    <2> HIDE DEF width, part
    <2> QED BY <1>1, <1>2
<1>4. least \div 200 = low /\ most \div 200 = high
    BY DivisionOf
<1> HIDE DEF least, most, sum
<1>5. least \div 200 <= sum \div 200 /\ sum \div 200 <= most \div 200 /\ sum \div 200 \in Int
    BY <1>3, DivisionGrows, Division
<1> QED BY <1>4, <1>5 DEF Bar, sum

LEMMA BarGrows ==
    ASSUME NEW low \in Nat, NEW high \in Nat, low <= high, NEW a \in 0..100, NEW b \in 0..100, a <= b
    PROVE  Bar(low, high, a) <= Bar(low, high, b)
<1> DEFINE width == high - low
           first == a * width
           second == b * width
           x == 2 * (100 * low + first) + 100
           y == 2 * (100 * low + second) + 100
<1>1. width \in Nat
    OBVIOUS
<1>2. first <= second /\ first \in Int /\ second \in Int
    <2> HIDE DEF width
    <2>1. width * a <= width * b
        BY <1>1, TimesGrows
    <2>2. first = width * a /\ second = width * b /\ first \in Int /\ second \in Int
        BY <1>1
    <2> QED BY <2>1, <2>2
<1>3. x <= y /\ x \in Int /\ y \in Int
    <2> HIDE DEF first, second
    <2> QED BY <1>2
<1> HIDE DEF x, y
<1>4. x \div 200 <= y \div 200
    BY <1>3, DivisionGrows
<1> QED BY <1>4 DEF Bar, x, y

\* The shares of the steps reach from 0 to 100.
LEMMA ShareEnds ==
    ASSUME NEW n \in Nat \ {0}
    PROVE  Share(0, 0, n, 100) = 0 /\ Share(0, n, n, 100) = 100
<1> DEFINE all == 2 * n
           none == all * 0 + n
           full == all * 100 + n
<1>1. all \in Nat \ {0} /\ n \in 0..(all - 1)
    OBVIOUS
<1>2. 2 * (0 * n + 0 * 100) + n = none /\ 2 * (0 * n + n * 100) + n = full
    OBVIOUS
<1>3. Share(0, 0, n, 100) = none \div all /\ Share(0, n, n, 100) = full \div all
    BY <1>2 DEF Share
<1> HIDE DEF all
<1>4. none \div all = 0 /\ full \div all = 100
    BY <1>1, DivisionOf
<1> QED BY <1>3, <1>4

\* The share of a step that is not the last ends before 100, up to 199 steps.
LEMMA ShareEndsEarlier ==
    ASSUME NEW n \in Nat \ {0}, n < 200, NEW i \in 0..(n - 1)
    PROVE  Share(0, i, n, 100) < 100
<1> DEFINE all == 2 * n
           sum == 2 * (0 * n + i * 100) + n
           q == sum \div all
           aq == all * q
           ah == all * 100
<1>1. all \in Nat \ {0} /\ sum \in Int /\ ah = 200 * n /\ sum < 200 * n
    OBVIOUS
<1>2. Share(0, i, n, 100) = q
    BY DEF Share
<1> HIDE DEF all, sum
<1>3. q \in Int /\ aq <= sum /\ aq \in Int
    BY <1>1, Division
<1>4. 100 <= q => ah <= aq
    BY <1>1, <1>3, TimesGrows
<1> HIDE DEF q, aq, ah
<1> QED BY <1>1, <1>2, <1>3, <1>4

\* The end of the 199th of two hundred shares, 99.5, is rounded up (pipeline.ts:118):
\* why the lemmas below are about shorter chains.  It is a number, and says
\* nothing of whether a chain gets there.
LEMMA RoundedUp == Share(0, 199, 200, 100) = 100
<1> DEFINE a == 2 * (0 * 200 + 199 * 100) + 200
<1>1. a = 400 * 100 + 0 /\ 2 * 200 = 400
    OBVIOUS
<1>2. (400 * 100 + 0) \div 400 = 100
    BY DivisionOf
<1> QED BY <1>1, <1>2 DEF Share

-----------------------------------------------------------------------------
(* Every step keeps the invariant *)

\* What is known of any job.
GoodJob(j) ==
    /\ j.kind \in Kinds
    /\ IsSeq(j.steps) /\ Len(j.steps) \in Nat \ {0} /\ DOMAIN j.steps = 1..Len(j.steps)
    /\ \A i \in DOMAIN j.files : IsFile(j.files[i])
    /\ j.kind = "chain" => AreFiles(j.files)
    /\ j.kind # "chain" =>
          Len(j.steps) = 1 /\ (j.steps[1].op \in BillingOps \/ AreFiles(j.files))
    /\ \A k \in DOMAIN j.steps : j.steps[k].op = "split-pdf" => IsSeq(j.steps[k].opt.ranges)

LEMMA JobIsGood ==
    ASSUME NEW j, j \in Jobs \/ StudioJob(j)
    PROVE  GoodJob(j)
<1>1. CASE j \in Jobs
    <2>1. /\ j.kind \in Kinds \ {"studio"}
          /\ IsSeq(j.files) /\ \A i \in DOMAIN j.files : IsFile(j.files[i])
          /\ j.files = <<>> => j.kind # "chain" /\ j.steps[1].op \in BillingOps
          /\ IsSeq(j.steps) /\ j.steps # <<>>
          /\ j.kind # "chain" => Len(j.steps) = 1
          /\ \A k \in DOMAIN j.steps :
                j.steps[k].op = "split-pdf" => IsSeq(j.steps[k].opt.ranges)
        BY <1>1, PipelineAssumption
    <2>2. Len(j.steps) \in Nat \ {0} /\ DOMAIN j.steps = 1..Len(j.steps)
        <3> DEFINE A == {j.steps[i] : i \in 1..Len(j.steps)}
        <3>1. j.steps \in Seq(A) /\ Len(j.steps) \in Nat /\ DOMAIN j.steps = 1..Len(j.steps)
            BY <2>1, SeqIs
        <3> HIDE DEF A
        <3> QED BY <2>1, <3>1, EmptySeq
    <2>3. j.files # <<>> => AreFiles(j.files)
        BY <2>1 DEF AreFiles
    <2> QED BY <2>1, <2>2, <2>3 DEF GoodJob
<1>2. CASE StudioJob(j)
    <2>1. DOMAIN j.steps = 1..1
        BY <1>2, SeqIs DEF StudioJob
    <2> QED BY <1>2, <2>1 DEF StudioJob, GoodJob, Kinds, BillingOps
<1> QED BY <1>1, <1>2

\* The steps at some places, and one more of them.
Taken(steps, places) == [k \in DOMAIN places |-> steps[places[k]]]

LEMMA TakenIs ==
    ASSUME NEW steps, NEW A, NEW places \in Seq(A)
    PROVE  /\ IsSeq(Taken(steps, places)) /\ Len(Taken(steps, places)) = Len(places)
           /\ DOMAIN Taken(steps, places) = 1..Len(places) /\ Len(places) \in Nat
           /\ DOMAIN places = 1..Len(places)
           /\ Taken(steps, places) = <<>> <=> places = <<>>
<1> DEFINE taken == Taken(steps, places)
           n == Len(places)
<1>1. n \in Nat /\ DOMAIN places = 1..n
    BY LenProperties
<1>2. taken = [k \in 1..n |-> taken[k]]
    BY <1>1 DEF Taken
<1> HIDE DEF taken, n
<1>3. IsSeq(taken) /\ Len(taken) = n /\ DOMAIN taken = 1..n
    BY <1>1, <1>2, SeqOver
<1>4. (taken = <<>> <=> n = 0) /\ (places = <<>> <=> n = 0)
    <2>1. taken = <<>> => n = 0
        BY <1>3
    <2>2. n = 0 => taken = <<>>
        BY <1>2
    <2>3. places = <<>> <=> n = 0
        BY EmptySeq DEF n
    <2> QED BY <2>1, <2>2, <2>3
<1> QED BY <1>1, <1>3, <1>4 DEF taken, n

LEMMA TakenMore ==
    ASSUME NEW steps, NEW A, NEW places \in Seq(A), NEW p \in A
    PROVE  Taken(steps, Append(places, p)) = Append(Taken(steps, places), steps[p])
<1> DEFINE n == Len(places)
           more == Append(places, p)
           taken == Taken(steps, places)
<1>1. n \in Nat /\ DOMAIN places = 1..n /\ places = [k \in 1..n |-> places[k]]
    BY LenProperties
<1>2. taken = [k \in 1..n |-> steps[places[k]]] /\ taken = [k \in 1..n |-> taken[k]]
    BY <1>1 DEF Taken
<1> HIDE DEF n
<1>3. more = [k \in 1..(n + 1) |-> IF k = n + 1 THEN p ELSE places[k]]
    BY <1>1, AppendIs
<1>4. Append(taken, steps[p]) = [k \in 1..(n + 1) |-> IF k = n + 1 THEN steps[p] ELSE taken[k]]
    <2> HIDE DEF taken
    <2> QED BY <1>1, <1>2, AppendIs
<1> HIDE DEF more, taken
<1>5. Taken(steps, more) = [k \in 1..(n + 1) |-> steps[more[k]]]
    <2>1. DOMAIN more = 1..(n + 1)
        BY <1>3
    <2> QED BY <2>1 DEF Taken
<1>6. \A k \in 1..(n + 1) : steps[more[k]] = IF k = n + 1 THEN steps[p] ELSE taken[k]
    <2>1. SUFFICES ASSUME NEW k \in 1..(n + 1)
                   PROVE  steps[more[k]] = IF k = n + 1 THEN steps[p] ELSE taken[k]
        OBVIOUS
    <2>2. CASE k = n + 1
        BY <1>3, <2>2
    <2>3. CASE k # n + 1
        <3>1. k \in 1..n
            BY <1>1, <2>3
        <3> QED BY <1>2, <1>3, <2>3, <3>1
    <2> QED BY <2>2, <2>3
<1>7. [k \in 1..(n + 1) |-> steps[more[k]]] = [k \in 1..(n + 1) |-> IF k = n + 1 THEN steps[p] ELSE taken[k]]
    BY <1>6
<1> QED BY <1>4, <1>5, <1>7 DEF more, taken

LEMMA KeptIs == KeptSteps = Taken(job.steps, kept) /\ KeptSteps' = Taken(job'.steps, kept')
BY DEF KeptSteps, Taken

\* The shares of the steps, from the first to the end of the last.
LEMMA Bases ==
    ASSUME GoodJob(job)
    PROVE  LET n == Len(job.steps)
           IN /\ \A i \in 1..(n + 1) : StepBase(i) \in 0..100
              /\ \A i, j \in 1..(n + 1) : i <= j => StepBase(i) <= StepBase(j)
              /\ StepBase(1) = 0 /\ StepBase(n + 1) = 100
<1> DEFINE n == Len(job.steps)
<1>1. n \in Nat \ {0}
    BY DEF GoodJob
<1>2. \A i \in 1..(n + 1) : i - 1 \in 0..n /\ StepBase(i) = Share(0, i - 1, n, 100)
    BY <1>1 DEF StepBase
<1> HIDE DEF n
<1>3. ASSUME NEW i \in 0..n PROVE Share(0, i, n, 100) \in 0..100
    <2> DEFINE none == 0
               all == 100
    <2>1. none \in Nat /\ all \in Nat /\ none + all = 100
        OBVIOUS
    <2> HIDE DEF none, all
    <2>2. Share(none, i, n, all) \in none..(none + all)
        BY <1>1, <2>1, ShareIs
    <2> QED BY <2>1, <2>2 DEF none, all
<1>4. ASSUME NEW i \in 0..n, NEW j \in 0..n, i <= j
      PROVE  Share(0, i, n, 100) <= Share(0, j, n, 100)
    BY <1>1, <1>4, ShareGrows
<1>5. ASSUME NEW i \in 1..(n + 1), NEW j \in 1..(n + 1), i <= j
      PROVE  StepBase(i) <= StepBase(j)
    <2>1. i - 1 <= j - 1
        BY <1>1, <1>5
    <2> QED BY <1>2, <1>4, <2>1
<1>6. StepBase(1) = 0 /\ StepBase(n + 1) = 100
    <2>1. 1 - 1 = 0 /\ n + 1 - 1 = n /\ 1 \in 1..(n + 1) /\ n + 1 \in 1..(n + 1)
        BY <1>1
    <2>2. StepBase(1) = Share(0, 1 - 1, n, 100) /\ StepBase(n + 1) = Share(0, n + 1 - 1, n, 100)
        BY DEF StepBase, n
    <2> QED BY <1>1, <2>1, <2>2, ShareEnds
<1> QED BY <1>2, <1>3, <1>5, <1>6 DEF n

\* The running step reports rising percents.
LEMMA ReportsAre ==
    ASSUME PipelineInv, status = "running"
    PROVE  Rises(StepReports, 0, 100)
<1>1. GoodJob(job) /\ at \in 1..Len(job.steps) /\ InHand
    BY JobIsGood DEF PipelineInv
<1>2. CASE ~Known
    BY <1>2, NoneRises DEF StepReports
<1>3. CASE Known
    <2>1. Step.op \in BillingOps \/ AreFiles(buffers)
        <3>1. CASE job.kind = "chain"
            BY <1>1, <3>1 DEF InHand, Carried
        <3>2. CASE job.kind # "chain"
            <4>1. at = 1 /\ buffers = job.files
                BY <1>1, <3>2 DEF InHand, GoodJob
            <4> QED BY <1>1, <3>2, <4>1 DEF GoodJob, Step
        <3> QED BY <3>1, <3>2
    <2> QED BY <1>3, <2>1, ReportsRise DEF StepReports
<1> QED BY <1>2, <1>3

\* A report is shown within the share of its step.
LEMMA MappedIs ==
    ASSUME GoodJob(job), at \in 1..Len(job.steps), NEW sub \in 0..100
    PROVE  /\ Mapped(sub) \in 0..100
           /\ job.kind = "chain" => Mapped(sub) \in StepBase(at)..StepBase(at + 1)
<1> DEFINE n == Len(job.steps)
           low == StepBase(at)
           high == StepBase(at + 1)
<1>1. n \in Nat \ {0} /\ at \in 1..n /\ at \in 1..(n + 1) /\ at + 1 \in 1..(n + 1) /\ at <= at + 1
    BY DEF GoodJob
<1>2. low \in Nat /\ high \in Nat /\ low <= high /\ high <= 100
    <2>1. low \in 0..100 /\ high \in 0..100 /\ low <= high
        BY <1>1, Bases
    <2> HIDE DEF low, high
    <2> QED BY <2>1
<1>3. job.kind = "chain" => Mapped(sub) = Bar(low, high, sub)
    BY DEF Mapped, Bar
<1>4. job.kind # "chain" => Mapped(sub) = sub
    BY DEF Mapped
<1> HIDE DEF low, high, n
<1>5. Bar(low, high, sub) \in low..high
    BY <1>2, BarIs
<1>6. Bar(low, high, sub) \in 0..100
    <2> DEFINE bar == Bar(low, high, sub)
    <2>1. bar \in low..high
        BY <1>5
    <2> HIDE DEF bar
    <2>2. bar \in 0..100
        BY <1>2, <2>1
    <2> QED BY <2>2 DEF bar
<1> QED BY <1>3, <1>4, <1>5, <1>6 DEF low, high

LEMMA MappedGrows ==
    ASSUME GoodJob(job), at \in 1..Len(job.steps), NEW a \in 0..100, NEW b \in 0..100, a <= b
    PROVE  Mapped(a) <= Mapped(b)
<1> DEFINE n == Len(job.steps)
           low == StepBase(at)
           high == StepBase(at + 1)
<1>1. n \in Nat \ {0} /\ at \in 1..n /\ at \in 1..(n + 1) /\ at + 1 \in 1..(n + 1) /\ at <= at + 1
    BY DEF GoodJob
<1>2. low \in Nat /\ high \in Nat /\ low <= high /\ high <= 100
    <2>1. low \in 0..100 /\ high \in 0..100 /\ low <= high
        BY <1>1, Bases
    <2> HIDE DEF low, high
    <2> QED BY <2>1
<1>3. job.kind = "chain" => Mapped(a) = Bar(low, high, a) /\ Mapped(b) = Bar(low, high, b)
    BY DEF Mapped, Bar
<1>4. job.kind # "chain" => Mapped(a) = a /\ Mapped(b) = b
    BY DEF Mapped
<1> HIDE DEF low, high, n
<1>5. Bar(low, high, a) <= Bar(low, high, b)
    BY <1>2, BarGrows
<1> QED BY <1>3, <1>4, <1>5

\* Where the bar stands while a step runs, and where its next report puts it.
LEMMA BarNow ==
    ASSUME PipelineInv, status = "running"
    PROVE  /\ progress \in 0..100 /\ reported \in Nat
           /\ job.kind = "chain" => progress \in StepBase(at)..StepBase(at + 1)
           /\ reported < Len(StepReports) =>
                 /\ StepReports[reported + 1] \in 0..100
                 /\ progress <= Mapped(StepReports[reported + 1])
<1> DEFINE reports == StepReports
           n == Len(job.steps)
<1>1. /\ GoodJob(job) /\ at \in 1..n /\ progress \in 0..100
      /\ n \in Nat \ {0} /\ at \in 1..(n + 1) /\ at + 1 \in 1..(n + 1) /\ at <= at + 1
    <2>1. GoodJob(job) /\ at \in 1..n /\ progress \in 0..100
        BY JobIsGood DEF PipelineInv, OnTheBar, Percents
    <2> QED BY <2>1 DEF GoodJob
<1>2. reports \in Seq(0..100) /\ Len(reports) \in Nat
    <2>1. Rises(reports, 0, 100)
        BY ReportsAre
    <2> QED BY <2>1, LenProperties DEF Rises
<1>3. \A i, j \in 1..Len(reports) : i <= j => reports[i] <= reports[j]
    BY ReportsAre DEF Rises
<1>4. \A i \in 1..Len(reports) : reports[i] \in 0..100
    BY <1>2, ElementOfSeq
<1>5. /\ reported = 0 \/ reported \in 1..Len(reports)
      /\ progress = IF reported = 0 THEN StepBase(at) ELSE Mapped(reports[reported])
    BY DEF PipelineInv, OnTheBar
<1>6. StepBase(at) \in 0..100 /\ StepBase(at + 1) \in 0..100 /\ StepBase(at) <= StepBase(at + 1)
    BY <1>1, Bases
<1> HIDE DEF reports
<1>7. ASSUME NEW sub \in 0..100
      PROVE  /\ Mapped(sub) \in 0..100
             /\ job.kind = "chain" => Mapped(sub) \in StepBase(at)..StepBase(at + 1)
    BY <1>1, MappedIs
<1>8. job.kind = "chain" => progress \in StepBase(at)..StepBase(at + 1)
    <2>1. CASE reported = 0
        BY <1>5, <1>6, <2>1
    <2>2. CASE reported \in 1..Len(reports)
        <3>1. progress = Mapped(reports[reported]) /\ reports[reported] \in 0..100
            BY <1>2, <1>4, <1>5, <2>2
        <3> QED BY <1>7, <3>1
    <2> QED BY <1>5, <2>1, <2>2
<1>9. ASSUME reported < Len(reports)
      PROVE  reports[reported + 1] \in 0..100 /\ progress <= Mapped(reports[reported + 1])
    <2> DEFINE next == reported + 1
    <2>1. next \in 1..Len(reports) /\ reported \in Nat
        BY <1>2, <1>5, <1>9
    <2>2. reports[next] \in 0..100
        BY <1>4, <2>1
    <2>3. CASE reported = 0
        <3>1. progress = StepBase(at)
            BY <1>5, <2>3
        <3> DEFINE after == Mapped(reports[next])
        <3>0. after \in 0..100 /\ (job.kind = "chain" => after \in StepBase(at)..StepBase(at + 1))
            BY <1>7, <2>2
        <3> HIDE DEF after
        <3>2. CASE job.kind = "chain"
            BY <1>6, <2>2, <3>0, <3>1, <3>2 DEF after
        <3>3. CASE job.kind # "chain"
            <4>1. at = 1
                BY <1>1, <3>3 DEF GoodJob
            <4>2. progress = 0
                BY <1>1, <3>1, <4>1, Bases
            <4> QED BY <2>2, <3>0, <4>2 DEF after
        <3> QED BY <2>2, <3>2, <3>3
    <2>4. CASE reported # 0
        <3>1. reported \in 1..Len(reports) /\ reported <= next
            BY <1>2, <1>5, <2>4
        <3>2. reports[reported] \in 0..100 /\ reports[reported] <= reports[next]
            BY <1>3, <1>4, <2>1, <3>1
        <3>3. Mapped(reports[reported]) <= Mapped(reports[next])
            BY <1>1, <2>2, <3>2, MappedGrows
        <3> QED BY <1>5, <2>2, <2>4, <3>3
    <2> QED BY <2>3, <2>4
<1>10. reported \in Nat
    BY <1>2, <1>5
<1> QED BY <1>1, <1>8, <1>9, <1>10 DEF reports

\* What the running step may give.
LEMMA OutcomeMakes ==
    ASSUME PipelineInv, status = "running", NEW outcome \in Outcomes, outcome.done
    PROVE  IF job.kind = "chain"
           THEN outcome.files # <<>> => StepMakes(Step, buffers, outcome.files)
           ELSE \A i \in DOMAIN outcome.files : outcome.files[i].kind = "pdf"
<1> DEFINE new == outcome.files
<1>1. /\ GoodJob(job) /\ at \in DOMAIN job.steps /\ InHand
      /\ Step.op = "split-pdf" => IsSeq(Step.opt.ranges)
    <2>1. GoodJob(job) /\ at \in DOMAIN job.steps /\ InHand
        BY JobIsGood DEF PipelineInv, GoodJob
    <2> QED BY <2>1 DEF GoodJob, Step
<1>2. CASE job.kind = "chain"
    <2>1. AreFiles(buffers)
        BY <1>1, <1>2 DEF InHand, Carried
    <2>2. CASE outcome = Outcome
        <3>1. Step.op \in Chainable /\ outcome = Process(Step.op, buffers, Step.opt)
            BY <1>2, <2>2 DEF Outcome, Known, Throws
        <3> HIDE DEF Step
        <3>2. new # <<>> => StepMakes(Step, buffers, new)
            BY <1>1, <2>1, <3>1, ProcessMakes
        <3> QED BY <1>2, <3>2
    <2>3. CASE outcome # Outcome
        <3>1. PICK most : /\ Step.op = "flatten-pdf"
                          /\ outcome = FlattenUpTo(buffers, Step.opt, most)
            BY <2>3 DEF Outcomes
        <3> HIDE DEF Step
        <3>2. StepMakes(Step, buffers, new)
            BY <2>1, <3>1, FlattenMakes
        <3> QED BY <1>2, <3>2
    <2> QED BY <2>2, <2>3
<1>3. CASE job.kind # "chain"
    <2>1. buffers = job.files /\ at = 1 /\ (Step.op \in BillingOps \/ AreFiles(buffers))
        <3>1. buffers = job.files /\ at = 1
            BY <1>1, <1>3 DEF InHand, GoodJob
        <3> QED BY <1>1, <1>3, <3>1 DEF GoodJob, Step
    <2>2. CASE outcome = Outcome
        <3>1. outcome = Process(Step.op, buffers, Step.opt)
            BY <1>3, <2>2 DEF Outcome, Known
        <3> HIDE DEF Step
        <3>2. \A i \in DOMAIN new : new[i].kind = "pdf"
            BY <1>1, <2>1, <3>1, ProcessKinds
        <3> QED BY <1>3, <3>2
    <2>3. CASE outcome # Outcome
        <3>1. PICK most : /\ Step.op = "flatten-pdf"
                          /\ outcome = FlattenUpTo(buffers, Step.opt, most)
            BY <2>3 DEF Outcomes
        <3>2. AreFiles(buffers)
            BY <2>1, <3>1 DEF BillingOps
        <3> HIDE DEF Step
        <3>3. StepMakes(Step, buffers, new)
            BY <3>1, <3>2, FlattenMakes
        <3> QED BY <1>3, <3>3 DEF StepMakes
    <2> QED BY <2>2, <2>3
<1> QED BY <1>2, <1>3

\* What follows a step keeps the invariant, when the files it leaves do.
LEMMA AfterKeeps ==
    ASSUME PipelineInv, status = "running", NEW files, After(files),
           kept' \in Seq(1..Len(job.steps)),
           IF job.kind = "chain"
           THEN Carried(job.files, KeptSteps', files) /\ (kept' = <<>> => files = job.files)
           ELSE \A i \in DOMAIN files : files[i].kind = "pdf"
    PROVE  PipelineInv'
<1> DEFINE n == Len(job.steps)
<1>1. /\ GoodJob(job) /\ at \in 1..n /\ progress \in Percents
      /\ UNCHANGED <<job, local, cancelled>> /\ reported' = 0
      /\ n \in Nat \ {0} /\ (job.kind # "chain" => n = 1)
    <2>1. GoodJob(job) /\ at \in 1..n /\ progress \in Percents
        BY JobIsGood DEF PipelineInv, OnTheBar
    <2> QED BY <2>1 DEF GoodJob, After
<1>2. SUFFICES /\ status' \in {"running", "done", "failed"}
               /\ at' \in 1..n
               /\ InHand'
               /\ progress' \in Percents /\ (status' = "running" => progress' = StepBase(at)')
    BY <1>1 DEF PipelineInv, Fresh, OnTheBar
<1>3. at < n => job.kind = "chain" /\ at + 1 \in 1..n /\ at + 1 \in 1..(n + 1)
    <2>1. at \in 1..n /\ n \in Nat /\ (job.kind # "chain" => n = 1)
        BY <1>1
    <2> HIDE DEF n
    <2> QED BY <2>1
<1>4. CASE at < n /\ cancelled
    <2>1. status' = "failed" /\ UNCHANGED <<at, progress>> /\ buffers' = files
        BY <1>4 DEF After
    <2>2. job.kind = "chain"
        BY <1>4, <1>3
    <2> QED BY <1>1, <2>1, <2>2 DEF InHand
<1>5. CASE at < n /\ ~cancelled
    <2>1. /\ at' = at + 1 /\ progress' = StepBase(at + 1) /\ status' = "running"
          /\ buffers' = files
        BY <1>5 DEF After
    <2>2. job.kind = "chain" /\ at + 1 \in 1..n /\ at + 1 \in 1..(n + 1)
        BY <1>5, <1>3
    <2>3. progress' \in Percents
        BY <1>1, <2>1, <2>2, Bases DEF Percents
    <2>4. progress' = StepBase(at)'
        BY <1>1, <2>1 DEF StepBase
    <2>5. InHand'
        BY <1>1, <2>1, <2>2 DEF InHand
    <2> QED BY <2>1, <2>2, <2>3, <2>4, <2>5
<1>6. CASE ~(at < n) /\ job.kind # "chain"
    <2>1. status' = "done" /\ buffers' = files /\ UNCHANGED <<at, progress>>
        BY <1>6 DEF After
    <2> QED BY <1>1, <1>6, <2>1 DEF InHand
<1>7. CASE ~(at < n) /\ job.kind = "chain" /\ Deliverable(files[1])
    <2>1. status' = "done" /\ buffers' = <<files[1]>> /\ progress' = 100 /\ UNCHANGED at
        BY <1>7 DEF After
    <2>2. Carried(job.files, KeptSteps', buffers')
        BY <1>7, <2>1, CarriedFirst
    <2> QED BY <1>1, <1>7, <2>1, <2>2 DEF InHand, Percents
<1>8. CASE ~(at < n) /\ job.kind = "chain" /\ ~Deliverable(files[1])
    <2>1. status' = "failed" /\ buffers' = files /\ UNCHANGED <<at, progress>>
        BY <1>8 DEF After
    <2> QED BY <1>1, <1>8, <2>1 DEF InHand
<1> QED BY <1>4, <1>5, <1>6, <1>7, <1>8

LEMMA SucceedsKeeps ==
    ASSUME PipelineInv, StepSucceeds
    PROVE  PipelineInv'
<1>1. /\ GoodJob(job) /\ at \in 1..Len(job.steps) /\ at \in DOMAIN job.steps /\ InHand
      /\ kept \in Seq(1..Len(job.steps)) /\ status = "running"
    <2>1. GoodJob(job) /\ at \in 1..Len(job.steps)
        BY JobIsGood DEF PipelineInv
    <2> QED BY <2>1 DEF PipelineInv, GoodJob, StepSucceeds
<1>2. PICK outcome \in Outcomes :
          /\ outcome.done /\ (job.kind = "chain" => outcome.files # <<>>)
          /\ kept' = Append(kept, at) /\ After(outcome.files)
    BY DEF StepSucceeds
<1> DEFINE new == outcome.files
<1>3. kept' \in Seq(1..Len(job.steps)) /\ kept' # <<>>
    BY <1>1, <1>2, AppendProperties
<1>4. IF job.kind = "chain" THEN StepMakes(Step, buffers, new)
      ELSE \A i \in DOMAIN new : new[i].kind = "pdf"
    BY <1>1, <1>2, OutcomeMakes
<1>5. ASSUME job.kind = "chain" PROVE Carried(job.files, KeptSteps', new)
    <2>1. /\ Carried(job.files, KeptSteps, buffers) /\ (kept = <<>> => buffers = job.files)
          /\ AreFiles(job.files)
        BY <1>1, <1>5 DEF InHand, GoodJob
    <2>2. IsSeq(KeptSteps) /\ (KeptSteps = <<>> => kept = <<>>)
        BY <1>1, KeptIs, TakenIs
    <2>3. KeptSteps' = Append(KeptSteps, Step)
        <3>1. job' = job
            BY <1>2 DEF After
        <3>2. Taken(job.steps, Append(kept, at)) = Append(Taken(job.steps, kept), job.steps[at])
            BY <1>1, TakenMore
        <3> QED BY <1>2, <3>1, <3>2, KeptIs DEF Step
    <2> DEFINE steps == KeptSteps
               more == Append(steps, Step)
    <2>4. Carried(job.files, more, new)
        <3> HIDE DEF steps, new
        <3>1. StepMakes(Step, buffers, new)
            BY <1>4, <1>5
        <3> QED BY <2>1, <2>2, <3>1, CarriedOn DEF steps
    <2> QED BY <2>3, <2>4
<1> HIDE DEF new
<1>6. After(new)
    BY <1>2 DEF new
<1> QED BY <1>1, <1>3, <1>4, <1>5, <1>6, AfterKeeps

LEMMA ThrowsKeeps ==
    ASSUME PipelineInv, StepThrows
    PROVE  PipelineInv'
<1>1. GoodJob(job) /\ InHand /\ status = "running" /\ kept' = kept
      /\ kept \in Seq(1..Len(job.steps))
    BY JobIsGood DEF PipelineInv, StepThrows
<1>2. CASE job.kind = "chain" /\ job.lenient
    <2>1. After(buffers)
        BY <1>2 DEF StepThrows
    <2>2. job' = job
        BY <2>1 DEF After
    <2>3. Carried(job.files, KeptSteps', buffers) /\ (kept' = <<>> => buffers = job.files)
        <3>1. KeptSteps' = KeptSteps
            BY <1>1, <2>2 DEF KeptSteps
        <3> QED BY <1>1, <1>2, <3>1 DEF InHand
    <2> QED BY <1>1, <1>2, <2>1, <2>3, AfterKeeps
<1>3. CASE ~(job.kind = "chain" /\ job.lenient)
    <2>1. status' = "failed"
          /\ UNCHANGED <<job, local, at, reported, buffers, progress, cancelled>>
        BY <1>3 DEF StepThrows
    <2>2. InHand'
        BY <1>1, <2>1 DEF InHand, KeptSteps
    <2> QED BY <1>1, <2>1, <2>2 DEF PipelineInv, Fresh, OnTheBar
<1> QED BY <1>2, <1>3

LEMMA ReportKeeps ==
    ASSUME PipelineInv, Report
    PROVE  PipelineInv'
<1> DEFINE next == reported + 1
           sub == StepReports[next]
<1>1. /\ status = "running" /\ reported < Len(StepReports) /\ reported' = next
      /\ progress' = Mapped(sub)
      /\ UNCHANGED <<job, local, status, at, buffers, cancelled, kept>>
    BY DEF Report
<1>2. reported \in Nat /\ sub \in 0..100
    BY <1>1, BarNow
<1>3. Len(StepReports) \in Nat
    BY <1>1, ReportsAre, LenProperties DEF Rises
<1>4. GoodJob(job) /\ at \in 1..Len(job.steps)
    BY JobIsGood DEF PipelineInv
<1>5. next \in 1..Len(StepReports) /\ next # 0
    BY <1>1, <1>2, <1>3
<1>6. progress' \in Percents
    <2> HIDE DEF sub
    <2> QED BY <1>1, <1>2, <1>4, MappedIs DEF Percents
<1>7. StepReports' = StepReports
    BY <1>1 DEF StepReports, Known, Step
<1>8. progress' = Mapped(sub)
    BY <1>1
<1>9. OnTheBar'
    <2>1. reported' \in 1..Len(StepReports')
        BY <1>1, <1>5, <1>7
    <2>2. (Mapped(StepReports[reported]))' = Mapped(sub)
        BY <1>1, <1>7 DEF Mapped, StepBase
    <2> HIDE DEF sub, next
    <2> QED BY <1>1, <1>5, <1>6, <1>8, <2>1, <2>2 DEF OnTheBar
<1>10. InHand'
    BY <1>1 DEF PipelineInv, InHand, KeptSteps
<1> QED BY <1>1, <1>9, <1>10 DEF PipelineInv, Fresh

LEMMA OthersKeep ==
    ASSUME PipelineInv, RunLocally \/ Start \/ TimeOut \/ Posted \/ UNCHANGED vars
    PROVE  PipelineInv'
<1>1. UNCHANGED <<job, at, reported, buffers, progress, kept>>
    BY DEF RunLocally, Start, TimeOut, Posted, vars
<1>2. (local' = {} \/ \E outcome : local' = {outcome}) /\ cancelled' \in BOOLEAN
    BY DEF RunLocally, Start, TimeOut, Posted, vars, PipelineInv
<1>3. \/ status' = status
      \/ status = "queued" /\ status' = "running"
      \/ status = "posting" /\ status' = "queued"
    BY DEF RunLocally, Start, TimeOut, Posted, vars
<1>4. GoodJob(job)
    BY JobIsGood DEF PipelineInv
<1>5. InHand'
    <2>1. KeptSteps' = KeptSteps
        BY <1>1 DEF KeptSteps
    <2> QED BY <1>1, <1>3, <2>1 DEF PipelineInv, InHand
<1>6. OnTheBar'
    <2>1. CASE status = "queued" /\ status' = "running"
        <3>1. at = 1 /\ reported = 0 /\ progress = 0
            BY <2>1 DEF PipelineInv, Fresh
        <3>2. StepBase(at)' = StepBase(1)
            BY <1>1, <3>1 DEF StepBase
        <3>3. StepBase(1) = 0
            BY <1>4, Bases
        <3> QED BY <1>1, <3>1, <3>2, <3>3 DEF OnTheBar, Percents
    <2>2. CASE status' = status
        <3>1. /\ StepReports' = StepReports /\ StepBase(at)' = StepBase(at)
              /\ Mapped(StepReports[reported])' = Mapped(StepReports[reported])
            BY <1>1 DEF StepReports, Known, Step, StepBase, Mapped
        <3> QED BY <1>1, <2>2, <3>1 DEF PipelineInv, OnTheBar
    <2>3. CASE status = "posting" /\ status' = "queued"
        BY <1>1, <2>3 DEF PipelineInv, OnTheBar
    <2> QED BY <1>3, <2>1, <2>2, <2>3
<1>7. Fresh'
    BY <1>1, <1>3 DEF PipelineInv, Fresh
<1>8. status' \in {"draft", "posting"} => status = status'
    BY <1>3
<1>9. status' \in {"draft", "posting", "queued", "running", "done", "failed"}
    BY <1>3 DEF PipelineInv
<1> QED BY <1>1, <1>2, <1>5, <1>6, <1>7, <1>8, <1>9 DEF PipelineInv

\* A studio's job stays one whatever is typed and sent.
LEMMA StudioStays ==
    ASSUME NEW j, StudioJob(j), NEW x, NEW new,
           new = [j EXCEPT !.form = x] \/ new = [j EXCEPT !.steps[1].opt = x]
    PROVE  StudioJob(new)
<1>1. /\ DOMAIN j = {"kind", "files", "lenient", "steps", "form"}
      /\ j.kind = "studio" /\ j.files = <<>> /\ IsSeq(j.steps) /\ Len(j.steps) = 1
      /\ DOMAIN j.steps[1] = {"op", "opt"} /\ j.steps[1].op \in BillingOps
    BY DEF StudioJob
<1>2. CASE new = [j EXCEPT !.form = x]
    <2>1. /\ DOMAIN new = DOMAIN j /\ new.kind = j.kind /\ new.files = j.files
          /\ new.steps = j.steps
        BY <1>1, <1>2
    <2> QED BY <1>1, <2>1 DEF StudioJob
<1>3. CASE new = [j EXCEPT !.steps[1].opt = x]
    <2> DEFINE step == [j.steps[1] EXCEPT !.opt = x]
               steps == [j.steps EXCEPT ![1] = step]
    <2>1. DOMAIN step = {"op", "opt"} /\ step.op = j.steps[1].op
        BY <1>1
    <2>2. /\ DOMAIN new = DOMAIN j /\ new.kind = j.kind /\ new.files = j.files
          /\ new.steps = steps
        BY <1>1, <1>3
    <2> HIDE DEF step
    <2>3. DOMAIN j.steps = 1..1
        BY <1>1, SeqIs
    <2>4. steps = [i \in 1..1 |-> steps[i]] /\ steps[1] = step
        BY <2>3
    <2> HIDE DEF steps
    <2>5. IsSeq(steps) /\ Len(steps) = 1
        BY <2>4, SeqOver
    <2> QED BY <1>1, <2>1, <2>2, <2>4, <2>5 DEF StudioJob
<1> QED BY <1>2, <1>3

LEMMA DraftKeeps ==
    ASSUME StudioJob(job'), status' \in {"draft", "posting"}, at' = 1, reported' = 0,
           progress' = 0, kept' = <<>>, buffers' = <<>>, cancelled' \in BOOLEAN,
           local' = {} \/ \E outcome : local' = {outcome}
    PROVE  PipelineInv'
<1>1. job'.kind = "studio" /\ job'.files = <<>> /\ Len(job'.steps) = 1
    BY DEF StudioJob
<1>2. InHand'
    BY <1>1 DEF InHand
<1>3. OnTheBar' /\ Fresh'
    BY DEF OnTheBar, Fresh, Percents
<1>4. kept' \in Seq(1..Len(job'.steps))
    BY EmptySeq
<1>5. at' \in 1..Len(job'.steps)
    BY <1>1
<1>6. job' \in Jobs \/ StudioJob(job')
    OBVIOUS
<1> QED BY <1>1, <1>2, <1>3, <1>4, <1>5, <1>6 DEF PipelineInv

LEMMA StudioKeeps ==
    ASSUME PipelineInv,
           \/ AddItem \/ DeleteItem \/ ChangeItem \/ ChangeInputs
           \/ Generate \/ Refused \/ Reset
    PROVE  PipelineInv'
<1>0. ASSUME job.kind = "studio" PROVE StudioJob(job)
    BY <1>0, PipelineAssumption DEF PipelineInv
<1>1. CASE AddItem \/ DeleteItem \/ ChangeItem \/ ChangeInputs
    <2>1. PICK rows, nextId, inputs : Edited(rows, nextId, inputs)
        <3>1. CASE AddItem
            BY <3>1 DEF AddItem
        <3>2. CASE DeleteItem
            BY <3>2 DEF DeleteItem
        <3>3. CASE ChangeItem
            BY <3>3 DEF ChangeItem
        <3>4. CASE ChangeInputs
            BY <3>4 DEF ChangeInputs
        <3> QED BY <1>1, <3>1, <3>2, <3>3, <3>4
    <2>2. /\ job.kind = "studio" /\ status = "draft" /\ \E form : job' = [job EXCEPT !.form = form]
          /\ UNCHANGED <<local, status, at, reported, buffers, progress, cancelled, kept>>
        BY <2>1 DEF Edited, Drafting
    <2>3. StudioJob(job')
        BY <1>0, <2>2, StudioStays
    <2>4. buffers = <<>> /\ at = 1 /\ reported = 0 /\ progress = 0 /\ kept = <<>>
        BY <1>0, <2>2 DEF PipelineInv, Fresh, InHand, StudioJob
    <2> QED BY <2>2, <2>3, <2>4, DraftKeeps DEF PipelineInv
<1>2. CASE Generate
    <2>1. /\ job.kind = "studio" /\ status = "draft" /\ status' = "posting"
          /\ \E opt : job' = [job EXCEPT !.steps[1].opt = opt]
          /\ \E outcome : local' = {outcome}
          /\ UNCHANGED <<at, reported, buffers, progress, cancelled, kept>>
        BY <1>2 DEF Generate, Drafting
    <2>2. StudioJob(job')
        BY <1>0, <2>1, StudioStays
    <2>3. buffers = <<>> /\ at = 1 /\ reported = 0 /\ progress = 0 /\ kept = <<>>
        BY <1>0, <2>1 DEF PipelineInv, Fresh, InHand, StudioJob
    <2> QED BY <2>1, <2>2, <2>3, DraftKeeps DEF PipelineInv
<1>3. CASE Refused \/ Reset
    <2>1. job.kind = "studio"
        BY <1>3 DEF Refused, Reset, PipelineInv
    <2>2. Shown
        BY <1>3 DEF Refused, Reset
    <2>3. StudioJob(job')
        BY <1>0, <2>1, <2>2, StudioStays DEF Shown
    <2> QED BY <2>2, <2>3, DraftKeeps DEF Shown
<1> QED BY <1>1, <1>2, <1>3

-----------------------------------------------------------------------------
(* The invariant holds *)

LEMMA JobStarts ==
    ASSUME Init
    PROVE  PipelineInv
<1>1. /\ job \in Jobs /\ local = {} /\ status = "queued" /\ at = 1 /\ reported = 0
      /\ buffers = job.files /\ progress = 0 /\ cancelled = FALSE /\ kept = <<>>
    BY DEF Init
<1>2. GoodJob(job)
    BY <1>1, JobIsGood
<1>3. 1 \in 1..Len(job.steps)
    BY <1>2 DEF GoodJob
<1>4. KeptSteps = <<>>
    BY <1>1 DEF KeptSteps
<1>5. InHand
    <2>1. CASE job.kind = "chain"
        <3>1. AreFiles(job.files)
            BY <1>2, <2>1 DEF GoodJob
        <3>2. Carried(job.files, KeptSteps, job.files)
            BY <1>4, <3>1, CarriedFrom
        <3> QED BY <1>1, <2>1, <3>2 DEF InHand
    <2>2. CASE job.kind # "chain"
        BY <1>1, <2>2 DEF InHand
    <2> QED BY <2>1, <2>2
<1>6. OnTheBar /\ Fresh
    BY <1>1 DEF OnTheBar, Fresh, Percents
<1>7. kept \in Seq(1..Len(job.steps))
    BY <1>1, EmptySeq
<1>8. at \in 1..Len(job.steps)
    BY <1>1, <1>3
<1>9. cancelled \in BOOLEAN
    BY <1>1
<1> QED BY <1>1, <1>5, <1>6, <1>7, <1>8, <1>9 DEF PipelineInv

LEMMA StudioStarts ==
    ASSUME StudioInit
    PROVE  PipelineInv
<1>1. PICK op \in Open : job = Opened(op)
    BY DEF StudioInit
<1>2. /\ local = {} /\ status = "draft" /\ at = 1 /\ reported = 0
      /\ buffers = <<>> /\ progress = 0 /\ cancelled = FALSE /\ kept = <<>>
    BY DEF StudioInit
<1>3. StudioJob(job)
    <2> DEFINE step == [op |-> op, opt |-> NoOptions]
               steps == <<step>>
    <2>1. /\ DOMAIN job = {"kind", "files", "lenient", "steps", "form"}
          /\ job.kind = "studio" /\ job.files = <<>> /\ job.steps = steps
        BY <1>1 DEF Opened
    <2>2. DOMAIN step = {"op", "opt"} /\ step.op \in BillingOps
        BY StudioAssumption
    <2>3. steps = [i \in 1..1 |-> steps[i]] /\ steps[1] = step
        OBVIOUS
    <2> HIDE DEF step, steps
    <2>4. IsSeq(steps) /\ Len(steps) = 1
        BY <2>3, SeqOver
    <2> QED BY <2>1, <2>2, <2>3, <2>4 DEF StudioJob
<1>4. job.kind = "studio" /\ job.files = <<>> /\ Len(job.steps) = 1
    BY <1>3 DEF StudioJob
<1>5. InHand
    BY <1>2, <1>4 DEF InHand
<1>6. OnTheBar /\ Fresh
    BY <1>2 DEF OnTheBar, Fresh, Percents
<1>7. kept \in Seq(1..Len(job.steps))
    BY <1>2, EmptySeq
<1>8. at \in 1..Len(job.steps)
    BY <1>2, <1>4
<1>9. cancelled \in BOOLEAN
    BY <1>2
<1> QED BY <1>2, <1>3, <1>4, <1>5, <1>6, <1>7, <1>8, <1>9 DEF PipelineInv

LEMMA StepKeeps ==
    ASSUME PipelineInv, [StudioNext]_vars
    PROVE  PipelineInv'
<1>1. CASE RunLocally \/ Start \/ TimeOut \/ Posted \/ UNCHANGED vars
    BY <1>1, OthersKeep
<1>2. CASE Report
    BY <1>2, ReportKeeps
<1>3. CASE StepSucceeds
    BY <1>3, SucceedsKeeps
<1>4. CASE StepThrows
    BY <1>4, ThrowsKeeps
<1>5. CASE AddItem \/ DeleteItem \/ ChangeItem \/ ChangeInputs \/ Generate \/ Refused \/ Reset
    BY <1>5, StudioKeeps
<1> QED BY <1>1, <1>2, <1>3, <1>4, <1>5 DEF StudioNext, Next

LEMMA InvariantHolds == StudioSpec => []PipelineInv
<1>1. Init \/ StudioInit => PipelineInv
    BY JobStarts, StudioStarts
<1>2. PipelineInv /\ [StudioNext]_vars => PipelineInv'
    BY StepKeeps
<1> QED BY <1>1, <1>2, PTL DEF StudioSpec

\* The job is in one of its stages, works on files of a known kind and shows a
\* percentage, for any jobs, files and forms (pipeline.ts:97-166).
THEOREM PipelineTypeIsSound == StudioSpec => []PipelineTypeOK
<1>1. ASSUME PipelineInv PROVE PipelineTypeOK
    <2>1. GoodJob(job) /\ at \in 1..Len(job.steps) /\ InHand /\ OnTheBar
          /\ kept \in Seq(1..Len(job.steps))
        BY <1>1, JobIsGood DEF PipelineInv
    <2>2. job.kind \in Kinds /\ at \in DOMAIN job.steps
        BY <2>1 DEF GoodJob
    <2>3. \A i \in DOMAIN buffers : buffers[i].kind \in {"pdf", "png", "jpeg", "webp"}
        <3>1. SUFFICES ASSUME NEW i \in DOMAIN buffers
                       PROVE  buffers[i].kind \in {"pdf", "png", "jpeg", "webp"}
            OBVIOUS
        <3>2. CASE job.kind = "chain"
            <4>1. AreFiles(buffers)
                BY <2>1, <3>2 DEF InHand, Carried
            <4> QED BY <4>1 DEF AreFiles, IsFile
        <3>3. CASE job.kind # "chain" /\ status = "done"
            BY <2>1, <3>3 DEF InHand
        <3>4. CASE job.kind # "chain" /\ status # "done"
            <4>1. buffers = job.files
                BY <2>1, <3>4 DEF InHand
            <4> QED BY <2>1, <4>1 DEF GoodJob, IsFile
        <3> QED BY <3>2, <3>3, <3>4
    <2>4. \A k \in DOMAIN kept : kept[k] \in DOMAIN job.steps
        <3> DEFINE n == Len(job.steps)
        <3>1. DOMAIN job.steps = 1..n /\ kept \in Seq(1..n)
            BY <2>1 DEF GoodJob
        <3> HIDE DEF n
        <3>2. DOMAIN kept = 1..Len(kept)
            BY <3>1, LenProperties
        <3> QED BY <3>1, <3>2, ElementOfSeq
    <2>5. Cardinality(local) <= 1
        <3>1. CASE local = {}
            <4>1. Cardinality(local) = 0
                BY <3>1, FS_EmptySet
            <4> QED BY <4>1
        <3>2. CASE \E outcome : local = {outcome}
            <4>1. Cardinality(local) = 1
                BY <3>2, FS_Singleton
            <4> QED BY <4>1
        <3> QED BY <1>1, <3>1, <3>2 DEF PipelineInv
    <2>6. progress \in Percents
        BY <2>1 DEF OnTheBar
    <2>7. cancelled \in BOOLEAN
        BY <1>1 DEF PipelineInv
    <2>8. status \in {"draft", "posting", "queued", "running", "done", "failed"}
        BY <1>1 DEF PipelineInv
    <2> QED BY <2>2, <2>3, <2>4, <2>5, <2>6, <2>7, <2>8 DEF PipelineTypeOK
<1> QED BY <1>1, InvariantHolds, PTL

\* A chain that is done delivers, whatever its files, its steps, the steps that
\* failed under it and the moment the timer ran out, every page it started from
\* in its order, turned and marked by the steps it kept, under the lock the
\* last of them left (pipeline.ts:110-156 with the processors it calls).
THEOREM ChainsDeliver == StudioSpec => []ChainDelivers
<1>1. ASSUME PipelineInv, status = "done", job.kind = "chain"
      PROVE  PagesArrive /\ LockStays
    <2> DEFINE files == job.files
               steps == KeptSteps
               first == files[1]
    <2>1. Carried(files, steps, buffers) /\ kept \in Seq(1..Len(job.steps))
        BY <1>1 DEF PipelineInv, InHand
    <2>2. /\ DOMAIN steps = DOMAIN kept /\ Len(steps) = Len(kept) /\ (steps = <<>> <=> kept = <<>>)
        BY <2>1, KeptIs, TakenIs
    <2>3. PagesArrive
        <3>1. SUFFICES ASSUME KeptOps \intersect {"split-pdf", "repair-pdf"} = {}
                       PROVE  [i \in DOMAIN buffers[1].pages |-> Face(buffers[1].pages[i])]
                                 = Faces(Source, steps)
            BY DEF PagesArrive
        <3>2. Source = SourceOf(files, steps)
            BY <2>2 DEF Source, SourceOf
        <3>3. \A k \in DOMAIN steps : steps[k].op \notin {"split-pdf", "repair-pdf"}
            BY <2>2, <3>1 DEF KeptOps
        <3> HIDE DEF steps, files
        <3> QED BY <2>1, <3>2, <3>3 DEF Carried
    <2>4. LockStays
        <3>1. /\ (buffers[1].password # NoPassword) <=> Locked(first, steps, Len(kept))
              /\ \A k \in DOMAIN kept : Locked(first, steps, k - 1) =>
                    steps[k].op \in {"unlock-pdf", "repair-pdf", "strip-metadata-pdf",
                                     "flatten-pdf", "redact-pdf"}
            <4> HIDE DEF steps, files
            <4> QED BY <2>1, <2>2 DEF Carried
        <3> QED BY <3>1 DEF LockStays
    <2> QED BY <2>3, <2>4
<1>2. ASSUME PipelineInv PROVE ChainDelivers
    <2>1. CASE status = "done" /\ job.kind = "chain"
        BY <1>1, <1>2, <2>1 DEF ChainDelivers
    <2>2. CASE ~(status = "done" /\ job.kind = "chain")
        BY <2>2 DEF ChainDelivers, PagesArrive, LockStays
    <2> QED BY <2>1, <2>2
<1> QED BY <1>2, InvariantHolds, PTL

-----------------------------------------------------------------------------
(* The bar *)

\* A chain of fewer than two hundred steps is short of 100 % before its last
\* share is over.
LEMMA ShortOfFull ==
    ASSUME GoodJob(job), Len(job.steps) < 200, NEW i \in 1..Len(job.steps)
    PROVE  StepBase(i) < 100
<1> DEFINE n == Len(job.steps)
           before == i - 1
<1>1. n \in Nat \ {0} /\ n < 200 /\ before \in 0..(n - 1)
    BY DEF GoodJob
<1>2. StepBase(i) = Share(0, before, n, 100)
    BY DEF StepBase
<1> HIDE DEF n, before
<1> QED BY <1>1, <1>2, ShareEndsEarlier

\* Where the bar of a chain stands that waits or runs.
LEMMA ChainBar ==
    ASSUME PipelineInv, job.kind = "chain", status \in {"queued", "running"},
           Len(job.steps) < 200
    PROVE  /\ progress \in 0..100 /\ progress <= StepBase(at + 1)
           /\ progress = 100 => at = Len(job.steps)
<1> DEFINE n == Len(job.steps)
           end == StepBase(at + 1)
<1>1. /\ GoodJob(job) /\ at \in 1..n /\ n \in Nat \ {0} /\ at \in 1..(n + 1) /\ at + 1 \in 1..(n + 1)
    <2>1. GoodJob(job) /\ at \in 1..n
        BY JobIsGood DEF PipelineInv
    <2> QED BY <2>1 DEF GoodJob
<1>2. end \in 0..100
    BY <1>1, Bases
<1>3. progress \in 0..100 /\ progress <= end
    <2>1. CASE status = "queued"
        <3>1. progress = 0
            BY <2>1 DEF PipelineInv, Fresh
        <3> HIDE DEF end
        <3> QED BY <1>2, <3>1
    <2>2. CASE status = "running"
        <3>1. progress \in 0..100 /\ progress \in StepBase(at)..end
            BY <2>2, BarNow
        <3>2. StepBase(at) \in 0..100
            BY <1>1, Bases
        <3> HIDE DEF end
        <3> QED BY <1>2, <3>1, <3>2
    <2> QED BY <2>1, <2>2
<1>4. progress = 100 => at = n
    <2>1. SUFFICES ASSUME at # n PROVE progress < 100
        BY <1>3
    <2>2. at + 1 \in 1..n
        BY <1>1, <2>1
    <2>3. end < 100
        BY <1>1, <2>2, ShortOfFull
    <2> HIDE DEF end
    <2> QED BY <1>2, <1>3, <2>3
<1> QED BY <1>3, <1>4

\* What a step may do to the bar.
HonestStep ==
    /\ status' # "draft" => progress' >= progress
    /\ job.kind = "chain" =>
         /\ progress' <= StepBase(at' + 1)
         /\ progress' = 100 => at' = Len(job.steps)
         /\ status' = "done" => progress' = 100

LEMMA BarStays ==
    ASSUME PipelineInv, UNCHANGED progress,
           job.kind = "chain" =>
              /\ UNCHANGED at /\ status \in {"queued", "running"}
              /\ Len(job.steps) < 200 /\ status' # "done"
    PROVE  HonestStep
<1>1. progress \in 0..100
    BY DEF PipelineInv, OnTheBar, Percents
<1>2. CASE job.kind = "chain"
    <2>1. progress <= StepBase(at + 1) /\ (progress = 100 => at = Len(job.steps))
        BY <1>2, ChainBar
    <2> QED BY <1>1, <1>2, <2>1 DEF HonestStep
<1>3. CASE job.kind # "chain"
    BY <1>1, <1>3 DEF HonestStep
<1> QED BY <1>2, <1>3

LEMMA BarReports ==
    ASSUME PipelineInv, Report, Len(job.steps) < 200
    PROVE  HonestStep
<1> DEFINE after == StepReports[reported + 1]
           n == Len(job.steps)
           end == StepBase(at + 1)
<1>1. /\ status = "running" /\ reported < Len(StepReports)
      /\ progress' = Mapped(after) /\ UNCHANGED <<at, status>>
    BY DEF Report
<1>2. progress \in 0..100 /\ after \in 0..100 /\ progress <= Mapped(after)
    BY <1>1, BarNow
<1>3. GoodJob(job) /\ at \in 1..n /\ n \in Nat \ {0} /\ at \in 1..(n + 1) /\ at + 1 \in 1..(n + 1)
    <2>1. GoodJob(job) /\ at \in 1..n
        BY JobIsGood DEF PipelineInv
    <2> QED BY <2>1 DEF GoodJob
<1>4. StepBase(at) \in 0..100 /\ end \in 0..100
    BY <1>3, Bases
<1>5. Mapped(after) \in 0..100 /\ (job.kind = "chain" => Mapped(after) \in StepBase(at)..end)
    <2> HIDE DEF after
    <2> QED BY <1>2, <1>3, MappedIs
<1>6. at # n => end < 100
    <2>1. SUFFICES ASSUME at # n PROVE end < 100
        OBVIOUS
    <2>2. at + 1 \in 1..n
        BY <1>3, <2>1
    <2> QED BY <1>3, <2>2, ShortOfFull
<1> HIDE DEF after
<1>7. /\ progress' >= progress
      /\ job.kind = "chain" => progress' <= end /\ (progress' = 100 => at = n)
    <2> DEFINE new == Mapped(after)
    <2>1. /\ new \in 0..100 /\ progress <= new
          /\ job.kind = "chain" => new \in StepBase(at)..end
        BY <1>2, <1>5
    <2> HIDE DEF new, end, n
    <2>2. job.kind = "chain" => new <= end /\ (new = 100 => at = n)
        BY <1>4, <1>6, <2>1
    <2> QED BY <1>1, <1>2, <2>1, <2>2 DEF new
<1> QED BY <1>1, <1>7 DEF HonestStep

LEMMA BarMovesOn ==
    ASSUME PipelineInv, status = "running", NEW files, After(files),
           job.kind = "chain" => Len(job.steps) < 200
    PROVE  HonestStep
<1> DEFINE n == Len(job.steps)
           end == StepBase(at + 1)
<1>1. /\ GoodJob(job) /\ at \in 1..n /\ n \in Nat \ {0} /\ at + 1 \in 1..(n + 1)
      /\ job.kind # "chain" => n = 1
    <2>1. GoodJob(job) /\ at \in 1..n
        BY JobIsGood DEF PipelineInv
    <2> QED BY <2>1 DEF GoodJob
<1>2. progress \in 0..100
    BY DEF PipelineInv, OnTheBar, Percents
<1>3. CASE job.kind # "chain"
    <2>1. UNCHANGED progress
        <3>1. ~(at < Len(job.steps))
            <4>1. n = 1 /\ at \in 1..n
                BY <1>1, <1>3
            <4> HIDE DEF n
            <4>2. ~(at < n)
                BY <4>1
            <4> QED BY <4>2 DEF n
        <3> QED BY <1>3, <3>1 DEF After
    <2> QED BY <1>3, <2>1, BarStays
<1>4. CASE job.kind = "chain" /\ UNCHANGED <<at, progress>> /\ status' # "done"
    BY <1>4, BarStays
<1>5. CASE job.kind = "chain" /\ at < n /\ ~cancelled
    <2>1. at' = at + 1 /\ progress' = end /\ status' = "running"
        BY <1>5 DEF After
    <2>2. progress <= end
        BY <1>5, ChainBar
    <2> DEFINE next == at + 1
    <2>3. next \in 1..n /\ next \in 1..(n + 1) /\ next + 1 \in 1..(n + 1) /\ next <= next + 1
        BY <1>1, <1>5
    <2>4. end \in 0..100 /\ end <= StepBase(next + 1) /\ end < 100
        <3>1. StepBase(next) \in 0..100 /\ StepBase(next) <= StepBase(next + 1)
            <4> HIDE DEF next
            <4> QED BY <1>1, <2>3, Bases
        <3>2. StepBase(next) < 100
            <4> HIDE DEF next
            <4> QED BY <1>1, <1>5, <2>3, ShortOfFull
        <3> QED BY <3>1, <3>2
    <2> HIDE DEF end
    <2> QED BY <1>2, <1>5, <2>1, <2>2, <2>4 DEF HonestStep
<1>6. CASE job.kind = "chain" /\ ~(at < n) /\ status' = "done"
    <2>1. UNCHANGED at /\ progress' = 100
        BY <1>6 DEF After
    <2>2. at = n
        BY <1>1, <1>6
    <2>3. end = 100
        BY <1>1, <2>2, Bases
    <2> QED BY <1>2, <1>6, <2>1, <2>2, <2>3 DEF HonestStep
<1> QED BY <1>3, <1>4, <1>5, <1>6 DEF After

\* The bar of a job never goes back, no step of a chain runs into the share of
\* a later one, and a chain shows 100 % only in its last step and always when
\* it is done, for every chain of fewer than two hundred steps, whatever they
\* are, fail at and report (pipeline.ts:117-131, 158).
THEOREM BarsAreHonest ==
    ASSUME \A j \in Jobs : j.kind = "chain" => Len(j.steps) < 200
    PROVE  StudioSpec => ProgressIsHonest
<1>1. ASSUME PipelineInv, [StudioNext]_vars PROVE [HonestStep]_vars
    <2>1. job.kind = "chain" => Len(job.steps) < 200
        BY <1>1 DEF PipelineInv, StudioJob
    <2>2. status \in {"draft", "posting"} => job.kind # "chain"
        BY <1>1 DEF PipelineInv
    <2>3. CASE UNCHANGED vars
        BY <2>3
    <2>4. CASE RunLocally \/ Start \/ TimeOut \/ Posted
        <3>1. UNCHANGED <<at, progress>>
            BY <2>4 DEF RunLocally, Start, TimeOut, Posted
        <3>2. job.kind = "chain" => status \in {"queued", "running"} /\ status' # "done"
            BY <2>2, <2>4 DEF RunLocally, Start, TimeOut, Posted
        <3> QED BY <1>1, <2>1, <3>1, <3>2, BarStays
    <2>5. CASE Report
        <3>1. CASE job.kind = "chain"
            BY <1>1, <2>1, <2>5, <3>1, BarReports
        <3>2. CASE job.kind # "chain"
            <4>1. status = "running" /\ progress' = Mapped(StepReports[reported + 1])
                  /\ reported < Len(StepReports)
                BY <2>5 DEF Report
            <4>2. GoodJob(job)
                BY <1>1, JobIsGood DEF PipelineInv
            <4>3. Len(job.steps) < 200
                BY SMTT(30), <3>2, <4>2 DEF GoodJob
            <4> QED BY <1>1, <2>5, <4>3, BarReports
        <3> QED BY <3>1, <3>2
    <2>6. CASE StepSucceeds
        <3>1. PICK outcome \in Outcomes : After(outcome.files)
            BY <2>6 DEF StepSucceeds
        <3> QED BY <1>1, <2>1, <2>6, <3>1, BarMovesOn DEF StepSucceeds
    <2>7. CASE StepThrows
        <3>1. CASE job.kind = "chain" /\ job.lenient
            BY <1>1, <2>1, <2>7, <3>1, BarMovesOn DEF StepThrows
        <3>2. CASE ~(job.kind = "chain" /\ job.lenient)
            BY <1>1, <2>1, <2>7, <3>2, BarStays DEF StepThrows
        <3> QED BY <3>1, <3>2
    <2>8. CASE AddItem \/ DeleteItem \/ ChangeItem \/ ChangeInputs \/ Generate
        <3>1. job.kind = "studio" /\ UNCHANGED progress
            BY <2>8 DEF AddItem, DeleteItem, ChangeItem, ChangeInputs, Generate, Drafting, Edited
        <3> QED BY <1>1, <3>1, BarStays
    <2>9. CASE Refused \/ Reset
        <3>1. job.kind = "studio" /\ status' = "draft"
            BY <1>1, <2>9 DEF Refused, Reset, Shown, PipelineInv
        <3> QED BY <3>1 DEF HonestStep
    <2> QED BY <1>1, <2>3, <2>4, <2>5, <2>6, <2>7, <2>8, <2>9 DEF StudioNext, Next
<1>2. ASSUME [][HonestStep]_vars PROVE ProgressIsHonest
    BY <1>2 DEF HonestStep, ProgressIsHonest
<1> QED BY <1>1, <1>2, InvariantHolds, PTL DEF StudioSpec


-----------------------------------------------------------------------------
(* Sums over finite sets *)

\* What holds of a set as soon as it holds of it without any one element holds
\* of every finite set.
LEMMA OneByOne ==
    ASSUME NEW S, IsFiniteSet(S), NEW P,
           \A s \in SUBSET S : (\A x \in s : s \ {x} \in P) => s \in P
    PROVE  \A s \in SUBSET S : s \in P
<1> DEFINE Bad == (SUBSET S) \ P
<1>1. SUFFICES ASSUME Bad # {} PROVE FALSE
    OBVIOUS
<1>2. Bad \subseteq FiniteSubsetsOf(S)
    BY FS_Subset DEF FiniteSubsetsOf
<1>3. PICK s \in Bad : \A t \in Bad : ~ (<<t, s>> \in StrictSubsetOrdering(S))
    <2> HIDE DEF Bad
    <2> QED BY <1>1, <1>2, FS_StrictSubsetOrderingWellFounded, WFMin
<1>4. ASSUME NEW x \in s PROVE s \ {x} \in P
    <2> DEFINE t == s \ {x}
    <2>1. t \in SUBSET S /\ s \in SUBSET S /\ t \subseteq s /\ t # s
        OBVIOUS
    <2> HIDE DEF t
    <2>2. <<t, s>> \in StrictSubsetOrdering(S)
        BY <2>1 DEF StrictSubsetOrdering
    <2>3. t \notin Bad
        <3> HIDE DEF Bad
        <3> QED BY <1>3, <2>2
    <2> QED BY <2>1, <2>3 DEF t
<1> QED BY <1>3, <1>4

\* The numbers w[x] added up over the subsets of a set, one element at a time.
AnyOf(s) == CHOOSE x \in s : TRUE
Adds(g, w, S) ==
    g = [s \in SUBSET S |-> IF s = {} THEN 0 ELSE w[AnyOf(s)] + g[s \ {AnyOf(s)}]]
AddsSmall(g, w, S, n) ==
    \A s \in SUBSET S : Cardinality(s) <= n =>
        g[s] = IF s = {} THEN 0 ELSE w[AnyOf(s)] + g[s \ {AnyOf(s)}]
SumOf(w, S) == (CHOOSE g : Adds(g, w, S))[S]

LEMMA AnyOfIs ==
    ASSUME NEW s, s # {}
    PROVE  AnyOf(s) \in s
BY DEF AnyOf

LEMMA SmallerSets ==
    ASSUME NEW S, IsFiniteSet(S), NEW s \in SUBSET S
    PROVE  /\ IsFiniteSet(s) /\ Cardinality(s) \in Nat /\ Cardinality(s) <= Cardinality(S)
           /\ (Cardinality(s) = 0 <=> s = {})
           /\ \A x \in s : s \ {x} \in SUBSET S /\ Cardinality(s \ {x}) = Cardinality(s) - 1
BY FS_Subset, FS_CardinalityType, FS_EmptySet, FS_RemoveElement

LEMMA AddsExist ==
    ASSUME NEW S, IsFiniteSet(S), NEW w
    PROVE  \E g : Adds(g, w, S)
<1> DEFINE all == Cardinality(S)
           Bad == {m \in 0..all : ~ \E g : AddsSmall(g, w, S, m)}
<1>0. all \in Nat
    BY FS_CardinalityType
<1>1. Bad = {}
    <2>1. SUFFICES ASSUME Bad # {} PROVE FALSE
        OBVIOUS
    <2>2. PICK m \in Bad : \A k \in Bad : m <= k
        <3>1. Bad \in SUBSET Nat
            BY <1>0
        <3> HIDE DEF Bad
        <3> QED BY <2>1, <3>1, LeastNumber
    <2>3. m \in 0..all /\ ~ \E g : AddsSmall(g, w, S, m)
        OBVIOUS
    <2>4. m # 0
        <3> DEFINE g == [s \in SUBSET S |-> 0]
        <3>1. ASSUME NEW s \in SUBSET S, Cardinality(s) <= 0 PROVE s = {}
            BY <3>1, SmallerSets
        <3>2. AddsSmall(g, w, S, 0)
            BY <3>1 DEF AddsSmall
        <3> QED BY <2>3, <3>2
    <2> DEFINE l == m - 1
    <2>5. l \in Nat /\ l \in 0..all /\ l < m /\ m = l + 1
        BY <1>0, <2>3, <2>4
    <2>6. PICK g : AddsSmall(g, w, S, l)
        <3>1. l \notin Bad
            <4> HIDE DEF Bad, l
            <4> QED BY <2>2, <2>3, <2>5
        <3> QED BY <2>5, <3>1
    <2> DEFINE h == [s \in SUBSET S |->
                        IF Cardinality(s) <= l THEN g[s]
                        ELSE w[AnyOf(s)] + g[s \ {AnyOf(s)}]]
    <2>7. AddsSmall(h, w, S, m)
        <3>1. SUFFICES ASSUME NEW s \in SUBSET S, Cardinality(s) <= m
                       PROVE  h[s] = IF s = {} THEN 0 ELSE w[AnyOf(s)] + h[s \ {AnyOf(s)}]
            BY DEF AddsSmall
        <3>2. CASE s = {}
            <4>1. Cardinality(s) <= l
                BY <2>5, <3>2, FS_EmptySet
            <4>2. g[s] = 0
                BY <2>6, <3>2, <4>1 DEF AddsSmall
            <4> QED BY <3>2, <4>1, <4>2
        <3>3. CASE s # {}
            <4> DEFINE t == s \ {AnyOf(s)}
            <4>1. t \in SUBSET S /\ Cardinality(t) <= l /\ Cardinality(s) \in Nat
                <5>1. AnyOf(s) \in s
                    BY <3>3, AnyOfIs
                <5>2. t \in SUBSET S /\ Cardinality(t) = Cardinality(s) - 1 /\ Cardinality(s) \in Nat
                    BY <5>1, SmallerSets
                <5> HIDE DEF t, l
                <5> QED BY <2>5, <3>1, <5>2
            <4>2. h[t] = g[t]
                BY <4>1
            <4>3. h[s] = w[AnyOf(s)] + g[t]
                <5>1. CASE Cardinality(s) <= l
                    <6>1. g[s] = w[AnyOf(s)] + g[t]
                        BY <2>6, <3>3, <5>1 DEF AddsSmall
                    <6> QED BY <5>1, <6>1
                <5>2. CASE ~(Cardinality(s) <= l)
                    BY <5>2
                <5> QED BY <5>1, <5>2
            <4> HIDE DEF h, t
            <4> QED BY <3>3, <4>2, <4>3 DEF t
        <3> QED BY <3>2, <3>3
    <2> QED BY <2>3, <2>7
<1>2. PICK g : AddsSmall(g, w, S, all)
    BY <1>0, <1>1
<1> DEFINE f == [s \in SUBSET S |-> g[s]]
<1>3. \A s \in SUBSET S :
          g[s] = IF s = {} THEN 0 ELSE w[AnyOf(s)] + g[s \ {AnyOf(s)}]
    BY <1>2, SmallerSets DEF AddsSmall
<1>4. \A s \in SUBSET S : f[s \ {AnyOf(s)}] = g[s \ {AnyOf(s)}]
    OBVIOUS
<1>5. Adds(f, w, S)
    BY <1>3, <1>4 DEF Adds
<1> QED BY <1>5

\* Two such sums agree wherever their numbers do.
LEMMA AddsAgree ==
    ASSUME NEW g, NEW w, NEW S, Adds(g, w, S), NEW h, NEW v, NEW T, Adds(h, v, T),
           NEW U \in SUBSET S, U \in SUBSET T, IsFiniteSet(U), \A x \in U : w[x] = v[x]
    PROVE  g[U] = h[U]
<1> DEFINE P == {s \in SUBSET U : g[s] = h[s]}
<1>1. ASSUME NEW s \in SUBSET U, \A x \in s : s \ {x} \in P PROVE s \in P
    <2>1. /\ g[s] = IF s = {} THEN 0 ELSE w[AnyOf(s)] + g[s \ {AnyOf(s)}]
          /\ h[s] = IF s = {} THEN 0 ELSE v[AnyOf(s)] + h[s \ {AnyOf(s)}]
        BY DEF Adds
    <2>2. CASE s = {}
        BY <2>1, <2>2
    <2>3. CASE s # {}
        <3>1. AnyOf(s) \in s
            BY <2>3, AnyOfIs
        <3>2. g[s \ {AnyOf(s)}] = h[s \ {AnyOf(s)}] /\ w[AnyOf(s)] = v[AnyOf(s)]
            BY <1>1, <3>1
        <3> QED BY <2>1, <2>3, <3>2
    <2> QED BY <2>2, <2>3
<1> HIDE DEF P
<1>2. U \in P
    BY <1>1, OneByOne
<1> QED BY <1>2 DEF P

LEMMA SumIs ==
    ASSUME NEW S, IsFiniteSet(S), NEW w, NEW g, Adds(g, w, S), NEW s \in SUBSET S
    PROVE  SumOf(w, s) = g[s]
<1> DEFINE h == CHOOSE f : Adds(f, w, s)
<1>1. IsFiniteSet(s)
    BY FS_Subset
<1>2. Adds(h, w, s)
    BY <1>1, AddsExist
<1>3. SumOf(w, s) = h[s]
    BY DEF SumOf
<1> HIDE DEF h
<1>4. s \in SUBSET s
    OBVIOUS
<1>5. h[s] = g[s]
    BY <1>1, <1>2, <1>4, AddsAgree
<1> QED BY <1>3, <1>5


\* A sum of integers is one, and any element of the set may be taken out of it.
LEMMA SumTakes ==
    ASSUME NEW S, IsFiniteSet(S), NEW w, \A x \in S : w[x] \in Int
    PROVE  /\ SumOf(w, S) \in Int /\ SumOf(w, {}) = 0
           /\ \A x \in S : SumOf(w, S) = w[x] + SumOf(w, S \ {x})
<1>1. PICK g : Adds(g, w, S)
    BY AddsExist
<1>2. \A s \in SUBSET S : g[s] = IF s = {} THEN 0 ELSE w[AnyOf(s)] + g[s \ {AnyOf(s)}]
    BY <1>1 DEF Adds
<1>3. \A s \in SUBSET S : g[s] \in Int
    <2> DEFINE P == {s \in SUBSET S : g[s] \in Int}
    <2>1. ASSUME NEW s \in SUBSET S, \A x \in s : s \ {x} \in P PROVE s \in P
        <3>1. CASE s = {}
            <4>1. g[s] = 0
                BY <1>2, <3>1
            <4> QED BY <4>1
        <3>2. CASE s # {}
            <4> DEFINE a == AnyOf(s)
            <4>1. a \in s /\ g[s] = w[a] + g[s \ {a}]
                BY <1>2, <3>2, AnyOfIs
            <4> HIDE DEF a
            <4>2. g[s \ {a}] \in Int /\ w[a] \in Int
                BY <2>1, <4>1
            <4> QED BY <4>1, <4>2
        <3> QED BY <3>1, <3>2
    <2> HIDE DEF P
    <2>2. \A s \in SUBSET S : s \in P
        BY <2>1, OneByOne
    <2> QED BY <2>2 DEF P
<1>4. \A s \in SUBSET S : \A x \in s : g[s] = w[x] + g[s \ {x}]
    <2> DEFINE P == {s \in SUBSET S : \A x \in s : g[s] = w[x] + g[s \ {x}]}
    <2>1. ASSUME NEW s \in SUBSET S, \A x \in s : s \ {x} \in P PROVE s \in P
        <3>1. SUFFICES ASSUME NEW x \in s PROVE g[s] = w[x] + g[s \ {x}]
            OBVIOUS
        <3> DEFINE a == AnyOf(s)
                   t == s \ {a, x}
        <3>2. a \in s /\ g[s] = w[a] + g[s \ {a}]
            BY <1>2, AnyOfIs
        <3> HIDE DEF a
        <3>3. CASE x = a
            BY <3>2, <3>3
        <3>4. CASE x # a
            <4>1. s \ {a} \in P /\ s \ {x} \in P /\ x \in s \ {a} /\ a \in s \ {x}
                BY <2>1, <3>2, <3>4
            <4>2. (s \ {a}) \ {x} = t /\ (s \ {x}) \ {a} = t /\ t \in SUBSET S
                OBVIOUS
            <4> HIDE DEF t
            <4>3. g[s \ {a}] = w[x] + g[t] /\ g[s \ {x}] = w[a] + g[t]
                BY <4>1, <4>2
            <4>4. g[t] \in Int /\ w[x] \in Int /\ w[a] \in Int
                BY <1>3, <3>2, <4>2
            <4> QED BY <3>2, <4>3, <4>4
        <3> QED BY <3>3, <3>4
    <2> HIDE DEF P
    <2>2. \A s \in SUBSET S : s \in P
        BY <2>1, OneByOne
    <2> QED BY <2>2 DEF P
<1>5. \A s \in SUBSET S : SumOf(w, s) = g[s]
    BY <1>1, SumIs
<1>6. S \in SUBSET S /\ {} \in SUBSET S /\ \A x \in S : S \ {x} \in SUBSET S
    OBVIOUS
<1>7. g[{}] = 0
    BY <1>2, <1>6
<1> QED BY <1>3, <1>4, <1>5, <1>6, <1>7

\* Sums agree where their numbers do.
LEMMA SumsAgree ==
    ASSUME NEW S, IsFiniteSet(S), NEW w, NEW v, \A x \in S : w[x] = v[x]
    PROVE  SumOf(w, S) = SumOf(v, S)
<1>1. PICK g : Adds(g, w, S)
    BY AddsExist
<1>2. PICK h : Adds(h, v, S)
    BY AddsExist
<1>3. S \in SUBSET S
    OBVIOUS
<1>4. g[S] = h[S]
    BY <1>1, <1>2, <1>3, AddsAgree
<1> QED BY <1>1, <1>2, <1>3, <1>4, SumIs

\* A sum over some elements and a sum over the others.
LEMMA SumSplits ==
    ASSUME NEW S, IsFiniteSet(S), NEW w, \A x \in S : w[x] \in Int,
           NEW A \in SUBSET S
    PROVE  SumOf(w, S) = SumOf(w, A) + SumOf(w, S \ A)
<1> DEFINE B == S \ A
           P == {s \in SUBSET S : SumOf(w, s) = SumOf(w, s \cap A) + SumOf(w, s \cap B)}
<1>1. ASSUME NEW s \in SUBSET S PROVE /\ IsFiniteSet(s) /\ \A x \in s : w[x] \in Int
    BY FS_Subset
<1>0. A \in SUBSET S /\ B \in SUBSET S /\ A \cap B = {} /\ A \cup B = S
    OBVIOUS
<1> HIDE DEF B
<1>2. ASSUME NEW s \in SUBSET S, \A x \in s : s \ {x} \in P PROVE s \in P
    <2> SUFFICES SumOf(w, s) = SumOf(w, s \cap A) + SumOf(w, s \cap B)
        OBVIOUS
    <2>1. CASE s = {}
        <3>1. SumOf(w, {}) = 0 /\ s \cap A = {} /\ s \cap B = {}
            BY <2>1, SumTakes
        <3> QED BY <2>1, <3>1
    <2>2. CASE s # {}
        <3>1. PICK x \in s : TRUE
            BY <2>2
        <3> DEFINE t == s \ {x}
        <3>2. SumOf(w, s) = w[x] + SumOf(w, t) /\ w[x] \in Int
            BY <1>1, SumTakes
        <3>3. SumOf(w, t) = SumOf(w, t \cap A) + SumOf(w, t \cap B)
            BY <1>2
        <3>4. SumOf(w, t \cap A) \in Int /\ SumOf(w, t \cap B) \in Int
            <4> DEFINE a == t \cap A
                       b == t \cap B
            <4>1. a \in SUBSET S /\ b \in SUBSET S
                OBVIOUS
            <4> HIDE DEF a, b
            <4> QED BY <1>1, <4>1, SumTakes DEF a, b
        <3>5. CASE x \in A
            <4> DEFINE a == s \cap A
                       less == t \cap A
                       o == t \cap B
            <4>1. a \in SUBSET S /\ x \in a /\ a \ {x} = less /\ s \cap B = o
                BY <1>0, <3>5
            <4>2. SumOf(w, t) = SumOf(w, less) + SumOf(w, o)
                BY <3>3, <3>4
            <4>3. SumOf(w, less) \in Int /\ SumOf(w, o) \in Int
                BY <3>4
            <4> HIDE DEF a, less, o, t
            <4>4. IsFiniteSet(a) /\ \A y \in a : w[y] \in Int
                BY <1>1, <4>1
            <4>5. SumOf(w, a) = w[x] + SumOf(w, less)
                BY <4>1, <4>4, SumTakes
            <4>6. SumOf(w, s \cap B) = SumOf(w, o)
                BY <4>1
            <4>7. SumOf(w, s) = SumOf(w, a) + SumOf(w, s \cap B)
                BY <3>2, <4>2, <4>3, <4>5, <4>6
            <4> QED BY <4>7 DEF a
        <3>6. CASE x \in B
            <4> DEFINE b == s \cap B
                       less == t \cap B
                       o == t \cap A
            <4>1. b \in SUBSET S /\ x \in b /\ b \ {x} = less /\ s \cap A = o
                BY <1>0, <3>6
            <4>2. SumOf(w, t) = SumOf(w, o) + SumOf(w, less)
                BY <3>3
            <4>3. SumOf(w, less) \in Int /\ SumOf(w, o) \in Int
                BY <3>4
            <4> HIDE DEF b, less, o, t
            <4>4. IsFiniteSet(b) /\ \A y \in b : w[y] \in Int
                BY <1>1, <4>1
            <4>5. SumOf(w, b) = w[x] + SumOf(w, less)
                BY <4>1, <4>4, SumTakes
            <4>6. SumOf(w, s \cap A) = SumOf(w, o)
                BY <4>1
            <4>7. SumOf(w, s) = SumOf(w, s \cap A) + SumOf(w, b)
                BY <3>2, <4>2, <4>3, <4>5, <4>6
            <4> QED BY <4>7 DEF b
        <3> QED BY <1>0, <3>5, <3>6
    <2> QED BY <2>1, <2>2
<1> HIDE DEF P
<1>3. S \in P
    BY <1>2, OneByOne
<1>4. S \cap A = A /\ S \cap B = B
    BY <1>0
<1> QED BY <1>3, <1>4 DEF P, B


\* The classes of some things, and what is added up by classes.
Classes(K, class, S) == K = {class[x] : x \in S}
ByClass(u, w, class, S, K) == \A k \in K : u[k] = SumOf(w, {x \in S : class[x] = k})

\* There are at most as many classes as there are things in them.
LEMMA ClassesAreFew ==
    ASSUME NEW S, IsFiniteSet(S), NEW class, NEW K, Classes(K, class, S)
    PROVE  IsFiniteSet(K) /\ Cardinality(K) <= Cardinality(S)
<1> DEFINE f == [x \in S |-> class[x]]
<1>1. f \in Surjection(S, K)
    BY DEF Surjection, Classes
<1> HIDE DEF f
<1> QED BY <1>1, FS_Surjection

\* What is added up by classes and then over the classes is the sum of all.
LEMMA SumByClass ==
    ASSUME NEW S, IsFiniteSet(S), NEW w, \A x \in S : w[x] \in Int,
           NEW class, NEW u, NEW K, Classes(K, class, S), ByClass(u, w, class, S, K)
    PROVE  IsFiniteSet(K) /\ SumOf(u, K) = SumOf(w, S)
<1> DEFINE In(s) == {x \in S : class[x] \in s}
           Of(k) == {x \in S : class[x] = k}
           P == {s \in SUBSET K : SumOf(u, s) = SumOf(w, In(s))}
<1>1. IsFiniteSet(K)
    BY ClassesAreFew
<1>2. ASSUME NEW s \in SUBSET S PROVE /\ IsFiniteSet(s) /\ \A x \in s : w[x] \in Int
    BY FS_Subset
<1>3. \A k \in K : u[k] \in Int
    <2>1. SUFFICES ASSUME NEW k \in K PROVE u[k] \in Int
        OBVIOUS
    <2> DEFINE o == Of(k)
    <2>2. o \in SUBSET S /\ u[k] = SumOf(w, o)
        BY DEF ByClass
    <2> HIDE DEF o
    <2>3. SumOf(w, o) \in Int
        BY <1>2, <2>2, SumTakes
    <2> QED BY <2>2, <2>3
<1>4. ASSUME NEW s \in SUBSET K, \A k \in s : s \ {k} \in P PROVE s \in P
    <2> SUFFICES SumOf(u, s) = SumOf(w, In(s))
        OBVIOUS
    <2>1. IsFiniteSet(s) /\ \A k \in s : u[k] \in Int
        BY <1>1, <1>3, FS_Subset
    <2>2. CASE s = {}
        <3>1. SumOf(u, {}) = 0 /\ SumOf(w, {}) = 0 /\ In(s) = {}
            BY <2>1, <2>2, SumTakes
        <3> QED BY <2>2, <3>1
    <2>3. CASE s # {}
        <3>1. PICK k \in s : TRUE
            BY <2>3
        <3> DEFINE less == s \ {k}
                   all == In(s)
                   one == Of(k)
                   rest == In(less)
        <3>2. SumOf(u, s) = u[k] + SumOf(u, less)
            BY <2>1, SumTakes
        <3>3. SumOf(u, less) = SumOf(w, rest)
            BY <1>4
        <3>4. u[k] = SumOf(w, one)
            BY DEF ByClass
        <3>5. all \in SUBSET S /\ one \in SUBSET all /\ all \ one = rest
            OBVIOUS
        <3> HIDE DEF less, all, one, rest
        <3>6. IsFiniteSet(all) /\ \A x \in all : w[x] \in Int
            BY <1>2, <3>5
        <3>7. SumOf(w, all) = SumOf(w, one) + SumOf(w, rest)
            BY <3>5, <3>6, SumSplits
        <3>8. SumOf(u, s) = SumOf(w, all)
            BY <3>2, <3>3, <3>4, <3>7
        <3> QED BY <3>8 DEF all
    <2> QED BY <2>2, <2>3
<1> HIDE DEF P
<1>5. K \in P
    <2>1. \A s \in SUBSET K : s \in P
        BY <1>1, <1>4, OneByOne, Zenon
    <2> QED BY <2>1
<1>6. In(K) = S
    BY DEF Classes
<1> QED BY <1>1, <1>5, <1>6 DEF P

\* The sums of the bills.
LEMMA ColumnIs ==
    ASSUME NEW lines, NEW places, IsFiniteSet(places), NEW field, NEW w,
           \A i \in places : w[i] = lines[i][field]
    PROVE  Column(lines, places, field) = SumOf(w, places)
<1> DEFINE Next1(g) == [s \in SUBSET places |->
                         IF s = {} THEN 0
                         ELSE lines[CHOOSE x \in s : TRUE][field] + g[s \ {CHOOSE x \in s : TRUE}]]
           f == CHOOSE g : g = Next1(g)
<1>1. Column(lines, places, field) = f[places]
    BY DEF Column, MapThenSumSet, MapThenFoldSet
<1>2. ASSUME NEW g PROVE g = Next1(g) <=> Adds(g, w, places)
    <2>1. ASSUME NEW s \in SUBSET places, s # {}
          PROVE  w[AnyOf(s)] = lines[CHOOSE x \in s : TRUE][field]
        <3>1. AnyOf(s) \in places
            BY <2>1, AnyOfIs
        <3> QED BY <3>1 DEF AnyOf
    <2> QED BY <2>1 DEF Adds, AnyOf
<1> HIDE DEF Next1
<1>3. \E g : g = Next1(g)
    <2>1. \E g : Adds(g, w, places)
        BY AddsExist
    <2> QED BY <1>2, <2>1
<1>4. f = Next1(f)
    BY <1>3, Zenon
<1> HIDE DEF f
<1>5. Adds(f, w, places)
    BY <1>2, <1>4
<1>6. places \in SUBSET places
    OBVIOUS
<1> QED BY <1>1, <1>5, <1>6, SumIs


-----------------------------------------------------------------------------
(* Amounts in words *)

\* What is heard, from one state of the reader to another.
Heards(g, words, before, n) ==
    g = [k \in 0..n |-> IF k = 0 THEN before ELSE Heard(g[k - 1], words[k])]
Hears(words, before, after) ==
    /\ words \in Seq(Int)
    /\ \E g : Heards(g, words, before, Len(words)) /\ after = g[Len(words)]
Have(sum, chunk) == [sum |-> sum, chunk |-> chunk]

LEMMA HeardAt ==
    ASSUME NEW g, NEW words, NEW before, NEW n \in Nat, Heards(g, words, before, n)
    PROVE  g[0] = before /\ \A k \in 1..n : g[k] = Heard(g[k - 1], words[k])
<1>1. g[0] = before
    BY DEF Heards
<1>2. ASSUME NEW k \in 1..n PROVE g[k] = Heard(g[k - 1], words[k])
    <2>1. k \in 0..n /\ k # 0
        OBVIOUS
    <2> QED BY <2>1 DEF Heards
<1> QED BY <1>1, <1>2

LEMMA HearsNothing ==
    ASSUME NEW before
    PROVE  Hears(<<>>, before, before)
<1> DEFINE g == [k \in 0..0 |-> before]
<1>1. <<>> \in Seq(Int) /\ Len(<<>>) = 0
    BY EmptySeq
<1>2. Heards(g, <<>>, before, 0) /\ g[0] = before
    BY DEF Heards
<1> QED BY <1>1, <1>2 DEF Hears

LEMMA HearsOne ==
    ASSUME NEW before, NEW word \in Int
    PROVE  Hears(<<word>>, before, Heard(before, word))
<1> DEFINE words == <<word>>
           g == [k \in 0..1 |-> IF k = 0 THEN before ELSE Heard(before, words[k])]
<1>1. words \in Seq(Int) /\ Len(words) = 1 /\ words[1] = word
    OBVIOUS
<1> HIDE DEF words
<1>2. Heards(g, words, before, 1)
    <2>1. \A k \in 0..1 : k # 0 => g[k - 1] = before
        OBVIOUS
    <2> QED BY <2>1 DEF Heards
<1>3. g[1] = Heard(before, word)
    BY <1>1
<1>4. Hears(words, before, Heard(before, word))
    BY <1>1, <1>2, <1>3 DEF Hears
<1> QED BY <1>4 DEF words

LEMMA HearsThen ==
    ASSUME NEW s, NEW t, NEW a, NEW b, NEW c, Hears(s, a, b), Hears(t, b, c)
    PROVE  Hears(s \o t, a, c)
<1> DEFINE m == Len(s)
           n == Len(t)
           all == s \o t
<1>1. /\ m \in Nat /\ n \in Nat /\ all \in Seq(Int) /\ Len(all) = m + n
      /\ \A k \in 1..m : all[k] = s[k]
      /\ \A k \in 1..n : all[m + k] = t[k]
    <2>1. s \in Seq(Int) /\ t \in Seq(Int)
        BY DEF Hears
    <2>2. all \in Seq(Int) /\ Len(all) = m + n /\ m \in Nat /\ n \in Nat
          /\ \A k \in 1..m + n : all[k] = IF k <= m THEN s[k] ELSE t[k - m]
        BY <2>1, ConcatProperties, LenProperties
    <2> HIDE DEF m, n, all
    <2>3. ASSUME NEW k \in 1..m PROVE all[k] = s[k]
        <3>1. k \in 1..m + n /\ k <= m
            BY <2>2
        <3> QED BY <2>2, <3>1
    <2>4. ASSUME NEW k \in 1..n PROVE all[m + k] = t[k]
        <3>1. m + k \in 1..m + n /\ ~(m + k <= m) /\ (m + k) - m = k
            BY <2>2
        <3> QED BY <2>2, <3>1
    <2> QED BY <2>2, <2>3, <2>4
<1>2. PICK f : Heards(f, s, a, m) /\ b = f[m]
    BY DEF Hears
<1>3. PICK g : Heards(g, t, b, n) /\ c = g[n]
    BY DEF Hears
<1>4. f[0] = a /\ \A k \in 1..m : f[k] = Heard(f[k - 1], s[k])
    BY <1>1, <1>2, HeardAt
<1>5. g[0] = b /\ \A k \in 1..n : g[k] = Heard(g[k - 1], t[k])
    BY <1>1, <1>3, HeardAt
<1> DEFINE h == [k \in 0..(m + n) |-> IF k <= m THEN f[k] ELSE g[k - m]]
<1> HIDE DEF m, n, all
<1>6. Heards(h, all, a, m + n)
    <2>1. ASSUME NEW k \in 0..(m + n) PROVE h[k] = IF k = 0 THEN a ELSE Heard(h[k - 1], all[k])
        <3>1. CASE k = 0
            BY <1>1, <1>4, <3>1
        <3>2. CASE k \in 1..m
            <4>1. h[k] = f[k] /\ h[k - 1] = f[k - 1] /\ k # 0
                BY <1>1, <3>2
            <4> HIDE DEF h
            <4> QED BY <1>1, <1>4, <3>2, <4>1
        <3>3. CASE k > m
            <4> DEFINE i == k - m
            <4>1. i \in 1..n /\ m + i = k /\ k # 0 /\ ~(k <= m)
                BY <1>1, <3>3
            <4>2. h[k] = g[i]
                BY <4>1
            <4>3. h[k - 1] = g[i - 1]
                <5>1. CASE i = 1
                    <6>1. k - 1 = m /\ i - 1 = 0 /\ m <= m /\ m \in 0..(m + n)
                        BY <1>1, <4>1, <5>1
                    <6>2. h[m] = f[m]
                        BY <6>1
                    <6> HIDE DEF h, i
                    <6> QED BY <1>2, <1>5, <6>1, <6>2
                <5>2. CASE i # 1
                    <6>1. k - 1 \in 0..(m + n) /\ ~(k - 1 <= m) /\ (k - 1) - m = i - 1
                        BY <1>1, <4>1, <5>2
                    <6> QED BY <6>1
                <5> QED BY <5>1, <5>2
            <4>4. g[i] = Heard(g[i - 1], t[i]) /\ all[k] = t[i]
                <5> HIDE DEF i
                <5> QED BY <1>1, <1>5, <4>1
            <4> HIDE DEF h, i
            <4> QED BY <4>1, <4>2, <4>3, <4>4
        <3> QED BY <1>1, <3>1, <3>2, <3>3
    <2>2. h = [k \in 0..(m + n) |-> h[k]]
        OBVIOUS
    <2> HIDE DEF h
    <2>3. [k \in 0..(m + n) |-> h[k]]
             = [k \in 0..(m + n) |-> IF k = 0 THEN a ELSE Heard(h[k - 1], all[k])]
        BY <2>1
    <2> QED BY <2>2, <2>3 DEF Heards
<1>7. h[m + n] = c
    <2>1. CASE n = 0
        <3>1. m + n = m /\ m <= m /\ m \in 0..(m + n)
            BY <1>1, <2>1
        <3>2. h[m] = f[m]
            BY <3>1
        <3> HIDE DEF h
        <3> QED BY <1>2, <1>3, <1>5, <2>1, <3>1, <3>2
    <2>2. CASE n # 0
        <3>1. m + n \in 0..(m + n) /\ ~(m + n <= m) /\ (m + n) - m = n
            BY <1>1, <2>2
        <3>2. h[m + n] = g[n]
            BY <3>1
        <3> QED BY <1>3, <3>2
    <2> QED BY <2>1, <2>2
<1> HIDE DEF h
<1>8. Hears(all, a, c)
    BY <1>1, <1>6, <1>7 DEF Hears
<1> QED BY <1>8 DEF all

\* The amount is what the reader has at the end.
LEMMA HearsSaid ==
    ASSUME NEW words, NEW after, Hears(words, Have(0, 0), after)
    PROVE  SaidBy(words) = after.sum + after.chunk
<1> DEFINE n == Len(words)
           Nothing == Have(0, 0)
           f == CHOOSE g : g = [k \in 0..Len(words) |->
                    IF k = 0 THEN [sum |-> 0, chunk |-> 0] ELSE Heard(g[k - 1], words[k])]
<1>1. SaidBy(words) = f[n].sum + f[n].chunk
    BY DEF SaidBy
<1>2. PICK h : Heards(h, words, Nothing, n) /\ after = h[n]
    BY DEF Hears
<1>3. Heards(f, words, Nothing, n)
    <2>1. \E g : g = [k \in 0..Len(words) |->
                    IF k = 0 THEN [sum |-> 0, chunk |-> 0] ELSE Heard(g[k - 1], words[k])]
        BY <1>2 DEF Heards, Have
    <2>2. f = [k \in 0..Len(words) |->
                    IF k = 0 THEN [sum |-> 0, chunk |-> 0] ELSE Heard(f[k - 1], words[k])]
        BY <2>1, Zenon
    <2> HIDE DEF f
    <2> QED BY <2>2 DEF Heards, Have
<1> HIDE DEF f, Nothing
<1>4. n \in Nat
    BY DEF Hears
<1> HIDE DEF n
<1> DEFINE Bad == {k \in 0..n : f[k] # h[k]}
<1>5. Bad = {}
    <2>1. SUFFICES ASSUME Bad # {} PROVE FALSE
        OBVIOUS
    <2>2. PICK m \in Bad : \A k \in Bad : m <= k
        <3>1. Bad \in SUBSET Nat
            BY <1>4
        <3> HIDE DEF Bad
        <3> QED BY <2>1, <3>1, LeastNumber
    <2>3. f[0] = h[0] /\ \A k \in 1..n : /\ f[k] = Heard(f[k - 1], words[k])
                                         /\ h[k] = Heard(h[k - 1], words[k])
        BY <1>2, <1>3, <1>4, HeardAt
    <2>4. m \in 1..n /\ f[m] # h[m]
        BY <1>4, <2>3
    <2>5. f[m - 1] = h[m - 1]
        <3>1. m - 1 \in 0..n /\ ~(m <= m - 1)
            BY <1>4, <2>4
        <3>2. m - 1 \notin Bad
            <4> HIDE DEF Bad
            <4> QED BY <2>2, <3>1
        <3> QED BY <3>1, <3>2
    <2> QED BY <2>3, <2>4, <2>5
<1>6. f[n] = h[n]
    BY <1>4, <1>5
<1> QED BY <1>1, <1>2, <1>6


LEMMA TwoWords ==
    ASSUME NEW a \in Int, NEW b \in Int
    PROVE  <<a>> \o <<b>> = <<a, b>>
<1> DEFINE s == <<a>> \o <<b>>
           t == <<a, b>>
<1>1. s \in Seq(Int) /\ t \in Seq(Int) /\ Len(s) = 2 /\ Len(t) = 2
    OBVIOUS
<1>2. s[1] = a /\ s[2] = b /\ t[1] = a /\ t[2] = b
    OBVIOUS
<1>3. \A i \in 1..2 : s[i] = t[i]
    BY <1>2
<1> HIDE DEF s, t
<1>4. s = t
    BY <1>1, <1>3, SeqEqual
<1> QED BY <1>4 DEF s, t

\* A number below two thousand, and one with its scale behind it.
Counted == 0..1999
Scales == {Thousand, Lakh, Crore}

LEMMA ChunkIsHeard ==
    ASSUME NEW n \in Counted, NEW sum \in Int
    PROVE  Hears(Chunk(n), Have(sum, 0), Have(sum, n))
<1> DEFINE rest == n % 100
           ones == IF rest >= 20 THEN rest % 10 ELSE rest
           hundreds == n \div 100
           A == IF n >= 100 THEN <<hundreds, Hundred>> ELSE <<>>
           B == IF rest >= 20 THEN <<rest - ones>> ELSE <<>>
           C == IF ones > 0 THEN <<ones>> ELSE <<>>
<1>1. /\ hundreds \in 0..19 /\ rest \in 0..99 /\ n = 100 * hundreds + rest
      /\ hundreds = 0 <=> n < 100
    BY DEF Counted
<1>2. Chunk(n) = (A \o B) \o C
    BY DEF Chunk
<1> HIDE DEF rest, hundreds
<1>3. ones \in 0..19 /\ rest - ones \in 0..90 /\ (rest < 20 => rest - ones = 0)
    BY <1>1
<1> HIDE DEF ones
<1>4. ASSUME NEW x \in Nat, NEW word \in 0..99
      PROVE  Heard(Have(sum, x), word) = Have(sum, x + word)
    BY <1>4 DEF Heard, Have, Thousand, Lakh, Crore, Hundred
<1>5. Hears(A, Have(sum, 0), Have(sum, 100 * hundreds))
    <2>1. CASE n >= 100
        <3>1. Hears(<<hundreds>>, Have(sum, 0), Heard(Have(sum, 0), hundreds))
            BY <1>1, HearsOne
        <3>2. Heard(Have(sum, 0), hundreds) = Have(sum, hundreds)
            BY <1>1 DEF Heard, Have, Thousand, Lakh, Crore, Hundred
        <3>3. Hears(<<Hundred>>, Have(sum, hundreds), Heard(Have(sum, hundreds), Hundred))
            BY HearsOne DEF Hundred
        <3>4. Heard(Have(sum, hundreds), Hundred) = Have(sum, 100 * hundreds)
            BY <1>1 DEF Heard, Have, Thousand, Lakh, Crore, Hundred
        <3>5. Hears(<<hundreds>> \o <<Hundred>>, Have(sum, 0), Have(sum, 100 * hundreds))
            BY <3>1, <3>2, <3>3, <3>4, HearsThen
        <3>6. hundreds \in Int /\ Hundred \in Int
            BY <1>1 DEF Hundred
        <3>7. <<hundreds>> \o <<Hundred>> = A
            BY <2>1, <3>6, TwoWords
        <3> QED BY <3>5, <3>7
    <2>2. CASE ~(n >= 100)
        <3>1. 100 * hundreds = 0 /\ A = <<>>
            BY <1>1, <2>2
        <3> QED BY <3>1, HearsNothing
    <2> QED BY <2>1, <2>2
<1>6. Hears(B, Have(sum, 100 * hundreds), Have(sum, 100 * hundreds + (rest - ones)))
    <2> DEFINE tens == rest - ones
               before == 100 * hundreds
    <2>1. tens \in 0..90 /\ tens \in Int /\ tens \in 0..99 /\ before \in Nat
        BY <1>1, <1>3
    <2>2. CASE rest >= 20
        <3>1. B = <<tens>>
            BY <2>2
        <3> HIDE DEF B, tens, before
        <3>2. Hears(<<tens>>, Have(sum, before), Heard(Have(sum, before), tens))
            BY <2>1, HearsOne
        <3>3. Heard(Have(sum, before), tens) = Have(sum, before + tens)
            BY <1>4, <2>1
        <3>4. Hears(B, Have(sum, before), Have(sum, before + tens))
            BY <3>1, <3>2, <3>3
        <3> QED BY <3>4 DEF B, tens, before
    <2>3. CASE ~(rest >= 20)
        <3>1. before + tens = before /\ B = <<>>
            BY <1>1, <1>3, <2>1, <2>3
        <3> HIDE DEF B, tens, before
        <3>2. Hears(B, Have(sum, before), Have(sum, before + tens))
            BY <3>1, HearsNothing
        <3> QED BY <3>2 DEF B, tens, before
    <2> QED BY <2>2, <2>3
<1>7. Hears(C, Have(sum, 100 * hundreds + (rest - ones)), Have(sum, n))
    <2> DEFINE before == 100 * hundreds + (rest - ones)
    <2>1. before \in 0..1999 /\ before + ones = n /\ ones \in Int
        BY <1>1, <1>3
    <2>2. CASE ones > 0
        <3>1. C = <<ones>>
            BY <2>2
        <3> HIDE DEF C, before
        <3>2. Hears(<<ones>>, Have(sum, before), Heard(Have(sum, before), ones))
            BY <2>1, HearsOne
        <3>3. Heard(Have(sum, before), ones) = Have(sum, before + ones)
            BY <1>3, <2>1 DEF Heard, Have, Thousand, Lakh, Crore, Hundred
        <3>4. Hears(C, Have(sum, before), Have(sum, n))
            BY <2>1, <3>1, <3>2, <3>3
        <3> QED BY <3>4 DEF C, before
    <2>3. CASE ~(ones > 0)
        <3>1. before = n /\ C = <<>>
            BY <1>1, <1>3, <2>1, <2>3
        <3> HIDE DEF C, before
        <3>2. Hears(C, Have(sum, before), Have(sum, n))
            BY <3>1, HearsNothing
        <3> QED BY <3>2 DEF C, before
    <2> QED BY <2>2, <2>3
<1> HIDE DEF A, B, C
<1>8. Hears(A \o B, Have(sum, 0), Have(sum, 100 * hundreds + (rest - ones)))
    BY <1>5, <1>6, HearsThen
<1> QED BY <1>2, <1>7, <1>8, HearsThen

LEMMA ScaledIsHeard ==
    ASSUME NEW n \in Counted, NEW sum \in Int, NEW scale \in Scales
    PROVE  Hears(IF n > 0 THEN Chunk(n) \o <<scale>> ELSE <<>>,
                 Have(sum, 0), Have(sum + n * scale, 0))
<1>1. scale \in Int /\ scale \in {Thousand, Lakh, Crore} /\ n \in 0..1999
    BY DEF Scales, Counted, Thousand, Lakh, Crore
<1>2. CASE n > 0
    <2>1. Hears(Chunk(n), Have(sum, 0), Have(sum, n))
        BY ChunkIsHeard
    <2>2. Hears(<<scale>>, Have(sum, n), Heard(Have(sum, n), scale))
        BY <1>1, HearsOne
    <2>3. Heard(Have(sum, n), scale) = Have(sum + n * scale, 0)
        BY <1>1 DEF Heard, Have
    <2>4. Hears(Chunk(n) \o <<scale>>, Have(sum, 0), Have(sum + n * scale, 0))
        BY <2>1, <2>2, <2>3, HearsThen
    <2> QED BY <1>2, <2>4
<1>3. CASE n = 0
    <2>1. sum + n * scale = sum
        BY <1>1, <1>3
    <2>2. Hears(<<>>, Have(sum, 0), Have(sum, 0))
        BY HearsNothing
    <2> QED BY <1>3, <2>1, <2>2
<1> QED BY <1>1, <1>2, <1>3

\* The words of an amount say it, for every amount that has words: what is heard
\* in crores, lakhs, thousands and the rest is the amount (gst-invoice.ts:13-60).
THEOREM WordsSayTheAmount ==
    ASSUME NEW rupees \in Int, Sayable(rupees)
    PROVE  SaidBy(NumberToWords(rupees)) = rupees
<1> DEFINE c == rupees \div Crore
           l == (rupees % Crore) \div Lakh
           t == (rupees % Lakh) \div Thousand
           u == rupees % Thousand
           C == IF c > 0 THEN Chunk(c) \o <<Crore>> ELSE <<>>
           L == IF l > 0 THEN Chunk(l) \o <<Lakh>> ELSE <<>>
           T == IF t > 0 THEN Chunk(t) \o <<Thousand>> ELSE <<>>
           U == IF u > 0 THEN Chunk(u) \o <<>> ELSE <<>>
<1>1. /\ c \in 0..1999 /\ l \in 0..99 /\ t \in 0..99 /\ u \in 0..999
      /\ rupees = c * Crore + l * Lakh + t * Thousand + u
    BY DEF Sayable, Crore, Lakh, Thousand
<1>2. CASE rupees = 0
    <2>1. Hears(<<0>>, Have(0, 0), Heard(Have(0, 0), 0))
        BY HearsOne
    <2>2. Heard(Have(0, 0), 0) = Have(0, 0)
        BY DEF Heard, Have, Thousand, Lakh, Crore, Hundred
    <2>3. SaidBy(<<0>>) = 0
        BY <2>1, <2>2, HearsSaid DEF Have
    <2> QED BY <1>2, <2>3 DEF NumberToWords
<1>3. CASE rupees # 0
    <2>1. NumberToWords(rupees) = ((C \o L) \o T) \o U
        BY <1>3 DEF NumberToWords
    <2> HIDE DEF c, l, t, u
    <2> DEFINE s0 == 0
               s1 == s0 + c * Crore
               s2 == s1 + l * Lakh
               s3 == s2 + t * Thousand
    <2>2. s0 \in Int /\ s1 \in Int /\ s2 \in Int /\ s3 \in Int /\ s3 + u = rupees
        BY <1>1 DEF Crore, Lakh, Thousand
    <2>3. /\ c \in Counted /\ l \in Counted /\ t \in Counted /\ u \in Counted
          /\ Crore \in Scales /\ Lakh \in Scales /\ Thousand \in Scales
        BY <1>1 DEF Counted, Scales
    <2> HIDE DEF s0
    <2>4. Hears(C, Have(s0, 0), Have(s1, 0))
        BY <2>2, <2>3, ScaledIsHeard
    <2> HIDE DEF C, s1
    <2>5. Hears(L, Have(s1, 0), Have(s2, 0))
        BY <2>2, <2>3, ScaledIsHeard
    <2> HIDE DEF L, s2
    <2>6. Hears(T, Have(s2, 0), Have(s3, 0))
        BY <2>2, <2>3, ScaledIsHeard
    <2> HIDE DEF T, s3
    <2>7. Hears(U, Have(s3, 0), Have(s3, u))
        <3>1. CASE u > 0
            <4>1. Hears(Chunk(u), Have(s3, 0), Have(s3, u))
                BY <2>2, <2>3, ChunkIsHeard
            <4>2. Hears(Chunk(u) \o <<>>, Have(s3, 0), Have(s3, u))
                BY <4>1, HearsNothing, HearsThen
            <4> QED BY <3>1, <4>2
        <3>2. CASE u = 0
            BY <3>2, HearsNothing
        <3> QED BY SMTT(30), <1>1, <3>1, <3>2
    <2> HIDE DEF U
    <2>8. Hears(((C \o L) \o T) \o U, Have(s0, 0), Have(s3, u))
        BY <2>4, <2>5, <2>6, <2>7, HearsThen
    <2>9. SaidBy(NumberToWords(rupees)) = Have(s3, u).sum + Have(s3, u).chunk
        BY <2>1, <2>8, HearsSaid DEF s0
    <2> QED BY <2>2, <2>9 DEF Have
<1> QED BY <1>2, <1>3


-----------------------------------------------------------------------------
(* Bills that are done *)

\* The figures of some lines are numbers.
AreLines(lines, n) ==
    /\ n \in Nat /\ lines = [i \in 1..n |-> lines[i]]
    /\ \A i \in 1..n : \A f \in Figures : lines[i][f] \in Int

LEMMA PlainRounding ==
    ASSUME NEW x \in Int
    PROVE  Rounded(x, 1) = x
<1>1. 1 \div 2 = 0
    OBVIOUS
<1>2. (x + 0) \div 1 = x
    OBVIOUS
<1> QED BY <1>1, <1>2 DEF Rounded

LEMMA RoundedIsInt ==
    ASSUME NEW x \in Int, NEW b \in {2, 100, 200, 20000}
    PROVE  Rounded(x, b) \in Int
BY DEF Rounded

LEMMA ColumnIsInt ==
    ASSUME NEW lines, NEW places, IsFiniteSet(places), NEW field,
           \A i \in places : lines[i][field] \in Int
    PROVE  Column(lines, places, field) \in Int
<1> DEFINE w == [i \in places |-> lines[i][field]]
<1>1. \A i \in places : w[i] = lines[i][field] /\ w[i] \in Int
    OBVIOUS
<1> HIDE DEF w
<1>2. Column(lines, places, field) = SumOf(w, places)
    BY <1>1, ColumnIs
<1> QED BY <1>1, <1>2, SumTakes

Summary(summary, lines, class, n, K, f) ==
    \A key \in K : summary[key][f] = Column(lines, {i \in 1..n : class[i] = key}, f)

\* The summary of the lines by a key adds up to their column.
LEMMA SummaryAddsUp ==
    ASSUME NEW lines, NEW n, AreLines(lines, n), NEW f \in Figures,
           NEW class, NEW K, Classes(K, class, 1..n), NEW summary,
           Summary(summary, lines, class, n, K, f)
    PROVE  Column(summary, K, f) = Column(lines, 1..n, f)
<1> DEFINE all == 1..n
           w == [i \in all |-> lines[i][f]]
           u == [key \in K |-> summary[key][f]]
           Of(key) == {i \in all : class[i] = key}
<1>1. IsFiniteSet(all) /\ IsFiniteSet(K)
    <2>1. IsFiniteSet(all)
        <3>1. n \in Nat
            BY DEF AreLines
        <3> QED BY <3>1, FS_Interval
    <2>2. Classes(K, class, all)
        OBVIOUS
    <2> HIDE DEF all
    <2> QED BY <2>1, <2>2, ClassesAreFew
<1>2. \A i \in all : w[i] = lines[i][f] /\ w[i] \in Int
    BY DEF AreLines
<1>3. \A key \in K : u[key] = summary[key][f]
    OBVIOUS
<1>4. \A key \in K : u[key] = Column(lines, Of(key), f)
    BY DEF Summary
<1>5. Classes(K, class, all)
    OBVIOUS
<1> HIDE DEF w, u, all
<1>6. ASSUME NEW key \in K PROVE u[key] = SumOf(w, Of(key))
    <2> DEFINE o == Of(key)
    <2>1. o \in SUBSET all /\ u[key] = Column(lines, o, f)
        BY <1>4
    <2> HIDE DEF o
    <2>2. IsFiniteSet(o) /\ \A i \in o : w[i] = lines[i][f]
        BY <1>1, <1>2, <2>1, FS_Subset
    <2>3. u[key] = SumOf(w, o)
        BY <2>1, <2>2, ColumnIs
    <2> QED BY <2>3 DEF o
<1>7. SumOf(u, K) = SumOf(w, all)
    <2>1. ByClass(u, w, class, all, K)
        BY <1>6 DEF ByClass
    <2> QED BY <1>1, <1>2, <1>5, <2>1, SumByClass
<1>8. Column(lines, all, f) = SumOf(w, all)
    BY <1>1, <1>2, ColumnIs
<1>9. Column(summary, K, f) = SumOf(u, K)
    BY <1>1, <1>3, ColumnIs
<1> QED BY <1>7, <1>8, <1>9 DEF all

\* An invoice whose figures are paise is whole, whatever its lines.
LEMMA InvoiceAddsUp ==
    ASSUME NEW lines, NEW n, AreLines(lines, n), NEW text, NEW pays
    PROVE  InvoiceIsWhole(Invoice(lines, 1, text, pays))
<1> DEFINE all == 1..n
           Key(i) == <<lines[i].hsn, lines[i].gst>>
           class == [i \in all |-> Key(i)]
           K == {Key(i) : i \in all}
           Printed(places) == [f \in Figures |-> Rounded(Column(lines, places, f), 1)]
           a == Column(lines, all, "taxable")
           b == Column(lines, all, "central")
           c == Column(lines, all, "state")
           d == Column(lines, all, "integrated")
           raw == a + b + c + d
           grand == Rounded(raw, 100 * 1)
           bill == Invoice(lines, 1, text, pays)
           summary == [key \in K |-> Printed({i \in all : Key(i) = key})]
<1>1. n \in Nat /\ DOMAIN lines = all /\ \A i \in all : \A f \in Figures : lines[i][f] \in Int
    BY DEF AreLines
<1>2. /\ bill.totals = Printed(all) /\ bill.grand = grand /\ bill.words = NumberToWords(grand)
      /\ bill.roundOff = Rounded(grand * 100 * 1 - raw, 1)
      /\ bill.summary = summary
      /\ bill.lines = [i \in all |->
            [f \in {"qty", "rate", "gst"} |-> lines[i][f]] @@ Printed({i})]
    BY <1>1 DEF Invoice
<1>3. IsFiniteSet(all) /\ Cardinality(all) = n
    BY <1>1, FS_Interval
<1> HIDE DEF bill
<1>4. \A places \in SUBSET all : \A f \in Figures :
          /\ Column(lines, places, f) \in Int
          /\ Printed(places)[f] = Column(lines, places, f)
    <2>1. SUFFICES ASSUME NEW places \in SUBSET all, NEW f \in Figures
                   PROVE  /\ Column(lines, places, f) \in Int
                          /\ Rounded(Column(lines, places, f), 1) = Column(lines, places, f)
        OBVIOUS
    <2>2. IsFiniteSet(places)
        BY <1>3, FS_Subset
    <2>3. Column(lines, places, f) \in Int
        BY <1>1, <2>2, ColumnIsInt
    <2> QED BY <2>3, PlainRounding
<1> HIDE DEF Printed
<1>5. /\ a \in Int /\ b \in Int /\ c \in Int /\ d \in Int
      /\ bill.totals.taxable = a /\ bill.totals.central = b
      /\ bill.totals.state = c /\ bill.totals.integrated = d
    BY <1>2, <1>4 DEF Figures
<1>6. \A f \in Figures : bill.totals[f] = Column(bill.summary, DOMAIN bill.summary, f)
    <2>1. SUFFICES ASSUME NEW f \in Figures
                   PROVE  bill.totals[f] = Column(bill.summary, DOMAIN bill.summary, f)
        OBVIOUS
    <2>2. bill.totals[f] = Column(lines, all, f)
        BY ZenonT(40), <1>2, <1>4
    <2>3. DOMAIN summary = K
        OBVIOUS
    <2>4. Classes(K, class, 1..n)
        BY DEF Classes
    <2>5. ASSUME NEW key \in K
          PROVE  summary[key][f] = Column(lines, {i \in 1..n : class[i] = key}, f)
        <3> DEFINE o == {i \in all : Key(i) = key}
        <3>1. o \in SUBSET all /\ summary[key] = Printed(o)
            OBVIOUS
        <3>2. o = {i \in 1..n : class[i] = key}
            OBVIOUS
        <3> HIDE DEF o, summary
        <3>3. summary[key][f] = Column(lines, o, f)
            BY <1>4, <3>1
        <3> QED BY <3>2, <3>3
    <2>6. Summary(summary, lines, class, n, K, f)
        <3> HIDE DEF summary, class, K
        <3> QED BY <2>5 DEF Summary
    <2> HIDE DEF summary, class, K
    <2>7. Column(summary, K, f) = Column(lines, 1..n, f)
        BY <2>4, <2>6, SummaryAddsUp
    <2> QED BY <1>2, <2>2, <2>3, <2>7
<1> HIDE DEF a, b, c, d
<1>7. raw \in Int /\ grand = Rounded(raw, 100) /\ grand \in Int
    <2>1. raw \in Int /\ grand = Rounded(raw, 100)
        BY <1>5
    <2> HIDE DEF raw, grand
    <2> QED BY <2>1, RoundedIsInt
<1>8. bill.grand * 100 - bill.roundOff = raw /\ bill.roundOff \in -50..50
    <2> HIDE DEF raw, grand
    <2> DEFINE off == grand * 100 - raw
    <2>1. off \in Int /\ off \in -50..50 /\ grand * 100 * 1 - raw = off /\ grand * 100 - off = raw
        <3>1. Rounded(raw, 100) * 100 - raw \in -50..50
            BY <1>7, RoundOffIsSmall
        <3> QED BY <1>7, <3>1
    <2> HIDE DEF off
    <2>2. bill.roundOff = off
        BY <1>2, <2>1, PlainRounding
    <2> QED BY <1>2, <2>1, <2>2 DEF off
<1>9. bill.grand * 100 - bill.roundOff
        = bill.totals.taxable + bill.totals.central + bill.totals.state + bill.totals.integrated
    BY <1>5, <1>8
<1>10. Says(bill.words, bill.grand)
    <2> HIDE DEF grand
    <2> QED BY <1>2, <1>7, WordsSayTheAmount DEF Says
<1>11. Len(bill.lines) <= 11 => InvoiceRoom(Len(bill.lines), Cardinality(DOMAIN bill.summary)) >= 0
    <2>1. Len(bill.lines) = n
        <3> DEFINE printed == [i \in all |->
                    [f \in {"qty", "rate", "gst"} |-> lines[i][f]] @@ Printed({i})]
        <3>1. printed = [i \in 1..n |-> printed[i]]
            OBVIOUS
        <3>2. bill.lines = printed
            BY <1>2
        <3> HIDE DEF printed
        <3> QED BY <1>1, <3>1, <3>2, SeqOver
    <2>2. DOMAIN bill.summary = K /\ Classes(K, class, all)
        BY <1>2 DEF Classes
    <2> HIDE DEF K, class, all
    <2>3. IsFiniteSet(K) /\ Cardinality(K) <= n
        BY <1>3, <2>2, ClassesAreFew
    <2> DEFINE codes == Cardinality(K)
    <2>4. codes \in Nat /\ codes <= n
        BY <2>3, FS_CardinalityType
    <2>5. Cardinality(DOMAIN bill.summary) = codes
        BY <2>2
    <2> HIDE DEF codes
    <2> QED BY <1>1, <2>1, <2>4, <2>5, ElevenItemsFit
<1>12. InvoiceIsWhole(bill)
    BY <1>6, <1>8, <1>9, <1>10, <1>11 DEF InvoiceIsWhole
<1> QED BY <1>12 DEF bill


\* The worker's invoice has paise in all its figures, whatever is billed.
LEMMA GstInvoiceIsWhole ==
    ASSUME NEW opt, BillOptions("gst-invoice-pdf", opt)
    PROVE  InvoiceIsWhole(GstInvoice(opt))
<1> DEFINE items == opt.items
           n == Len(items)
           inter == InterState(opt.taxType, opt.sameState)
           Qty(item) == AtLeast(One, item.qty)
           Rate(item) == AtLeast(0, item.rate)
           Taxable(item) == Rounded(Qty(item) * Rate(item) * (100 - Percent(item.off)), 200)
           Half(item) == Rounded(Taxable(item) * item.gst, 200)
           Line(item) ==
               [hsn |-> item.hsn, gst |-> item.gst, qty |-> Qty(item), rate |-> Rate(item),
                taxable |-> Taxable(item),
                central |-> IF inter THEN 0 ELSE Half(item),
                state |-> IF inter THEN 0 ELSE Half(item),
                integrated |-> IF inter THEN Rounded(Taxable(item) * item.gst, 100) ELSE 0]
           lines == [i \in DOMAIN items |-> Line(items[i])]
<1>1. IsSeq(items) /\ \A i \in DOMAIN items :
          {items[i].qty, items[i].rate, items[i].gst, items[i].off} \subseteq Int
    BY DEF BillOptions
<1>2. n \in Nat /\ DOMAIN items = 1..n
    BY <1>1, SeqIs
<1>3. GstInvoice(opt) = Invoice(lines, 1, opt.text, TRUE)
    BY DEF GstInvoice
<1>4. ASSUME NEW i \in 1..n, NEW f \in Figures PROVE Line(items[i])[f] \in Int
    <2> DEFINE item == items[i]
               q == Qty(item)
               r == Rate(item)
               p == 100 - Percent(item.off)
               g == item.gst
    <2>1. q \in Int /\ r \in Int /\ p \in Int /\ g \in Int
        <3>1. item.qty \in Int /\ item.rate \in Int /\ item.gst \in Int /\ item.off \in Int
            BY <1>1, <1>2
        <3> QED BY <3>1 DEF AtLeast, Percent, One
    <2>2. Line(item)[f] = CASE f = "taxable" -> Taxable(item)
                            [] f = "central" -> IF inter THEN 0 ELSE Half(item)
                            [] f = "state" -> IF inter THEN 0 ELSE Half(item)
                            [] f = "integrated" -> IF inter THEN Rounded(Taxable(item) * g, 100)
                                                   ELSE 0
        BY DEF Figures
    <2>3. Taxable(item) = Rounded(q * r * p, 200) /\ Half(item) = Rounded(Taxable(item) * g, 200)
        OBVIOUS
    <2> DEFINE t == Taxable(item)
               h == Half(item)
    <2> HIDE DEF q, r, p, g, t, h, Line, inter
    <2>4. q * r * p \in Int /\ 200 \in {2, 100, 200, 20000} /\ 100 \in {2, 100, 200, 20000}
        BY <2>1
    <2>5. t \in Int
        BY <2>3, <2>4, RoundedIsInt DEF t
    <2>6. t * g \in Int
        BY <2>1, <2>5
    <2>7. h \in Int /\ Rounded(t * g, 100) \in Int
        BY <2>3, <2>4, <2>6, RoundedIsInt DEF t, h
    <2> QED BY <2>2, <2>5, <2>7 DEF t, h, Figures
<1>5. AreLines(lines, n)
    <2>1. lines = [i \in 1..n |-> lines[i]] /\ \A i \in 1..n : lines[i] = Line(items[i])
        BY <1>2
    <2> HIDE DEF lines, Line
    <2> QED BY <1>2, <1>4, <2>1 DEF AreLines
<1> HIDE DEF lines
<1> QED BY <1>3, <1>5, InvoiceAddsUp

\* Lines of a slip: numbers of pieces at some rate.
AreItems(lines, n) ==
    /\ n \in Nat /\ lines = [i \in 1..n |-> lines[i]]
    /\ \A i \in 1..n : lines[i].qty \in Int /\ lines[i].rate \in Int

LEMMA AmountsAreInt ==
    ASSUME NEW lines, NEW n, AreItems(lines, n)
    PROVE  Amounts(lines) \in Int
<1> DEFINE all == DOMAIN lines
           w == [i \in all |-> lines[i].qty * lines[i].rate]
           Next1(g) == [s \in SUBSET all |->
                         IF s = {} THEN 0
                         ELSE lines[CHOOSE x \in s : TRUE].qty * lines[CHOOSE x \in s : TRUE].rate
                              + g[s \ {CHOOSE x \in s : TRUE}]]
           f == CHOOSE g : g = Next1(g)
<1>1. Amounts(lines) = f[all]
    BY DEF Amounts, MapThenSumSet, MapThenFoldSet
<1>2. ASSUME NEW g PROVE g = Next1(g) <=> Adds(g, w, all)
    <2>1. ASSUME NEW s \in SUBSET all, s # {}
          PROVE  w[AnyOf(s)] = lines[CHOOSE x \in s : TRUE].qty * lines[CHOOSE x \in s : TRUE].rate
        <3>1. AnyOf(s) \in all
            BY <2>1, AnyOfIs
        <3> QED BY <3>1 DEF AnyOf
    <2> HIDE DEF w
    <2> QED BY <2>1 DEF Adds, AnyOf
<1>3. IsFiniteSet(all) /\ \A i \in all : w[i] \in Int
    <2>1. n \in Nat /\ all = 1..n
        BY DEF AreItems
    <2> QED BY <2>1, FS_Interval DEF AreItems
<1> HIDE DEF Next1, all, w
<1>4. \E g : g = Next1(g)
    <2>1. \E g : Adds(g, w, all)
        BY <1>3, AddsExist
    <2> QED BY <1>2, <2>1
<1>5. f = Next1(f)
    BY <1>4, Zenon
<1> HIDE DEF f
<1>6. Adds(f, w, all)
    BY <1>2, <1>5
<1>7. all \in SUBSET all
    OBVIOUS
<1>8. SumOf(w, all) = f[all]
    BY <1>3, <1>6, <1>7, SumIs
<1>9. SumOf(w, all) \in Int
    BY <1>3, SumTakes
<1> QED BY <1>1, <1>8, <1>9


\* A total that is rounded once, and from parts that are rounded each.
LEMMA Halves ==
    ASSUME NEW x \in Int
    PROVE  0 <= 2 * Rounded(x, 2) - x /\ 2 * Rounded(x, 2) - x <= 1
<1> DEFINE q == (x + 1) \div 2
           r == (x + 1) % 2
<1>1. q \in Int /\ r \in 0..1 /\ x + 1 = 2 * q + r
    OBVIOUS
<1>2. 2 \div 2 = 1
    OBVIOUS
<1>3. Rounded(x, 2) = q
    BY <1>2 DEF Rounded
<1> HIDE DEF q, r
<1> QED BY <1>1, <1>3

LEMMA Hundredths ==
    ASSUME NEW x \in Int
    PROVE  -99 <= 200 * Rounded(x, 200) - x /\ 200 * Rounded(x, 200) - x <= 100
<1> DEFINE q == (x + 100) \div 200
           r == (x + 100) % 200
<1>1. q \in Int /\ r \in 0..199 /\ x + 100 = 200 * q + r
    OBVIOUS
<1>2. 200 \div 2 = 100
    OBVIOUS
<1>3. Rounded(x, 200) = q
    BY <1>2 DEF Rounded
<1> HIDE DEF q, r
<1> QED BY <1>1, <1>3

LEMMA TenThousandths ==
    ASSUME NEW x \in Int
    PROVE  -9999 <= 20000 * Rounded(x, 20000) - x /\ 20000 * Rounded(x, 20000) - x <= 10000
<1> DEFINE q == (x + 10000) \div 20000
           r == (x + 10000) % 20000
<1>1. q \in Int /\ r \in Int /\ 0 <= r /\ r < 20000 /\ x + 10000 = 20000 * q + r
    OBVIOUS
<1>2. 20000 \div 2 = 10000
    OBVIOUS
<1>3. Rounded(x, 20000) = q
    BY <1>2 DEF Rounded
<1> HIDE DEF q, r
<1>4. -9999 <= 20000 * q - x /\ 20000 * q - x <= 10000
    BY <1>1
<1> QED BY <1>3, <1>4

\* The total of a slip is its sum less the discount and with the tax, to a
\* paisa, unless the sum is negative.
ToAPaisa(sum, discount, tax, left) ==
    Rounded(left * (100 + tax), 20000)
      - (Rounded(sum, 2) - Rounded(sum * discount, 200) + Rounded(left * tax, 20000))
    \in -1..1

LEMMA SlipAddsUp ==
    ASSUME NEW sum \in Int, NEW discount \in 0..100, NEW tax \in 0..100,
           NEW left, left = AtLeast(0, sum * (100 - discount)), Rounded(sum, 2) >= 0
    PROVE  ToAPaisa(sum, discount, tax, left)
<1> DEFINE a == sum * discount
           b == left * tax
           s == Rounded(sum, 2)
           d == Rounded(a, 200)
           t == Rounded(b, 20000)
           g == Rounded(left * (100 + tax), 20000)
<1>1. a \in Int /\ sum * (100 - discount) = 100 * sum - a
    OBVIOUS
<1>2. left \in Int /\ left = AtLeast(0, 100 * sum - a)
    <2> HIDE DEF a
    <2> QED BY <1>1 DEF AtLeast
<1>3. b \in Int /\ left * (100 + tax) = 100 * left + b
    BY <1>2
<1>4. s \in Int /\ d \in Int /\ t \in Int /\ g \in Int
    <2> HIDE DEF a, b
    <2> DEFINE c == left * (100 + tax)
    <2>1. c \in Int
        BY <1>2, <1>3
    <2> HIDE DEF c
    <2> QED BY <1>1, <1>3, <2>1, RoundedIsInt DEF c
<1>5. /\ 0 <= 2 * s - sum /\ 2 * s - sum <= 1
      /\ -99 <= 200 * d - a /\ 200 * d - a <= 100
      /\ -9999 <= 20000 * t - b /\ 20000 * t - b <= 10000
    <2> HIDE DEF a, b
    <2>1. 0 <= 2 * s - sum /\ 2 * s - sum <= 1
        BY Halves
    <2>2. -99 <= 200 * d - a /\ 200 * d - a <= 100
        BY <1>1, Hundredths
    <2>3. -9999 <= 20000 * t - b /\ 20000 * t - b <= 10000
        BY <1>3, TenThousandths
    <2> QED BY <2>1, <2>2, <2>3
<1>6. -9999 <= 20000 * g - (100 * left + b) /\ 20000 * g - (100 * left + b) <= 10000
    <2> DEFINE c == left * (100 + tax)
    <2>1. c \in Int /\ c = 100 * left + b
        BY <1>2, <1>3
    <2> HIDE DEF c, b
    <2>2. -9999 <= 20000 * Rounded(c, 20000) - c /\ 20000 * Rounded(c, 20000) - c <= 10000
        BY <2>1, TenThousandths
    <2>3. g = Rounded(c, 20000)
        BY DEF c
    <2> HIDE DEF g
    <2> QED BY <2>1, <2>2, <2>3
<1>7. s >= 0
    OBVIOUS
<1>8. CASE sum >= 0
    <2>1. 0 <= a /\ a <= 100 * sum
        <3>1. 0 <= sum * discount
            BY <1>8
        <3>2. 0 <= sum * (100 - discount)
            BY <1>8
        <3> QED BY <1>1, <3>1, <3>2
    <2>2. left = 100 * sum - a
        <3> HIDE DEF a
        <3> QED BY <1>1, <1>2, <2>1 DEF AtLeast
    <2> HIDE DEF a, b, s, d, t, g
    <2>3. g - (s - d + t) \in -1..1
        BY <1>1, <1>3, <1>4, <1>5, <1>6, <2>2
    <2> QED BY <2>3 DEF a, b, s, d, t, g, ToAPaisa
<1>9. CASE sum < 0
    <2>1. sum = -1
        <3> HIDE DEF s, a, b, d, t, g
        <3> QED BY <1>4, <1>5, <1>7, <1>9
    <2>2. a = -discount
        BY <2>1
    <2>3. left = 0
        <3> HIDE DEF a
        <3> QED BY <1>2, <2>1, <2>2 DEF AtLeast
    <2>4. b = 0
        BY <2>3
    <2> HIDE DEF a, b, s, d, t, g
    <2>5. s = 0 /\ g = 0 /\ t = 0 /\ d = 0
        BY <1>4, <1>5, <1>6, <2>1, <2>2, <2>3, <2>4
    <2>6. g - (s - d + t) \in -1..1
        BY <2>5
    <2> QED BY <2>6 DEF a, b, s, d, t, g, ToAPaisa
<1> QED BY <1>8, <1>9

\* A slip of some lines, with the percentages the worker takes.
LEMMA SlipIs ==
    ASSUME NEW lines, NEW n, AreItems(lines, n), NEW x \in Int, NEW y \in Int,
           NEW text, NEW pays, NEW bill, bill = Slip(lines, Percent(x), Percent(y), text, pays)
    PROVE  /\ Len(bill.lines) = n
           /\ bill.subtotal >= 0 =>
                 bill.grand - (bill.subtotal - bill.discount + bill.tax) \in -1..1
<1> DEFINE sum == Amounts(lines)
           discount == Percent(x)
           tax == Percent(y)
           left == AtLeast(0, sum * (100 - discount))
           printed == [i \in DOMAIN lines |->
                          [qty |-> lines[i].qty, rate |-> lines[i].rate,
                           amount |-> Rounded(lines[i].qty * lines[i].rate, 2)]]
<1>1. /\ bill.lines = printed /\ bill.subtotal = Rounded(sum, 2)
      /\ bill.discount = Rounded(sum * discount, 200)
      /\ bill.tax = Rounded(left * tax, 20000)
      /\ bill.grand = Rounded(left * (100 + tax), 20000)
    BY DEF Slip
<1>2. n \in Nat /\ printed = [i \in 1..n |-> printed[i]]
    BY DEF AreItems
<1> HIDE DEF printed
<1>3. Len(printed) = n
    BY <1>2, SeqOver
<1>4. sum \in Int /\ discount \in 0..100 /\ tax \in 0..100
    BY SMTT(30), AmountsAreInt, PercentIsInRange
<1> HIDE DEF sum, discount, tax
<1>5. ASSUME Rounded(sum, 2) >= 0
      PROVE  ToAPaisa(sum, discount, tax, left)
    <2>1. left = AtLeast(0, sum * (100 - discount))
        OBVIOUS
    <2> HIDE DEF left
    <2> QED BY <1>4, <1>5, <2>1, SlipAddsUp
<1> QED BY <1>1, <1>3, <1>5 DEF ToAPaisa

\* The items of a slip or an estimate, and the lines made of them.
AreSlipOptions(opt) ==
    /\ IsSeq(opt.items)
    /\ \A i \in DOMAIN opt.items : {opt.items[i].qty, opt.items[i].rate} \subseteq Int
    /\ {opt.discount, opt.tax} \subseteq Int /\ opt.upi \in BOOLEAN

LEMMA LinesAre ==
    ASSUME NEW items, NEW n, AreItems(items, n)
    PROVE  /\ AreItems(Lines(items, AtLeastOne, NotNegative), n)
           /\ AreItems(Lines(items, Pieces, AsTyped), n)
<1> DEFINE printed == [i \in DOMAIN items |->
                          [qty |-> AtLeastOne(items[i].qty), rate |-> NotNegative(items[i].rate)]]
           summed == [i \in DOMAIN items |->
                          [qty |-> Pieces(items[i].qty), rate |-> AsTyped(items[i].rate)]]
<1>1. n \in Nat /\ DOMAIN items = 1..n /\ \A i \in 1..n : items[i].qty \in Int /\ items[i].rate \in Int
    BY DEF AreItems
<1>2. \A x \in Int : /\ AtLeastOne(x) \in Int /\ NotNegative(x) \in Int
                     /\ Pieces(x) \in Int /\ AsTyped(x) \in Int
    BY DEF AtLeastOne, NotNegative, Pieces, AsTyped, AtLeast, Or, One
<1>3. AreItems(printed, n) /\ AreItems(summed, n)
    BY <1>1, <1>2 DEF AreItems
<1> QED BY <1>3 DEF Lines

LEMMA ItemsAre ==
    ASSUME NEW opt, AreSlipOptions(opt)
    PROVE  AreItems(opt.items, Len(opt.items))
<1>1. /\ Len(opt.items) \in Nat /\ DOMAIN opt.items = 1..Len(opt.items)
      /\ opt.items = [i \in 1..Len(opt.items) |-> opt.items[i]]
    BY SeqIs DEF AreSlipOptions
<1>2. \A i \in 1..Len(opt.items) : opt.items[i].qty \in Int /\ opt.items[i].rate \in Int
    BY <1>1 DEF AreSlipOptions
<1> QED BY <1>1, <1>2 DEF AreItems


LEMMA StandardItems ==
    /\ AreItems(<<[qty |-> One, rate |-> 100]>>, 1)
    /\ AreItems(<<[qty |-> One, rate |-> 3500], [qty |-> One, rate |-> 6500],
                  [qty |-> One, rate |-> 2500]>>, 3)
BY DEF AreItems, One

\* A slip of the worker is whole, whatever is billed.
LEMMA SlipsAreWhole ==
    ASSUME NEW op, NEW opt, AreSlipOptions(opt), NEW bill, NEW n \in Nat,
           Len(bill.lines) = n,
           bill.subtotal >= 0 =>
              bill.grand - (bill.subtotal - bill.discount + bill.tax) \in -1..1
    PROVE  SlipIsWhole(op, opt, bill)
<1> DEFINE sums == 1 + (IF opt.discount > 0 THEN 1 ELSE 0) + (IF opt.tax > 0 THEN 1 ELSE 0)
           heads == IF opt.text = "typed" THEN 32 ELSE 0
           upi == opt.upi
<1>1. sums \in 1..3
    BY DEF AreSlipOptions
<1>2. heads \in 0..32
    OBVIOUS
<1>3. upi \in BOOLEAN
    BY DEF AreSlipOptions
<1> HIDE DEF sums, heads
<1>4. RollDrawn(n, upi, heads, sums) <= RollLength(n, upi)
    <2> HIDE DEF upi
    <2> QED BY <1>1, <1>2, <1>3, RollHoldsTheSlip
<1>5. n <= 20 => EstimateRoom(n, sums, 3) >= 0
    BY SMTT(30), <1>1, TwentyItemsFit
<1> QED BY <1>4, <1>5 DEF SlipIsWhole, sums, heads

LEMMA PosSlipIsWhole ==
    ASSUME NEW opt, AreSlipOptions(opt)
    PROVE  SlipIsWhole("pos-billing", opt, PosSlip(opt))
<1> DEFINE standard == <<[qty |-> One, rate |-> 100]>>
           items == IF opt.items = <<>> THEN standard ELSE opt.items
           lines == Lines(items, AtLeastOne, NotNegative)
           x == opt.discount
           y == opt.tax
           bill == PosSlip(opt)
<1>1. bill = Slip(lines, Percent(x), Percent(y), opt.text, opt.upi)
    BY DEF PosSlip
<1>2. \E n : AreItems(items, n)
    BY ItemsAre, StandardItems
<1> HIDE DEF items
<1>3. PICK n : AreItems(lines, n)
    BY <1>2, LinesAre
<1>4. x \in Int /\ y \in Int /\ n \in Nat
    BY <1>3 DEF AreSlipOptions, AreItems
<1> HIDE DEF bill, lines, x, y
<1>5. /\ Len(bill.lines) = n
      /\ bill.subtotal >= 0 =>
            bill.grand - (bill.subtotal - bill.discount + bill.tax) \in -1..1
    BY <1>1, <1>3, <1>4, SlipIs
<1>6. SlipIsWhole("pos-billing", opt, bill)
    BY <1>4, <1>5, SlipsAreWhole
<1> QED BY <1>6 DEF bill

LEMMA EstimateIsWhole ==
    ASSUME NEW opt, AreSlipOptions(opt)
    PROVE  SlipIsWhole("estimate-maker", opt, Estimate(opt))
<1> DEFINE standard == <<[qty |-> One, rate |-> 3500], [qty |-> One, rate |-> 6500],
                         [qty |-> One, rate |-> 2500]>>
           items == IF opt.items = <<>> THEN standard ELSE opt.items
           summed == Lines(items, Pieces, AsTyped)
           shown == Lines(items, AtLeastOne, NotNegative)
           x == opt.discount
           y == opt.tax
           z == 0
           pays == FALSE
           bill == Slip(summed, Percent(x), Percent(y), opt.text, pays)
           printed == Slip(shown, z, z, opt.text, pays)
           made == Estimate(opt)
<1>1. made = [bill EXCEPT !.lines = printed.lines]
    BY DEF Estimate
<1>2. \E n : AreItems(items, n)
    BY ItemsAre, StandardItems
<1> HIDE DEF items
<1>3. PICK n : AreItems(summed, n) /\ AreItems(shown, n)
    BY <1>2, LinesAre
<1>4. x \in Int /\ y \in Int /\ z \in Int /\ n \in Nat
    BY <1>3 DEF AreSlipOptions, AreItems
<1>5. printed = Slip(shown, Percent(z), Percent(z), opt.text, pays)
    BY DEF Percent, AtLeast
<1>6. bill = Slip(summed, Percent(x), Percent(y), opt.text, pays)
    OBVIOUS
<1>7. /\ made.lines = printed.lines /\ made.subtotal = bill.subtotal
      /\ made.discount = bill.discount /\ made.tax = bill.tax /\ made.grand = bill.grand
    BY <1>1 DEF Slip
<1> HIDE DEF bill, printed, made, summed, shown, x, y, z, pays
<1>8. Len(printed.lines) = n
    BY <1>3, <1>4, <1>5, SlipIs
<1>9. bill.subtotal >= 0 => bill.grand - (bill.subtotal - bill.discount + bill.tax) \in -1..1
    BY <1>3, <1>4, <1>6, SlipIs
<1>10. SlipIsWhole("estimate-maker", opt, made)
    <2>1. Len(made.lines) = n
        BY <1>7, <1>8
    <2>2. made.subtotal >= 0 => made.grand - (made.subtotal - made.discount + made.tax) \in -1..1
        BY <1>7, <1>9
    <2> QED BY <1>4, <2>1, <2>2, SlipsAreWhole
<1> QED BY <1>10 DEF made

LEMMA ReceiptIsWhole ==
    ASSUME NEW opt, opt.amount \in Int
    PROVE  Says(TaxReceipt(opt).words, TaxReceipt(opt).grand \div 100)
<1> DEFINE amount == Donated(opt.amount)
           rupees == amount \div 100
<1>1. amount \in Int
    BY DEF Donated, Or, AtLeast
<1>2. TaxReceipt(opt).grand = amount /\ TaxReceipt(opt).words = NumberToWords(rupees)
    BY DEF TaxReceipt, Receipt
<1> HIDE DEF amount
<1>3. rupees \in Int
    BY <1>1
<1> HIDE DEF rupees
<1>4. Says(NumberToWords(rupees), rupees)
    BY <1>3, WordsSayTheAmount DEF Says
<1> QED BY <1>2, <1>4 DEF rupees

\* What a billing operation issues is whole.
Whole(op, opt, bill) ==
    CASE op = "gst-invoice-pdf" -> InvoiceIsWhole(bill)
      [] op = "tax-receipt" -> Says(bill.words, bill.grand \div 100)
      [] OTHER -> SlipIsWhole(op, opt, bill)

LEMMA IssuedIsWhole ==
    ASSUME NEW op \in BillingOps, NEW opt, BillOptions(op, opt), Bills(op, opt).done
    PROVE  Whole(op, opt, Bills(op, opt).files[1].pages[1].of)
<1>1. ASSUME NEW bill, Bills(op, opt) = Issues(bill)
      PROVE  Bills(op, opt).files[1].pages[1].of = bill
    BY <1>1 DEF Issues, Gives, NewFile, Page
<1>2. CASE op = "gst-invoice-pdf"
    <2>1. Bills(op, opt) = Issues(GstInvoice(opt))
        BY <1>2 DEF Bills, Throws
    <2>2. InvoiceIsWhole(GstInvoice(opt))
        BY <1>2, GstInvoiceIsWhole
    <2> QED BY <1>1, <1>2, <2>1, <2>2 DEF Whole
<1>3. CASE op = "pos-billing"
    <2>1. Bills(op, opt) = Issues(PosSlip(opt))
        BY <1>3 DEF Bills
    <2>2. AreSlipOptions(opt)
        BY <1>3 DEF BillOptions, AreSlipOptions
    <2>3. SlipIsWhole(op, opt, PosSlip(opt))
        BY <1>3, <2>2, PosSlipIsWhole
    <2> QED BY <1>1, <1>3, <2>1, <2>3 DEF Whole
<1>4. CASE op = "estimate-maker"
    <2>1. Bills(op, opt) = Issues(Estimate(opt))
        BY <1>4 DEF Bills, Throws
    <2>2. AreSlipOptions(opt)
        BY <1>4 DEF BillOptions, AreSlipOptions
    <2>3. SlipIsWhole(op, opt, Estimate(opt))
        BY <1>4, <2>2, EstimateIsWhole
    <2> QED BY <1>1, <1>4, <2>1, <2>3 DEF Whole
<1>5. CASE op = "tax-receipt"
    <2>1. Bills(op, opt) = Issues(TaxReceipt(opt))
        BY <1>5 DEF Bills
    <2>2. opt.amount \in Int
        BY <1>5 DEF BillOptions
    <2>3. Says(TaxReceipt(opt).words, TaxReceipt(opt).grand \div 100)
        BY <2>2, ReceiptIsWhole
    <2> QED BY <1>1, <1>5, <2>1, <2>3 DEF Whole
<1> QED BY <1>2, <1>3, <1>4, <1>5 DEF BillingOps


\* What is typed into a studio: numbers where numbers are meant.
IsRow(row) ==
    /\ DOMAIN row = {"id", "hsn", "qty", "rate", "gst"}
    /\ row.qty \in Int /\ row.rate \in Int /\ row.gst \in Int
AreRows(rows) == IsSeq(rows) /\ \A i \in DOMAIN rows : IsRow(rows[i])
AreInputs(inputs) ==
    /\ inputs.discount \in Int /\ inputs.tax \in Int /\ inputs.amount \in Int
    /\ inputs.upi \in BOOLEAN

LEMMA RowsIn ==
    ASSUME NEW A, \A x \in A : IsRow(x), NEW rows \in Seq(A)
    PROVE  AreRows(rows)
<1>1. Len(rows) \in Nat /\ DOMAIN rows = 1..Len(rows) /\ rows \in [1..Len(rows) -> A]
    BY LenProperties
<1> DEFINE n == Len(rows)
<1> HIDE DEF n
<1>2. n \in Nat /\ rows = [i \in 1..n |-> rows[i]] /\ DOMAIN rows = 1..n
    BY <1>1 DEF n
<1>3. IsSeq(rows)
    BY <1>2, SeqOver
<1>4. \A i \in DOMAIN rows : rows[i] \in A
    BY <1>1
<1> QED BY <1>3, <1>4 DEF AreRows

LEMMA RowsAre ==
    ASSUME NEW rows, AreRows(rows)
    PROVE  /\ rows \in Seq({rows[i] : i \in 1..Len(rows)})
           /\ Len(rows) \in Nat /\ DOMAIN rows = 1..Len(rows)
           /\ \A x \in {rows[i] : i \in 1..Len(rows)} : IsRow(x)
BY SeqIs DEF AreRows

LEMMA FewRows ==
    ASSUME NEW a, IsRow(a), NEW b, IsRow(b), NEW c, IsRow(c)
    PROVE  AreRows(<<>>) /\ AreRows(<<a, b>>) /\ AreRows(<<a, b, c>>)
<1> DEFINE A == {a, b, c}
           two == <<a, b>>
           three == <<a, b, c>>
<1>1. <<>> \in Seq(A) /\ two \in Seq(A) /\ three \in Seq(A)
    BY EmptySeq
<1>2. \A x \in A : IsRow(x)
    OBVIOUS
<1> HIDE DEF A, two, three
<1>3. AreRows(<<>>)
    BY <1>1, <1>2, RowsIn
<1>4. AreRows(two) /\ AreRows(three)
    BY <1>1, <1>2, RowsIn
<1> QED BY <1>3, <1>4 DEF two, three

LEMMA RowsMore ==
    ASSUME NEW rows, AreRows(rows), NEW row, IsRow(row)
    PROVE  AreRows(Append(rows, row))
<1> DEFINE A == {rows[i] : i \in 1..Len(rows)}
           B == A \cup {row}
<1>1. rows \in Seq(A) /\ \A x \in A : IsRow(x)
    BY RowsAre
<1>2. row \in B /\ A \subseteq B /\ \A x \in B : IsRow(x)
    BY <1>1
<1> HIDE DEF A, B
<1>3. rows \in Seq(B)
    BY <1>1, <1>2, SeqMonotonic
<1>4. Append(rows, row) \in Seq(B)
    BY <1>2, <1>3, AppendProperties
<1> QED BY <1>2, <1>4, RowsIn

LEMMA RowsLess ==
    ASSUME NEW rows, AreRows(rows), NEW places
    PROVE  AreRows(Those(rows, places))
<1> DEFINE A == {rows[i] : i \in 1..Len(rows)}
<1>1. rows \in Seq(A) /\ \A x \in A : IsRow(x)
    BY RowsAre
<1> HIDE DEF A
<1> QED BY <1>1, ThoseIsSeq, RowsIn

LEMMA RowChanged ==
    ASSUME NEW rows, AreRows(rows), NEW i \in DOMAIN rows,
           NEW field \in {"qty", "rate", "hsn", "gst"}, NEW value, field # "hsn" => value \in Int
    PROVE  AreRows([rows EXCEPT ![i][field] = value])
<1> DEFINE row == [rows[i] EXCEPT ![field] = value]
           new == [rows EXCEPT ![i] = row]
<1>1. IsRow(rows[i])
    BY DEF AreRows
<1>2. IsRow(row)
    <2>1. DOMAIN row = {"id", "hsn", "qty", "rate", "gst"}
        BY <1>1 DEF IsRow
    <2>2. \A f \in {"qty", "rate", "gst"} :
             row[f] = IF f = field THEN value ELSE rows[i][f]
        BY <1>1 DEF IsRow
    <2> HIDE DEF row
    <2>3. \A f \in {"qty", "rate", "gst"} : row[f] \in Int
        BY <1>1, <2>2 DEF IsRow
    <2> QED BY <2>1, <2>3 DEF IsRow
<1> DEFINE A == {rows[k] : k \in 1..Len(rows)}
           B == A \cup {row}
<1>3. rows \in Seq(A) /\ \A x \in A : IsRow(x)
    BY RowsAre
<1>4. row \in B /\ A \subseteq B /\ \A x \in B : IsRow(x)
    BY <1>2, <1>3
<1>5. i \in 1..Len(rows)
    BY RowsAre
<1> HIDE DEF A, B, row
<1>6. rows \in Seq(B)
    BY <1>3, <1>4, SeqMonotonic
<1>7. new \in Seq(B)
    BY <1>4, <1>5, <1>6, ExceptSeq
<1>8. AreRows(new)
    <2> HIDE DEF new
    <2> QED BY <1>4, <1>7, RowsIn
<1> QED BY <1>8 DEF row

\* The options a studio sends are those of a bill.
LEMMA OptionsAreTyped ==
    ASSUME NEW op \in BillingOps, NEW rows, AreRows(rows), NEW inputs, AreInputs(inputs)
    PROVE  BillOptions(op, OptionsOf(op, rows, inputs))
<1> DEFINE n == Len(rows)
<1>1. n \in Nat /\ DOMAIN rows = 1..n
      /\ \A i \in 1..n : rows[i].qty \in Int /\ rows[i].rate \in Int /\ rows[i].gst \in Int
    <2>1. n \in Nat /\ DOMAIN rows = 1..n
        BY RowsAre
    <2> QED BY <2>1 DEF AreRows, IsRow
<1>2. CASE op = "gst-invoice-pdf"
    <2> DEFINE items == [i \in DOMAIN rows |->
                  [hsn |-> rows[i].hsn, qty |-> Or(rows[i].qty, One), rate |-> rows[i].rate,
                   gst |-> Or(rows[i].gst, 18), off |-> 0]]
               opt == OptionsOf(op, rows, inputs)
    <2>1. opt.items = items
        BY <1>2 DEF OptionsOf, GstOptions
    <2>2. items = [i \in 1..n |-> items[i]] /\ DOMAIN items = 1..n
        BY <1>1
    <2>3. \A i \in 1..n : {items[i].qty, items[i].rate, items[i].gst, items[i].off} \subseteq Int
        BY <1>1 DEF Or, One
    <2> HIDE DEF items
    <2>4. IsSeq(items)
        BY <1>1, <2>2, SeqOver
    <2> HIDE DEF opt
    <2>5. BillOptions(op, opt)
        BY <1>2, <2>1, <2>2, <2>3, <2>4 DEF BillOptions
    <2> QED BY <2>5 DEF opt
<1>3. CASE op \in {"pos-billing", "estimate-maker"}
    <2> DEFINE items == [i \in DOMAIN rows |->
                            [qty |-> Pieces(rows[i].qty), rate |-> AsTyped(rows[i].rate)]]
               opt == OptionsOf(op, rows, inputs)
    <2>1. /\ opt.items = items /\ opt.discount = inputs.discount /\ opt.tax = inputs.tax
          /\ opt.upi = inputs.upi
        BY <1>3 DEF OptionsOf, SlipOptions, EstimateOptions, Lines
    <2>2. items = [i \in 1..n |-> items[i]] /\ DOMAIN items = 1..n
        BY <1>1
    <2>3. \A i \in 1..n : {items[i].qty, items[i].rate} \subseteq Int
        BY <1>1 DEF Pieces, AsTyped, Or, One
    <2> HIDE DEF items
    <2>4. IsSeq(items)
        BY <1>1, <2>2, SeqOver
    <2> HIDE DEF opt
    <2>5. BillOptions(op, opt)
        BY <1>3, <2>1, <2>2, <2>3, <2>4 DEF BillOptions, AreInputs
    <2> QED BY <2>5 DEF opt
<1>4. CASE op = "tax-receipt"
    <2> DEFINE opt == OptionsOf(op, rows, inputs)
    <2>1. opt.amount = Donated(inputs.amount)
        BY <1>4 DEF OptionsOf, ReceiptOptions
    <2>2. opt.amount \in Int
        BY <2>1 DEF Donated, Or, AtLeast, AreInputs
    <2> HIDE DEF opt
    <2>3. BillOptions(op, opt)
        BY <1>4, <2>2 DEF BillOptions
    <2> QED BY <2>3 DEF opt
<1> QED BY <1>2, <1>3, <1>4 DEF BillingOps


\* A studio's form holds numbers, a bill that is under way has the options of
\* one, and one that is done is what its operation issues.
Billing == job.kind # "chain" /\ job.steps[1].op \in BillingOps
BillInv ==
    /\ job.kind = "studio" =>
          job.steps[1].op \in Open /\ AreRows(job.form.rows) /\ AreInputs(job.form.inputs)
    /\ Billing /\ status # "draft" => BillOptions(job.steps[1].op, job.steps[1].opt)
    /\ Billing /\ status = "done" =>
          LET made == Bills(job.steps[1].op, job.steps[1].opt)
          IN made.done /\ buffers = made.files

LEMMA BillsStart ==
    ASSUME Init \/ StudioInit
    PROVE  BillInv
<1>1. CASE Init
    <2>1. job \in Jobs /\ status = "queued"
        BY <1>1 DEF Init
    <2>2. job.kind # "studio"
        BY <2>1, PipelineAssumption
    <2>3. Billing => BillOptions(job.steps[1].op, job.steps[1].opt)
        BY <2>1, PipelineAssumption DEF Billing
    <2> QED BY <2>1, <2>2, <2>3 DEF BillInv
<1>2. CASE StudioInit
    <2>1. PICK op \in Open : job = Opened(op)
        BY <1>2 DEF StudioInit
    <2>2. status = "draft"
        BY <1>2 DEF StudioInit
    <2>3. /\ job.steps[1].op = op /\ job.form.rows = FirstRows(op)
          /\ job.form.inputs = FirstInputs(op)
        BY <2>1 DEF Opened
    <2>4. AreRows(FirstRows(op))
        <3>1. op \in BillingOps
            BY StudioAssumption
        <3>2. ASSUME NEW id, NEW hsn, NEW pieces \in Int, NEW rate \in Int
              PROVE  IsRow(Row(id, hsn, pieces, rate))
            BY DEF IsRow, Row, One
        <3>3. CASE op = "gst-invoice-pdf"
            <4> DEFINE a == Row(1, "998313", 1, 45000)
                       b == Row(2, "998314", 2, 12500)
            <4>1. IsRow(a) /\ IsRow(b) /\ FirstRows(op) = <<a, b>>
                BY <3>2, <3>3 DEF FirstRows
            <4> HIDE DEF a, b
            <4> QED BY <4>1, FewRows
        <3>4. CASE op = "pos-billing"
            <4> DEFINE a == Row(1, "none", 2, 120)
                       b == Row(2, "none", 1, 180)
                       c == Row(3, "none", 1, 40)
            <4>1. IsRow(a) /\ IsRow(b) /\ IsRow(c) /\ FirstRows(op) = <<a, b, c>>
                BY <3>2, <3>4 DEF FirstRows
            <4> HIDE DEF a, b, c
            <4> QED BY <4>1, FewRows
        <3>5. CASE op = "estimate-maker"
            <4> DEFINE a == Row(1, "none", 1, 3500)
                       b == Row(2, "none", 1, 6500)
                       c == Row(3, "none", 1, 2500)
            <4>1. IsRow(a) /\ IsRow(b) /\ IsRow(c) /\ FirstRows(op) = <<a, b, c>>
                BY <3>2, <3>5 DEF FirstRows
            <4> HIDE DEF a, b, c
            <4> QED BY <4>1, FewRows
        <3>6. CASE op = "tax-receipt"
            <4> DEFINE a == Row(1, "none", 1, 1)
            <4>1. IsRow(a) /\ FirstRows(op) = <<>>
                BY <3>2, <3>6 DEF FirstRows
            <4> HIDE DEF a
            <4> QED BY <4>1, FewRows
        <3> QED BY <3>1, <3>3, <3>4, <3>5, <3>6 DEF BillingOps
    <2>5. AreInputs(FirstInputs(op))
        BY DEF AreInputs, FirstInputs
    <2> QED BY <2>2, <2>3, <2>4, <2>5 DEF BillInv
<1> QED BY <1>1, <1>2

LEMMA EditsKeep ==
    ASSUME PipelineInv, BillInv, NEW rows, AreRows(rows), NEW nextId,
           NEW inputs, AreInputs(inputs), Edited(rows, nextId, inputs)
    PROVE  BillInv'
<1>1. StudioJob(job)
    BY PipelineAssumption DEF PipelineInv, Edited, Drafting
<1>2. /\ job.kind = "studio" /\ status' = "draft"
      /\ job' = [job EXCEPT !.form = [rows |-> rows, nextId |-> nextId, inputs |-> inputs,
                                      edits |-> job.form.edits + 1]]
    BY DEF Edited, Drafting
<1>3. /\ job'.kind = "studio" /\ job'.steps = job.steps
      /\ job'.form.rows = rows /\ job'.form.inputs = inputs
    BY <1>1, <1>2 DEF StudioJob
<1> QED BY <1>2, <1>3 DEF BillInv

LEMMA DraftsKeep ==
    ASSUME PipelineInv, BillInv, AddItem \/ DeleteItem \/ ChangeItem \/ ChangeInputs
    PROVE  BillInv'
<1> DEFINE form == job.form
<1>0. /\ job.kind = "studio" /\ Op \in Open /\ Op \in BillingOps
      /\ AreRows(form.rows) /\ AreInputs(form.inputs)
    <2>1. job.kind = "studio"
        BY DEF AddItem, DeleteItem, ChangeItem, ChangeInputs, Drafting
    <2> QED BY <2>1, StudioAssumption DEF BillInv, Op
<1>1. CASE AddItem
    <2> DEFINE row == NewRow(Op, form.nextId)
    <2>1. Edited(Append(form.rows, row), form.nextId + 1, form.inputs)
        BY <1>1 DEF AddItem
    <2>2. IsRow(row)
        <3>1. Op \in {"gst-invoice-pdf", "pos-billing", "estimate-maker"}
            BY <1>0, <1>1 DEF AddItem, BillingOps
        <3> QED BY <3>1 DEF NewRow, Row, IsRow, One
    <2> HIDE DEF row
    <2>3. AreRows(Append(form.rows, row))
        BY <1>0, <2>2, RowsMore
    <2> QED BY <1>0, <2>1, <2>3, EditsKeep
<1>2. CASE DeleteItem
    <2>1. PICK i \in DOMAIN form.rows :
              Edited(Those(form.rows, {k \in DOMAIN form.rows : form.rows[k].id # form.rows[i].id}),
                     form.nextId, form.inputs)
        BY <1>2 DEF DeleteItem
    <2> DEFINE places == {k \in DOMAIN form.rows : form.rows[k].id # form.rows[i].id}
    <2>2. Edited(Those(form.rows, places), form.nextId, form.inputs)
        BY <2>1
    <2> HIDE DEF places
    <2>3. AreRows(Those(form.rows, places))
        BY <1>0, RowsLess
    <2> QED BY <1>0, <2>2, <2>3, EditsKeep
<1>3. CASE ChangeItem
    <2>1. PICK i \in DOMAIN form.rows, field \in {"qty", "rate", "hsn", "gst"} :
              \E value \in Values(field) :
                 Edited([form.rows EXCEPT ![i][field] = value], form.nextId, form.inputs)
        BY <1>3 DEF ChangeItem
    <2>2. PICK value \in Values(field) :
              Edited([form.rows EXCEPT ![i][field] = value], form.nextId, form.inputs)
        BY <2>1
    <2>3. field # "hsn" => value \in Int
        BY StudioAssumption DEF Values
    <2> DEFINE rows == [form.rows EXCEPT ![i][field] = value]
    <2>4. AreRows(rows)
        <3> DEFINE before == form.rows
        <3>1. AreRows(before) /\ i \in DOMAIN before
            BY <1>0
        <3> HIDE DEF before
        <3>2. AreRows([before EXCEPT ![i][field] = value])
            BY <2>3, <3>1, RowChanged
        <3> QED BY <3>2 DEF before
    <2>5. Edited(rows, form.nextId, form.inputs)
        BY <2>2
    <2> HIDE DEF rows
    <2> QED BY <1>0, <2>4, <2>5, EditsKeep
<1>4. CASE ChangeInputs
    <2>1. PICK inputs \in Typed[Op] : Edited(form.rows, form.nextId, inputs)
        BY <1>4 DEF ChangeInputs
    <2>2. AreInputs(inputs)
        BY <1>0, StudioAssumption DEF AreInputs
    <2> QED BY <1>0, <2>1, <2>2, EditsKeep
<1> QED BY <1>1, <1>2, <1>3, <1>4

LEMMA RequestsKeep ==
    ASSUME PipelineInv, BillInv, Generate \/ Refused \/ Reset
    PROVE  BillInv'
<1>1. job.kind = "studio"
    BY DEF Generate, Drafting, Refused, Reset, PipelineInv
<1>2. StudioJob(job)
    BY <1>1, PipelineAssumption DEF PipelineInv
<1>3. /\ job.steps[1].op \in Open /\ job.steps[1].op \in BillingOps
      /\ AreRows(job.form.rows) /\ AreInputs(job.form.inputs)
    BY <1>1, StudioAssumption DEF BillInv
<1>4. ASSUME NEW x, job' = [job EXCEPT !.steps[1].opt = x]
      PROVE  /\ job'.kind = "studio" /\ job'.form = job.form
             /\ job'.steps[1].op = job.steps[1].op /\ job'.steps[1].opt = x
    <2> DEFINE step == [job.steps[1] EXCEPT !.opt = x]
               steps == [job.steps EXCEPT ![1] = step]
    <2>1. /\ DOMAIN job = {"kind", "files", "lenient", "steps", "form"}
          /\ DOMAIN job.steps[1] = {"op", "opt"} /\ IsSeq(job.steps) /\ Len(job.steps) = 1
        BY <1>2 DEF StudioJob
    <2>2. DOMAIN job.steps = 1..1
        BY <2>1, SeqIs
    <2>3. job'.kind = job.kind /\ job'.form = job.form /\ job'.steps = steps
        BY <1>4, <2>1
    <2>4. step.op = job.steps[1].op /\ step.opt = x
        BY <2>1
    <2> HIDE DEF step
    <2>5. steps[1] = step
        BY <2>2
    <2> HIDE DEF steps
    <2> QED BY <1>1, <2>3, <2>4, <2>5
<1>5. CASE Generate
    <2> DEFINE opt == OptionsOf(Op, job.form.rows, job.form.inputs)
    <2>1. job' = [job EXCEPT !.steps[1].opt = opt] /\ status' = "posting"
        BY <1>5 DEF Generate
    <2>2. BillOptions(job.steps[1].op, opt)
        BY <1>3, OptionsAreTyped DEF Op
    <2> HIDE DEF opt
    <2> QED BY <1>3, <1>4, <2>1, <2>2 DEF BillInv
<1>6. CASE Refused \/ Reset
    <2>1. job' = [job EXCEPT !.steps[1].opt = NoOptions] /\ status' = "draft"
        BY <1>6 DEF Refused, Reset, Shown
    <2> QED BY <1>3, <1>4, <2>1 DEF BillInv
<1> QED BY <1>5, <1>6

LEMMA WorkKeeps ==
    ASSUME PipelineInv, BillInv,
           RunLocally \/ Start \/ Report \/ StepSucceeds \/ StepThrows \/ TimeOut \/ Posted
             \/ UNCHANGED vars
    PROVE  BillInv'
<1>1. CASE RunLocally \/ Start \/ Report \/ TimeOut \/ Posted \/ UNCHANGED vars
    <2>1. job' = job /\ buffers' = buffers /\ (status' = "done" => status = "done")
          /\ (status' # "draft" => status # "draft")
        BY <1>1 DEF RunLocally, Start, Report, TimeOut, Posted, vars
    <2> QED BY <2>1 DEF BillInv, Billing
<1>2. CASE StepSucceeds \/ StepThrows
    <2>1. GoodJob(job) /\ at \in 1..Len(job.steps) /\ status = "running" /\ job' = job
        BY <1>2, JobIsGood DEF PipelineInv, StepSucceeds, StepThrows, After
    <2>2. CASE ~Billing
        BY <2>1, <2>2 DEF BillInv, Billing
    <2>3. CASE Billing
        <3> DEFINE op == job.steps[1].op
                   opt == job.steps[1].opt
        <3>1. job.kind # "chain" /\ at = 1 /\ Len(job.steps) = 1 /\ op \in BillingOps
            BY <2>1, <2>3 DEF GoodJob, Billing
        <3>2. Step.op = op /\ Step.opt = opt
            BY <3>1 DEF Step
        <3>3. CASE StepSucceeds
            <4>1. PICK outcome \in Outcomes : outcome.done /\ After(outcome.files)
                BY <3>3 DEF StepSucceeds
            <4>2. outcome = Outcome
                BY <3>1, <3>2 DEF Outcomes, BillingOps
            <4>3. outcome = Process(op, buffers, opt)
                BY <3>1, <3>2, <4>2 DEF Outcome, Known
            <4>4. Process(op, buffers, opt) = Bills(op, opt)
                BY <3>1 DEF Process, BillingOps
            <4>5. buffers' = outcome.files
                BY <3>1, <4>1 DEF After
            <4> HIDE DEF op, opt
            <4>6. Bills(op, opt).done /\ buffers' = Bills(op, opt).files
                BY <4>1, <4>3, <4>4, <4>5
            <4> QED BY <2>1, <2>3, <4>6 DEF BillInv, Billing, op, opt
        <3>4. CASE StepThrows
            <4>1. status' = "failed"
                BY <3>1, <3>4 DEF StepThrows
            <4> QED BY <2>1, <4>1 DEF BillInv, Billing
        <3> QED BY <1>2, <3>3, <3>4
    <2> QED BY <2>2, <2>3
<1> QED BY <1>1, <1>2

\* A bill that is done is whole, for every amount, quantity, rate and percentage
\* and any number of items: the invoice's summary adds up to its totals, its
\* rounding is half a rupee at most, its words say the amount and its foot has
\* room; a slip's total is its sum less the discount and with the tax, and the
\* roll is long enough for it (gst-invoice.ts:192-256, :831, pos-billing.ts:75-90,
\* estimate-maker.ts:86-337, tax-receipt.ts).
THEOREM BillsAreWhole == StudioSpec => []BillIsWhole
<1>1. Init \/ StudioInit => BillInv
    BY BillsStart
<1>2. PipelineInv /\ BillInv /\ [StudioNext]_vars => BillInv'
    <2>1. SUFFICES ASSUME PipelineInv, BillInv, [StudioNext]_vars PROVE BillInv'
        OBVIOUS
    <2>2. CASE AddItem \/ DeleteItem \/ ChangeItem \/ ChangeInputs
        BY <2>1, <2>2, DraftsKeep
    <2>3. CASE Generate \/ Refused \/ Reset
        BY <2>1, <2>3, RequestsKeep
    <2>4. CASE RunLocally \/ Start \/ Report \/ StepSucceeds \/ StepThrows \/ TimeOut \/ Posted
                 \/ UNCHANGED vars
        BY <2>1, <2>4, WorkKeeps
    <2> QED BY <2>1, <2>2, <2>3, <2>4 DEF StudioNext, Next
<1>3. BillInv => BillIsWhole
    <2>1. SUFFICES ASSUME BillInv, Billing, status = "done"
                   PROVE  Whole(job.steps[1].op, job.steps[1].opt, buffers[1].pages[1].of)
        BY DEF BillIsWhole, Billing, Whole
    <2> DEFINE op == job.steps[1].op
               opt == job.steps[1].opt
    <2>2. /\ op \in BillingOps /\ BillOptions(op, opt)
          /\ Bills(op, opt).done /\ buffers = Bills(op, opt).files
        BY <2>1 DEF BillInv, Billing
    <2> HIDE DEF op, opt
    <2>3. Whole(op, opt, buffers[1].pages[1].of)
        BY <2>2, IssuedIsWhole
    <2> QED BY <2>3 DEF op, opt
<1> QED BY <1>1, <1>2, <1>3, InvariantHolds, PTL DEF StudioSpec
=============================================================================
