----------------------------- MODULE SiteProofs -----------------------------
(***************************************************************************)
(* Theorems about the page of the tools, for any tools, files and limits:  *)
(* what is shown is what goes on, a result is that of its operation, and   *)
(* no file is taken twice; and about the addresses of the site, for any    *)
(* bookmarks: the script's tool is the one addressed, the server's tables  *)
(* and the script's mean the same, and every link leads somewhere.         *)
(***************************************************************************)
EXTENDS ToolPage, SiteNavigation, TLAPS, FiniteSetTheorems, SequenceTheorems, WellFoundedInduction

-----------------------------------------------------------------------------
(* The table of tools: whatever a tool shows is the panel of a studio.      *)

\* The panels of the studios are none of those that come and go.
StudioPanels ==
    {NoStudio, "signature-studio", "pdf-editor-studio", "gst-invoice-studio", "pos-billing-studio",
     "tax-receipt-studio", "estimate-studio", "p2p-share-studio"}
Tidy(table) == \A k \in DOMAIN table : table[k].studio \in StudioPanels

LEMMA JoinedIs ==
    ASSUME NEW f, NEW g, Tidy(f), Tidy(g)
    PROVE  Tidy(Joined(f, g))
BY DEF Tidy, Joined

LEMMA JoinedTidy ==
    ASSUME NEW f, NEW g, Tidy(f), Tidy(g)
    PROVE  Tidy(f ++ g)
BY JoinedIs DEF ++

LEMMA AllTidy ==
    ASSUME NEW keys, NEW mode, NEW input, NEW many, NEW studio \in StudioPanels
    PROVE  Tidy(All(keys, Contract(mode, input, many, studio)))
BY DEF Tidy, All, Contract

LEMMA PlainTidy ==
    ASSUME NEW keys, NEW input, NEW many
    PROVE  Tidy(All(keys, Plain(input, many)))
<1>1. NoStudio \in StudioPanels
    BY DEF StudioPanels
<1> QED BY <1>1, AllTidy DEF Plain

LEMMA ToolsTidy == Tidy(ToolDefinitions)
<1>0. {"signature-studio", "pdf-editor-studio", "gst-invoice-studio", "pos-billing-studio",
       "tax-receipt-studio", "estimate-studio", "p2p-share-studio"} \subseteq StudioPanels
    BY DEF StudioPanels
<1> HIDE DEF StudioPanels
<1>1. Tidy(CorePdfTools)
    BY PlainTidy, JoinedTidy DEF CorePdfTools
<1>2. Tidy(ConvertTools)
    BY PlainTidy, JoinedTidy DEF ConvertTools
<1>3. Tidy(MarkTools)
    BY <1>0, AllTidy, PlainTidy, JoinedTidy DEF MarkTools
<1>4. Tidy(EditorTools)
    BY <1>0, AllTidy DEF EditorTools
<1>5. Tidy(SafetyTools)
    BY PlainTidy DEF SafetyTools
<1>6. Tidy(ReadingTools)
    BY PlainTidy, JoinedTidy DEF ReadingTools
<1>7. Tidy(BusinessTools)
    BY <1>0, AllTidy, JoinedTidy DEF BusinessTools
<1>8. Tidy(DefinedTools)
    BY <1>1, <1>2, <1>3, <1>4, <1>5, <1>6, <1>7, JoinedTidy DEF DefinedTools
<1>9. Tidy([a \in {k \in DOMAIN ToolAliases : ToolAliases[k] \in DOMAIN DefinedTools} |->
            DefinedTools[ToolAliases[a]]])
    BY <1>8 DEF Tidy
<1> QED BY <1>8, <1>9, JoinedTidy DEF ToolDefinitions

LEMMA StudioOf == ASSUME NEW t PROVE ClientContract(t).studio \in StudioPanels
<1>1. CASE t \in DOMAIN ToolDefinitions
    BY <1>1, ToolsTidy DEF Tidy, ClientContract
<1>2. CASE t \notin DOMAIN ToolDefinitions
    BY <1>2 DEF ClientContract, Plain, Contract, StudioPanels
<1> QED BY <1>1, <1>2

Passing == {"dropzone", "staging", "progress", "result"}

LEMMA StudiosStay == ASSUME NEW t PROVE ClientContract(t).studio \notin Passing
BY StudioOf DEF StudioPanels, NoStudio, Passing

\* A page at rest shows a studio, the dropzone or nothing.
LEMMA HomeIsBlank ==
    ASSUME NEW t
    PROVE  /\ HomePanels(t) \cap {"staging", "progress", "result"} = {}
           /\ "dropzone" \in HomePanels(t) => RequiresInputFile(ClientContract(t))
BY StudiosStay DEF HomePanels, Passing

-----------------------------------------------------------------------------
(* Fit: what is valid of a selection *)

Increasing(f) == \A i, j \in DOMAIN f : i < j => f[i] < f[j]

LEMMA FirstNumbers ==
    ASSUME NEW n \in Nat
    PROVE  IsFiniteSet(1..n) /\ Cardinality(1..n) = n
<1>1. IsFiniteSet(1..n) /\ Cardinality(1..n) = IF 1 > n THEN 0 ELSE n - 1 + 1
  BY FS_Interval
<1>. QED
  BY <1>1

\* A finite set of numbers can be listed in increasing order.
LEMMA Listing ==
    ASSUME NEW n \in Nat, NEW S \in SUBSET (1..n)
    PROVE  \E f \in [1..Cardinality(S) -> S] : Increasing(f)
<1> DEFINE Listed(T) == \E f \in [1..Cardinality(T) -> T] : Increasing(f)
           Bad == {m \in Nat : \E T \in SUBSET (1..m) : ~Listed(T)}
<1>1. SUFFICES ASSUME Bad # {} PROVE FALSE
  BY <1>1
<1>2. \E m \in Bad : \A k \in Bad : ~ (<<k, m>> \in OpToRel(<, Nat))
  BY <1>1, NatLessThanWellFounded, WFMin
<1>3. PICK m \in Bad : \A k \in Bad : ~ (<<k, m>> \in OpToRel(<, Nat))
  BY <1>2
<1>4. ASSUME NEW k \in Nat, k < m, NEW T \in SUBSET (1..k) PROVE Listed(T)
  <2>1. <<k, m>> \in Nat \X Nat /\ <<k, m>>[1] = k /\ <<k, m>>[2] = m
    OBVIOUS
  <2>2. k \notin Bad
    BY <1>3, <1>4, <2>1 DEF OpToRel
  <2>. QED
    BY <1>4, <2>2
<1>5. PICK T \in SUBSET (1..m) : ~Listed(T)
  BY <1>3
<1>6. m \in Nat /\ IsFiniteSet(1..m) /\ IsFiniteSet(T)
  <2>1. m \in Nat
    BY <1>3
  <2>2. IsFiniteSet(1..m)
    BY <2>1, FirstNumbers
  <2>. QED
    BY <2>1, <2>2, FS_Subset
<1>7. CASE m \notin T
  <2>1. m # 0
    <3>1. ASSUME m = 0 PROVE FALSE
      <4>1. T = {}
        BY <3>1
      <4>2. Cardinality(T) = 0
        BY <4>1, FS_EmptySet
      <4>3. [i \in {} |-> 0] \in [1..0 -> T] /\ Increasing([i \in {} |-> 0])
        BY DEF Increasing
      <4>. QED
        BY <1>5, <4>2, <4>3
    <3>. QED
      BY <3>1
  <2>2. m - 1 \in Nat /\ m - 1 < m /\ T \in SUBSET (1..(m - 1))
    BY <1>6, <1>7, <2>1
  <2>. QED
    BY <1>4, <1>5, <2>2
<1>8. CASE m \in T
  <2> DEFINE U == T \ {m}
             c == Cardinality(U)
  <2>1. m - 1 \in Nat /\ m - 1 < m /\ U \in SUBSET (1..(m - 1))
    BY <1>6, <1>8
  <2>2. PICK f \in [1..c -> U] : Increasing(f)
    BY <1>4, <2>1
  <2>3. Cardinality(T) = c + 1 /\ c \in Nat
    <3>1. IsFiniteSet(U) /\ T = U \cup {m} /\ m \notin U
      BY <1>6, <1>8, FS_RemoveElement
    <3>. QED
      BY <3>1, FS_AddElement, FS_CardinalityType
  <2> HIDE DEF c
  <2> DEFINE g == [i \in 1..(c + 1) |-> IF i = c + 1 THEN m ELSE f[i]]
  <2>4. g \in [1..(c + 1) -> T]
    <3>1. ASSUME NEW i \in 1..(c + 1) PROVE g[i] \in T
      <4>1. i = c + 1 \/ i \in 1..c
        BY <2>3
      <4>. QED
        BY <1>8, <2>2, <4>1
    <3>. QED
      BY <3>1
  <2>5. Increasing(g)
    <3>1. SUFFICES ASSUME NEW i \in 1..(c + 1), NEW j \in 1..(c + 1), i < j PROVE g[i] < g[j]
      BY DEF Increasing
    <3>2. i \in 1..c /\ (j = c + 1 \/ j \in 1..c)
      BY <2>3, <3>1
    <3>3. g[i] = f[i]
      BY <2>3, <3>2
    <3>6. f[i] \in 1..(m - 1)
      BY <2>1, <2>2, <3>2
    <3>4. CASE j = c + 1
      BY <1>6, <3>3, <3>4, <3>6
    <3>5. CASE j \in 1..c
      BY <2>2, <2>3, <3>1, <3>2, <3>3, <3>5, <3>6 DEF Increasing
    <3>. QED
      BY <3>2, <3>4, <3>5
  <2>. QED
    BY <1>5, <2>3, <2>4, <2>5
<1>. QED
  BY <1>7, <1>8

\* What Fit keeps is of the selection, and nothing twice that was there once.
LEMMA FitKeeps ==
    ASSUME NEW t, NEW q \in Seq(Files)
    PROVE  /\ Fit(t, q) \in Seq(Files)
           /\ \A i \in 1..Len(Fit(t, q)) : Fit(t, q)[i] \in Range(q)
           /\ IsInjective(q) => IsInjective(Fit(t, q))
<1> DEFINE at == {i \in DOMAIN q : Valid(t, q[i])}
           n == Cardinality(at)
           nth == CHOOSE f \in [1..n -> at] : \A i, j \in DOMAIN f : i < j => f[i] < f[j]
<1>1. q \in [1..Len(q) -> Files] /\ Len(q) \in Nat /\ DOMAIN q = 1..Len(q) /\ at \in SUBSET (1..Len(q))
    BY LenProperties
<1>2. n \in Nat
    BY <1>1, FirstNumbers, FS_Subset, FS_CardinalityType
<1>3. nth \in [1..n -> at] /\ \A i, j \in DOMAIN nth : i < j => nth[i] < nth[j]
    <2>1. \E f \in [1..n -> at] : \A i, j \in DOMAIN f : i < j => f[i] < f[j]
        BY <1>1, Listing DEF Increasing
    <2> QED BY <2>1
<1>4. Fit(t, q) = [i \in DOMAIN nth |-> q[nth[i]]]
    BY DEF Fit
<1> HIDE DEF nth
<1>5. DOMAIN nth = 1..n /\ \A i \in 1..n : nth[i] \in 1..Len(q)
    BY <1>1, <1>3
<1> HIDE DEF n, at
<1>6. Fit(t, q) = [i \in 1..n |-> q[nth[i]]] /\ \A i \in 1..n : q[nth[i]] \in Files
    BY <1>1, <1>4, <1>5
<1>7. Fit(t, q) \in Seq(Files) /\ Len(Fit(t, q)) = n /\ DOMAIN Fit(t, q) = 1..n
    BY <1>2, <1>6
<1>8. ASSUME NEW i \in 1..n PROVE Fit(t, q)[i] \in Range(q)
    BY <1>1, <1>5, <1>6 DEF Range
<1>9. ASSUME IsInjective(q) PROVE IsInjective(Fit(t, q))
    <2>1. SUFFICES ASSUME NEW i \in 1..n, NEW j \in 1..n, q[nth[i]] = q[nth[j]] PROVE i = j
        BY <1>6, <1>7 DEF IsInjective
    <2>2. nth[i] = nth[j] /\ nth[i] \in Nat
        BY <1>1, <1>5, <1>9, <2>1 DEF IsInjective
    <2>3. ~(nth[i] < nth[j]) /\ ~(nth[j] < nth[i])
        BY <2>2
    <2> QED BY <1>2, <1>3, <1>5, <2>3
<1> QED BY <1>7, <1>8, <1>9

-----------------------------------------------------------------------------
(* Operations and the array they hold *)

JobStates == {"none", "queued", "COMPLETED", "FAILED"}

\* Two records of one operation that differ at most in the array it holds.
Alike(r, s) == s.tool = r.tool /\ s.step = r.step /\ s.at = r.at /\ s.taken = r.taken /\ s.job = r.job
Holding(r, s) == s.live = r.live /\ s.files = r.files

LEMMA OperationIs ==
    ASSUME NEW r \in Operations
    PROVE  /\ r = [tool |-> r.tool, step |-> r.step, live |-> r.live, files |-> r.files, at |-> r.at,
                   taken |-> r.taken, job |-> r.job]
           /\ r.tool \in Tools /\ r.step \in Steps /\ r.live \in BOOLEAN /\ r.files \in Seq(Files)
           /\ r.at \in Nat /\ r.taken \in Seq(Files) /\ r.job \in JobStates
<1> DEFINE S == Seq(Files)
<1>1. r \in [tool : Tools, step : Steps, live : BOOLEAN, files : S, at : Nat, taken : S, job : JobStates]
    BY DEF Operations, JobStates
<1> HIDE DEF S
<1> QED BY <1>1 DEF S

LEMMA IsOperation ==
    ASSUME NEW t \in Tools, NEW step \in Steps, NEW live \in BOOLEAN, NEW files \in Seq(Files), NEW at \in Nat,
           NEW taken \in Seq(Files), NEW job \in JobStates, NEW r,
           r = [tool |-> t, step |-> step, live |-> live, files |-> files, at |-> at, taken |-> taken, job |-> job]
    PROVE  /\ r \in Operations
           /\ r.tool = t /\ r.step = step /\ r.live = live /\ r.files = files /\ r.at = at /\ r.taken = taken
           /\ r.job = job
<1> DEFINE S == Seq(Files)
<1>1. files \in S /\ taken \in S
    OBVIOUS
<1> HIDE DEF S
<1>2. r \in [tool : Tools, step : Steps, live : BOOLEAN, files : S, at : Nat, taken : S, job : JobStates]
    BY <1>1
<1> QED BY <1>2 DEF Operations, JobStates, S

LEMMA StepIsSet ==
    ASSUME NEW r \in Operations, NEW step \in Steps, NEW h, h = [r EXCEPT !.step = step]
    PROVE  /\ h \in Operations /\ Holding(r, h)
           /\ h.tool = r.tool /\ h.step = step /\ h.at = r.at /\ h.taken = r.taken /\ h.job = r.job
<1>1. h = [tool |-> r.tool, step |-> step, live |-> r.live, files |-> r.files, at |-> r.at, taken |-> r.taken,
           job |-> r.job]
    BY OperationIs
<1> QED BY <1>1, OperationIs, IsOperation DEF Holding

LEMMA JobIsSet ==
    ASSUME NEW r \in Operations, NEW job \in JobStates, NEW h, h = [r EXCEPT !.job = job]
    PROVE  /\ h \in Operations /\ Holding(r, h)
           /\ h.tool = r.tool /\ h.step = r.step /\ h.at = r.at /\ h.taken = r.taken /\ h.job = job
<1>1. h = [tool |-> r.tool, step |-> r.step, live |-> r.live, files |-> r.files, at |-> r.at, taken |-> r.taken,
           job |-> job]
    BY OperationIs
<1> QED BY <1>1, OperationIs, IsOperation DEF Holding

LEMMA TakenIsSet ==
    ASSUME NEW r \in Operations, NEW taken \in Seq(Files), NEW h, h = [r EXCEPT !.taken = taken]
    PROVE  /\ h \in Operations /\ Holding(r, h)
           /\ h.tool = r.tool /\ h.step = r.step /\ h.at = r.at /\ h.taken = taken /\ h.job = r.job
<1>1. h = [tool |-> r.tool, step |-> r.step, live |-> r.live, files |-> r.files, at |-> r.at, taken |-> taken,
           job |-> r.job]
    BY OperationIs
<1> QED BY <1>1, OperationIs, IsOperation DEF Holding

LEMMA PlaceIsSet ==
    ASSUME NEW r \in Operations, NEW at \in Nat, NEW h, h = [r EXCEPT !.at = at]
    PROVE  /\ h \in Operations /\ Holding(r, h)
           /\ h.tool = r.tool /\ h.step = r.step /\ h.at = at /\ h.taken = r.taken /\ h.job = r.job
<1>1. h = [tool |-> r.tool, step |-> r.step, live |-> r.live, files |-> r.files, at |-> at, taken |-> r.taken,
           job |-> r.job]
    BY OperationIs
<1> QED BY <1>1, OperationIs, IsOperation DEF Holding

LEMMA FilesAreSet ==
    ASSUME NEW r \in Operations, NEW files \in Seq(Files), NEW h, h = [r EXCEPT !.files = files]
    PROVE  h \in Operations /\ Alike(r, h) /\ h.live = r.live /\ h.files = files
<1>1. h = [tool |-> r.tool, step |-> r.step, live |-> r.live, files |-> files, at |-> r.at, taken |-> r.taken,
           job |-> r.job]
    BY OperationIs
<1> QED BY SMTT(30), <1>1, OperationIs, IsOperation DEF Alike

LEMMA LiveIsSet ==
    ASSUME NEW r \in Operations, NEW live \in BOOLEAN, NEW h, h = [r EXCEPT !.live = live]
    PROVE  h \in Operations /\ Alike(r, h) /\ h.live = live /\ h.files = r.files
<1>1. h = [tool |-> r.tool, step |-> r.step, live |-> live, files |-> r.files, at |-> r.at, taken |-> r.taken,
           job |-> r.job]
    BY OperationIs
<1> QED BY <1>1, OperationIs, IsOperation DEF Alike

\* One operation of a list is replaced.
Beside(s, t, o) == t \in Seq(Operations) /\ DOMAIN t = DOMAIN s /\ \A q \in DOMAIN s : q # o => t[q] = s[q]

LEMMA Replaced ==
    ASSUME NEW s \in Seq(Operations), NEW o \in DOMAIN s, NEW r \in Operations, NEW t, t = [s EXCEPT ![o] = r]
    PROVE  Beside(s, t, o) /\ t[o] = r
<1> DEFINE n == Len(s)
<1>1. n \in Nat /\ s \in [1..n -> Operations] /\ DOMAIN s = 1..n
    BY LenProperties
<1> HIDE DEF n
<1>2. t \in [1..n -> Operations] /\ t[o] = r /\ \A q \in DOMAIN s : q # o => t[q] = s[q]
    BY <1>1
<1>3. t \in Seq(Operations)
    BY <1>1, <1>2
<1> QED BY <1>1, <1>2, <1>3 DEF Beside

\* The step of one operation is set, all else stays.
StepSet(s, t, o, step) ==
    /\ Beside(s, t, o) /\ Holding(s[o], t[o])
    /\ t[o].tool = s[o].tool /\ t[o].step = step /\ t[o].at = s[o].at /\ t[o].taken = s[o].taken
    /\ t[o].job = s[o].job

LEMMA SettingTheStep ==
    ASSUME NEW s \in Seq(Operations), NEW o \in DOMAIN s, NEW step \in Steps, NEW t, t = [s EXCEPT ![o].step = step]
    PROVE  StepSet(s, t, o, step)
<1> DEFINE r == [s[o] EXCEPT !.step = step]
<1>1. s[o] \in Operations
    BY ElementOfSeq, LenProperties
<1>2. r = [s[o] EXCEPT !.step = step] /\ t = [s EXCEPT ![o] = r]
    OBVIOUS
<1> HIDE DEF r
<1>3. /\ r \in Operations /\ Holding(s[o], r)
      /\ r.tool = s[o].tool /\ r.step = step /\ r.at = s[o].at /\ r.taken = s[o].taken /\ r.job = s[o].job
    BY <1>1, <1>2, StepIsSet
<1>4. Beside(s, t, o) /\ t[o] = r
    BY <1>2, <1>3, Replaced
<1> QED BY <1>3, <1>4 DEF StepSet

JobSet(s, t, o, job) ==
    /\ Beside(s, t, o) /\ Holding(s[o], t[o])
    /\ t[o].tool = s[o].tool /\ t[o].step = s[o].step /\ t[o].at = s[o].at /\ t[o].taken = s[o].taken
    /\ t[o].job = job

LEMMA SettingTheJob ==
    ASSUME NEW s \in Seq(Operations), NEW o \in DOMAIN s, NEW job \in JobStates, NEW t, t = [s EXCEPT ![o].job = job]
    PROVE  JobSet(s, t, o, job)
<1> DEFINE r == [s[o] EXCEPT !.job = job]
<1>1. s[o] \in Operations
    BY ElementOfSeq, LenProperties
<1>2. r = [s[o] EXCEPT !.job = job] /\ t = [s EXCEPT ![o] = r]
    OBVIOUS
<1> HIDE DEF r
<1>3. /\ r \in Operations /\ Holding(s[o], r)
      /\ r.tool = s[o].tool /\ r.step = s[o].step /\ r.at = s[o].at /\ r.taken = s[o].taken /\ r.job = job
    BY <1>1, <1>2, JobIsSet
<1>4. Beside(s, t, o) /\ t[o] = r
    BY <1>2, <1>3, Replaced
<1> QED BY <1>3, <1>4 DEF JobSet

LEMMA SetTwice ==
    ASSUME NEW f, NEW x, NEW a, NEW b
    PROVE  [[f EXCEPT ![x] = a] EXCEPT ![x] = b] = [f EXCEPT ![x] = b]
    OBVIOUS

Reads == [for : Tools, files : Seq(Files), append : BOOLEAN]

Typed ==
    /\ PageTypeOK
    /\ reads \in Seq(Reads) /\ ops \in Seq(Operations) /\ asked \in Seq(0..MaxAsked)

LEMMA OpsAre ==
    ASSUME Typed, NEW o \in DOMAIN ops
    PROVE  ops[o] \in Operations /\ FilesOf(o) \in Seq(Files) /\ ops[o].live \in BOOLEAN /\ ops[o].files \in Seq(Files)
<1>1. ops[o] \in Operations
    BY DEF Typed, PageTypeOK
<1> QED BY <1>1, OperationIs DEF Typed, PageTypeOK, FilesOf

LEMMA DetachedIs ==
    ASSUME Typed
    PROVE  /\ Detached \in Seq(Operations) /\ DOMAIN Detached = DOMAIN ops
           /\ \A o \in DOMAIN ops : Alike(ops[o], Detached[o]) /\ Detached[o].live = FALSE
                                    /\ Detached[o].files = FilesOf(o)
<1> DEFINE first(o) == [ops[o] EXCEPT !.files = FilesOf(o)]
           F(o) == [first(o) EXCEPT !.live = FALSE]
<1>1. ASSUME NEW o \in DOMAIN ops
      PROVE  F(o) \in Operations /\ Alike(ops[o], F(o)) /\ F(o).live = FALSE /\ F(o).files = FilesOf(o)
    <2>1. ops[o] \in Operations /\ FilesOf(o) \in Seq(Files)
        BY OpsAre
    <2> DEFINE r == first(o)
    <2>2. r \in Operations /\ Alike(ops[o], r) /\ r.files = FilesOf(o)
        <3>1. r = [ops[o] EXCEPT !.files = FilesOf(o)]
            OBVIOUS
        <3> HIDE DEF r
        <3> QED BY <2>1, <3>1, FilesAreSet
    <2> DEFINE h == F(o)
    <2>3. h \in Operations /\ Alike(r, h) /\ h.live = FALSE /\ h.files = r.files
        <3>1. h = [r EXCEPT !.live = FALSE] /\ FALSE \in BOOLEAN
            OBVIOUS
        <3> HIDE DEF h, r
        <3> QED BY <2>2, <3>1, LiveIsSet
    <2> HIDE DEF r
    <2> QED BY <2>2, <2>3 DEF Alike
<1>2. Detached = [o \in DOMAIN ops |-> F(o)]
    BY DEF Detached
<1> HIDE DEF F
<1>3. DOMAIN ops = 1..Len(ops) /\ Len(ops) \in Nat
    BY LenProperties DEF Typed
<1>4. Detached \in Seq(Operations)
    <2> DEFINE n == Len(ops)
    <2>1. n \in Nat /\ DOMAIN ops = 1..n
        BY <1>3
    <2> HIDE DEF n
    <2>2. Detached \in [1..n -> Operations]
        BY <1>1, <1>2, <2>1
    <2> QED BY <2>1, <2>2
<1> QED BY <1>1, <1>2, <1>4

-----------------------------------------------------------------------------
(* What a step does to the operations *)

\* An operation goes on, in its step, in what it took or in what the service says.
Moved(r, s) ==
    /\ s.tool = r.tool
    /\ \/ Alike(r, s)
       \/ r.step = "local" /\ s.step = "local" /\ s.job = r.job
       \/ r.step = "direct" /\ s.step = "posting" /\ s.job = r.job
       \/ r.step \in {"local", "direct"} /\ s.step = "done" /\ s.job = r.job
       \/ r.step \in {"local", "posting"} /\ s.step = "failed" /\ s.job = r.job
       \/ r.step = "posting" /\ s.step = "polling" /\ s.job = "queued"
       \/ r.job = "queued" /\ s.step = r.step /\ s.job \in {"COMPLETED", "FAILED"}
       \/ r.job = "COMPLETED" /\ s.step = "done" /\ s.job = r.job
       \/ r.job = "FAILED" /\ s.step = "failed" /\ s.job = r.job

OpsMove ==
    /\ ops' \in Seq(Operations)
    /\ \A o \in DOMAIN ops : o \in DOMAIN ops' /\ Moved(ops[o], ops'[o])
    /\ \A o \in DOMAIN ops' : o \notin DOMAIN ops => ops'[o].job = "none" /\ ops'[o].step \in Running

LEMMA NothingMoves == ASSUME Typed, ops' = ops PROVE OpsMove
BY DEF OpsMove, Moved, Alike, Typed

LEMMA DetachedMove == ASSUME Typed, ops' = Detached PROVE OpsMove
BY DetachedIs DEF OpsMove, Moved, Alike

\* The operations as they stand, or with the staged array taken from them.
Standing(s) == s \in {ops, Detached}

LEMMA OneMoves ==
    ASSUME Typed, NEW o \in DOMAIN ops, NEW s, NEW t, Standing(s), Beside(s, t, o), Moved(s[o], t[o]),
           ops' = t
    PROVE  OpsMove
<1>1. DOMAIN s = DOMAIN ops /\ \A q \in DOMAIN ops : Alike(ops[q], s[q])
    BY DetachedIs DEF Alike, Standing
<1>2. ASSUME NEW q \in DOMAIN ops PROVE q \in DOMAIN t /\ Moved(ops[q], t[q])
    <2>1. Moved(s[q], t[q])
        BY <1>1 DEF Beside, Moved, Alike
    <2> QED BY <1>1, <2>1 DEF Beside, Moved, Alike
<1> QED BY <1>1, <1>2 DEF OpsMove, Beside

LEMMA StepMoves ==
    ASSUME Typed, NEW o \in DOMAIN ops, NEW s, Standing(s), NEW step \in Steps,
           ops' = [s EXCEPT ![o].step = step],
           \/ ops[o].step = "direct" /\ step = "posting"
           \/ ops[o].step \in {"local", "direct"} /\ step = "done"
           \/ ops[o].step \in {"local", "posting"} /\ step = "failed"
           \/ ops[o].job = "COMPLETED" /\ step = "done"
           \/ ops[o].job = "FAILED" /\ step = "failed"
    PROVE  OpsMove /\ StepSet(s, ops', o, step) /\ DOMAIN ops' = DOMAIN ops
<1>1. s \in Seq(Operations) /\ DOMAIN s = DOMAIN ops /\ Alike(ops[o], s[o])
    BY DetachedIs DEF Alike, Typed, Standing
<1>2. StepSet(s, ops', o, step)
    BY <1>1, SettingTheStep
<1>3. Moved(s[o], ops'[o])
    BY <1>1, <1>2 DEF StepSet, Moved, Alike
<1>4. Beside(s, ops', o)
    BY <1>2 DEF StepSet
<1>5. DOMAIN ops' = DOMAIN ops
    BY <1>1, <1>4 DEF Beside
<1>6. OpsMove
    BY <1>3, <1>4, OneMoves
<1> QED BY <1>2, <1>5, <1>6

LEMMA FailsIs ==
    ASSUME Typed, NEW o \in DOMAIN ops, Fails(o), ops[o].step \in {"local", "posting"} \/ ops[o].job = "FAILED"
    PROVE  OpsMove /\ StepSet(Detached, ops', o, "failed") /\ DOMAIN ops' = DOMAIN ops
<1>1. ops' = [Detached EXCEPT ![o].step = "failed"] /\ "failed" \in Steps
    BY DEF Fails, ResetTo, Steps
<1>2. Standing(Detached)
    BY DEF Standing
<1> QED BY <1>1, <1>2, StepMoves

LEMMA LocalStepIs ==
    ASSUME Typed, NEW o \in DOMAIN ops, LocalStep(o)
    PROVE  /\ OpsMove /\ Beside(ops, ops', o) /\ Holding(ops[o], ops'[o])
           /\ ops'[o].tool = ops[o].tool /\ ops'[o].step = "local" /\ ops'[o].job = ops[o].job
           /\ ops[o].at + 1 \in 1..Len(FilesOf(o)) /\ ops'[o].at = ops[o].at + 1
           /\ ops'[o].taken = Append(ops[o].taken, FilesOf(o)[ops[o].at + 1])
<1> DEFINE f == FilesOf(o)[ops[o].at + 1]
           r == [ops[o] EXCEPT !.at = ops[o].at + 1]
           h == [r EXCEPT !.taken = Append(r.taken, f)]
<1>1. ops[o] \in Operations /\ FilesOf(o) \in Seq(Files)
    BY OpsAre
<1>2. /\ ops[o].at + 1 \in Nat /\ ops[o].taken \in Seq(Files)
      /\ ops[o].at + 1 \in 1..Len(FilesOf(o)) /\ f \in Files
    <2>1. ops[o].at \in Nat /\ ops[o].taken \in Seq(Files) /\ ops[o].at < Len(FilesOf(o)) /\ Len(FilesOf(o)) \in Nat
        BY <1>1, OperationIs, LenProperties DEF LocalStep
    <2> QED BY <1>1, <2>1, ElementOfSeq
<1>3. ops' = [[ops EXCEPT ![o] = r] EXCEPT
                ![o] = [[ops EXCEPT ![o] = r][o] EXCEPT !.taken = Append([ops EXCEPT ![o] = r][o].taken, f)]]
    BY DEF LocalStep
<1> HIDE DEF f
<1>4. /\ r \in Operations /\ Holding(ops[o], r)
      /\ r.tool = ops[o].tool /\ r.step = ops[o].step /\ r.at = ops[o].at + 1 /\ r.taken = ops[o].taken
      /\ r.job = ops[o].job
    <2>1. r = [ops[o] EXCEPT !.at = ops[o].at + 1]
        OBVIOUS
    <2> HIDE DEF r
    <2> QED BY <1>1, <1>2, <2>1, PlaceIsSet
<1>5. Append(r.taken, f) \in Seq(Files)
    BY <1>2, <1>4, AppendProperties
<1>6. /\ h \in Operations /\ Holding(r, h)
      /\ h.tool = r.tool /\ h.step = r.step /\ h.at = r.at /\ h.taken = Append(r.taken, f) /\ h.job = r.job
    <2> DEFINE taken == Append(r.taken, f)
    <2>1. h = [r EXCEPT !.taken = taken] /\ taken \in Seq(Files)
        BY <1>5
    <2> HIDE DEF h, r
    <2>2. ASSUME NEW u \in Seq(Files), h = [r EXCEPT !.taken = u]
          PROVE  /\ h \in Operations /\ Holding(r, h)
                 /\ h.tool = r.tool /\ h.step = r.step /\ h.at = r.at /\ h.taken = u /\ h.job = r.job
        BY <1>4, <2>2, TakenIsSet
    <2> HIDE DEF taken
    <2>3. /\ h \in Operations /\ Holding(r, h)
          /\ h.tool = r.tool /\ h.step = r.step /\ h.at = r.at /\ h.taken = taken /\ h.job = r.job
        BY <2>1, <2>2
    <2> QED BY <2>3 DEF taken
<1>7. ops' = [ops EXCEPT ![o] = h]
    <2> DEFINE first == [ops EXCEPT ![o] = r]
    <2>1. first[o] = r
        OBVIOUS
    <2>2. ops' = [first EXCEPT ![o] = [first[o] EXCEPT !.taken = Append(first[o].taken, f)]]
        BY <1>3
    <2>3. ops' = [first EXCEPT ![o] = h]
        BY <2>1, <2>2
    <2> HIDE DEF h, r
    <2> QED BY <2>3, SetTwice
<1> HIDE DEF h, r
<1>8. Beside(ops, ops', o) /\ ops'[o] = h
    BY <1>6, <1>7, Replaced DEF Typed
<1>9. Moved(ops[o], ops'[o]) /\ ops[o].step = "local"
    BY <1>4, <1>6, <1>8 DEF Moved, LocalStep
<1>10. OpsMove
    <2>1. Standing(ops)
        BY DEF Standing
    <2> QED BY <1>8, <1>9, <2>1, OneMoves
<1> QED BY <1>2, <1>4, <1>6, <1>8, <1>9, <1>10 DEF Holding, f

-----------------------------------------------------------------------------
(* Types *)

Rest ==
    /\ tool \in Tools /\ keyed \in BOOLEAN /\ anim \in BOOLEAN
    /\ staged \in Seq(Files) /\ fresh \subseteq Files /\ work \in 0..MaxWork

Lists ==
    /\ reads \in Seq(Reads) /\ Len(reads) <= MaxReads
    /\ ops \in Seq(Operations)
    /\ asked \in Seq(0..MaxAsked) /\ DOMAIN asked = DOMAIN ops
    /\ poll \in {0} \cup DOMAIN ops

LEMMA TypedHas == ASSUME Typed PROVE Rest /\ Lists
BY DEF Typed, PageTypeOK, Rest, Lists

LEMMA TypedFrom == ASSUME Rest', Lists' PROVE Typed'
<1>1. \A i \in DOMAIN reads' : reads'[i] \in Reads
    BY ElementOfSeq, LenProperties DEF Lists
<1>2. \A o \in DOMAIN ops' : ops'[o] \in Operations
    BY ElementOfSeq, LenProperties DEF Lists
<1>3. \A o \in DOMAIN asked' : asked'[o] \in 0..MaxAsked
    BY ElementOfSeq, LenProperties DEF Lists
<1>4. PageTypeOK'
    BY <1>1, <1>2, <1>3 DEF PageTypeOK, Rest, Lists, Reads
<1> QED BY <1>4 DEF Typed, Lists

LEMMA Worked == ASSUME Typed, Does PROVE work' \in 0..MaxWork
BY ToolPageAssumption DEF Does, Typed, PageTypeOK

LEMMA AskedIs ==
    ASSUME Typed, NEW o \in DOMAIN ops, NEW n \in 0..MaxAsked, asked' = [asked EXCEPT ![o] = n]
    PROVE  asked' \in Seq(0..MaxAsked) /\ DOMAIN asked' = DOMAIN ops
<1> DEFINE S == 0..MaxAsked
           m == Len(asked)
<1>1. asked \in [1..m -> S] /\ m \in Nat /\ DOMAIN asked = DOMAIN ops /\ DOMAIN asked = 1..m /\ n \in S
    BY LenProperties DEF Typed, PageTypeOK
<1> HIDE DEF S, m
<1>2. asked' \in [1..m -> S]
    BY <1>1
<1>3. asked' \in Seq(S)
    BY <1>1, <1>2
<1> QED BY <1>1, <1>2, <1>3 DEF S

LEMMA AnswerIs ==
    ASSUME Typed, NEW o \in DOMAIN ops, asked[o] > 0, asked' = [asked EXCEPT ![o] = @ - 1]
    PROVE  asked' \in Seq(0..MaxAsked) /\ DOMAIN asked' = DOMAIN ops
<1>1. asked[o] - 1 \in 0..MaxAsked
    BY SMTT(30), ToolPageAssumption DEF Typed, PageTypeOK
<1> QED BY <1>1, AskedIs

\* The lists of a step that leaves the selections and the requests alone.
LEMMA ListsStand ==
    ASSUME Typed, reads' = reads, asked' = asked, poll' \in {0, poll},
           ops' \in Seq(Operations), DOMAIN ops' = DOMAIN ops
    PROVE  Lists'
BY DEF Typed, PageTypeOK, Lists

-----------------------------------------------------------------------------
(* The invariants, and what a step must do to keep them *)

OpsInv ==
    \A o \in DOMAIN ops :
        /\ ops[o].job # "none" => ops[o].step \in {"polling", "done", "failed"}
        /\ ops[o].step = "done" => ops[o].job \in {"none", "COMPLETED"}

ResultInv ==
    result # NoResult =>
        /\ result.op \in DOMAIN ops
        /\ ops[result.op].step = "done"
        /\ result.tool = ops[result.op].tool

\* A dropzone is shown for a tool that takes files only.
BlankInv == DropzoneIsBlank /\ ("dropzone" \in shown => RequiresInputFile(ClientContract(tool)))

PageInv == Typed /\ OpsInv /\ ResultInv /\ ProgressIsReal /\ BlankInv

ResultMoves ==
    \/ result' = result
    \/ \E o \in DOMAIN ops : ops'[o].step = "done" /\ result' = [op |-> o, tool |-> ops[o].tool]

Runs(r) == r.step \in Running

\* Whoever sees progress next sees something under way.
ProgressMoves ==
    "progress" \in shown' =>
        \/ /\ "progress" \in shown
           /\ poll' = poll \/ poll' # 0
           /\ \A o \in DOMAIN ops : Runs(ops[o]) => o \in DOMAIN ops' /\ Runs(ops'[o])
        \/ poll' # 0
        \/ \E o \in DOMAIN ops' : Runs(ops'[o])

Keeps == Typed' /\ OpsMove /\ ResultMoves /\ ProgressMoves /\ BlankInv'

LEMMA OpsInvKept == ASSUME OpsInv, OpsMove PROVE OpsInv'
<1>1. SUFFICES ASSUME NEW o \in DOMAIN ops'
      PROVE  /\ ops'[o].job # "none" => ops'[o].step \in {"polling", "done", "failed"}
             /\ ops'[o].step = "done" => ops'[o].job \in {"none", "COMPLETED"}
    BY DEF OpsInv
<1>2. CASE o \in DOMAIN ops
    <2>1. /\ ops[o].job # "none" => ops[o].step \in {"polling", "done", "failed"}
          /\ ops[o].step = "done" => ops[o].job \in {"none", "COMPLETED"}
        BY <1>2 DEF OpsInv
    <2>2. Moved(ops[o], ops'[o])
        BY <1>2 DEF OpsMove
    <2> QED BY <2>1, <2>2 DEF Moved, Alike
<1>3. CASE o \notin DOMAIN ops
    BY <1>1, <1>3 DEF OpsMove, Running
<1> QED BY <1>2, <1>3

LEMMA DoneStays ==
    ASSUME OpsInv, OpsMove, NEW o \in DOMAIN ops, ops[o].step = "done"
    PROVE  o \in DOMAIN ops' /\ ops'[o].step = "done" /\ ops'[o].tool = ops[o].tool
<1>1. ops[o].job \in {"none", "COMPLETED"}
    BY DEF OpsInv
<1>2. o \in DOMAIN ops' /\ Moved(ops[o], ops'[o])
    BY DEF OpsMove
<1> QED BY <1>1, <1>2 DEF Moved, Alike

LEMMA ResultInvKept == ASSUME OpsInv, OpsMove, ResultInv, ResultMoves PROVE ResultInv'
<1>1. CASE result' = result
    BY <1>1, DoneStays DEF ResultInv
<1>2. ASSUME NEW o \in DOMAIN ops, ops'[o].step = "done", result' = [op |-> o, tool |-> ops[o].tool]
      PROVE  ResultInv'
    <2>1. o \in DOMAIN ops' /\ ops'[o].tool = ops[o].tool
        BY DEF OpsMove, Moved
    <2> QED BY <1>2, <2>1 DEF ResultInv
<1> QED BY <1>1, <1>2 DEF ResultMoves

LEMMA ProgressKept == ASSUME ProgressIsReal, ProgressMoves PROVE ProgressIsReal'
BY DEF ProgressIsReal, ProgressMoves, Runs

LEMMA InvKept == ASSUME PageInv, Keeps PROVE PageInv'
BY OpsInvKept, ResultInvKept, ProgressKept DEF PageInv, Keeps

LEMMA InvHolds == ASSUME PageInv PROVE PageIsSound /\ ResultIsItsOwn
BY DEF PageInv, PageIsSound, Typed, ResultIsItsOwn, BlankInv, ResultInv, OpsInv

-----------------------------------------------------------------------------
(* The steps of the visitor *)

LEMMA AtHome ==
    ASSUME shown' = HomePanels(tool'), staged' = <<>>
    PROVE  ProgressMoves /\ BlankInv'
<1>1. "progress" \notin shown' /\ shown' \cap {"staging", "progress", "result"} = {}
    BY HomeIsBlank
<1>2. "dropzone" \in shown' => RequiresInputFile(ClientContract(tool'))
    BY HomeIsBlank
<1>3. BlankInv'
    BY <1>1, <1>2 DEF BlankInv, DropzoneIsBlank, ClientContract, RequiresInputFile
<1> QED BY <1>1, <1>3 DEF ProgressMoves

\* A reset, whoever brings it about.
LEMMA ResetKeeps ==
    ASSUME Typed, ResetTo(tool', ops'), OpsMove, DOMAIN ops' = DOMAIN ops, tool' \in Tools,
           work' \in 0..MaxWork, keyed' = keyed, fresh' = fresh, reads' = reads, poll' = poll, asked' = asked,
           result' = result
    PROVE  Keeps
<1>1. Rest'
    BY EmptySeq DEF Typed, PageTypeOK, Rest, ResetTo
<1>2. Lists'
    BY ListsStand DEF OpsMove
<1>3. ProgressMoves /\ BlankInv'
    BY AtHome DEF ResetTo
<1> QED BY <1>1, <1>2, <1>3, TypedFrom DEF Keeps, ResultMoves

LEMMA SwitchToolKeeps == ASSUME Typed, SwitchTool PROVE Keeps
<1>1. ops' = Detached /\ ResetTo(tool', ops')
    BY DEF SwitchTool, ResetTo
<1> QED BY <1>1, DetachedIs, DetachedMove, Worked, ResetKeeps DEF SwitchTool

LEMMA ResetWorkspaceKeeps == ASSUME Typed, ResetWorkspace PROVE Keeps
<1>1. ops' = Detached /\ ResetTo(tool', ops') /\ tool' \in Tools
    BY DEF ResetWorkspace, ResetTo, Typed, PageTypeOK
<1> QED BY <1>1, DetachedIs, DetachedMove, Worked, ResetKeeps DEF ResetWorkspace

\* Nothing but the visitor's own affairs.
LEMMA PageStands ==
    ASSUME PageInv, tool' = tool, shown' = shown, staged' = staged, poll' = poll, result' = result, ops' = ops
    PROVE  OpsMove /\ ResultMoves /\ ProgressMoves /\ BlankInv'
<1>1. OpsMove
    BY NothingMoves DEF PageInv
<1>2. BlankInv'
    BY DEF PageInv, BlankInv, DropzoneIsBlank
<1> QED BY <1>1, <1>2 DEF ResultMoves, ProgressMoves

LEMMA SaveKeyKeeps == ASSUME PageInv, SaveKey PROVE Keeps
<1>1. Rest'
    BY Worked DEF PageInv, Typed, PageTypeOK, Rest, SaveKey
<1>2. Lists'
    BY ListsStand DEF PageInv, Typed, SaveKey
<1> QED BY <1>1, <1>2, TypedFrom, PageStands DEF Keeps, SaveKey

LEMMA SelectionIs ==
    ASSUME NEW r, NEW t \in Tools, NEW files \in Seq(Files), NEW append \in BOOLEAN,
           r = [for |-> t, files |-> files, append |-> append]
    PROVE  r \in Reads /\ r.for = t /\ r.files = files /\ r.append = append
<1> DEFINE S == Seq(Files)
<1>1. files \in S
    OBVIOUS
<1> HIDE DEF S
<1>2. r \in [for : Tools, files : S, append : BOOLEAN]
    BY <1>1
<1> QED BY <1>2 DEF Reads, S

\* A selection is of files not selected before, none of them twice.
LEMMA SelectIs ==
    ASSUME Typed, Select
    PROVE  \E append \in BOOLEAN, files \in Seq(Files), r \in Reads :
              /\ r = [for |-> tool, files |-> files, append |-> append] /\ reads' = Append(reads, r)
              /\ IsInjective(files) /\ Range(files) \subseteq fresh /\ fresh' = fresh \ Range(files)
<1>1. PICK append \in BOOLEAN, files \in {s \in SeqOf(fresh, 2) : s # <<>> /\ IsInjective(s)} :
          /\ reads' = Append(reads, [for |-> tool, files |-> files, append |-> append])
          /\ fresh' = fresh \ Range(files)
    BY DEF Select
<1>2. IsInjective(files) /\ files \in Seq(fresh) /\ fresh \subseteq Files
    <2>1. PICK m \in 0..2 : files \in [1..m -> fresh]
        BY <1>1 DEF SeqOf
    <2>2. files \in Seq(fresh)
        BY <2>1
    <2>3. fresh \subseteq Files
        BY DEF Typed, PageTypeOK
    <2> QED BY <1>1, <2>2, <2>3
<1>3. files \in Seq(Files) /\ Range(files) \subseteq fresh
    <2>1. files \in [1..Len(files) -> fresh] /\ Len(files) \in Nat /\ DOMAIN files = 1..Len(files)
        BY <1>2, LenProperties
    <2>2. files \in [1..Len(files) -> Files]
        BY <1>2, <2>1
    <2> QED BY <2>1, <2>2 DEF Range
<1> DEFINE r == [for |-> tool, files |-> files, append |-> append]
<1>4. tool \in Tools /\ append \in BOOLEAN
    BY <1>1 DEF Typed, PageTypeOK
<1>5. r \in Reads
    BY <1>3, <1>4, SelectionIs
<1> QED BY <1>1, <1>2, <1>3, <1>4, <1>5

LEMMA SelectKeeps == ASSUME PageInv, Select PROVE Keeps
<1>0. Typed
    BY DEF PageInv
<1>1. PICK append \in BOOLEAN, files \in Seq(Files), r \in Reads :
         /\ r = [for |-> tool, files |-> files, append |-> append] /\ reads' = Append(reads, r)
         /\ fresh' = fresh \ Range(files)
    BY <1>0, SelectIs
<1>2. r \in Reads /\ reads \in Seq(Reads) /\ Len(reads) \in Nat /\ Len(reads) < MaxReads /\ MaxReads \in Nat
    BY <1>0, <1>1, SelectionIs, LenProperties, ToolPageAssumption DEF Typed, PageTypeOK, Select
<1>3. reads' \in Seq(Reads) /\ Len(reads') <= MaxReads
    BY <1>1, <1>2, AppendProperties
<1>4. Rest'
    BY <1>0, <1>1, Worked DEF Typed, PageTypeOK, Rest, Select
<1>5. Lists'
    BY <1>0, <1>3 DEF Typed, PageTypeOK, Lists, Select
<1> QED BY <1>4, <1>5, TypedFrom, PageStands DEF Keeps, Select

LEMMA RemovedIs ==
    ASSUME NEW T, NEW s \in Seq(T), NEW i \in DOMAIN s
    PROVE  /\ RemoveAt(s, i) \in Seq(T) /\ Len(RemoveAt(s, i)) = Len(s) - 1 /\ Len(s) \in Nat \ {0}
           /\ i \in 1..Len(s)
           /\ \A j \in 1..(Len(s) - 1) : RemoveAt(s, i)[j] = IF j < i THEN s[j] ELSE s[j + 1]
<1> DEFINE n == Len(s)
           a == SubSeq(s, 1, i - 1)
           b == SubSeq(s, i + 1, n)
<1>1. n \in Nat /\ i \in 1..n /\ \A j \in 1..n : s[j] \in T
    BY LenProperties, ElementOfSeq
<1> HIDE DEF n
<1>2. a \in Seq(T) /\ Len(a) = i - 1 /\ \A j \in 1..(i - 1) : a[j] = s[j]
    <2>1. /\ SubSeq(s, 1, i - 1) \in Seq(T)
          /\ Len(SubSeq(s, 1, i - 1)) = IF 1 <= i - 1 THEN i - 1 - 1 + 1 ELSE 0
          /\ \A j \in 1..(i - 1 - 1 + 1) : SubSeq(s, 1, i - 1)[j] = s[1 + j - 1]
        BY <1>1, SubSeqProperties
    <2> QED BY <1>1, <2>1
<1>3. b \in Seq(T) /\ Len(b) = n - i /\ \A j \in 1..(n - i) : b[j] = s[i + j]
    <2> DEFINE m == i + 1
    <2>1. m \in Int /\ n \in Int /\ \A j \in m..n : s[j] \in T
        BY <1>1
    <2>2. b = SubSeq(s, m, n) /\ m = i + 1
        OBVIOUS
    <2> HIDE DEF m, b
    <2>3. /\ b \in Seq(T)
          /\ Len(b) = IF m <= n THEN n - m + 1 ELSE 0
          /\ \A j \in 1..(n - m + 1) : b[j] = s[m + j - 1]
        BY <2>1, <2>2, SubSeqProperties
    <2>4. Len(b) = n - i
        BY <1>1, <2>2, <2>3
    <2>5. ASSUME NEW j \in 1..(n - i) PROVE b[j] = s[i + j]
        <3>1. j \in 1..(n - m + 1) /\ m + j - 1 = i + j
            BY SMTT(30), <1>1, <2>2
        <3> QED BY <2>3, <3>1
    <2> QED BY <2>3, <2>4, <2>5
<1>4. RemoveAt(s, i) = a \o b
    BY DEF RemoveAt, n
<1> HIDE DEF a, b
<1>5. /\ a \o b \in Seq(T) /\ Len(a \o b) = Len(a) + Len(b)
      /\ \A j \in 1..(Len(a) + Len(b)) : (a \o b)[j] = IF j <= Len(a) THEN a[j] ELSE b[j - Len(a)]
    BY <1>2, <1>3, ConcatProperties
<1>6. Len(a) + Len(b) = n - 1
    BY <1>1, <1>2, <1>3
<1>7. ASSUME NEW j \in 1..(n - 1) PROVE (a \o b)[j] = IF j < i THEN s[j] ELSE s[j + 1]
    <2>1. CASE j < i
        <3>1. j \in 1..(i - 1) /\ j <= Len(a)
            BY <1>1, <1>2, <2>1
        <3> QED BY <1>2, <1>5, <1>6, <2>1, <3>1
    <2>2. CASE ~(j < i)
        <3>1. ~(j <= Len(a)) /\ j - Len(a) \in 1..(n - i) /\ i + (j - Len(a)) = j + 1
            BY <1>1, <1>2, <2>2
        <3>2. (a \o b)[j] = b[j - Len(a)]
            BY <1>5, <1>6, <3>1
        <3>3. b[j - Len(a)] = s[i + (j - Len(a))]
            BY <1>3, <3>1
        <3> QED BY <2>2, <3>1, <3>2, <3>3
    <2> QED BY <2>1, <2>2
<1>8. Len(a \o b) = n - 1 /\ n \in Nat \ {0}
    BY <1>1, <1>5, <1>6
<1> QED BY <1>1, <1>4, <1>5, <1>7, <1>8 DEF n

\* The last staged file is removed: the array is left to nobody.
Released == [o \in DOMAIN ops |-> IF ops[o].live THEN [ops[o] EXCEPT !.live = FALSE] ELSE ops[o]]

LEMMA ReleasedIs ==
    ASSUME Typed
    PROVE  /\ Released \in Seq(Operations) /\ DOMAIN Released = DOMAIN ops
           /\ \A o \in DOMAIN ops : Alike(ops[o], Released[o]) /\ Released[o].live = FALSE
                                    /\ Released[o].files = ops[o].files
<1> DEFINE F(o) == [ops[o] EXCEPT !.live = FALSE]
           h(o) == IF ops[o].live THEN F(o) ELSE ops[o]
           n == Len(ops)
<1>1. ASSUME NEW o \in DOMAIN ops
      PROVE  h(o) \in Operations /\ Alike(ops[o], h(o)) /\ h(o).live = FALSE /\ h(o).files = ops[o].files
    <2>1. ops[o] \in Operations /\ ops[o].live \in BOOLEAN
        BY OpsAre
    <2>2. F(o) \in Operations /\ Alike(ops[o], F(o)) /\ F(o).live = FALSE /\ F(o).files = ops[o].files
        <3> DEFINE r == ops[o]
                   g == F(o)
        <3>1. g = [r EXCEPT !.live = FALSE] /\ FALSE \in BOOLEAN /\ r \in Operations
            BY <2>1
        <3> HIDE DEF g, r
        <3>2. g \in Operations /\ Alike(r, g) /\ g.live = FALSE /\ g.files = r.files
            BY <3>1, LiveIsSet
        <3> QED BY <3>2 DEF g, r
    <2>3. CASE ops[o].live
        BY <2>2, <2>3
    <2>4. CASE ~ops[o].live
        BY <2>1, <2>4 DEF Alike
    <2> QED BY <2>3, <2>4
<1>2. Released = [o \in DOMAIN ops |-> h(o)]
    BY DEF Released
<1> HIDE DEF h
<1>3. n \in Nat /\ DOMAIN ops = 1..n
    BY LenProperties DEF Typed
<1> HIDE DEF n
<1>4. Released \in [1..n -> Operations]
    BY <1>1, <1>2, <1>3
<1>5. Released \in Seq(Operations)
    BY <1>3, <1>4
<1> QED BY <1>1, <1>2, <1>5

LEMMA RemoveStagedFileKeeps == ASSUME PageInv, RemoveStagedFile PROVE Keeps
<1>0. Typed
    BY DEF PageInv
<1>1. PICK i \in DOMAIN staged :
         IF RemoveAt(staged, i) = <<>> THEN ResetTo(tool, Released)
         ELSE staged' = RemoveAt(staged, i) /\ UNCHANGED <<ops, anim, shown>>
    BY DEF RemoveStagedFile, Released
<1>2. staged \in Seq(Files) /\ RemoveAt(staged, i) \in Seq(Files)
    BY <1>0, RemovedIs DEF Typed, PageTypeOK
<1>3. CASE RemoveAt(staged, i) = <<>>
    <2>1. ops' = Released /\ ResetTo(tool', ops') /\ tool' \in Tools
        BY <1>0, <1>1, <1>3 DEF RemoveStagedFile, ResetTo, Typed, PageTypeOK
    <2>2. OpsMove /\ DOMAIN ops' = DOMAIN ops
        BY <1>0, <2>1, ReleasedIs DEF OpsMove, Moved, Alike
    <2> QED BY <1>0, <2>1, <2>2, Worked, ResetKeeps DEF RemoveStagedFile
<1>4. CASE RemoveAt(staged, i) # <<>>
    <2>1. Rest'
        BY <1>0, <1>1, <1>2, <1>4, Worked DEF Typed, PageTypeOK, Rest, RemoveStagedFile
    <2>2. Lists' /\ OpsMove
        BY <1>0, <1>1, <1>4, ListsStand, NothingMoves DEF Typed, RemoveStagedFile
    <2>3. "staging" \in shown /\ shown' = shown
        BY <1>1, <1>4 DEF RemoveStagedFile
    <2>4. BlankInv'
        BY <2>3 DEF PageInv, BlankInv, DropzoneIsBlank
    <2>5. ResultMoves /\ ProgressMoves
        BY <1>1, <1>4 DEF ResultMoves, ProgressMoves, RemoveStagedFile
    <2> QED BY <2>1, <2>2, <2>4, <2>5, TypedFrom DEF Keeps
<1> QED BY <1>3, <1>4

LEMMA NewOperation ==
    ASSUME NEW t \in Tools, NEW step \in Running, NEW live \in BOOLEAN, NEW taken \in Seq(Files), NEW r,
           r = Operation(t, step, live, taken)
    PROVE  /\ r \in Operations /\ Runs(r)
           /\ r.tool = t /\ r.step = step /\ r.live = live /\ r.files = <<>> /\ r.at = 0 /\ r.taken = taken
           /\ r.job = "none"
<1> DEFINE files == <<>>
           at == 0
           job == "none"
<1>1. /\ r = [tool |-> t, step |-> step, live |-> live, files |-> files, at |-> at, taken |-> taken, job |-> job]
      /\ files \in Seq(Files) /\ at \in Nat /\ job \in JobStates /\ step \in Steps
    BY EmptySeq DEF Operation, Running, Steps, JobStates
<1> HIDE DEF files, at, job
<1>2. /\ r \in Operations
      /\ r.tool = t /\ r.step = step /\ r.live = live /\ r.files = files /\ r.at = at /\ r.taken = taken
      /\ r.job = job
    BY <1>1, IsOperation
<1> QED BY <1>2 DEF files, at, job, Runs

LEMMA StartsIs ==
    ASSUME Typed, NEW r \in Operations, Runs(r), r.job = "none", Starts(r), poll' = poll, reads' = reads
    PROVE  /\ Lists' /\ OpsMove /\ \E o \in DOMAIN ops' : Runs(ops'[o])
           /\ DOMAIN ops' = DOMAIN ops \cup {Len(ops) + 1} /\ Len(ops) + 1 \notin DOMAIN ops
           /\ ops'[Len(ops) + 1] = r /\ \A o \in DOMAIN ops : ops'[o] = ops[o]
<1> DEFINE n == Len(ops)
<1>1. n \in Nat /\ DOMAIN ops = 1..n /\ DOMAIN asked = 1..n /\ Len(asked) = n
    BY LenProperties DEF Typed, PageTypeOK
<1>2. ops' = Append(ops, r) /\ asked' = Append(asked, 0) /\ 0 \in 0..MaxAsked
    BY ToolPageAssumption DEF Starts
<1>3. /\ ops' \in Seq(Operations) /\ Len(ops') = n + 1 /\ ops'[n + 1] = r
      /\ \A o \in 1..n : ops'[o] = ops[o]
    BY <1>1, <1>2, AppendProperties DEF Typed
<1>4. asked' \in Seq(0..MaxAsked) /\ Len(asked') = n + 1
    <2> DEFINE S == 0..MaxAsked
    <2>1. asked \in Seq(S) /\ 0 \in S
        BY <1>2 DEF Typed
    <2> HIDE DEF S
    <2>2. asked' \in Seq(S) /\ Len(asked') = Len(asked) + 1
        BY <1>2, <2>1, AppendProperties
    <2> QED BY <1>1, <2>2 DEF S
<1>5. DOMAIN ops' = 1..(n + 1) /\ DOMAIN asked' = 1..(n + 1)
    BY <1>3, <1>4, LenProperties
<1> HIDE DEF n
<1>6. n + 1 \in 1..(n + 1) /\ n + 1 \notin 1..n /\ 1..(n + 1) = 1..n \cup {n + 1}
    BY <1>1
<1>7. Lists'
    BY <1>1, <1>3, <1>4, <1>5, <1>6 DEF Lists, Typed, PageTypeOK
<1>8. OpsMove
    <2>1. ASSUME NEW o \in DOMAIN ops PROVE o \in DOMAIN ops' /\ Moved(ops[o], ops'[o])
        BY <1>1, <1>3, <1>5, <1>6 DEF Moved, Alike
    <2>2. ASSUME NEW o \in DOMAIN ops', o \notin DOMAIN ops PROVE ops'[o].job = "none" /\ ops'[o].step \in Running
        BY <1>1, <1>3, <1>5, <1>6, <2>2 DEF Runs
    <2> QED BY <1>3, <2>1, <2>2 DEF OpsMove
<1> QED BY <1>1, <1>3, <1>5, <1>6, <1>7, <1>8 DEF n

LackingKey == tool \in DirectTools /\ ~keyed

\* What is started is an operation of the tool that is active.
LEMMA ExecuteIs ==
    ASSUME Typed, ExecuteDocumentOperation, ~LackingKey
    PROVE  \E step \in Running, live \in BOOLEAN, taken \in {<<>>, staged} :
              /\ Starts(Operation(tool, step, live, taken))
              /\ step # "posting" => taken = <<>>
              /\ shown' = (shown \ {"dropzone", "staging", "result"}) \cup {"progress"}
<1>1. /\ shown' = (shown \ {"dropzone", "staging", "result"}) \cup {"progress"}
      /\ Starts(CASE CanHandleLocally(tool, staged) -> Operation(tool, "local", TRUE, <<>>)
                  [] tool \in DirectTools -> Operation(tool, "direct", TRUE, <<>>)
                  [] OTHER -> Operation(tool, "posting", TRUE, staged))
    BY DEF ExecuteDocumentOperation, LackingKey
<1>2. \/ Starts(Operation(tool, "local", TRUE, <<>>)) \/ Starts(Operation(tool, "direct", TRUE, <<>>))
      \/ Starts(Operation(tool, "posting", TRUE, staged))
    BY <1>1
<1> QED BY <1>1, <1>2 DEF Running

LEMMA ExecuteKeeps == ASSUME PageInv, ExecuteDocumentOperation PROVE Keeps
<1>0. Typed /\ tool \in Tools /\ staged \in Seq(Files) /\ <<>> \in Seq(Files)
    BY EmptySeq DEF PageInv, Typed, PageTypeOK
<1>1. Rest' /\ ResultMoves
    BY <1>0, Worked DEF Typed, PageTypeOK, Rest, ResultMoves, ExecuteDocumentOperation
<1>3. ASSUME "dropzone" \notin shown' PROVE BlankInv'
    BY <1>3 DEF BlankInv, DropzoneIsBlank
<1>4. CASE LackingKey
    <2>1. ops' = ops /\ asked' = asked /\ reads' = reads /\ poll' = poll /\ shown' = shown \ {"dropzone", "result", "progress"}
        BY <1>4 DEF ExecuteDocumentOperation, LackingKey
    <2>2. Lists' /\ OpsMove
        BY <1>0, <2>1, ListsStand, NothingMoves DEF Typed
    <2> QED BY <1>1, <1>3, <2>1, <2>2, TypedFrom DEF Keeps, ProgressMoves
<1>5. CASE ~LackingKey
    <2>1. PICK step \in Running, live \in BOOLEAN, taken \in {<<>>, staged} :
             /\ Starts(Operation(tool, step, live, taken))
             /\ shown' = (shown \ {"dropzone", "staging", "result"}) \cup {"progress"}
        BY <1>0, <1>5, ExecuteIs
    <2>2. taken \in Seq(Files) /\ poll' = poll /\ reads' = reads /\ BlankInv'
        BY <1>0, <1>3, <2>1 DEF ExecuteDocumentOperation
    <2>3. ASSUME NEW r, r = Operation(tool, step, live, taken)
          PROVE  Lists' /\ OpsMove /\ \E o \in DOMAIN ops' : Runs(ops'[o])
        <3>1. r \in Operations /\ Runs(r) /\ r.job = "none"
            BY <1>0, <2>2, <2>3, NewOperation
        <3> QED BY <1>0, <2>1, <2>2, <2>3, <3>1, StartsIs
    <2> QED BY <1>1, <2>2, <2>3, TypedFrom DEF Keeps, ProgressMoves
<1> QED BY <1>4, <1>5

LEMMA GenerateKeeps == ASSUME PageInv, Generate PROVE Keeps
<1>0. Typed /\ tool \in Tools /\ <<>> \in Seq(Files) /\ "posting" \in Running
    BY EmptySeq DEF PageInv, Typed, PageTypeOK, Running
<1>1. Rest' /\ ResultMoves
    BY <1>0, Worked DEF Typed, PageTypeOK, Rest, ResultMoves, Generate
<1>2. "dropzone" \notin shown
    BY DEF PageInv, BlankInv, RequiresInputFile, Generate
<1>3. "dropzone" \notin shown'
    BY <1>2 DEF Generate
<1>4. BlankInv'
    BY <1>3 DEF BlankInv, DropzoneIsBlank
<1>5. PICK step \in Running, live \in BOOLEAN, taken \in Seq(Files) :
         poll' = poll /\ reads' = reads /\ Starts(Operation(tool, step, live, taken))
    BY <1>0 DEF Generate
<1>6. ASSUME NEW r, r = Operation(tool, step, live, taken) PROVE r \in Operations /\ Runs(r) /\ r.job = "none"
    BY <1>0, <1>6, NewOperation
<1>7. Lists' /\ OpsMove /\ \E o \in DOMAIN ops' : Runs(ops'[o])
    BY <1>0, <1>5, <1>6, StartsIs
<1> QED BY <1>1, <1>4, <1>7, TypedFrom DEF Keeps, ProgressMoves

-----------------------------------------------------------------------------
(* What comes back: selections, operations, answers *)

LEMMA PushedIs ==
    ASSUME Typed, NEW r \in Reads, NEW valid \in Seq(Files)
    PROVE  Push(r, valid) \in Seq(Files)
<1>1. staged \o valid \in Seq(Files)
    BY ConcatProperties DEF Typed, PageTypeOK
<1>2. ASSUME NEW n \in {0, 1}, n <= Len(valid) PROVE SubSeq(valid, 1, n) \in Seq(Files)
    <2>1. \A i \in 1..n : valid[i] \in Files
        BY <1>2, ElementOfSeq, LenProperties
    <2> QED BY <2>1, SubSeqProperties
<1>3. Several(tool, valid) \in Seq(Files)
    <2>1. CASE ClientContract(tool).many
        BY <2>1 DEF Several
    <2>2. CASE ~ClientContract(tool).many
        <3>1. Several(tool, valid) = SubSeq(valid, 1, IF Len(valid) = 0 THEN 0 ELSE 1)
            BY <2>2 DEF Several
        <3>2. Len(valid) \in Nat
            BY LenProperties
        <3>3. CASE Len(valid) = 0
            BY <1>2, <3>1, <3>3
        <3>4. CASE Len(valid) # 0
            BY <1>2, <3>1, <3>2, <3>4
        <3> QED BY <3>3, <3>4
    <2> QED BY <2>1, <2>2
<1> QED BY <1>1, <1>3 DEF Push

LEMMA FinishReadKeeps == ASSUME PageInv, NEW i \in DOMAIN reads, FinishRead(i) PROVE Keeps
<1> DEFINE r == reads[i]
           valid == Fit(r.for, r.files)
           now == Push(r, valid)
<1>0. Typed
    BY DEF PageInv
<1>1. r \in Reads /\ r.files \in Seq(Files)
    <2>1. r \in Reads
        BY <1>0 DEF Typed, PageTypeOK, Reads
    <2> QED BY <2>1 DEF Reads
<1>2. now \in Seq(Files)
    BY <1>0, <1>1, FitKeeps, PushedIs
<1>3. /\ reads' = RemoveAt(reads, i) /\ staged' = now
      /\ ops' = IF r.append THEN ops ELSE Detached
      /\ now = <<>> => shown' = shown
      /\ now # <<>> => "dropzone" \notin shown' /\ ("progress" \in shown' => "progress" \in shown)
      /\ tool' = tool /\ keyed' = keyed /\ fresh' = fresh /\ poll' = poll /\ anim' = anim /\ asked' = asked
      /\ result' = result /\ work' = work
    BY DEF FinishRead
<1> HIDE DEF now, r
<1>4. reads' \in Seq(Reads) /\ Len(reads') <= MaxReads
    <2>1. reads \in Seq(Reads) /\ Len(reads) <= MaxReads /\ MaxReads \in Nat
        BY <1>0, ToolPageAssumption DEF Typed, PageTypeOK
    <2>2. reads' \in Seq(Reads) /\ Len(reads') = Len(reads) - 1 /\ Len(reads) \in Nat
        BY <1>3, <2>1, RemovedIs
    <2> QED BY <2>1, <2>2
<1>5. OpsMove /\ DOMAIN ops' = DOMAIN ops /\ \A o \in DOMAIN ops : Alike(ops[o], ops'[o])
    <2>1. CASE r.append
        BY <1>0, <1>3, <2>1, NothingMoves DEF Alike
    <2>2. CASE ~r.append
        BY <1>0, <1>3, <2>2, DetachedMove, DetachedIs
    <2> QED BY <2>1, <2>2
<1>6. Rest'
    BY <1>0, <1>2, <1>3 DEF Typed, PageTypeOK, Rest
<1>7. Lists'
    BY <1>0, <1>3, <1>4, <1>5 DEF Typed, PageTypeOK, Lists, OpsMove
<1>8. ResultMoves /\ ProgressMoves
    BY <1>3, <1>5 DEF ResultMoves, ProgressMoves, Runs, Alike
<1>9. BlankInv'
    <2>1. CASE now = <<>>
        BY <1>3, <2>1 DEF PageInv, BlankInv, DropzoneIsBlank
    <2>2. CASE now # <<>>
        BY <1>3, <2>2 DEF BlankInv, DropzoneIsBlank
    <2> QED BY <2>1, <2>2
<1> QED BY <1>5, <1>6, <1>7, <1>8, <1>9, TypedFrom DEF Keeps

LEMMA RenderedIs ==
    ASSUME NEW o \in DOMAIN ops, RenderSuccessDownload(o), ops'[o].step = "done"
    PROVE  ResultMoves /\ ProgressMoves /\ BlankInv' /\ poll' = 0
<1>1. "progress" \notin shown' /\ "dropzone" \notin shown'
    BY DEF RenderSuccessDownload
<1>2. BlankInv'
    BY <1>1 DEF BlankInv, DropzoneIsBlank
<1> QED BY <1>1, <1>2 DEF RenderSuccessDownload, ResultMoves, ProgressMoves

LEMMA DoneKeeps ==
    ASSUME Typed, NEW o \in DOMAIN ops, RenderSuccessDownload(o), ops' = [ops EXCEPT ![o].step = "done"],
           \/ ops[o].step \in {"local", "direct"} /\ asked' = asked
           \/ ops[o].job = "COMPLETED" /\ asked' \in Seq(0..MaxAsked) /\ DOMAIN asked' = DOMAIN ops,
           tool' = tool, keyed' = keyed, staged' = staged, fresh' = fresh, reads' = reads, anim' \in BOOLEAN,
           work' = work
    PROVE  Keeps
<1>1. Standing(ops) /\ "done" \in Steps
    BY DEF Standing, Steps
<1>2. OpsMove /\ DOMAIN ops' = DOMAIN ops /\ StepSet(ops, ops', o, "done")
    BY <1>1, StepMoves
<1>3. ops'[o].step = "done"
    BY <1>2 DEF StepSet
<1>4. ResultMoves /\ ProgressMoves /\ BlankInv' /\ poll' = 0
    BY <1>3, RenderedIs
<1>5. Rest'
    BY DEF Typed, PageTypeOK, Rest
<1>6. Lists'
    BY <1>2, <1>4 DEF Typed, PageTypeOK, Lists, OpsMove
<1> QED BY <1>2, <1>4, <1>5, <1>6, TypedFrom DEF Keeps

LEMMA FailureKeeps ==
    ASSUME Typed, NEW o \in DOMAIN ops, Fails(o),
           ops[o].step \in {"local", "posting"} \/ ops[o].job = "FAILED",
           asked' \in Seq(0..MaxAsked), DOMAIN asked' = DOMAIN ops, poll' \in {0, poll},
           tool' = tool, keyed' = keyed, fresh' = fresh, reads' = reads, work' = work
    PROVE  Keeps
<1>1. OpsMove /\ DOMAIN ops' = DOMAIN ops
    BY FailsIs
<1>2. ResultMoves /\ ProgressMoves /\ BlankInv'
    BY AtHome DEF Fails, ResetTo, ResultMoves
<1>3. Rest'
    BY EmptySeq DEF Typed, PageTypeOK, Rest, Fails, ResetTo
<1>4. Lists'
    BY <1>1 DEF Typed, PageTypeOK, Lists, OpsMove
<1> QED BY <1>1, <1>2, <1>3, <1>4, TypedFrom DEF Keeps

LEMMA LocalDoneKeeps == ASSUME Typed, NEW o \in DOMAIN ops, LocalDone(o) PROVE Keeps
<1>1. anim' \in BOOLEAN
    BY DEF LocalDone, Typed, PageTypeOK
<1> QED BY <1>1, DoneKeeps DEF LocalDone

LEMMA DirectDoneKeeps == ASSUME Typed, NEW o \in DOMAIN ops, DirectDone(o) PROVE Keeps
<1>1. anim' \in BOOLEAN
    BY DEF DirectDone, Typed, PageTypeOK
<1> QED BY <1>1, DoneKeeps DEF DirectDone

LEMMA LocalFailsKeeps == ASSUME Typed, NEW o \in DOMAIN ops, LocalFails(o) PROVE Keeps
<1>1. asked' \in Seq(0..MaxAsked) /\ DOMAIN asked' = DOMAIN ops
    BY DEF LocalFails, Typed, PageTypeOK
<1> QED BY <1>1, FailureKeeps DEF LocalFails

LEMMA AnsweredEndedKeeps == ASSUME Typed, NEW o \in DOMAIN ops, AnsweredEnded(o) PROVE Keeps
<1>1. asked' \in Seq(0..MaxAsked) /\ DOMAIN asked' = DOMAIN ops
    BY AnswerIs DEF AnsweredEnded
<1>2. CASE ops[o].job = "COMPLETED"
    <2>1. RenderSuccessDownload(o) /\ ops' = [ops EXCEPT ![o].step = "done"] /\ staged' = staged
        BY <1>2 DEF AnsweredEnded
    <2> QED BY <1>1, <1>2, <2>1, DoneKeeps DEF AnsweredEnded
<1>3. CASE ops[o].job # "COMPLETED"
    <2>1. Fails(o) /\ ops[o].job = "FAILED"
        BY <1>3 DEF AnsweredEnded
    <2> QED BY <1>1, <2>1, FailureKeeps DEF AnsweredEnded
<1> QED BY <1>2, <1>3

\* Steps that change nothing the visitor sees.
LEMMA Unseen ==
    ASSUME PageInv, OpsMove, DOMAIN ops' = DOMAIN ops, asked' \in Seq(0..MaxAsked), DOMAIN asked' = DOMAIN ops,
           poll' \in {poll} \cup DOMAIN ops,
           \/ \A o \in DOMAIN ops : Runs(ops[o]) => Runs(ops'[o])
           \/ poll' \in DOMAIN ops,
           tool' = tool, keyed' = keyed, staged' = staged, fresh' = fresh, reads' = reads, shown' = shown,
           anim' = anim, result' = result, work' = work
    PROVE  Keeps
<1>1. Rest' /\ Lists'
    BY DEF PageInv, Typed, PageTypeOK, Rest, Lists, OpsMove
<1>2. BlankInv'
    BY DEF PageInv, BlankInv, DropzoneIsBlank
<1>3. \A o \in DOMAIN ops : o # 0
    BY LenProperties DEF PageInv, Typed
<1>4. ResultMoves /\ ProgressMoves
    BY <1>3 DEF ResultMoves, ProgressMoves
<1> QED BY <1>1, <1>2, <1>4, TypedFrom DEF Keeps

LEMMA LocalStepKeeps == ASSUME PageInv, NEW o \in DOMAIN ops, LocalStep(o) PROVE Keeps
<1>0. Typed /\ asked' \in Seq(0..MaxAsked) /\ DOMAIN asked' = DOMAIN ops
    BY DEF PageInv, Typed, PageTypeOK, LocalStep
<1>1. OpsMove /\ Beside(ops, ops', o) /\ ops'[o].step = "local"
    BY <1>0, LocalStepIs
<1>2. DOMAIN ops' = DOMAIN ops /\ \A q \in DOMAIN ops : Runs(ops[q]) => Runs(ops'[q])
    BY <1>1 DEF Beside, Runs, Running
<1> QED BY <1>0, <1>1, <1>2, Unseen DEF LocalStep

\* Two fields of one operation are set.
LEMMA FallsBackIs ==
    ASSUME Typed, NEW o \in DOMAIN ops, DirectFallsBack(o)
    PROVE  /\ OpsMove /\ Beside(ops, ops', o) /\ Holding(ops[o], ops'[o])
           /\ ops'[o].tool = ops[o].tool /\ ops'[o].step = "posting" /\ ops'[o].job = ops[o].job
           /\ ops'[o].taken = FilesOf(o)
<1> DEFINE f == FilesOf(o)
           r == [ops[o] EXCEPT !.step = "posting"]
           h == [r EXCEPT !.taken = f]
<1>1. ops[o] \in Operations /\ f \in Seq(Files) /\ "posting" \in Steps
    BY OpsAre DEF Steps
<1>2. ops' = [[ops EXCEPT ![o] = r] EXCEPT ![o] = [[ops EXCEPT ![o] = r][o] EXCEPT !.taken = f]]
    BY DEF DirectFallsBack
<1> HIDE DEF f
<1>3. r \in Operations /\ Holding(ops[o], r) /\ r.tool = ops[o].tool /\ r.step = "posting" /\ r.job = ops[o].job
    <2> DEFINE b == ops[o]
               s == "posting"
    <2>1. r = [b EXCEPT !.step = s] /\ b \in Operations /\ s \in Steps
        BY <1>1
    <2> HIDE DEF r, b, s
    <2>2. r \in Operations /\ Holding(b, r) /\ r.tool = b.tool /\ r.step = s /\ r.job = b.job
        BY <2>1, StepIsSet
    <2> QED BY <2>2 DEF b, s
<1>4. h \in Operations /\ Holding(r, h) /\ h.tool = r.tool /\ h.step = r.step /\ h.taken = f /\ h.job = r.job
    <2>1. h = [r EXCEPT !.taken = f]
        OBVIOUS
    <2> HIDE DEF h, r
    <2> QED BY <1>1, <1>3, <2>1, TakenIsSet
<1>5. ops' = [ops EXCEPT ![o] = h]
    <2> DEFINE first == [ops EXCEPT ![o] = r]
    <2>1. first[o] = r
        OBVIOUS
    <2>2. ops' = [first EXCEPT ![o] = [first[o] EXCEPT !.taken = f]]
        BY <1>2
    <2>3. ops' = [first EXCEPT ![o] = h]
        BY <2>1, <2>2
    <2> HIDE DEF h, r
    <2> QED BY <2>3, SetTwice
<1> HIDE DEF h, r
<1>6. Beside(ops, ops', o) /\ ops'[o] = h
    BY <1>4, <1>5, Replaced DEF Typed
<1>7. Moved(ops[o], ops'[o]) /\ Standing(ops)
    BY <1>3, <1>4, <1>6 DEF Moved, DirectFallsBack, Standing
<1>8. OpsMove
    BY <1>6, <1>7, OneMoves
<1> QED BY <1>3, <1>4, <1>6, <1>8 DEF Holding, f

LEMMA PostedIs ==
    ASSUME Typed, NEW o \in DOMAIN ops, Posted(o)
    PROVE  /\ OpsMove /\ Beside(ops, ops', o) /\ Holding(ops[o], ops'[o])
           /\ ops'[o].tool = ops[o].tool /\ ops'[o].step = "polling" /\ ops'[o].taken = ops[o].taken
<1> DEFINE r == [ops[o] EXCEPT !.step = "polling"]
           h == [r EXCEPT !.job = "queued"]
<1>1. ops[o] \in Operations
    BY OpsAre
<1>2. ops' = [[ops EXCEPT ![o] = r] EXCEPT ![o] = [[ops EXCEPT ![o] = r][o] EXCEPT !.job = "queued"]]
    BY DEF Posted
<1>3. /\ r \in Operations /\ Holding(ops[o], r) /\ r.tool = ops[o].tool /\ r.step = "polling"
      /\ r.taken = ops[o].taken
    <2> DEFINE b == ops[o]
               s == "polling"
    <2>1. r = [b EXCEPT !.step = s] /\ b \in Operations /\ s \in Steps
        BY <1>1 DEF Steps
    <2> HIDE DEF r, b, s
    <2>2. r \in Operations /\ Holding(b, r) /\ r.tool = b.tool /\ r.step = s /\ r.taken = b.taken
        BY <2>1, StepIsSet
    <2> QED BY <2>2 DEF b, s
<1>4. h \in Operations /\ Holding(r, h) /\ h.tool = r.tool /\ h.step = r.step /\ h.taken = r.taken /\ h.job = "queued"
    <2> DEFINE j == "queued"
    <2>1. h = [r EXCEPT !.job = j] /\ j \in JobStates
        BY DEF JobStates
    <2> HIDE DEF h, r, j
    <2>2. h \in Operations /\ Holding(r, h) /\ h.tool = r.tool /\ h.step = r.step /\ h.taken = r.taken /\ h.job = j
        BY <1>3, <2>1, JobIsSet
    <2> QED BY <2>2 DEF j
<1>5. ops' = [ops EXCEPT ![o] = h]
    <2> DEFINE first == [ops EXCEPT ![o] = r]
    <2>1. first[o] = r
        OBVIOUS
    <2>2. ops' = [first EXCEPT ![o] = [first[o] EXCEPT !.job = "queued"]]
        BY <1>2
    <2>3. ops' = [first EXCEPT ![o] = h]
        BY <2>1, <2>2
    <2> HIDE DEF h, r
    <2> QED BY <2>3, SetTwice
<1> HIDE DEF h, r
<1>6. Beside(ops, ops', o) /\ ops'[o] = h
    BY <1>4, <1>5, Replaced DEF Typed
<1>7. Moved(ops[o], ops'[o]) /\ Standing(ops)
    BY <1>3, <1>4, <1>6 DEF Moved, Posted, Standing
<1>8. OpsMove
    BY <1>6, <1>7, OneMoves
<1> QED BY <1>3, <1>4, <1>6, <1>8 DEF Holding

LEMMA FallsBackKeeps == ASSUME PageInv, NEW o \in DOMAIN ops, DirectFallsBack(o) PROVE Keeps
<1>0. Typed /\ asked' \in Seq(0..MaxAsked) /\ DOMAIN asked' = DOMAIN ops
    BY DEF PageInv, Typed, PageTypeOK, DirectFallsBack
<1>1. OpsMove /\ Beside(ops, ops', o) /\ ops'[o].step = "posting"
    BY <1>0, FallsBackIs
<1>2. DOMAIN ops' = DOMAIN ops /\ \A q \in DOMAIN ops : Runs(ops[q]) => Runs(ops'[q])
    BY <1>1 DEF Beside, Runs, Running
<1> QED BY <1>0, <1>1, <1>2, Unseen DEF DirectFallsBack

LEMMA PostedKeeps == ASSUME PageInv, NEW o \in DOMAIN ops, Posted(o) PROVE Keeps
<1>0. Typed /\ asked' \in Seq(0..MaxAsked) /\ DOMAIN asked' = DOMAIN ops
    BY DEF PageInv, Typed, PageTypeOK, Posted
<1>1. OpsMove /\ DOMAIN ops' = DOMAIN ops
    BY <1>0, PostedIs DEF Beside
<1> QED BY <1>0, <1>1, Unseen DEF Posted

LEMMA PostFailsKeeps == ASSUME PageInv, NEW o \in DOMAIN ops, PostFails(o) PROVE Keeps
<1>0. Typed /\ asked' \in Seq(0..MaxAsked) /\ DOMAIN asked' = DOMAIN ops
    BY DEF PageInv, Typed, PageTypeOK, PostFails
<1>1. CASE ClientContract(ops[o].tool).mode = "generator"
    <2>1. /\ ops' = [ops EXCEPT ![o].step = "failed"] /\ ops[o].step = "posting"
          /\ shown' = (shown \ {"progress"}) \cup {ClientContract(ops[o].tool).studio}
          /\ anim' = FALSE /\ staged' = staged /\ result' = result /\ tool' = tool /\ poll' = poll
        BY <1>1 DEF PostFails
    <2>2. Standing(ops) /\ "failed" \in Steps
        BY DEF Standing, Steps
    <2>3. OpsMove /\ DOMAIN ops' = DOMAIN ops
        BY <1>0, <2>1, <2>2, StepMoves
    <2>4. Rest' /\ Lists'
        BY <1>0, <2>1, <2>3 DEF Typed, PageTypeOK, Rest, Lists, OpsMove, PostFails
    <2>5. /\ "progress" \notin shown'
          /\ "dropzone" \in shown' => "dropzone" \in shown
          /\ shown' \cap {"staging", "progress", "result"} \subseteq shown \cap {"staging", "progress", "result"}
        BY <2>1, StudiosStay DEF Passing
    <2>6. BlankInv'
        <3>1. CASE "dropzone" \in shown
            BY <2>1, <2>5, <3>1 DEF PageInv, BlankInv, DropzoneIsBlank
        <3>2. CASE "dropzone" \notin shown
            BY <2>5, <3>2 DEF BlankInv, DropzoneIsBlank
        <3> QED BY <3>1, <3>2
    <2>7. ResultMoves /\ ProgressMoves
        BY <2>1, <2>5 DEF ResultMoves, ProgressMoves
    <2> QED BY <2>3, <2>4, <2>6, <2>7, TypedFrom DEF Keeps
<1>2. CASE ClientContract(ops[o].tool).mode # "generator"
    <2>1. Fails(o)
        BY <1>2 DEF PostFails
    <2> QED BY <1>0, <2>1, FailureKeeps DEF PostFails
<1> QED BY <1>1, <1>2

LEMMA JobEndsIs ==
    ASSUME Typed, NEW o \in DOMAIN ops, JobEnds(o)
    PROVE  /\ OpsMove /\ Beside(ops, ops', o) /\ Holding(ops[o], ops'[o])
           /\ ops'[o].tool = ops[o].tool /\ ops'[o].step = ops[o].step /\ ops'[o].at = ops[o].at
           /\ ops'[o].taken = ops[o].taken
<1>1. PICK status \in JobStates \ {"none", "queued"} : ops' = [ops EXCEPT ![o].job = status]
    BY DEF JobEnds, JobStates
<1>2. ops \in Seq(Operations) /\ status \in {"COMPLETED", "FAILED"}
    BY DEF JobStates, Typed
<1>3. /\ Beside(ops, ops', o) /\ Holding(ops[o], ops'[o])
      /\ ops'[o].tool = ops[o].tool /\ ops'[o].step = ops[o].step /\ ops'[o].at = ops[o].at
      /\ ops'[o].taken = ops[o].taken /\ ops'[o].job = status
    <2>1. JobSet(ops, ops', o, status)
        BY <1>1, <1>2, SettingTheJob
    <2> QED BY <2>1 DEF JobSet
<1>4. Moved(ops[o], ops'[o]) /\ Standing(ops)
    BY <1>2, <1>3 DEF Moved, JobEnds, Standing
<1>5. OpsMove
    BY <1>3, <1>4, OneMoves
<1> QED BY <1>3, <1>5

LEMMA JobEndsKeeps == ASSUME PageInv, NEW o \in DOMAIN ops, JobEnds(o) PROVE Keeps
<1>0. Typed /\ asked' \in Seq(0..MaxAsked) /\ DOMAIN asked' = DOMAIN ops
    BY DEF PageInv, Typed, PageTypeOK, JobEnds
<1>1. OpsMove /\ Beside(ops, ops', o) /\ ops'[o].step = ops[o].step
    BY <1>0, JobEndsIs
<1>2. DOMAIN ops' = DOMAIN ops /\ \A q \in DOMAIN ops : Runs(ops[q]) => Runs(ops'[q])
    BY <1>1 DEF Beside, Runs
<1> QED BY <1>0, <1>1, <1>2, Unseen DEF JobEnds

LEMMA AnsweredEarlyKeeps == ASSUME PageInv, NEW o \in DOMAIN ops, AnsweredEarly(o) PROVE Keeps
<1>0. Typed
    BY DEF PageInv
<1>1. asked' \in Seq(0..MaxAsked) /\ DOMAIN asked' = DOMAIN ops /\ OpsMove
    BY <1>0, AnswerIs, NothingMoves DEF AnsweredEarly
<1> QED BY <1>1, Unseen DEF AnsweredEarly

LEMMA TickKeeps == ASSUME PageInv, Tick PROVE Keeps
<1>0. Typed
    BY DEF PageInv
<1>1. poll \in DOMAIN ops /\ asked[poll] + 1 \in 0..MaxAsked
    BY SMTT(30), <1>0, ToolPageAssumption DEF Typed, PageTypeOK, Tick
<1>2. asked' = [asked EXCEPT ![poll] = asked[poll] + 1]
    BY DEF Tick
<1>3. asked' \in Seq(0..MaxAsked) /\ DOMAIN asked' = DOMAIN ops /\ OpsMove
    BY <1>0, <1>1, <1>2, AskedIs, NothingMoves DEF Tick
<1> QED BY <1>3, Unseen DEF Tick

-----------------------------------------------------------------------------
(* Theorems *)

LEMMA PageInvHolds == Spec => []PageInv
<1>1. Init => PageInv
    <2>1. SUFFICES ASSUME Init PROVE PageInv
        OBVIOUS
    <2>2. /\ <<>> \in Seq(Files) /\ <<>> \in Seq(Reads) /\ <<>> \in Seq(Operations) /\ <<>> \in Seq(0..MaxAsked)
          /\ Len(<<>>) = 0 /\ DOMAIN <<>> = {}
        BY EmptySeq
    <2>3. Typed
        <3>1. /\ tool \in Tools /\ keyed \in BOOLEAN /\ anim = FALSE /\ staged = <<>> /\ fresh = Files /\ work = 0
              /\ reads = <<>> /\ ops = <<>> /\ asked = <<>> /\ poll = 0
            BY <2>1 DEF Init
        <3>2. 0 \in 0..MaxWork /\ 0 <= MaxReads
            BY ToolPageAssumption
        <3> QED BY <2>2, <3>1, <3>2 DEF Typed, PageTypeOK
    <2>4. "progress" \notin shown /\ BlankInv
        BY <2>1, HomeIsBlank DEF Init, BlankInv, DropzoneIsBlank
    <2>5. OpsInv /\ ResultInv
        BY <2>1, <2>2 DEF Init, OpsInv, ResultInv
    <2> QED BY <2>3, <2>4, <2>5 DEF PageInv, ProgressIsReal
<1>2. PageInv /\ [Next]_vars => PageInv'
    <2>1. SUFFICES ASSUME PageInv, [Next]_vars PROVE PageInv'
        OBVIOUS
    <2>2. Typed
        BY <2>1 DEF PageInv
    <2>3. CASE Visitor
        <3>1. Keeps
            BY <2>1, <2>2, <2>3, SwitchToolKeeps, ResetWorkspaceKeeps, SaveKeyKeeps, SelectKeeps,
               RemoveStagedFileKeeps, ExecuteKeeps, GenerateKeeps DEF Visitor
        <3> QED BY <2>1, <3>1, InvKept
    <2>4. ASSUME NEW i \in DOMAIN reads, FinishRead(i) PROVE PageInv'
        BY <2>1, <2>4, FinishReadKeeps, InvKept
    <2>5. ASSUME NEW o \in DOMAIN ops, Proceeds(o) PROVE PageInv'
        <3>1. Keeps
            BY <2>1, <2>2, <2>5, LocalStepKeeps, LocalDoneKeeps, LocalFailsKeeps, DirectDoneKeeps,
               FallsBackKeeps, PostedKeeps, PostFailsKeeps DEF Proceeds
        <3> QED BY <2>1, <3>1, InvKept
    <2>6. ASSUME NEW o \in DOMAIN ops, JobEnds(o) \/ AnsweredEnded(o) \/ AnsweredEarly(o) PROVE PageInv'
        <3>1. Keeps
            BY <2>1, <2>2, <2>6, JobEndsKeeps, AnsweredEndedKeeps, AnsweredEarlyKeeps
        <3> QED BY <2>1, <3>1, InvKept
    <2>7. CASE Tick
        BY <2>1, <2>7, TickKeeps, InvKept
    <2>8. CASE UNCHANGED vars
        BY <2>1, <2>8 DEF vars, PageInv, Typed, PageTypeOK, OpsInv, ResultInv, ProgressIsReal, BlankInv, DropzoneIsBlank
    <2> QED BY <2>1, <2>3, <2>4, <2>5, <2>6, <2>7, <2>8 DEF Next
<1> QED BY <1>1, <1>2, PTL DEF Spec

(* What the page shows is what is going on, for any tools, files and       *)
(* limits: progress only while something is under way that takes it down,  *)
(* the dropzone only over a blank page.                                    *)
THEOREM PageStaysSound == Spec => []PageIsSound
<1>1. PageInv => PageIsSound
    BY InvHolds
<1> QED BY <1>1, PageInvHolds, PTL

(* A card offers what its operation made, under that operation's tool,     *)
(* whatever the visitor turned to since.                                   *)
THEOREM ResultsAreTheirOwn == Spec => []ResultIsItsOwn
<1>1. PageInv => ResultIsItsOwn
    BY InvHolds
<1> QED BY <1>1, PageInvHolds, PTL

-----------------------------------------------------------------------------
(* Who holds which file *)

\* A file that is still to come: not selected, or being read.
Free(f) == f \in fresh \/ \E i \in DOMAIN reads : f \in Range(reads[i].files)

\* A list that has no file twice and none that is still to come.
Clear(q) == IsInjective(q) /\ \A f \in Range(q) : ~Free(f)

\* What a loop has still before it, it has not taken.
Ahead(r, q) ==
    r.step = "local" /\ r.tool \in LoopTools => \A i \in DOMAIN q : i > r.at => q[i] \notin Range(r.taken)

Fits(r, q) == Clear(r.taken) /\ Clear(r.files) /\ (r.live => r.files = <<>>) /\ Ahead(r, q)

\* FilesOf, of any operation and staged array.
Held(r, s) == IF r.live THEN s ELSE r.files

ReadsApart ==
    /\ \A i \in DOMAIN reads : IsInjective(reads[i].files) /\ \A f \in Range(reads[i].files) : f \notin fresh
    /\ \A i, j \in DOMAIN reads : i # j => \A f \in Range(reads[i].files) : f \notin Range(reads[j].files)

FilesInv == ReadsApart /\ Clear(staged) /\ \A o \in DOMAIN ops : Fits(ops[o], Held(ops[o], staged))

\* No file is to come again.
NoneComesBack == \A f : Free(f)' => Free(f)

LEMMA FilesFrom ==
    ASSUME NoneComesBack, ReadsApart', Clear(staged)',
           \A o \in DOMAIN ops' : Fits(ops'[o], Held(ops'[o], staged'))
    PROVE  FilesInv'
<1>1. ASSUME NEW o \in DOMAIN ops' PROVE Fits(ops[o], Held(ops[o], staged))'
    <2>1. Fits(ops'[o], Held(ops'[o], staged'))
        OBVIOUS
    <2> QED BY <2>1 DEF Fits, Clear, NoneComesBack, Ahead, Held
<1> QED BY <1>1 DEF FilesInv

\* A step that leaves the selections alone.
LEMMA FilesStand ==
    ASSUME FilesInv, reads' = reads, fresh' = fresh, Clear(staged'),
           \A o \in DOMAIN ops' : Fits(ops'[o], Held(ops'[o], staged'))
    PROVE  FilesInv'
<1>1. NoneComesBack /\ ReadsApart' /\ Clear(staged)'
    BY DEF NoneComesBack, ReadsApart, FilesInv, Clear, Free
<1> QED BY <1>1, FilesFrom

LEMMA EmptyClear == Clear(<<>>)
<1>1. DOMAIN <<>> = {}
    BY EmptySeq
<1> QED BY <1>1 DEF Clear, IsInjective, Range

LEMMA HeldIs == ASSUME NEW o \in DOMAIN ops PROVE FilesOf(o) = Held(ops[o], staged)
BY DEF FilesOf, Held

LEMMA HeldClear ==
    ASSUME FilesInv, NEW o \in DOMAIN ops
    PROVE  Clear(FilesOf(o)) /\ Fits(ops[o], FilesOf(o))
BY HeldIs DEF FilesInv, FilesOf, Fits

LEMMA DetachedFits ==
    ASSUME Typed, FilesInv, NEW s, NEW o \in DOMAIN Detached
    PROVE  Fits(Detached[o], Held(Detached[o], s))
<1>1. /\ o \in DOMAIN ops /\ Alike(ops[o], Detached[o]) /\ Detached[o].live = FALSE
      /\ Detached[o].files = FilesOf(o)
    BY DetachedIs
<1>2. Clear(FilesOf(o)) /\ Fits(ops[o], FilesOf(o))
    BY <1>1, HeldClear
<1>3. Held(Detached[o], s) = FilesOf(o)
    BY <1>1 DEF Held
<1> QED BY <1>1, <1>2, <1>3 DEF Fits, Ahead, Alike

\* An operation is set in what does not matter to its files.
LEMMA BesideFits ==
    ASSUME NEW s, NEW t, NEW o \in DOMAIN s, NEW w, Beside(s, t, o), Holding(s[o], t[o]), t[o].taken = s[o].taken,
           t[o].step # "local" \/ (t[o].step = s[o].step /\ t[o].tool = s[o].tool /\ t[o].at = s[o].at),
           \A q \in DOMAIN s : Fits(s[q], Held(s[q], w))
    PROVE  \A q \in DOMAIN t : Fits(t[q], Held(t[q], w))
<1>1. Held(t[o], w) = Held(s[o], w)
    BY DEF Holding, Held
<1>2. Fits(t[o], Held(t[o], w))
    BY <1>1 DEF Fits, Ahead, Holding
<1> QED BY <1>2 DEF Beside

LEMMA ReleasedFits ==
    ASSUME Typed, FilesInv, NEW o \in DOMAIN Released
    PROVE  Fits(Released[o], Held(Released[o], <<>>))
<1>1. /\ o \in DOMAIN ops /\ Alike(ops[o], Released[o]) /\ Released[o].live = FALSE
      /\ Released[o].files = ops[o].files
    BY ReleasedIs
<1>2. Fits(ops[o], Held(ops[o], staged)) /\ ops[o].live \in BOOLEAN
    BY <1>1, OpsAre DEF FilesInv
<1>3. Held(Released[o], <<>>) = ops[o].files /\ DOMAIN <<>> = {}
    BY <1>1, EmptySeq DEF Held
<1>4. CASE ops[o].live
    BY <1>1, <1>2, <1>3, <1>4 DEF Fits, Ahead, Alike
<1>5. CASE ~ops[o].live
    BY <1>1, <1>2, <1>3, <1>5 DEF Fits, Ahead, Alike, Held
<1> QED BY <1>4, <1>5

\* Lists of different things, taken apart and put together.
LEMMA RemovedStays ==
    ASSUME NEW T, NEW s \in Seq(T), NEW i \in DOMAIN s, IsInjective(s)
    PROVE  /\ IsInjective(RemoveAt(s, i)) /\ Range(RemoveAt(s, i)) \subseteq Range(s)
           /\ \A j \in DOMAIN RemoveAt(s, i) : \E k \in DOMAIN s : k >= j /\ RemoveAt(s, i)[j] = s[k]
<1> DEFINE n == Len(s)
           left == RemoveAt(s, i)
           at(j) == IF j < i THEN j ELSE j + 1
<1>1. /\ left \in Seq(T) /\ Len(left) = n - 1 /\ n \in Nat \ {0} /\ i \in 1..n /\ DOMAIN s = 1..n
      /\ \A j \in 1..(n - 1) : left[j] = IF j < i THEN s[j] ELSE s[j + 1]
    BY RemovedIs, LenProperties
<1>2. DOMAIN left = 1..(n - 1)
    BY <1>1, LenProperties
<1> HIDE DEF n, left
<1>3. ASSUME NEW j \in 1..(n - 1)
      PROVE  at(j) \in 1..n /\ at(j) >= j /\ left[j] = s[at(j)]
    BY <1>1
<1>4. ASSUME NEW j \in 1..(n - 1), NEW k \in 1..(n - 1), at(j) = at(k) PROVE j = k
    BY <1>1, <1>4
<1> HIDE DEF at
<1>5. IsInjective(left)
    BY <1>1, <1>2, <1>3, <1>4 DEF IsInjective
<1>6. Range(left) \subseteq Range(s)
    BY <1>1, <1>2, <1>3 DEF Range
<1>7. \A j \in DOMAIN left : \E k \in DOMAIN s : k >= j /\ left[j] = s[k]
    BY <1>1, <1>2, <1>3
<1> QED BY <1>5, <1>6, <1>7 DEF left

LEMMA AppendedStays ==
    ASSUME NEW T, NEW s \in Seq(T), NEW x \in T, IsInjective(s), x \notin Range(s)
    PROVE  IsInjective(Append(s, x)) /\ Range(Append(s, x)) = Range(s) \cup {x}
<1> DEFINE n == Len(s)
           t == Append(s, x)
<1>1. /\ n \in Nat /\ DOMAIN s = 1..n /\ t \in Seq(T) /\ Len(t) = n + 1 /\ t[n + 1] = x
      /\ \A j \in 1..n : t[j] = s[j]
    BY AppendProperties, LenProperties
<1>2. DOMAIN t = 1..(n + 1)
    BY <1>1, LenProperties
<1> HIDE DEF n, t
<1>3. 1..(n + 1) = 1..n \cup {n + 1}
    BY <1>1
<1>4. \A j \in 1..n : s[j] # x
    BY <1>1 DEF Range
<1>5. IsInjective(t)
    BY <1>1, <1>2, <1>3, <1>4 DEF IsInjective
<1>6. Range(t) = Range(s) \cup {x}
    BY <1>1, <1>2, <1>3 DEF Range
<1> QED BY <1>5, <1>6 DEF t

LEMMA JoinedStays ==
    ASSUME NEW T, NEW s \in Seq(T), NEW t \in Seq(T), IsInjective(s), IsInjective(t),
           \A x \in Range(t) : x \notin Range(s)
    PROVE  /\ IsInjective(s \o t)
           /\ \A j \in DOMAIN (s \o t) : (j \in DOMAIN s /\ (s \o t)[j] = s[j]) \/ (s \o t)[j] \in Range(t)
<1> DEFINE m == Len(s)
           n == Len(t)
           u == s \o t
<1>1. /\ m \in Nat /\ n \in Nat /\ DOMAIN s = 1..m /\ DOMAIN t = 1..n /\ u \in Seq(T) /\ Len(u) = m + n
      /\ \A j \in 1..(m + n) : u[j] = IF j <= m THEN s[j] ELSE t[j - m]
    BY ConcatProperties, LenProperties
<1>2. DOMAIN u = 1..(m + n)
    BY <1>1, LenProperties
<1> HIDE DEF m, n, u
<1>3. ASSUME NEW j \in 1..(m + n)
      PROVE  \/ j \in 1..m /\ u[j] = s[j]
             \/ j > m /\ j - m \in 1..n /\ u[j] = t[j - m]
    BY <1>1
<1>4. \A j \in 1..m, k \in 1..n : s[j] # t[k]
    BY <1>1 DEF Range
<1>5. ASSUME NEW j \in 1..(m + n), NEW k \in 1..(m + n), u[j] = u[k] PROVE j = k
    <2>1. CASE j \in 1..m /\ u[j] = s[j] /\ k \in 1..m /\ u[k] = s[k]
        BY <1>1, <1>5, <2>1 DEF IsInjective
    <2>2. CASE j > m /\ j - m \in 1..n /\ u[j] = t[j - m] /\ k > m /\ k - m \in 1..n /\ u[k] = t[k - m]
        <3>1. j - m = k - m
            BY <1>1, <1>5, <2>2 DEF IsInjective
        <3> QED BY <1>1, <3>1
    <2>3. CASE j \in 1..m /\ u[j] = s[j] /\ k - m \in 1..n /\ u[k] = t[k - m]
        BY <1>4, <1>5, <2>3
    <2>4. CASE k \in 1..m /\ u[k] = s[k] /\ j - m \in 1..n /\ u[j] = t[j - m]
        BY <1>4, <1>5, <2>4
    <2> QED BY <1>3, <2>1, <2>2, <2>3, <2>4
<1>6. IsInjective(u)
    BY <1>2, <1>5 DEF IsInjective
<1>7. \A j \in DOMAIN u : (j \in DOMAIN s /\ u[j] = s[j]) \/ u[j] \in Range(t)
    BY <1>1, <1>2, <1>3 DEF Range
<1> QED BY <1>6, <1>7 DEF u

LEMMA SeveralStays ==
    ASSUME NEW t, NEW q \in Seq(Files), IsInjective(q)
    PROVE  IsInjective(Several(t, q)) /\ Range(Several(t, q)) \subseteq Range(q)
<1>1. CASE ClientContract(t).many
    BY <1>1 DEF Several
<1>2. CASE ~ClientContract(t).many
    <2> DEFINE n == IF Len(q) = 0 THEN 0 ELSE 1
               u == SubSeq(q, 1, n)
    <2>1. Several(t, q) = u
        BY <1>2 DEF Several
    <2>2. n \in {0, 1} /\ n <= Len(q) /\ Len(q) \in Nat /\ DOMAIN q = 1..Len(q)
        BY LenProperties
    <2> HIDE DEF n
    <2>3. \A i \in 1..n : q[i] \in Files
        BY <2>2, ElementOfSeq
    <2>4. u \in Seq(Files) /\ Len(u) = n /\ \A i \in 1..n : u[i] = q[i]
        <3>1. /\ u \in Seq(Files) /\ Len(u) = IF 1 <= n THEN n - 1 + 1 ELSE 0
              /\ \A i \in 1..(n - 1 + 1) : u[i] = q[1 + i - 1]
            BY <2>2, <2>3, SubSeqProperties
        <3> HIDE DEF u
        <3>2. Len(u) = n
            BY <2>2, <3>1
        <3>3. ASSUME NEW i \in 1..n PROVE u[i] = q[i]
            <4>1. i \in 1..(n - 1 + 1) /\ 1 + i - 1 = i
                BY <2>2
            <4> QED BY <3>1, <4>1
        <3> QED BY <3>1, <3>2, <3>3
    <2>5. DOMAIN u = 1..n
        BY <2>4, LenProperties
    <2> HIDE DEF u
    <2>6. \A i \in 1..n : i \in 1..Len(q)
        BY <2>2
    <2>7. IsInjective(u) /\ Range(u) \subseteq Range(q)
        BY <2>2, <2>4, <2>5, <2>6 DEF IsInjective, Range
    <2> QED BY <2>1, <2>7
<1> QED BY <1>1, <1>2

-----------------------------------------------------------------------------
(* The files in a step *)

LEMMA ResetFiles ==
    ASSUME Typed, FilesInv, reads' = reads, fresh' = fresh, ops' = Detached, staged' = <<>>
    PROVE  FilesInv'
<1>1. Clear(staged')
    BY EmptyClear
<1>2. \A o \in DOMAIN ops' : Fits(ops'[o], Held(ops'[o], staged'))
    BY DetachedFits
<1> QED BY <1>1, <1>2, FilesStand

LEMMA FailedFiles ==
    ASSUME Typed, FilesInv, NEW o \in DOMAIN ops, Fails(o), reads' = reads, fresh' = fresh,
           ops[o].step \in {"local", "posting"} \/ ops[o].job = "FAILED"
    PROVE  FilesInv'
<1>1. staged' = <<>> /\ Clear(staged')
    BY EmptyClear DEF Fails, ResetTo
<1>2. StepSet(Detached, ops', o, "failed") /\ o \in DOMAIN Detached
    BY FailsIs, DetachedIs
<1>3. /\ Beside(Detached, ops', o) /\ Holding(Detached[o], ops'[o]) /\ ops'[o].taken = Detached[o].taken
      /\ ops'[o].step # "local"
    BY <1>2 DEF StepSet
<1>4. \A q \in DOMAIN ops' : Fits(ops'[q], Held(ops'[q], staged'))
    BY <1>2, <1>3, DetachedFits, BesideFits
<1> QED BY <1>1, <1>4, FilesStand

\* One operation goes on, and takes no file.
LEMMA OneGoesOn ==
    ASSUME FilesInv, NEW o \in DOMAIN ops, Beside(ops, ops', o), Holding(ops[o], ops'[o]),
           ops'[o].taken = ops[o].taken,
           ops'[o].step # "local" \/ (ops'[o].step = ops[o].step /\ ops'[o].tool = ops[o].tool /\ ops'[o].at = ops[o].at),
           reads' = reads, fresh' = fresh, staged' = staged
    PROVE  FilesInv'
<1>1. Clear(staged') /\ \A q \in DOMAIN ops : Fits(ops[q], Held(ops[q], staged'))
    BY DEF FilesInv
<1>2. \A q \in DOMAIN ops' : Fits(ops'[q], Held(ops'[q], staged'))
    BY <1>1, BesideFits
<1> QED BY <1>1, <1>2, FilesStand

LEMMA NothingTaken ==
    ASSUME FilesInv, ops' = ops, reads' = reads, fresh' = fresh, staged' = staged
    PROVE  FilesInv'
BY FilesStand DEF FilesInv

LEMMA DoneFiles ==
    ASSUME Typed, FilesInv, NEW o \in DOMAIN ops, ops' = [ops EXCEPT ![o].step = "done"],
           ops[o].step \in {"local", "direct"} \/ ops[o].job = "COMPLETED",
           reads' = reads, fresh' = fresh, staged' = staged
    PROVE  FilesInv'
<1>1. Standing(ops) /\ "done" \in Steps
    BY DEF Standing, Steps
<1>2. StepSet(ops, ops', o, "done")
    BY <1>1, StepMoves
<1> QED BY <1>2, OneGoesOn DEF StepSet

LEMMA SelectFiles ==
    ASSUME Typed, FilesInv, Select
    PROVE  FilesInv'
<1>1. PICK append \in BOOLEAN, files \in Seq(Files), r \in Reads :
         /\ r = [for |-> tool, files |-> files, append |-> append] /\ reads' = Append(reads, r)
         /\ IsInjective(files) /\ Range(files) \subseteq fresh /\ fresh' = fresh \ Range(files)
    BY SelectIs
<1>2. r \in Reads /\ r.files = files
    BY <1>1, SelectionIs DEF Typed, PageTypeOK
<1> DEFINE n == Len(reads)
<1>3. /\ n \in Nat /\ DOMAIN reads = 1..n /\ reads' \in Seq(Reads) /\ Len(reads') = n + 1 /\ reads'[n + 1] = r
      /\ \A i \in 1..n : reads'[i] = reads[i]
    BY <1>1, <1>2, AppendProperties, LenProperties DEF Typed
<1>4. DOMAIN reads' = 1..(n + 1)
    BY <1>3, LenProperties
<1> HIDE DEF n
<1>5. 1..(n + 1) = 1..n \cup {n + 1} /\ n + 1 \notin 1..n
    BY <1>3
<1>6. NoneComesBack
    BY <1>1, <1>2, <1>3, <1>4, <1>5 DEF NoneComesBack, Free
<1>7. ReadsApart'
    <2>1. ReadsApart
        BY DEF FilesInv
    <2>2. ASSUME NEW i \in 1..(n + 1)
          PROVE  IsInjective(reads'[i].files) /\ \A f \in Range(reads'[i].files) : f \notin fresh'
        BY <1>1, <1>2, <1>3, <1>5, <2>1 DEF ReadsApart
    <2>3. ASSUME NEW i \in 1..(n + 1), NEW j \in 1..(n + 1), i # j, NEW f \in Range(reads'[i].files)
          PROVE  f \notin Range(reads'[j].files)
        <3>1. CASE i \in 1..n /\ j \in 1..n
            BY <1>3, <2>1, <2>3, <3>1 DEF ReadsApart
        <3>2. CASE i = n + 1 /\ j \in 1..n
            BY <1>1, <1>2, <1>3, <2>1, <2>3, <3>2 DEF ReadsApart
        <3>3. CASE i \in 1..n /\ j = n + 1
            BY <1>1, <1>2, <1>3, <2>1, <2>3, <3>3 DEF ReadsApart
        <3> QED BY <1>5, <2>3, <3>1, <3>2, <3>3
    <2> QED BY <1>4, <2>2, <2>3 DEF ReadsApart
<1>8. staged' = staged /\ ops' = ops
    BY DEF Select
<1>9. Clear(staged)'
    BY <1>6, <1>8 DEF FilesInv, Clear, NoneComesBack
<1> QED BY <1>6, <1>7, <1>8, <1>9, FilesFrom DEF FilesInv

LEMMA RemoveStagedFiles ==
    ASSUME Typed, FilesInv, RemoveStagedFile
    PROVE  FilesInv'
<1>1. PICK i \in DOMAIN staged :
         IF RemoveAt(staged, i) = <<>> THEN ResetTo(tool, Released)
         ELSE staged' = RemoveAt(staged, i) /\ UNCHANGED <<ops, anim, shown>>
    BY DEF RemoveStagedFile, Released
<1>2. reads' = reads /\ fresh' = fresh
    BY DEF RemoveStagedFile
<1>3. CASE RemoveAt(staged, i) = <<>>
    <2>1. staged' = <<>> /\ ops' = Released
        BY <1>1, <1>3 DEF ResetTo
    <2> QED BY <1>2, <2>1, EmptyClear, ReleasedFits, FilesStand
<1>4. CASE RemoveAt(staged, i) # <<>>
    <2> DEFINE left == RemoveAt(staged, i)
    <2>1. staged' = left /\ ops' = ops
        BY <1>1, <1>4
    <2>2. /\ IsInjective(left) /\ Range(left) \subseteq Range(staged)
          /\ \A j \in DOMAIN left : \E k \in DOMAIN staged : k >= j /\ left[j] = staged[k]
        BY RemovedStays DEF Typed, PageTypeOK, FilesInv, Clear
    <2>3. left \in Seq(Files) /\ staged \in Seq(Files)
        BY RemovedIs DEF Typed, PageTypeOK
    <2> HIDE DEF left
    <2>4. Clear(staged')
        BY <2>1, <2>2 DEF FilesInv, Clear
    <2>5. ASSUME NEW o \in DOMAIN ops PROVE Fits(ops[o], Held(ops[o], left))
        <3>1. Fits(ops[o], Held(ops[o], staged)) /\ ops[o].at \in Nat
            BY OpsAre, OperationIs DEF FilesInv
        <3>2. CASE ops[o].live
            <4>1. Held(ops[o], left) = left /\ Held(ops[o], staged) = staged
                BY <3>2 DEF Held
            <4>2. DOMAIN left = 1..Len(left) /\ DOMAIN staged = 1..Len(staged) /\ Len(left) \in Nat /\ Len(staged) \in Nat
                BY <2>3, LenProperties
            <4>3. ASSUME ops[o].step = "local", ops[o].tool \in LoopTools, NEW j \in DOMAIN left, j > ops[o].at
                  PROVE  left[j] \notin Range(ops[o].taken)
                <5>1. PICK k \in DOMAIN staged : k >= j /\ left[j] = staged[k]
                    BY <2>2
                <5>2. k > ops[o].at
                    BY <3>1, <4>2, <4>3, <5>1
                <5> QED BY <3>1, <4>1, <4>3, <5>1, <5>2 DEF Fits, Ahead
            <4> QED BY <3>1, <4>1, <4>3 DEF Fits, Ahead
        <3>3. CASE ~ops[o].live
            BY <3>1, <3>3 DEF Held
        <3> QED BY <3>2, <3>3
    <2> QED BY <1>2, <2>1, <2>4, <2>5, FilesStand
<1> QED BY <1>3, <1>4

\* A new operation has taken nothing, or all that is staged with a request.
LEMMA StartsFiles ==
    ASSUME Typed, FilesInv, NEW r \in Operations, Runs(r), r.job = "none", Starts(r), poll' = poll, reads' = reads,
           r.files = <<>>, r.taken \in {<<>>, staged}, r.step # "posting" => r.taken = <<>>,
           fresh' = fresh, staged' = staged
    PROVE  FilesInv'
<1>1. /\ DOMAIN ops' = DOMAIN ops \cup {Len(ops) + 1}
      /\ ops'[Len(ops) + 1] = r /\ \A o \in DOMAIN ops : ops'[o] = ops[o]
    BY StartsIs
<1>2. Clear(r.taken) /\ Clear(r.files)
    BY EmptyClear DEF FilesInv
<1>3. Ahead(r, Held(r, staged))
    <2>1. ASSUME r.step = "local" PROVE Range(r.taken) = {}
        <3>1. r.taken = <<>> /\ DOMAIN <<>> = {}
            BY <2>1, EmptySeq
        <3> QED BY <3>1 DEF Range
    <2> QED BY <2>1 DEF Ahead
<1>4. Fits(r, Held(r, staged))
    BY <1>2, <1>3 DEF Fits
<1>5. \A o \in DOMAIN ops' : Fits(ops'[o], Held(ops'[o], staged'))
    BY <1>1, <1>4 DEF FilesInv
<1> QED BY <1>5, FilesStand DEF FilesInv

LEMMA ExecuteFiles ==
    ASSUME Typed, FilesInv, ExecuteDocumentOperation
    PROVE  FilesInv'
<1>0. tool \in Tools /\ staged \in Seq(Files) /\ <<>> \in Seq(Files)
    BY EmptySeq DEF Typed, PageTypeOK
<1>1. reads' = reads /\ fresh' = fresh /\ staged' = staged /\ poll' = poll
    BY DEF ExecuteDocumentOperation
<1>2. CASE LackingKey
    BY <1>1, <1>2, NothingTaken DEF ExecuteDocumentOperation, LackingKey
<1>3. CASE ~LackingKey
    <2>1. PICK step \in Running, live \in BOOLEAN, taken \in {<<>>, staged} :
             /\ Starts(Operation(tool, step, live, taken))
             /\ step # "posting" => taken = <<>>
        BY <1>3, ExecuteIs
    <2>2. taken \in Seq(Files)
        BY <1>0, <2>1
    <2>3. ASSUME NEW r, r = Operation(tool, step, live, taken) PROVE FilesInv'
        <3>1. /\ r \in Operations /\ Runs(r) /\ r.job = "none" /\ r.files = <<>> /\ r.taken = taken /\ r.step = step
            BY <1>0, <2>2, <2>3, NewOperation
        <3>2. Starts(r) /\ r.taken \in {<<>>, staged} /\ (r.step # "posting" => r.taken = <<>>)
            BY <2>1, <2>3, <3>1
        <3> QED BY <1>1, <3>1, <3>2, StartsFiles
    <2> QED BY <2>3
<1> QED BY <1>2, <1>3

LEMMA GenerateFiles ==
    ASSUME Typed, FilesInv, Generate
    PROVE  FilesInv'
<1>0. tool \in Tools /\ <<>> \in Seq(Files) /\ "posting" \in Running
    BY EmptySeq DEF Typed, PageTypeOK, Running
<1>1. reads' = reads /\ fresh' = fresh /\ staged' = staged /\ poll' = poll
    BY DEF Generate
<1>2. PICK step \in Running, live \in BOOLEAN, taken \in Seq(Files) :
         Starts(Operation(tool, step, live, taken)) /\ taken = <<>>
    BY <1>0 DEF Generate
<1>3. ASSUME NEW r, r = Operation(tool, step, live, taken) PROVE FilesInv'
    <2>1. /\ r \in Operations /\ Runs(r) /\ r.job = "none" /\ r.files = <<>> /\ r.taken = taken
        BY <1>0, <1>3, NewOperation
    <2>2. Starts(r) /\ r.taken \in {<<>>, staged} /\ (r.step # "posting" => r.taken = <<>>)
        BY <1>2, <1>3, <2>1
    <2> QED BY <1>1, <2>1, <2>2, StartsFiles
<1> QED BY <1>3

\* The loop takes what is ahead of it, and what is ahead then it has not taken.
LEMMA LocalStepFiles ==
    ASSUME Typed, FilesInv, NEW o \in DOMAIN ops, LocalStep(o)
    PROVE  FilesInv'
<1> DEFINE q == FilesOf(o)
           k == ops[o].at + 1
           old == ops[o].taken
<1>1. /\ Beside(ops, ops', o) /\ Holding(ops[o], ops'[o])
      /\ ops'[o].tool = ops[o].tool /\ ops'[o].step = "local"
      /\ k \in 1..Len(q) /\ ops'[o].at = k /\ ops'[o].taken = Append(old, q[k])
    BY LocalStepIs
<1>2. q \in Seq(Files) /\ old \in Seq(Files) /\ ops[o].at \in Nat /\ DOMAIN q = 1..Len(q) /\ Len(q) \in Nat
    BY OpsAre, OperationIs, LenProperties
<1>3. Clear(q) /\ Fits(ops[o], q)
    BY HeldClear
<1>4. k > ops[o].at /\ k \in DOMAIN q /\ q[k] \in Files
    BY <1>1, <1>2, ElementOfSeq
<1>5. ops[o].step = "local" /\ ops[o].tool \in LoopTools
    BY DEF LocalStep
<1>6. reads' = reads /\ fresh' = fresh /\ staged' = staged
    BY DEF LocalStep
<1>7. Held(ops'[o], staged') = q
    BY <1>1, <1>6, HeldIs DEF Holding, Held
<1>8. \A i \in DOMAIN q : i > ops[o].at => q[i] \notin Range(old)
    BY <1>3, <1>5 DEF Fits, Ahead
<1> HIDE DEF q, k, old
<1>9. q[k] \notin Range(old)
    BY <1>4, <1>8
<1>10. IsInjective(old) /\ \A f \in Range(old) : ~Free(f)
    BY <1>3 DEF Fits, Clear, old
<1>11. IsInjective(Append(old, q[k])) /\ Range(Append(old, q[k])) = Range(old) \cup {q[k]}
    BY <1>2, <1>4, <1>9, <1>10, AppendedStays
<1>12. ~Free(q[k])
    BY <1>3, <1>4 DEF Clear, Range
<1>13. Clear(ops'[o].taken)
    BY <1>1, <1>10, <1>11, <1>12 DEF Clear
<1>14. ASSUME NEW i \in DOMAIN q, i > k PROVE q[i] \notin Range(Append(old, q[k]))
    <2>1. i > ops[o].at
        BY <1>1, <1>2, <1>14 DEF k
    <2>2. q[i] # q[k]
        BY <1>1, <1>2, <1>3, <1>4, <1>14 DEF Clear, IsInjective
    <2> QED BY <1>8, <1>11, <2>1, <2>2
<1>15. Ahead(ops'[o], q)
    BY <1>1, <1>14 DEF Ahead
<1>16. Fits(ops'[o], Held(ops'[o], staged'))
    BY <1>1, <1>3, <1>7, <1>13, <1>15 DEF Fits, Holding
<1>17. \A p \in DOMAIN ops' : Fits(ops'[p], Held(ops'[p], staged'))
    BY <1>1, <1>6, <1>16 DEF Beside, FilesInv
<1> QED BY <1>6, <1>17, FilesStand DEF FilesInv

LEMMA FallsBackFiles ==
    ASSUME Typed, FilesInv, NEW o \in DOMAIN ops, DirectFallsBack(o)
    PROVE  FilesInv'
<1>1. /\ Beside(ops, ops', o) /\ Holding(ops[o], ops'[o]) /\ ops'[o].step = "posting"
      /\ ops'[o].taken = FilesOf(o)
    BY FallsBackIs
<1>2. Clear(FilesOf(o)) /\ Fits(ops[o], FilesOf(o))
    BY HeldClear
<1>3. reads' = reads /\ fresh' = fresh /\ staged' = staged
    BY DEF DirectFallsBack
<1>4. Fits(ops'[o], Held(ops'[o], staged'))
    BY <1>1, <1>2 DEF Fits, Ahead, Holding
<1>5. \A p \in DOMAIN ops' : Fits(ops'[p], Held(ops'[p], staged'))
    BY <1>1, <1>3, <1>4 DEF Beside, FilesInv
<1> QED BY <1>3, <1>5, FilesStand DEF FilesInv

\* A selection that is done with is nobody's but the staging area's.
LEMMA ReadDone ==
    ASSUME Typed, ReadsApart, NEW i \in DOMAIN reads, reads' = RemoveAt(reads, i), fresh' = fresh
    PROVE  NoneComesBack /\ ReadsApart' /\ \A f \in Range(reads[i].files) : Free(f) /\ ~Free(f)'
<1> DEFINE n == Len(reads)
           at(j) == IF j < i THEN j ELSE j + 1
<1>1. /\ reads' \in Seq(Reads) /\ Len(reads') = n - 1 /\ n \in Nat \ {0} /\ i \in 1..n
      /\ \A j \in 1..(n - 1) : reads'[j] = IF j < i THEN reads[j] ELSE reads[j + 1]
    BY RemovedIs DEF Typed
<1>2. DOMAIN reads' = 1..(n - 1) /\ DOMAIN reads = 1..n
    BY <1>1, LenProperties DEF Typed
<1> HIDE DEF n
<1>3. ASSUME NEW j \in 1..(n - 1) PROVE at(j) \in 1..n /\ at(j) # i /\ reads'[j] = reads[at(j)]
    BY <1>1
<1>4. ASSUME NEW j \in 1..(n - 1), NEW k \in 1..(n - 1), j # k PROVE at(j) # at(k)
    BY <1>1, <1>4
<1> HIDE DEF at
<1>5. NoneComesBack
    BY <1>2, <1>3 DEF NoneComesBack, Free
<1>6. ReadsApart'
    <2>1. ASSUME NEW j \in 1..(n - 1)
          PROVE  IsInjective(reads'[j].files) /\ \A f \in Range(reads'[j].files) : f \notin fresh'
        BY <1>2, <1>3 DEF ReadsApart
    <2>2. ASSUME NEW j \in 1..(n - 1), NEW k \in 1..(n - 1), j # k, NEW f \in Range(reads'[j].files)
          PROVE  f \notin Range(reads'[k].files)
        <3>1. /\ at(j) \in DOMAIN reads /\ at(k) \in DOMAIN reads /\ at(j) # at(k)
              /\ reads'[j] = reads[at(j)] /\ reads'[k] = reads[at(k)]
            BY <1>2, <1>3, <1>4, <2>2
        <3> QED BY <2>2, <3>1 DEF ReadsApart
    <2> QED BY <1>2, <2>1, <2>2 DEF ReadsApart
<1>7. ASSUME NEW f \in Range(reads[i].files) PROVE Free(f) /\ ~Free(f)'
    <2>1. Free(f) /\ f \notin fresh
        BY DEF Free, ReadsApart
    <2>2. ASSUME NEW j \in 1..(n - 1) PROVE f \notin Range(reads'[j].files)
        BY <1>2, <1>3 DEF ReadsApart
    <2> QED BY <1>2, <2>1, <2>2 DEF Free
<1> QED BY <1>5, <1>6, <1>7

LEMMA FinishReadFiles ==
    ASSUME Typed, FilesInv, NEW i \in DOMAIN reads, FinishRead(i)
    PROVE  FilesInv'
<1> DEFINE r == reads[i]
           valid == Fit(r.for, r.files)
<1>1. r \in Reads /\ r.files \in Seq(Files)
    <2>1. r \in Reads
        BY DEF Typed, PageTypeOK, Reads
    <2> QED BY <2>1 DEF Reads
<1>2. reads' = RemoveAt(reads, i) /\ fresh' = fresh /\ staged' = Push(r, valid)
      /\ ops' = IF r.append THEN ops ELSE Detached
    BY DEF FinishRead
<1>3. ReadsApart /\ IsInjective(r.files)
    BY DEF FilesInv, ReadsApart
<1>4. NoneComesBack /\ ReadsApart' /\ \A f \in Range(r.files) : Free(f) /\ ~Free(f)'
    BY <1>2, <1>3, ReadDone
<1>5. valid \in Seq(Files) /\ IsInjective(valid) /\ Range(valid) \subseteq Range(r.files)
    <2>1. /\ valid \in Seq(Files) /\ IsInjective(valid)
          /\ \A j \in 1..Len(valid) : valid[j] \in Range(r.files)
        BY <1>1, <1>3, FitKeeps
    <2>2. DOMAIN valid = 1..Len(valid)
        BY <2>1, LenProperties
    <2> HIDE DEF valid
    <2> QED BY <2>1, <2>2 DEF Range
<1> HIDE DEF r, valid
<1>6. CASE r.append
    <2> DEFINE now == staged \o valid
    <2>1. staged' = now /\ ops' = ops /\ staged \in Seq(Files)
        BY <1>2, <1>6 DEF Push, Typed, PageTypeOK
    <2>2. Clear(staged) /\ \A f \in Range(valid) : f \notin Range(staged)
        BY <1>4, <1>5 DEF FilesInv, Clear
    <2>3. /\ IsInjective(now)
          /\ \A j \in DOMAIN now : (j \in DOMAIN staged /\ now[j] = staged[j]) \/ now[j] \in Range(valid)
        BY <1>5, <2>1, <2>2, JoinedStays DEF Clear
    <2> HIDE DEF now
    <2>4. ASSUME NEW f \in Range(now) PROVE ~Free(f)'
        <3>1. f \in Range(staged) \/ f \in Range(valid)
            BY <2>3 DEF Range
        <3> QED BY <1>4, <1>5, <2>2, <3>1 DEF Clear, NoneComesBack
    <2>5. Clear(staged)'
        BY <2>1, <2>3, <2>4 DEF Clear
    <2>6. ASSUME NEW o \in DOMAIN ops PROVE Fits(ops[o], Held(ops[o], now))
        <3>1. Fits(ops[o], Held(ops[o], staged))
            BY DEF FilesInv
        <3>2. CASE ops[o].live
            <4>1. Held(ops[o], now) = now /\ Held(ops[o], staged) = staged
                BY <3>2 DEF Held
            <4>2. \A f \in Range(valid) : f \notin Range(ops[o].taken)
                BY <1>4, <1>5, <3>1 DEF Fits, Clear
            <4>3. Ahead(ops[o], now)
                BY <2>3, <3>1, <4>1, <4>2 DEF Fits, Ahead
            <4> QED BY <3>1, <4>1, <4>3 DEF Fits
        <3>3. CASE ~ops[o].live
            BY <3>1, <3>3 DEF Held
        <3> QED BY <3>2, <3>3
    <2> QED BY <1>4, <2>1, <2>5, <2>6, FilesFrom
<1>7. CASE ~r.append
    <2>1. staged' = Several(tool, valid) /\ ops' = Detached
        BY <1>2, <1>7 DEF Push
    <2>2. IsInjective(staged') /\ Range(staged') \subseteq Range(valid)
        BY <1>5, <2>1, SeveralStays
    <2>3. Clear(staged)'
        BY <1>4, <1>5, <2>2 DEF Clear
    <2> QED BY <1>4, <2>1, <2>3, DetachedFits, FilesFrom
<1> QED BY <1>6, <1>7

LEMMA FilesInvHolds == Spec => []FilesInv
<1>1. Init => FilesInv
    <2>1. SUFFICES ASSUME Init PROVE FilesInv
        OBVIOUS
    <2>2. reads = <<>> /\ ops = <<>> /\ staged = <<>> /\ DOMAIN <<>> = {}
        BY <2>1, EmptySeq DEF Init
    <2> QED BY <2>2, EmptyClear DEF FilesInv, ReadsApart
<1>2. Typed /\ FilesInv /\ [Next]_vars => FilesInv'
    <2>1. SUFFICES ASSUME Typed, FilesInv, [Next]_vars PROVE FilesInv'
        OBVIOUS
    <2>2. CASE Visitor
        <3>1. CASE SwitchTool
            BY <2>1, <3>1, ResetFiles DEF SwitchTool, ResetTo
        <3>2. CASE ResetWorkspace
            BY <2>1, <3>2, ResetFiles DEF ResetWorkspace, ResetTo
        <3>3. CASE SaveKey
            BY <2>1, <3>3, NothingTaken DEF SaveKey
        <3> QED BY <2>1, <2>2, <3>1, <3>2, <3>3, SelectFiles, RemoveStagedFiles, ExecuteFiles, GenerateFiles DEF Visitor
    <2>3. ASSUME NEW i \in DOMAIN reads, FinishRead(i) PROVE FilesInv'
        BY <2>1, <2>3, FinishReadFiles
    <2>4. ASSUME NEW o \in DOMAIN ops, Proceeds(o) PROVE FilesInv'
        <3>1. CASE LocalStep(o) \/ DirectFallsBack(o)
            BY <2>1, <3>1, LocalStepFiles, FallsBackFiles
        <3>2. CASE LocalDone(o)
            BY <2>1, <3>2, DoneFiles DEF LocalDone
        <3>3. CASE DirectDone(o)
            BY <2>1, <3>3, DoneFiles DEF DirectDone
        <3>4. CASE LocalFails(o)
            BY <2>1, <3>4, FailedFiles DEF LocalFails
        <3>5. CASE Posted(o)
            <4>1. /\ Beside(ops, ops', o) /\ Holding(ops[o], ops'[o]) /\ ops'[o].step # "local"
                  /\ ops'[o].taken = ops[o].taken
                BY <2>1, <3>5, PostedIs
            <4> QED BY <2>1, <3>5, <4>1, OneGoesOn DEF Posted
        <3>6. CASE PostFails(o) /\ ClientContract(ops[o].tool).mode = "generator"
            <4>1. Standing(ops) /\ "failed" \in Steps /\ ops' = [ops EXCEPT ![o].step = "failed"] /\ ops[o].step = "posting"
                BY <3>6 DEF Standing, Steps, PostFails
            <4>2. StepSet(ops, ops', o, "failed")
                BY <2>1, <4>1, StepMoves
            <4>3. reads' = reads /\ fresh' = fresh /\ staged' = staged
                BY <3>6 DEF PostFails
            <4> QED BY <2>1, <4>2, <4>3, OneGoesOn DEF StepSet
        <3>7. CASE PostFails(o) /\ ClientContract(ops[o].tool).mode # "generator"
            <4>1. Fails(o) /\ ops[o].step = "posting" /\ reads' = reads /\ fresh' = fresh
                BY <3>7 DEF PostFails
            <4> QED BY <2>1, <4>1, FailedFiles
        <3> QED BY <2>4, <3>1, <3>2, <3>3, <3>4, <3>5, <3>6, <3>7 DEF Proceeds
    <2>5. ASSUME NEW o \in DOMAIN ops, JobEnds(o) PROVE FilesInv'
        <3>1. /\ Beside(ops, ops', o) /\ Holding(ops[o], ops'[o]) /\ ops'[o].taken = ops[o].taken
              /\ ops'[o].tool = ops[o].tool /\ ops'[o].step = ops[o].step /\ ops'[o].at = ops[o].at
            BY <2>1, <2>5, JobEndsIs
        <3> QED BY <2>1, <2>5, <3>1, OneGoesOn DEF JobEnds
    <2>6. ASSUME NEW o \in DOMAIN ops, AnsweredEnded(o) PROVE FilesInv'
        <3>1. CASE ops[o].job = "COMPLETED"
            <4>1. ops' = [ops EXCEPT ![o].step = "done"] /\ reads' = reads /\ fresh' = fresh /\ staged' = staged
                BY <2>6, <3>1 DEF AnsweredEnded
            <4> QED BY <2>1, <3>1, <4>1, DoneFiles
        <3>2. CASE ops[o].job # "COMPLETED"
            <4>1. Fails(o) /\ ops[o].job = "FAILED" /\ reads' = reads /\ fresh' = fresh
                BY <2>6, <3>2 DEF AnsweredEnded
            <4> QED BY <2>1, <4>1, FailedFiles
        <3> QED BY <3>1, <3>2
    <2>7. ASSUME NEW o \in DOMAIN ops, AnsweredEarly(o) PROVE FilesInv'
        BY <2>1, <2>7, NothingTaken DEF AnsweredEarly
    <2>8. CASE Tick
        BY <2>1, <2>8, NothingTaken DEF Tick
    <2>9. CASE UNCHANGED vars
        BY <2>1, <2>9, NothingTaken DEF vars
    <2> QED BY <2>1, <2>2, <2>3, <2>4, <2>5, <2>6, <2>7, <2>8, <2>9 DEF Next
<1>3. PageInv => Typed
    BY DEF PageInv
<1> QED BY <1>1, <1>2, <1>3, PageInvHolds, PTL DEF Spec

(* No file is twice in one output, for any files and any number of         *)
(* selections, removals and operations that interleave with the loops.     *)
THEOREM NoFileIsTakenTwice == Spec => []NothingTakenTwice
<1>1. FilesInv => NothingTakenTwice
    BY DEF FilesInv, Fits, Clear, NothingTakenTwice
<1> QED BY <1>1, FilesInvHolds, PTL

-----------------------------------------------------------------------------
(* The tables of the server *)

\* What the entry of a page says, by its key.
StudioContract(mode, studio) == Contract(mode, "none", FALSE, studio)
Stated(k) ==
    CASE k = "draw-signature" -> StudioContract("creator", "signature-studio")
      [] k \in {"gst-invoice-pdf", "gst-invoice"} -> StudioContract("generator", "gst-invoice-studio")
      [] k \in {"pos-billing", "clean-billing"} -> StudioContract("generator", "pos-billing-studio")
      [] k = "tax-receipt" -> StudioContract("generator", "tax-receipt-studio")
      [] k = "estimate-maker" -> StudioContract("generator", "estimate-studio")
      [] k = "edit-pdf" -> Contract("editor", "pdf", FALSE, "pdf-editor-studio")
      [] k \in {"p2p-share", "p2p"} -> StudioContract("creator", "p2p-share-studio")
      [] OTHER -> Contract("open", "open", FALSE, "open")
States(table) == \A k \in DOMAIN table : table[k] = Stated(k)

LEMMA JoinedStates ==
    ASSUME NEW f, NEW g, States(f), States(g)
    PROVE  States(Joined(f, g)) /\ DOMAIN Joined(f, g) = DOMAIN f \cup DOMAIN g
BY DEF States, Joined

LEMMA BothState ==
    ASSUME NEW f, NEW g, States(f), States(g)
    PROVE  States(f ++ g) /\ DOMAIN (f ++ g) = DOMAIN f \cup DOMAIN g
BY JoinedStates DEF ++

LEMMA AllState ==
    ASSUME NEW keys, NEW c, \A k \in keys : Stated(k) = c
    PROVE  States(All(keys, c)) /\ DOMAIN All(keys, c) = keys
BY DEF States, All

StudioPages ==
    {"draw-signature", "gst-invoice-pdf", "gst-invoice", "pos-billing", "clean-billing", "tax-receipt", "estimate-maker",
     "edit-pdf", "p2p-share", "p2p"}

LEMMA OpenState ==
    ASSUME NEW keys, keys \cap StudioPages = {}
    PROVE  States(Open(keys)) /\ DOMAIN Open(keys) = keys
<1>1. \A k \in keys : Stated(k) = Contract("open", "open", FALSE, "open")
    BY DEF Stated, StudioPages
<1> QED BY <1>1, AllState DEF Open

CoreKeys == {"merge-pdf", "split-pdf", "compress-pdf", "rotate-pdf", "delete-pdf-pages", "jpg-to-pdf", "pdf-to-jpg"}
OfficeKeys == {"word-to-pdf", "excel-to-pdf", "pdf-to-word", "pdf-to-excel", "watermark-pdf", "protect-pdf", "unlock-pdf"}
ReadingKeys == {"redact-pdf", "ocr-pdf", "compare-pdf", "ai-summarize", "ai-ask", "draw-signature"}
BillingKeys == {"pdf-to-markdown", "markdown-to-pdf", "gst-invoice-pdf", "pos-billing", "clean-billing"}
TrustKeys == {"tax-receipt", "estimate-maker", "flatten-pdf", "repair-pdf", "page-numbers-pdf", "strip-metadata-pdf"}
LaterKeys == {"ai-extract-table", "extract-pages", "crop-pdf", "edit-pdf", "p2p-share"}

LEMMA CoreState == States(CorePages) /\ DOMAIN CorePages = CoreKeys
<1>1. CoreKeys \cap StudioPages = {}
    BY DEF CoreKeys, StudioPages
<1> QED BY <1>1, OpenState DEF CorePages, CoreKeys

LEMMA OfficeState == States(OfficePages) /\ DOMAIN OfficePages = OfficeKeys
<1>1. OfficeKeys \cap StudioPages = {}
    BY DEF OfficeKeys, StudioPages
<1> QED BY <1>1, OpenState DEF OfficePages, OfficeKeys

LEMMA ReadingState == States(ReadingPages) /\ DOMAIN ReadingPages = ReadingKeys
<1> DEFINE open == {"redact-pdf", "ocr-pdf", "compare-pdf", "ai-summarize", "ai-ask"}
           drawn == All({"draw-signature"}, Contract("creator", "none", FALSE, "signature-studio"))
<1>1. States(Open(open)) /\ DOMAIN Open(open) = open
    <2>1. open \cap StudioPages = {}
        BY DEF StudioPages
    <2> QED BY <2>1, OpenState
<1>2. States(drawn) /\ DOMAIN drawn = {"draw-signature"}
    <2>1. Stated("draw-signature") = Contract("creator", "none", FALSE, "signature-studio")
        BY DEF Stated, StudioContract
    <2> QED BY <2>1, AllState
<1>3. ReadingPages = Open(open) ++ drawn
    BY DEF ReadingPages
<1>4. ReadingKeys = open \cup {"draw-signature"}
    BY DEF ReadingKeys
<1> HIDE DEF open, drawn
<1> QED BY <1>1, <1>2, <1>3, <1>4, BothState

LEMMA StudioStates ==
    ASSUME NEW keys, NEW mode, NEW studio, \A k \in keys : Stated(k) = StudioContract(mode, studio)
    PROVE  /\ States(All(keys, Contract(mode, "none", FALSE, studio)))
           /\ DOMAIN All(keys, Contract(mode, "none", FALSE, studio)) = keys
BY AllState DEF StudioContract

LEMMA BillingState == States(BillingPages) /\ DOMAIN BillingPages = BillingKeys
<1> DEFINE open == {"pdf-to-markdown", "markdown-to-pdf"}
           gst == All({"gst-invoice-pdf"}, Contract("generator", "none", FALSE, "gst-invoice-studio"))
           pos == All({"pos-billing", "clean-billing"}, Contract("generator", "none", FALSE, "pos-billing-studio"))
<1>1. States(Open(open)) /\ DOMAIN Open(open) = open
    <2>1. open \cap StudioPages = {}
        BY DEF StudioPages
    <2> QED BY <2>1, OpenState
<1>2. States(gst) /\ DOMAIN gst = {"gst-invoice-pdf"}
    <2>1. \A k \in {"gst-invoice-pdf"} : Stated(k) = StudioContract("generator", "gst-invoice-studio")
        BY DEF Stated
    <2> QED BY <2>1, StudioStates
<1>3. States(pos) /\ DOMAIN pos = {"pos-billing", "clean-billing"}
    <2>1. \A k \in {"pos-billing", "clean-billing"} : Stated(k) = StudioContract("generator", "pos-billing-studio")
        BY DEF Stated
    <2> QED BY <2>1, StudioStates
<1>4. BillingPages = Open(open) ++ gst ++ pos
    BY DEF BillingPages
<1>5. BillingKeys = open \cup {"gst-invoice-pdf"} \cup {"pos-billing", "clean-billing"}
    BY DEF BillingKeys
<1> HIDE DEF open, gst, pos
<1>6. States(Open(open) ++ gst) /\ DOMAIN (Open(open) ++ gst) = open \cup {"gst-invoice-pdf"}
    BY <1>1, <1>2, BothState
<1> DEFINE two == Open(open) ++ gst
<1> HIDE DEF two
<1>7. States(two ++ pos) /\ DOMAIN (two ++ pos) = DOMAIN two \cup {"pos-billing", "clean-billing"}
    BY <1>3, <1>6, BothState DEF two
<1> QED BY <1>4, <1>5, <1>6, <1>7 DEF two

LEMMA TrustState == States(TrustPages) /\ DOMAIN TrustPages = TrustKeys
<1> DEFINE open == {"flatten-pdf", "repair-pdf", "page-numbers-pdf", "strip-metadata-pdf"}
           tax == All({"tax-receipt"}, Contract("generator", "none", FALSE, "tax-receipt-studio"))
           estimate == All({"estimate-maker"}, Contract("generator", "none", FALSE, "estimate-studio"))
<1>1. States(Open(open)) /\ DOMAIN Open(open) = open
    <2>1. open \cap StudioPages = {}
        BY DEF StudioPages
    <2> QED BY <2>1, OpenState
<1>2. States(tax) /\ DOMAIN tax = {"tax-receipt"}
    <2>1. \A k \in {"tax-receipt"} : Stated(k) = StudioContract("generator", "tax-receipt-studio")
        BY DEF Stated
    <2> QED BY <2>1, StudioStates
<1>3. States(estimate) /\ DOMAIN estimate = {"estimate-maker"}
    <2>1. \A k \in {"estimate-maker"} : Stated(k) = StudioContract("generator", "estimate-studio")
        BY DEF Stated
    <2> QED BY <2>1, StudioStates
<1>4. TrustPages = tax ++ estimate ++ Open(open)
    BY DEF TrustPages
<1>5. TrustKeys = {"tax-receipt"} \cup {"estimate-maker"} \cup open
    BY DEF TrustKeys
<1> HIDE DEF open, tax, estimate
<1> DEFINE two == tax ++ estimate
<1>6. States(two) /\ DOMAIN two = {"tax-receipt"} \cup {"estimate-maker"}
    BY <1>2, <1>3, BothState
<1> HIDE DEF two
<1>7. States(two ++ Open(open)) /\ DOMAIN (two ++ Open(open)) = DOMAIN two \cup open
    BY <1>1, <1>6, BothState
<1> QED BY <1>4, <1>5, <1>6, <1>7 DEF two

LEMMA LaterState == States(LaterPages) /\ DOMAIN LaterPages = LaterKeys
<1> DEFINE open == {"ai-extract-table", "extract-pages", "crop-pdf"}
           edit == All({"edit-pdf"}, Contract("editor", "pdf", FALSE, "pdf-editor-studio"))
           share == All({"p2p-share"}, Contract("creator", "none", FALSE, "p2p-share-studio"))
<1>1. States(Open(open)) /\ DOMAIN Open(open) = open
    <2>1. open \cap StudioPages = {}
        BY DEF StudioPages
    <2> QED BY <2>1, OpenState
<1>2. States(edit) /\ DOMAIN edit = {"edit-pdf"}
    <2>1. \A k \in {"edit-pdf"} : Stated(k) = Contract("editor", "pdf", FALSE, "pdf-editor-studio")
        BY DEF Stated
    <2> QED BY <2>1, AllState
<1>3. States(share) /\ DOMAIN share = {"p2p-share"}
    <2>1. \A k \in {"p2p-share"} : Stated(k) = StudioContract("creator", "p2p-share-studio")
        BY DEF Stated
    <2> QED BY <2>1, StudioStates
<1>4. LaterPages = Open(open) ++ edit ++ share
    BY DEF LaterPages
<1>5. LaterKeys = open \cup {"edit-pdf"} \cup {"p2p-share"}
    BY DEF LaterKeys
<1> HIDE DEF open, edit, share
<1> DEFINE two == Open(open) ++ edit
<1>6. States(two) /\ DOMAIN two = open \cup {"edit-pdf"}
    BY <1>1, <1>2, BothState
<1> HIDE DEF two
<1>7. States(two ++ share) /\ DOMAIN (two ++ share) = DOMAIN two \cup {"p2p-share"}
    BY <1>3, <1>6, BothState
<1> QED BY <1>4, <1>5, <1>6, <1>7 DEF two

StatedKeys == CoreKeys \cup OfficeKeys \cup ReadingKeys \cup BillingKeys \cup TrustKeys \cup LaterKeys

LEMMA PagesState == States(StatedPages) /\ DOMAIN StatedPages = StatedKeys
<1> DEFINE two == CorePages ++ OfficePages
<1>1. States(two) /\ DOMAIN two = CoreKeys \cup OfficeKeys
    BY CoreState, OfficeState, BothState
<1> DEFINE three == two ++ ReadingPages
<1> HIDE DEF two
<1>2. States(three) /\ DOMAIN three = DOMAIN two \cup ReadingKeys
    BY <1>1, ReadingState, BothState
<1> DEFINE four == three ++ BillingPages
<1> HIDE DEF three
<1>3. States(four) /\ DOMAIN four = DOMAIN three \cup BillingKeys
    BY <1>2, BillingState, BothState
<1> DEFINE five == four ++ TrustPages
<1> HIDE DEF four
<1>4. States(five) /\ DOMAIN five = DOMAIN four \cup TrustKeys
    BY <1>3, TrustState, BothState
<1> DEFINE six == five ++ LaterPages
<1> HIDE DEF five
<1>5. States(six) /\ DOMAIN six = DOMAIN five \cup LaterKeys
    BY <1>4, LaterState, BothState
<1>6. six = StatedPages
    BY DEF five, four, three, two, StatedPages
<1> HIDE DEF six
<1> QED BY <1>1, <1>2, <1>3, <1>4, <1>5, <1>6 DEF StatedKeys

PageKeys == StatedKeys \cup {"chat-with-pdf", "gst-invoice", "p2p"}

LEMMA RegistryStates == States(PageRegistry) /\ DOMAIN PageRegistry = PageKeys
<1> DEFINE chat == All({"chat-with-pdf"}, StatedPages["ai-ask"])
           gst == All({"gst-invoice"}, StatedPages["gst-invoice-pdf"])
           share == All({"p2p"}, StatedPages["p2p-share"])
<1>1. /\ StatedPages["ai-ask"] = Stated("ai-ask")
      /\ StatedPages["gst-invoice-pdf"] = Stated("gst-invoice-pdf")
      /\ StatedPages["p2p-share"] = Stated("p2p-share")
    <2>1. "ai-ask" \in StatedKeys /\ "gst-invoice-pdf" \in StatedKeys /\ "p2p-share" \in StatedKeys
        BY DEF StatedKeys, ReadingKeys, BillingKeys, LaterKeys
    <2> QED BY <2>1, PagesState DEF States
<1>2. States(chat) /\ DOMAIN chat = {"chat-with-pdf"}
    <2>1. Stated("chat-with-pdf") = Stated("ai-ask")
        BY DEF Stated
    <2> QED BY <1>1, <2>1, AllState
<1>3. States(gst) /\ DOMAIN gst = {"gst-invoice"}
    <2>1. Stated("gst-invoice") = Stated("gst-invoice-pdf")
        BY DEF Stated
    <2> QED BY <1>1, <2>1, AllState
<1>4. States(share) /\ DOMAIN share = {"p2p"}
    <2>1. Stated("p2p") = Stated("p2p-share")
        BY DEF Stated
    <2> QED BY <1>1, <2>1, AllState
<1>5. PageRegistry = StatedPages ++ chat ++ gst ++ share
    BY DEF PageRegistry
<1> HIDE DEF chat, gst, share
<1> DEFINE two == StatedPages ++ chat
<1>6. States(two) /\ DOMAIN two = StatedKeys \cup {"chat-with-pdf"}
    BY <1>2, PagesState, BothState
<1> DEFINE three == two ++ gst
<1> HIDE DEF two
<1>7. States(three) /\ DOMAIN three = DOMAIN two \cup {"gst-invoice"}
    BY <1>3, <1>6, BothState
<1> DEFINE four == three ++ share
<1> HIDE DEF three
<1>8. States(four) /\ DOMAIN four = DOMAIN three \cup {"p2p"}
    BY ZenonT(40), <1>4, <1>7, BothState
<1>9. four = PageRegistry
    BY <1>5 DEF three, two
<1> HIDE DEF four
<1> QED BY <1>6, <1>7, <1>8, <1>9 DEF PageKeys

-----------------------------------------------------------------------------
(* The aliases *)

Own == {"tax-receipt", "estimate-maker", "crop-pdf", "edit-pdf", "extract-pages", "flatten-pdf", "repair-pdf"}

\* What the aliases lead to.
Targets ==
    Own \cup
    {"gst-invoice-pdf", "pos-billing", "ai-ask", "ai-summarize", "delete-pdf-pages", "draw-signature", "watermark-pdf",
     "page-numbers-pdf", "ocr-pdf", "protect-pdf", "unlock-pdf", "strip-metadata-pdf", "compare-pdf", "ai-extract-table",
     "split-pdf"}
AliasKeys ==
    {"gst-invoice"} \cup {"pos-billing", "clean-billing"} \cup Own \cup
    {"chat-with-pdf"} \cup {"summarize-pdf", "pdf-to-audio"} \cup {"organize-pages"} \cup {"resize-pdf"} \cup
    {"pdf-editor"} \cup {"sign-pdf"} \cup {"add-watermark", "fingerprint-pdf"} \cup
    {"page-numbers", "headers-footers"} \cup {"extract-text"} \cup {"encrypt-pdf"} \cup {"remove-password"} \cup
    {"privacy-scanner"} \cup {"compare-pdfs"} \cup {"extract-tables"} \cup {"split-pages"}

Leads(table) == \A k \in DOMAIN table : table[k] \in Targets

LEMMA JoinedLead ==
    ASSUME NEW f, NEW g, Leads(f), Leads(g)
    PROVE  Leads(Joined(f, g)) /\ DOMAIN Joined(f, g) = DOMAIN f \cup DOMAIN g
BY DEF Leads, Joined

LEMMA BothLead ==
    ASSUME NEW f, NEW g, Leads(f), Leads(g)
    PROVE  Leads(f ++ g) /\ DOMAIN (f ++ g) = DOMAIN f \cup DOMAIN g
BY JoinedLead DEF ++

LEMMA AllLead ==
    ASSUME NEW keys, NEW target \in Targets
    PROVE  Leads(All(keys, target)) /\ DOMAIN All(keys, target) = keys
BY DEF Leads, All

LEMMA OwnLead == Leads([k \in Own |-> k]) /\ DOMAIN [k \in Own |-> k] = Own
BY DEF Leads, Targets

LEMMA AliasesLead == Leads(ClientRouteAliases) /\ DOMAIN ClientRouteAliases = AliasKeys
<1> DEFINE gst == All({"gst-invoice"}, "gst-invoice-pdf")
           pos == All({"pos-billing", "clean-billing"}, "pos-billing")
           own == [k \in Own |-> k]
           ask == All({"chat-with-pdf"}, "ai-ask")
           sum == All({"summarize-pdf", "pdf-to-audio"}, "ai-summarize")
           pages == All({"organize-pages"}, "delete-pdf-pages")
           crop == All({"resize-pdf"}, "crop-pdf")
           edit == All({"pdf-editor"}, "edit-pdf")
           sign == All({"sign-pdf"}, "draw-signature")
           mark == All({"add-watermark", "fingerprint-pdf"}, "watermark-pdf")
           number == All({"page-numbers", "headers-footers"}, "page-numbers-pdf")
           text == All({"extract-text"}, "ocr-pdf")
           protect == All({"encrypt-pdf"}, "protect-pdf")
           unlock == All({"remove-password"}, "unlock-pdf")
           strip == All({"privacy-scanner"}, "strip-metadata-pdf")
           compare == All({"compare-pdfs"}, "compare-pdf")
           table == All({"extract-tables"}, "ai-extract-table")
           split == All({"split-pages"}, "split-pdf")
<1>1. Leads(gst) /\ DOMAIN gst = {"gst-invoice"}
    BY AllLead DEF Targets
<1>2. Leads(pos) /\ DOMAIN pos = {"pos-billing", "clean-billing"}
    BY AllLead DEF Targets
<1>3. Leads(own) /\ DOMAIN own = Own
    BY OwnLead
<1>4. Leads(ask) /\ DOMAIN ask = {"chat-with-pdf"}
    BY AllLead DEF Targets
<1>5. Leads(sum) /\ DOMAIN sum = {"summarize-pdf", "pdf-to-audio"}
    BY AllLead DEF Targets
<1>6. Leads(pages) /\ DOMAIN pages = {"organize-pages"}
    BY AllLead DEF Targets
<1>7. Leads(crop) /\ DOMAIN crop = {"resize-pdf"}
    BY AllLead DEF Targets, Own
<1>8. Leads(edit) /\ DOMAIN edit = {"pdf-editor"}
    BY AllLead DEF Targets, Own
<1>9. Leads(sign) /\ DOMAIN sign = {"sign-pdf"}
    BY AllLead DEF Targets
<1>10. Leads(mark) /\ DOMAIN mark = {"add-watermark", "fingerprint-pdf"}
    BY AllLead DEF Targets
<1>11. Leads(number) /\ DOMAIN number = {"page-numbers", "headers-footers"}
    BY AllLead DEF Targets
<1>12. Leads(text) /\ DOMAIN text = {"extract-text"}
    BY AllLead DEF Targets
<1>13. Leads(protect) /\ DOMAIN protect = {"encrypt-pdf"}
    BY AllLead DEF Targets
<1>14. Leads(unlock) /\ DOMAIN unlock = {"remove-password"}
    BY AllLead DEF Targets
<1>15. Leads(strip) /\ DOMAIN strip = {"privacy-scanner"}
    BY AllLead DEF Targets
<1>16. Leads(compare) /\ DOMAIN compare = {"compare-pdfs"}
    BY AllLead DEF Targets
<1>17. Leads(table) /\ DOMAIN table = {"extract-tables"}
    BY AllLead DEF Targets
<1>18. Leads(split) /\ DOMAIN split = {"split-pages"}
    BY AllLead DEF Targets
<1>19. ClientRouteAliases =
         gst ++ pos ++ own ++ ask ++ sum ++ pages ++ crop ++ edit ++ sign ++ mark ++ number ++ text ++ protect ++ unlock
         ++ strip ++ compare ++ table ++ split
    BY DEF ClientRouteAliases, Own
<1> HIDE DEF gst, pos, own, ask, sum, pages, crop, edit, sign, mark, number, text, protect, unlock, strip, compare, table,
             split
<1> DEFINE t2 == gst ++ pos
<1>20. Leads(t2) /\ DOMAIN t2 = DOMAIN gst \cup {"pos-billing", "clean-billing"}
    BY <1>2, <1>1, BothLead
<1> HIDE DEF t2
<1> DEFINE t3 == t2 ++ own
<1>21. Leads(t3) /\ DOMAIN t3 = DOMAIN t2 \cup Own
    BY <1>3, <1>20, BothLead
<1> HIDE DEF t3
<1> DEFINE t4 == t3 ++ ask
<1>22. Leads(t4) /\ DOMAIN t4 = DOMAIN t3 \cup {"chat-with-pdf"}
    BY <1>4, <1>21, BothLead
<1> HIDE DEF t4
<1> DEFINE t5 == t4 ++ sum
<1>23. Leads(t5) /\ DOMAIN t5 = DOMAIN t4 \cup {"summarize-pdf", "pdf-to-audio"}
    BY ZenonT(40), <1>5, <1>22, BothLead
<1> HIDE DEF t5
<1> DEFINE t6 == t5 ++ pages
<1>24. Leads(t6) /\ DOMAIN t6 = DOMAIN t5 \cup {"organize-pages"}
    BY <1>6, <1>23, BothLead
<1> HIDE DEF t6
<1> DEFINE t7 == t6 ++ crop
<1>25. Leads(t7) /\ DOMAIN t7 = DOMAIN t6 \cup {"resize-pdf"}
    BY ZenonT(40), <1>7, <1>24, BothLead
<1> HIDE DEF t7
<1> DEFINE t8 == t7 ++ edit
<1>26. Leads(t8) /\ DOMAIN t8 = DOMAIN t7 \cup {"pdf-editor"}
    BY ZenonT(40), <1>8, <1>25, BothLead
<1> HIDE DEF t8
<1> DEFINE t9 == t8 ++ sign
<1>27. Leads(t9) /\ DOMAIN t9 = DOMAIN t8 \cup {"sign-pdf"}
    BY <1>9, <1>26, BothLead
<1> HIDE DEF t9
<1> DEFINE t10 == t9 ++ mark
<1>28. Leads(t10) /\ DOMAIN t10 = DOMAIN t9 \cup {"add-watermark", "fingerprint-pdf"}
    BY ZenonT(40), <1>10, <1>27, BothLead
<1> HIDE DEF t10
<1> DEFINE t11 == t10 ++ number
<1>29. Leads(t11) /\ DOMAIN t11 = DOMAIN t10 \cup {"page-numbers", "headers-footers"}
    BY <1>11, <1>28, BothLead
<1> HIDE DEF t11
<1> DEFINE t12 == t11 ++ text
<1>30. Leads(t12) /\ DOMAIN t12 = DOMAIN t11 \cup {"extract-text"}
    BY ZenonT(40), <1>12, <1>29, BothLead
<1> HIDE DEF t12
<1> DEFINE t13 == t12 ++ protect
<1>31. Leads(t13) /\ DOMAIN t13 = DOMAIN t12 \cup {"encrypt-pdf"}
    BY ZenonT(40), <1>13, <1>30, BothLead
<1> HIDE DEF t13
<1> DEFINE t14 == t13 ++ unlock
<1>32. Leads(t14) /\ DOMAIN t14 = DOMAIN t13 \cup {"remove-password"}
    BY ZenonT(40), <1>14, <1>31, BothLead
<1> HIDE DEF t14
<1> DEFINE t15 == t14 ++ strip
<1>33. Leads(t15) /\ DOMAIN t15 = DOMAIN t14 \cup {"privacy-scanner"}
    BY ZenonT(40), <1>15, <1>32, BothLead
<1> HIDE DEF t15
<1> DEFINE t16 == t15 ++ compare
<1>34. Leads(t16) /\ DOMAIN t16 = DOMAIN t15 \cup {"compare-pdfs"}
    BY <1>16, <1>33, BothLead
<1> HIDE DEF t16
<1> DEFINE t17 == t16 ++ table
<1>35. Leads(t17) /\ DOMAIN t17 = DOMAIN t16 \cup {"extract-tables"}
    BY ZenonT(40), <1>17, <1>34, BothLead
<1> HIDE DEF t17
<1> DEFINE t18 == t17 ++ split
<1>36. Leads(t18) /\ DOMAIN t18 = DOMAIN t17 \cup {"split-pages"}
    BY ZenonT(40), <1>18, <1>35, BothLead
<1> HIDE DEF t18
<1>37. t18 = ClientRouteAliases
    BY <1>19 DEF t2, t3, t4, t5, t6, t7, t8, t9, t10, t11, t12, t13, t14, t15, t16, t17, t18
<1> QED BY <1>1, <1>20, <1>21, <1>22, <1>23, <1>24, <1>25, <1>26, <1>27, <1>28, <1>29, <1>30, <1>31, <1>32, <1>33, <1>34, <1>35, <1>36, <1>37 DEF AliasKeys

-----------------------------------------------------------------------------
(* The tools of the browser *)

\* What the browser takes a tool for, by its key.
Defined(k) ==
    CASE k \in {"merge-pdf", "compare-pdf"} -> Plain("pdf", TRUE)
      [] k = "jpg-to-pdf" -> Plain("image", TRUE)
      [] k \in {"word-to-pdf", "excel-to-pdf"} -> Plain("office", FALSE)
      [] k = "ocr-pdf" -> Plain("pdf-or-image", FALSE)
      [] k = "markdown-to-pdf" -> Plain("markdown", FALSE)
      [] k = "draw-signature" -> Contract("creator", "none", FALSE, "signature-studio")
      [] k \in {"edit-pdf", "pdf-editor"} -> Contract("editor", "pdf", FALSE, "pdf-editor-studio")
      [] k = "gst-invoice-pdf" -> Contract("generator", "none", FALSE, "gst-invoice-studio")
      [] k \in {"pos-billing", "clean-billing"} -> Contract("generator", "none", FALSE, "pos-billing-studio")
      [] k = "tax-receipt" -> Contract("generator", "none", FALSE, "tax-receipt-studio")
      [] k = "estimate-maker" -> Contract("generator", "none", FALSE, "estimate-studio")
      [] k = "p2p-share" -> Contract("creator", "none", TRUE, "p2p-share-studio")
      [] OTHER -> Plain("pdf", FALSE)
Defines(table) == \A k \in DOMAIN table : table[k] = Defined(k)

LEMMA JoinedDefine ==
    ASSUME NEW f, NEW g, Defines(f), Defines(g)
    PROVE  Defines(Joined(f, g)) /\ DOMAIN Joined(f, g) = DOMAIN f \cup DOMAIN g
BY DEF Defines, Joined

LEMMA BothDefine ==
    ASSUME NEW f, NEW g, Defines(f), Defines(g)
    PROVE  Defines(f ++ g) /\ DOMAIN (f ++ g) = DOMAIN f \cup DOMAIN g
BY JoinedDefine DEF ++

LEMMA AllDefine ==
    ASSUME NEW keys, NEW c, \A k \in keys : Defined(k) = c
    PROVE  Defines(All(keys, c)) /\ DOMAIN All(keys, c) = keys
BY DEF Defines, All

\* The tools that take one document.
OneDocument ==
    {"split-pdf", "compress-pdf", "rotate-pdf", "delete-pdf-pages", "extract-pages", "crop-pdf", "pdf-to-jpg", "pdf-to-word",
     "pdf-to-excel", "watermark-pdf", "page-numbers-pdf", "strip-metadata-pdf", "sign-pdf", "flatten-pdf", "repair-pdf",
     "protect-pdf", "unlock-pdf", "redact-pdf", "ai-summarize", "ai-ask", "ai-extract-table", "pdf-to-markdown"}

LEMMA DocumentsDefine ==
    ASSUME NEW keys, keys \subseteq OneDocument
    PROVE  Defines(All(keys, Plain("pdf", FALSE))) /\ DOMAIN All(keys, Plain("pdf", FALSE)) = keys
<1>1. \A k \in OneDocument : Defined(k) = Plain("pdf", FALSE)
    BY ZenonT(40) DEF Defined, OneDocument
<1> QED BY <1>1, AllDefine

LEMMA CoreDefine ==
    /\ Defines(CorePdfTools)
    /\ DOMAIN CorePdfTools =
         {"merge-pdf"} \cup {"split-pdf", "compress-pdf", "rotate-pdf", "delete-pdf-pages", "extract-pages", "crop-pdf"}
<1> DEFINE one == {"split-pdf", "compress-pdf", "rotate-pdf", "delete-pdf-pages", "extract-pages", "crop-pdf"}
           many == All({"merge-pdf"}, Plain("pdf", TRUE))
<1>1. Defines(many) /\ DOMAIN many = {"merge-pdf"}
    <2>1. \A k \in {"merge-pdf"} : Defined(k) = Plain("pdf", TRUE)
        BY DEF Defined
    <2> QED BY <2>1, AllDefine
<1>2. Defines(All(one, Plain("pdf", FALSE))) /\ DOMAIN All(one, Plain("pdf", FALSE)) = one
    BY DocumentsDefine DEF OneDocument
<1>3. CorePdfTools = many ++ All(one, Plain("pdf", FALSE))
    BY DEF CorePdfTools
<1> HIDE DEF many
<1> QED BY ZenonT(40), <1>1, <1>2, <1>3, BothDefine

LEMMA ConvertDefine ==
    /\ Defines(ConvertTools)
    /\ DOMAIN ConvertTools =
         {"jpg-to-pdf"} \cup {"word-to-pdf", "excel-to-pdf"} \cup {"pdf-to-jpg", "pdf-to-word", "pdf-to-excel"}
<1> DEFINE image == All({"jpg-to-pdf"}, Plain("image", TRUE))
           office == All({"word-to-pdf", "excel-to-pdf"}, Plain("office", FALSE))
           one == All({"pdf-to-jpg", "pdf-to-word", "pdf-to-excel"}, Plain("pdf", FALSE))
<1>1. Defines(image) /\ DOMAIN image = {"jpg-to-pdf"}
    <2>1. \A k \in {"jpg-to-pdf"} : Defined(k) = Plain("image", TRUE)
        BY DEF Defined
    <2> QED BY <2>1, AllDefine
<1>2. Defines(office) /\ DOMAIN office = {"word-to-pdf", "excel-to-pdf"}
    <2>1. \A k \in {"word-to-pdf", "excel-to-pdf"} : Defined(k) = Plain("office", FALSE)
        BY DEF Defined
    <2> QED BY <2>1, AllDefine
<1>3. Defines(one) /\ DOMAIN one = {"pdf-to-jpg", "pdf-to-word", "pdf-to-excel"}
    BY DocumentsDefine DEF OneDocument
<1>4. ConvertTools = image ++ office ++ one
    BY DEF ConvertTools
<1> HIDE DEF image, office, one
<1> DEFINE two == image ++ office
<1>5. Defines(two) /\ DOMAIN two = {"jpg-to-pdf"} \cup {"word-to-pdf", "excel-to-pdf"}
    BY <1>1, <1>2, BothDefine
<1> HIDE DEF two
<1>6. Defines(two ++ one) /\ DOMAIN (two ++ one) = DOMAIN two \cup {"pdf-to-jpg", "pdf-to-word", "pdf-to-excel"}
    BY ZenonT(40), <1>3, <1>5, BothDefine
<1> QED BY <1>4, <1>5, <1>6 DEF two

LEMMA MarkDefine ==
    /\ Defines(MarkTools)
    /\ DOMAIN MarkTools =
         {"watermark-pdf", "page-numbers-pdf", "strip-metadata-pdf", "sign-pdf"} \cup {"draw-signature"}
<1> DEFINE drawn == All({"draw-signature"}, Contract("creator", "none", FALSE, "signature-studio"))
           one == All({"watermark-pdf", "page-numbers-pdf", "strip-metadata-pdf", "sign-pdf"}, Plain("pdf", FALSE))
<1>1. Defines(drawn) /\ DOMAIN drawn = {"draw-signature"}
    <2>1. \A k \in {"draw-signature"} : Defined(k) = Contract("creator", "none", FALSE, "signature-studio")
        BY DEF Defined
    <2> QED BY <2>1, AllDefine
<1>2. Defines(one) /\ DOMAIN one = {"watermark-pdf", "page-numbers-pdf", "strip-metadata-pdf", "sign-pdf"}
    BY DocumentsDefine DEF OneDocument
<1>3. MarkTools = one ++ drawn
    BY DEF MarkTools
<1> HIDE DEF drawn, one
<1> QED BY <1>1, <1>2, <1>3, BothDefine

LEMMA EditorDefine == Defines(EditorTools) /\ DOMAIN EditorTools = {"edit-pdf", "pdf-editor"}
<1>1. \A k \in {"edit-pdf", "pdf-editor"} : Defined(k) = Contract("editor", "pdf", FALSE, "pdf-editor-studio")
    BY DEF Defined
<1> QED BY <1>1, AllDefine DEF EditorTools

LEMMA SafetyDefine ==
    /\ Defines(SafetyTools)
    /\ DOMAIN SafetyTools = {"flatten-pdf", "repair-pdf", "protect-pdf", "unlock-pdf", "redact-pdf"}
BY DocumentsDefine DEF SafetyTools, OneDocument

LEMMA ReadingDefine ==
    /\ Defines(ReadingTools)
    /\ DOMAIN ReadingTools =
         {"ocr-pdf"} \cup {"compare-pdf"} \cup {"markdown-to-pdf"}
         \cup {"ai-summarize", "ai-ask", "ai-extract-table", "pdf-to-markdown"}
<1> DEFINE ocr == All({"ocr-pdf"}, Plain("pdf-or-image", FALSE))
           compare == All({"compare-pdf"}, Plain("pdf", TRUE))
           markdown == All({"markdown-to-pdf"}, Plain("markdown", FALSE))
           one == All({"ai-summarize", "ai-ask", "ai-extract-table", "pdf-to-markdown"}, Plain("pdf", FALSE))
<1>1. Defines(ocr) /\ DOMAIN ocr = {"ocr-pdf"}
    <2>1. \A k \in {"ocr-pdf"} : Defined(k) = Plain("pdf-or-image", FALSE)
        BY DEF Defined
    <2> QED BY <2>1, AllDefine
<1>2. Defines(compare) /\ DOMAIN compare = {"compare-pdf"}
    <2>1. \A k \in {"compare-pdf"} : Defined(k) = Plain("pdf", TRUE)
        BY DEF Defined
    <2> QED BY <2>1, AllDefine
<1>3. Defines(markdown) /\ DOMAIN markdown = {"markdown-to-pdf"}
    <2>1. \A k \in {"markdown-to-pdf"} : Defined(k) = Plain("markdown", FALSE)
        BY DEF Defined
    <2> QED BY <2>1, AllDefine
<1>4. Defines(one) /\ DOMAIN one = {"ai-summarize", "ai-ask", "ai-extract-table", "pdf-to-markdown"}
    BY DocumentsDefine DEF OneDocument
<1>5. ReadingTools = ocr ++ compare ++ markdown ++ one
    BY DEF ReadingTools
<1> HIDE DEF ocr, compare, markdown, one
<1> DEFINE two == ocr ++ compare
<1>6. Defines(two) /\ DOMAIN two = {"ocr-pdf"} \cup {"compare-pdf"}
    BY <1>1, <1>2, BothDefine
<1> HIDE DEF two
<1> DEFINE three == two ++ markdown
<1>7. Defines(three) /\ DOMAIN three = DOMAIN two \cup {"markdown-to-pdf"}
    BY <1>3, <1>6, BothDefine
<1> HIDE DEF three
<1>8. /\ Defines(three ++ one)
      /\ DOMAIN (three ++ one) = DOMAIN three \cup {"ai-summarize", "ai-ask", "ai-extract-table", "pdf-to-markdown"}
    BY ZenonT(40), <1>4, <1>7, BothDefine
<1> QED BY <1>5, <1>6, <1>7, <1>8 DEF two, three

LEMMA BusinessDefine ==
    /\ Defines(BusinessTools)
    /\ DOMAIN BusinessTools =
         {"gst-invoice-pdf"} \cup {"pos-billing", "clean-billing"} \cup {"tax-receipt"} \cup {"estimate-maker"}
         \cup {"p2p-share"}
<1> DEFINE gst == All({"gst-invoice-pdf"}, Contract("generator", "none", FALSE, "gst-invoice-studio"))
           pos == All({"pos-billing", "clean-billing"}, Contract("generator", "none", FALSE, "pos-billing-studio"))
           tax == All({"tax-receipt"}, Contract("generator", "none", FALSE, "tax-receipt-studio"))
           estimate == All({"estimate-maker"}, Contract("generator", "none", FALSE, "estimate-studio"))
           share == All({"p2p-share"}, Contract("creator", "none", TRUE, "p2p-share-studio"))
<1>1. Defines(gst) /\ DOMAIN gst = {"gst-invoice-pdf"}
    <2>1. \A k \in {"gst-invoice-pdf"} : Defined(k) = Contract("generator", "none", FALSE, "gst-invoice-studio")
        BY DEF Defined
    <2> QED BY <2>1, AllDefine
<1>2. Defines(pos) /\ DOMAIN pos = {"pos-billing", "clean-billing"}
    <2>1. \A k \in {"pos-billing", "clean-billing"} :
            Defined(k) = Contract("generator", "none", FALSE, "pos-billing-studio")
        BY DEF Defined
    <2> QED BY <2>1, AllDefine
<1>3. Defines(tax) /\ DOMAIN tax = {"tax-receipt"}
    <2>1. \A k \in {"tax-receipt"} : Defined(k) = Contract("generator", "none", FALSE, "tax-receipt-studio")
        BY DEF Defined
    <2> QED BY <2>1, AllDefine
<1>4. Defines(estimate) /\ DOMAIN estimate = {"estimate-maker"}
    <2>1. \A k \in {"estimate-maker"} : Defined(k) = Contract("generator", "none", FALSE, "estimate-studio")
        BY DEF Defined
    <2> QED BY <2>1, AllDefine
<1>5. Defines(share) /\ DOMAIN share = {"p2p-share"}
    <2>1. \A k \in {"p2p-share"} : Defined(k) = Contract("creator", "none", TRUE, "p2p-share-studio")
        BY DEF Defined
    <2> QED BY <2>1, AllDefine
<1>6. BusinessTools = gst ++ pos ++ tax ++ estimate ++ share
    BY DEF BusinessTools
<1> HIDE DEF gst, pos, tax, estimate, share
<1> DEFINE two == gst ++ pos
<1>7. Defines(two) /\ DOMAIN two = {"gst-invoice-pdf"} \cup {"pos-billing", "clean-billing"}
    BY <1>1, <1>2, BothDefine
<1> HIDE DEF two
<1> DEFINE three == two ++ tax
<1>8. Defines(three) /\ DOMAIN three = DOMAIN two \cup {"tax-receipt"}
    BY <1>3, <1>7, BothDefine
<1> HIDE DEF three
<1> DEFINE four == three ++ estimate
<1>9. Defines(four) /\ DOMAIN four = DOMAIN three \cup {"estimate-maker"}
    BY ZenonT(40), <1>4, <1>8, BothDefine
<1> HIDE DEF four
<1>10. Defines(four ++ share) /\ DOMAIN (four ++ share) = DOMAIN four \cup {"p2p-share"}
    BY <1>5, <1>9, BothDefine
<1> QED BY <1>6, <1>7, <1>8, <1>9, <1>10 DEF two, three, four

ToolKeys ==
    OneDocument \cup
    {"merge-pdf", "compare-pdf", "jpg-to-pdf", "word-to-pdf", "excel-to-pdf", "ocr-pdf", "markdown-to-pdf", "draw-signature",
     "edit-pdf", "pdf-editor", "gst-invoice-pdf", "pos-billing", "clean-billing", "tax-receipt", "estimate-maker",
     "p2p-share"}

LEMMA ToolsDefine == Defines(DefinedTools) /\ DOMAIN DefinedTools = ToolKeys
<1> DEFINE two == CorePdfTools ++ ConvertTools
<1>1. Defines(two) /\ DOMAIN two = DOMAIN CorePdfTools \cup DOMAIN ConvertTools
    BY CoreDefine, ConvertDefine, BothDefine
<1> DEFINE three == two ++ MarkTools
<1> HIDE DEF two
<1>2. Defines(three) /\ DOMAIN three = DOMAIN two \cup DOMAIN MarkTools
    BY <1>1, MarkDefine, BothDefine
<1> DEFINE four == three ++ EditorTools
<1> HIDE DEF three
<1>3. Defines(four) /\ DOMAIN four = DOMAIN three \cup DOMAIN EditorTools
    BY <1>2, EditorDefine, BothDefine
<1> DEFINE five == four ++ SafetyTools
<1> HIDE DEF four
<1>4. Defines(five) /\ DOMAIN five = DOMAIN four \cup DOMAIN SafetyTools
    BY <1>3, SafetyDefine, BothDefine
<1> DEFINE six == five ++ ReadingTools
<1> HIDE DEF five
<1>5. Defines(six) /\ DOMAIN six = DOMAIN five \cup DOMAIN ReadingTools
    BY <1>4, ReadingDefine, BothDefine
<1> DEFINE seven == six ++ BusinessTools
<1> HIDE DEF six
<1>6. Defines(seven) /\ DOMAIN seven = DOMAIN six \cup DOMAIN BusinessTools
    BY <1>5, BusinessDefine, BothDefine
<1>7. seven = DefinedTools
    BY DEF six, five, four, three, two, DefinedTools
<1> HIDE DEF seven
<1>8. DOMAIN DefinedTools =
        DOMAIN CorePdfTools \cup DOMAIN ConvertTools \cup DOMAIN MarkTools \cup DOMAIN EditorTools \cup DOMAIN SafetyTools
        \cup DOMAIN ReadingTools \cup DOMAIN BusinessTools
    BY <1>1, <1>2, <1>3, <1>4, <1>5, <1>6, <1>7
<1>9. DOMAIN DefinedTools = ToolKeys
    <2> DEFINE a == DOMAIN CorePdfTools
               b == DOMAIN ConvertTools
               c == DOMAIN MarkTools
               d == DOMAIN EditorTools
               e == DOMAIN SafetyTools
               f == DOMAIN ReadingTools
               g == DOMAIN BusinessTools
    <2>1. a \cup b \cup c \cup d \cup e \cup f \cup g \subseteq ToolKeys
        BY CoreDefine, ConvertDefine, MarkDefine, EditorDefine, SafetyDefine, ReadingDefine, BusinessDefine
        DEF ToolKeys, OneDocument
    <2>2. ToolKeys \subseteq a \cup b \cup c \cup d \cup e \cup f \cup g
        BY CoreDefine, ConvertDefine, MarkDefine, EditorDefine, SafetyDefine, ReadingDefine, BusinessDefine
        DEF ToolKeys, OneDocument
    <2> QED BY <1>8, <2>1, <2>2
<1> QED BY <1>6, <1>7, <1>9

-----------------------------------------------------------------------------
(* What the tables make of an address *)

LEMMA TargetsAreTools == Targets \subseteq ToolKeys /\ Targets \subseteq PageKeys
<1>1. Targets \subseteq ToolKeys
    BY DEF Targets, Own, ToolKeys, OneDocument
<1>2. Targets \subseteq PageKeys
    BY DEF Targets, Own, PageKeys, StatedKeys, CoreKeys, OfficeKeys, ReadingKeys, BillingKeys, TrustKeys, LaterKeys
<1> QED BY <1>1, <1>2

LEMMA NamesAreApart == AirDropNames \cap AliasKeys = {} /\ AirDropNames \cap ToolKeys = {}
<1>1. AirDropNames \cap AliasKeys = {}
    BY DEF AirDropNames, AliasKeys, Own
<1>2. AirDropNames \cap ToolKeys = {}
    BY DEF AirDropNames, ToolKeys, OneDocument
<1> QED BY <1>1, <1>2

\* Either table's entry, the first's where both have one.
Merges(h, f, g) ==
    /\ DOMAIN h = DOMAIN f \cup DOMAIN g
    /\ \A k \in DOMAIN f : h[k] = f[k]
    /\ \A k \in DOMAIN g : k \notin DOMAIN f => h[k] = g[k]

LEMMA MergedIs ==
    ASSUME NEW f, NEW g
    PROVE  Merges(Joined(f, g), f, g)
BY DEF Joined, Merges

LEMMA BothMerge ==
    ASSUME NEW f, NEW g
    PROVE  Merges(f ++ g, f, g)
BY MergedIs DEF ++

LEMMA AllIs ==
    ASSUME NEW keys, NEW c
    PROVE  DOMAIN All(keys, c) = keys /\ \A k \in keys : All(keys, c)[k] = c
BY DEF All

LEMMA ToolAliasesAre ==
    /\ DOMAIN ToolAliases = AliasKeys \cup AirDropNames
    /\ \A k \in AliasKeys : ToolAliases[k] = ClientRouteAliases[k]
    /\ \A k \in AirDropNames : ToolAliases[k] = "p2p-share"
<1> DEFINE more == All(AirDropNames, "p2p-share")
<1>1. DOMAIN more = AirDropNames /\ \A k \in AirDropNames : more[k] = "p2p-share"
    BY AllIs
<1>2. ToolAliases = ClientRouteAliases ++ more
    BY DEF ToolAliases
<1> HIDE DEF more
<1>3. Merges(ToolAliases, ClientRouteAliases, more)
    BY <1>2, BothMerge
<1>4. \A k \in AirDropNames : k \notin AliasKeys
    BY NamesAreApart
<1> QED BY <1>1, <1>3, <1>4, AliasesLead DEF Merges

LEMMA DefinitionsAre ==
    /\ DOMAIN ToolDefinitions = ToolKeys \cup AliasKeys \cup AirDropNames
    /\ \A k \in ToolKeys : ToolDefinitions[k] = Defined(k)
    /\ \A k \in AirDropNames : ToolDefinitions[k] = Defined("p2p-share")
<1> DEFINE named == [a \in {k \in DOMAIN ToolAliases : ToolAliases[k] \in DOMAIN DefinedTools} |-> DefinedTools[ToolAliases[a]]]
<1>1. "p2p-share" \in ToolKeys
    BY DEF ToolKeys
<1>2. {k \in DOMAIN ToolAliases : ToolAliases[k] \in DOMAIN DefinedTools} = AliasKeys \cup AirDropNames
    BY <1>1, ToolAliasesAre, AliasesLead, TargetsAreTools, ToolsDefine DEF Leads
<1>3. DOMAIN named = AliasKeys \cup AirDropNames
    BY <1>2
<1>4. \A k \in AirDropNames : named[k] = Defined("p2p-share")
    BY <1>1, <1>2, ToolAliasesAre, ToolsDefine DEF Defines
<1>5. ToolDefinitions = DefinedTools ++ named
    BY DEF ToolDefinitions
<1> HIDE DEF named
<1>6. Merges(ToolDefinitions, DefinedTools, named)
    BY <1>5, BothMerge
<1>7. \A k \in AirDropNames : k \notin ToolKeys
    BY NamesAreApart
<1> QED BY <1>3, <1>4, <1>6, <1>7, ToolsDefine DEF Merges, Defines

\* The slugs only the server knows another name for.
LEMMA ServerResolves ==
    /\ \A s \in AliasKeys : ServerResolve(s) = ClientRouteAliases[s] /\ ClientResolve(s) = ClientRouteAliases[s]
    /\ \A s \in AirDropNames : ServerResolve(s) = "p2p-share" /\ ClientResolve(s) = s
    /\ \A s : s \notin AliasKeys => ClientResolve(s) = s
    /\ \A s : s \notin AliasKeys \cup AirDropNames \cup {"image-to-pdf"} => ServerResolve(s) = s
<1> DEFINE pictures == All({"image-to-pdf"}, "jpg-to-pdf")
           more == All(AirDropNames, "p2p-share")
<1>1. DOMAIN pictures = {"image-to-pdf"}
    BY AllIs
<1>2. DOMAIN more = AirDropNames /\ \A k \in AirDropNames : more[k] = "p2p-share"
    BY AllIs
<1>3. RouteAliases = ClientRouteAliases ++ pictures ++ more
    BY DEF RouteAliases
<1> HIDE DEF pictures, more
<1> DEFINE two == ClientRouteAliases ++ pictures
<1>4. Merges(two, ClientRouteAliases, pictures)
    BY BothMerge
<1>5. two ++ more = RouteAliases
    BY <1>3
<1> HIDE DEF two
<1>6. Merges(RouteAliases, two, more)
    BY <1>5, BothMerge
<1>7. /\ DOMAIN RouteAliases = AliasKeys \cup {"image-to-pdf"} \cup AirDropNames
      /\ \A k \in AliasKeys : RouteAliases[k] = ClientRouteAliases[k]
    BY <1>1, <1>2, <1>4, <1>6, AliasesLead DEF Merges
<1>8. "image-to-pdf" \notin AirDropNames
    BY DEF AirDropNames
<1>9. \A k \in AirDropNames : k \notin AliasKeys
    BY NamesAreApart
<1>10. \A k \in AirDropNames : RouteAliases[k] = "p2p-share"
    BY <1>1, <1>2, <1>4, <1>6, <1>8, <1>9, AliasesLead DEF Merges
<1> QED BY <1>7, <1>9, <1>10, AliasesLead DEF ServerResolve, ClientResolve

\* The tools an address can bring to the screen under their own key.
ShownKeys == ToolKeys \ {"pdf-editor", "sign-pdf", "clean-billing"}

LEMMA ShownAre ==
    /\ Targets \subseteq ShownKeys
    /\ ToolKeys \ AliasKeys \subseteq ShownKeys
    /\ ShownKeys \subseteq PageKeys
    /\ ShownKeys \cap {"image-to-pdf", "", "pricing", "privacy", "terms", "security"} = {}
<1>1. Targets \subseteq ShownKeys
    BY TargetsAreTools DEF ShownKeys, Targets, Own
<1>2. ToolKeys \ AliasKeys \subseteq ShownKeys
    BY DEF ShownKeys, AliasKeys
<1>3. ShownKeys \subseteq PageKeys
    BY DEF ShownKeys, ToolKeys, OneDocument, PageKeys, StatedKeys, CoreKeys, OfficeKeys, ReadingKeys, BillingKeys,
           TrustKeys, LaterKeys
<1>4. ShownKeys \cap {"image-to-pdf", "", "pricing", "privacy", "terms", "security"} = {}
    BY DEF ShownKeys, ToolKeys, OneDocument
<1> QED BY <1>1, <1>2, <1>3, <1>4

\* What the server takes the tool of a page for.
LEMMA ServerContractIs ==
    ASSUME NEW k \in PageKeys
    PROVE  ServerContract(k) =
             IF k \in StudioPages THEN Stated(k)
             ELSE Contract(ModeOf(k), InputOf(k, ModeOf(k)),
                           k \in {"merge-pdf", "jpg-to-pdf", "image-to-pdf", "compare-pdf"}, NoStudio)
<1>1. PageRegistry[k] = Stated(k)
    BY RegistryStates DEF States
<1>2. Stated(k).mode # "open" <=> k \in StudioPages
    BY DEF Stated, StudioContract, Contract, StudioPages
<1> QED BY <1>1, <1>2 DEF ServerContract

\* The two sides mean the same by a tool, and the worker can process what
\* takes a file.
Matches(k) ==
    /\ SameUse(ServerContract(k), Defined(k))
    /\ RequiresInputFile(Defined(k)) => k \in Processors

LEMMA DocumentsMatch ==
    ASSUME NEW k \in OneDocument, k # "sign-pdf"
    PROVE  Matches(k)
<1>1. Defined(k) = Contract("processor", "pdf", FALSE, NoStudio)
    BY DEF Defined, OneDocument, Plain
<1>2. k \in PageKeys /\ k \notin StudioPages
    <2>1. k \in ShownKeys
        BY DEF ShownKeys, ToolKeys, OneDocument
    <2>2. k \notin StudioPages
        BY DEF OneDocument, StudioPages
    <2> QED BY <2>1, <2>2, ShownAre
<1>3. ModeOf(k) = "processor"
    BY DEF ModeOf, OneDocument
<1>4. InputOf(k, "processor") = "pdf"
    BY DEF InputOf, OneDocument, RequiresInputFile
<1>5. (k \in {"merge-pdf", "jpg-to-pdf", "image-to-pdf", "compare-pdf"}) = FALSE
    BY DEF OneDocument
<1>6. ServerContract(k) = Contract("processor", "pdf", FALSE, NoStudio)
    <2>1. ServerContract(k) =
            Contract("processor", "pdf", k \in {"merge-pdf", "jpg-to-pdf", "image-to-pdf", "compare-pdf"}, NoStudio)
        BY <1>2, <1>3, <1>4, ServerContractIs
    <2> QED BY <1>5, <2>1, Zenon
<1>7. k \in Processors
    BY DEF OneDocument, Processors
<1> QED BY <1>1, <1>6, <1>7 DEF Matches, SameUse

LEMMA ManyMatch ==
    ASSUME NEW k \in {"merge-pdf", "compare-pdf", "jpg-to-pdf", "word-to-pdf", "excel-to-pdf", "ocr-pdf", "markdown-to-pdf"}
    PROVE  Matches(k)
<1> DEFINE many == k \in {"merge-pdf", "jpg-to-pdf", "image-to-pdf", "compare-pdf"}
           input == InputOf(k, "processor")
<1>1. k \in PageKeys /\ k \notin StudioPages
    BY ShownAre DEF ShownKeys, ToolKeys, StudioPages
<1>2. ModeOf(k) = "processor"
    BY DEF ModeOf
<1>3. ServerContract(k) = Contract("processor", input, many, NoStudio)
    BY <1>1, <1>2, ServerContractIs
<1>4. Defined(k) \in {Contract("processor", input, TRUE, NoStudio), Contract("processor", input, FALSE, NoStudio)}
    BY DEF Defined, Plain, InputOf, RequiresInputFile
<1>5. Defined(k).many = many
    <2>1. CASE k \in {"merge-pdf", "compare-pdf", "jpg-to-pdf"}
        <3>1. Defined(k).many = TRUE
            BY <2>1 DEF Defined, Plain, Contract
        <3>2. many = TRUE
            BY <2>1
        <3> QED BY <3>1, <3>2
    <2>2. CASE k \in {"word-to-pdf", "excel-to-pdf", "ocr-pdf", "markdown-to-pdf"}
        <3>1. Defined(k).many = FALSE
            BY <2>2 DEF Defined, Plain, Contract
        <3>2. many = FALSE
            BY <2>2
        <3> QED BY <3>1, <3>2
    <2> QED BY <2>1, <2>2
<1>6. k \in Processors
    BY DEF Processors
<1> HIDE DEF many, input
<1>7. SameUse(ServerContract(k), Defined(k))
    BY <1>3, <1>4, <1>5 DEF SameUse, Contract
<1> QED BY <1>6, <1>7 DEF Matches

LEMMA StudiosMatch ==
    ASSUME NEW k \in {"draw-signature", "edit-pdf", "gst-invoice-pdf", "pos-billing", "tax-receipt", "estimate-maker",
                      "p2p-share"}
    PROVE  Matches(k)
<1>1. k \in PageKeys /\ k \in StudioPages
    BY ShownAre DEF ShownKeys, ToolKeys, StudioPages
<1>2. ServerContract(k) = Stated(k)
    BY <1>1, ServerContractIs
<1>3. SameUse(Stated(k), Defined(k))
    <2>1. Stated(k).mode = Defined(k).mode
        BY DEF Stated, Defined, StudioContract, Contract
    <2>2. Stated(k).input = Defined(k).input
        BY DEF Stated, Defined, StudioContract, Contract
    <2>3. Stated(k).studio = Defined(k).studio
        BY DEF Stated, Defined, StudioContract, Contract
    <2>4. RequiresInputFile(Stated(k)) => Stated(k).many = Defined(k).many
        BY DEF Stated, Defined, StudioContract, Contract, RequiresInputFile
    <2> QED BY <2>1, <2>2, <2>3, <2>4 DEF SameUse
<1>4. RequiresInputFile(Defined(k)) => k \in Processors
    BY DEF Defined, Contract, RequiresInputFile, Processors
<1> QED BY <1>2, <1>3, <1>4 DEF Matches

LEMMA ToolsMatch == \A k \in ShownKeys : Matches(k)
BY DocumentsMatch, ManyMatch, StudiosMatch DEF ShownKeys, ToolKeys

\* What holds of every address the script knows.
FitsTheUse(s) ==
    /\ Served(s).kind = "tool"
    /\ SameUse(ServerContract(Served(s).for), ClientContract(ClientResolve(s)))
    /\ RequiresInputFile(ClientContract(ClientResolve(s))) => ClientResolve(s) \in Processors

LEMMA ServedIs ==
    ASSUME NEW s, s \notin StaticPages, s # "", ServerResolve(s) \in PageKeys
    PROVE  Served(s) = [kind |-> "tool", for |-> ServerResolve(s)]
BY RegistryStates DEF Served

LEMMA KnownAddressFits ==
    ASSUME NEW s, Known(s)
    PROVE  FitsTheUse(s)
<1>1. ClientResolve(s) \in ToolKeys \cup AliasKeys \cup AirDropNames
    BY DefinitionsAre DEF Known
<1>2. CASE s \in AliasKeys
    <2> DEFINE t == ClientRouteAliases[s]
    <2>1. t \in Targets
        BY <1>2, AliasesLead DEF Leads
    <2>2. ServerResolve(s) = t /\ ClientResolve(s) = t
        BY <1>2, ServerResolves
    <2>3. t \in ShownKeys /\ t \in ToolKeys /\ t \in PageKeys
        BY <2>1, ShownAre DEF ShownKeys
    <2>4. s \notin StaticPages /\ s # ""
        BY <1>2 DEF AliasKeys, Own, StaticPages
    <2> HIDE DEF t
    <2>5. Served(s) = [kind |-> "tool", for |-> t]
        BY <2>2, <2>3, <2>4, ServedIs
    <2>6. ClientContract(t) = Defined(t)
        BY <2>3, DefinitionsAre DEF ClientContract
    <2>7. Matches(t)
        BY <2>3, ToolsMatch
    <2> QED BY <2>2, <2>5, <2>6, <2>7 DEF FitsTheUse, Matches
<1>3. CASE s \in AirDropNames
    <2>1. ServerResolve(s) = "p2p-share" /\ ClientResolve(s) = s
        BY <1>3, ServerResolves
    <2>2. "p2p-share" \in ShownKeys /\ "p2p-share" \in PageKeys
        BY ShownAre DEF ShownKeys, ToolKeys
    <2>3. s \notin StaticPages /\ s # ""
        BY <1>3 DEF AirDropNames, StaticPages
    <2>4. Served(s) = [kind |-> "tool", for |-> "p2p-share"]
        BY <2>1, <2>2, <2>3, ServedIs
    <2>5. ClientContract(s) = Defined("p2p-share")
        BY <1>3, DefinitionsAre DEF ClientContract
    <2>6. Matches("p2p-share")
        BY <2>2, ToolsMatch
    <2>7. ~RequiresInputFile(Defined("p2p-share"))
        BY DEF Defined, Contract, RequiresInputFile
    <2> QED BY <2>1, <2>4, <2>5, <2>6, <2>7 DEF FitsTheUse, Matches
<1>4. CASE s \notin AliasKeys /\ s \notin AirDropNames
    <2>1. ClientResolve(s) = s
        BY <1>4, ServerResolves
    <2>2. s \in ToolKeys /\ s \in ShownKeys /\ s \in PageKeys
        BY <1>1, <1>4, <2>1, ShownAre
    <2>3. s \notin StaticPages /\ s # "" /\ s # "image-to-pdf"
        BY <2>2, ShownAre DEF StaticPages
    <2>4. ServerResolve(s) = s
        BY <1>4, <2>3, ServerResolves
    <2>5. Served(s) = [kind |-> "tool", for |-> s]
        BY <2>2, <2>3, <2>4, ServedIs
    <2>6. ClientContract(s) = Defined(s)
        BY <2>2, DefinitionsAre DEF ClientContract
    <2>7. Matches(s)
        BY <2>2, ToolsMatch
    <2> QED BY <2>1, <2>5, <2>6, <2>7 DEF FitsTheUse, Matches
<1> QED BY <1>2, <1>3, <1>4

-----------------------------------------------------------------------------
(* The links *)

LEMMA SlugIsServed ==
    ASSUME NEW s, s \in PageKeys \cup AliasKeys \cup StaticPages \cup {""}
    PROVE  Served(s).kind # "missing"
<1>1. CASE s \in StaticPages
    BY <1>1 DEF Served, StaticPages
<1>2. CASE s = "" /\ s \notin StaticPages
    BY <1>2 DEF Served
<1>3. CASE s \notin StaticPages /\ s # ""
    <2>1. s # "image-to-pdf"
        BY <1>3 DEF PageKeys, StatedKeys, CoreKeys, OfficeKeys, ReadingKeys, BillingKeys, TrustKeys, LaterKeys,
                    AliasKeys, Own
    <2>2. "p2p-share" \in PageKeys
        BY ShownAre DEF ShownKeys, ToolKeys
    <2>3. ServerResolve(s) \in PageKeys
        BY ZenonT(40), <1>3, <2>1, <2>2, ServerResolves, AliasesLead, TargetsAreTools DEF Leads
    <2>4. Served(s) = [kind |-> "tool", for |-> ServerResolve(s)]
        BY <1>3, <2>3, ServedIs
    <2> DEFINE target == ServerResolve(s)
    <2>5. Served(s) = [kind |-> "tool", for |-> target]
        BY <2>4
    <2> DEFINE out == Served(s)
                kind == "tool"
    <2>6. out = [kind |-> kind, for |-> target]
        BY <2>5
    <2> HIDE DEF target, out, kind
    <2>7. out.kind = kind
        BY <2>6
    <2> USE DEF out, kind
    <2> QED BY <2>7
<1> QED BY <1>1, <1>2, <1>3

Findable == PageKeys \cup AliasKeys \cup StaticPages \cup {""}

LEMMA TablesOfLinks ==
    /\ CatalogueCore \cup CatalogueRest \subseteq Findable
    /\ MenuCore \cup MenuRest \subseteq Findable
    /\ Footer \cup Spotlights \cup Suggestions \subseteq Findable
<1> DEFINE keys == PageKeys \cup AliasKeys
<1>1. keys \cup {"", "pricing", "privacy", "security", "terms"} \subseteq Findable
    BY DEF Findable, StaticPages
<1>2. CatalogueCore \subseteq Findable
    BY ZenonT(40), <1>1 DEF CatalogueCore, PageKeys, StatedKeys, CoreKeys, OfficeKeys, ReadingKeys, BillingKeys, TrustKeys, LaterKeys,
                AliasKeys, Own
<1>3. CatalogueRest \subseteq Findable
    BY ZenonT(40), <1>1 DEF CatalogueRest, PageKeys, StatedKeys, CoreKeys, OfficeKeys, ReadingKeys, BillingKeys, TrustKeys, LaterKeys,
                AliasKeys, Own
<1>4. MenuCore \subseteq Findable
    BY ZenonT(40), <1>1 DEF MenuCore, PageKeys, StatedKeys, CoreKeys, OfficeKeys, ReadingKeys, BillingKeys, TrustKeys, LaterKeys,
                AliasKeys, Own
<1>5. MenuRest \subseteq Findable
    BY ZenonT(40), <1>1 DEF MenuRest, PageKeys, StatedKeys, CoreKeys, OfficeKeys, ReadingKeys, BillingKeys, TrustKeys, LaterKeys,
                AliasKeys, Own
<1>6. Footer \subseteq Findable
    BY <1>1 DEF Footer, PageKeys, StatedKeys, CoreKeys, OfficeKeys, ReadingKeys, BillingKeys, TrustKeys, LaterKeys,
                AliasKeys, Own
<1>7. Spotlights \subseteq Findable
    BY <1>1 DEF Spotlights, PageKeys, StatedKeys, CoreKeys, OfficeKeys, ReadingKeys, BillingKeys, TrustKeys, LaterKeys,
                AliasKeys, Own
<1>8. Suggestions \subseteq Findable
    BY <1>1 DEF Suggestions, PageKeys, StatedKeys, CoreKeys, OfficeKeys, ReadingKeys, BillingKeys, TrustKeys, LaterKeys,
                AliasKeys, Own
<1> QED BY <1>2, <1>3, <1>4, <1>5, <1>6, <1>7, <1>8

LEMMA LinksAreServed ==
    ASSUME NEW path \in PageLinks
    PROVE  Served(path).kind # "missing"
<1>1. RelatedPages(page.for) \subseteq PageKeys
    BY RegistryStates DEF RelatedPages
<1>2. PageLinks \subseteq Findable
    <2> DEFINE related == IF Booted THEN {} ELSE RelatedPages(page.for)
    <2>1. related \subseteq Findable
        BY <1>1 DEF Findable
    <2> HIDE DEF related
    <2>2. PageLinks \in SUBSET (Footer \cup CatalogueCore \cup CatalogueRest \cup Spotlights \cup MenuCore \cup MenuRest
                                \cup Suggestions \cup related)
        BY DEF PageLinks, related
    <2> QED BY <2>1, <2>2, TablesOfLinks
<1> QED BY <1>2, SlugIsServed DEF Findable

\* Whatever the script links to, it can show.
LEMMA ScriptKnowsItsLinks ==
    ASSUME NEW key \in ScriptLinks
    PROVE  Known(key)
<1>1. key \in ToolKeys \cup AliasKeys \cup AirDropNames
    <2>1. NextSteps \subseteq ToolKeys
        BY DEF NextSteps, ToolKeys, OneDocument
    <2>2. RelatedTools(active) \subseteq DOMAIN ToolDefinitions
        BY DEF RelatedTools
    <2> QED BY <2>1, <2>2, DefinitionsAre DEF ScriptLinks, Tabs
<1>2. ClientResolve(key) \in ToolKeys \cup AirDropNames
    BY <1>1, ServerResolves, AliasesLead, TargetsAreTools DEF Leads
<1> QED BY <1>2, DefinitionsAre DEF Known

-----------------------------------------------------------------------------
(* Moving about *)

\* The tool on the screen is one some address names.
ToolIsNamed == Booted => \E s : Known(s) /\ active = ClientResolve(s)
TrailIsHistory == \E S : trail \in Seq(S)
Navigates == NavTypeOK /\ ToolIsTheAddressed /\ ToolIsNamed /\ TrailIsHistory /\ NoDeadLinks

LEMMA ServedTyped ==
    ASSUME NEW path
    PROVE  Served(path) \in [kind: StaticPages \cup {"home", "tool", "missing"}, for: DOMAIN PageRegistry \cup {NoTool}]
BY DEF Served, NoPage

LEMMA LoadKeeps ==
    ASSUME NEW path, NEW how \in {"typed", "link", "sitemap"}, Load(path, how),
           how = "link" => Served(path).kind # "missing"
    PROVE  Navigates'
<1>1. trail' \in Seq({path}) /\ Len(trail') = 1 /\ DOMAIN (trail') = 1..1
    BY DEF Load
<1>2. TrailIsHistory'
    BY <1>1 DEF TrailIsHistory
<1>3. NavTypeOK'
    BY <1>1, ServedTyped, NavAssumption DEF NavTypeOK, Load
<1>4. ~Booted'
    BY DEF Load, Booted
<1>5. NoDeadLinks'
    BY DEF NoDeadLinks, Load
<1> QED BY <1>2, <1>3, <1>4, <1>5 DEF Navigates, ToolIsTheAddressed, ToolIsNamed

LEMMA MergeIsKnown == Known("merge-pdf") /\ ClientResolve("merge-pdf") = "merge-pdf"
<1>1. "merge-pdf" \in ToolKeys /\ "merge-pdf" \notin AliasKeys
    BY DEF ToolKeys, AliasKeys, Own
<1> QED BY <1>1, ServerResolves, DefinitionsAre DEF Known

LEMMA BootKeeps == Navigates /\ Boot => Navigates'
<1> SUFFICES ASSUME Navigates, Boot PROVE Navigates'
    OBVIOUS
<1> USE DEF Navigates
<1>1. page' = page /\ trail' = trail /\ entry' = entry /\ via' = via /\ Address' = Address
    BY DEF Boot, Address
<1>2. \E s : Known(s) /\ active' = ClientResolve(s)
    BY MergeIsKnown DEF Boot
<1>3. NavTypeOK'
    BY <1>1, <1>2 DEF NavTypeOK, Known
<1>4. ToolIsTheAddressed'
    <2>1. Known(Address)' <=> Known(Address)
        BY <1>1 DEF Known
    <2> QED BY <1>1, <2>1 DEF ToolIsTheAddressed, Boot
<1>5. ToolIsNamed'
    BY <1>2 DEF ToolIsNamed, Known
<1>6. TrailIsHistory' /\ NoDeadLinks'
    BY <1>1 DEF TrailIsHistory, NoDeadLinks
<1> QED BY <1>3, <1>4, <1>5, <1>6

LEMMA PopStateKeeps == Navigates /\ PopState => Navigates'
<1> SUFFICES ASSUME Navigates, PopState PROVE Navigates'
    OBVIOUS
<1> USE DEF Navigates
<1>1. page' = page /\ trail' = trail /\ via' = via /\ Address' = trail[entry'] /\ Booted
    BY DEF PopState, Address
<1>2. \E s : Known(s) /\ active' = ClientResolve(s)
    BY <1>1 DEF PopState, ToolIsNamed
<1>3. NavTypeOK'
    BY <1>1, <1>2 DEF NavTypeOK, Known, PopState
<1>4. ToolIsTheAddressed'
    BY <1>1 DEF ToolIsTheAddressed, PopState, Known
<1>5. ToolIsNamed'
    BY <1>2 DEF ToolIsNamed, Known
<1>6. TrailIsHistory' /\ NoDeadLinks'
    BY <1>1 DEF TrailIsHistory, NoDeadLinks
<1> QED BY <1>3, <1>4, <1>5, <1>6

LEMMA SwitchKeeps == Navigates /\ Switch => Navigates'
<1> SUFFICES ASSUME Navigates, Switch PROVE Navigates'
    OBVIOUS
<1> USE DEF Navigates
<1>1. PICK key \in ScriptLinks :
        /\ Known(key)
        /\ active' = ClientResolve(key)
        /\ IF key = Address THEN UNCHANGED <<trail, entry>> ELSE entry < MaxTrail /\ PushAddress(key)
        /\ UNCHANGED <<page, via>>
    BY ScriptKnowsItsLinks DEF Switch
<1>2. /\ Len(trail') \in 1..MaxTrail /\ entry' \in DOMAIN (trail') /\ trail'[entry'] = key
      /\ TrailIsHistory'
    <2>1. CASE key = Address
        BY <1>1, <2>1 DEF NavTypeOK, Address, TrailIsHistory
    <2>2. CASE key # Address
        <3>1. PICK S : trail \in Seq(S)
            BY DEF TrailIsHistory
        <3> DEFINE before == SubSeq(trail, 1, entry)
        <3>2. entry \in 1..Len(trail) /\ Len(trail) \in Nat /\ entry < MaxTrail
            BY <1>1, <2>2, <3>1 DEF NavTypeOK
        <3>3. before \in Seq(S) /\ Len(before) = entry
            BY <3>1, <3>2, SubSeqProperties
        <3>4. trail' = Append(before, key) /\ entry' = entry + 1
            BY <1>1, <2>2 DEF PushAddress
        <3>5. before \in Seq(S \cup {key}) /\ key \in S \cup {key}
            BY <3>3
        <3> HIDE DEF before
        <3>6. /\ trail' \in Seq(S \cup {key}) /\ Len(trail') = entry + 1
              /\ trail'[entry + 1] = key
            BY <3>3, <3>4, <3>5, AppendProperties
        <3>7. DOMAIN (trail') = 1..(entry + 1)
            BY <3>6
        <3>8. Len(trail') \in 1..MaxTrail /\ entry' \in DOMAIN (trail')
            BY <3>2, <3>4, <3>6, <3>7, NavAssumption
        <3> QED BY <3>4, <3>6, <3>8 DEF TrailIsHistory
    <2> QED BY <2>1, <2>2
<1>3. NavTypeOK'
    BY <1>1, <1>2 DEF NavTypeOK, Known
<1>4. ToolIsTheAddressed'
    BY <1>1, <1>2 DEF ToolIsTheAddressed, Address
<1>5. ToolIsNamed'
    BY <1>1 DEF ToolIsNamed, Known
<1>6. NoDeadLinks'
    BY <1>1 DEF NoDeadLinks
<1> QED BY <1>2, <1>3, <1>4, <1>5, <1>6

\* Wherever the visitor goes, the document, its history and its tool fit, and
\* a link never leads to the page for unknown addresses.
LEMMA NavigationHolds == NavSpec => []Navigates
<1>1. NavInit => Navigates
    <2> SUFFICES ASSUME NavInit PROVE Navigates
        OBVIOUS
    <2> DEFINE home == ""
    <2>0. /\ trail = <<home>> /\ page = Served(home)
          /\ active = NoTool /\ entry = 1 /\ via = "typed"
        BY DEF NavInit
    <2> HIDE DEF home
    <2>1. trail \in Seq({home}) /\ Len(trail) = 1 /\ DOMAIN trail = 1..1
        BY <2>0
    <2>2. NavTypeOK
        BY <2>0, <2>1, ServedTyped, NavAssumption DEF NavTypeOK
    <2>3. TrailIsHistory
        BY <2>1 DEF TrailIsHistory
    <2> QED BY <2>2, <2>3 DEF NavInit, Navigates, ToolIsTheAddressed, ToolIsNamed, Booted, NoDeadLinks
<1>2. Navigates /\ [NavNext]_navVars => Navigates'
    <2> SUFFICES ASSUME Navigates, [NavNext]_navVars PROVE Navigates'
        OBVIOUS
    <2>1. CASE Visit
        BY <2>1, LoadKeeps DEF Visit
    <2>2. CASE Follow
        BY <2>2, LoadKeeps, LinksAreServed DEF Follow
    <2>3. CASE Crawl
        BY <2>3, LoadKeeps DEF Crawl
    <2>4. CASE Boot
        BY <2>4, BootKeeps
    <2>5. CASE Switch
        BY <2>5, SwitchKeeps
    <2>6. CASE PopState
        BY <2>6, PopStateKeeps
    <2>7. CASE UNCHANGED navVars
        BY <2>7 DEF navVars, Navigates, NavTypeOK, ToolIsTheAddressed, ToolIsNamed, TrailIsHistory, NoDeadLinks, Booted,
                    Address, Known
    <2> QED BY <2>1, <2>2, <2>3, <2>4, <2>5, <2>6, <2>7 DEF NavNext
<1> QED BY <1>1, <1>2, PTL DEF NavSpec

\* However the visitor clicks, goes back and goes forward, the tool on the
\* screen is the one the address names (app.js:274-310, 896-916).
THEOREM NavigationIsSound == NavSpec => []NavIsSound
<1>1. Navigates => NavIsSound
    BY DEF Navigates, NavIsSound
<1> QED BY <1>1, NavigationHolds, PTL

\* Whoever follows the links of the site finds a page behind each of them.
THEOREM LinksLeadSomewhere == NavSpec => []NoDeadLinks
<1>1. Navigates => NoDeadLinks
    BY DEF Navigates
<1> QED BY <1>1, NavigationHolds, PTL

\* Whatever the script shows, its address leads to a page of the server for
\* the same use, and the worker can process what it takes
\* (app.js:77, seo.ts:936, job-runner.js:50).
THEOREM TablesMeanTheSame == NavSpec => []TablesAgree
<1>1. Navigates => TablesAgree
    <2> SUFFICES ASSUME Navigates PROVE TablesAgree
        OBVIOUS
    <2>1. AddressCanBeShared
        <3> SUFFICES ASSUME Booted, Known(Address)
                     PROVE  /\ Served(Address).kind = "tool"
                            /\ SameUse(ServerContract(Served(Address).for), ClientContract(active))
            BY DEF AddressCanBeShared
        <3>1. active = ClientResolve(Address)
            BY DEF Navigates, ToolIsTheAddressed
        <3>2. FitsTheUse(Address)
            BY KnownAddressFits
        <3> QED BY <3>1, <3>2 DEF FitsTheUse
    <2>2. OperationsHaveProcessors
        <3> SUFFICES ASSUME Booted, RequiresInputFile(ClientContract(active)) PROVE active \in Processors
            BY DEF OperationsHaveProcessors
        <3>1. PICK s : Known(s) /\ active = ClientResolve(s)
            BY DEF Navigates, ToolIsNamed
        <3> QED BY <3>1, KnownAddressFits DEF FitsTheUse
    <2> QED BY <2>1, <2>2 DEF TablesAgree
<1> QED BY <1>1, NavigationHolds, PTL
=============================================================================
