------------------------------ MODULE Pipeline ------------------------------
(***************************************************************************)
(* A document job in the worker: the single operation a page of the site   *)
(* asks for, or a chain of them (processors/pipeline.ts), with what the    *)
(* browser makes of the same tool on the same form when it can.            *)
(*                                                                         *)
(* A processor reports its progress between its awaits and then gives its  *)
(* files or throws; a chain maps the reports of each step into the step's  *)
(* share of 0..100, hands the files of a step to the next and, when it is  *)
(* told to go on after an error, carries on with the files it had.         *)
(* Nothing in the worker calls a processor's validateInput: process() is   *)
(* all that runs.  The sandbox's timer sets a flag that some processors    *)
(* read page by page and the chain between its steps.                      *)
(***************************************************************************)
EXTENDS LocalEngine

CONSTANT Jobs   \* the jobs that may come

\* A tool's page sends a form and may do the tool itself; a client of the API
\* sends the options of one operation, or a chain; a billing studio sends what
\* it has previewed.
Kinds == {"tool", "api", "chain", "studio"}

IsSeq(s) == s \in Seq({s[i] : i \in DOMAIN s})

\* A file as it comes in: a picture is one page, and no password is set on it.
IsPage(page) == DOMAIN page = DOMAIN Page("any") /\ IsSeq(page.marks)
IsFile(file) ==
    /\ DOMAIN file = DOMAIN NewFile(<<>>)
    /\ file.kind \in {"pdf", "png", "jpeg", "webp"}
    /\ IsSeq(file.pages) /\ \A i \in DOMAIN file.pages : IsPage(file.pages[i])
    /\ file.kind # "pdf" => Len(file.pages) = 1 /\ file.password = NoPassword

\* The options of a bill have numbers where numbers are meant.
BillOptions(op, opt) ==
    CASE op = "gst-invoice-pdf" ->
            /\ IsSeq(opt.items)
            /\ \A i \in DOMAIN opt.items :
                  {opt.items[i].qty, opt.items[i].rate, opt.items[i].gst, opt.items[i].off}
                    \subseteq Int
      [] op \in {"pos-billing", "estimate-maker"} ->
            /\ IsSeq(opt.items)
            /\ \A i \in DOMAIN opt.items : {opt.items[i].qty, opt.items[i].rate} \subseteq Int
            /\ {opt.discount, opt.tax} \subseteq Int /\ opt.upi \in BOOLEAN
      [] op = "tax-receipt" -> opt.amount \in Int

\* A billing operation needs no file; a studio's job is made in the studio.
ASSUME PipelineAssumption ==
    \A job \in Jobs :
        /\ job.kind \in Kinds \ {"studio"}
        /\ IsSeq(job.files) /\ \A i \in DOMAIN job.files : IsFile(job.files[i])
        /\ job.files = <<>> => job.kind # "chain" /\ job.steps[1].op \in BillingOps
        /\ IsSeq(job.steps) /\ job.steps # <<>>
        /\ job.kind # "chain" =>
              /\ Len(job.steps) = 1
              /\ job.steps[1].op \in BillingOps => BillOptions(job.steps[1].op, job.steps[1].opt)
        /\ \A k \in DOMAIN job.steps :
              job.steps[k].op = "split-pdf" => IsSeq(job.steps[k].opt.ranges)

VARIABLES
    job,        \* [kind, files, steps, lenient, form]
    local,      \* what the browser made of it: a set of at most one outcome
    status,     \* "draft", "posting", "queued", "running", "done", "failed"
    at,         \* the step that runs
    reported,   \* how many reports it has made
    buffers,    \* currentBuffers: the files the next step works on
    progress,   \* what the job's progress bar shows
    cancelled,  \* the sandbox's flag
    kept        \* the steps that gave files, in order

vars == <<job, local, status, at, reported, buffers, progress, cancelled, kept>>

(***************************************************************************)
(* Progress, in whole percents.                                            *)
(***************************************************************************)
\* Math.round(from + i / n * width)
Share(from, i, n, width) == (2 * (from * n + i * width) + n) \div (2 * n)
PerPage(from, pages, n, width) ==
    [k \in DOMAIN pages |-> Share(from, pages[k], n, width)]

\* The percents a processor reports up to its result.
Reports(op, files, opt) ==
    LET n == Total(files[1])
        All == AllPages(files[1])
        most == IF n > Total(files[2]) THEN n ELSE Total(files[2])
        Only(targets) == Chosen(n, targets)
    IN CASE op \in {"merge-pdf", "image-to-pdf", "jpg-to-pdf"} ->
               <<10>> \o PerPage(10, [i \in DOMAIN files |-> i], Len(files), 75)
                      \o <<90, 100>>
         [] op = "split-pdf" ->
               <<10>> \o (IF opt.mode = "all-pages" \/ opt.ranges = <<>>
                          THEN PerPage(10, All, n, 80) ELSE <<>>)
                      \o <<100>>
         [] op = "extract-pages" -> <<20, 100>>
         [] op \in {"rotate-pdf", "reorder-pdf", "delete-pages", "delete-pdf-pages"} ->
               <<20, 50, 85, 100>>
         [] op = "watermark-pdf" ->
               <<15, 30>> \o PerPage(30, Only(Stamped(opt.which, opt.listed, n)), n, 55)
                          \o <<90, 100>>
         [] op = "page-numbers-pdf" -> <<15, 25>> \o PerPage(25, All, n, 60) \o <<90, 100>>
         [] op = "repair-pdf" -> <<10, 40>> \o PerPage(40, All, n, 40) \o <<90, 100>>
         [] op = "redact-pdf" ->
               <<15, 30>>
               \o PerPage(30, Only({opt.boxes[k].page : k \in DOMAIN opt.boxes}), n, 45)
               \o (IF opt.sanitize THEN <<80>> ELSE <<>>) \o <<90, 100>>
         [] op = "compare-pdf" ->
               IF Len(files) < 2 THEN <<15>>
               ELSE <<15, 35>>
                    \o PerPage(35, [i \in 1..most |-> i], most, 50)
                    \o <<90, 100>>
         [] op = "crop-pdf" -> <<15, 40, 85>>
         [] op = "compress-pdf" -> <<20, 50, 80, 100>>
         [] op = "protect-pdf" -> <<20, 50, 100>>
         [] op = "unlock-pdf" -> <<20, 60, 100>>
         [] op = "strip-metadata-pdf" -> <<20, 40, 80, 100>>
         [] op = "flatten-pdf" -> <<15, 35, 55, 85, 100>>
         [] op = "gst-invoice-pdf" -> <<10, 35, 95, 100>>
         [] op = "pos-billing" -> <<10>> \o (IF opt.upi THEN <<60>> ELSE <<>>) \o <<90, 100>>
         [] op \in {"estimate-maker", "tax-receipt"} -> <<10, 90, 100>>
         [] OTHER -> <<>>

StepBase(i) == Share(0, i - 1, Len(job.steps), 100)

\* Defect: a step's report counts from the end of its share.
MappedPast(sub) ==
    IF job.kind # "chain" THEN sub
    ELSE (2 * (100 * StepBase(at + 1) + sub * (StepBase(at + 1) - StepBase(at))) + 100) \div 200

\* Defect: a step's report is shown as it is.
MappedPlainly(sub) == sub

\* A chain maps a step's report into the step's share of the whole.
Mapped(sub) ==
    IF job.kind # "chain" THEN sub
    ELSE (2 * (100 * StepBase(at) + sub * (StepBase(at + 1) - StepBase(at))) + 100) \div 200

(***************************************************************************)
(* The steps.                                                              *)
(***************************************************************************)
\* The processors a chain may call.
Chainable == {"merge-pdf", "split-pdf", "rotate-pdf", "compress-pdf", "image-to-pdf",
              "watermark-pdf", "page-numbers-pdf", "protect-pdf", "unlock-pdf",
              "repair-pdf", "strip-metadata-pdf", "flatten-pdf", "redact-pdf"}

\* The processors that look at the flag while they work.
Watchful == {"merge-pdf", "split-pdf", "image-to-pdf", "jpg-to-pdf", "watermark-pdf",
             "page-numbers-pdf", "repair-pdf", "redact-pdf", "compare-pdf"}

Step == job.steps[at]

\* An operation a chain does not know has no process() to call.
Known == job.kind # "chain" \/ Step.op \in Chainable

Outcome == IF Known THEN Process(Step.op, buffers, Step.opt) ELSE Throws
StepReports == IF Known THEN Reports(Step.op, buffers, Step.opt) ELSE <<>>

\* What the last step made may run out partly flattened when the flag is set.
Outcomes ==
    {Outcome} \union
    (IF cancelled /\ Known /\ Step.op = "flatten-pdf"
     THEN {FlattenUpTo(buffers, Step.opt, n) : n \in 0..Total(buffers[1])} ELSE {})

Init ==
    /\ job \in Jobs
    /\ local = {} /\ status = "queued"
    /\ at = 1 /\ reported = 0 /\ buffers = job.files
    /\ progress = 0 /\ cancelled = FALSE /\ kept = <<>>

\* The page does the tool itself, as it may whatever a worker would do.
RunLocally ==
    /\ job.kind = "tool" /\ local = {}
    /\ local' = {ExecuteLocal(job.steps[1].op, job.files, job.form)}
    /\ UNCHANGED <<job, status, at, reported, buffers, progress, cancelled, kept>>

Start ==
    /\ status = "queued"
    /\ status' = "running"
    /\ UNCHANGED <<job, local, at, reported, buffers, progress, cancelled, kept>>

Report ==
    /\ status = "running" /\ reported < Len(StepReports)
    /\ reported' = reported + 1
    /\ progress' = Mapped(StepReports[reported + 1])
    /\ UNCHANGED <<job, local, status, at, buffers, cancelled, kept>>

\* The last check of a result: it begins like a PDF.
Deliverable(file) == file.kind = "pdf"

\* What follows a step: the next one, unless the flag is set, or the end.  A
\* chain ends with the first of its files, and that is its result.
After(files) ==
    /\ reported' = 0
    /\ IF at < Len(job.steps)
       THEN /\ IF cancelled
               THEN status' = "failed" /\ UNCHANGED <<at, progress>>
               ELSE /\ at' = at + 1 /\ progress' = StepBase(at + 1)
                    /\ UNCHANGED status
            /\ buffers' = files
       ELSE /\ UNCHANGED at
            /\ IF job.kind # "chain"
               THEN status' = "done" /\ buffers' = files /\ UNCHANGED progress
               ELSE IF Deliverable(files[1])
               THEN status' = "done" /\ buffers' = <<files[1]>> /\ progress' = 100
               ELSE status' = "failed" /\ buffers' = files /\ UNCHANGED progress
    /\ UNCHANGED <<job, local, cancelled>>

\* A step that made no file is an error of a chain.
StepSucceeds ==
    /\ status = "running" /\ reported = Len(StepReports)
    /\ \E outcome \in Outcomes :
        /\ outcome.done
        /\ job.kind = "chain" => outcome.files # <<>>
        /\ kept' = Append(kept, at)
        /\ After(outcome.files)

\* A processor throws at its input, or at the flag; only one that has no file
\* to give has made all its reports.
StepThrows ==
    /\ status = "running"
    /\ \/ ~Outcome.done /\ (reported < Len(StepReports) \/ ~Known)
       \/ job.kind = "chain" /\ Outcome = Gives(<<>>) /\ reported = Len(StepReports)
       \/ cancelled /\ Known /\ Step.op \in Watchful
    /\ UNCHANGED kept
    /\ IF job.kind = "chain" /\ job.lenient
       THEN After(buffers)
       ELSE /\ status' = "failed"
            /\ UNCHANGED <<job, local, at, reported, buffers, progress, cancelled>>

\* The timer of the sandbox runs out.
TimeOut ==
    /\ status = "running" /\ ~cancelled
    /\ cancelled' = TRUE
    /\ UNCHANGED <<job, local, status, at, reported, buffers, progress, kept>>

Next == RunLocally \/ Start \/ Report \/ StepSucceeds \/ StepThrows \/ TimeOut

Spec == Init /\ [][Next]_vars

(***************************************************************************)
(* Properties.                                                             *)
(***************************************************************************)
Percents == 0..100

\* The job is in one of its stages, works on files of a known kind and shows
\* a percentage.
PipelineTypeOK ==
    /\ job.kind \in Kinds
    /\ status \in {"draft", "posting", "queued", "running", "done", "failed"}
    /\ at \in DOMAIN job.steps
    /\ progress \in Percents /\ cancelled \in BOOLEAN
    /\ \A i \in DOMAIN buffers : buffers[i].kind \in {"pdf", "png", "jpeg", "webp"}
    /\ \A k \in DOMAIN kept : kept[k] \in DOMAIN job.steps
    /\ Cardinality(local) <= 1

\* The bar of a job never goes back until its studio is shown again, a step of
\* a chain never runs into the share of a later one, and a chain shows 100 %
\* only in its last step and always when it is done (pipeline.ts:117-131, 158).
ProgressIsHonest ==
    [][/\ status' # "draft" => progress' >= progress
       /\ job.kind = "chain" =>
            /\ progress' <= StepBase(at' + 1)
            /\ progress' = 100 => at' = Len(job.steps)
            /\ status' = "done" => progress' = 100]_vars

KeptSteps == [k \in DOMAIN kept |-> job.steps[kept[k]]]
KeptOps == {KeptSteps[k].op : k \in DOMAIN kept}

\* The pages a chain starts from: those of every file if it begins by merging
\* them or turning them into pages, and of the first file otherwise.
Pages(files) == FlattenSeq([i \in DOMAIN files |-> files[i].pages])
Source == IF kept # <<>> /\ KeptSteps[1].op \in {"merge-pdf", "image-to-pdf"}
          THEN Pages(job.files) ELSE job.files[1].pages

\* What is followed of a page, and what a step makes of that on the i-th one.
Face(page) == [of |-> page.of, turn |-> page.turn,
               marks |-> [k \in DOMAIN page.marks |-> page.marks[k].kind]]
Worked(step, i, face) ==
    LET With(kind) == [face EXCEPT !.marks = Append(@, kind)]
    IN CASE step.op = "rotate-pdf" /\ i \in Targets(step.opt.which, step.opt.listed, i)
                -> [face EXCEPT !.turn = (@ + step.opt.rotation) % 360]
         [] step.op = "watermark-pdf" /\ i \in Stamped(step.opt.which, step.opt.listed, i)
                -> With("watermark")
         [] step.op = "page-numbers-pdf" -> With("number")
         [] step.op = "redact-pdf" /\ \E b \in DOMAIN step.opt.boxes : step.opt.boxes[b].page = i
                -> With("redaction")
         [] OTHER -> face

\* The pages after some steps.
Faces(pages, steps) ==
    LET faces[k \in 0..Len(steps)] ==
            [i \in DOMAIN pages |-> IF k = 0 THEN Face(pages[i])
                                    ELSE Worked(steps[k], i, faces[k - 1][i])]
    IN faces[Len(steps)]

\* When a chain is done and no step of it took pages out, every page it
\* started from is there, in its order, turned by every rotation that was
\* kept and carrying the marks of every kept step in the order of the steps,
\* whichever steps failed in between (pipeline.ts:110-156).
PagesArrive ==
    (/\ status = "done" /\ job.kind = "chain"
     /\ KeptOps \intersect {"split-pdf", "repair-pdf"} = {}) =>
        LET pages == buffers[1].pages
        IN [i \in DOMAIN pages |-> Face(pages[i])] = Faces(Source, KeptSteps)

\* Whether a file is locked after the first n steps.
Locked(first, steps, n) ==
    LET deciding == {k \in 1..n : steps[k].op \in {"protect-pdf", "unlock-pdf", "repair-pdf"}}
    IN IF deciding = {} THEN first.password # NoPassword
       ELSE steps[CHOOSE k \in deciding : \A j \in deciding : j <= k].op = "protect-pdf"

\* A result is under a password exactly when the last kept step that sets,
\* removes or loses one set it, and only a step that reads past encryption
\* was kept under the lock (protect.ts, unlock.ts and each load call).
LockStays ==
    (status = "done" /\ job.kind = "chain") =>
        /\ (buffers[1].password # NoPassword) <=> Locked(job.files[1], KeptSteps, Len(kept))
        /\ \A k \in DOMAIN kept : Locked(job.files[1], KeptSteps, k - 1) =>
              KeptSteps[k].op \in {"unlock-pdf", "repair-pdf", "strip-metadata-pdf",
                                   "flatten-pdf", "redact-pdf"}

\* A chain that is done delivers the pages it should, under the lock it should
\* (pipeline.ts:110-156 with the processors it calls).
ChainDelivers == PagesArrive /\ LockStays

\* The words say the amount, as far as there are words.
Says(words, rupees) == Sayable(rupees) => SaidBy(words) = rupees

\* An invoice's summary adds up to its totals and its rounding, half a rupee at
\* most, makes up the rest; its foot has room under up to eleven items.
InvoiceIsWhole(bill) ==
    /\ \A f \in Figures : bill.totals[f] = Column(bill.summary, DOMAIN bill.summary, f)
    /\ bill.roundOff \in -50..50
    /\ bill.grand * 100 - bill.roundOff
          = bill.totals.taxable + bill.totals.central + bill.totals.state + bill.totals.integrated
    /\ Says(bill.words, bill.grand)
    /\ Len(bill.lines) <= 11 =>
          InvoiceRoom(Len(bill.lines), Cardinality(DOMAIN bill.summary)) >= 0

\* A slip's or an estimate's total is the sum, unless that is negative, less
\* the discount and with the tax, to a paisa; the roll is long enough, and so
\* is the page for up to twenty items.
SlipIsWhole(op, opt, bill) ==
    LET items == Len(bill.lines)
        sums == 1 + (IF opt.discount > 0 THEN 1 ELSE 0) + (IF opt.tax > 0 THEN 1 ELSE 0)
        heads == IF opt.text = "typed" THEN 32 ELSE 0
    IN /\ bill.subtotal >= 0 =>
             bill.grand - (bill.subtotal - bill.discount + bill.tax) \in -1..1
       /\ op = "pos-billing" =>
             RollDrawn(items, opt.upi, heads, sums) <= RollLength(items, opt.upi)
       /\ op = "estimate-maker" /\ items <= 20 => EstimateRoom(items, sums, 3) >= 0

\* A bill that is done is whole (gst-invoice.ts:192-256, :831, and the heights
\* of pos-billing.ts:83-90 and estimate-maker.ts:86-337).
BillIsWhole ==
    (status = "done" /\ job.kind # "chain" /\ job.steps[1].op \in BillingOps) =>
        LET op == job.steps[1].op
            bill == buffers[1].pages[1].of
        IN CASE op = "gst-invoice-pdf" -> InvoiceIsWhole(bill)
             [] op = "tax-receipt" -> Says(bill.words, bill.grand \div 100)
             [] OTHER -> SlipIsWhole(op, job.steps[1].opt, bill)

\* What a reader sees of the pages of a result.
Seen(files) ==
    [i \in DOMAIN files |->
        [k \in DOMAIN files[i].pages |->
            LET page == files[i].pages[k]
            IN <<page.of, page.turn, page.cut, page.sheet, page.notes, page.marks>>]]

Compared == job.kind \in {"tool", "studio"} /\ status = "done" /\ \E here \in local : here.done
LocalFiles == (CHOOSE here \in local : TRUE).files

\* The forms whose fields the browser and the worker read alike: no turn by
\* hand, no empty choice of pages, one range with both its ends, the archive's
\* library loaded, bare page numbers at the bottom.  A bill's optional texts are typed, its quantities are of one
\* piece or more and its percentages between 0 and 100; an invoice has a rate of
\* tax on every item and nothing to round on a line.
Alike ==
    LET op == job.steps[1].op
        form == job.form
    IN CASE op = "rotate-pdf" ->
               /\ \A i \in DOMAIN form.clicks : form.clicks[i] = 0
               /\ form.which = "custom" => form.custom # <<>>
         [] op = "split-pdf" -> IF form.mode = "ranges"
                                THEN /\ Len(Filled(form.text)) = 1
                                     /\ form.text # <<>> /\ form.text[1].dash =>
                                          {form.text[1].from, form.text[1].to} \subseteq Nat \ {0}
                                ELSE form.zip
         [] op = "page-numbers-pdf" ->
               form.position = "bottom-center" /\ form.format = "bare"
         [] op \in BillingOps ->
               /\ form.inputs.filled
               /\ {form.inputs.discount, form.inputs.tax} \subseteq Percents
               /\ \A i \in DOMAIN form.rows : form.rows[i].qty >= One
               /\ op = "gst-invoice-pdf" =>
                    /\ \E i \in DOMAIN form.rows : form.rows[i].rate > 0
                    /\ \A i \in DOMAIN form.rows :
                        LET row == form.rows[i]
                        IN row.gst > 0 /\ (row.qty * row.rate * row.gst) % 400 = 0
                                       /\ (row.qty * row.rate) % 2 = 0
         [] OTHER -> op \in {"merge-pdf", "extract-pages", "compress-pdf", "jpg-to-pdf",
                             "watermark-pdf"}

\* A tool run in the browser and the same form sent to the worker give the
\* same pages in the same files, and a bill is issued as it was previewed, for
\* the tools and forms of Alike (local-engine.js and the studios against the
\* processors by way of the options they send).
SameToolSamePages == Compared /\ Alike => Seen(LocalFiles) = Seen(buffers)

\* The same of every tool and form; rules.md:181 has the page "transparently
\* route to the Cloud Worker pipeline" what the browser cannot do.
FallbackIsTransparent == Compared => Seen(LocalFiles) = Seen(buffers)

\* What a step was told to strip is gone from the result; strip-metadata.ts:5-9
\* lists the dates and the document ID under "What gets stripped".
StrippedIsGone ==
    status = "done" =>
        \A k \in DOMAIN kept : KeptSteps[k].op = "strip-metadata-pdf" =>
            buffers[1].traces \intersect KeptSteps[k].opt.strip = {}

\* A signature field outlives a flattening that was told to leave signatures
\* alone; flatten-pdf.ts:121: "Keep signature widgets if flattenSignatures=false".
SignaturesAreKept ==
    (status = "done" /\ job.kind = "chain") =>
        ((\A k \in DOMAIN kept : KeptSteps[k].op = "flatten-pdf" => ~KeptSteps[k].opt.signatures)
            => \A i \in DOMAIN Source : \A note \in Source[i].notes :
                note.kind = "signature" =>
                    \E k \in DOMAIN buffers[1].pages : note \in buffers[1].pages[k].notes)
=============================================================================
