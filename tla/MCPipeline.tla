----------------------------- MODULE MCPipeline -----------------------------
(* Small instances of Pipeline and Studio: files of one and two pages,     *)
(* chains of one and two steps out of every operation, every tool the      *)
(* browser knows with the forms that tell its fields apart, and the four   *)
(* studios from the rows they open with.                                   *)
EXTENDS Studio

CONSTANTS ChainFiles, ChainSteps, ToolJobs, Lenient

Comment == [kind |-> "comment", spot |-> "box"]
Signature == [kind |-> "signature", spot |-> "foot"]
Field == [kind |-> "field", spot |-> "foot"]

two == NewFile(<<Page("a"), Page("b")>>)
one == [NewFile(<<[Page("c") EXCEPT !.notes = {Comment, Signature}]>>) EXCEPT
            !.traces = {"author", "dates", "xmp", "id"}, !.form = TRUE]
locked == [two EXCEPT !.password = "key"]
damaged == [two EXCEPT !.pages[2].sound = FALSE]
fields == [two EXCEPT !.pages[1].notes = {Field, Comment}, !.form = TRUE]
Picture(kind, id) == [NewFile(<<Page(id)>>) EXCEPT !.kind = kind]

Num(n) == [from |-> n, to |-> NoNumber, dash |-> FALSE]
Dash(from, to) == [from |-> from, to |-> to, dash |-> TRUE]

Step1(op, opt) == [op |-> op, opt |-> opt]
On(pages) == [which |-> "listed", listed |-> pages, text |-> "draft", opacity |-> 30]
A4 == [pageSize |-> "A4", orientation |-> "as it is"]
StepsDef ==
    {Step1("merge-pdf", [none |-> TRUE]),
     Step1("split-pdf", [mode |-> "all-pages", ranges |-> <<>>]),
     Step1("split-pdf", [mode |-> "ranges", ranges |-> <<<<Num(3)>>>>]),
     Step1("image-to-pdf", A4),
     Step1("rotate-pdf", [which |-> "odd", listed |-> <<>>, rotation |-> 90]),
     Step1("rotate-pdf", [which |-> "listed", listed |-> <<2, 1>>, rotation |-> 270]),
     Step1("rotate-pdf", [which |-> "even", listed |-> <<>>, rotation |-> 45]),
     Step1("compress-pdf", [level |-> "extreme"]),
     Step1("watermark-pdf", On(<<2>>)),
     Step1("watermark-pdf", [On(<<>>) EXCEPT !.which = "even"]),
     Step1("watermark-pdf", [On(<<>>) EXCEPT !.which = "all", !.text = NoText]),
     Step1("page-numbers-pdf", [startAt |-> 5, position |-> "top-left", format |-> "of total"]),
     Step1("protect-pdf", [userPassword |-> "key"]),
     Step1("unlock-pdf", [password |-> "key"]),
     Step1("repair-pdf", [none |-> TRUE]),
     Step1("strip-metadata-pdf", [strip |-> {"author", "dates"}]),
     Step1("flatten-pdf", [forms |-> TRUE, annotations |-> TRUE, signatures |-> FALSE]),
     Step1("flatten-pdf", [forms |-> FALSE, annotations |-> FALSE, signatures |-> TRUE]),
     Step1("redact-pdf", [boxes |-> <<[page |-> 2, spot |-> "box"]>>, sanitize |-> TRUE]),
     Step1("redact-pdf", [boxes |-> <<[page |-> 1, spot |-> "box"]>>, sanitize |-> FALSE]),
     Step1("extract-pages", [pages |-> <<2>>, combine |-> TRUE])}

FilesDef == {<<two, one>>, <<locked>>, <<damaged>>, <<Picture("png", "p"), Picture("jpeg", "q")>>}
FewFiles == {<<two, one>>}
FewSteps == {step \in StepsDef : step.op \in {"merge-pdf", "flatten-pdf"}}

NoForm == [none |-> TRUE]
Chain(files, steps, lenient) ==
    [kind |-> "chain", files |-> files, steps |-> steps, lenient |-> lenient, form |-> NoForm]
ToolJob(op, files, form) ==
    [kind |-> "tool", files |-> files, lenient |-> FALSE, form |-> form,
     steps |-> <<Step1(op, CollectOptions(op, form))>>]
ApiJob(op, files, opt) ==
    [kind |-> "api", files |-> files, lenient |-> FALSE, form |-> NoForm,
     steps |-> <<Step1(op, opt)>>]

\* The texts people write into a range field.
Texts == {<<>>, <<Num(1)>>, <<Num(2), Num(1)>>, <<Dash(1, 2)>>, <<Dash(2, NoNumber)>>,
          <<Dash(NoNumber, 1)>>, <<Num(2), Dash(1, 1)>>, <<Num(7)>>}
Staged == {<<two>>, <<one>>, <<locked>>, <<damaged>>, <<fields>>}

ToolsDef ==
         {ToolJob("merge-pdf", files, NoForm) : files \in {<<two, one>>, <<one>>, <<two, locked>>}}
    \cup {ToolJob("rotate-pdf", <<two>>,
                  [angle |-> angle, which |-> which, custom |-> text, clicks |-> clicks]) :
             angle \in {90, 270}, which \in {"all", "odd", "even", "custom"},
             text \in {<<>>, <<Num(2)>>}, clicks \in {<<0, 0>>, <<180, 0>>}}
    \cup {ToolJob("delete-pdf-pages", <<two>>, [text |-> text]) : text \in Texts}
    \cup {ToolJob("extract-pages", files, [text |-> text]) : files \in Staged, text \in Texts}
    \cup {ToolJob("split-pdf", files, [mode |-> mode, text |-> text, zip |-> zip]) :
             files \in Staged, mode \in {"all-pages", "ranges"}, text \in Texts, zip \in BOOLEAN}
    \cup {ToolJob("jpg-to-pdf", <<Picture("png", "p"), Picture(kind, "q")>>,
                  [pageSize |-> size, orientation |-> way]) :
             kind \in {"jpeg", "webp"}, size \in {"A4", "FIT_IMAGE"}, way \in {"auto", "landscape"}}
    \cup {ToolJob("watermark-pdf", files, [text |-> text, opacity |-> opacity]) :
             files \in Staged, text \in {"", "draft"}, opacity \in {30, 80}}
    \cup {ToolJob("page-numbers-pdf", files, [position |-> position, format |-> format]) :
             files \in Staged, position \in {"bottom-center", "top-right"},
             format \in {"of total", "bare"}}
    \cup {ToolJob("compress-pdf", files, [level |-> "low"]) : files \in Staged}
    \cup {ToolJob("crop-pdf", files, [which |-> which, custom |-> <<Dash(2, 1)>>, cut |-> 1]) :
             files \in Staged, which \in {"all", "custom"}}
    \cup {ToolJob(op, files, NoForm) : files \in Staged,
             op \in {"strip-metadata-pdf", "flatten-pdf", "repair-pdf", "redact-pdf"}}

\* What only an API client asks for.
ApiJobs ==
    {ApiJob("compare-pdf", <<two, one>>, [mode |-> mode]) : mode \in {"visual-diff", "side-by-side"}}
    \cup {ApiJob("compare-pdf", <<two>>, [mode |-> "visual-diff"]),
          ApiJob("reorder-pdf", <<two>>, [ordered |-> TRUE, pageOrder |-> <<2, 9, 1, 2>>]),
          ApiJob("extract-pages", <<two>>, [pages |-> <<2, 1>>, combine |-> FALSE]),
          ApiJob("crop-pdf", <<two>>, [which |-> "text", listed |-> <<>>, cut |-> 1,
                                       text |-> <<Dash(2, 1), Num(7)>>])}

Item(hsn, qty, rate, gst, off) ==
    [hsn |-> hsn, qty |-> qty, rate |-> rate, gst |-> gst, off |-> off]
Goods(items, taxType) ==
    [parties |-> TRUE, taxType |-> taxType, sameState |-> TRUE, text |-> "worker",
     items |-> items]
Sold(items, discount, tax) ==
    [items |-> items, discount |-> discount, tax |-> tax, upi |-> FALSE, text |-> "worker",
     currency |-> "dollar"]
ManyCodes == [i \in 1..11 |-> Item(<<"code", i>>, One, 3333, 5 * i, 0)]

\* Bills an API client may ask for: no items, quantities and percentages out
\* of range, a full page, and amounts for the words.
BillJobs ==
         {ApiJob("gst-invoice-pdf", <<>>, Goods(items, taxType)) :
             items \in {<<>>, ManyCodes, <<Item("9983", 0, -5, 18, 0), Item("9983", 3, 333, 5, 33)>>},
             taxType \in {"auto", "inter"}}
    \cup {ApiJob("gst-invoice-pdf", <<>>, [Goods(<<>>, "intra") EXCEPT !.parties = FALSE])}
    \cup {ApiJob(op, <<>>, Sold(items, discount, 18)) :
             op \in {"pos-billing", "estimate-maker"}, discount \in {-5, 0, 15, 150},
             items \in {<<>>, <<[qty |-> 1, rate |-> 99]>>, [i \in 1..20 |-> [qty |-> One, rate |-> 77]]}}
    \cup {ApiJob("tax-receipt", <<>>, [amount |-> amount, text |-> "worker"]) :
             amount \in {0, -7, 99, 1999, 101100, 1234567890, 2147483647}}

AllTools == ToolsDef \cup ApiJobs \cup BillJobs

\* What may be typed into the inputs of each studio.
TypedDef ==
    [op \in BillingOps |->
        LET first == FirstInputs(op)
        IN CASE op = "gst-invoice-pdf" ->
                  {[first EXCEPT !.taxType = type, !.sameState = same] :
                      type \in {"auto", "inter", "intra"}, same \in BOOLEAN}
                  \cup {[first EXCEPT !.filled = FALSE]}
             [] op = "pos-billing" ->
                  {[first EXCEPT !.discount = d, !.tax = t, !.upi = upi] :
                      d \in {0, 10, 120}, t \in {0, 5}, upi \in BOOLEAN}
                  \cup {[first EXCEPT !.filled = FALSE]}
             [] op = "estimate-maker" ->
                  {[first EXCEPT !.discount = d, !.currency = sign] :
                      d \in {0, 10}, sign \in {"dollar", "rupee sign"}}
                  \cup {[first EXCEPT !.filled = FALSE]}
             [] op = "tax-receipt" ->
                  {[first EXCEPT !.amount = n, !.filled = typed] :
                      n \in {0, 50, 100, 111150, 1234500000}, typed \in BOOLEAN}]
NoTools == {}

JobsDef ==
         {Chain(files, <<step>>, lenient) :
             files \in ChainFiles, step \in ChainSteps, lenient \in Lenient}
    \cup {Chain(files, <<first, second>>, lenient) :
             files \in ChainFiles, first \in ChainSteps, second \in ChainSteps,
             lenient \in Lenient}
    \cup ToolJobs
=============================================================================
