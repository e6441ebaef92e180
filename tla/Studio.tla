------------------------------- MODULE Studio -------------------------------
(***************************************************************************)
(* A billing studio of the page in front of the worker's job: the rows and *)
(* inputs a user edits under a live preview, the options taken from them   *)
(* when the bill is asked for, the request that may be refused, and the    *)
(* studio shown again with its rows as they were left.                     *)
(*                                                                         *)
(* The studios share their handlers but for the names and the fields.  A   *)
(* studio is a job that is still a draft: its form holds the rows          *)
(* (gstItems, posItems, estimateItems), the next row's number and the      *)
(* inputs.  The preview is drawn again on every edit, so it is a function  *)
(* of the form; `local` keeps what it showed when the bill was asked for.  *)
(***************************************************************************)
EXTENDS Pipeline

CONSTANTS
    Open,        \* the studios that may be open
    Quantities,  \* in halves of a piece
    Rates,       \* in paise
    Codes,       \* HSN codes
    TaxRates,    \* the percentages the GST studio offers
    Typed,       \* [op -> the inputs that may be typed into its studio]
    MaxEdits     \* bound on the edits of a studio

ASSUME StudioAssumption ==
    /\ Open \subseteq BillingOps
    /\ Quantities \subseteq Nat /\ Rates \subseteq Nat /\ TaxRates \subseteq Nat
    /\ \A op \in Open : \A inputs \in Typed[op] :
          {inputs.discount, inputs.tax, inputs.amount} \subseteq Int /\ inputs.upi \in BOOLEAN
    /\ MaxEdits \in Nat

\* The rows a studio opens with, their rates in paise where the source has
\* rupees, so that TLC's integers hold the sums.
Row(id, hsn, pieces, rate) ==
    [id |-> id, hsn |-> hsn, qty |-> One * pieces, rate |-> rate, gst |-> 18]
FirstRows(op) ==
    CASE op = "gst-invoice-pdf" -> <<Row(1, "998313", 1, 45000), Row(2, "998314", 2, 12500)>>
      [] op = "pos-billing" -> <<Row(1, "none", 2, 120), Row(2, "none", 1, 180),
                                 Row(3, "none", 1, 40)>>
      [] op = "estimate-maker" -> <<Row(1, "none", 1, 3500), Row(2, "none", 1, 6500),
                                    Row(3, "none", 1, 2500)>>
      [] op = "tax-receipt" -> <<>>
NewRow(op, id) ==
    CASE op = "gst-invoice-pdf" -> Row(id, "9983", 1, 1000)
      [] op = "pos-billing" -> Row(id, "none", 1, 50)
      [] op = "estimate-maker" -> Row(id, "none", 1, 1000)
FirstInputs(op) ==
    [filled |-> TRUE, taxType |-> "auto", sameState |-> TRUE, discount |-> 0,
     tax |-> IF op = "pos-billing" THEN 5 ELSE 0,
     upi |-> TRUE, currency |-> "dollar", amount |-> 1000000]
NoOptions == [none |-> TRUE]

Opened(op) ==
    [kind |-> "studio", files |-> <<>>, lenient |-> FALSE,
     steps |-> <<[op |-> op, opt |-> NoOptions]>>,
     form |-> [rows |-> FirstRows(op), nextId |-> Len(FirstRows(op)) + 1,
               inputs |-> FirstInputs(op), edits |-> 0]]

StudioInit ==
    /\ \E op \in Open : job = Opened(op)
    /\ status = "draft"
    /\ local = {} /\ at = 1 /\ reported = 0 /\ buffers = <<>>
    /\ progress = 0 /\ cancelled = FALSE /\ kept = <<>>

Op == job.steps[1].op
Drafting == job.kind = "studio" /\ status = "draft"
Edited(rows, nextId, inputs) ==
    /\ Drafting /\ job.form.edits < MaxEdits
    /\ job' = [job EXCEPT !.form = [rows |-> rows, nextId |-> nextId, inputs |-> inputs,
                                    edits |-> job.form.edits + 1]]
    /\ UNCHANGED <<local, status, at, reported, buffers, progress, cancelled, kept>>

AddItem ==
    LET form == job.form
    IN /\ Drafting /\ Op # "tax-receipt"
       /\ Edited(Append(form.rows, NewRow(Op, form.nextId)), form.nextId + 1, form.inputs)

\* The last row stays.
DeleteItem ==
    /\ Drafting /\ Len(job.form.rows) > 1
    /\ \E i \in DOMAIN job.form.rows :
        Edited(Those(job.form.rows, {k \in DOMAIN job.form.rows :
                                         job.form.rows[k].id # job.form.rows[i].id}),
               job.form.nextId, job.form.inputs)

\* The values a field of a row may be given; only an invoice has codes and
\* rates of tax.
Values(field) ==
    CASE field = "qty" -> Quantities
      [] field = "rate" -> Rates
      [] field = "hsn" -> IF Op = "gst-invoice-pdf" THEN Codes ELSE {}
      [] field = "gst" -> IF Op = "gst-invoice-pdf" THEN TaxRates ELSE {}

ChangeItem ==
    /\ Drafting
    /\ \E i \in DOMAIN job.form.rows, field \in {"qty", "rate", "hsn", "gst"} :
        \E value \in Values(field) :
            Edited([job.form.rows EXCEPT ![i][field] = value],
                   job.form.nextId, job.form.inputs)

ChangeInputs ==
    /\ Drafting
    /\ \E inputs \in Typed[Op] : Edited(job.form.rows, job.form.nextId, inputs)

Preview(op, rows, inputs) ==
    CASE op = "gst-invoice-pdf" -> GstPreview(rows, inputs)
      [] op = "pos-billing" -> SlipPreview(rows, inputs)
      [] op = "estimate-maker" -> EstimatePreview(rows, inputs)
      [] op = "tax-receipt" -> ReceiptPreview(inputs)

OptionsOf(op, rows, inputs) ==
    CASE op = "gst-invoice-pdf" -> GstOptions(rows, inputs)
      [] op = "pos-billing" -> SlipOptions(rows, inputs)
      [] op = "estimate-maker" -> EstimateOptions(rows, inputs)
      [] op = "tax-receipt" -> ReceiptOptions(inputs)

\* The options are taken, the studio is hidden and the request is sent.
Generate ==
    /\ Drafting
    /\ local' = {Issues(Preview(Op, job.form.rows, job.form.inputs))}
    /\ job' = [job EXCEPT !.steps[1].opt = OptionsOf(Op, job.form.rows, job.form.inputs)]
    /\ status' = "posting"
    /\ UNCHANGED <<at, reported, buffers, progress, cancelled, kept>>

Posted ==
    /\ status = "posting"
    /\ status' = "queued"
    /\ UNCHANGED <<job, local, at, reported, buffers, progress, cancelled, kept>>

\* The studio again, with its rows and inputs as they are.
Shown ==
    /\ job' = [job EXCEPT !.steps[1].opt = NoOptions]
    /\ status' = "draft"
    /\ local' = {} /\ at' = 1 /\ reported' = 0 /\ buffers' = <<>>
    /\ progress' = 0 /\ cancelled' = FALSE /\ kept' = <<>>

\* The request fails, or the server refuses the job.
Refused == status = "posting" /\ Shown

\* resetWorkspace: after the worker's error, or for another bill.
Reset == job.kind = "studio" /\ status \in {"done", "failed"} /\ Shown

StudioNext ==
    \/ Next
    \/ AddItem \/ DeleteItem \/ ChangeItem \/ ChangeInputs
    \/ Generate \/ Posted \/ Refused \/ Reset

StudioSpec == (Init \/ StudioInit) /\ [][StudioNext]_vars
=============================================================================
