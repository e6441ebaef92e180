------------------------------ MODULE Billing ------------------------------
(***************************************************************************)
(* The bills of the four billing studios: what a studio previews in the    *)
(* page (public/modules/*-studio.js), the options it sends, and what the   *)
(* worker draws from them (processors/gst-invoice.ts, pos-billing.ts,      *)
(* estimate-maker.ts, tax-receipt.ts).                                     *)
(*                                                                         *)
(* Amounts are exact: a quantity is counted in halves, a rate in paise,    *)
(* and an amount that is not rounded yet in a fraction of a paisa (a grain *)
(* of 1/400 in the GST preview, 1/20000 on a slip); what is printed is     *)
(* rounded to paise.  Binary fractions are left out, and so are names,     *)
(* dates and addresses: `text` says who filled in the optional ones.       *)
(***************************************************************************)
EXTENDS Integers, Sequences, SequencesExt

\* Math.round(a / b), for b = 1 or even.
Rounded(a, b) == (a + b \div 2) \div b

\* x || default, and Math.max(low, x).
Or(x, default) == IF x = 0 THEN default ELSE x
AtLeast(low, x) == IF x < low THEN low ELSE x
Percent(x) == IF x > 100 THEN 100 ELSE AtLeast(0, x)

\* The sum of a field over some of the lines.
Column(lines, places, field) == MapThenSumSet(LAMBDA i : lines[i][field], places)

\* One piece, in halves.
One == 2

(***************************************************************************)
(* Amounts in words.                                                       *)
(***************************************************************************)
Hundred == 100
Thousand == 1000
Lakh == 100000
Crore == 10000000

\* Defect: eleven to nineteen are read off the tens.
ChunkOfTens(n) ==
    LET rest == n % 100
    IN (IF n >= 100 THEN <<n \div 100, Hundred>> ELSE <<>>)
       \o (IF rest >= 10 THEN <<rest - (rest % 10)>> ELSE <<>>)
       \o (IF rest % 10 > 0 THEN <<rest \div 10>> ELSE <<>>)

\* convertChunk: the words of a number below a thousand, each the number it
\* stands for.
Chunk(n) ==
    LET rest == n % 100
        ones == IF rest >= 20 THEN rest % 10 ELSE rest
    IN (IF n >= 100 THEN <<n \div 100, Hundred>> ELSE <<>>)
       \o (IF rest >= 20 THEN <<rest - ones>> ELSE <<>>)
       \o (IF ones > 0 THEN <<ones>> ELSE <<>>)

\* The words of an amount in rupees, the Indian way; the paise of a donation
\* are not among them.
NumberToWords(rupees) ==
    LET Part(n, scale) == IF n > 0 THEN Chunk(n) \o scale ELSE <<>>
    IN IF rupees = 0 THEN <<0>>
       ELSE Part(rupees \div Crore, <<Crore>>)
            \o Part((rupees % Crore) \div Lakh, <<Lakh>>)
            \o Part((rupees % Lakh) \div Thousand, <<Thousand>>)
            \o Part(rupees % Thousand, <<>>)

\* There are words for less than two thousand crore: beyond, the hundreds of
\* crore have no name.
Sayable(rupees) == rupees \div Crore \in 0..1999

\* The amount the words say, one word after the other.
Heard(read, word) ==
    IF word \in {Thousand, Lakh, Crore}
    THEN [sum |-> read.sum + read.chunk * word, chunk |-> 0]
    ELSE [sum |-> read.sum, chunk |-> IF word = Hundred THEN read.chunk * Hundred
                                      ELSE read.chunk + word]
SaidBy(words) ==
    LET said[k \in 0..Len(words)] ==
            IF k = 0 THEN [sum |-> 0, chunk |-> 0] ELSE Heard(said[k - 1], words[k])
    IN said[Len(words)].sum + said[Len(words)].chunk

(***************************************************************************)
(* GST tax invoices.                                                       *)
(***************************************************************************)
Figures == {"taxable", "central", "state", "integrated"}

InterState(taxType, sameState) ==
    taxType = "inter" \/ (taxType # "intra" /\ ~sameState)

\* The table, the summary by HSN code and rate, and the totals of an invoice
\* whose figures are counted in 1/grain of a paisa.
Invoice(lines, grain, text, pays) ==
    LET all == DOMAIN lines
        Printed(places) == [f \in Figures |-> Rounded(Column(lines, places, f), grain)]
        Key(i) == <<lines[i].hsn, lines[i].gst>>
        raw == Column(lines, all, "taxable") + Column(lines, all, "central")
               + Column(lines, all, "state") + Column(lines, all, "integrated")
        grand == Rounded(raw, 100 * grain)
    IN [lines |-> [i \in all |-> [f \in {"qty", "rate", "gst"} |-> lines[i][f]] @@ Printed({i})],
        summary |-> [key \in {Key(i) : i \in all} |-> Printed({i \in all : Key(i) = key})],
        totals |-> Printed(all),
        grand |-> grand,
        roundOff |-> Rounded(grand * 100 * grain - raw, grain),
        words |-> NumberToWords(grand),
        text |-> text,
        paid |-> IF pays THEN {grand} ELSE {}]

\* The preview adds up what it has not rounded.
GstPreview(rows, inputs) ==
    LET inter == InterState(inputs.taxType, inputs.sameState)
        Line(row) ==
            LET half == row.qty * row.rate * row.gst
            IN [hsn |-> row.hsn, gst |-> row.gst, qty |-> row.qty, rate |-> row.rate,
                taxable |-> 200 * row.qty * row.rate,
                central |-> IF inter THEN 0 ELSE half,
                state |-> IF inter THEN 0 ELSE half,
                integrated |-> IF inter THEN 2 * half ELSE 0]
        lines == [i \in DOMAIN rows |-> Line(rows[i])]
        text == IF inputs.filled THEN "typed" ELSE "preview"
        bill == Invoice(lines, 400, text, TRUE)
    IN [bill EXCEPT !.paid = IF bill.grand > 0 THEN @ ELSE {}]

\* What is sent: an empty or zero quantity or tax rate is one piece at 18 %.
GstOptions(rows, inputs) ==
    [parties |-> TRUE, taxType |-> inputs.taxType, sameState |-> inputs.sameState,
     text |-> IF inputs.filled THEN "typed" ELSE "worker",
     items |-> [i \in DOMAIN rows |->
        [hsn |-> rows[i].hsn, qty |-> Or(rows[i].qty, One), rate |-> rows[i].rate,
         gst |-> Or(rows[i].gst, 18), off |-> 0]]]

\* The worker rounds each figure of each item.
GstInvoice(opt) ==
    LET inter == InterState(opt.taxType, opt.sameState)
        Line(item) ==
            LET qty == AtLeast(One, item.qty)
                rate == AtLeast(0, item.rate)
                taxable == Rounded(qty * rate * (100 - Percent(item.off)), 200)
                half == Rounded(taxable * item.gst, 200)
            IN [hsn |-> item.hsn, gst |-> item.gst, qty |-> qty, rate |-> rate,
                taxable |-> taxable,
                central |-> IF inter THEN 0 ELSE half,
                state |-> IF inter THEN 0 ELSE half,
                integrated |-> IF inter THEN Rounded(taxable * item.gst, 100) ELSE 0]
    IN Invoice([i \in DOMAIN opt.items |-> Line(opt.items[i])], 1, opt.text, TRUE)

(***************************************************************************)
(* Counter slips and estimates: a discount on the sum, then a tax.         *)
(***************************************************************************)
\* What some lines come to.
Amounts(lines) == MapThenSumSet(LAMBDA i : lines[i].qty * lines[i].rate, DOMAIN lines)

\* The figures under a list of lines, in paise; after the discount nothing
\* goes below zero.
Slip(lines, discount, tax, text, pays) ==
    LET sum == Amounts(lines)
        left == AtLeast(0, sum * (100 - discount))
        grand == Rounded(left * (100 + tax), 20000)
    IN [lines |-> [i \in DOMAIN lines |->
                      [qty |-> lines[i].qty, rate |-> lines[i].rate,
                       amount |-> Rounded(lines[i].qty * lines[i].rate, 2)]],
        pieces |-> Column(lines, DOMAIN lines, "qty"),
        subtotal |-> Rounded(sum, 2),
        discount |-> Rounded(sum * discount, 200),
        tax |-> Rounded(left * tax, 20000),
        grand |-> grand,
        text |-> text,
        paid |-> IF pays THEN {grand} ELSE {}]

Lines(rows, Qty(_), Rate(_)) ==
    [i \in DOMAIN rows |-> [qty |-> Qty(rows[i].qty), rate |-> Rate(rows[i].rate)]]
AsTyped(x) == x
Pieces(qty) == Or(qty, One)
AtLeastOne(qty) == AtLeast(One, Or(qty, One))
NotNegative(rate) == AtLeast(0, rate)

\* The previews take the two percentages as they are typed.
SlipPreview(rows, inputs) ==
    Slip(Lines(rows, Pieces, AsTyped), inputs.discount, inputs.tax,
         IF inputs.filled THEN "typed" ELSE "preview", inputs.upi)

\* Defect: the percentage is sent under another name.
SlipOptionsLost(rows, inputs) ==
    [items |-> Lines(rows, Pieces, AsTyped), discount |-> 0, tax |-> inputs.tax,
     upi |-> inputs.upi, text |-> IF inputs.filled THEN "typed" ELSE "worker",
     currency |-> inputs.currency]

SlipOptions(rows, inputs) ==
    [items |-> Lines(rows, Pieces, AsTyped), discount |-> inputs.discount,
     tax |-> inputs.tax, upi |-> inputs.upi,
     text |-> IF inputs.filled THEN "typed" ELSE "worker", currency |-> inputs.currency]

\* An estimate has no code to scan.
EstimatePreview(rows, inputs) == SlipPreview(rows, [inputs EXCEPT !.upi = FALSE])
EstimateOptions(rows, inputs) == SlipOptions(rows, inputs)

\* A slip without items bills one standard item.
PosSlip(opt) ==
    LET items == IF opt.items = <<>> THEN <<[qty |-> One, rate |-> 100]>> ELSE opt.items
    IN Slip(Lines(items, AtLeastOne, NotNegative), Percent(opt.discount), Percent(opt.tax),
            opt.text, opt.upi)

\* An estimate prints quantities from one up and sums them as they are; a
\* currency sign the standard fonts have no glyph for is an error.
Estimate(opt) ==
    LET items == IF opt.items = <<>>
                 THEN <<[qty |-> One, rate |-> 3500], [qty |-> One, rate |-> 6500],
                        [qty |-> One, rate |-> 2500]>>
                 ELSE opt.items
        bill == Slip(Lines(items, Pieces, AsTyped), Percent(opt.discount),
                     Percent(opt.tax), opt.text, FALSE)
        printed == Slip(Lines(items, AtLeastOne, NotNegative), 0, 0, opt.text, FALSE)
    IN [bill EXCEPT !.lines = printed.lines]

Encodable(opt) == opt.currency # "rupee sign"

(***************************************************************************)
(* Donation receipts.                                                      *)
(***************************************************************************)
Donated(amount) == AtLeast(100, Or(amount, 1000000))

Receipt(amount, text) ==
    [grand |-> amount, words |-> NumberToWords(amount \div 100), text |-> text]

ReceiptPreview(inputs) ==
    Receipt(Donated(inputs.amount), IF inputs.filled THEN "typed" ELSE "preview")
ReceiptOptions(inputs) ==
    [amount |-> Donated(inputs.amount),
     text |-> IF inputs.filled THEN "typed" ELSE "worker"]
TaxReceipt(opt) == Receipt(Donated(opt.amount), opt.text)

(***************************************************************************)
(* Room on the paper, in points, parts of a point rounded against it.  An  *)
(* invoice and an estimate are one page; the roll is cut to length before  *)
(* anything is drawn.                                                      *)
(***************************************************************************)
\* Defect: the code to scan is not in the length.
RollWithoutCode(items, upi) == AtLeast(350, 120 + 24 * items + 90 + 20 + 60)

RollLength(items, upi) ==
    AtLeast(350, 120 + 24 * items + 90 + (IF upi THEN 110 ELSE 20) + 60)

\* The shop's head with its optional lines and the order; the table, the sums,
\* the bar of the grand total, the payment and the code; the foot.
RollHead(heads) == 112 + heads
RollBody(items, upi, sums) ==
    14 * items + 12 + 12 * sums + 40 + 12 + (IF upi THEN 90 ELSE 0)
RollDrawn(items, upi, heads, sums) == RollHead(heads) + RollBody(items, upi, sums) + 32

\* The bars of the title, the seller, the numbers, the parties and the table;
\* a row for each item and the totals; the summary by code with its own total;
\* the words, the bank and the declaration.
InvoiceHead == 32 + 56 + 44 + 62 + 18
InvoiceTable(items) == 20 * items + 16
InvoiceSummary(codes) == 14 + 13 * codes + 13
InvoiceFoot == 32 + 78 + 45
InvoiceRoom(items, codes) ==
    793 - InvoiceHead - InvoiceTable(items) - InvoiceSummary(codes) - InvoiceFoot

\* The business, the client and the project; a row for each item; the sums and
\* the box of the total, the terms, two lines to sign on and the foot.
EstimateHead == 48 + 50 + 18 + 64 + 20
EstimateTable(items) == 20 * items + 16
EstimateFoot(sums, terms) == 14 * sums + 54 + 12 + 11 * terms + 24 + 22 + 30
EstimateRoom(items, sums, terms) ==
    841 - EstimateHead - EstimateTable(items) - EstimateFoot(sums, terms)
=============================================================================
