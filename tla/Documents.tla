----------------------------- MODULE Documents ------------------------------
(***************************************************************************)
(* What the document operations do to the pages of a file: the processors  *)
(* of packages/workers/src/processors and, for the tools that also run in  *)
(* the browser, apps/web/public/modules/local-engine.js.                   *)
(*                                                                         *)
(* A file is its pages in order and what it says about itself; a page is   *)
(* what it shows (of), how it is turned, what was drawn on it (marks, each *)
(* with what the options chose of it), how often it was cropped (cut), the *)
(* size and orientation a picture was laid on (sheet), its annotations     *)
(* (notes) and whether it can be copied (sound).  Measures, fonts, colours *)
(* and the wording that no option chooses are left out.                    *)
(*                                                                         *)
(* The libraries are external, and this is assumed of them.  pdf-lib: load *)
(* refuses an encrypted file unless it is told to ignore the encryption,   *)
(* copyPages refuses a damaged page, a new document says nothing about the *)
(* author of the old one, and what is drawn on a page of a file read past  *)
(* its encryption is in the file that is saved.  The @pdfsmaller package:  *)
(* encryptPDF throws at a file that is encrypted already, decryptPDF at a  *)
(* wrong password and at a file that is not encrypted.                     *)
(***************************************************************************)
EXTENDS Billing, FiniteSets

\* A number parseInt does not find (NaN), and the password of a plain file.
NoNumber == -1
NoPassword == "none"

(***************************************************************************)
(* Files and outcomes.                                                     *)
(***************************************************************************)
Page(id) == [of |-> id, turn |-> 0, marks |-> <<>>, cut |-> 0, sheet |-> <<>>,
             notes |-> {}, sound |-> TRUE]

\* PDFDocument.create() and the pages added to it.
NewFile(pages) == [kind |-> "pdf", pages |-> pages, password |-> NoPassword,
                   traces |-> {}, form |-> FALSE]

\* process() returns its output files or throws.
Gives(files) == [done |-> TRUE, files |-> files]
Throws == [done |-> FALSE, files |-> <<>>]

\* validatePdfSafety: the header says PDF (the size of a bomb is left out).
Safe(file) == file.kind = "pdf"

\* PDFDocument.load as most operations call it.
Opens(file) == Safe(file) /\ file.password = NoPassword

Copied(file, picked) == NewFile([k \in DOMAIN picked |-> file.pages[picked[k]]])
Copies(file, picked) == \A k \in DOMAIN picked : file.pages[picked[k]].sound

\* The entries of a sequence at some of its places, in their order; and those
\* of the pages 1..total that are chosen.
Those(s, places) ==
    LET those[i \in 0..Len(s)] ==
            IF i = 0 THEN <<>>
            ELSE IF i \in places THEN Append(those[i - 1], s[i]) ELSE those[i - 1]
    IN those[Len(s)]
Chosen(total, places) == Those([p \in 1..total |-> p], places)

Total(file) == Len(file.pages)
AllPages(file) == [i \in 1..Total(file) |-> i]

\* The file with F of every page, and with F of the targeted pages.
Redrawn(file, F(_, _), targets) ==
    [file EXCEPT !.pages = [i \in 1..Total(file) |->
        IF i \in targets THEN F(i, @[i]) ELSE @[i]]]

Marked(page, kind, drawn) ==
    [page EXCEPT !.marks = Append(@, [kind |-> kind, drawn |-> drawn])]

(***************************************************************************)
(* A range field: the text is the sequence of its parts, each a number or  *)
(* two with a dash between, NoNumber where a number is missing.            *)
(***************************************************************************)
OrElse(number, default) == IF number \in {0, NoNumber} THEN default ELSE number

\* parsePageRanges: the pages the parts name, in order and each once.
ParsePageRanges(text, total) ==
    LET Names(part) == IF part.dash
                       THEN OrElse(part.from, 1)..OrElse(part.to, total)
                       ELSE {part.from}
    IN Chosen(total, UNION {Names(text[i]) : i \in DOMAIN text})

\* Defect: the end of a range is left out.
SplitRangeShort(text, total) ==
    LET to == text[1].to
        from == text[1].from
    IN IF ~text[1].dash THEN IF from \in 1..total THEN <<from>> ELSE <<>>
       ELSE Chosen(total, from..(to - 1))

\* The worker reads a range as one text: the number it begins with and the
\* one after the first dash, or one page when there is no dash.
SplitRange(text, total) ==
    LET dashed == {i \in DOMAIN text : text[i].dash}
        to == text[CHOOSE i \in dashed : \A j \in dashed : i <= j].to
        from == text[1].from
    IN IF dashed = {} THEN IF from \in 1..total THEN <<from>> ELSE <<>>
       ELSE IF NoNumber \in {from, to} THEN <<>>
       ELSE Chosen(total, from..to)

\* Which pages an option means: all, odd, even or the listed ones.
Targets(which, listed, total) ==
    {p \in 1..total : \/ which = "all"
                      \/ which = "odd" /\ p % 2 = 1
                      \/ which = "even" /\ p % 2 = 0
                      \/ which = "listed" /\ \E k \in DOMAIN listed : listed[k] = p}

(***************************************************************************)
(* The processors that put pages together or take them apart.              *)
(***************************************************************************)
\* Defect: the loop stops one file early.
MergeButLast(files) ==
    IF \A i \in DOMAIN files : Opens(files[i]) /\ Copies(files[i], AllPages(files[i]))
    THEN Gives(<<NewFile(FlattenSeq([i \in 1..(Len(files) - 1) |-> files[i].pages]))>>)
    ELSE Throws

MergePdf(files) ==
    IF \A i \in DOMAIN files : Opens(files[i]) /\ Copies(files[i], AllPages(files[i]))
    THEN Gives(<<NewFile(FlattenSeq([i \in DOMAIN files |-> files[i].pages]))>>)
    ELSE Throws

SplitPdf(files, opt) ==
    LET file == files[1]
        every == opt.mode = "all-pages" \/ opt.ranges = <<>>
        ranges == [r \in DOMAIN opt.ranges |-> SplitRange(opt.ranges[r], Total(file))]
        wanted == IF every THEN [i \in 1..Total(file) |-> <<i>>]
                  ELSE Those(ranges, {r \in DOMAIN ranges : ranges[r] # <<>>})
    IN IF Opens(file) /\ \A w \in DOMAIN wanted : Copies(file, wanted[w])
       THEN Gives([w \in DOMAIN wanted |-> Copied(file, wanted[w])])
       ELSE Throws

\* extract-pages keeps the order of the request, repetitions included.
ExtractPages(files, opt) ==
    LET file == files[1]
        picked == SelectSeq(opt.pages, LAMBDA p : p \in 1..Total(file))
    IN IF ~Opens(file) \/ picked = <<>> \/ ~Copies(file, picked) THEN Throws
       ELSE IF opt.combine THEN Gives(<<Copied(file, picked)>>)
       ELSE Gives([k \in DOMAIN picked |-> Copied(file, <<picked[k]>>)])

\* reorder-pdf, and delete-pdf-pages, whose page sends no pageOrder: filter
\* of undefined throws.
ReorderDeletePages(files, opt) ==
    LET file == files[1]
        picked == SelectSeq(opt.pageOrder, LAMBDA p : p \in 1..Total(file))
    IN IF ~Opens(file) \/ ~opt.ordered \/ picked = <<>> \/ ~Copies(file, picked)
       THEN Throws
       ELSE Gives(<<Copied(file, picked)>>)

\* Each picture is laid on a sheet of its own.
Laid(files, opt) ==
    [i \in DOMAIN files |->
        [files[i].pages[1] EXCEPT !.sheet = <<opt.pageSize, opt.orientation>>]]

ImageToPdf(files, opt) ==
    IF \A i \in DOMAIN files : files[i].kind \in {"png", "jpeg"}
    THEN Gives(<<NewFile(Laid(files, opt))>>)
    ELSE Throws

\* Pages that cannot be copied are skipped.  An encrypted file is read as it
\* is, so its copied pages show nothing that can be read.
RepairPdf(files) ==
    LET file == files[1]
        found == Those(file.pages, {i \in 1..Total(file) : file.pages[i].sound})
        shown == IF file.password = NoPassword THEN found
                 ELSE [i \in DOMAIN found |-> [found[i] EXCEPT !.of = "scrambled"]]
    IN IF Safe(file) /\ found # <<>> THEN Gives(<<NewFile(shown)>>) ELSE Throws

\* Every page of the report is drawn anew; the overlay also shows the pages
\* of the modified file, each before its own difference page.
ComparePdf(files, opt) ==
    LET a == files[1]
        b == files[2]
        most == IF Total(a) > Total(b) THEN Total(a) ELSE Total(b)
        Shown(i) == IF opt.mode # "side-by-side" /\ i <= Total(b) /\ b.pages[i].sound
                    THEN <<b.pages[i], Page("difference")>>
                    ELSE <<Page("difference")>>
    IN IF Len(files) >= 2 /\ Safe(a) /\ Safe(b)
       THEN Gives(<<NewFile(FlattenSeq([i \in 1..most |-> Shown(i)]))>>)
       ELSE Throws

(***************************************************************************)
(* The processors that change pages where they are.                        *)
(***************************************************************************)
\* setRotation takes multiples of a quarter turn only.
RotatePdf(files, opt) ==
    LET file == files[1]
        targets == Targets(opt.which, opt.listed, Total(file))
        Turned(i, page) == [page EXCEPT !.turn = (@ + opt.rotation) % 360]
    IN IF Opens(file) /\ (targets = {} \/ opt.rotation % 90 = 0)
       THEN Gives(<<Redrawn(file, Turned, targets)>>)
       ELSE Throws

\* A watermark goes on all pages or on those listed; "odd" and "even" are read
\* letter by letter, and no letter is a page.
Stamped(which, listed, total) ==
    {p \in 1..total : \/ which = "all"
                      \/ which = "listed" /\ \E k \in DOMAIN listed : listed[k] = p}

\* The option that was not sent.
NoText == "no text"

\* A watermark without text has no length to measure.
WatermarkPdf(files, opt) ==
    LET file == files[1]
        Drawn(i, page) == Marked(page, "watermark", <<opt.text, opt.opacity>>)
        targets == Stamped(opt.which, opt.listed, Total(file))
    IN IF Opens(file) /\ (opt.text # NoText \/ targets = {})
       THEN Gives(<<Redrawn(file, Drawn, targets)>>)
       ELSE Throws

\* The number of a page as its format writes it, bare or with the last one.
PageNumbersPdf(files, opt) ==
    LET file == files[1]
        last == IF opt.format = "bare" THEN 0 ELSE Total(file) + opt.startAt - 1
        Numbered(i, page) ==
            Marked(page, "number", <<opt.position, opt.format, opt.startAt + i - 1, last>>)
    IN IF Opens(file) THEN Gives(<<Redrawn(file, Numbered, 1..Total(file))>>)
       ELSE Throws

CropPdf(files, opt) ==
    LET file == files[1]
        Within(part) == IF ~part.dash THEN {part.from}
                        ELSE IF NoNumber \in {part.from, part.to} THEN {}
                        ELSE part.from..part.to \union part.to..part.from
        targets == IF opt.which # "text" THEN Targets(opt.which, opt.listed, Total(file))
                   ELSE {p \in 1..Total(file) :
                            \E i \in DOMAIN opt.text : p \in Within(opt.text[i])}
        Cropped(i, page) == [page EXCEPT !.cut = @ + opt.cut]
    IN IF Opens(file) THEN Gives(<<Redrawn(file, Cropped, targets)>>) ELSE Throws

\* A redaction covers the box and removes the annotations it touches.  One
\* box beyond the last page and nothing is redacted.  A locked file is read
\* past its encryption and stays locked; the boxes are assumed to arrive.
RedactPdf(files, opt) ==
    LET file == files[1]
        OnPage(i) == {k \in DOMAIN opt.boxes : opt.boxes[k].page = i}
        Covered(i, page) ==
            [Marked(page, "redaction", <<Cardinality(OnPage(i))>>) EXCEPT
                !.notes = {note \in @ : \A k \in OnPage(i) : opt.boxes[k].spot # note.spot}]
        redacted == Redrawn(file, Covered, {i \in 1..Total(file) : OnPage(i) # {}})
    IN IF Safe(file) /\ \A k \in DOMAIN opt.boxes : opt.boxes[k].page \in 1..Total(file)
       THEN Gives(<<IF opt.sanitize
                    THEN [redacted EXCEPT !.traces = @ \ {"author", "xmp"}]
                    ELSE redacted>>)
       ELSE Throws

(***************************************************************************)
(* The processors that change what the file says about itself.             *)
(***************************************************************************)
CompressPdf(files, opt) ==
    IF Opens(files[1])
    THEN Gives(<<[files[1] EXCEPT
                     !.traces = IF opt.level = "extreme" THEN @ \ {"author"} ELSE @]>>)
    ELSE Throws

\* The file is loaded past its encryption for its page count only, and what
\* fails there is swallowed: that a locked file is refused is encryptPDF's
\* doing, as is the error without a password.
ProtectPdf(files, opt) ==
    IF Opens(files[1]) /\ opt.userPassword # NoPassword
    THEN Gives(<<[files[1] EXCEPT !.password = opt.userPassword]>>)
    ELSE Throws

\* decryptPDF is external; it throws at a wrong password and at a plain file.
UnlockPdf(files, opt) ==
    IF Safe(files[1]) /\ files[1].password = opt.password /\ opt.password # NoPassword
    THEN Gives(<<[files[1] EXCEPT !.password = NoPassword]>>)
    ELSE Throws

\* Defect: the pages move to a new file, which has no password.
StripIntoNewFile(files, opt) ==
    IF Safe(files[1]) THEN Gives(<<NewFile(files[1].pages)>>) ELSE Throws

\* The dates and the document ID stay: the trailer is looked for where pdf-lib
\* does not keep it (a get that trailerInfo does not have, whose error is
\* swallowed, and a context.trailer that does not exist).
StripMetadataPdf(files, opt) ==
    IF Safe(files[1])
    THEN Gives(<<[files[1] EXCEPT
                     !.traces = @ \ (opt.strip \intersect {"author", "xmp"})]>>)
    ELSE Throws

\* The annotations of a page go, whatever their kind: with flattenSignatures
\* off the array of those that stay is set before any is put into it.  The
\* first n pages are done: a run that is cancelled on a page leaves the rest
\* as it is and goes on.
FlattenUpTo(files, opt, n) ==
    LET file == files[1]
        Left(notes) == IF opt.annotations THEN {}
                       ELSE IF opt.signatures
                            THEN {note \in notes : note.kind # "signature"}
                            ELSE notes
        Flattened(i, page) == [page EXCEPT !.notes = Left(@)]
    IN IF Safe(file)
       THEN Gives(<<[Redrawn(file, Flattened, 1..n) EXCEPT !.form = @ /\ ~opt.forms]>>)
       ELSE Throws

FlattenPdf(files, opt) == FlattenUpTo(files, opt, Total(files[1]))

\* A bill is one page that shows it.
Issues(bill) == Gives(<<NewFile(<<Page(bill)>>)>>)

\* An invoice without its parties, or an estimate in a sign that cannot be
\* encoded, throws half-way.
Bills(op, opt) ==
    CASE op = "gst-invoice-pdf" -> IF opt.parties THEN Issues(GstInvoice(opt)) ELSE Throws
      [] op = "pos-billing" -> Issues(PosSlip(opt))
      [] op = "estimate-maker" -> IF Encodable(opt) THEN Issues(Estimate(opt)) ELSE Throws
      [] op = "tax-receipt" -> Issues(TaxReceipt(opt))

BillingOps == {"gst-invoice-pdf", "pos-billing", "estimate-maker", "tax-receipt"}

\* processor.process of an operation's processor.
Process(op, files, opt) ==
    CASE op = "merge-pdf" -> MergePdf(files)
      [] op = "split-pdf" -> SplitPdf(files, opt)
      [] op = "extract-pages" -> ExtractPages(files, opt)
      [] op \in {"reorder-pdf", "delete-pages", "delete-pdf-pages"} ->
            ReorderDeletePages(files, opt)
      [] op \in {"image-to-pdf", "jpg-to-pdf"} -> ImageToPdf(files, opt)
      [] op = "repair-pdf" -> RepairPdf(files)
      [] op = "compare-pdf" -> ComparePdf(files, opt)
      [] op = "rotate-pdf" -> RotatePdf(files, opt)
      [] op = "watermark-pdf" -> WatermarkPdf(files, opt)
      [] op = "page-numbers-pdf" -> PageNumbersPdf(files, opt)
      [] op = "crop-pdf" -> CropPdf(files, opt)
      [] op = "redact-pdf" -> RedactPdf(files, opt)
      [] op = "compress-pdf" -> CompressPdf(files, opt)
      [] op = "protect-pdf" -> ProtectPdf(files, opt)
      [] op = "unlock-pdf" -> UnlockPdf(files, opt)
      [] op = "strip-metadata-pdf" -> StripMetadataPdf(files, opt)
      [] op = "flatten-pdf" -> FlattenPdf(files, opt)
      [] op \in BillingOps -> Bills(op, opt)
      [] OTHER -> Throws
=============================================================================
