---------------------------- MODULE LocalEngine -----------------------------
(***************************************************************************)
(* The same tools in the browser: apps/web/public/modules/local-engine.js  *)
(* on the fields of the tool's form, and options-collector.js, which turns *)
(* those fields into the options of a job when the browser cannot do the   *)
(* tool itself or fails at it.                                             *)
(*                                                                         *)
(* A form is a record of the fields the tool shows.  An empty text field   *)
(* is the empty sequence of parts.                                         *)
(***************************************************************************)
EXTENDS Documents

CONSTANT Unbounded  \* the page count the options assume: 1000 in the code

ASSUME LocalEngineAssumption == Unbounded \in Nat

\* What a field's value means when it is empty: the page 1.
FirstPage == <<[from |-> 1, to |-> NoNumber, dash |-> FALSE]>>
Filled(text) == IF text = <<>> THEN FirstPage ELSE text

\* The page choice of a form, in the words of the options.
Choice(which) == IF which = "custom" THEN "listed" ELSE which

(***************************************************************************)
(* The operations, each on the staged files and the form.                  *)
(***************************************************************************)
LocalMerge(files) == MergePdf(files)

\* Turns by hand, when there are any, replace the angle and the page choice.
LocalRotate(files, form) ==
    LET file == files[1]
        byHand == \E i \in 1..Total(file) : form.clicks[i] > 0
        custom == ParsePageRanges(form.custom, Total(file))
        targets == Targets(Choice(form.which), custom, Total(file))
        Added(i) == IF byHand THEN form.clicks[i]
                    ELSE IF i \in targets THEN form.angle ELSE 0
        Turned(i, page) == [page EXCEPT !.turn = (@ + Added(i)) % 360]
    IN IF Opens(file) THEN Gives(<<Redrawn(file, Turned, 1..Total(file))>>) ELSE Throws

\* The pages picked make one new document; none picked is an error.
Picked(file, pages) ==
    IF Opens(file) /\ pages # <<>> /\ Copies(file, pages)
    THEN Gives(<<Copied(file, pages)>>) ELSE Throws

LocalDelete(files, form) ==
    LET gone == ParsePageRanges(form.text, Total(files[1]))
    IN Picked(files[1], SelectSeq(AllPages(files[1]),
                                  LAMBDA p : \A k \in DOMAIN gone : gone[k] # p))

LocalExtract(files, form) ==
    Picked(files[1], ParsePageRanges(Filled(form.text), Total(files[1])))

\* The ranges make one document, not one each; every page makes an archive,
\* or the first page alone when the archive's library is not loaded.
LocalSplit(files, form) ==
    LET file == files[1]
    IN IF form.mode = "ranges"
       THEN Picked(file, ParsePageRanges(Filled(form.text), Total(file)))
       ELSE IF ~Opens(file) THEN Throws
       ELSE IF Total(file) = 1 THEN Gives(<<file>>)
       ELSE IF ~form.zip THEN Picked(file, <<1>>)
       ELSE IF Copies(file, AllPages(file))
            THEN Gives([i \in 1..Total(file) |-> Copied(file, <<i>>)])
            ELSE Throws

LocalCompress(files, form) == CompressPdf(files, [level |-> form.level])

\* What the browser can decode it redraws as PNG, webp included.
LocalImages(files, form) ==
    IF \A i \in DOMAIN files : files[i].kind \in {"png", "jpeg", "webp"}
    THEN Gives(<<NewFile(Laid(files, form))>>)
    ELSE Throws

\* An empty field is the standard text, on both sides.
Wording(form) == IF form.text = "" THEN "confidential" ELSE form.text

\* Defect: the opacity of the form is not read.
LocalWatermarkPale(files, form) ==
    WatermarkPdf(files, [which |-> "all", listed |-> <<>>,
                         text |-> Wording(form), opacity |-> 30])

LocalWatermark(files, form) ==
    WatermarkPdf(files, [which |-> "all", listed |-> <<>>,
                         text |-> Wording(form), opacity |-> form.opacity])

LocalNumbers(files, form) ==
    PageNumbersPdf(files, [startAt |-> 1, position |-> form.position,
                           format |-> form.format])

\* Title, author and dates are reset; XMP and the document ID stay.
LocalStrip(files) ==
    IF Opens(files[1]) THEN Gives(<<[files[1] EXCEPT !.traces = @ \ {"author", "dates"}]>>)
    ELSE Throws

\* form.flatten() draws the fields and removes their widgets, no other note.
LocalFlatten(files) ==
    LET Drawn(i, page) ==
            [page EXCEPT !.notes = {note \in @ : note.kind # "field"}]
    IN IF Opens(files[1])
       THEN Gives(<<[Redrawn(files[1], Drawn, 1..Total(files[1])) EXCEPT !.form = FALSE]>>)
       ELSE Throws

\* Loaded and saved again: every page stays, damaged or not.
LocalRepair(files) == IF Safe(files[1]) THEN Gives(<<files[1]>>) ELSE Throws

\* One box of a fixed place on every page, over whatever is there.
LocalRedact(files) ==
    LET Covered(i, page) == Marked(page, "redaction", 1)
    IN IF Opens(files[1]) THEN Gives(<<Redrawn(files[1], Covered, 1..Total(files[1]))>>)
       ELSE Throws

LocalCrop(files, form) ==
    LET file == files[1]
        custom == ParsePageRanges(form.custom, Total(file))
        Cropped(i, page) == [page EXCEPT !.cut = @ + form.cut]
    IN IF Opens(file)
       THEN Gives(<<Redrawn(file, Cropped, Targets(Choice(form.which), custom, Total(file)))>>)
       ELSE Throws

\* executeLocalOperation.
ExecuteLocal(tool, files, form) ==
    CASE tool = "merge-pdf" -> LocalMerge(files)
      [] tool = "rotate-pdf" -> LocalRotate(files, form)
      [] tool = "delete-pdf-pages" -> LocalDelete(files, form)
      [] tool = "extract-pages" -> LocalExtract(files, form)
      [] tool = "split-pdf" -> LocalSplit(files, form)
      [] tool = "compress-pdf" -> LocalCompress(files, form)
      [] tool = "jpg-to-pdf" -> LocalImages(files, form)
      [] tool = "watermark-pdf" -> LocalWatermark(files, form)
      [] tool = "page-numbers-pdf" -> LocalNumbers(files, form)
      [] tool = "strip-metadata-pdf" -> LocalStrip(files)
      [] tool = "flatten-pdf" -> LocalFlatten(files)
      [] tool = "repair-pdf" -> LocalRepair(files)
      [] tool = "redact-pdf" -> LocalRedact(files)
      [] tool = "crop-pdf" -> LocalCrop(files, form)

(***************************************************************************)
(* collectActiveToolOptions, with the defaults the processor adds.  It has *)
(* no branch for page numbers: whatever their form says, the worker writes *)
(* a bare number at the bottom.                                            *)
(***************************************************************************)
CollectOptions(tool, form) ==
    CASE tool = "rotate-pdf" ->
            [rotation |-> form.angle, which |-> Choice(form.which),
             listed |-> ParsePageRanges(Filled(form.custom), Unbounded)]
      [] tool = "delete-pdf-pages" -> [ordered |-> FALSE, pageOrder |-> <<>>]
      [] tool = "extract-pages" ->
            [pages |-> ParsePageRanges(Filled(form.text), Unbounded), combine |-> TRUE]
      [] tool = "split-pdf" ->
            [mode |-> form.mode,
             ranges |-> IF form.mode = "ranges" THEN <<Filled(form.text)>> ELSE <<>>]
      [] tool = "compress-pdf" -> [level |-> form.level]
      [] tool = "jpg-to-pdf" ->
            [pageSize |-> form.pageSize, orientation |-> form.orientation]
      [] tool = "watermark-pdf" ->
            [which |-> "all", listed |-> <<>>, text |-> Wording(form), opacity |-> form.opacity]
      [] tool = "page-numbers-pdf" ->
            [startAt |-> 1, position |-> "bottom-center", format |-> "bare"]
      [] tool = "strip-metadata-pdf" -> [strip |-> {"author", "dates", "xmp", "id"}]
      [] tool = "flatten-pdf" -> [forms |-> TRUE, annotations |-> TRUE, signatures |-> FALSE]
      [] tool = "redact-pdf" ->
            [boxes |-> <<[page |-> 1, spot |-> "box"]>>, sanitize |-> TRUE]
      [] tool = "crop-pdf" -> [which |-> "all", listed |-> <<>>, cut |-> 0]
      [] OTHER -> [none |-> TRUE]
=============================================================================
