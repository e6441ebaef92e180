----------------------------- MODULE PdfEditor ------------------------------
(***************************************************************************)
(* The visual PDF editor, apps/web/public/modules/pdf-editor-studio.js:    *)
(* annotations on the pages of a loaded document, undo and redo stacks,    *)
(* mouse gestures, pages rendered asynchronously and an export that awaits *)
(* between pages.                                                          *)
(*                                                                         *)
(* Abstractions.  An annotation's position, size, text and colours are one *)
(* value `look' that every edit in place flips; `zoom' is the zoom it was  *)
(* placed under (its coordinates are in pixels of that zoom).  Annotation  *)
(* ids, made from the clock, are never used twice.  The pages of a         *)
(* document are equally large.  Colours, fonts and bars are left out.      *)
(*                                                                         *)
(* Objects.  A gesture holds a reference to the annotation it started on,  *)
(* undo and redo replace all annotations by copies: `live' says whether    *)
(* the reference still is the annotation on the page.  In the same way     *)
(* an export goes on with the array of a page it started on.               *)
(***************************************************************************)
EXTENDS Integers, SequencesExt

CONSTANTS
    Docs,        \* documents a user may open
    NoDoc,
    PageCount,   \* the number of pages of each document
    Ids,         \* annotation ids
    NoId,
    MaxZoom,     \* zoom runs in steps from 1 to MaxZoom
    Cap,         \* 30: states kept for undo
    MaxWork,     \* bound on the saves, zooms, files and exports, for model checking
    MaxRenders   \* bound on the pages being rendered at a time

ASSUME DocsAssumption ==
    /\ Docs # {} /\ NoDoc \notin Docs
    /\ PageCount \in [Docs -> Nat \ {0}]
ASSUME IdsAssumption == NoId \notin Ids
ASSUME NumbersAssumption ==
    /\ Cap \in Nat \ {0}
    /\ MaxWork \in Nat /\ MaxRenders \in Nat
    /\ MaxZoom \in Nat \ {0}

VARIABLES
    bytes,      \* editorPdfBytes: the document an export would start from
    doc,        \* editorPdfDoc: the document parsed last
    loading,    \* documents being parsed
    page,       \* currentPageNum
    annos,      \* pageAnnotations
    history,    \* historyStack
    redo,       \* redoStack
    selected,   \* selectedAnnotationId
    tool,       \* activeEditorTool
    zoom,       \* currentZoom
    overlay,    \* the page whose annotations the overlay shows
    canvas,     \* the zoom the canvas was last sized for
    renders,    \* calls of renderEditorPage under way
    gesture,    \* what the pressed mouse is doing
    images,     \* pictures whose onload is still to come
    clip,       \* clipboardAnnotation
    export,     \* the export under way; `kept': what stayed on its page since it began
    work        \* saves, zooms, files and exports so far, up to MaxWork

edits == <<annos, history, redo, work>>
file == <<bytes, doc, loading>>
view == <<page, zoom, overlay, canvas, renders>>
hand == <<selected, tool, gesture, images, clip>>
vars == <<edits, file, view, hand, export>>

Zooms == 1..MaxZoom
Kinds == {"text", "whiteout", "mark", "stroke", "image"}
Pages == UNION {1..PageCount[d] : d \in Docs}
Annotation == [id : Ids, kind : Kinds, page : Pages, look : 0..1, zoom : Zooms]
Idle == [kind |-> "none", id |-> NoId, live |-> FALSE]
Tools == {"select", "text", "whiteout", "mark", "stroke"}

TypeOK ==
    /\ bytes \in Docs \cup {NoDoc} /\ doc \in Docs \cup {NoDoc}
    /\ loading \subseteq Docs
    /\ page \in Pages /\ overlay \in Pages
    /\ annos \subseteq Annotation
    /\ history \in Seq(SUBSET Annotation) /\ redo \in Seq(SUBSET Annotation)
    /\ selected \in Ids \cup {NoId}
    /\ tool \in Tools
    /\ zoom \in Zooms /\ canvas \in Zooms
    /\ renders \subseteq [page : Pages, sized : BOOLEAN, opening : BOOLEAN]
    /\ gesture \in [kind : {"none", "drag", "resize", "box", "stroke"},
                    id : Ids \cup {NoId}, live : BOOLEAN]
    /\ images \in 0..1
    /\ clip \in Kinds \cup {"none"}
    /\ export.phase \in {"idle", "parsing", "drawing"}
    /\ export.kept \subseteq Ids
    /\ work \in 0..MaxWork

NoExport ==
    [phase |-> "idle", of |-> NoDoc, scale |-> 1, next |-> 1,
     batch |-> {}, bound |-> FALSE, out |-> {}, kept |-> {}]

Init ==
    /\ bytes = NoDoc /\ doc = NoDoc /\ loading = {}
    /\ page = 1 /\ zoom = 1 /\ overlay = 1 /\ canvas = 1 /\ renders = {}
    /\ annos = {} /\ history = <<>> /\ redo = <<>> /\ work = 0
    /\ selected = NoId /\ tool = "select" /\ gesture = Idle
    /\ images = 0 /\ clip = "none"
    /\ export = NoExport

-----------------------------------------------------------------------------
(* Undo and redo *)

IdsOf(s) == {a.id : a \in s}
Used == IdsOf(annos) \cup UNION {IdsOf(s) : s \in Range(history) \cup Range(redo)}
Here == {a \in annos : a.page = page}
Selected == {a \in Here : a.id = selected}
Attached(id) == {a \in annos : a.id = id}
Restyled(s) == (annos \ s) \cup {[a EXCEPT !.look = 1 - @] : a \in s}

\* Fault: the oldest state is not dropped.
PushedForEver(stack) == Append(stack, annos)

\* historyStack.push(copy of pageAnnotations), and shift() beyond 30.
Pushed(stack) ==
    IF Len(stack) + 1 > Cap THEN Tail(Append(stack, annos)) ELSE Append(stack, annos)

Works == work < MaxWork /\ work' = work + 1

\* Fault: the states that were undone stay redoable.
SaveKeepingRedo ==
    /\ Works
    /\ history' = Pushed(history)
    /\ UNCHANGED redo

SaveHistoryState ==
    /\ Works
    /\ history' = Pushed(history)
    /\ redo' = <<>>

\* The objects a gesture and an export refer to are no longer those of the page.
Detach ==
    /\ gesture' = [gesture EXCEPT !.live = FALSE]
    /\ export' = [export EXCEPT !.bound = FALSE, !.kept = @ \cap IdsOf(annos')]

UndoEditor ==
    /\ history # <<>>
    /\ redo' = Append(redo, annos)
    /\ annos' = Last(history)
    /\ history' = Front(history)
    /\ selected' = NoId
    /\ overlay' = page
    /\ Detach
    /\ UNCHANGED <<work, file, page, zoom, canvas, renders, tool, images, clip>>

RedoEditor ==
    /\ redo # <<>>
    /\ history' = Append(history, annos)
    /\ annos' = Last(redo)
    /\ redo' = Front(redo)
    /\ selected' = NoId
    /\ overlay' = page
    /\ Detach
    /\ UNCHANGED <<work, file, page, zoom, canvas, renders, tool, images, clip>>

-----------------------------------------------------------------------------
(* Making annotations *)

\* The export iterates over the live array of its page, so what is pushed there
\* is drawn too.
Pushes(a) ==
    export' = IF export.phase = "drawing" /\ export.bound /\ a.page = export.next
              THEN [export EXCEPT !.batch = @ \cup {a}] ELSE export

\* addAnnotation: to the current page, whatever page the overlay still shows.
AddAnnotation(id, kind) ==
    LET a == [id |-> id, kind |-> kind, page |-> page, look |-> 0, zoom |-> canvas] IN
    /\ id \notin Used
    /\ annos' = annos \cup {a}
    /\ overlay' = page
    /\ Pushes(a)

\* A click with the text tool or a mark tool on the free overlay.
PlaceAtOnce(id) ==
    /\ doc # NoDoc /\ gesture.kind = "none"
    /\ tool \in {"text", "mark"}
    /\ SaveHistoryState
    /\ AddAnnotation(id, tool)
    /\ selected' = IF tool = "text" THEN id ELSE selected
    /\ tool' = "select"
    /\ UNCHANGED <<file, page, zoom, canvas, renders, gesture, images, clip>>

\* insertStamp, insertDateStamp, insertSignatureStamp: stamps count as marks,
\* signatures as images.
InsertStamp(id, kind) ==
    /\ doc # NoDoc /\ gesture.kind = "none"
    /\ SaveHistoryState
    /\ AddAnnotation(id, kind)
    /\ selected' = id
    /\ tool' = "select"
    /\ UNCHANGED <<file, page, zoom, canvas, renders, gesture, images, clip>>

\* A box or a stroke is saved for undo when the mouse goes down ...
StartGesture ==
    /\ doc # NoDoc /\ gesture.kind = "none"
    /\ tool \in {"whiteout", "stroke"}
    /\ SaveHistoryState
    /\ gesture' = [Idle EXCEPT !.kind = IF tool = "whiteout" THEN "box" ELSE "stroke"]
    /\ UNCHANGED <<annos, file, view, selected, tool, images, clip, export>>

\* ... and added when it goes up, unless it is too small.
EndBox(id) ==
    /\ gesture.kind = "box"
    /\ gesture' = Idle
    /\ tool' = "select"
    /\ \/ AddAnnotation(id, "whiteout") /\ selected' = id
       \/ UNCHANGED <<annos, overlay, export, selected>>
    /\ UNCHANGED <<history, redo, work, file, page, zoom, canvas, renders, images, clip>>

EndStroke(id) ==
    /\ gesture.kind = "stroke"
    /\ gesture' = Idle
    /\ \/ AddAnnotation(id, "stroke")
       \/ UNCHANGED <<annos, overlay, export>>
    /\ UNCHANGED <<history, redo, work, file, page, zoom, canvas, renders, selected,
                   tool, images, clip>>

\* redactAndTypeOverSelected: a text over a whiteout of the page.
TypeOverWhiteout(id) ==
    /\ gesture.kind = "none"
    /\ \E a \in Here : a.kind = "whiteout"
    /\ SaveHistoryState
    /\ AddAnnotation(id, "text")
    /\ selected' = id
    /\ UNCHANGED <<file, page, zoom, canvas, renders, tool, gesture, images, clip>>

\* insertImageAnnotation saves for undo and waits for the picture ...
InsertImage ==
    /\ doc # NoDoc /\ images = 0
    /\ SaveHistoryState
    /\ images' = 1
    /\ UNCHANGED <<annos, file, view, selected, tool, gesture, clip, export>>

\* ... which goes to whatever page is current when it is there.
ImageLoaded(id) ==
    /\ images = 1
    /\ images' = 0
    /\ AddAnnotation(id, "image")
    /\ selected' = id
    /\ tool' = "select"
    /\ UNCHANGED <<history, redo, work, file, page, zoom, canvas, renders, gesture, clip>>

Copy ==
    /\ Selected # {}
    /\ \E a \in Selected : clip' = a.kind
    /\ UNCHANGED <<edits, file, view, selected, tool, gesture, images, export>>

Paste(id) ==
    /\ doc # NoDoc /\ clip # "none"
    /\ SaveHistoryState
    /\ AddAnnotation(id, clip)
    /\ selected' = id
    /\ UNCHANGED <<file, page, zoom, canvas, renders, tool, gesture, images, clip>>

-----------------------------------------------------------------------------
(* Changing and deleting annotations *)

\* Fault: a deletion is not saved for undo.
DeleteForGood ==
    /\ annos' = annos \ Selected
    /\ UNCHANGED <<history, redo, work>>

\* deleteSelectedAnnotation: filter() makes a new array of the page.
Delete ==
    /\ SaveHistoryState
    /\ annos' = annos \ Selected

Deselected ==
    /\ selected' = NoId
    /\ overlay' = page
    /\ export' = [export EXCEPT !.bound = @ /\ export.next # page,
                               !.kept = @ \cap IdsOf(annos')]
    /\ gesture' = [gesture EXCEPT !.live = @ /\ gesture.id # selected]

DeleteSelected ==
    /\ selected # NoId
    /\ Delete
    /\ Deselected
    /\ UNCHANGED <<file, page, zoom, canvas, renders, tool, images, clip>>

Cut ==
    /\ Selected # {}
    /\ \E a \in Selected : clip' = a.kind
    /\ Delete
    /\ Deselected
    /\ UNCHANGED <<file, page, zoom, canvas, renders, tool, images>>

\* Typing and the font, size and colour controls: no history is saved.
RestyleText ==
    /\ gesture.kind = "none"
    /\ \E a \in Selected : a.kind = "text" /\ annos' = Restyled({a})
    /\ overlay' = page
    /\ UNCHANGED <<history, redo, work, file, page, zoom, canvas, renders, hand, export>>

SetWhiteoutColor ==
    /\ gesture.kind = "none"
    /\ \E a \in Selected : a.kind = "whiteout" /\ annos' = Restyled({a})
    /\ SaveHistoryState
    /\ UNCHANGED <<file, view, hand, export>>

\* The elements of the overlay belong to the page that was rendered last.
StartDrag(id) ==
    /\ gesture.kind = "none" /\ tool = "select"
    /\ \E a \in Attached(id) : a.page = overlay /\ a.kind # "stroke"
    /\ selected' = id
    /\ gesture' = [kind |-> "drag", id |-> id, live |-> TRUE]
    /\ UNCHANGED <<edits, file, view, tool, images, clip, export>>

\* Handles are attached to the selected box or picture; the resize is saved first.
StartResize ==
    /\ gesture.kind = "none"
    /\ \E a \in Selected : a.kind \in {"whiteout", "image"}
    /\ SaveHistoryState
    /\ gesture' = [kind |-> "resize", id |-> selected, live |-> TRUE]
    /\ UNCHANGED <<annos, file, view, selected, tool, images, clip, export>>

\* mousemove changes the object the gesture started on, on the page or not.
MoveMouse ==
    /\ gesture.kind \in {"drag", "resize"}
    /\ gesture.live
    /\ annos' = Restyled(Attached(gesture.id))
    /\ UNCHANGED <<history, redo, work, file, view, hand, export>>

\* A drag is saved when it ends.
EndDrag ==
    /\ gesture.kind = "drag"
    /\ gesture' = Idle
    /\ SaveHistoryState
    /\ UNCHANGED <<annos, file, view, selected, tool, images, clip, export>>

EndResize ==
    /\ gesture.kind = "resize"
    /\ gesture' = Idle
    /\ UNCHANGED <<edits, file, view, selected, tool, images, clip, export>>

Deselect ==
    /\ gesture.kind = "none" /\ tool = "select" /\ selected # NoId
    /\ selected' = NoId
    /\ UNCHANGED <<edits, file, view, tool, gesture, images, clip, export>>

SetEditorTool(t) ==
    /\ gesture.kind = "none" /\ doc # NoDoc /\ t # tool
    /\ tool' = t
    /\ UNCHANGED <<edits, file, view, selected, gesture, images, clip, export>>

-----------------------------------------------------------------------------
(* Documents, pages, zoom *)

\* renderEditorPage awaits getPage, then page.render.
RenderEditorPage(p, opening) ==
    /\ Cardinality(renders) < MaxRenders
    /\ renders' = renders \cup {[page |-> p, sized |-> FALSE, opening |-> opening]}

\* initPdfEditorStudio keeps the bytes at once and awaits the parsed document.
InitPdfEditorStudio(d) ==
    /\ d \notin loading
    /\ Works
    /\ bytes' = d
    /\ loading' = loading \cup {d}
    /\ UNCHANGED <<annos, history, redo, doc, view, hand, export>>

DocumentParsed(d) ==
    /\ d \in loading
    /\ loading' = loading \ {d}
    /\ doc' = d
    /\ page' = 1
    /\ annos' = {} /\ history' = <<>> /\ redo' = <<>>
    /\ selected' = NoId
    /\ RenderEditorPage(1, TRUE)
    /\ Detach
    /\ UNCHANGED <<work, bytes, zoom, overlay, canvas, tool, images, clip>>

DocumentBroken(d) ==
    /\ d \in loading
    /\ loading' = loading \ {d}
    /\ UNCHANGED <<edits, bytes, doc, view, hand, export>>

SwitchEditorPage(p) ==
    /\ doc # NoDoc /\ gesture.kind = "none"
    /\ p \in 1..PageCount[doc] /\ p # page
    /\ SaveHistoryState
    /\ page' = p
    /\ selected' = NoId
    /\ RenderEditorPage(p, FALSE)
    /\ UNCHANGED <<annos, file, zoom, overlay, canvas, tool, gesture, images, clip, export>>

\* Fault: the zoom runs past its end.
Unclamped(z) == z

Clamped(z) == Min({MaxZoom, Max({1, z})})

ZoomEditor(delta) ==
    /\ doc # NoDoc /\ gesture.kind = "none"
    /\ Clamped(zoom + delta) # zoom
    /\ zoom' = Clamped(zoom + delta)
    /\ RenderEditorPage(page, FALSE)
    /\ Works
    /\ UNCHANGED <<annos, history, redo, file, page, overlay, canvas, hand, export>>

\* getPage has answered: the canvas and overlay are sized for the present zoom.
SizeCanvas(r) ==
    /\ r \in renders /\ ~r.sized
    /\ renders' = (renders \ {r}) \cup {[r EXCEPT !.sized = TRUE]}
    /\ canvas' = zoom
    /\ UNCHANGED <<edits, file, page, zoom, overlay, hand, export>>

\* page.render is done: the annotations of the page that is current now.
FinishRender(r) ==
    /\ r \in renders /\ r.sized
    /\ renders' = renders \ {r}
    /\ overlay' = page
    /\ tool' = IF r.opening THEN "select" ELSE tool
    /\ UNCHANGED <<edits, file, page, zoom, canvas, selected, gesture, images, clip, export>>

-----------------------------------------------------------------------------
(* exportEditedPdf *)

\* Pictures may be left out of the file, so they are not counted on; nor is what is
\* on a page that the document to be exported does not have.
StartExport ==
    /\ bytes # NoDoc /\ export.phase = "idle"
    /\ export' = [NoExport EXCEPT !.phase = "parsing", !.of = bytes,
                                 !.kept = IdsOf({a \in annos :
                                            a.kind # "image" /\ a.page <= PageCount[bytes]})]
    /\ Works
    /\ UNCHANGED <<annos, history, redo, file, view, hand>>

OnPages(ps) == {a \in annos : a.page \in ps}
Drawn(s, scale) == {[id |-> a.id, placed |-> a.zoom, drawn |-> scale] : a \in s}

\* Fault: the first page is skipped.
DrawFromNext(x, from) ==
    LET stop == PageCount[x.of] + 1 IN
    [x EXCEPT !.phase = "drawing", !.next = stop, !.batch = {},
              !.out = @ \cup Drawn(OnPages((from + 1)..(stop - 1)), x.scale)]

\* The loop over the pages runs on until it awaits the picture of an image.
DrawFrom(x, from) ==
    LET waits == {p \in from..PageCount[x.of] : \E a \in OnPages({p}) : a.kind = "image"}
        stop == IF waits = {} THEN PageCount[x.of] + 1 ELSE Min(waits)
    IN  [x EXCEPT !.phase = "drawing", !.next = stop, !.batch = OnPages({stop}),
                  !.bound = TRUE,
                  !.out = @ \cup Drawn(OnPages(from..(stop - 1)), x.scale)]

\* PDFDocument.load and the fonts are there; the canvas is measured only now.
ExportParsed ==
    /\ export.phase = "parsing"
    /\ export' = DrawFrom([export EXCEPT !.scale = canvas], 1)
    /\ UNCHANGED <<edits, file, view, hand>>

\* A picture that cannot be fetched or embedded is left out with a warning.
ExportPictures ==
    /\ export.phase = "drawing" /\ export.next <= PageCount[export.of]
    /\ \E lost \in SUBSET {a \in export.batch : a.kind = "image"} :
        export' = DrawFrom(
            [export EXCEPT !.out = @ \cup Drawn(export.batch \ lost, export.scale)],
            export.next + 1)
    /\ UNCHANGED <<edits, file, view, hand>>

ExportSaved ==
    /\ export.phase = "drawing" /\ export.next > PageCount[export.of]
    /\ export' = NoExport
    /\ UNCHANGED <<edits, file, view, hand>>

\* The bytes cannot be parsed, or a text cannot be encoded in a standard font: an
\* alert, no file, and the button is enabled again.
ExportFails ==
    /\ export.phase # "idle"
    /\ export' = NoExport
    /\ UNCHANGED <<edits, file, view, hand>>

-----------------------------------------------------------------------------
Editing ==
    \/ UndoEditor \/ RedoEditor
    \/ \E id \in Ids :
        \/ PlaceAtOnce(id) \/ EndBox(id) \/ EndStroke(id) \/ TypeOverWhiteout(id)
        \/ \E kind \in {"mark", "image"} : InsertStamp(id, kind)
        \/ ImageLoaded(id) \/ Paste(id)
        \/ StartDrag(id)
    \/ StartGesture \/ InsertImage \/ Copy \/ DeleteSelected \/ Cut
    \/ RestyleText \/ SetWhiteoutColor
    \/ StartResize \/ MoveMouse \/ EndDrag \/ EndResize
    \/ Deselect
    \/ \E t \in Tools : SetEditorTool(t)

Viewing ==
    \/ \E d \in Docs : InitPdfEditorStudio(d) \/ DocumentParsed(d) \/ DocumentBroken(d)
    \/ \E p \in Pages : SwitchEditorPage(p)
    \/ \E delta \in {-1, 1} : ZoomEditor(delta)
    \/ \E r \in renders : SizeCanvas(r) \/ FinishRender(r)

Exporting ==
    StartExport \/ ExportParsed \/ ExportPictures \/ ExportSaved \/ ExportFails

Next == Editing \/ Viewing \/ Exporting

Spec == Init /\ [][Next]_vars

-----------------------------------------------------------------------------
(* Properties *)

\* However undo, redo and edits alternate, no more than Cap states are kept in the
\* two stacks together: redo pushes without looking at the limit.
StacksAreBounded == Len(history) + Len(redo) <= Cap

\* The editor's annotations, stacks and pending work fit each other after any
\* edits, loads and exports (pdf-editor-studio.js:17-54, 1080-1100).
EditorIsSound == TypeOK /\ StacksAreBounded

\* Whatever disappears from the pages can be brought back: the annotations before
\* the step are on one of the stacks, unless another document was opened.
NothingIsLost ==
    [][(IdsOf(annos) \ IdsOf(annos') # {} /\ ~\E d \in Docs : DocumentParsed(d))
        => annos \in Range(history') \cup Range(redo')]_vars

\* What was on a page of the document from the start of an export to its end is
\* in the exported file, whatever was added, deleted or undone meanwhile.
ExportIsComplete ==
    [][ExportSaved => export.kept \subseteq IdsOf(export.out)]_vars

\* Undo and redo move along one line of states.
History == INSTANCE Timeline WITH
    States <- SUBSET Annotation,
    Blank <- {},
    line <- history \o <<annos>> \o Reverse(redo),
    cursor <- Len(history) + 1
ImplementsTimeline == History!Spec

\* Annotations are exported where they were placed: under the zoom they were
\* placed under.
ExportedWherePlaced == \A o \in export.out : o.placed = o.drawn
=============================================================================
