-------------------------- MODULE PdfEditorProofs --------------------------
(***************************************************************************)
(* Proofs about the editor, for any documents, any number of annotations,  *)
(* zooms and renders and any length of the undo history: its types and the *)
(* bound of its stacks, that nothing deleted is beyond undo, that an       *)
(* export is complete, and that undo and redo implement Timeline.          *)
(***************************************************************************)
EXTENDS PdfEditor, SequenceTheorems, WellFoundedInduction, TLAPS

-----------------------------------------------------------------------------
(* Numbers *)

\* The larger of two numbers and the smaller of two.
LEMMA TwoNumbers ==
    ASSUME NEW x \in Int, NEW y \in Int
    PROVE  /\ Max({x, y}) = IF x >= y THEN x ELSE y
           /\ Min({x, y}) = IF x <= y THEN x ELSE y
<1>1. PICK m \in {x, y} : \A z \in {x, y} : m >= z
  OBVIOUS
<1>2. PICK n \in {x, y} : \A z \in {x, y} : n <= z
  OBVIOUS
<1>3. Max({x, y}) \in {x, y} /\ \A z \in {x, y} : Max({x, y}) >= z
  BY <1>1 DEF Max
<1>4. Min({x, y}) \in {x, y} /\ \A z \in {x, y} : Min({x, y}) <= z
  BY <1>2 DEF Min
<1>. QED
  BY <1>3, <1>4

\* A zoom that is clamped is a zoom.
LEMMA ClampedIsZoom ==
    ASSUME NEW z \in Int
    PROVE  Clamped(z) \in Zooms
<1>1. Max({1, z}) \in Int /\ Max({1, z}) >= 1
  BY TwoNumbers
<1>. QED
  BY <1>1, TwoNumbers, NumbersAssumption DEF Clamped, Zooms

\* A set of natural numbers that is not empty has a smallest.
LEMMA Smallest ==
    ASSUME NEW S, S \subseteq Nat, S # {}
    PROVE  Min(S) \in S /\ \A n \in S : Min(S) <= n
<1>1. \E x \in S : \A y \in S : ~ (<<y, x>> \in OpToRel(<, Nat))
  BY NatLessThanWellFounded, WFMin
<1>2. PICK x \in S : \A y \in S : ~ (<<y, x>> \in OpToRel(<, Nat))
  BY <1>1
<1>3. \A y \in S : x <= y
  <2>1. TAKE y \in S
  <2>2. <<y, x>> \in Nat \X Nat /\ <<y, x>>[1] = y /\ <<y, x>>[2] = x
    OBVIOUS
  <2>3. ~(y < x)
    BY <1>2, <2>2 DEF OpToRel
  <2>. QED
    BY <2>3
<1>. QED
  BY <1>3 DEF Min

-----------------------------------------------------------------------------
(* The stacks *)

States == SUBSET Annotation

\* What pushing onto a stack and popping off it does to its states.
LEMMA PushedStack ==
    ASSUME NEW stack \in Seq(States), annos \in States, Len(stack) <= Cap
    PROVE  /\ Pushed(stack) \in Seq(States)
           /\ Len(Pushed(stack)) = IF Len(stack) < Cap THEN Len(stack) + 1 ELSE Cap
           /\ annos \in Range(Pushed(stack))
           /\ Range(Pushed(stack)) \subseteq Range(stack) \cup {annos}
           /\ \A i \in 1..Len(Pushed(stack)) :
                Pushed(stack)[i] = Append(stack, annos)[IF Len(stack) < Cap THEN i ELSE i + 1]
<1>. DEFINE longer == Append(stack, annos)
            n == Len(stack)
<1>1. n \in Nat /\ Cap \in Nat /\ Cap >= 1
  BY NumbersAssumption
<1>2. longer \in Seq(States) /\ Len(longer) = n + 1 /\ longer # <<>>
  BY AppendProperties
<1>3. /\ \A i \in 1..n : longer[i] = stack[i]
      /\ longer[n + 1] = annos
  BY AppendProperties
<1>4. CASE n < Cap
  <2>1. Pushed(stack) = longer
    BY <1>1, <1>4 DEF Pushed
  <2>2. DOMAIN longer = 1..(n + 1) /\ DOMAIN stack = 1..n
    BY <1>2
  <2>3. annos \in Range(longer)
    BY <1>1, <1>3, <2>2 DEF Range
  <2>4. \A i \in 1..(n + 1) : longer[i] \in Range(stack) \cup {annos}
    BY <1>1, <1>3, <2>2 DEF Range
  <2>5. Range(longer) \subseteq Range(stack) \cup {annos}
    BY <2>2, <2>4 DEF Range
  <2>. QED
    BY <1>1, <1>2, <1>4, <2>1, <2>3, <2>5
<1>5. CASE ~(n < Cap)
  <2>1. n = Cap
    BY <1>1, <1>5
  <2>2. Pushed(stack) = Tail(longer)
    BY <1>1, <2>1 DEF Pushed
  <2>3. /\ Tail(longer) \in Seq(States)
        /\ Len(Tail(longer)) = n
        /\ \A i \in 1..n : Tail(longer)[i] = longer[i + 1]
    <3>1. Len(Tail(longer)) = Len(longer) - 1
      BY <1>2, HeadTailProperties
    <3>2. Len(Tail(longer)) = n
      BY <1>1, <1>2, <3>1
    <3>. QED
      BY <1>2, <3>2, HeadTailProperties
  <2>4. DOMAIN Tail(longer) = 1..n /\ DOMAIN stack = 1..n
    BY <2>3
  <2>5. annos \in Range(Tail(longer))
    <3>1. n \in 1..n
      BY <1>1, <2>1
    <3>2. Tail(longer)[n] = annos
      BY <1>3, <2>3, <3>1
    <3>. QED
      BY <2>4, <3>1, <3>2 DEF Range
  <2>6. \A i \in 1..n : Tail(longer)[i] \in Range(stack) \cup {annos}
    <3>1. \A i \in 1..n : i + 1 \in 1..n \/ i + 1 = n + 1
      BY <1>1
    <3>2. \A i \in 1..n : stack[i] \in Range(stack)
      BY <2>4 DEF Range
    <3>. QED
      BY <1>3, <2>3, <3>1, <3>2
  <2>7. Range(Tail(longer)) \subseteq Range(stack) \cup {annos}
    BY <2>4, <2>6 DEF Range
  <2>. QED
    BY <1>1, <2>1, <2>2, <2>3, <2>5, <2>7
<1>. QED
  BY <1>4, <1>5

LEMMA PoppedStack ==
    ASSUME NEW stack \in Seq(States), stack # <<>>
    PROVE  /\ Front(stack) \in Seq(States)
           /\ Len(Front(stack)) = Len(stack) - 1
           /\ Last(stack) \in States
           /\ Last(stack) \in Range(stack)
           /\ Range(Front(stack)) \subseteq Range(stack)
           /\ \A i \in 1..(Len(stack) - 1) : Front(stack)[i] = stack[i]
<1>. DEFINE n == Len(stack)
<1>1. n \in Nat \ {0} /\ DOMAIN stack = 1..n /\ \A i \in 1..n : stack[i] \in States
  BY EmptySeq, ElementOfSeq, LenProperties
<1>2. /\ Front(stack) \in Seq(States)
      /\ Len(Front(stack)) = IF 1 <= n - 1 THEN n - 1 - 1 + 1 ELSE 0
      /\ \A i \in 1..(n - 1 - 1 + 1) : Front(stack)[i] = stack[1 + i - 1]
  <2>1. \A i \in 1..(n - 1) : stack[i] \in States
    BY <1>1
  <2>. QED
    BY <1>1, <2>1, SubSeqProperties DEF Front
<1>. HIDE DEF n
<1>3. Len(Front(stack)) = n - 1
  BY <1>1, <1>2
<1>4. \A i \in 1..(n - 1) : Front(stack)[i] = stack[i]
  <2>1. \A i \in 1..(n - 1) : i \in 1..(n - 1 - 1 + 1) /\ 1 + i - 1 = i
    BY <1>1
  <2>. QED
    BY <1>2, <2>1
<1>5. Range(Front(stack)) \subseteq Range(stack)
  <2>1. DOMAIN Front(stack) = 1..(n - 1)
    BY <1>2, <1>3
  <2>. QED
    BY <1>1, <1>4, <2>1 DEF Range
<1>6. Last(stack) \in States /\ Last(stack) \in Range(stack)
  BY <1>1 DEF Last, Range, n
<1>. QED
  BY <1>2, <1>3, <1>4, <1>5, <1>6 DEF n

LEMMA AppendedStack ==
    ASSUME NEW stack \in Seq(States), NEW s \in States
    PROVE  /\ Append(stack, s) \in Seq(States)
           /\ Len(Append(stack, s)) = Len(stack) + 1
           /\ s \in Range(Append(stack, s))
           /\ Range(Append(stack, s)) \subseteq Range(stack) \cup {s}
<1>. DEFINE n == Len(stack)
            longer == Append(stack, s)
<1>1. n \in Nat /\ longer \in Seq(States) /\ Len(longer) = n + 1
  BY AppendProperties
<1>2. \A i \in 1..n : longer[i] = stack[i]
  BY AppendProperties
<1>3. longer[n + 1] = s
  BY AppendProperties
<1>4. DOMAIN longer = 1..(n + 1) /\ DOMAIN stack = 1..n
  BY <1>1
<1>5. \A i \in 1..(n + 1) : longer[i] \in Range(stack) \cup {s}
  BY <1>1, <1>2, <1>3, <1>4 DEF Range
<1>. QED
  BY <1>1, <1>3, <1>4, <1>5 DEF Range

-----------------------------------------------------------------------------
(* The kinds of steps.  What a step does to the annotations, the stacks and *)
(* the export is one of six things.                                         *)

Everything == annos \cup UNION (Range(history) \cup Range(redo))
Alike(a, b) == a.id = b.id /\ a.page = b.page /\ a.kind = b.kind

Saves == history' = Pushed(history) /\ redo' = <<>>
Stacks == Saves \/ UNCHANGED <<history, redo>>

\* The export goes on with other objects than those on the pages.
Detached ==
    \E x \in BOOLEAN :
        export' = [export EXCEPT !.bound = x, !.kept = @ \cap IdsOf(annos')]

Moved == (UndoEditor \/ RedoEditor) /\ Detached
Emptied ==
    /\ \E d \in Docs : DocumentParsed(d)
    /\ annos' = {} /\ history' = <<>> /\ redo' = <<>>
    /\ Detached
Added ==
    \E a \in Annotation :
        a.id \notin Used /\ annos' = annos \cup {a} /\ Pushes(a) /\ Stacks
Changed == (\E s \in SUBSET annos : annos' = Restyled(s)) /\ Stacks /\ UNCHANGED export
Removed == annos' = annos \ Selected /\ Saves /\ Detached
Exported == Exporting /\ UNCHANGED <<annos, history, redo>>

LEMMA RestyledNothing == Restyled({}) = annos
  BY DEF Restyled

\* Steps that leave the annotations and the export alone.
LEMMA UnchangedIsChanged ==
    ASSUME UNCHANGED <<annos, export>>, Stacks
    PROVE  Changed
  BY RestyledNothing DEF Changed

\* A new annotation, as AddAnnotation makes it.
LEMMA AddedAnnotation ==
    ASSUME TypeOK, NEW id \in Ids, NEW kind \in Kinds, AddAnnotation(id, kind), Stacks
    PROVE  Added
<1>. DEFINE a == [id |-> id, kind |-> kind, page |-> page, look |-> 0, zoom |-> canvas]
<1>1. a \in Annotation
  BY DEF TypeOK, Annotation
<1>2. a.id = id
  OBVIOUS
<1>3. id \notin Used /\ annos' = annos \cup {a} /\ Pushes(a)
  BY DEF AddAnnotation
<1>. QED
  BY <1>1, <1>2, <1>3 DEF Added

LEMMA KindsOfSteps ==
    ASSUME TypeOK, [Next]_vars
    PROVE  Moved \/ Emptied \/ Added \/ Changed \/ Removed \/ Exported
<1>. USE DEF edits, file, view, hand
<1>1. CASE UNCHANGED vars
  BY <1>1, UnchangedIsChanged DEF vars, Stacks
<1>2. ASSUME UndoEditor \/ RedoEditor PROVE Moved
  BY <1>2 DEF UndoEditor, RedoEditor, Detach, Moved, Detached
<1>3. ASSUME NEW id \in Ids,
             \/ PlaceAtOnce(id) \/ EndBox(id) \/ EndStroke(id) \/ TypeOverWhiteout(id)
             \/ \E kind \in {"mark", "image"} : InsertStamp(id, kind)
             \/ ImageLoaded(id) \/ Paste(id)
             \/ StartDrag(id)
      PROVE  Added \/ Changed
  <2>1. CASE PlaceAtOnce(id)
    <3>1. tool \in Kinds /\ AddAnnotation(id, tool) /\ Stacks
      BY <2>1 DEF PlaceAtOnce, Kinds, SaveHistoryState, Saves, Stacks
    <3>. QED
      BY <3>1, AddedAnnotation
  <2>2. CASE EndBox(id)
    <3>1. AddAnnotation(id, "whiteout") \/ UNCHANGED <<annos, export>>
      BY <2>2 DEF EndBox
    <3>2. Stacks /\ "whiteout" \in Kinds
      BY <2>2 DEF EndBox, Stacks, Kinds
    <3>. QED
      BY <3>1, <3>2, AddedAnnotation, UnchangedIsChanged
  <2>3. CASE EndStroke(id)
    <3>1. AddAnnotation(id, "stroke") \/ UNCHANGED <<annos, export>>
      BY <2>3 DEF EndStroke
    <3>2. Stacks /\ "stroke" \in Kinds
      BY <2>3 DEF EndStroke, Stacks, Kinds
    <3>. QED
      BY <3>1, <3>2, AddedAnnotation, UnchangedIsChanged
  <2>4. CASE TypeOverWhiteout(id)
    <3>1. AddAnnotation(id, "text") /\ Stacks /\ "text" \in Kinds
      BY <2>4 DEF TypeOverWhiteout, Kinds, SaveHistoryState, Saves, Stacks
    <3>. QED
      BY <3>1, AddedAnnotation
  <2>5. CASE \E kind \in {"mark", "image"} : InsertStamp(id, kind)
    <3>1. PICK kind \in {"mark", "image"} : InsertStamp(id, kind)
      BY <2>5
    <3>2. AddAnnotation(id, kind) /\ Stacks /\ kind \in Kinds
      BY <3>1 DEF InsertStamp, Kinds, SaveHistoryState, Saves, Stacks
    <3>. QED
      BY <3>2, AddedAnnotation
  <2>6. CASE ImageLoaded(id)
    <3>1. AddAnnotation(id, "image") /\ Stacks /\ "image" \in Kinds
      BY <2>6 DEF ImageLoaded, Kinds, Stacks
    <3>. QED
      BY <3>1, AddedAnnotation
  <2>7. CASE Paste(id)
    <3>1. AddAnnotation(id, clip) /\ Stacks /\ clip \in Kinds
      BY <2>7 DEF Paste, SaveHistoryState, Saves, Stacks, TypeOK
    <3>. QED
      BY <3>1, AddedAnnotation
  <2>8. CASE StartDrag(id)
    BY <2>8, UnchangedIsChanged DEF StartDrag, Stacks
  <2>. QED
    BY <1>3, <2>1, <2>2, <2>3, <2>4, <2>5, <2>6, <2>7, <2>8
<1>4. ASSUME StartGesture \/ InsertImage \/ StartResize \/ EndDrag PROVE Changed
  <2>1. UNCHANGED <<annos, export>> /\ Stacks
    BY <1>4 DEF StartGesture, InsertImage, StartResize, EndDrag, SaveHistoryState, Saves, Stacks
  <2>. QED
    BY <2>1, UnchangedIsChanged
<1>5. ASSUME Copy \/ EndResize \/ Deselect \/ \E t \in Tools : SetEditorTool(t) PROVE Changed
  <2>1. UNCHANGED <<annos, export>> /\ Stacks
    BY <1>5 DEF Copy, EndResize, Deselect, SetEditorTool, Stacks
  <2>. QED
    BY <2>1, UnchangedIsChanged
<1>6. ASSUME DeleteSelected \/ Cut PROVE Removed
  <2>1. Delete /\ Deselected
    BY <1>6 DEF DeleteSelected, Cut
  <2>2. annos' = annos \ Selected /\ Saves
    BY <2>1 DEF Delete, SaveHistoryState, Saves
  <2>3. Detached
    <3>1. export' = [export EXCEPT !.bound = @ /\ export.next # page,
                                   !.kept = @ \cap IdsOf(annos')]
      BY <2>1 DEF Deselected
    <3>2. export' = [export EXCEPT !.bound = (export.bound /\ export.next # page),
                                   !.kept = @ \cap IdsOf(annos')]
      BY <3>1
    <3>3. (export.bound /\ export.next # page) \in BOOLEAN
      OBVIOUS
    <3>. QED
      BY <3>2, <3>3 DEF Detached
  <2>. QED
    BY <2>2, <2>3 DEF Removed
<1>7. ASSUME RestyleText \/ SetWhiteoutColor \/ MoveMouse PROVE Changed
  <2>1. \E s \in SUBSET annos : annos' = Restyled(s)
    <3>1. CASE MoveMouse
      BY <3>1 DEF MoveMouse, Attached
    <3>2. CASE RestyleText \/ SetWhiteoutColor
      <4>1. PICK a \in Selected : annos' = Restyled({a})
        BY <3>2 DEF RestyleText, SetWhiteoutColor
      <4>2. {a} \in SUBSET annos
        BY <4>1 DEF Selected, Here
      <4>. QED
        BY <4>1, <4>2
    <3>. QED
      BY <1>7, <3>1, <3>2
  <2>2. Stacks /\ UNCHANGED export
    BY <1>7 DEF RestyleText, SetWhiteoutColor, MoveMouse, SaveHistoryState, Saves, Stacks
  <2>. QED
    BY <2>1, <2>2 DEF Changed
<1>8. ASSUME Viewing PROVE Emptied \/ Changed
  <2>1. ASSUME NEW d \in Docs, DocumentParsed(d) PROVE Emptied
    BY <2>1 DEF DocumentParsed, Detach, Emptied, Detached
  <2>2. ASSUME NEW d \in Docs, InitPdfEditorStudio(d) \/ DocumentBroken(d) PROVE Changed
    <3>1. UNCHANGED <<annos, export>> /\ Stacks
      BY <2>2 DEF InitPdfEditorStudio, DocumentBroken, Stacks
    <3>. QED
      BY <3>1, UnchangedIsChanged
  <2>3. ASSUME NEW p \in Pages, SwitchEditorPage(p) PROVE Changed
    <3>1. UNCHANGED <<annos, export>> /\ Stacks
      BY <2>3 DEF SwitchEditorPage, SaveHistoryState, Saves, Stacks
    <3>. QED
      BY <3>1, UnchangedIsChanged
  <2>4. ASSUME NEW delta \in {-1, 1}, ZoomEditor(delta) PROVE Changed
    <3>1. UNCHANGED <<annos, export>> /\ Stacks
      BY <2>4 DEF ZoomEditor, Stacks
    <3>. QED
      BY <3>1, UnchangedIsChanged
  <2>5. ASSUME NEW r \in renders, SizeCanvas(r) \/ FinishRender(r) PROVE Changed
    <3>1. UNCHANGED <<annos, export>> /\ Stacks
      BY <2>5 DEF SizeCanvas, FinishRender, Stacks
    <3>. QED
      BY <3>1, UnchangedIsChanged
  <2>. QED
    BY <1>8, <2>1, <2>2, <2>3, <2>4, <2>5 DEF Viewing
<1>9. ASSUME Exporting PROVE Exported
  BY <1>9 DEF Exporting, Exported, StartExport, ExportParsed, ExportPictures, ExportSaved, ExportFails
<1>10. ASSUME Editing PROVE Moved \/ Added \/ Changed \/ Removed
  BY <1>10, <1>2, <1>3, <1>4, <1>5, <1>6, <1>7 DEF Editing
<1>. QED
  BY <1>1, <1>8, <1>9, <1>10 DEF Next

-----------------------------------------------------------------------------
(* Types *)

ExportRecord ==
    [phase : {"idle", "parsing", "drawing"}, of : Docs \cup {NoDoc}, scale : Zooms,
     next : Nat, batch : SUBSET Annotation, bound : BOOLEAN,
     out : SUBSET [id : Ids, placed : Zooms, drawn : Zooms], kept : SUBSET Ids]

\* An export under way is of a document and has come to a page of it.
ExportIsOf ==
    export.phase # "idle" =>
        /\ export.of \in Docs
        /\ export.phase = "drawing" => export.next \in 1..(PageCount[export.of] + 1)

EditTypes ==
    /\ annos \in States /\ history \in Seq(States) /\ redo \in Seq(States)
    /\ StacksAreBounded
FileTypes ==
    /\ bytes \in Docs \cup {NoDoc} /\ doc \in Docs \cup {NoDoc}
    /\ loading \subseteq Docs
ViewTypes ==
    /\ page \in Pages /\ overlay \in Pages
    /\ zoom \in Zooms /\ canvas \in Zooms
    /\ renders \subseteq [page : Pages, sized : BOOLEAN, opening : BOOLEAN]
HandTypes ==
    /\ selected \in Ids \cup {NoId}
    /\ tool \in Tools
    /\ gesture \in [kind : {"none", "drag", "resize", "box", "stroke"},
                    id : Ids \cup {NoId}, live : BOOLEAN]
    /\ images \in 0..1
    /\ clip \in Kinds \cup {"none"}
WorkTypes == work \in 0..MaxWork
ExportTypes == export \in ExportRecord /\ ExportIsOf

EditorTypes ==
    EditTypes /\ FileTypes /\ ViewTypes /\ HandTypes /\ WorkTypes /\ ExportTypes

LEMMA TypesAreTypeOK == EditorTypes => TypeOK /\ StacksAreBounded
<1>. SUFFICES ASSUME EditorTypes PROVE TypeOK /\ StacksAreBounded
  OBVIOUS
<1>1. /\ export.phase \in {"idle", "parsing", "drawing"}
      /\ export.kept \subseteq Ids
  BY DEF EditorTypes, ExportTypes, ExportRecord
<1>. QED
  BY <1>1 DEF EditorTypes, EditTypes, FileTypes, ViewTypes, HandTypes, WorkTypes, TypeOK, States

LEMMA PageOne == 1 \in Pages
<1>1. PICK d \in Docs : PageCount[d] \in Nat \ {0}
  BY DocsAssumption
<1>2. 1 \in 1..PageCount[d]
  BY <1>1
<1>. QED
  BY <1>1, <1>2 DEF Pages

LEMMA RestyledIsTyped ==
    ASSUME annos \in States, NEW s \in SUBSET annos
    PROVE  /\ Restyled(s) \in States
           /\ \A b \in Restyled(s) : \E a \in annos : Alike(a, b)
           /\ \A a \in annos : \E b \in Restyled(s) : Alike(a, b)
           /\ IdsOf(Restyled(s)) = IdsOf(annos)
<1>1. ASSUME NEW a \in annos
      PROVE  /\ [a EXCEPT !.look = 1 - @] \in Annotation
             /\ Alike(a, [a EXCEPT !.look = 1 - @])
  <2>1. a \in Annotation
    BY DEF States
  <2>2. 1 - a.look \in 0..1
    BY <2>1 DEF Annotation
  <2>. QED
    BY <2>1, <2>2 DEF Annotation, Alike
<1>2. Restyled(s) \in States
  BY <1>1 DEF Restyled, States
<1>3. \A b \in Restyled(s) : \E a \in annos : Alike(a, b)
  BY <1>1 DEF Restyled, Alike
<1>4. \A a \in annos : \E b \in Restyled(s) : Alike(a, b)
  <2>1. TAKE a \in annos
  <2>2. CASE a \in s
    BY <1>1, <2>2 DEF Restyled
  <2>3. CASE a \notin s
    BY <2>3 DEF Restyled, Alike
  <2>. QED
    BY <2>2, <2>3
<1>5. IdsOf(Restyled(s)) = IdsOf(annos)
  BY <1>3, <1>4 DEF IdsOf, Alike
<1>. QED
  BY <1>2, <1>3, <1>4, <1>5

\* The annotations and the stacks: redo pushes without looking at the limit, but
\* what it pushes undo has popped.
LEMMA EditTypesNext ==
    ASSUME EditTypes, TypeOK, [Next]_vars
    PROVE  EditTypes'
<1>0. /\ annos \in States /\ history \in Seq(States) /\ redo \in Seq(States)
      /\ Len(history) + Len(redo) <= Cap
      /\ Len(history) \in Nat /\ Len(redo) \in Nat /\ Cap \in Nat
  BY NumbersAssumption, LenProperties DEF EditTypes, StacksAreBounded
<1>1. CASE Moved
  <2>1. CASE UndoEditor
    <3>1. /\ history # <<>> /\ redo' = Append(redo, annos)
          /\ annos' = Last(history) /\ history' = Front(history)
      BY <2>1 DEF UndoEditor
    <3>2. /\ history' \in Seq(States) /\ Len(history') = Len(history) - 1
          /\ annos' \in States
      BY <1>0, <3>1, PoppedStack
    <3>3. redo' \in Seq(States) /\ Len(redo') = Len(redo) + 1
      BY <1>0, <3>1, AppendedStack
    <3>. QED
      BY <1>0, <3>2, <3>3 DEF EditTypes, StacksAreBounded
  <2>2. CASE RedoEditor
    <3>1. /\ redo # <<>> /\ history' = Append(history, annos)
          /\ annos' = Last(redo) /\ redo' = Front(redo)
      BY <2>2 DEF RedoEditor
    <3>2. /\ redo' \in Seq(States) /\ Len(redo') = Len(redo) - 1
          /\ annos' \in States
      BY <1>0, <3>1, PoppedStack
    <3>3. history' \in Seq(States) /\ Len(history') = Len(history) + 1
      BY <1>0, <3>1, AppendedStack
    <3>. QED
      BY <1>0, <3>2, <3>3 DEF EditTypes, StacksAreBounded
  <2>. QED
    BY <1>1, <2>1, <2>2 DEF Moved
<1>2. CASE Emptied
  BY <1>0, <1>2, EmptySeq DEF Emptied, EditTypes, StacksAreBounded, States
<1>3. ASSUME Stacks
      PROVE  /\ history' \in Seq(States) /\ redo' \in Seq(States)
             /\ Len(history') + Len(redo') <= Cap
  <2>1. CASE Saves
    <3>1. Len(history) <= Cap
      BY <1>0
    <3>2. history' \in Seq(States) /\ Len(history') <= Cap /\ Len(history') \in Nat
      BY <1>0, <2>1, <3>1, PushedStack DEF Saves
    <3>3. redo' \in Seq(States) /\ Len(redo') = 0
      BY <2>1, EmptySeq DEF Saves
    <3>. QED
      BY <1>0, <3>2, <3>3
  <2>. QED
    BY <1>0, <1>3, <2>1 DEF Stacks
<1>4. CASE Added
  BY <1>0, <1>3, <1>4 DEF Added, EditTypes, StacksAreBounded, States
<1>5. CASE Changed
  BY <1>0, <1>3, <1>5, RestyledIsTyped DEF Changed, EditTypes, StacksAreBounded
<1>6. CASE Removed
  BY <1>0, <1>3, <1>6 DEF Removed, EditTypes, StacksAreBounded, States, Stacks
<1>7. CASE Exported
  BY <1>0, <1>7 DEF Exported, EditTypes, StacksAreBounded
<1>. QED
  BY <1>1, <1>2, <1>4, <1>5, <1>6, <1>7, KindsOfSteps

LEMMA FileTypesNext ==
    ASSUME FileTypes, [Next]_vars
    PROVE  FileTypes'
<1>. USE DEF FileTypes, edits, file, view, hand
<1>1. CASE UNCHANGED vars
  BY <1>1 DEF vars
<1>2. CASE Editing
  <2>1. UNCHANGED file
    BY <1>2 DEF Editing, UndoEditor, RedoEditor, PlaceAtOnce, EndBox, EndStroke,
        TypeOverWhiteout, InsertStamp, ImageLoaded, Paste, StartDrag, StartGesture,
        InsertImage, Copy, DeleteSelected, Cut, RestyleText, SetWhiteoutColor,
        StartResize, MoveMouse, EndDrag, EndResize, Deselect, SetEditorTool
  <2>. QED
    BY <2>1
<1>3. CASE Exporting
  BY <1>3 DEF Exporting, StartExport, ExportParsed, ExportPictures, ExportSaved, ExportFails
<1>4. ASSUME NEW d \in Docs,
             InitPdfEditorStudio(d) \/ DocumentParsed(d) \/ DocumentBroken(d)
      PROVE  FileTypes'
  BY <1>4 DEF InitPdfEditorStudio, DocumentParsed, DocumentBroken
<1>5. CASE Viewing
  BY <1>4, <1>5 DEF Viewing, SwitchEditorPage, ZoomEditor, SizeCanvas, FinishRender
<1>. QED
  BY <1>1, <1>2, <1>3, <1>5 DEF Next

LEMMA WorkTypesNext ==
    ASSUME WorkTypes, [Next]_vars
    PROVE  WorkTypes'
<1>. USE DEF edits, file, view, hand
<1>1. work' = work \/ Works
  <2>1. CASE Editing
    BY <2>1 DEF Editing, UndoEditor, RedoEditor, PlaceAtOnce, EndBox, EndStroke,
        TypeOverWhiteout, InsertStamp, ImageLoaded, Paste, StartDrag, StartGesture,
        InsertImage, Copy, DeleteSelected, Cut, RestyleText, SetWhiteoutColor,
        StartResize, MoveMouse, EndDrag, EndResize, Deselect, SetEditorTool,
        SaveHistoryState, Delete
  <2>2. CASE Exporting
    BY <2>2 DEF Exporting, StartExport, ExportParsed, ExportPictures, ExportSaved, ExportFails
  <2>3. CASE Viewing
    BY <2>3 DEF Viewing, InitPdfEditorStudio, DocumentParsed, DocumentBroken,
        SwitchEditorPage, ZoomEditor, SizeCanvas, FinishRender, SaveHistoryState
  <2>. QED
    BY <2>1, <2>2, <2>3 DEF Next, vars
<1>. QED
  BY <1>1, NumbersAssumption DEF WorkTypes, Works

LEMMA ViewTypesNext ==
    ASSUME ViewTypes, TypeOK, [Next]_vars
    PROVE  ViewTypes'
<1>. USE DEF edits, file, view, hand
<1>1. CASE UNCHANGED vars
  BY <1>1 DEF vars, ViewTypes
<1>2. CASE Editing
  <2>1. UNCHANGED <<page, zoom, canvas, renders>> /\ overlay' \in {overlay, page}
    BY <1>2 DEF Editing, UndoEditor, RedoEditor, PlaceAtOnce, EndBox, EndStroke,
        TypeOverWhiteout, InsertStamp, ImageLoaded, Paste, StartDrag, StartGesture,
        InsertImage, Copy, DeleteSelected, Cut, RestyleText, SetWhiteoutColor,
        StartResize, MoveMouse, EndDrag, EndResize, Deselect, SetEditorTool,
        AddAnnotation, Deselected
  <2>. QED
    BY <2>1 DEF ViewTypes
<1>3. CASE Exporting
  BY <1>3 DEF Exporting, StartExport, ExportParsed, ExportPictures, ExportSaved,
              ExportFails, ViewTypes
<1>4. ASSUME NEW p \in Pages, NEW opening \in BOOLEAN, RenderEditorPage(p, opening)
      PROVE  renders' \subseteq [page : Pages, sized : BOOLEAN, opening : BOOLEAN]
  <2>1. [page |-> p, sized |-> FALSE, opening |-> opening]
            \in [page : Pages, sized : BOOLEAN, opening : BOOLEAN]
    OBVIOUS
  <2>. QED
    BY <1>4, <2>1 DEF RenderEditorPage, ViewTypes
<1>5. ASSUME NEW d \in Docs,
             InitPdfEditorStudio(d) \/ DocumentParsed(d) \/ DocumentBroken(d)
      PROVE  ViewTypes'
  BY <1>4, <1>5, PageOne DEF InitPdfEditorStudio, DocumentParsed, DocumentBroken, ViewTypes
<1>6. ASSUME NEW p \in Pages, SwitchEditorPage(p)
      PROVE  ViewTypes'
  BY <1>4, <1>6 DEF SwitchEditorPage, ViewTypes
<1>7. ASSUME NEW delta \in {-1, 1}, ZoomEditor(delta)
      PROVE  ViewTypes'
  <2>1. zoom + delta \in Int
    BY NumbersAssumption DEF ViewTypes, Zooms
  <2>2. zoom' \in Zooms
    BY <1>7, <2>1, ClampedIsZoom DEF ZoomEditor
  <2>3. renders' \subseteq [page : Pages, sized : BOOLEAN, opening : BOOLEAN]
    <3>1. RenderEditorPage(page, FALSE) /\ page \in Pages
      BY <1>7 DEF ZoomEditor, ViewTypes
    <3>. QED
      BY <1>4, <3>1
  <2>. QED
    BY <1>7, <2>2, <2>3 DEF ZoomEditor, ViewTypes
<1>8. ASSUME NEW r \in renders, SizeCanvas(r) \/ FinishRender(r)
      PROVE  ViewTypes'
  <2>1. r \in [page : Pages, sized : BOOLEAN, opening : BOOLEAN]
    BY DEF ViewTypes
  <2>2. [r EXCEPT !.sized = TRUE] \in [page : Pages, sized : BOOLEAN, opening : BOOLEAN]
    BY <2>1
  <2>. QED
    BY <1>8, <2>2 DEF SizeCanvas, FinishRender, ViewTypes
<1>9. CASE Viewing
  BY <1>5, <1>6, <1>7, <1>8, <1>9 DEF Viewing
<1>. QED
  BY <1>1, <1>2, <1>3, <1>9 DEF Next

LEMMA HandTypesNext ==
    ASSUME HandTypes, TypeOK, [Next]_vars
    PROVE  HandTypes'
<1>. USE DEF edits, file, view, hand
<1>. DEFINE Gestures == [kind : {"none", "drag", "resize", "box", "stroke"},
                         id : Ids \cup {NoId}, live : BOOLEAN]
<1>0. /\ Idle \in Gestures
      /\ \A x \in BOOLEAN : [gesture EXCEPT !.live = x] \in Gestures
      /\ \A k \in {"box", "stroke"} : [Idle EXCEPT !.kind = k] \in Gestures
  BY DEF HandTypes, Idle
<1>1. CASE UNCHANGED vars
  BY <1>1 DEF vars, HandTypes
<1>2. ASSUME UndoEditor \/ RedoEditor PROVE HandTypes'
  BY <1>0, <1>2 DEF UndoEditor, RedoEditor, Detach, HandTypes
<1>3. ASSUME NEW id \in Ids,
             \/ PlaceAtOnce(id) \/ EndBox(id) \/ EndStroke(id) \/ TypeOverWhiteout(id)
             \/ \E kind \in {"mark", "image"} : InsertStamp(id, kind)
             \/ ImageLoaded(id) \/ Paste(id)
             \/ StartDrag(id)
      PROVE  HandTypes'
  <2>1. CASE PlaceAtOnce(id)
    BY <2>1 DEF PlaceAtOnce, HandTypes, Tools
  <2>2. CASE EndBox(id)
    BY <1>0, <2>2 DEF EndBox, HandTypes, Tools
  <2>3. CASE EndStroke(id)
    BY <1>0, <2>3 DEF EndStroke, HandTypes
  <2>4. CASE TypeOverWhiteout(id) \/ Paste(id)
    BY <2>4 DEF TypeOverWhiteout, Paste, HandTypes
  <2>5. CASE \E kind \in {"mark", "image"} : InsertStamp(id, kind)
    BY <2>5 DEF InsertStamp, HandTypes, Tools
  <2>6. CASE ImageLoaded(id)
    BY <2>6 DEF ImageLoaded, HandTypes, Tools
  <2>7. CASE StartDrag(id)
    BY <2>7 DEF StartDrag, HandTypes
  <2>. QED
    BY <1>3, <2>1, <2>2, <2>3, <2>4, <2>5, <2>6, <2>7
<1>4. ASSUME StartGesture PROVE HandTypes'
  BY <1>0, <1>4 DEF StartGesture, HandTypes
<1>5. ASSUME InsertImage \/ Copy \/ DeleteSelected \/ Cut PROVE HandTypes'
  <2>1. \A a \in Selected : a.kind \in Kinds
    BY DEF TypeOK, Selected, Here, Annotation
  <2>2. clip' \in Kinds \cup {"none"} /\ images' \in 0..1 /\ tool' = tool
    BY <1>5, <2>1 DEF InsertImage, Copy, DeleteSelected, Cut, HandTypes
  <2>3. selected' \in {selected, NoId} /\ gesture' \in Gestures
    <3>1. CASE InsertImage \/ Copy
      BY <3>1 DEF InsertImage, Copy, HandTypes
    <3>2. CASE DeleteSelected \/ Cut
      <4>1. /\ selected' = NoId
            /\ gesture' = [gesture EXCEPT !.live = @ /\ gesture.id # selected]
        BY <3>2 DEF DeleteSelected, Cut, Deselected
      <4>2. gesture' = [gesture EXCEPT !.live = (gesture.live /\ gesture.id # selected)]
        BY <4>1
      <4>3. (gesture.live /\ gesture.id # selected) \in BOOLEAN
        OBVIOUS
      <4>. QED
        BY <1>0, <4>1, <4>2, <4>3
    <3>. QED
      BY <1>5, <3>1, <3>2
  <2>. QED
    BY <2>2, <2>3 DEF HandTypes
<1>6. ASSUME RestyleText \/ SetWhiteoutColor \/ MoveMouse PROVE HandTypes'
  BY <1>6 DEF RestyleText, SetWhiteoutColor, MoveMouse, HandTypes
<1>7. ASSUME StartResize \/ EndDrag \/ EndResize \/ Deselect PROVE HandTypes'
  <2>1. CASE StartResize
    BY <2>1 DEF StartResize, HandTypes
  <2>2. CASE EndDrag \/ EndResize
    BY <1>0, <2>2 DEF EndDrag, EndResize, HandTypes
  <2>3. CASE Deselect
    BY <2>3 DEF Deselect, HandTypes
  <2>. QED
    BY <1>7, <2>1, <2>2, <2>3
<1>8. ASSUME NEW t \in Tools, SetEditorTool(t) PROVE HandTypes'
  BY <1>8 DEF SetEditorTool, HandTypes
<1>9. ASSUME Exporting PROVE HandTypes'
  BY <1>9 DEF Exporting, StartExport, ExportParsed, ExportPictures, ExportSaved,
              ExportFails, HandTypes
<1>10. ASSUME Viewing PROVE HandTypes'
  <2>1. ASSUME NEW d \in Docs,
               InitPdfEditorStudio(d) \/ DocumentParsed(d) \/ DocumentBroken(d)
        PROVE  HandTypes'
    BY <1>0, <2>1 DEF InitPdfEditorStudio, DocumentParsed, DocumentBroken, Detach, HandTypes
  <2>2. ASSUME NEW p \in Pages, SwitchEditorPage(p) PROVE HandTypes'
    BY <2>2 DEF SwitchEditorPage, HandTypes
  <2>3. ASSUME NEW delta \in {-1, 1}, ZoomEditor(delta) PROVE HandTypes'
    BY <2>3 DEF ZoomEditor, HandTypes
  <2>4. ASSUME NEW r \in renders, SizeCanvas(r) \/ FinishRender(r) PROVE HandTypes'
    BY <2>4 DEF SizeCanvas, FinishRender, HandTypes, Tools
  <2>. QED
    BY <1>10, <2>1, <2>2, <2>3, <2>4 DEF Viewing
<1>11. ASSUME Editing PROVE HandTypes'
  BY <1>11, <1>2, <1>3, <1>4, <1>5, <1>6, <1>7, <1>8 DEF Editing
<1>. QED
  BY <1>1, <1>9, <1>10, <1>11 DEF Next

-----------------------------------------------------------------------------
(* The export *)

\* One stretch of the loop over the pages.
LEMMA DrawnPages ==
    ASSUME annos \in States, NEW x \in ExportRecord, x.of \in Docs,
           NEW from \in 1..(PageCount[x.of] + 1)
    PROVE  LET y == DrawFrom(x, from)
               last == PageCount[x.of]
           IN  /\ y \in ExportRecord
               /\ y.phase = "drawing" /\ y.of = x.of /\ y.kept = x.kept
               /\ y.next \in from..(last + 1)
               /\ y.batch = OnPages({y.next})
               /\ IdsOf(x.out) \subseteq IdsOf(y.out)
               /\ \A a \in annos :
                    a.page >= from /\ a.page < y.next => a.id \in IdsOf(y.out)
<1>. DEFINE last == PageCount[x.of]
            waits == {p \in from..last : \E a \in OnPages({p}) : a.kind = "image"}
            stop == IF waits = {} THEN last + 1 ELSE Min(waits)
            drawn == Drawn(OnPages(from..(stop - 1)), x.scale)
            y == DrawFrom(x, from)
<1>1. last \in Nat /\ from \in Nat /\ from >= 1 /\ from <= last + 1
  BY DocsAssumption
<1>2. stop \in from..(last + 1)
  <2>1. CASE waits = {}
    BY <1>1, <2>1
  <2>2. CASE waits # {}
    <3>1. waits \subseteq Nat
      BY <1>1
    <3>2. Min(waits) \in waits
      BY <2>2, <3>1, Smallest
    <3>3. Min(waits) \in from..last
      BY <3>2
    <3>. QED
      BY <1>1, <2>2, <3>3
  <2>. QED
    BY <2>1, <2>2
<1>3. stop \in Nat
  BY <1>1, <1>2
<1>4. y = [x EXCEPT !.phase = "drawing", !.next = stop, !.batch = OnPages({stop}),
                    !.bound = TRUE, !.out = @ \cup drawn]
  BY DEF DrawFrom
<1>. HIDE DEF waits, stop, y
<1>5. drawn \subseteq [id : Ids, placed : Zooms, drawn : Zooms]
  <2>1. x.scale \in Zooms
    BY DEF ExportRecord
  <2>2. \A a \in OnPages(from..(stop - 1)) : a.id \in Ids /\ a.zoom \in Zooms
    BY DEF OnPages, States, Annotation
  <2>. QED
    BY <2>1, <2>2 DEF Drawn
<1>6. OnPages({stop}) \in SUBSET Annotation
  BY DEF OnPages, States
<1>. DEFINE d == drawn
<1>7. /\ d \subseteq [id : Ids, placed : Zooms, drawn : Zooms]
      /\ y = [x EXCEPT !.phase = "drawing", !.next = stop, !.batch = OnPages({stop}),
                    !.bound = TRUE, !.out = @ \cup d]
  BY <1>4, <1>5
<1>8. \A a \in annos : a.page >= from /\ a.page < stop => a.id \in IdsOf(d)
  <2>1. SUFFICES ASSUME NEW a \in annos, a.page >= from, a.page < stop
                 PROVE  a.id \in IdsOf(d)
    OBVIOUS
  <2>2. a.page \in Nat
    BY DocsAssumption DEF States, Annotation, Pages
  <2>3. a \in OnPages(from..(stop - 1))
    BY <1>1, <1>3, <2>1, <2>2 DEF OnPages
  <2>4. [id |-> a.id, placed |-> a.zoom, drawn |-> x.scale] \in d
    BY <2>3 DEF Drawn
  <2>. QED
    BY <2>4 DEF IdsOf
<1>. HIDE DEF d
<1>9. y \in ExportRecord
  BY <1>3, <1>6, <1>7 DEF ExportRecord
<1>10. /\ y.phase = "drawing" /\ y.of = x.of /\ y.kept = x.kept
       /\ y.next = stop /\ y.batch = OnPages({stop}) /\ y.out = x.out \cup d
  BY <1>7 DEF ExportRecord
<1>11. IdsOf(y.out) = IdsOf(x.out) \cup IdsOf(d)
  BY <1>10 DEF IdsOf
<1>. QED
  BY <1>2, <1>8, <1>9, <1>10, <1>11 DEF y

\* What is pushed onto the array of the page an export has come to is drawn too.
LEMMA PushedToo ==
    ASSUME ExportTypes, NEW a \in Annotation, Pushes(a)
    PROVE  /\ ExportTypes'
           /\ export'.phase = export.phase /\ export'.of = export.of
           /\ export'.next = export.next /\ export'.out = export.out
           /\ export'.kept = export.kept
           /\ export.batch \subseteq export'.batch
<1>1. export \in ExportRecord
  BY DEF ExportTypes
<1>2. \/ export' = export
      \/ export' = [export EXCEPT !.batch = @ \cup {a}]
  BY DEF Pushes
<1>3. CASE export' = export
  BY <1>3 DEF ExportTypes, ExportIsOf
<1>4. CASE export' = [export EXCEPT !.batch = @ \cup {a}]
  <2>1. export.batch \cup {a} \in SUBSET Annotation
    BY <1>1 DEF ExportRecord
  <2>2. /\ export' \in ExportRecord
        /\ export'.phase = export.phase /\ export'.of = export.of
        /\ export'.next = export.next /\ export'.out = export.out
        /\ export'.kept = export.kept
        /\ export'.batch = export.batch \cup {a}
    BY <1>1, <1>4, <2>1 DEF ExportRecord
  <2>. QED
    BY <2>2 DEF ExportTypes, ExportIsOf
<1>. QED
  BY <1>2, <1>3, <1>4

LEMMA DetachedExport ==
    ASSUME ExportTypes, Detached
    PROVE  /\ ExportTypes'
           /\ export'.phase = export.phase /\ export'.of = export.of
           /\ export'.next = export.next /\ export'.out = export.out
           /\ export'.batch = export.batch
           /\ export'.kept = export.kept \cap IdsOf(annos')
<1>1. export \in ExportRecord
  BY DEF ExportTypes
<1>2. PICK x \in BOOLEAN :
        export' = [export EXCEPT !.bound = x, !.kept = @ \cap IdsOf(annos')]
  BY DEF Detached
<1>3. \A k : export.kept \cap k \in SUBSET Ids
  BY <1>1 DEF ExportRecord
<1>4. /\ export' \in ExportRecord
      /\ export'.phase = export.phase /\ export'.of = export.of
      /\ export'.next = export.next /\ export'.out = export.out
      /\ export'.batch = export.batch
      /\ export'.kept = export.kept \cap IdsOf(annos')
  BY <1>1, <1>2, <1>3 DEF ExportRecord
<1>. QED
  BY <1>4 DEF ExportTypes, ExportIsOf

LEMMA NoExportIsTyped == NoExport \in ExportRecord /\ NoExport.phase = "idle" /\ NoExport.kept = {}
  BY NumbersAssumption DEF NoExport, ExportRecord, Zooms

\* The steps of the export itself.
LEMMA StartedExport ==
    ASSUME EditTypes, FileTypes, StartExport
    PROVE  /\ ExportTypes' /\ export'.phase = "parsing" /\ export'.of = bytes /\ bytes \in Docs
           /\ export'.kept = IdsOf({a \in annos : a.kind # "image" /\ a.page <= PageCount[bytes]})
<1>. DEFINE kept == IdsOf({a \in annos : a.kind # "image" /\ a.page <= PageCount[bytes]})
<1>1. bytes \in Docs /\ export' = [NoExport EXCEPT !.phase = "parsing", !.of = bytes, !.kept = kept]
  BY DEF StartExport, FileTypes
<1>2. kept \in SUBSET Ids
  BY DEF EditTypes, States, Annotation, IdsOf
<1>. HIDE DEF kept
<1>3. export' \in ExportRecord /\ export'.phase = "parsing" /\ export'.of = bytes /\ export'.kept = kept
  BY <1>1, <1>2, NoExportIsTyped DEF ExportRecord
<1>. QED
  BY <1>1, <1>3 DEF ExportTypes, ExportIsOf, kept

LEMMA ParsedExport ==
    ASSUME EditTypes, ViewTypes, ExportTypes, ExportParsed
    PROVE  /\ ExportTypes' /\ export'.phase = "drawing" /\ export'.of = export.of
           /\ export'.kept = export.kept
           /\ export'.batch = OnPages({export'.next})
           /\ \A a \in annos :
                a.page >= 1 /\ a.page < export'.next => a.id \in IdsOf(export'.out)
<1>. DEFINE x == [export EXCEPT !.scale = canvas]
<1>1. export \in ExportRecord /\ export.of \in Docs /\ canvas \in Zooms
  BY DEF ExportTypes, ExportIsOf, ExportParsed, ViewTypes
<1>2. x \in ExportRecord /\ x.of = export.of /\ x.kept = export.kept
  BY <1>1 DEF ExportRecord
<1>3. 1 \in 1..(PageCount[x.of] + 1)
  BY <1>1, <1>2, DocsAssumption
<1>4. export' = DrawFrom(x, 1) /\ annos \in States
  BY DEF ExportParsed, EditTypes
<1>. HIDE DEF x
<1>5. /\ export' \in ExportRecord
      /\ export'.phase = "drawing" /\ export'.of = x.of /\ export'.kept = x.kept
      /\ export'.next \in 1..(PageCount[x.of] + 1)
      /\ export'.batch = OnPages({export'.next})
      /\ \A a \in annos :
           a.page >= 1 /\ a.page < export'.next => a.id \in IdsOf(export'.out)
  BY <1>1, <1>2, <1>3, <1>4, DrawnPages
<1>. QED
  BY <1>1, <1>2, <1>5 DEF ExportTypes, ExportIsOf

LEMMA PicturedExport ==
    ASSUME EditTypes, ExportTypes, ExportPictures
    PROVE  /\ ExportTypes' /\ export'.phase = "drawing" /\ export'.of = export.of
           /\ export'.kept = export.kept
           /\ export'.batch = OnPages({export'.next})
           /\ IdsOf(export.out) \subseteq IdsOf(export'.out)
           /\ \A b \in export.batch : b.kind # "image" => b.id \in IdsOf(export'.out)
           /\ export.next \in Nat /\ export'.next >= export.next + 1
           /\ \A a \in annos :
                a.page >= export.next + 1 /\ a.page < export'.next => a.id \in IdsOf(export'.out)
<1>1. /\ export \in ExportRecord /\ export.of \in Docs /\ export.phase = "drawing"
      /\ export.next \in 1..PageCount[export.of] /\ PageCount[export.of] \in Nat
  BY DocsAssumption DEF ExportTypes, ExportIsOf, ExportPictures
<1>2. PICK lost \in SUBSET {a \in export.batch : a.kind = "image"} :
        export' = DrawFrom(
            [export EXCEPT !.out = @ \cup Drawn(export.batch \ lost, export.scale)],
            export.next + 1)
  BY DEF ExportPictures
<1>. DEFINE d == Drawn(export.batch \ lost, export.scale)
            x == [export EXCEPT !.out = @ \cup d]
<1>3. d \subseteq [id : Ids, placed : Zooms, drawn : Zooms]
  <2>1. export.scale \in Zooms
    BY <1>1 DEF ExportRecord
  <2>2. \A a \in export.batch : a.id \in Ids /\ a.zoom \in Zooms
    BY <1>1 DEF ExportRecord, Annotation
  <2>. QED
    BY <2>1, <2>2 DEF Drawn
<1>4. \A b \in export.batch : b.kind # "image" => b.id \in IdsOf(d)
  <2>1. SUFFICES ASSUME NEW b \in export.batch, b.kind # "image" PROVE b.id \in IdsOf(d)
    OBVIOUS
  <2>2. b \in export.batch \ lost
    BY <1>2, <2>1
  <2>3. [id |-> b.id, placed |-> b.zoom, drawn |-> export.scale] \in d
    BY <2>2 DEF Drawn
  <2>. QED
    BY <2>3 DEF IdsOf
<1>. HIDE DEF d
<1>5. /\ x \in ExportRecord /\ x.of = export.of /\ x.kept = export.kept
      /\ x.out = export.out \cup d
  BY <1>1, <1>3 DEF ExportRecord
<1>6. IdsOf(x.out) = IdsOf(export.out) \cup IdsOf(d)
  BY <1>5 DEF IdsOf
<1>7. export.next + 1 \in 1..(PageCount[x.of] + 1)
  BY <1>1, <1>5
<1>8. export' = DrawFrom(x, export.next + 1) /\ annos \in States
  BY <1>2 DEF EditTypes, d
<1>. HIDE DEF x
<1>9. /\ export' \in ExportRecord
      /\ export'.phase = "drawing" /\ export'.of = x.of /\ export'.kept = x.kept
      /\ export'.next \in (export.next + 1)..(PageCount[x.of] + 1)
      /\ export'.batch = OnPages({export'.next})
      /\ IdsOf(x.out) \subseteq IdsOf(export'.out)
      /\ \A a \in annos :
           a.page >= export.next + 1 /\ a.page < export'.next => a.id \in IdsOf(export'.out)
  BY <1>1, <1>5, <1>7, <1>8, DrawnPages
<1>10. export'.next \in 1..(PageCount[x.of] + 1) /\ export'.next >= export.next + 1
  BY <1>1, <1>5, <1>9
<1>11. ExportTypes'
  BY <1>1, <1>5, <1>9, <1>10 DEF ExportTypes, ExportIsOf
<1>12. /\ IdsOf(export.out) \subseteq IdsOf(export'.out)
       /\ IdsOf(d) \subseteq IdsOf(export'.out)
  BY <1>6, <1>9
<1>13. \A b \in export.batch : b.kind # "image" => b.id \in IdsOf(export'.out)
  BY <1>4, <1>12
<1>14. export.next \in Nat
  BY <1>1
<1>15. export'.kept = export.kept /\ export'.of = export.of
  BY <1>5, <1>9
<1>. QED
  BY <1>9, <1>10, <1>11, <1>12, <1>13, <1>14, <1>15

LEMMA ExportTypesNext ==
    ASSUME EditorTypes, [Next]_vars
    PROVE  ExportTypes'
<1>. USE DEF EditorTypes
<1>1. CASE Moved \/ Emptied \/ Removed
  BY <1>1, DetachedExport DEF Moved, Emptied, Removed
<1>2. CASE Added
  BY <1>2, PushedToo DEF Added
<1>3. CASE Changed
  BY <1>3 DEF Changed, ExportTypes, ExportIsOf
<1>4. CASE Exported
  <2>1. CASE ExportSaved \/ ExportFails
    BY <2>1, NoExportIsTyped DEF ExportSaved, ExportFails, ExportTypes, ExportIsOf
  <2>. QED
    BY <1>4, <2>1, StartedExport, ParsedExport, PicturedExport DEF Exported, Exporting
<1>. QED
  BY <1>1, <1>2, <1>3, <1>4, KindsOfSteps, TypesAreTypeOK

LEMMA EditorTypesInit == Init => EditorTypes
<1>. SUFFICES ASSUME Init PROVE EditorTypes
  OBVIOUS
<1>1. EditTypes /\ FileTypes /\ WorkTypes
  BY NumbersAssumption, EmptySeq
     DEF Init, EditTypes, FileTypes, WorkTypes, States, StacksAreBounded
<1>2. ViewTypes /\ HandTypes
  BY NumbersAssumption, PageOne DEF Init, ViewTypes, HandTypes, Zooms, Tools, Idle
<1>3. ExportTypes
  BY NoExportIsTyped DEF Init, ExportTypes, ExportIsOf
<1>. QED
  BY <1>1, <1>2, <1>3 DEF EditorTypes

LEMMA EditorTypesNext ==
    ASSUME EditorTypes, [Next]_vars
    PROVE  EditorTypes'
<1>1. TypeOK
  BY TypesAreTypeOK
<1>. QED
  BY <1>1, EditTypesNext, FileTypesNext, ViewTypesNext, HandTypesNext, WorkTypesNext,
     ExportTypesNext DEF EditorTypes

-----------------------------------------------------------------------------
(* What an export is complete of *)

\* An annotation keeps its page and kind, on the pages and on the stacks.
Steady == \A a \in Everything, b \in Everything : a.id = b.id => Alike(a, b)

\* What was kept since the export began is still there, and it is drawn, or among
\* what is to be drawn on the page the export has come to, or on a later page.
Waits(a) ==
    export.phase = "drawing" =>
        /\ a.page < export.next => a.id \in IdsOf(export.out)
        /\ a.page = export.next => \E b \in export.batch : b.id = a.id /\ b.kind # "image"
Kept(a) ==
    /\ a.kind # "image"
    /\ a.page <= PageCount[export.of]
    /\ Waits(a)
KeptAreThere ==
    \A id \in export.kept :
        export.phase # "idle" /\ \E a \in annos : a.id = id /\ Kept(a)

EditorInv == EditorTypes /\ Steady /\ KeptAreThere

LEMMA UsedIds == Used = IdsOf(Everything)
  BY DEF Used, Everything, IdsOf

\* Steps that bring no annotation that was not somewhere before.
LEMMA NothingNew ==
    ASSUME Steady, \A b \in Everything' : \E a \in Everything : Alike(a, b)
    PROVE  Steady'
<1>1. SUFFICES ASSUME NEW b \in Everything', NEW c \in Everything', b.id = c.id
               PROVE  Alike(b, c)
  BY DEF Steady, Alike
<1>2. PICK a \in Everything : Alike(a, b)
  OBVIOUS
<1>3. PICK d \in Everything : Alike(d, c)
  OBVIOUS
<1>. QED
  BY <1>1, <1>2, <1>3 DEF Steady, Alike

\* The stacks after a step that saves or leaves them alone.
LEMMA StacksHold ==
    ASSUME EditTypes, Stacks
    PROVE  UNION (Range(history') \cup Range(redo')) \subseteq Everything
<1>1. CASE Saves
  <2>1. Len(history) <= Cap /\ history \in Seq(States) /\ annos \in States
    <3>1. Len(history) \in Nat /\ Len(redo) \in Nat /\ Len(history) + Len(redo) <= Cap
      BY LenProperties DEF EditTypes, StacksAreBounded
    <3>. QED
      BY <3>1, NumbersAssumption DEF EditTypes
  <2>2. Range(history') \subseteq Range(history) \cup {annos}
    BY <1>1, <2>1, PushedStack DEF Saves
  <2>3. Range(redo') = {}
    BY <1>1 DEF Saves, Range
  <2>. QED
    BY <2>2, <2>3 DEF Everything
<1>. QED
  BY <1>1 DEF Stacks, Everything

LEMMA MovedStacks ==
    ASSUME EditTypes, Moved
    PROVE  /\ annos' \in Range(history) \cup Range(redo)
           /\ annos \in Range(history') \cup Range(redo')
           /\ Everything' \subseteq Everything
<1>1. annos \in States /\ history \in Seq(States) /\ redo \in Seq(States)
  BY DEF EditTypes
<1>2. CASE UndoEditor
  <2>1. /\ history # <<>> /\ redo' = Append(redo, annos)
        /\ annos' = Last(history) /\ history' = Front(history)
    BY <1>2 DEF UndoEditor
  <2>2. /\ Range(history') \subseteq Range(history) /\ annos' \in Range(history)
    BY <1>1, <2>1, PoppedStack
  <2>3. Range(redo') \subseteq Range(redo) \cup {annos} /\ annos \in Range(redo')
    BY <1>1, <2>1, AppendedStack
  <2>. QED
    BY <2>2, <2>3 DEF Everything
<1>3. CASE RedoEditor
  <2>1. /\ redo # <<>> /\ history' = Append(history, annos)
        /\ annos' = Last(redo) /\ redo' = Front(redo)
    BY <1>3 DEF RedoEditor
  <2>2. /\ Range(redo') \subseteq Range(redo) /\ annos' \in Range(redo)
    BY <1>1, <2>1, PoppedStack
  <2>3. Range(history') \subseteq Range(history) \cup {annos} /\ annos \in Range(history')
    BY <1>1, <2>1, AppendedStack
  <2>. QED
    BY <2>2, <2>3 DEF Everything
<1>. QED
  BY <1>2, <1>3 DEF Moved

LEMMA SteadyNext ==
    ASSUME EditorTypes, Steady, [Next]_vars
    PROVE  Steady'
<1>0. EditTypes /\ TypeOK
  BY TypesAreTypeOK DEF EditorTypes
<1>1. CASE Moved
  BY <1>0, <1>1, MovedStacks, NothingNew DEF Alike
<1>2. CASE Emptied
  BY <1>2, NothingNew DEF Emptied, Everything, Range
<1>3. CASE Added
  <2>1. PICK n \in Annotation :
            n.id \notin Used /\ annos' = annos \cup {n} /\ Pushes(n) /\ Stacks
    BY <1>3 DEF Added
  <2>2. Everything' \subseteq Everything \cup {n}
    BY <1>0, <2>1, StacksHold DEF Everything
  <2>3. \A e \in Everything : e.id # n.id
    BY <2>1, UsedIds DEF IdsOf
  <2>. QED
    BY <2>2, <2>3 DEF Steady, Alike
<1>4. CASE Changed
  <2>1. PICK s \in SUBSET annos : annos' = Restyled(s) /\ Stacks
    BY <1>4 DEF Changed
  <2>2. \A b \in annos' : \E a \in annos : Alike(a, b)
    BY <1>0, <2>1, RestyledIsTyped DEF EditTypes
  <2>3. \A b \in Everything' : b \in annos' \/ b \in Everything
    BY <1>0, <2>1, StacksHold DEF Everything
  <2>4. annos \subseteq Everything
    BY DEF Everything
  <2>. QED
    BY <2>2, <2>3, <2>4, NothingNew DEF Alike
<1>5. CASE Removed
  <2>1. annos' \subseteq annos /\ Stacks
    BY <1>5 DEF Removed, Stacks
  <2>2. Everything' \subseteq Everything
    BY <1>0, <2>1, StacksHold DEF Everything
  <2>. QED
    BY <2>2, NothingNew DEF Alike
<1>6. CASE Exported
  BY <1>6, NothingNew DEF Exported, Everything, Alike
<1>. QED
  BY <1>0, <1>1, <1>2, <1>3, <1>4, <1>5, <1>6, KindsOfSteps

LEMMA PagesAreNumbers == \A a \in Annotation : a.page \in Nat /\ a.page >= 1
  BY DocsAssumption DEF Annotation, Pages

\* While the export only loses objects, what is kept stays where it was.
LEMMA KeptInDetached ==
    ASSUME ExportTypes, KeptAreThere, Steady, Detached,
           \A b \in annos' : b \in Everything
    PROVE  KeptAreThere'
<1>1. /\ export'.phase = export.phase /\ export'.of = export.of
      /\ export'.next = export.next /\ export'.out = export.out
      /\ export'.batch = export.batch
      /\ export'.kept = export.kept \cap IdsOf(annos')
  BY DetachedExport
<1>2. SUFFICES ASSUME NEW id \in export'.kept
               PROVE  export'.phase # "idle" /\ \E b \in annos' : b.id = id /\ Kept(b)'
  BY DEF KeptAreThere
<1>3. id \in export.kept /\ id \in IdsOf(annos')
  BY <1>1
<1>4. PICK a \in annos : a.id = id /\ Kept(a)
  BY <1>3 DEF KeptAreThere
<1>5. PICK b \in annos' : b.id = id
  BY <1>3 DEF IdsOf
<1>6. Alike(a, b)
  BY <1>4, <1>5 DEF Steady, Everything
<1>7. Kept(b)'
  BY <1>1, <1>4, <1>5, <1>6 DEF Kept, Waits, Alike
<1>. QED
  BY <1>1, <1>3, <1>5, <1>7 DEF KeptAreThere

\* While the export stands still, what is kept may be changed but stays.
LEMMA KeptInPlace ==
    ASSUME KeptAreThere,
           export'.phase = export.phase, export'.of = export.of,
           export'.next = export.next, export'.out = export.out,
           export'.kept = export.kept, export.batch \subseteq export'.batch,
           \A a \in annos : \E b \in annos' : Alike(a, b)
    PROVE  KeptAreThere'
<1>1. SUFFICES ASSUME NEW id \in export'.kept
               PROVE  export'.phase # "idle" /\ \E b \in annos' : b.id = id /\ Kept(b)'
  BY DEF KeptAreThere
<1>2. PICK a \in annos : a.id = id /\ Kept(a)
  BY DEF KeptAreThere
<1>3. PICK b \in annos' : Alike(a, b)
  OBVIOUS
<1>4. Kept(b)'
  BY <1>2, <1>3 DEF Kept, Waits, Alike
<1>. QED
  BY <1>2, <1>3, <1>4 DEF KeptAreThere, Alike

LEMMA KeptInExport ==
    ASSUME EditorTypes, KeptAreThere, Exported
    PROVE  KeptAreThere'
<1>0. /\ EditTypes /\ FileTypes /\ ViewTypes /\ ExportTypes
      /\ \A a \in annos : a \in Annotation /\ a.page \in Nat /\ a.page >= 1
  BY PagesAreNumbers DEF EditorTypes, EditTypes, States
<1>1. annos' = annos
  BY DEF Exported
<1>2. CASE StartExport
  <2>1. /\ export'.phase = "parsing" /\ export'.of = bytes
        /\ export'.kept = IdsOf({a \in annos : a.kind # "image" /\ a.page <= PageCount[bytes]})
    BY <1>0, <1>2, StartedExport
  <2>2. \A a \in annos : a.kind # "image" /\ a.page <= PageCount[bytes] => Kept(a)'
    BY <2>1 DEF Kept, Waits
  <2>3. \A id \in export'.kept :
            \E a \in annos : a.id = id /\ a.kind # "image" /\ a.page <= PageCount[bytes]
    BY <2>1 DEF IdsOf
  <2>. QED
    BY <1>1, <2>1, <2>2, <2>3 DEF KeptAreThere
<1>3. CASE ExportParsed
  <2>1. /\ export'.phase = "drawing" /\ export'.of = export.of
        /\ export'.kept = export.kept
        /\ export'.batch = OnPages({export'.next})
        /\ \A a \in annos :
             a.page >= 1 /\ a.page < export'.next => a.id \in IdsOf(export'.out)
    BY <1>0, <1>3, ParsedExport
  <2>2. \A a \in annos : Kept(a) => Kept(a)'
    <3>1. SUFFICES ASSUME NEW a \in annos, Kept(a) PROVE Kept(a)'
      OBVIOUS
    <3>2. a.page < export'.next => a.id \in IdsOf(export'.out)
      BY <1>0, <2>1
    <3>3. a.page = export'.next => a \in export'.batch
      BY <2>1 DEF OnPages
    <3>. QED
      BY <2>1, <3>1, <3>2, <3>3 DEF Kept, Waits
  <2>. QED
    BY <1>1, <2>1, <2>2 DEF KeptAreThere
<1>4. CASE ExportPictures
  <2>1. /\ export'.phase = "drawing" /\ export'.of = export.of
        /\ export'.kept = export.kept
        /\ export'.batch = OnPages({export'.next})
        /\ IdsOf(export.out) \subseteq IdsOf(export'.out)
        /\ \A b \in export.batch : b.kind # "image" => b.id \in IdsOf(export'.out)
        /\ export.next \in Nat /\ export'.next >= export.next + 1
        /\ \A a \in annos :
             a.page >= export.next + 1 /\ a.page < export'.next => a.id \in IdsOf(export'.out)
    BY <1>0, <1>4, PicturedExport
  <2>2. \A a \in annos : Kept(a) => Kept(a)'
    <3>1. SUFFICES ASSUME NEW a \in annos, Kept(a) PROVE Kept(a)'
      OBVIOUS
    <3>2. export.phase = "drawing"
      BY <1>4 DEF ExportPictures
    <3>3. a.page < export'.next => a.id \in IdsOf(export'.out)
      <4>1. CASE a.page < export.next
        BY <2>1, <3>1, <3>2, <4>1 DEF Kept, Waits
      <4>2. CASE a.page = export.next
        <5>1. PICK b \in export.batch : b.id = a.id /\ b.kind # "image"
          BY <3>1, <3>2, <4>2 DEF Kept, Waits
        <5>. QED
          BY <2>1, <5>1
      <4>3. CASE a.page >= export.next + 1
        BY <2>1, <4>3
      <4>. QED
        BY <1>0, <2>1, <4>1, <4>2, <4>3
    <3>4. a.page = export'.next => a \in export'.batch
      BY <2>1 DEF OnPages
    <3>. QED
      BY <2>1, <3>1, <3>3, <3>4 DEF Kept, Waits
  <2>. QED
    BY <1>1, <2>1, <2>2 DEF KeptAreThere
<1>5. CASE ExportSaved \/ ExportFails
  <2>1. export'.kept = {}
    BY <1>5, NoExportIsTyped DEF ExportSaved, ExportFails
  <2>. QED
    BY <2>1 DEF KeptAreThere
<1>. QED
  BY <1>2, <1>3, <1>4, <1>5 DEF Exported, Exporting

LEMMA KeptNext ==
    ASSUME EditorInv, [Next]_vars
    PROVE  KeptAreThere'
<1>0. EditTypes /\ ExportTypes /\ TypeOK /\ Steady /\ KeptAreThere
  BY TypesAreTypeOK DEF EditorInv, EditorTypes
<1>1. CASE Moved
  <2>1. \A b \in annos' : b \in Everything
    BY <1>0, <1>1, MovedStacks DEF Everything
  <2>. QED
    BY <1>0, <1>1, <2>1, KeptInDetached DEF Moved
<1>2. CASE Emptied
  BY <1>0, <1>2, KeptInDetached DEF Emptied
<1>3. CASE Added
  <2>1. PICK n \in Annotation : annos' = annos \cup {n} /\ Pushes(n)
    BY <1>3 DEF Added
  <2>2. \A a \in annos : \E b \in annos' : Alike(a, b)
    BY <2>1 DEF Alike
  <2>. QED
    BY <1>0, <2>1, <2>2, PushedToo, KeptInPlace
<1>4. CASE Changed
  <2>1. PICK s \in SUBSET annos : annos' = Restyled(s)
    BY <1>4 DEF Changed
  <2>2. \A a \in annos : \E b \in annos' : Alike(a, b)
    BY <1>0, <2>1, RestyledIsTyped DEF EditTypes
  <2>. QED
    BY <1>0, <1>4, <2>2, KeptInPlace DEF Changed
<1>5. CASE Removed
  <2>1. \A b \in annos' : b \in Everything
    BY <1>5 DEF Removed, Everything
  <2>. QED
    BY <1>0, <1>5, <2>1, KeptInDetached DEF Removed
<1>6. CASE Exported
  BY <1>6, KeptInExport DEF EditorInv
<1>. QED
  BY <1>0, <1>1, <1>2, <1>3, <1>4, <1>5, <1>6, KindsOfSteps

-----------------------------------------------------------------------------
(* The invariant holds always, and what follows from it. *)

\* The types of the editor, the bound of its stacks, the annotations' ids and what
\* an export keeps (pdf-editor-studio.js:17-54, 1080-1331).
THEOREM EditorInvHolds == Spec => []EditorInv
<1>1. Init => EditorInv
  <2>1. Init => Steady /\ KeptAreThere
    BY NoExportIsTyped DEF Init, Steady, KeptAreThere, Everything, Range
  <2>. QED
    BY <2>1, EditorTypesInit DEF EditorInv
<1>2. EditorInv /\ [Next]_vars => EditorInv'
  BY EditorTypesNext, SteadyNext, KeptNext DEF EditorInv
<1>. QED
  BY <1>1, <1>2, PTL DEF Spec

\* The editor's annotations, stacks and pending work fit each other, and undo and
\* redo together never hold more states than the limit of either.
THEOREM EditorSoundness == Spec => []EditorIsSound
<1>1. EditorInv => EditorIsSound
  BY TypesAreTypeOK DEF EditorInv, EditorIsSound
<1>. QED
  BY <1>1, EditorInvHolds, PTL

\* Whatever disappears from the pages is on one of the stacks, unless another
\* document was opened.
THEOREM NothingDeletedIsLost == Spec => NothingIsLost
<1>1. ASSUME EditorInv, [Next]_vars,
             IdsOf(annos) \ IdsOf(annos') # {}, ~\E d \in Docs : DocumentParsed(d)
      PROVE  annos \in Range(history') \cup Range(redo')
  <2>0. EditTypes /\ TypeOK
    BY <1>1, TypesAreTypeOK DEF EditorInv, EditorTypes
  <2>1. CASE Moved
    BY <2>0, <2>1, MovedStacks
  <2>2. CASE Added
    <3>1. annos \subseteq annos'
      BY <2>2 DEF Added
    <3>. QED
      BY <1>1, <3>1 DEF IdsOf
  <2>3. CASE Changed
    <3>1. IdsOf(annos') = IdsOf(annos)
      BY <2>0, <2>3, RestyledIsTyped DEF Changed, EditTypes
    <3>. QED
      BY <1>1, <3>1
  <2>4. CASE Removed
    <3>1. history' = Pushed(history)
      BY <2>4 DEF Removed, Saves
    <3>2. /\ history \in Seq(States) /\ redo \in Seq(States) /\ annos \in States
          /\ Len(history) + Len(redo) <= Cap
      BY <2>0 DEF EditTypes, StacksAreBounded
    <3>3. Len(history) <= Cap
      BY <3>2, LenProperties, NumbersAssumption
    <3>. QED
      BY <3>1, <3>2, <3>3, PushedStack
  <2>5. CASE Exported
    BY <1>1, <2>5 DEF Exported
  <2>. QED
    BY <1>1, <2>0, <2>1, <2>2, <2>3, <2>4, <2>5, KindsOfSteps DEF Emptied
<1>. QED
  BY <1>1, EditorInvHolds, PTL DEF Spec, NothingIsLost

\* What was on a page of the document from the start of an export to its end is in
\* the exported file.
THEOREM ExportsAreComplete == Spec => ExportIsComplete
<1>1. ASSUME EditorInv, ExportSaved PROVE export.kept \subseteq IdsOf(export.out)
  <2>1. SUFFICES ASSUME NEW id \in export.kept PROVE id \in IdsOf(export.out)
    OBVIOUS
  <2>2. PICK a \in annos : a.id = id /\ Kept(a)
    BY <1>1 DEF EditorInv, KeptAreThere
  <2>3. a.page \in Nat
    BY <1>1, PagesAreNumbers DEF EditorInv, EditorTypes, EditTypes, States
  <2>4. /\ export.phase = "drawing" /\ export.next \in Nat
        /\ export.next > PageCount[export.of] /\ PageCount[export.of] \in Nat
    <3>1. export \in ExportRecord /\ export.of \in Docs
      BY <1>1 DEF EditorInv, EditorTypes, ExportTypes, ExportIsOf, ExportSaved
    <3>. QED
      BY <1>1, <3>1, DocsAssumption DEF ExportSaved, ExportRecord
  <2>. QED
    BY <2>2, <2>3, <2>4 DEF Kept, Waits
<1>2. EditorInv /\ [Next]_vars => [ExportSaved => export.kept \subseteq IdsOf(export.out)]_vars
  BY <1>1
<1>. QED
  BY <1>2, EditorInvHolds, PTL DEF Spec, ExportIsComplete

-----------------------------------------------------------------------------
(* The refinement: the saved states, the present one and the undone ones, *)
(* read backwards, are one line.                                          *)

Line(h, a, r) == h \o <<a>> \o Reverse(r)

\* What is where on the line.
IsLine(line, h, a, r) ==
    /\ line \in Seq(States)
    /\ Len(line) = Len(h) + 1 + Len(r)
    /\ \A i \in 1..Len(h) : line[i] = h[i]
    /\ line[Len(h) + 1] = a
    /\ \A i \in (Len(h) + 2)..(Len(h) + 1 + Len(r)) :
        line[i] = r[Len(h) + Len(r) + 2 - i]

LEMMA LineShape ==
    ASSUME NEW h \in Seq(States), NEW a \in States, NEW r \in Seq(States)
    PROVE  IsLine(Line(h, a, r), h, a, r)
<1>. DEFINE n == Len(h)
            m == Len(r)
            back == Reverse(r)
            front == h \o <<a>>
            line == Line(h, a, r)
<1>1. n \in Nat /\ m \in Nat
  BY LenProperties
<1>2. /\ back \in Seq(States) /\ Len(back) = m
      /\ \A j \in 1..m : back[j] = r[m - j + 1]
  <2>1. back = [j \in 1..m |-> r[(m - j) + 1]]
    BY DEF Reverse
  <2>2. \A j \in 1..m : (m - j) + 1 \in 1..m /\ r[(m - j) + 1] \in States
    BY <1>1, ElementOfSeq
  <2>3. back \in Seq(States)
    BY <1>1, <2>1, <2>2, SeqDef
  <2>4. Len(back) = m
    BY <1>1, <2>1, <2>3
  <2>. QED
    BY <1>1, <2>1, <2>3, <2>4
<1>3. <<a>> \in Seq(States) /\ Len(<<a>>) = 1 /\ <<a>>[1] = a
  OBVIOUS
<1>4. /\ front \in Seq(States) /\ Len(front) = n + 1
      /\ \A i \in 1..n : front[i] = h[i]
      /\ front[n + 1] = a
  <2>1. /\ front \in Seq(States) /\ Len(front) = n + 1
        /\ \A i \in 1..(n + 1) : front[i] = IF i <= n THEN h[i] ELSE <<a>>[i - n]
    BY <1>3, ConcatProperties
  <2>2. n + 1 \in 1..(n + 1) /\ ~(n + 1 <= n) /\ (n + 1) - n = 1
    BY <1>1
  <2>3. front[n + 1] = a
    BY <1>3, <2>1, <2>2
  <2>4. \A i \in 1..n : i \in 1..(n + 1) /\ i <= n
    BY <1>1
  <2>. QED
    BY <2>1, <2>3, <2>4
<1>5. line = front \o back
  BY DEF Line
<1>. HIDE DEF back, front, line, n, m
<1>6. /\ line \in Seq(States) /\ Len(line) = (n + 1) + m
      /\ \A i \in 1..((n + 1) + m) :
            line[i] = IF i <= n + 1 THEN front[i] ELSE back[i - (n + 1)]
  BY <1>2, <1>4, <1>5, ConcatProperties
<1>7. \A i \in 1..(n + 1) : line[i] = front[i]
  BY <1>1, <1>6
<1>8. \A i \in (n + 2)..(n + 1 + m) : line[i] = r[n + m + 2 - i]
  <2>1. TAKE i \in (n + 2)..(n + 1 + m)
  <2>2. /\ i \in 1..((n + 1) + m) /\ ~(i <= n + 1) /\ i - (n + 1) \in 1..m
        /\ m - (i - (n + 1)) + 1 = n + m + 2 - i
    BY <1>1
  <2>. QED
    BY <1>2, <1>6, <2>2
<1>9. \A i \in 1..n : line[i] = h[i]
  BY <1>1, <1>4, <1>7
<1>10. line[n + 1] = a
  BY <1>1, <1>4, <1>7
<1>. QED
  BY <1>1, <1>6, <1>8, <1>9, <1>10 DEF line, n, m, IsLine

\* Undoing moves a state from one end of the stacks to the other.
LEMMA UndoneLine ==
    ASSUME NEW h \in Seq(States), NEW a \in States, NEW r \in Seq(States), h # <<>>
    PROVE  Line(Front(h), Last(h), Append(r, a)) = Line(h, a, r)
<1>. DEFINE n == Len(h)
            m == Len(r)
            was == Line(h, a, r)
            is == Line(Front(h), Last(h), Append(r, a))
<1>1. n \in Nat /\ m \in Nat /\ n >= 1
  BY LenProperties, EmptySeq
<1>2. /\ Front(h) \in Seq(States) /\ Len(Front(h)) = n - 1 /\ Last(h) \in States
      /\ \A i \in 1..(n - 1) : Front(h)[i] = h[i]
  BY PoppedStack
<1>3. /\ Append(r, a) \in Seq(States) /\ Len(Append(r, a)) = m + 1
      /\ \A i \in 1..m : Append(r, a)[i] = r[i]
      /\ Append(r, a)[m + 1] = a
  BY AppendProperties
<1>. DEFINE f == Front(h)
            q == Append(r, a)
<1>4. IsLine(was, h, a, r)
  BY LineShape
<1>5. IsLine(is, f, Last(h), q)
  BY <1>2, <1>3, LineShape
<1>6. Last(h) = h[n]
  BY DEF Last
<1>7. /\ Len(f) = n - 1 /\ Len(q) = m + 1
      /\ \A i \in 1..(n - 1) : f[i] = h[i]
      /\ \A i \in 1..m : q[i] = r[i]
      /\ q[m + 1] = a
  BY <1>2, <1>3
<1>. HIDE DEF n, m, was, is, f, q
<1>11. /\ was \in Seq(States) /\ Len(was) = n + 1 + m
       /\ \A i \in 1..n : was[i] = h[i]
       /\ was[n + 1] = a
       /\ \A i \in (n + 2)..(n + 1 + m) : was[i] = r[n + m + 2 - i]
  BY <1>4 DEF IsLine, n, m
<1>12. /\ is \in Seq(States) /\ Len(is) = Len(f) + 1 + Len(q)
       /\ \A i \in 1..Len(f) : is[i] = f[i]
       /\ is[Len(f) + 1] = Last(h)
       /\ \A i \in (Len(f) + 2)..(Len(f) + 1 + Len(q)) : is[i] = q[Len(f) + Len(q) + 2 - i]
  BY <1>5 DEF IsLine
<1>8. Len(is) = n + 1 + m
  BY <1>1, <1>7, <1>12
<1>9. \A i \in 1..(n + 1 + m) : is[i] = was[i]
  <2>1. TAKE i \in 1..(n + 1 + m)
  <2>2. CASE i <= n - 1
    BY <1>1, <1>11, <1>12, <1>7, <2>2
  <2>3. CASE i = n
    <3>1. Len(f) + 1 = n /\ n \in 1..n
      BY <1>1, <1>7
    <3>. QED
      BY <1>11, <1>12, <1>6, <2>3, <3>1
  <2>4. CASE i >= n + 1
    <3>1. /\ i \in (Len(f) + 2)..(Len(f) + 1 + Len(q))
          /\ Len(f) + Len(q) + 2 - i = n + m + 2 - i
      BY <1>1, <1>7, <2>4
    <3>2. is[i] = q[n + m + 2 - i]
      BY <1>12, <3>1
    <3>3. CASE i = n + 1
      <4>1. n + m + 2 - i = m + 1
        BY <1>1, <3>3
      <4>. QED
        BY <1>11, <1>7, <3>2, <3>3, <4>1
    <3>4. CASE i > n + 1
      <4>1. n + m + 2 - i \in 1..m /\ i \in (n + 2)..(n + 1 + m)
        BY <1>1, <3>4
      <4>. QED
        BY <1>11, <1>7, <3>2, <4>1
    <3>. QED
      BY <1>1, <2>4, <3>3, <3>4
  <2>. QED
    BY <1>1, <2>2, <2>3, <2>4
<1>10. is = was
  BY <1>11, <1>12, <1>8, <1>9, SeqEqual
<1>. QED
  BY <1>10 DEF is, was

\* Redoing is undoing backwards.
LEMMA RedoneLine ==
    ASSUME NEW h \in Seq(States), NEW a \in States, NEW r \in Seq(States), r # <<>>
    PROVE  Line(Append(h, a), Last(r), Front(r)) = Line(h, a, r)
<1>. DEFINE g == Append(h, a)
            b == Last(r)
            f == Front(r)
<1>1. g \in Seq(States) /\ b \in States /\ f \in Seq(States) /\ g # <<>>
  BY AppendProperties, PoppedStack
<1>2. Line(Front(g), Last(g), Append(f, b)) = Line(g, b, f)
  BY <1>1, UndoneLine
<1>3. Last(g) = a
  <2>1. Len(g) = Len(h) + 1 /\ g[Len(h) + 1] = a
    BY AppendProperties
  <2>. QED
    BY <2>1 DEF Last
<1>4. Front(g) = h
  <2>1. /\ Front(g) \in Seq(States) /\ Len(Front(g)) = Len(g) - 1
        /\ \A i \in 1..(Len(g) - 1) : Front(g)[i] = g[i]
    BY <1>1, PoppedStack
  <2>2. Len(g) = Len(h) + 1 /\ \A i \in 1..Len(h) : g[i] = h[i]
    BY AppendProperties
  <2>3. Len(h) \in Nat
    BY LenProperties
  <2>4. Len(Front(g)) = Len(h)
    BY <2>1, <2>2, <2>3
  <2>5. \A i \in 1..Len(Front(g)) : Front(g)[i] = h[i]
    BY <2>1, <2>2, <2>3
  <2>. QED
    BY <2>1, <2>4, <2>5, SeqEqual
<1>5. Append(f, b) = r
  <2>1. /\ f \in Seq(States) /\ Len(f) = Len(r) - 1
        /\ \A i \in 1..(Len(r) - 1) : f[i] = r[i]
    BY PoppedStack
  <2>2. /\ Append(f, b) \in Seq(States) /\ Len(Append(f, b)) = Len(f) + 1
        /\ \A i \in 1..Len(f) : Append(f, b)[i] = f[i]
        /\ Append(f, b)[Len(f) + 1] = b
    BY <1>1, AppendProperties
  <2>3. Len(r) \in Nat /\ Len(r) >= 1
    BY LenProperties, EmptySeq
  <2>4. b = r[Len(r)]
    BY DEF Last
  <2>5. Len(Append(f, b)) = Len(r)
    BY <2>1, <2>2, <2>3
  <2>6. \A i \in 1..Len(r) : Append(f, b)[i] = r[i]
    <3>1. TAKE i \in 1..Len(r)
    <3>2. CASE i <= Len(r) - 1
      <4>1. i \in 1..Len(f) /\ i \in 1..(Len(r) - 1)
        BY <2>1, <2>3, <3>2
      <4>2. Append(f, b)[i] = f[i]
        BY <2>2, <4>1
      <4>3. f[i] = r[i]
        BY <2>1, <4>1
      <4>. QED
        BY <4>2, <4>3
    <3>3. CASE i = Len(r)
      <4>1. Len(f) + 1 = i
        BY <2>1, <2>3, <3>3
      <4>. QED
        BY <2>2, <2>4, <3>3, <4>1
    <3>4. i <= Len(r) - 1 \/ i = Len(r)
      BY <2>3
    <3>. QED
      BY <3>2, <3>3, <3>4
  <2>. QED
    BY <2>2, <2>5, <2>6, SeqEqual
<1>. QED
  BY <1>2, <1>3, <1>4, <1>5

\* Changing the present state amends the line under the cursor.
LEMMA AmendedLine ==
    ASSUME NEW h \in Seq(States), NEW a \in States, NEW b \in States, NEW r \in Seq(States)
    PROVE  LET was == Line(h, a, r)
               is == Line(h, b, r)
           IN  /\ Len(is) = Len(was)
               /\ is[Len(h) + 1] = b
               /\ is = [was EXCEPT ![Len(h) + 1] = b]
<1>. DEFINE n == Len(h)
            m == Len(r)
            was == Line(h, a, r)
            is == Line(h, b, r)
            amended == [was EXCEPT ![n + 1] = b]
<1>1. n \in Nat /\ m \in Nat
  BY LenProperties
<1>2. IsLine(was, h, a, r) /\ IsLine(is, h, b, r)
  BY LineShape
<1>. HIDE DEF was, is
<1>3. /\ was \in Seq(States) /\ Len(was) = n + 1 + m
      /\ \A i \in 1..n : was[i] = h[i]
      /\ \A i \in (n + 2)..(n + 1 + m) : was[i] = r[n + m + 2 - i]
  BY <1>2 DEF IsLine
<1>4. /\ is \in Seq(States) /\ Len(is) = n + 1 + m
      /\ \A i \in 1..n : is[i] = h[i]
      /\ is[n + 1] = b
      /\ \A i \in (n + 2)..(n + 1 + m) : is[i] = r[n + m + 2 - i]
  BY <1>2 DEF IsLine
<1>. HIDE DEF n, m
<1>5. n + 1 \in 1..Len(was)
  BY <1>1, <1>3
<1>6. /\ amended \in Seq(States) /\ Len(amended) = Len(was)
      /\ \A i \in 1..Len(was) : amended[i] = IF i = n + 1 THEN b ELSE was[i]
  BY <1>3, <1>5, ExceptSeq
<1>. HIDE DEF amended
<1>7. \A i \in 1..Len(is) : is[i] = amended[i]
  <2>1. TAKE i \in 1..Len(is)
  <2>2. i \in 1..Len(was) /\ (i \in 1..n \/ i = n + 1 \/ i \in (n + 2)..(n + 1 + m))
    BY <1>1, <1>3, <1>4
  <2>3. i \in 1..n => i # n + 1
    BY <1>1
  <2>4. i \in (n + 2)..(n + 1 + m) => i # n + 1
    BY <1>1
  <2>. QED
    BY <1>3, <1>4, <1>6, <2>2, <2>3, <2>4
<1>8. is = amended
  BY <1>3, <1>4, <1>6, <1>7, SeqEqual
<1>. QED
  BY <1>3, <1>4, <1>8 DEF amended, was, is, n

\* Saving cuts the line after the cursor and, at the limit, drops its first state.
LEMMA SavedLine ==
    ASSUME annos \in States, history \in Seq(States), redo \in Seq(States),
           NEW b \in States, Len(history) <= Cap
    PROVE  LET was == Line(history, annos, redo)
               is == Line(Pushed(history), b, <<>>)
               cursor == Len(history) + 1
               saved == SubSeq(was, 1, cursor) \o <<b>>
           IN  /\ Len(Pushed(history)) + 1 = IF cursor <= Cap THEN cursor + 1 ELSE cursor
               /\ Len(is) = Len(Pushed(history)) + 1
               /\ is[Len(Pushed(history)) + 1] = b
               /\ is = IF cursor <= Cap THEN saved ELSE Tail(saved)
<1>. DEFINE n == Len(history)
            m == Len(redo)
            was == Line(history, annos, redo)
            is == Line(Pushed(history), b, <<>>)
            cursor == n + 1
            cut == SubSeq(was, 1, cursor)
            saved == cut \o <<b>>
            p == Pushed(history)
            k == Len(p)
            longer == Append(history, annos)
<1>1. n \in Nat /\ m \in Nat /\ Cap \in Nat /\ Cap >= 1 /\ n <= Cap
  BY LenProperties, NumbersAssumption
<1>2. /\ p \in Seq(States)
      /\ k = IF n < Cap THEN n + 1 ELSE Cap
      /\ \A i \in 1..k : p[i] = longer[IF n < Cap THEN i ELSE i + 1]
  BY PushedStack
<1>3. /\ longer \in Seq(States) /\ Len(longer) = n + 1
      /\ \A i \in 1..n : longer[i] = history[i]
      /\ longer[n + 1] = annos
  BY AppendProperties
<1>4. IsLine(was, history, annos, redo)
  BY LineShape
<1>5. IsLine(is, p, b, <<>>)
  BY <1>2, EmptySeq, LineShape
<1>. HIDE DEF was, is, p, longer
<1>6. /\ was \in Seq(States) /\ Len(was) = n + 1 + m
      /\ \A i \in 1..n : was[i] = history[i]
      /\ was[n + 1] = annos
  BY <1>4 DEF IsLine
<1>7. k \in Nat
  BY <1>2, LenProperties
<1>8. /\ is \in Seq(States) /\ Len(is) = k + 1
      /\ \A i \in 1..k : is[i] = p[i]
      /\ is[k + 1] = b
  <2>1. Len(<<>>) = 0
    OBVIOUS
  <2>2. Len(is) = k + 1 + 0
    BY <1>5, <2>1 DEF IsLine
  <2>. QED
    BY <1>5, <1>7, <2>2 DEF IsLine
<1>. HIDE DEF n, m, k
<1>9. /\ cut \in Seq(States) /\ Len(cut) = n + 1
      /\ \A i \in 1..(n + 1) : cut[i] = longer[i]
  <2>1. \A i \in 1..(n + 1) : was[i] \in States
    BY <1>1, <1>6, ElementOfSeq
  <2>2. /\ cut \in Seq(States)
        /\ Len(cut) = IF 1 <= n + 1 THEN n + 1 - 1 + 1 ELSE 0
        /\ \A i \in 1..(n + 1 - 1 + 1) : cut[i] = was[1 + i - 1]
    BY <1>1, <2>1, SubSeqProperties
  <2>3. n + 1 - 1 + 1 = n + 1 /\ 1 <= n + 1
    BY <1>1
  <2>4. \A i \in 1..(n + 1) : 1 + i - 1 = i
    BY <1>1
  <2>5. \A i \in 1..(n + 1) : cut[i] = was[i]
    BY <2>2, <2>3, <2>4
  <2>6. \A i \in 1..(n + 1) : was[i] = longer[i]
    BY <1>1, <1>3, <1>6
  <2>. QED
    BY <2>2, <2>3, <2>5, <2>6
<1>. HIDE DEF cut
<1>10. /\ saved \in Seq(States) /\ Len(saved) = n + 2
       /\ \A i \in 1..(n + 1) : saved[i] = longer[i]
       /\ saved[n + 2] = b
  <2>1. <<b>> \in Seq(States) /\ Len(<<b>>) = 1 /\ <<b>>[1] = b
    OBVIOUS
  <2>2. /\ saved \in Seq(States) /\ Len(saved) = Len(cut) + 1
        /\ \A i \in 1..(Len(cut) + 1) :
             saved[i] = IF i <= Len(cut) THEN cut[i] ELSE <<b>>[i - Len(cut)]
    BY <1>9, <2>1, ConcatProperties
  <2>3. Len(cut) + 1 = n + 2
    BY <1>1, <1>9
  <2>4. \A i \in 1..(n + 1) : saved[i] = longer[i]
    BY <1>1, <1>9, <2>2
  <2>5. n + 2 \in 1..(Len(cut) + 1) /\ ~(n + 2 <= Len(cut)) /\ n + 2 - Len(cut) = 1
    BY <1>1, <1>9
  <2>6. saved[n + 2] = b
    BY <2>1, <2>2, <2>5
  <2>. QED
    BY <2>2, <2>3, <2>4, <2>6
<1>. HIDE DEF saved
<1>11. CASE n < Cap
  <2>1. k = n + 1
    BY <1>2, <1>11
  <2>2. Len(is) = Len(saved)
    BY <1>1, <1>8, <1>10, <2>1
  <2>3. \A i \in 1..(n + 2) : is[i] = saved[i]
    <3>1. TAKE i \in 1..(n + 2)
    <3>2. CASE i = n + 2
      <4>1. k + 1 = n + 2
        BY <1>1, <2>1
      <4>. QED
        BY <1>8, <1>10, <3>2, <4>1
    <3>3. CASE i \in 1..(n + 1)
      BY <1>2, <1>8, <1>10, <1>11, <2>1, <3>3
    <3>. QED
      BY <1>1, <3>2, <3>3
  <2>4. is = saved
    BY <1>8, <1>10, <2>2, <2>3, SeqEqual
  <2>5. cursor <= Cap /\ k + 1 = cursor + 1
    BY <1>1, <1>11, <2>1
  <2>. QED
    BY <1>8, <2>4, <2>5 DEF is, saved, cut, was, p, k, n
<1>12. CASE ~(n < Cap)
  <2>1. n = Cap /\ k = n
    BY <1>1, <1>2, <1>12
  <2>2. saved # <<>>
    BY <1>1, <1>10
  <2>3. /\ Tail(saved) \in Seq(States) /\ Len(Tail(saved)) = Len(saved) - 1
        /\ \A i \in 1..Len(Tail(saved)) : Tail(saved)[i] = saved[i + 1]
    BY <1>10, <2>2, HeadTailProperties
  <2>4. Len(Tail(saved)) = n + 1 /\ Len(is) = n + 1
    BY <1>1, <1>8, <1>10, <2>1, <2>3
  <2>5. \A i \in 1..(n + 1) : is[i] = Tail(saved)[i]
    <3>1. TAKE i \in 1..(n + 1)
    <3>2. Tail(saved)[i] = saved[i + 1]
      BY <2>3, <2>4
    <3>3. CASE i = n + 1
      <4>1. i = k + 1 /\ i + 1 = n + 2
        BY <1>1, <2>1, <3>3
      <4>. QED
        BY <1>8, <1>10, <3>2, <4>1
    <3>4. CASE i \in 1..n
      <4>1. i \in 1..k /\ i + 1 \in 1..(n + 1)
        BY <1>1, <2>1, <3>4
      <4>2. p[i] = longer[i + 1]
        BY <1>2, <1>12, <4>1
      <4>3. is[i] = p[i]
        BY <1>8, <4>1
      <4>4. saved[i + 1] = longer[i + 1]
        BY <1>10, <4>1
      <4>. QED
        BY <3>2, <4>2, <4>3, <4>4
    <3>5. i = n + 1 \/ i \in 1..n
      BY <1>1
    <3>. QED
      BY <3>3, <3>4, <3>5
  <2>6. is = Tail(saved)
    BY <1>8, <2>3, <2>4, <2>5, SeqEqual
  <2>7. ~(cursor <= Cap) /\ k + 1 = cursor
    BY <1>1, <2>1
  <2>. QED
    BY <1>8, <2>6, <2>7 DEF is, saved, cut, was, p, k, n
<1>. QED
  BY <1>11, <1>12

\* Every step moves the cursor, amends the state under it, saves, or starts a new
\* line: undo and redo are what Timeline promises.
THEOREM EditorImplementsTimeline == Spec => ImplementsTimeline
<1>1. Init => History!Init
  <2>1. SUFFICES ASSUME Init PROVE History!Init
    OBVIOUS
  <2>2. annos = {} /\ history = <<>> /\ redo = <<>>
    BY <2>1 DEF Init
  <2>3. Reverse(<<>>) = <<>>
    BY DEF Reverse
  <2>4. <<>> \o <<{}>> \o <<>> = <<{}>> /\ Len(<<>>) + 1 = 1
    OBVIOUS
  <2>. QED
    BY <2>2, <2>3, <2>4 DEF History!Init
<1>2. ASSUME EditorInv, [Next]_vars
      PROVE  [History!Next]_<<history \o <<annos>> \o Reverse(redo), Len(history) + 1>>
  <2>0. /\ EditTypes /\ TypeOK /\ EditTypes'
        /\ annos \in States /\ history \in Seq(States) /\ redo \in Seq(States)
        /\ Len(history) \in Nat /\ Len(redo) \in Nat
        /\ annos' \in States /\ history' \in Seq(States) /\ redo' \in Seq(States)
    <3>1. EditTypes /\ TypeOK
      BY <1>2, TypesAreTypeOK DEF EditorInv, EditorTypes
    <3>2. EditTypes'
      BY <1>2, <3>1, EditTypesNext
    <3>. QED
      BY <3>1, <3>2, LenProperties DEF EditTypes
  <2>1. CASE UndoEditor
    <3>1. /\ history # <<>> /\ redo' = Append(redo, annos)
          /\ annos' = Last(history) /\ history' = Front(history)
      BY <2>1 DEF UndoEditor
    <3>2. Line(history', annos', redo') = Line(history, annos, redo)
      BY <2>0, <3>1, UndoneLine
    <3>3. Len(history') = Len(history) - 1 /\ Len(history) >= 1
      BY <2>0, <3>1, PoppedStack, EmptySeq
    <3>4. Len(history) + 1 > 1 /\ Len(history') + 1 = (Len(history) + 1) - 1
      BY <2>0, <3>3
    <3>5. History!Back
      BY <3>2, <3>4 DEF History!Back, Line
    <3>. QED
      BY <3>5 DEF History!Next
  <2>2. CASE RedoEditor
    <3>1. /\ redo # <<>> /\ history' = Append(history, annos)
          /\ annos' = Last(redo) /\ redo' = Front(redo)
      BY <2>2 DEF RedoEditor
    <3>2. Line(history', annos', redo') = Line(history, annos, redo)
      BY <2>0, <3>1, RedoneLine
    <3>3. Len(history') = Len(history) + 1 /\ Len(redo) >= 1
      BY <2>0, <3>1, AppendProperties, EmptySeq
    <3>4. Len(Line(history, annos, redo)) = Len(history) + 1 + Len(redo)
      BY <2>0, LineShape DEF IsLine
    <3>5. /\ Len(history) + 1 < Len(Line(history, annos, redo))
          /\ Len(history') + 1 = (Len(history) + 1) + 1
      BY <2>0, <3>3, <3>4
    <3>6. History!Forward
      BY <3>2, <3>5 DEF History!Forward, Line
    <3>. QED
      BY <3>6 DEF History!Next
  <2>3. CASE UNCHANGED <<history, redo>>
    <3>1. /\ Len(Line(history', annos', redo')) = Len(Line(history, annos, redo))
          /\ Line(history', annos', redo')[Len(history) + 1] = annos'
          /\ Line(history', annos', redo') =
                [Line(history, annos, redo) EXCEPT ![Len(history) + 1] = annos']
      BY <2>0, <2>3, AmendedLine
    <3>2. annos' \in SUBSET Annotation /\ Len(history') + 1 = Len(history) + 1
      BY <2>0, <2>3 DEF States
    <3>3. History!Amend
      BY <3>1, <3>2 DEF History!Amend, Line
    <3>. QED
      BY <3>3 DEF History!Next
  <2>4. CASE Saves
    <3>1. history' = Pushed(history) /\ redo' = <<>> /\ Len(history) <= Cap
      BY <2>0, <2>4, NumbersAssumption DEF Saves, EditTypes, StacksAreBounded
    <3>. DEFINE saved == SubSeq(Line(history, annos, redo), 1, Len(history) + 1) \o <<annos'>>
    <3>2. /\ Len(history') + 1 = IF Len(history) + 1 <= Cap
                                 THEN (Len(history) + 1) + 1 ELSE Len(history) + 1
          /\ Len(Line(history', annos', redo')) = Len(history') + 1
          /\ Line(history', annos', redo')[Len(history') + 1] = annos'
          /\ Line(history', annos', redo') =
                IF Len(history) + 1 <= Cap THEN saved ELSE Tail(saved)
      BY <2>0, <3>1, SavedLine
    <3>3. annos' \in SUBSET Annotation
      BY <2>0 DEF States
    <3>4. History!Save
      BY <3>2, <3>3 DEF History!Save, History!Saved, Line
    <3>. QED
      BY <3>4 DEF History!Next
  <2>5. CASE Emptied
    <3>1. annos' = {} /\ history' = <<>> /\ redo' = <<>>
      BY <2>5 DEF Emptied
    <3>2. Reverse(<<>>) = <<>>
      BY DEF Reverse
    <3>3. <<>> \o <<{}>> \o <<>> = <<{}>> /\ Len(<<>>) + 1 = 1
      OBVIOUS
    <3>4. History!Reset
      BY <3>1, <3>2, <3>3 DEF History!Reset
    <3>. QED
      BY <3>4 DEF History!Next
  <2>6. UndoEditor \/ RedoEditor \/ UNCHANGED <<history, redo>> \/ Saves \/ Emptied
    BY <1>2, <2>0, KindsOfSteps DEF Moved, Added, Changed, Removed, Exported, Stacks
  <2>. QED
    BY <2>1, <2>2, <2>3, <2>4, <2>5, <2>6
<1>. QED
  BY <1>1, <1>2, EditorInvHolds, PTL DEF Spec, ImplementsTimeline, History!Spec
=============================================================================
