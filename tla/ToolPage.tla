------------------------------ MODULE ToolPage ------------------------------
(***************************************************************************)
(* The page of the tools, as its script runs it in one tab: files are read *)
(* and staged, an operation is run in the browser, by the visitor's own AI *)
(* key or as a job of the service, a job is polled, and its result offered. *)
(* A studio (of which gst-invoice-pdf is one) posts a job without files.   *)
(*                                                                         *)
(* Everything runs on one thread, and everything awaits: files being read, *)
(* documents being loaded, requests under way. Nothing of that is called   *)
(* off when the visitor goes on to something else, and the variables of    *)
(* the modules (the staged array, the one poll timer, the panels) are      *)
(* shared by whatever comes back. That is what this module is about.       *)
(*                                                                         *)
(* A file stands for one entry of the staging area, a panel for a part of  *)
(* the page that is shown. Options, names, texts, the percentage and the   *)
(* per-page rotations are left out.                                        *)
(***************************************************************************)
EXTENDS ToolRegistry, Naturals, Sequences, SequencesExt, FiniteSets

CONSTANTS Tools,        \* the tools the visitor uses
          Files,        \* the files the visitor has; each is staged once
          KindOf,       \* what the leading bytes of a file say it is
          MaxOps,       \* bound on the operations started
          MaxReads,     \* bound on the selections being read at once
          MaxAsked,     \* bound on the status requests under way for one job
          MaxWork       \* bound on what the visitor does altogether

ASSUME ToolPageAssumption ==
    /\ Tools \subseteq DOMAIN ToolDefinitions
    /\ KindOf \in [Files -> {"pdf", "image", "office", "markdown", "unknown"}]
    /\ {MaxOps, MaxReads, MaxAsked, MaxWork} \subseteq Nat

VARIABLES tool,         \* activeTool
          keyed,        \* an AI key is stored
          staged,       \* stagedFiles
          fresh,        \* the files not selected yet
          reads,        \* the selections being read: the tool they were made for, the files, appended or not
          shown,        \* the panels shown
          ops,          \* the operations started, see Operations
          poll,         \* the operation pollInterval polls for, or 0
          anim,         \* progressAnimInterval is running
          asked,        \* the status requests under way, by operation
          result,       \* what the result card offers: an operation, and the tool it is named after
          work          \* what the visitor has done so far

vars == <<tool, keyed, staged, fresh, reads, shown, ops, poll, anim, asked, result, work>>

(* An operation keeps the array it was started with: the staged one for as *)
(* long as that is not replaced (live), then files. It has taken the files *)
(* that are in its output or in the request for it. Its job is what the    *)
(* service says of it.                                                     *)
Steps == {"local", "direct", "posting", "polling", "done", "failed"}
Operations ==
    [tool : Tools, step : Steps, live : BOOLEAN, files : Seq(Files), at : Nat, taken : Seq(Files),
     job : {"none", "queued", "COMPLETED", "FAILED"}]
NoResult == [op |-> 0, tool |-> "none"]
Running == {"local", "direct", "posting"}

LoopTools == {"merge-pdf", "jpg-to-pdf"}
LocalTools ==
    LoopTools \cup
    {"rotate-pdf", "delete-pdf-pages", "extract-pages", "split-pdf", "compress-pdf", "pdf-to-jpg", "watermark-pdf",
     "page-numbers-pdf", "strip-metadata-pdf", "sign-pdf", "flatten-pdf", "repair-pdf", "redact-pdf", "crop-pdf"}
DirectTools == {"ai-ask", "ai-summarize"}
CanHandleLocally(t, files) == t \in LocalTools /\ (t \in LoopTools \/ Len(files) = 1)

Accepts(input, kind) ==
    CASE input = "image" -> kind = "image"
      [] input = "markdown" -> kind \in {"markdown", "unknown"}
      [] input = "office" -> kind \in {"office", "pdf"}
      [] input = "pdf-or-image" -> kind \in {"pdf", "image"}
      [] OTHER -> kind = "pdf"
Valid(t, f) == Accepts(ClientContract(t).input, KindOf[f])

Does == work < MaxWork /\ work' = work + 1
-----------------------------------------------------------------------------
(* The staged array and who holds it. *)

FilesOf(o) == IF ops[o].live THEN staged ELSE ops[o].files

(* stagedFiles is bound to another array: those who hold the old one keep it. *)
Detached == [o \in DOMAIN ops |-> [ops[o] EXCEPT !.files = FilesOf(o), !.live = FALSE]]

HomePanels(t) ==
    LET contract == ClientContract(t) IN
    IF contract.studio # NoStudio THEN {contract.studio}
    ELSE IF RequiresInputFile(contract) /\ contract.mode # "editor" THEN {"dropzone"} ELSE {}

(* A reset that leaves the files staged. *)
ResetKeepingFiles(t, held) ==
    /\ UNCHANGED staged
    /\ ops' = held
    /\ anim' = FALSE
    /\ shown' = HomePanels(t)

(* resetWorkspace. It stops the animation and leaves the poll timer alone. *)
ResetTo(t, held) ==
    /\ staged' = <<>>
    /\ ops' = held
    /\ anim' = FALSE
    /\ shown' = HomePanels(t)

Init ==
    /\ tool \in Tools
    /\ keyed \in BOOLEAN
    /\ staged = <<>> /\ fresh = Files /\ reads = <<>>
    /\ shown = HomePanels(tool)
    /\ ops = <<>> /\ poll = 0 /\ anim = FALSE /\ asked = <<>>
    /\ result = NoResult
    /\ work = 0

SwitchTool ==
    /\ Does
    /\ tool' \in Tools
    /\ ResetTo(tool', Detached)
    /\ UNCHANGED <<keyed, fresh, reads, poll, asked, result>>

(* "Process another file" on the result card. *)
ResetWorkspace ==
    /\ Does
    /\ "result" \in shown
    /\ ResetTo(tool, Detached)
    /\ UNCHANGED <<tool, keyed, fresh, reads, poll, asked, result>>

SaveKey ==
    /\ Does
    /\ ~keyed
    /\ keyed' = TRUE
    /\ UNCHANGED <<tool, staged, fresh, reads, shown, ops, poll, anim, asked, result>>
-----------------------------------------------------------------------------
(* handleFilesSelected, up to its first await and from its last. *)

Select ==
    /\ Does
    /\ Len(reads) < MaxReads
    /\ RequiresInputFile(ClientContract(tool))
    /\ \E append \in BOOLEAN, files \in {s \in SeqOf(fresh, 2) : s # <<>> /\ IsInjective(s)} :
          /\ IF append THEN "staging" \in shown /\ ClientContract(tool).many ELSE "dropzone" \in shown
          /\ Len(files) > 1 => ClientContract(tool).many
          /\ reads' = Append(reads, [for |-> tool, files |-> files, append |-> append])
          /\ fresh' = fresh \ Range(files)
    /\ UNCHANGED <<tool, keyed, staged, shown, ops, poll, anim, asked, result>>

Several(t, files) ==
    IF ClientContract(t).many THEN files
    ELSE SubSeq(files, 1, IF Len(files) = 0 THEN 0 ELSE 1)

(* Put before the staged ones, where the loop over them has been. *)
PushBefore(r, valid) == IF r.append THEN valid \o staged ELSE Several(tool, valid)
Push(r, valid) == IF r.append THEN staged \o valid ELSE Several(tool, valid)

(* The loop over a selection keeps what is valid, in its order. *)
Fit(t, files) ==
    LET at == {i \in DOMAIN files : Valid(t, files[i])}
        nth == CHOOSE f \in [1..Cardinality(at) -> at] : \A i, j \in DOMAIN f : i < j => f[i] < f[j]
    IN [i \in DOMAIN nth |-> files[nth[i]]]

FinishRead(i) ==
    LET r == reads[i]
        valid == Fit(r.for, r.files)
        now == Push(r, valid)
    IN
    /\ reads' = RemoveAt(reads, i)
    /\ staged' = now
    /\ ops' = IF r.append THEN ops ELSE Detached
    /\ shown' = IF now = <<>> THEN shown
                ELSE IF ClientContract(r.for).mode = "editor"
                     THEN (shown \ {"dropzone", "staging"}) \cup {"pdf-editor-studio"}
                     ELSE (shown \ {"dropzone"}) \cup {"staging"}
    /\ UNCHANGED <<tool, keyed, fresh, poll, anim, asked, result, work>>

RemoveStagedFile ==
    /\ Does
    /\ "staging" \in shown
    /\ \E i \in DOMAIN staged :
          LET left == RemoveAt(staged, i) IN
          IF left = <<>>
          THEN ResetTo(tool, [o \in DOMAIN ops |-> IF ops[o].live THEN [ops[o] EXCEPT !.live = FALSE] ELSE ops[o]])
          ELSE staged' = left /\ UNCHANGED <<ops, anim, shown>>
    /\ UNCHANGED <<tool, keyed, fresh, reads, poll, asked, result>>
-----------------------------------------------------------------------------
(* Running an operation. *)

Operation(t, step, live, taken) ==
    [tool |-> t, step |-> step, live |-> live, files |-> <<>>, at |-> 0, taken |-> taken, job |-> "none"]
StartsUncounted(op) == ops' = Append(ops, op) /\ asked' = asked
Starts(op) == ops' = Append(ops, op) /\ asked' = Append(asked, 0)

(* executeDocumentOperation, up to its first await. *)
ExecuteDocumentOperation ==
    /\ Does
    /\ Len(ops) < MaxOps
    /\ "staging" \in shown
    /\ RequiresInputFile(ClientContract(tool))
    /\ staged # <<>>
    /\ anim' = TRUE
    /\ IF tool \in DirectTools /\ ~keyed
       THEN /\ shown' = shown \ {"dropzone", "result", "progress"}
            /\ UNCHANGED <<ops, asked>>
       ELSE /\ shown' = (shown \ {"dropzone", "staging", "result"}) \cup {"progress"}
            /\ Starts(CASE CanHandleLocally(tool, staged) -> Operation(tool, "local", TRUE, <<>>)
                        [] tool \in DirectTools -> Operation(tool, "direct", TRUE, <<>>)
                        [] OTHER -> Operation(tool, "posting", TRUE, staged))
    /\ UNCHANGED <<tool, keyed, staged, fresh, reads, poll, result>>

(* The generate button of a studio. *)
Generate ==
    /\ Does
    /\ Len(ops) < MaxOps
    /\ ClientContract(tool).mode = "generator"
    /\ ClientContract(tool).studio \in shown
    /\ anim' = TRUE
    /\ shown' = (shown \ {ClientContract(tool).studio}) \cup {"progress"}
    /\ Starts(Operation(tool, "posting", TRUE, <<>>))
    /\ UNCHANGED <<tool, keyed, staged, fresh, reads, poll, result>>

(* A card that names the tool that is active by now. *)
RenderUnderTheActiveTool(o) ==
    /\ poll' = 0
    /\ shown' = (shown \ {"dropzone", "staging", "progress", "signature-studio"}) \cup {"result"}
    /\ result' = [op |-> o, tool |-> tool]

(* renderSuccessDownload: whatever is polled is given up, the card shown.  *)
RenderSuccessDownload(o) ==
    /\ poll' = 0
    /\ shown' = (shown \ {"dropzone", "staging", "progress", "signature-studio"}) \cup {"result"}
    /\ result' = [op |-> o, tool |-> ops[o].tool]

(* A failed operation: the visitor is told and the page is reset. *)
Fails(o) ==
    /\ ResetTo(tool, [Detached EXCEPT ![o].step = "failed"])
    /\ UNCHANGED result

(* The loops of merge-pdf and jpg-to-pdf walk the array itself, one await  *)
(* a file; the other tools have taken their file before they first await.  *)
LocalStep(o) ==
    /\ ops[o].step = "local"
    /\ ops[o].tool \in LoopTools
    /\ ops[o].at < Len(FilesOf(o))
    /\ ops' = [ops EXCEPT ![o].at = @ + 1, ![o].taken = Append(@, FilesOf(o)[ops[o].at + 1])]
    /\ UNCHANGED <<tool, keyed, staged, fresh, reads, shown, poll, anim, asked, result, work>>

LocalDone(o) ==
    /\ ops[o].step = "local"
    /\ ops[o].tool \in LoopTools => ops[o].at >= Len(FilesOf(o))
    /\ ops' = [ops EXCEPT ![o].step = "done"]
    /\ RenderSuccessDownload(o)
    /\ UNCHANGED <<tool, keyed, staged, fresh, reads, anim, asked, work>>

LocalFails(o) ==
    /\ ops[o].step = "local"
    /\ Fails(o)
    /\ UNCHANGED <<tool, keyed, fresh, reads, poll, asked, work>>

DirectDone(o) ==
    /\ ops[o].step = "direct"
    /\ ops' = [ops EXCEPT ![o].step = "done"]
    /\ RenderSuccessDownload(o)
    /\ UNCHANGED <<tool, keyed, staged, fresh, reads, anim, asked, work>>

(* No answer of the AI service: the files are posted after all. *)
DirectFallsBack(o) ==
    /\ ops[o].step = "direct"
    /\ ops' = [ops EXCEPT ![o].step = "posting", ![o].taken = FilesOf(o)]
    /\ UNCHANGED <<tool, keyed, staged, fresh, reads, shown, poll, anim, asked, result, work>>
-----------------------------------------------------------------------------
(* Jobs and their polling. *)

(* The job is accepted, and polled for instead of any other. *)
Posted(o) ==
    /\ ops[o].step = "posting"
    /\ ops' = [ops EXCEPT ![o].step = "polling", ![o].job = "queued"]
    /\ poll' = o
    /\ UNCHANGED <<tool, keyed, staged, fresh, reads, shown, anim, asked, result, work>>

(* It is not: a studio comes back, whichever tool is active by now. *)
PostFails(o) ==
    /\ ops[o].step = "posting"
    /\ IF ClientContract(ops[o].tool).mode = "generator"
       THEN /\ ops' = [ops EXCEPT ![o].step = "failed"]
            /\ anim' = FALSE
            /\ shown' = (shown \ {"progress"}) \cup {ClientContract(ops[o].tool).studio}
            /\ UNCHANGED <<staged, result>>
       ELSE Fails(o)
    /\ UNCHANGED <<tool, keyed, fresh, reads, poll, asked, work>>

(* The service is done with the job. *)
JobEnds(o) ==
    /\ ops[o].job = "queued"
    /\ \E status \in {"COMPLETED", "FAILED"} : ops' = [ops EXCEPT ![o].job = status]
    /\ UNCHANGED <<tool, keyed, staged, fresh, reads, shown, poll, anim, asked, result, work>>

(* The timer asks every 800 ms, whether the last request is answered or not. *)
Tick ==
    /\ poll # 0
    /\ asked[poll] < MaxAsked
    /\ asked' = [asked EXCEPT ![poll] = @ + 1]
    /\ UNCHANGED <<tool, keyed, staged, fresh, reads, shown, ops, poll, anim, result, work>>

(* A failure that only stops the timers. *)
AnsweredQuietly(o) ==
    /\ asked[o] > 0
    /\ asked' = [asked EXCEPT ![o] = @ - 1]
    /\ anim' = FALSE
    /\ poll' = 0
    /\ \/ /\ ops[o].job = "COMPLETED"
          /\ ops' = [ops EXCEPT ![o].step = "done"]
          /\ RenderSuccessDownload(o)
       \/ /\ ops[o].job = "FAILED"
          /\ ops' = [ops EXCEPT ![o].step = "failed"]
          /\ UNCHANGED <<shown, result>>
    /\ UNCHANGED <<tool, keyed, staged, fresh, reads, work>>

(* Polling that knows no failure. *)
AnsweredCompleted(o) ==
    /\ asked[o] > 0
    /\ ops[o].job = "COMPLETED"
    /\ asked' = [asked EXCEPT ![o] = @ - 1]
    /\ anim' = FALSE
    /\ ops' = [ops EXCEPT ![o].step = "done"]
    /\ RenderSuccessDownload(o)
    /\ UNCHANGED <<tool, keyed, staged, fresh, reads, work>>

(* An answer that the job has ended, for a timer that may be another's. *)
AnsweredEnded(o) ==
    /\ asked[o] > 0
    /\ asked' = [asked EXCEPT ![o] = @ - 1]
    /\ anim' = FALSE
    /\ poll' = 0
    /\ \/ /\ ops[o].job = "COMPLETED"
          /\ ops' = [ops EXCEPT ![o].step = "done"]
          /\ RenderSuccessDownload(o)
          /\ UNCHANGED staged
       \/ /\ ops[o].job = "FAILED"
          /\ Fails(o)
    /\ UNCHANGED <<tool, keyed, fresh, reads, work>>

(* An answer from before that, or none: the next tick asks again. *)
AnsweredEarly(o) ==
    /\ asked[o] > 0
    /\ asked' = [asked EXCEPT ![o] = @ - 1]
    /\ UNCHANGED <<tool, keyed, staged, fresh, reads, shown, ops, poll, anim, result, work>>

Visitor ==
    \/ SwitchTool \/ ResetWorkspace \/ SaveKey
    \/ Select \/ RemoveStagedFile
    \/ ExecuteDocumentOperation \/ Generate

Proceeds(o) ==
    \/ LocalStep(o) \/ LocalDone(o) \/ LocalFails(o)
    \/ DirectDone(o) \/ DirectFallsBack(o)
    \/ Posted(o) \/ PostFails(o)

Next ==
    \/ Visitor
    \/ \E i \in DOMAIN reads : FinishRead(i)
    \/ \E o \in DOMAIN ops : Proceeds(o) \/ JobEnds(o) \/ AnsweredEnded(o) \/ AnsweredEarly(o)
    \/ Tick

Spec == Init /\ [][Next]_vars

(* Timers fire, awaited work ends one way or the other, jobs end (the      *)
(* service's promise, see JobRunner), and of the requests for a job that   *)
(* has ended not every one is answered too early or lost.                  *)
Fairness ==
    /\ WF_vars(Tick)
    /\ \A o \in 1..MaxOps :
          /\ WF_vars(o \in DOMAIN ops /\ Proceeds(o))
          /\ WF_vars(o \in DOMAIN ops /\ JobEnds(o))
          /\ SF_vars(o \in DOMAIN ops /\ AnsweredEnded(o))

FairSpec == Spec /\ Fairness
-----------------------------------------------------------------------------
(* Properties. *)

PageTypeOK ==
    /\ tool \in Tools /\ keyed \in BOOLEAN /\ anim \in BOOLEAN
    /\ staged \in Seq(Files) /\ fresh \subseteq Files /\ work \in 0..MaxWork
    /\ Len(reads) <= MaxReads
    /\ \A i \in DOMAIN reads : reads[i] \in [for : Tools, files : Seq(Files), append : BOOLEAN]
    /\ \A o \in DOMAIN ops : ops[o] \in Operations
    /\ DOMAIN asked = DOMAIN ops /\ \A o \in DOMAIN ops : asked[o] \in 0..MaxAsked
    /\ poll \in {0} \cup DOMAIN ops

(* While the progress panel is shown something is under way that will take *)
(* it down: whatever comes back late, out of order or for another tool, no *)
(* visitor is left before a bar that nothing moves.                        *)
(* (app.js:563-710, progress-tracker.js:141-230)                           *)
ProgressIsReal == "progress" \in shown => poll # 0 \/ \E o \in DOMAIN ops : ops[o].step \in Running

(* The dropzone is the page at rest: it is never shown beside staged files *)
(* or beside the staging area, the progress panel or a result, although    *)
(* reads, operations and answers come back to a page that was reset while  *)
(* they were away. (app.js:563-602, file-staging.js:95-129)                *)
DropzoneIsBlank == "dropzone" \in shown => staged = <<>> /\ shown \cap {"staging", "progress", "result"} = {}

(* What the page shows is what is going on: no bar without work, no blank   *)
(* dropzone over files or results (app.js:563-710, file-staging.js:95-129). *)
PageIsSound == PageTypeOK /\ ProgressIsReal /\ DropzoneIsBlank

(* The card offers the result of an operation that succeeded, under the    *)
(* name of that operation's tool, also when the visitor has turned to      *)
(* another tool since. (app.js:640-703, progress-tracker.js:141-230)       *)
ResultIsItsOwn ==
    result # NoResult =>
        /\ ops[result.op].step = "done"
        /\ ops[result.op].job \in {"none", "COMPLETED"}
        /\ result.tool = ops[result.op].tool

(* No file is twice in one output, although the loop of a merge walks an   *)
(* array that grows and shrinks under it between two of its awaits.        *)
(* (local-engine.js:55-72, 257-326, file-staging.js:95-99, 258-267)        *)
NothingTakenTwice == \A o \in DOMAIN ops : IsInjective(ops[o].taken)

(* Whoever is shown progress sees it end.                                  *)
(* (progress-tracker.js:141-230, app.js:563-710)                           *)
ProgressEnds == "progress" \in shown ~> "progress" \notin shown

(* What a comment says of staging, "Validates formats based on current     *)
(* tool contract" (file-staging.js:44): what is staged is fit for the tool *)
(* that is active. The contract is read before the first await, the tool   *)
(* may be another after the last.                                          *)
StagedFitTool == \A i \in DOMAIN staged : Valid(tool, staged[i])
=============================================================================
