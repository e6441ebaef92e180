------------------------------- MODULE Intake -------------------------------
(* Submitting a job: POST /api/v1/jobs of apps/web/routes/api-routes.js     *)
(* with the size guard of security/file-size-guard.js and putObject of the  *)
(* local storage, for requests of the site, of the API and of the widget    *)
(* (public/widget.js).                                                      *)
(*                                                                          *)
(* The handler stores the files one after the other and waits for each      *)
(* write, so submissions interleave; what a file is stored under is made    *)
(* of the time, its place in the request and its name.                      *)
EXTENDS Integers, Sequences, FiniteSets

CONSTANTS
    Submissions,    \* requests to POST /api/v1/jobs
    Malformed,      \* those whose body is no JSON, or whose files are no list of objects
    FilesOf,        \* submission -> its files, [name, kind, size]
    Nameless,       \* in the place of the name: a file whose name is no text
    SizeLimit,      \* TIER_SIZE_LIMITS of the tier of each submission
    Blank,          \* the content of the page the handler makes up
    Torn,           \* the content of a file that is being written
    NoFile          \* no content

(* A file of a request carries its data ("data"), the key of an upload made *)
(* before ("key"), or its name and size only ("bare").                      *)
ASSUME FilesAssumption ==
    /\ \A s \in Submissions : \A i \in DOMAIN FilesOf[s] : FilesOf[s][i].kind \in {"data", "key", "bare"}
    /\ \A s \in Submissions : Len(FilesOf[s]) \in Nat
    /\ SizeLimit \in [Submissions -> Nat]
    /\ Malformed \subseteq Submissions

VARIABLES
    subs,           \* where the handler of each submission stands
    stored,         \* storage: what each key written so far holds
    jobs            \* the submissions whose job is in the queue -> its input keys

intakeVars == <<subs, stored, jobs>>

IntakeInit ==
    /\ subs = [s \in Submissions |-> [at |-> "new", keys |-> <<>>, status |-> 0]]
    /\ stored = [k \in {} |-> NoFile]
    /\ jobs = [s \in {} |-> <<>>]

Queued == DOMAIN jobs
Held(k) == IF k \in DOMAIN stored THEN stored[k] ELSE NoFile
Hold(k, content) == stored' = [i \in DOMAIN stored \cup {k} |-> IF i = k THEN content ELSE stored[i]]

(* What the client means by file i of its submission, and what the handler  *)
(* finds to store for it.                                                   *)
Meant(s, i) == <<s, i>>
Sent(s, i) == IF FilesOf[s][i].kind = "data" THEN Meant(s, i) ELSE Blank
HasName(s, i) == FilesOf[s][i].name # Nameless

Next1(s) == Len(subs[s].keys) + 1
AllTaken(s) == Next1(s) > Len(FilesOf[s])

\* Defect: the key has no place of the file in the request.
InputKeyByName(s, i, time) == <<time, 0, FilesOf[s][i].name>>

(* uploads/f_<time>_<place>/<name>                                          *)
InputKey(s, i, time) == <<time, i, FilesOf[s][i].name>>

TotalSize(s) ==
    LET sum[n \in 0..Len(FilesOf[s])] == IF n = 0 THEN 0 ELSE sum[n - 1] + FilesOf[s][n].size
    IN  sum[Len(FilesOf[s])]

\* Defect: the status is set and the response never ends.
AnswerUnsent(s, status) == subs' = [subs EXCEPT ![s].status = status]

Answer(s, status) == subs' = [subs EXCEPT ![s].at = "answered", ![s].status = status]

(* The body has arrived and is parsed; the batch is refused when its files  *)
(* say they are too large together.                                         *)
PostJob(s) ==
    /\ subs[s].at = "new"
    /\ \/ s \in Malformed /\ Answer(s, 500)
       \/ s \notin Malformed /\ TotalSize(s) > SizeLimit[s] /\ Answer(s, 413)
       \/ s \notin Malformed /\ TotalSize(s) <= SizeLimit[s] /\ subs' = [subs EXCEPT ![s].at = "taking"]
    /\ UNCHANGED <<stored, jobs>>

(* The next file is stored: writeFile empties the file first; the key of an *)
(* earlier upload is left aside, and nothing is stored.  f.name.endsWith    *)
(* fails on a file without a name, which ends the request: before a write   *)
(* of its data, after a write of the made-up page.                          *)
TakeFile(s, time) ==
    /\ subs[s].at = "taking" /\ ~AllTaken(s)
    /\ LET i == Next1(s)
           kind == FilesOf[s][i].kind
           key == InputKey(s, i, time)
       IN  \/ /\ ~HasName(s, i) /\ kind # "bare"
              /\ Answer(s, 500) /\ UNCHANGED stored
           \/ /\ HasName(s, i) /\ kind = "key"
              /\ subs' = [subs EXCEPT ![s].keys = Append(@, key)] /\ UNCHANGED stored
           \/ /\ kind = "bare" \/ (HasName(s, i) /\ kind = "data")
              /\ subs' = [subs EXCEPT ![s].at = "writing", ![s].keys = Append(@, key)]
              /\ Hold(key, Torn)
    /\ UNCHANGED jobs

\* Defect: the key is noted again when the write ends.
FileWrittenTwice(s) ==
    /\ subs[s].at = "writing"
    /\ LET i == Len(subs[s].keys)
       IN  /\ Hold(subs[s].keys[i], Sent(s, i))
           /\ subs' = [subs EXCEPT ![s].at = "taking", ![s].keys = Append(@, subs[s].keys[i])]
    /\ UNCHANGED jobs

FileWritten(s) ==
    /\ subs[s].at = "writing"
    /\ LET i == Len(subs[s].keys)
       IN  /\ Hold(subs[s].keys[i], Sent(s, i))
           /\ IF HasName(s, i) THEN subs' = [subs EXCEPT ![s].at = "taking"] ELSE Answer(s, 500)
    /\ UNCHANGED jobs

(* putObject fails: the request is answered with the error, the files that  *)
(* are stored already stay.                                                 *)
WriteFails(s) ==
    /\ subs[s].at = "writing"
    /\ Answer(s, 500)
    /\ UNCHANGED <<stored, jobs>>

\* Defect: the handler does not wait for the last write.
ReadyEarly(s) == subs[s].at \in {"taking", "writing"} /\ AllTaken(s)

Ready(s) == subs[s].at = "taking" /\ AllTaken(s)

(* The job with its input keys is enqueued and its id is answered.          *)
EnqueueJob(s) ==
    /\ Ready(s)
    /\ jobs' = [j \in Queued \cup {s} |-> IF j = s THEN subs[s].keys ELSE jobs[j]]
    /\ Answer(s, 201)
    /\ UNCHANGED stored

IntakeStep(s, time) == TakeFile(s, time) \/ FileWritten(s) \/ WriteFails(s) \/ EnqueueJob(s)

-----------------------------------------------------------------------------
IntakeTypeOK ==
    /\ \A s \in Submissions :
        /\ subs[s].at \in {"new", "taking", "writing", "answered"}
        /\ Len(subs[s].keys) <= Len(FilesOf[s])
        /\ subs[s].status \in {0, 201, 413, 500}
    /\ Queued \subseteq Submissions

(* No other submission has noted the key of file i: none with a file of the *)
(* same name in the same place was taken in the same millisecond.           *)
Alone(s, i) == \A r \in Submissions \ {s} : \A j \in DOMAIN subs[r].keys : subs[r].keys[j] # subs[s].keys[i]

(* A job in the queue has, at every time, one input for each file the       *)
(* client submitted, in that order, and each that is alone under its key    *)
(* holds what was sent: the data that came with the file and not another    *)
(* file's of the same request or a half-written one, the page that is made  *)
(* up for a file without data.  For the key of an earlier upload nothing is *)
(* stored (api-routes.js: POST /api/v1/jobs).                               *)
InputsAreTheirs ==
    \A s \in Queued :
        /\ Len(jobs[s]) = Len(FilesOf[s])
        /\ \A i \in DOMAIN jobs[s] :
            FilesOf[s][i].kind # "key" /\ Alone(s, i) => Held(jobs[s][i]) = Sent(s, i)

(* What the client would have: each input holds the file that is meant.     *)
InputsAsMeant == \A s \in Queued : \A i \in DOMAIN jobs[s] : Held(jobs[s][i]) = Meant(s, i)
=============================================================================
