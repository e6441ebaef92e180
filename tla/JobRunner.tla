----------------------------- MODULE JobRunner ------------------------------
(***************************************************************************)
(* The worker loop of apps/web/workers/job-runner.js with the sandbox of   *)
(* packages/workers/src/sandbox.ts, on top of the queue of JobQueue, and   *)
(* the submission of POST /api/v1/jobs.                                    *)
(*                                                                         *)
(* A worker polls the queue, runs the leased job in the sandbox and sleeps *)
(* 500 ms.  The sandbox races the run against a timer; when the timer wins *)
(* the worker moves on but the run is not stopped: it goes on storing      *)
(* outputs and acknowledging under its old token.  Nothing in the loop     *)
(* calls nackJob or cancelJob, so a failed run leaves its job PROCESSING   *)
(* until a later leaseJob sweeps the lease.                                *)
(*                                                                         *)
(* A run is known by the token of its lease.  The steps of a run are the   *)
(* stretches between its awaits.  A run that never settles again has no    *)
(* further effect and is dropped (RunHangs); its worker keeps waiting for  *)
(* the timer.                                                              *)
(***************************************************************************)
EXTENDS JobQueue

CONSTANTS
    Workers,      \* worker loops; server.js starts one
    NoJob,
    OutFiles,     \* the output files of a processor's result
    NoFile,
    Unhandled,    \* jobs whose operation has no processor in the registry
    NoInput,      \* jobs whose input object is not in storage
    Fate,         \* what process() of a job may do: "done", "fail", "hang"
    BudgetTicks,  \* the sandbox's timeout
    PollTicks,    \* the pause between two polls
    RunTicks,     \* longest time a run that does not hang takes, in ticks
    Prompt        \* TRUE if the event loop is never blocked for a whole tick

ASSUME RunnerAssumption ==
    /\ NoJob \notin Jobs
    /\ Unhandled \subseteq Jobs
    /\ NoInput \subseteq Jobs
    /\ Fate \in [Jobs -> SUBSET {"done", "fail", "hang"}]
    /\ OutFiles # {} /\ NoFile \notin OutFiles
    /\ BudgetTicks \in Nat \ {0} /\ PollTicks \in Nat /\ RunTicks \in Nat
    /\ Prompt \in BOOLEAN

VARIABLES
    pc,        \* where each worker loop is
    cur,       \* the run a worker awaits, NoToken when it settled or hangs
    timer,     \* time left of a worker's sandbox timer or of its pause
    runPhase,  \* where each run is, "none" without one
    runJob,    \* the job of each run
    saved,     \* the output files a run has stored so far (outputFileIds)
    writing,   \* the output file a run is writing, NoFile between two puts
    written,   \* the objects under outputs/<job id>/ some run wrote to the end
    usage      \* usage events recorded per job

runnerVars == <<pc, cur, timer, runPhase, runJob, saved, writing, written, usage>>
allVars == <<vars, runnerVars>>

Phases == {"none", "skip", "load", "process", "store", "ack", "record"}
MaxTimer == IF BudgetTicks > PollTicks THEN BudgetTicks ELSE PollTicks

\* usage counts events up to this: one more than there should be.
UsageCap == 2

RunnerTypeOK ==
    /\ TypeOK
    /\ pc \in [Workers -> {"poll", "run", "sleep"}]
    /\ cur \in [Workers -> Tokens \cup {NoToken}]
    /\ timer \in [Workers -> 0..MaxTimer]
    /\ runPhase \in [Tokens -> Phases]
    /\ runJob \in [Tokens -> Jobs \cup {NoJob}]
    /\ saved \in [Tokens -> SUBSET OutFiles]
    /\ writing \in [Tokens -> OutFiles \cup {NoFile}]
    /\ written \in [Jobs -> SUBSET OutFiles]
    /\ usage \in [Jobs -> 0..UsageCap]

RunnerInit ==
    /\ Init
    /\ pc = [w \in Workers |-> "poll"]
    /\ cur = [w \in Workers |-> NoToken]
    /\ timer = [w \in Workers |-> 0]
    /\ runPhase = [t \in Tokens |-> "none"]
    /\ runJob = [t \in Tokens |-> NoJob]
    /\ saved = [t \in Tokens |-> {}]
    /\ writing = [t \in Tokens |-> NoFile]
    /\ written = [j \in Jobs |-> {}]
    /\ usage = [j \in Jobs |-> 0]

-----------------------------------------------------------------------------
(* POST /api/v1/jobs: the input objects are stored, then the job is enqueued.
   Jobs submitted here carry no idempotency key. *)

Submit(j) ==
    /\ EnqueueJob(j)
    /\ UNCHANGED runnerVars

-----------------------------------------------------------------------------
(* The worker loop *)

\* Fault: the pause counts from the sandbox's deadline.
PauseLong(w) ==
    /\ pc' = [pc EXCEPT ![w] = "sleep"]
    /\ cur' = [cur EXCEPT ![w] = NoToken]
    /\ timer' = [timer EXCEPT ![w] = BudgetTicks + PollTicks]

\* Fault: the worker does not let go of the run.
PauseHolding(w) ==
    /\ pc' = [pc EXCEPT ![w] = "sleep"]
    /\ timer' = [timer EXCEPT ![w] = PollTicks]
    /\ UNCHANGED cur

Pause(w) ==
    /\ pc' = [pc EXCEPT ![w] = "sleep"]
    /\ cur' = [cur EXCEPT ![w] = NoToken]
    /\ timer' = [timer EXCEPT ![w] = PollTicks]

PollNothing(w) ==
    /\ pc[w] = "poll"
    /\ LeaseNothing
    /\ Pause(w)
    /\ UNCHANGED <<runPhase, runJob, saved, writing, written, usage>>

\* runIsolated starts the timer and the run; an operation without processor is
\* not run at all.
PollJob(w, j, t) ==
    /\ pc[w] = "poll"
    /\ LeaseJob(j, t)
    /\ pc' = [pc EXCEPT ![w] = "run"]
    /\ cur' = [cur EXCEPT ![w] = t]
    /\ timer' = [timer EXCEPT ![w] = BudgetTicks]
    /\ runPhase' = [runPhase EXCEPT ![t] = IF j \in Unhandled THEN "skip" ELSE "load"]
    /\ runJob' = [runJob EXCEPT ![t] = j]
    /\ UNCHANGED <<saved, writing, written, usage>>

\* The timer wins the race: the worker logs JOB_TIMEOUT and forgets the run.
SandboxTimeout(w) ==
    /\ pc[w] = "run"
    /\ timer[w] = 0
    /\ Pause(w)
    /\ UNCHANGED <<vars, runPhase, runJob, saved, writing, written, usage>>

WakeUp(w) ==
    /\ pc[w] = "sleep"
    /\ timer[w] = 0
    /\ pc' = [pc EXCEPT ![w] = "poll"]
    /\ UNCHANGED <<vars, cur, timer, runPhase, runJob, saved, writing, written, usage>>

-----------------------------------------------------------------------------
(* A run: load the inputs, process, store the outputs one by one, acknowledge,
   record the usage event and dispatch job.completed *)

Goto(t, phase) == runPhase' = [runPhase EXCEPT ![t] = phase]

Detached(t) == \A w \in Workers : cur[w] # t

\* Fault: the race is not told, only its timer ends it.
SettleUnheard(t) ==
    /\ Goto(t, "none")
    /\ runJob' = [runJob EXCEPT ![t] = NoJob]
    /\ saved' = [saved EXCEPT ![t] = {}]
    /\ writing' = [writing EXCEPT ![t] = NoFile]
    /\ cur' = [w \in Workers |-> IF cur[w] = t THEN NoToken ELSE cur[w]]
    /\ UNCHANGED <<pc, timer>>

\* The run settles: its token is gone, and the worker still waiting for it, if
\* any, goes on to its pause.
Settle(t) ==
    /\ Goto(t, "none")
    /\ runJob' = [runJob EXCEPT ![t] = NoJob]
    /\ saved' = [saved EXCEPT ![t] = {}]
    /\ writing' = [writing EXCEPT ![t] = NoFile]
    /\ \/ \E w \in Workers : cur[w] = t /\ Pause(w)
       \/ Detached(t) /\ UNCHANGED <<pc, cur, timer>>

RunSkips(t) ==
    /\ runPhase[t] = "skip"
    /\ Forget(t)
    /\ Settle(t)
    /\ UNCHANGED <<written, usage>>

RunLoads(t) ==
    /\ runPhase[t] = "load"
    /\ runJob[t] \notin NoInput
    /\ Goto(t, "process")
    /\ UNCHANGED <<vars, pc, cur, timer, runJob, saved, writing, written, usage>>

RunReports(t, percent) ==
    /\ runPhase[t] = "process"
    /\ UpdateJobProgress(runJob[t], t, percent)
    /\ UNCHANGED runnerVars

RunProcesses(t) ==
    /\ runPhase[t] = "process"
    /\ "done" \in Fate[runJob[t]]
    /\ Goto(t, "store")
    /\ UNCHANGED <<vars, pc, cur, timer, runJob, saved, writing, written, usage>>

\* Fault: the ack does not wait for the remaining puts.
AckAtOnce(files) == "ack"

AfterStore(files) == IF files = OutFiles THEN "ack" ELSE "store"

\* putObject opens the file, which truncates an older one, and writes it.
RunPuts(t, f) ==
    /\ runPhase[t] = "store"
    /\ writing[t] = NoFile
    /\ f \notin saved[t]
    /\ writing' = [writing EXCEPT ![t] = f]
    /\ UNCHANGED <<vars, pc, cur, timer, runPhase, runJob, saved, written, usage>>

RunStores(t) ==
    /\ runPhase[t] = "store"
    /\ writing[t] # NoFile
    /\ writing' = [writing EXCEPT ![t] = NoFile]
    /\ saved' = [saved EXCEPT ![t] = @ \cup {writing[t]}]
    /\ written' = [written EXCEPT ![runJob[t]] = @ \cup {writing[t]}]
    /\ Goto(t, AfterStore(saved'[t]))
    /\ UNCHANGED <<vars, pc, cur, timer, runJob, usage>>

\* Fault: a refused ack is ignored.
RunAcksAnyway(t) ==
    /\ runPhase[t] = "ack"
    /\ AckJob(runJob[t], t) \/ (~Holds(runJob[t], t) /\ UNCHANGED vars)
    /\ Goto(t, "record")
    /\ UNCHANGED <<pc, cur, timer, runJob, saved, writing, written, usage>>

RunAcks(t) ==
    /\ runPhase[t] = "ack"
    /\ AckJob(runJob[t], t)
    /\ Goto(t, "record")
    /\ UNCHANGED <<pc, cur, timer, runJob, saved, writing, written, usage>>

RunRecords(t) ==
    /\ runPhase[t] = "record"
    /\ usage' = [usage EXCEPT ![runJob[t]] = IF @ < UsageCap THEN @ + 1 ELSE @]
    /\ Forget(t)
    /\ Settle(t)
    /\ UNCHANGED written

\* A run rejects: an input that is missing or cannot be read, a processor that throws (by itself, or as
\* JOB_CANCELLED because it sees isCancelled() after the timeout), a put that
\* fails, or an ack refused as FORBIDDEN.
RunFails(t) ==
    /\ \/ runPhase[t] = "load" /\ (runJob[t] \in NoInput \/ "fail" \in Fate[runJob[t]])
       \/ runPhase[t] = "process" /\ ("fail" \in Fate[runJob[t]] \/ Detached(t))
       \/ runPhase[t] = "store" /\ "fail" \in Fate[runJob[t]]
       \/ runPhase[t] = "ack" /\ ~Holds(runJob[t], t)
    /\ Forget(t)
    /\ Settle(t)
    /\ UNCHANGED <<written, usage>>

RunHangs(t) ==
    /\ runPhase[t] = "process"
    /\ "hang" \in Fate[runJob[t]]
    /\ Goto(t, "none")
    /\ runJob' = [runJob EXCEPT ![t] = NoJob]
    /\ cur' = [w \in Workers |-> IF cur[w] = t THEN NoToken ELSE cur[w]]
    /\ Forget(t)
    /\ UNCHANGED <<pc, timer, saved, writing, written, usage>>

-----------------------------------------------------------------------------
(* Time: leases and timers run down together.  Processors compute on the event
   loop itself, so a due timer may be late unless Prompt says otherwise.  A run
   that does not hang takes at most RunTicks while its worker waits for it.
   Skipping an operation without processor takes no time. *)

Due(w) == pc[w] = "poll" \/ timer[w] = 0

RunnerTick ==
    /\ \A t \in Tokens : runPhase[t] # "skip"
    /\ Prompt => \A w \in Workers : ~Due(w)
    /\ \A w \in Workers :
          pc[w] = "run" /\ cur[w] # NoToken => BudgetTicks - timer[w] < RunTicks
    /\ Tick
    /\ timer' = [w \in Workers |-> IF timer[w] > 0 THEN timer[w] - 1 ELSE 0]
    /\ UNCHANGED <<pc, cur, runPhase, runJob, saved, writing, written, usage>>

RunStep(t) ==
    \/ RunSkips(t)
    \/ RunLoads(t)
    \/ RunProcesses(t)
    \/ \E f \in OutFiles : RunPuts(t, f)
    \/ RunStores(t)
    \/ RunAcks(t)
    \/ RunRecords(t)
    \/ RunFails(t)
    \/ RunHangs(t)

WorkerStep(w) ==
    \/ PollNothing(w)
    \/ \E j \in Jobs, t \in Tokens : PollJob(w, j, t)
    \/ SandboxTimeout(w)
    \/ WakeUp(w)

RunnerNext ==
    \/ \E j \in Jobs : Submit(j)
    \/ \E w \in Workers : WorkerStep(w)
    \/ \E t \in Tokens : RunStep(t) \/ \E percent \in Percents : RunReports(t, percent)
    \/ RunnerTick

RunnerSpec == RunnerInit /\ [][RunnerNext]_allVars

\* The event loop runs every pending continuation and timer, and time passes.
RunnerFairness ==
    /\ \A w \in Workers : WF_allVars(WorkerStep(w))
    /\ \A t \in Tokens : WF_allVars(RunStep(t))
    /\ WF_allVars(RunnerTick)

FairRunnerSpec == RunnerSpec /\ RunnerFairness

-----------------------------------------------------------------------------
(* Safety *)

\* A token is remembered exactly while its run is alive, a worker only awaits
\* live runs, and no two workers await the same one.
RunsMatchTokens ==
    /\ \A t \in Tokens : t \in held <=> runPhase[t] # "none"
    /\ \A t \in Tokens : runPhase[t] = "none" <=> runJob[t] = NoJob
    /\ \A w \in Workers : cur[w] # NoToken => cur[w] \in held /\ pc[w] = "run"
    /\ \A w, x \in Workers : cur[w] # NoToken /\ cur[w] = cur[x] => w = x

\* A lease whose run is alive belongs to that run's job, and a job that has been
\* recorded, or is about to be, is COMPLETED: between ack and record no other
\* run of the job can get through.
RecordsFollowAcks ==
    /\ \A j \in Jobs : Leased(j) /\ leaseToken[j] \in held => runJob[leaseToken[j]] = j
    /\ \A t \in Tokens : runPhase[t] = "record" =>
          status[runJob[t]] = "COMPLETED" /\ usage[runJob[t]] = 0
    /\ \A t, u \in Tokens :
          runPhase[t] = "record" /\ runPhase[u] = "record" /\ runJob[t] = runJob[u] => t = u
    /\ \A j \in Jobs : usage[j] <= 1 /\ (usage[j] = 1 => status[j] = "COMPLETED")

\* The files listed in a COMPLETED job's outputFileIds are all in storage, also
\* when the run that stored them had long been given up by its worker.
CompletedOutputsStored ==
    \A j \in Jobs : status[j] = "COMPLETED" => written[j] = OutFiles

\* Tokens, runs, usage records and stored outputs agree, however many runs the
\* sandbox has given up are still under way (job-runner.js:116-187).
RunsAreSound ==
    /\ RunnerTypeOK
    /\ RunsMatchTokens
    /\ RecordsFollowAcks
    /\ CompletedOutputsStored

\* Nobody is writing the outputs of a COMPLETED job: what its owner downloads is
\* not being truncated and rewritten by a run that the sandbox had timed out.
CompletedOutputsIntact ==
    \A t \in Tokens : writing[t] # NoFile => status[runJob[t]] # "COMPLETED"

\* The promise to the submitter, as a refinement: every step of the pipeline is
\* a step of JobService or none.
StageOf(j) ==
    CASE status[j] = "ABSENT" -> "absent"
      [] status[j] = "COMPLETED" /\ written[j] = OutFiles /\ usage[j] = 0 -> "delivered"
      [] status[j] = "COMPLETED" /\ written[j] = OutFiles /\ usage[j] = 1 -> "billed"
      [] status[j] \notin {"ABSENT", "COMPLETED"} /\ usage[j] = 0 -> "pending"
      [] OTHER -> "broken"
Service == INSTANCE JobService WITH stage <- [j \in Jobs |-> StageOf(j)]
ImplementsJobService == Service!Spec

-----------------------------------------------------------------------------
(* Liveness *)

\* Nothing in the job itself keeps its run from succeeding.
Healthy(j) == j \notin Unhandled /\ j \notin NoInput /\ Fate[j] = {"done"}

\* A submitted healthy job is eventually completed and on the usage record,
\* although failing jobs keep coming back to the front of the line.
HealthyJobsFinish ==
    \A j \in Jobs : Healthy(j) => (Known(j) ~> (status[j] = "COMPLETED" /\ usage[j] = 1))

\* A job whose run failed is tried again: it does not stay PROCESSING with no
\* run left to finish it.
Orphaned(j) == status[j] = "PROCESSING" /\ leaseToken[j] \notin held
OrphansAreRetried == \A j \in Jobs : Orphaned(j) ~> ~Orphaned(j)

\* At-least-once delivery: every job in line is eventually handed to a worker.
AtLeastOnceDelivery == \A j \in Jobs : status[j] = "QUEUED" ~> status[j] # "QUEUED"

\* At most maxRetries retries: one first attempt and maxRetries further ones.
AtMostMaxRetries == \A j \in Jobs : attempts[j] <= MaxRetries + 1
=============================================================================
