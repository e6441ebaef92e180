# A TLA+ model of DocPlatform (pdf-tool)

This directory holds the formal model of the repository's program: TLA+ modules,
the TLC configurations that check them on small instances, and proofs that
tlapm checks for every value of the constants. Every definition is
translated from the code under `src/`; `PROJECT.json` maps definitions to lines.

Contents: [1 Inventory](#1-inventory) - [2 Plan](#2-plan) -
[3 Modules](#3-modules) - [4 Runs](#4-runs) - [5 Fairness](#5-fairness) -
[6 Proofs](#6-proofs) - [7 Counterexamples](#7-counterexamples) -
[8 Limits](#8-what-is-not-modelled)

How to use it (inside this directory):

    tlc -workers 2 -config MCJobRunner.cfg MCJobRunner      # one run
    tlapm JobProofs.tla                                     # one proof module

## 1 Inventory

DocPlatform is a Node monorepo: a web server that accepts documents, queues jobs
on them and offers the results for download; a browser client that runs many
tools locally; and a browser-to-browser file transfer whose server part only
relays signals. Everything on the server lives in one process and in memory
(plus a directory for objects), and runs on one event loop: code between two
`await`s is atomic, everything else interleaves. The page in the browser is the
same: one thread, module-level variables, and many things awaited at once.

| component | source | state | operations | hard behaviours | what makes it correct |
|---|---|---|---|---|---|
| queue provider | `packages/providers/src/queue/index.ts` | job map, FIFO of ids, lease map | enqueue, lease (with its sweep), ack, nack, cancel, progress | leases that expire while their holder still works; sweeps that reorder the line; stale tokens | the line is exactly the QUEUED jobs, once each; a lease iff PROCESSING; end states final; one job per idempotency key; only the present holder writes |
| worker loop, sandbox | `apps/web/workers/job-runner.js`, `packages/workers/src/sandbox.ts` | loop position, the run awaited, its timer, runs that outlived it | poll, run, time out, load, process, store, ack, record | runs that go on after the timeout; failed runs that nobody nacks; poison jobs coming back first | outputs stored before COMPLETED; usage recorded at most once, after the ack; healthy jobs finish |
| rate limiter | `apps/web/security/rate-limiter.js` | counter and window per client and group of routes | count, refuse, prune | two windows meet; a late timer | bounded bursts; who waits as told passes |
| API keys, developer routes | `apps/web/api/api-key-{store,auth}.js`, `developer-routes.js` | keys, audit log | create, list, revoke, authenticate | expiry and revocation between requests | a revoked or expired key stays out; the audit log tells what became of every key |
| job submission | `apps/web/routes/api-routes.js`, `security/file-size-guard.js` | submissions under way, objects written | submit, poll | writes awaited one by one; ids made from the clock | a job reads what was submitted for it, and is queued only when all of it is written |
| P2P signalling | `apps/web/api/p2p-signaling.js` | rooms, peers, event streams, queued signals, failed joins | create, join, open stream, stream closed, signal, leave, purge | reconnecting streams, late close events, requests that read the room before awaiting their body | a room holds two peers; signals reach the other peer once and in order; guesses are limited |
| P2P client | `apps/web/public/modules/p2p-client.js` | peer connection, data channel, send and receive state | handshake, chunked transfer, back-pressure, receipt | offers triggered twice; buffered-amount callbacks | every chunk is sent once, in order; the receiver assembles exactly the file |
| webhooks | `apps/web/api/webhook-{store,routes}.js` | subscriptions, delivery logs, failure counters | subscribe, update, delete, dispatch with retries | retries of a subscription that was paused or deleted meanwhile | retries follow failures only; log and counters agree; logs are bounded |
| PDF editor | `apps/web/public/modules/pdf-editor-studio.js` | annotations by page, undo and redo stacks, a gesture, renders and an export under way | insert, drag, resize, restyle, delete, undo, redo, switch pages, export | gestures that hold an object undo has replaced; pictures that load late; an export that awaits while the user edits | nothing deleted is beyond undo; undo and redo move along one line of states; an export is complete |
| tool tables, navigation | `apps/web/public/app.js`, `modules/tool-registry.js`, `packages/core/src/seo.ts`, `routes/ssr-routes.js`, `views/*` | document, its history, the active tool | type an address, follow a link, switch a tool in place, back, forward | five tables kept by hand in two packages | the tool on the screen is the one addressed; no link leads nowhere; every tool has its processor |
| staging, polling, tool flow | `apps/web/public/app.js`, `modules/{file-staging,progress-tracker,direct-ai}.js` | staged files, panels, operations under way, the one poll timer | stage, append, remove, reset, switch, execute, poll | reads, local work and overlapping poll answers that come back to a page that was reset or switched | the page shows what is going on; a result is its operation's; no file twice in one output; progress ends |
| processors, validator | `packages/workers/src/processors/*.ts`, `validator.ts` | none between calls | transform documents | page ranges, locked or damaged inputs, cancellation half-way | pages arrive in order and number; locks stay |
| pipeline processor | `packages/workers/src/processors/pipeline.ts` | the steps' intermediate files, progress | run the steps in order | partial failure with and without stopOnError; progress of nested steps | a step works on the output of the last successful one; progress never falls |
| local engine | `apps/web/public/modules/{local-engine,options-collector,utils}.js` | none between calls | the same tools in the browser | two implementations of one tool | both give the same pages |
| billing studios and processors | `apps/web/public/modules/{gst,pos,estimate,tax-receipt}-studio.js`, `views/studios/*`, `processors/{gst-invoice,pos-billing,estimate-maker,tax-receipt}.ts` | rows and inputs of each studio | edit under a live preview, generate, refuse, show again | amounts computed twice by different code; rounding; a page of fixed length | a bill is what was previewed, adds up, and fits its paper |
| usage and growth | `apps/web/api/usage-{store,routes}.js`, `growth-routes.js` | event logs, the sitemap | append, aggregate, list | the cap | a job is counted once; what is listed is served |
| storage, auth and processor providers | `packages/providers/src/{storage,auth,processor}` | a directory of objects, a session | get, put, delete | a put is a truncation and a write | part of the models that use it |
| TTL daemon, PDF bomb defence | `apps/web/security/{job-ttl,pdf-bomb-defense}.js` | a timer; none | clean up; scan a buffer | - | see section 8 |
| core package | `packages/core/src` | constants and types | look-ups, validation | tables that must agree with the browser's | see the tool tables |
| server, static and SSR routes, views | `apps/web/server.js`, `routes/`, `views/` | none | dispatch and render | - | see API and navigation |

How they interact. `POST /api/v1/jobs` passes the limiter, stores the inputs and
calls `enqueueJob`; the loop of `job-runner.js` calls `leaseJob`, runs a
processor in the sandbox, stores outputs through the storage provider, calls
`ackJob`, then appends to the usage store and dispatches webhooks. Pages poll
`GET /api/v1/jobs/:id`; a tool's page first tries the local engine and falls back
on a job; a studio always sends a job. The P2P pages talk to the signalling
routes by POST and one event stream per peer, and to each other by a WebRTC data
channel. The `index.js` files beside `index.ts` in `packages/*/src` are compiled
twins that lag behind their `.ts` source; the models follow the `.ts` files.

## 2 Plan

In the order of importance to the program, with what was done:

1. **JobQueue**, **JobService**, **JobRunner** - the queue provider under callers
   with stale tokens; the promise to the submitter; the worker loop and sandbox
   that implement it. *Checked; invariants and refinement proved.*
2. **P2pSignaling**, **P2pHandshake** - the relay, and the pages on top of it.
   *Checked; safety of the relay, alone and under its pages, and that one offer is
   enough, proved.*
3. **P2pTransfer** refining **FileCopy** - chunking and back-pressure. *Checked;
   the bound on the buffer, intact files and the refinement proved.*
4. **WebhookStore** - subscriptions against deliveries with retries. *Checked;
   safety proved.*
5. **PdfEditor** refining **Timeline** - the editor and its undo. *Checked; safety
   and refinement proved.*
6. **ToolRegistry**, **SiteNavigation** and **ToolPage** - what a page shows, and
   the tables behind it. *Checked; the safety of the tool page and of the
   navigation, and that the tables agree, proved.*
7. **RateLimiter**, **ApiKeys**, **Intake**, **JoinGuard**, composed by
   **ApiServer** - what a request to the API passes through. *Checked; its safety
   proved.*
8. **Documents**, **LocalEngine**, **Pipeline** - what the tools do to pages, on
   the worker and in the browser, alone and in chains. *Checked; types, what
   chains deliver and the progress bar proved.*
9. **Billing**, **Studio** - the four studios, their previews, and the bills the
   worker draws; composed with Pipeline. *Checked; the sums, the words and the
   layout of the bills proved.*

Left for later: a theorem about both engines giving the same pages (section 6), and
the composition of JobRunner with WebhookStore.

## 3 Modules

| module | extends | what it is |
|---|---|---|
| `JobQueue` | | the queue provider |
| `JobService` | | abstract: what a submitter is promised |
| `JobRunner` | `JobQueue` | worker loops, sandbox, storage; implements `JobService` |
| `P2pSignaling` | | the relay's rooms, streams and requests |
| `P2pHandshake` | `P2pSignaling` | the pages' side of the handshake |
| `FileCopy` | | abstract: files received are those sent, in order |
| `P2pTransfer` | | sender, channel and receiver; implements `FileCopy` |
| `WebhookStore` | | subscriptions and deliveries |
| `Timeline` | | abstract: a line of saved states with a cursor |
| `PdfEditor` | | the visual editor; implements `Timeline` |
| `ToolRegistry` | | the tables of tools, aliases, processors and links |
| `SiteNavigation` | `ToolRegistry` | one document of a visitor, its history and tool |
| `ToolPage` | `ToolRegistry` | staging, operations, polling and panels of one tab |
| `RateLimiter`, `ApiKeys`, `Intake`, `JoinGuard` | | limiter; keys and audit log; submissions; failed joins |
| `ApiServer` | those four | the server's dispatch: each request passes the limiter first |
| `Billing` | | figures, words and layout of the bills |
| `Documents` | `Billing` | files, pages and what every processor makes of them |
| `LocalEngine` | `Documents` | the same tools in the browser, and the options a page collects |
| `Pipeline` | `LocalEngine` | a job in the worker: one operation or a chain |
| `Studio` | `Pipeline` | a billing studio in front of that job |
| `JobProofs` (queue and runner), `P2pProofs` (relay and handshake), `TransferProofs`, `WebhookStoreProofs`, `ApiServerProofs`, `PdfEditorProofs`, `SiteProofs` (tool page and navigation), `PipelineProofs` (pipeline, studios and bills) | the module and `TLAPS` | theorems |
| `MC...` | the module | constants and symmetry for TLC |

Among the definitions of a module some are marked "Defect" or "Fault": the
plausible bugs that `PROJECT.json` lists as mutants. No specification uses them.

Several checked properties join smaller ones that are stated and commented one
by one in the module: `QueueIsSound`, `RunsAreSound`, `RelayIsSound`,
`PeersMeet`, `HandshakeIsSound`, `TransferIsSound`, `StoreIsSound`,
`EditorIsSound`, `NavIsSound`, `TablesAgree`, `PageIsSound`, `ServerTypeOK`,
`LimitsHold` and `ChainDelivers`.

### JobQueue (`packages/providers/src/queue/index.ts`)

| code | model |
|---|---|
| `jobs` map: `status`, `attemptCount`, `progressPercent`, `outputFileIds` | `status`, `attempts`, `progress`, `outputs` (functions of the job id, "ABSENT" before it is in the map) |
| `queue: string[]` | `queue`, a sequence of job ids |
| `leases` map: `token`, `expiresAt` | `leaseToken`, `leaseTtl` (time left; negative means `expiresAt < now`) |
| a caller that still has a token in a local variable | `held` |
| `enqueueJob`, `leaseJob`, `ackJob`, `nackJob`, `cancelJob`, `updateJobProgress` | the actions of the same names; `leaseJob` is `LeaseJob` when it returns a job and `LeaseNothing` when it returns null. Both contain the whole sweep |
| the errors thrown (FORBIDDEN and the like) | no step: the state does not change |
| `Date.now()` | `Tick` |

Calls with a token that was swept away are in the model because `held` keeps it
until `Forget`. `nackJob` and `cancelJob` have no caller in the repository; they
are modelled because the interface offers them. The branch of `leaseJob` that
drops a head which is not leasable is modelled, and `LeasedWasQueued` in
JobProofs shows that a leased job always was QUEUED.

### JobService and JobRunner (`job-runner.js`, `sandbox.ts`)

JobService is the promise to the submitter: each job is accepted, delivered and
billed, in this order, each at most once. JobRunner is the code: `Workers` loops
poll (`PollNothing`, `PollJob`), wait for a run or its timer, pause 500 ms
(`Pause`, `WakeUp`). A run is known by its lease token, and its steps are the
stretches between its awaits: `RunLoads` (getObject), `RunReports` (onProgress),
`RunProcesses`, `RunPuts` and `RunStores` (the start and the end of one
putObject), `RunAcks`, `RunRecords` (usage event, webhook dispatch), with
`RunFails` for every rejection, `RunHangs` for a processor that never answers and
`RunSkips` for an operation without processor. `SandboxTimeout` is the timer
winning `Promise.race`: the worker goes on and the run does too, detached.
The queue's actions are used as they are; the worker's step and the queue's step
are one.

The refinement mapping `StageOf` reads a job's stage off its status, the objects
written and the usage events. "delivered" requires every output object to be
there, so that the refinement also says that nothing is delivered incomplete.

### P2pSignaling (`apps/web/api/p2p-signaling.js`)

A room is the object a handler holds, not its code: a handler that read the room
before an `await`, and the close callback of a stream, act on an object that the
`rooms` map may have dropped meanwhile, and whose code may belong to another
room by then (`rooms` is the map; `members`, `queued`, `idle` and `codeOf` are the
object's). `signal` and `leave` await the request body between checking
the room and acting on it; `RequestArrives` is the first half, `RelaySignal`,
`RejectSignal` and `Leave` the second, and `pending` what lies between. A stream
has a life of its own: "open", "lost" when the client vanished and the server has
not heard of it - what is written to it then is gone -, "ended" by the server,
"closed" once its callback ran. `Purge` is one run of the daemon, over all rooms.
The count of failed joins of an address is `JoinGuard`.

### P2pHandshake (`apps/web/public/modules/p2p-client.js`, first half)

Each page has an inbox of stream events handled in order, an outbox of POSTs
that may overtake each other, and a newest `RTCPeerConnection`. Every offer and
every answer sets up a new connection and closes the old one. What the browser
does is modelled as far as the page relies on it and marked external: an answer
is accepted exactly when a local offer is pending, and two connections pair when
each holds the other's description. The page's steps and the relay's steps are
composed: what the relay writes on a stream is what the page's inbox receives.

### FileCopy and P2pTransfer (`p2p-client.js`, second half)

FileCopy says: files are received complete and in the order they were sent.
P2pTransfer is `sendP2pFiles` with its two suspension points (reading the next
slice; waiting for `bufferedamountlow`), the channel as a reliable, ordered
buffer, and the receiver's `handleIncoming` with its map of transfers in
progress. A chunk carries its index and not its transfer, as in the code: the
receiver files it under the oldest transfer it knows. The refinement holds with
one call at a time; with two it does not (section 7).

### WebhookStore (`apps/web/api/webhook-store.js`, `webhook-routes.js`)

| code | model |
|---|---|
| `webhookStore` record: `status`, `events`, `successCount`, `failureCount`, `consecutiveFailures` | `status` ("new" before, "deleted" after it is in the map), `subscribed`, `successes`, `failures`, `consecutive` |
| `deliveryLog` | `log`; its keys are `logged` |
| one `deliverWithRetry` and its loop counter | `phase[h][n]`, `attempt[h][n]` for the n-th event and webhook h |
| `createWebhook`, `updateWebhook`, `deleteWebhook`, ping | the actions of the same names |
| `dispatchWebhookEvent` | `Dispatch`: first attempts of all matching webhooks are under way when it suspends |
| the stretch from an answer (or the abort) to the next `await` | `Answer`: log, counters, status and what comes next in one step |
| `setTimeout(r, BACKOFF_MS[attempt])` | `Retry` |

A delivery keeps the record it started with, so `Retry` does not look at the
store; `Answer` writes to whatever is stored by then, and to nothing when the
webhook was deleted - except for the log, which it creates again.

### Timeline and PdfEditor (`modules/pdf-editor-studio.js`)

Timeline is what undo and redo promise: a line of states with a cursor; `Back`
and `Forward` move the cursor and change nothing, `Amend` changes the state under
the cursor, `Save` cuts what lies ahead and drops what is older than 30 states,
`Reset` opens another document.

| code | model |
|---|---|
| `pageAnnotations`, `historyStack`, `redoStack` | `annos` (a set; each has its page), `history`, `redo` |
| position, size, text and colours of an annotation | `look`, one value that every edit in place flips |
| the zoom its coordinates are pixels of | `zoom` of the annotation |
| the object a mouse gesture holds | `gesture`; `live` while it is still the object on the page |
| calls of `renderEditorPage`, pictures whose `onload` is to come, documents being parsed | `renders`, `images`, `loading` |
| the array an export iterates over while it awaits a picture | `export.batch`, `export.bound` |

Undo and redo replace all annotations by copies (`Detach`): a gesture or an
export that goes on afterwards works on objects that no page shows. The three
groups of `Next` are `Editing`, `Viewing` and `Exporting`. The refinement maps the
line to `history \o <<annos>> \o Reverse(redo)` and the cursor to
`Len(history) + 1`.

### ToolRegistry and SiteNavigation (`app.js`, `tool-registry.js`, `packages/core/src/seo.ts`, `ssr-routes.js`)

The page's script and the server resolve a path by tables of their own:
`ClientContract` and `ClientResolve` are those of `app.js`, `PageRegistry`,
`ServerContract` and `ServerResolve` those of the core package, `Processors` those
of the worker. SiteNavigation is one document: the page the server rendered, the
tool its script is set to (`active`), the document's history (`trail`, `entry`) and
how it was reached. `Visit`, `Follow` and `Crawl` load a page, `Boot` is the script's
`DOMContentLoaded`, `Switch` pushes an address without loading, `PopState` goes back
or forward.

### ToolPage (`app.js`, `file-staging.js`, `progress-tracker.js`, `direct-ai.js`)

The visitor's actions are `SwitchTool`, `ResetWorkspace`, `SaveKey`, `Select`,
`RemoveStagedFile`, `ExecuteDocumentOperation` and `Generate`; what comes back
later is `FinishRead` (a selection has been read), `Proceeds` (an operation's
local work or its POST goes on, is done, or fails and falls back), `JobEnds`,
`Tick` (the poll interval asks) and `AnsweredEnded`/`AnsweredEarly` (an answer
arrives; several may be under way). An operation goes on with the array of staged
files it started with: it sees what is appended to that array, and nothing of
the array that replaces it (`Detached`).

### RateLimiter, ApiKeys, Intake, JoinGuard and ApiServer

RateLimiter keeps a window per client and group of routes (`store`) and, as
history, when requests passed and when a refused client was told to come back.
ApiKeys is `api-key-store.js` behind the developer routes, with the audit log.
Intake is `POST /api/v1/jobs`: the handler checks the submission (`PostJob`; a malformed
body is answered 500, a batch too large 413), then
takes and writes one file at a time (`TakeFile`, `FileWritten`, `WriteFails`; a file
without a name ends it with a 500) and queues the job (`EnqueueJob`). Two submissions
that note the same key write one object; `Alone` says that nobody else has the key. JoinGuard counts failed joins by address. ApiServer
composes them as `server.js` does: every request passes the limiter, `TooMany`
answers 429 and changes nothing else, and one clock drives windows, expiry and
records. `Mixed` restricts a behaviour to one kind of route (jobs, keys, room
codes), which share nothing but limiter and clock.

### Documents, LocalEngine and Pipeline (`packages/workers/src/processors`, `local-engine.js`)

A file is a sequence of pages, each known by where it came from, with its turn,
cuts, notes, the sheet a picture was laid on and its marks, and the file's password,
form and traces. A mark has what the options chose of it: the text and opacity of a
watermark, the position and format of a page number with the number it writes and the
last one, the count of a redaction's boxes. Documents has
one operator per processor, which `Gives` files or `Throws`. LocalEngine has the
browser's twins on the fields of the form, and what `collectActiveToolOptions` reads
off the same form.
`SameToolSamePages` compares all of it (`Seen`), `Alike` being the forms that lose
nothing on the way to the worker. Pipeline is a job in
the worker: one tool or a chain of steps, each step reporting progress, succeeding
(`StepSucceeds`), throwing (`StepThrows`, with and without `stopOnError`) or being
cut off by the sandbox (`TimeOut`); `RunLocally` is the page trying the browser's
twin first. What a chain delivers is stated page by page: the `Face` of a page is
where it came from, its turn and the kinds of its marks, `Worked` is what a step
makes of that on the i-th page, and `Faces` what some steps make of all; `PagesArrive`
compares them with the result's pages, and `LockStays` says when the result is under a
password.

### Billing and Studio (`gst-invoice.ts`, `pos-billing.ts`, `estimate-maker.ts`, `tax-receipt.ts` and their studios)

Billing has the amounts as the previews compute them (`GstPreview`, `SlipPreview`),
the options a studio sends (`GstOptions`, `SlipOptions`) and the amounts the worker
computes from them (`GstInvoice`, `PosSlip`, `Estimate`, `Receipt`), the amounts in
words (`NumberToWords`), and where things are drawn: the length of the roll
(`RollLength`, `RollDrawn`) and what is left of the page (`InvoiceRoom`,
`EstimateRoom`). `Column` and `Amounts` are the loops' running sums, over the places
of the lines; `SaidBy` reads words back, for the property only. Quantities are in halves and rates in paise, so that rounding is
the code's. Studio is the page in front of it: rows are added, deleted and changed
under a live preview, `Generate` sends what the preview shows, `Posted` and
`Refused` are the answers, `Reset` starts again.

## 4 Runs

| run | instance | states | shows |
|---|---|---|---|
| `queue` | 4 jobs (two share an idempotency key), 3 tokens, leases of 1 tick, `MaxRetries` 1, percentages -5 and 120 | 496 k | line, leases, outputs and keys agree; end states are final; only the holder writes |
| `runner` | 1 loop, 2 jobs, 2 tokens, 2 output files; any run may fail, hang or be late | 301 k | tokens, runs, usage and storage agree; JobService is implemented |
| `runner_liveness` | 1 loop, 3 jobs, two of which never succeed | 21 k | healthy jobs finish, orphaned jobs are retried |
| `signaling` | 3 peers, 3 streams, 1 room, 1 signal, queue cap 1 | 609 k | rooms stay sound, no signal waits for a connected peer, both peers are told of each other |
| `handshake` | 2 pages, 2 streams, 3 signals, cap 1, 2 suspended requests | 169 k | a single offer pairs the pages; signals arrive once and in order |
| `transfer` | one call with files of 5, 0 and 2 chunks, watermarks 2 and 1 | 172 | files arrive intact, the buffer is bounded, the call ends, FileCopy is implemented |
| `webhooks` | 2 webhooks of 2 owners, 2 events, 3 attempts, limit of 2 failures, logs of 3 | 79 k | log and counters agree, retries follow failures, owners stay apart, deliveries end |
| `editor` | 2 annotations, a document of 2 pages, 2 saved states, 4 saves or files, 2 zooms, 1 render | 1.4 M | nothing deleted is beyond undo, an export is complete, Timeline is implemented |
| `site` | every path of every table typed, 2 entries of history | 18 k | the tool on the screen is the one addressed, the tables agree, no link is dead |
| `page` | 2 files, 4 tools, 2 operations, 1 read and 2 answers under way | 497 k | the page shows what is going on, results are their operation's, no file is taken twice, progress ends |
| `api` | 1 client, 3 groups of routes, windows of 2 ticks, 1 key that may expire, 6 kinds of submissions, 2 of them at once, 4 requests | 371 k | bursts are bounded and Retry-After is enough, guesses are bounded, the audit log tells the keys, a revoked or expired key stays out, a queued job's inputs are whole and its own, every submission is answered |
| `pipeline` | every operation alone and in pairs, every tool in both places, four studios with 3 edits each | 288 k | chains deliver in order, a bill is whole, the browser and the worker make the same pages, progress is honest |

Why these bounds are enough.

- *Jobs.* A token that is stale while another is valid needs two tokens; a
  sweep of two leases at once, which reorders the line, needs a third for the
  next holder; an attempt beyond `maxRetries` needs `maxRetries` + 2 attempts
  counted (`AttemptCap`); double billing needs one event more than allowed
  (`UsageCap`); "some but not all outputs stored" needs two files. Time is
  counted in ticks and leases are relative, so states do not grow with time.
- *Signalling.* A third peer is the one a full room turns away; a peer that
  loses its stream and opens another needs one stream more than peers; the cap
  of the queue is reached by one signal, and dropped from by a second one
  (`handshake` has three); a request that outlives its room needs one suspended
  request, two that overtake each other need two.
- *Transfer.* Five chunks against a high watermark of two make the sender pause
  and resume more than once; an empty file has no chunk at all; two files in a
  row catch a receiver that leaves something behind.
- *Webhooks.* Two deliveries to one webhook interleave their answers; six
  attempts overflow a log of three and pass the limit of two failures several
  times; a second owner can be written to by mistake.
- *Editor.* Two annotations are what one edit can mistake for the other; two
  saved states and four saves overflow the stack with undos between; two pages
  let a render, a picture and an export come back to another page than they left
  for. A third annotation adds nothing that the second does not. The proofs
  (section 6) lift these bounds.
- *Site.* The tables are the code's, every row of them; a history of two entries
  has a back and a forward.
- *Page.* Two operations race for the one poll timer; two answers overlap; a read
  outlives a reset or a switch; the four tools are one of each kind (local with
  fallback, server only, AI, studio).
- *API.* Windows of two ticks and a clock to three have requests at the end of
  one and the start of the next; the limits 1 and 3 are reached and passed; a key
  that lives one tick expires while it is used. A submission of the first window
  may still be taken when the next window lets one in: the two then note their keys
  in one tick, meet under one of them and interleave their writes.
  The proofs lift limits, windows, clients, keys and submissions.
- *Pipeline.* Step pairs show every operation what every other left it; a chain
  is a repetition of that. The forms include each way of writing a page range.
  Bills have the rates and quantities at which the two ways of rounding part, and
  as many items and tax codes as fill a page.

Tokens, peers, streams and annotations are symmetric where nothing tells them
apart; jobs, files and webhooks are not, because constants distinguish them. Runs
with liveness properties use no symmetry.

Deadlock is not checked where the system may stop: once every job is finished
and nobody calls, nothing happens; the visitor of a page need not do anything;
the counters that bound a run stop it.

## 5 Fairness

`RunnerFairness` is weak fairness of each worker's step, each run's step and of
time. The event loop justifies it: a pending timer or promise continuation is
run eventually, and no step disables another worker's step for ever. Nothing is
assumed about submissions, progress reports or the outcome of a run. The
liveness run additionally assumes `Prompt` (no processor blocks the loop for a
whole tick) and `RunTicks`, an upper bound on the time of a run that does not
hang: without them no deadline in the code means anything. `HealthyJobsFinish`
holds when the failing attempts between two leases of the healthy job fit into a
lease period (`LeaseTicks` = `BudgetTicks` = 4 against two poison jobs and pauses
of 1); several poison jobs that together take longer starve the healthy one just
as one hanging job does.

P2pTransfer's `FairSpec` has the sender's steps, the channel's deliveries and
its `bufferedamountlow` callback go on while the channel is open; the channel
may close at any time, and then the code must still bring the call to an end.
WebhookStore's `FairSpec` is weak fairness of each delivery's next step: its
pause is a timer, and an attempt is answered, fails or is aborted after ten
seconds by an AbortController. P2pSignaling's `FairSpec` lets time pass
and the purge daemon's interval fire. Nobody has to create, join,
dispatch or delete anything.

ToolPage's fairness is weak for `Tick` (an interval fires while it is set), for
`Proceeds` (local work and requests come to an end) and for `JobEnds` (the worker
finishes a job, see `runner_liveness`), and strong for `AnsweredEnded`: polls are
asked again and again, and one that is asked after the job ended is answered some
time. The visitor is not assumed to do anything. ApiServer's is weak fairness of
each submission's handler: a write of the storage provider resolves or rejects.

## 6 Proofs

**JobProofs** proves of the queue `Spec => []Inv`, where `Inv` joins `TypeOK`,
`QueueHoldsQueuedOnce`, `LeasedIffProcessing`, `TokensDistinct`,
`CompletedIsWhole` and `OneJobPerKey`. None of the parts is inductive alone: that
the line stays free of duplicates under a sweep needs that an expired lease
belongs to a PROCESSING job, which is not in line; that an ack makes a whole
COMPLETED job needs the lease to mean PROCESSING; and that the holder is unique
needs distinct tokens. The lemmas on the line (`AppendToLine`, `TailOfLine`,
`JoinedLine`, `FilteredLine`, `SweptLine`) say what each of the code's array
operations does to "exactly these ids, once each". `QueueSoundness` is the run's
invariant, `EndsAreFinal` and `HolderWrites` are the two action properties.
Assumptions: the named ASSUMEs of the module (the set of jobs is finite, the
markers are not members of the sets).

About the runner it shows first that every step of the runner is a step of the
queue (`QueueStep`), so that `Inv` and the queue's theorems carry over
(`RunnerUsesQueue`), and then `RunnerSpec => []RunnerInv` for any number of
workers, tokens, jobs and files. `RunnerInv` adds to the four checked invariants
`StoredBeforeAck`: a run in phase "ack" or "record" has stored all its files,
and what a run stored is among the objects written for its job; without it
nothing connects the ack to the storage. `Refinement` is
`RunnerSpec => ImplementsJobService`, one step per action: the three actions
that are visible are `Submit`, `RunAcks` and `RunRecords`.

**P2pProofs** proves the two invariants of the `signaling` run and `SignalsInOrder`
for any number of rooms, codes, peers and streams and any length of the queue. It
begins with `Only`, the loops of the code that pick some of a sequence: `OnlyPicks`
says that they keep the order and every element they should (its definition chooses
an increasing list of indices, which exists by the library's theorem on well-founded
relations; a definition by recursion could not be reasoned about). `Sound` joins
`TypeOK` with `HomesHaveCodes` (whoever has a stream or is found by a request belongs
to a room with a code), `MembersAreHome` and `StreamsAreTheirs`; the last is why the
close callback of a stream, which clears what it finds, never leaves a peer with a
closed one. `PeersMeet` needs `WaitingFits`: all that is queued is for a peer of that
very room which has no stream - a request that was suspended on its body may belong
to a peer of another room, since codes are used again. `SignalsInOrder` needs
`GotFirst`, that what waits was relayed after all that has been received, and that
again needs `WaitingFits`: nothing is written past a queue. `PagesUseTheRelay` shows
that P2pHandshake implements P2pSignaling, so that all this holds under the pages
too (`SignalsReachPagesInOrder`); a goodbye to a room that is gone closes one stream
because no page has two (`OneStreamEach`).

About the pages it proves their types (`HandshakeTypes`) and that one offer is
enough (`OneOfferIsEnough`). The types are a counting argument: a page makes a
connection only on an event, so the connections it has made and the events that
may still make it make one (`Urges`) never exceed its `Budget`, which is why the
model's numbering of connections does not run out. `OneOfferConnects` speaks of a
handshake that has come to rest; `OfferInv` says what leads there. As long as
nobody's stream was lost, nobody left and nothing was dropped (`Calm`), both
pages sit where they were seated, no request is refused, nothing expires, and
whoever is a pair is in one of seven stages from `Offering` to `Connected`
(`Stage`), each of which says where the one offer or the one answer is: in an
outbox, suspended in the relay, queued, or in an inbox. `[]CodesAreFresh` is a
hypothesis: a code is a random number that the relay compares with the rooms in its map
only, and a request of a room that is gone, whose code was drawn again, acts on
the new room; with one code, three rooms and five peers a late goodbye
unregisters a room whose pages are in the middle of their handshake. The number
of peers and of connections is finite (`FiniteAssumption`), for they are counted.

**TransferProofs** proves `TransferIsSound` and the refinement of FileCopy, for any
files, chunks and watermarks. That the buffer is bounded holds for any number of
calls side by side (`BufferStaysBounded`): a call that was resumed by the
channel's callback sends without looking again, so that what is kept is
`RoomIsKept`, in which resumed calls count with the chunk they are going to send,
and `CallsAreAtChunks`, that no call is suspended at any other message.
The other two are about one call (`Batches = {b}`, the hypothesis of the theorems):
with two calls they are false (section 7). What a call sends is a list of messages
joined by the library's `FlattenSeq`, and `ScriptIsShaped` says what that list looks
like - header, chunks from the first to the last, end, for one file after the
other. The invariant is then a sentence about a place in the list: what was received
are the files before it, the transfer in progress has the chunks before it
(`Taken`), and the buffer holds the stretch from it to what was sent last
(`InFlight`). The theorems are about `Spec` and so hold of `FairSpec`.

**WebhookStoreProofs** proves the four safety properties of the `webhooks` run
for any number of webhooks, owners, events and attempts and any positive limits.
`PushedLog`, `PushedEntries` and `PushedRun` say what one push onto a capped log
does to its length, its entries and the run of failures at its end; `PushedRun`
is why `consecutiveFailures` may be compared with the log at all: shifting off
the oldest entry never shortens a run that is still visible. The invariant `Inv`
adds to the checked properties `LogIsBehind` (what the log says of a delivery
that is still going on are failures of earlier attempts - this is what makes
`RetriesFollowFailures` inductive), `LogIsCapped` (also for deleted webhooks,
whose log may come back), `FreshIsBlank` and `DispatchedOnly` (a webhook or event
that does not exist yet has left no trace). `FailingNeedsARun` is an action
property and needs only `TypeOK`.

**ApiServerProofs** proves the safety properties of the run `api` for any clients,
groups, limits, window lengths, keys and submissions. That a client gets no more than `2 * MaxRequests` requests within a
window's length is not inductive: it speaks of stretches that begin anywhere. What
is kept instead is `Paced` - of any `2M + 1` requests in a row the last is more
than a window after the first - together with `Window`, which ties the counter to
the requests: the open window holds exactly the last `count` of them, and the `M`
before those came before it began. `WindowBegins`, `WindowGoesOn` and `WindowEnds`
preserve them and `PaceBounds` turns pace into the bound on cardinalities; the
theory is stated once, for any ordered sequence of times, and used by the rate
limiter and by the count of wrong room codes. `Told` says that the time a client
was told is not before the end of its window, which rests on Retry-After being
rounded up (`RoundsUp`). The invariant `ServerInv` joins `LimiterInv`, `KeysInv`,
`IntakeInv` and `JoinInv`, one for each component, and every action of the
composition is shown to preserve each of them.
On top of it `AuditAlwaysTells` keeps, for each key, how many of the
entries that are left are uses of it (`Tells`): no more than were counted, and
exactly as many while its creation is among them, since entries only leave at the
old end. `DeadKeysNeverServe` needs that the clock never goes back and that nothing but a
revocation touches a dead key (`DeveloperKeepsOut`). `InputsStayTheirs` keeps what a
handler has noted of its submission (`Shape`), and that the files it no longer waits for
are in the storage, if nobody else noted their key (`Fits`). It needs nothing of the
names or the times of what is submitted: keys are only ever added to a handler
(`KeysGrow`), so that who is alone now has always been (`AloneBefore`), and a write of
another submission went elsewhere (`OthersFit`); within one request the places differ.

**PipelineProofs** proves four properties of the `pipeline` run under `StudioSpec`, for
any jobs, files, forms, studios and edits: `PipelineTypeOK`, `ChainDelivers`,
`ProgressIsHonest` and `BillIsWhole`. The inductive invariant `PipelineInv` (TLC agreed with it over the
states of the run before it was proved) has, besides types, three parts.

- `InHand` is what a chain has in its hands between two steps, not only at its end:
  the files are files (`AreFiles`: their pages and marks are sequences, a picture is
  one page without a password), they are locked as the last deciding step left them,
  and their pages look like those of the source after the steps kept so far
  (`Carried`). Another job holds its own files until it is done. `StepMakes` is what
  one step must do for `Carried` to go on, and `ProcessMakes` shows that each of the
  thirteen chainable processors does it, from one lemma per processor (`Merges`,
  `Rotates`, `Redacts`, ...). `FlattenMakes` does the same for a flattening that was
  cut short, so that the timer may run out at any moment. `FacesGrow` and
  `LockedGrows` are what one more step does to the two recursive descriptions; a
  lenient chain's failed step leaves both alone, and that a step may follow several
  failed ones is why `Carried` speaks of the steps kept and not of the place.
- `OnTheBar` says where the bar stands: at the beginning of the running step's share,
  or where the last report put it. `ReportsRise` shows that each processor's reports
  rise from 0 to 100 for any number of pages, targets and boxes, `BarGrows` that
  mapping them into a share keeps the order, and `Bases` that the shares follow each
  other from 0 to 100.
- `Fresh` says what a job looks like before its first step, a studio shown again
  included.

`BarsAreHonest` has the hypothesis that chains have fewer than two hundred steps: the
end of the 199th of two hundred shares is 99.5, which is rounded to 100
(pipeline.ts:118). That number is the lemma `RoundedUp`; that some chain gets there,
so that the bound could not be raised, is not proved. The rest holds for chains of any
length.
Functions by recursion on a number - the pages after some steps, the files joined by
`FlattenSeq`, the elements `SelectSeq` keeps - are shown to exist and unfolded one step
at a time from the least number where they would fail (`LeastNumber`), since the
library's induction theorems cannot be used.

`BillsAreWhole` is about any number of items, any codes and rates. `BillInv` adds to
`PipelineInv` that the form of a studio holds numbers where the bill needs them
whatever was added, deleted, typed or reset, that a bill under way has the options of
a bill, and that a done bill is exactly what its operation issues for them. From there
it is arithmetic. The amounts of a bill are sums over the places of its lines; that such a sum takes its members in any order
(`SumTakes`), splits into two (`SumSplits`) and so into classes (`SumByClass`) is why the
summary by codes adds up to the totals, and an invoice's amounts are whole paise before
they are added, so that printing changes none of them (`InvoiceAddsUp`). `SlipAddsUp` is the
paisa two halves may be off. `WordsSayTheAmount` reads the words chunk by chunk:
`Hears` is what a list of words adds to what was read before, `ChunkIsHeard` does the
numbers below two thousand, `ScaledIsHeard` the crores, lakhs and thousands; the words
of a larger amount would say nothing, which is the bound `Sayable`.

Of the layout it has what holds for any size: the roll is as long as
what is drawn on it (`RollHoldsTheSlip`), eleven items fit an invoice and twenty an
estimate (`ElevenItemsFit`, `TwentyItemsFit`) while twelve items of twelve codes do
not (`TwelveItemsMayNotFit`), the round-off is at most half a rupee
(`RoundOffIsSmall`), and a clamped percentage is one (`PercentIsInRange`).

**PdfEditorProofs** proves all four properties of the `editor` run, for any
documents, annotations, zooms, renders and limit of the stacks. `KindsOfSteps` sorts
the editor's thirty-odd actions by what they do to annotations, stacks and export:
they move along the stacks, empty them, add one annotation, change some, remove the
selected one, or go on with the export; every later lemma has one case for each.
That an export is complete needs two facts no run would think of: an annotation
keeps its page and kind wherever a copy of it is, on the pages or on the stacks
(`Steady` - otherwise an undo could move what the export has passed), and what stayed
since the export began is drawn, or in the array being drawn, or on a page still to
come (`KeptAreThere`). `DrawnPages` is one stretch of the export's loop; its minimum
exists by the library's theorem on well-founded relations. The refinement rests on
what the line looks like (`LineShape`): undoing and redoing leave it as it is
(`UndoneLine`, `RedoneLine`), an edit amends it (`AmendedLine`), and a saved edit
cuts it and drops its oldest state at the limit (`SavedLine`).

**SiteProofs** proves the three safety properties of the `page` run, for any
tools of the registry, any files of any kinds and any limits. `OpsMove` says once how
an operation may go on (`Moved`), and every action is shown to be such a step, to keep
the types, and to show progress or a dropzone only with a reason (`Keeps`); three
invariants then follow from `Keeps` alone. `OpsInv` (a job exists only once it is
polled for, and a done operation's job did not fail) is what makes "done" final, on
which `ResultsAreTheirOwn` rests. `PageStaysSound` needs that the dropzone is shown
for tools that take files only - otherwise a generating studio could open beside it -
and that no tool names one of the passing panels as its studio, which is proved of the
table of tools itself (`ToolsTidy`). `NoFileIsTakenTwice` needs the inductive
`FilesInv`: a file that is not selected yet or still being read (`Free`) is neither
staged nor held nor taken by anyone, no array has a file twice, and a merging loop has
taken nothing of what is still ahead of its place (`Ahead`) - a removal moves the
array towards the loop and so never brings back what it has passed, and an addition
comes after everything it has seen. That a selection's loop keeps only what it was
given, in order (`FitKeeps`), is again the existence of an increasing list of indices
(`Listing`).

It also proves the three properties of the `site` run, for any bookmarks and any
length of the history. The tables are the code's, some hundred rows that are merged
from several literals with earlier ones winning; a prover that unfolds them all is lost.
So each table has a description by key - `Stated` of the server's pages, `Defined` of
the script's tools, `Targets` of the aliases - that merging preserves (`BothState`,
`BothDefine`, `BothLead`), and each literal is compared with it on its own. From there
`ToolsMatch` says that every tool the script can show has a page of the server for the
same use and a processor if it takes a file, `KnownAddressFits` that this is so for
every address the script knows, and `LinksAreServed` that every target of a link is
served. The inductive invariant `Navigates` adds to the checked properties that the tool
on the screen is one that some address names (`ToolIsNamed`): without it
nothing would be known of the tool that stays when the visitor goes back to an address
the script does not know.

Model-checked only: liveness and ENABLED, which the prover does not treat; what
recursive walks of the models compute, since it cannot instantiate the induction
theorems of its library and a module with a RECURSIVE operator cannot be proved about;
and one property of the pipeline: `SameToolSamePages` compares two algorithms for each
of a dozen tools and four bills on the forms of `Alike`; a proof is one such comparison
after the other, with no invariant that carries it.

## 7 Counterexamples

The properties below are defined in the modules and are not satisfied by the code.
They are no runs of `PROJECT.json`. These have a cfg:

- `MCJobRunnerRetries.cfg`, `AtMostMaxRetries`: the loop never nacks and the sweep
  does not count, so that a failing job is tried for ever.
- `MCJobRunnerZombie.cfg`, `CompletedOutputsIntact`: a run that was timed out
  rewrites outputs of a job that has been completed by a later run.
- `MCP2pHandshakeTwice.cfg`, `HandshakeCompletes`: the host makes an offer on
  `peer-joined` and another on `peers-connected`; the answer to the first is given
  to the second connection.
- `MCP2pTransferMixed.cfg`, `ReceivedIntact` with two calls of `sendP2pFiles`:
  chunks do not name their transfer and are filed under the oldest one in
  progress.

The others are changes of one of the runs' configurations:

| property | change | why |
|---|---|---|
| `FollowsTransitionTable` | `queue`, as it is | no code enforces `VALID_JOB_TRANSITIONS` (queue/index.ts:122): PROCESSING goes to COMPLETED and back to QUEUED |
| `AtLeastOnceDelivery` | `runner_liveness` with `Jobs = {good, hung}`, `LeaseTicks` and `BudgetTicks` 2 | a hanging job is put in front by each sweep; the sandbox budget equals the lease, so it is always expired at the next poll |
| `OpenStreamsAreKnown` | `signaling` | when a page opens a second stream, the close of the first one unregisters the second |
| `RoomsOutliveReconnects` | `signaling` | a room whose streams are all gone for a moment is removed although a page is about to reconnect |
| `PairsOutliveSignaling` | `handshake` with `QueueCap` 2 | a paired connection is torn down by what happens to the room afterwards, although P2P-SHARING-SPEC.md:71 has signalling end once the channel is open |
| `PausedCallsResume` | `transfer` with `Batches = {b1, b2}`, `FilesOf <- MCTwoCalls` | `onbufferedamountlow` holds one callback; a second call that pauses takes the place of the first, which never resumes |
| `DeletedMeansSilent` | `webhooks` with `Hooks = {h1}`, `FailLimit` 5, `LogCap` 4, `MaxEvents` 1 | a delivery in its pause attempts again after the webhook was "permanently removed" |
| `OnlyKnownHooksHaveLogs` | `webhooks` | an answer after a deletion creates the log again and nothing ever deletes it |
| `ExportedWherePlaced` | `editor` | an annotation's coordinates are pixels of the zoom it was placed under; the export scales all by the canvas of the moment (pdf-editor-studio.js:1138) |
| `InputsAsMeant` | `api` | the widget sends name and size only and a blank page is stored (api-routes.js:177); an uploaded `storageKey` is ignored (:175): both in one submission; two submissions of one name in one millisecond write one object (:165), with `Submissions = {one, two}`, `Malformed = {}` |
| `WindowRolls` | `api` with `MaxRequests <- MCRollRequests` | a window is a counter with an end, not a rolling one (rate-limiter.js:7): two spent back to back make twice the limit |
| `SessionsAreWelcome` | `api` | GET /me refuses the bearer sessions that the other developer routes take (developer-routes.js:99) |
| `SignaturesAreKept` | `pipeline` with `ChainFiles <- FewFiles`, `ChainSteps <- FewSteps`, `ToolJobs <- NoTools` | flattening drops signatures with the other annotations (flatten-pdf.ts:121) |
| `FallbackIsTransparent` | `pipeline` | rules.md:181 has the page "transparently route" to the server; the browser's twin and the worker differ in split ranges, open ranges, turns by hand, deleted pages without an order, crops without options, redactions (page 1 or every page), and page numbers, whose position and format the page does not collect (options-collector.js:16-72 has no branch for them where local-engine.js:424-425 reads both): the worker writes the bare number at the bottom (page-numbers.ts:90-91) |
| `StrippedIsGone` | `pipeline` | strip-metadata.ts:5-9 lists the dates and the document ID among what gets stripped; `:85` calls a `get` that pdf-lib's `trailerInfo` does not have, inside a `try`, and `:113` reads a `context.trailer` that does not exist, so that both stay, while the browser's twin resets the dates |
| `StagedFitTool` | `page` with `Tools <- OfficeToo`, `Files = {p1, word}`, `MaxWork = 4` | files staged for one tool stay staged when the next one does not take their kind (file-staging.js:61) |
| `StartsAsServed` | `site` | /image-to-pdf is served as its own page and its script starts as merge-pdf (app.js:902) |
| `SitemapIsServed` | `site` | the sitemap lists languages that no route serves (growth-routes.js:33, ADR-0003:29) |

`IdleRoomsArePurged` holds under P2pSignaling's `FairSpec` with two peers and two
streams; it is too large for a run beside the others.

Met while modelling, without a property: the widget's polls overlap and call
`onSuccess` twice (widget.js:353-385); the CORS header does not allow DELETE
(server.js:61); a code that is used again is deleted by the callback of the room
that had it before (p2p-signaling.js:304); what is written to a lost stream counts
as forwarded (:345); rooms live ten minutes where P2P-SHARING-SPEC.md:71 says five;
the retry pauses are 0, 1 and 2 seconds where the header of `webhook-store.js` says
1, 2 and 4; no code calls a processor's `validateInput`, which
processor/index.ts:23-26 describes; flattening goes on when it was cancelled
(flatten-pdf.ts:100); a chain delivers the first file only (pipeline.ts:156);
between `initPdfEditorStudio` and the end of its parsing an export draws the old
document's annotations on the new one (pdf-editor-studio.js:62, 1129).

Where a bill differs from its preview (`SameToolSamePages` is stated for the inputs
of `Alike`): an item at 0 % GST is previewed untaxed and invoiced at 18 %
(gst-studio.js:688); a quantity of 0 or a half is previewed as such and issued as 1
(gst-invoice.ts:199); only the invoice rounds each item (:202-213); a
discount or tax out of range is previewed as typed and issued clamped; an
estimate's rows print at least 1 where its subtotal adds what was typed
(estimate-maker.ts:75, 219); the currency sign the view offers
(estimate-studio-view.js:69) makes the job fail; a blank donor's PAN is printed as
an example number; the amount in words drops the paise; and the pay code is hidden
from the preview of a total of zero.

## 8 What is not modelled

- *TTL daemon.* `job-ttl.js:13` returns at once when the queue has no `getAllJobs`,
  and the provider has none: no behaviour to model.
- *PDF bomb defence.* A scan of a buffer that no route calls.
- *Office, picture, OCR and AI processors.* Conversions of formats by external
  programs and services; the pipeline has them as operations without a processor
  where the code does.
- *Views, static files, SEO texts.* Wording and layout; what they link to is in
  ToolRegistry.
- *Inside the modelled parts.* The sandbox's temporary directory (the loop does
  not use it); the dispatch of webhooks after an ack (JobRunner and WebhookStore
  are not composed: a dispatch is not awaited and nothing of it comes back); a
  usage event that cannot be inserted (the store is an array and does not fail);
  ICE candidates (they belong to a description and decide nothing in the page's
  code); chat snippets and the text of events; the signing of webhook payloads and
  the validation of request bodies other than a job's, which change no state.
- *Pipeline.* A chain has at least one file: `pipeline.ts:67` says so, although it says
  it in `validateInput`, which nothing calls. Nothing is shown of the bar of chains of
  two hundred steps and more (section 6). Measures are left out: the size of fonts, the
  margins and the shade of grey differ between the browser's watermarks and page numbers
  and the worker's (local-engine.js:399-414, watermark.ts:115-121).
- *Libraries of the processors.* What pdf-lib and the encryption package do with a
  locked file is assumed, at the head of Documents: `protect.ts:62` loads past the
  encryption and swallows errors, so that `encryptPDF` alone refuses a file that is
  locked already - `LockStays` depends on it - and a redaction drawn on a locked file
  is taken to be in the file that is saved.
- *Billing.* Quantities and rates are not negative, rates are in paise where the
  source has rupees, and sums are exact where the source has binary fractions;
  names, dates, fonts and descriptions are left out (a new GST row without
  description is previewed "Service / Product" and printed "Service"); nothing is said
  of the words from two thousand crore on, where the hundreds of crore have no name
  (gst-invoice.ts:54); options are numbers where `BillOptions` asks for them, as every
  studio's are (the source turns what else it gets into 0 or 1); the other names an API
  caller may give a field are left out: `quantity` on an invoice (gst-invoice.ts:199),
  `unitPrice` on an estimate (estimate-maker.ts:75), and `price` on a slip, which enters
  its total (pos-billing.ts:66) and not its rows (:206); printing from the
  preview is the browser's.
- *Editor.* Positions, colours and fonts (one value stands for them), and pages
  of different size.
