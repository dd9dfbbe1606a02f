# An estimating service: TLA+ models, checks and proofs

The repository is an estimating service: a Go API server, Go calculation workers, an
authentication server, PostgreSQL, RabbitMQ and a JavaScript client. A user edits an
estimate, the lines are priced in the background, and the client follows the progress,
beside the base of norms and prices, the tree of constructions, the licences and the other
users. Two parts are hard. On the server saves, starts, cancels, an outbox publisher, a
broker and several workers write the same few tables in transactions whose order nobody
controls. In the client one file of 12 000 lines runs listeners, timers, saves and redraws
that cross each other at every `await`. This project models both, checks them with TLC on
small instances and proves most of their safety properties with TLAPS for every instance.

Paths below are relative to `src/`; `FS` is `backend/internal/store/file_store.go`, `CB`
is `store/calc_batch.go`, `PS` is `store/estimate_calc_persist.go`, `WK` and `RB` are
`calcworker/worker.go` and `rabbit.go`, `PB` is `outbox/publisher.go`, `APP` is `web/app.js`.

- [1 The system](#1-the-system)
- [2 Modules](#2-modules)
- [3 How the models correspond to the code](#3-how-the-models-correspond-to-the-code)
- [4 Properties](#4-properties)
- [5 Runs and bounds](#5-runs-and-bounds)
- [6 Fairness](#6-fairness)
- [7 What the code does not keep](#7-what-the-code-does-not-keep)
- [8 Proofs](#8-proofs)
- [9 Abstractions and what is not modelled](#9-abstractions-and-what-is-not-modelled)
- [10 Plan](#10-plan)

## 1 The system

### Components

| component | state | operations | status |
|---|---|---|---|
| Asynchronous calculation (FS, CB, PS, `api/server.go`) | `app_estimates` (header, `calc_generation`), `app_estimate_lines` (content, `calc_status`, `calc_revision`, result), `estimate_calc_state`, `estimate_calc_lines`, `calc_message_receipts`, the in-process map `calcStartJobs` | save, enqueue after save, start, resume, cancel, status poll with repair | partly: no prices and sums, no deletion of an estimate |
| Outbox publisher (PB) | `outbox_events`, one batch in memory | fetch, publish and confirm, mark | partly: not its connection |
| RabbitMQ consumers (RB) | one delivery each, the broker's main, retry and dead-letter queues | skip decision, calculate, complete, fail, republish, acknowledge | partly: no prefetch, statistics |
| DB job queue (WK, FS) | `estimate_calc_jobs` with leases, one job per worker goroutine | claim, mark, complete, fail, expire, release stuck leases, stop a group | modelled |
| DLQ replay (`cmd/replay_dlq`) | none | move a message back | modelled |
| Long poll (CB) and the client's calculation session (APP) | generation, cursor; table, listeners, status read, timer, operations | batch, status; calculate, restart, save, switch views and sections | modelled |
| Edit locks (`presence/locks.go`, APP) | an in-memory table with a TTL; tabs, polls, heartbeats | acquire, list, release, force release; open, select, save, close, reload, sleep | modelled |
| Licence sessions (`presence/license_sessions.go`, APP) | an in-memory table with a TTL; pages, gates, heartbeats | sync, release all; navigation, change of view and price set, reload | modelled |
| Text and table of an estimate (APP, FS) | rows, text, view; the stored lines | parse, write, identify, delete, move, save, apply results | partly: no edits of cells, notes, sections |
| Table body (APP) | rows drawn, callbacks of animation frames, deferred redraw | mount in chunks, refresh, scroll, deferred redraw of a table with an active header | partly |
| Positions from the base, buffer (APP) | buffer, steppers, awaited records | add, change, remove, paste, add-line dialog | partly |
| Base panels (APP) | supplement, tree, information; price set, rows, page | select, search, open, turn a page, late and lost answers | partly |
| Construction tree, tree storage (APP, FS) | the server's nodes, the page's tree, open estimates, recalculations | list, add, delete with cascade, recalculate and clear a scope | partly: neither file nor legacy snapshot |
| Aggregates (PS), pricing, normalisation, quantity expressions | sums; none | sums; pure functions | not modelled: a result is a function of the revision |
| GSN lookup and cache, authentication, user catalogues and their pages, administration, observability, import and migration commands, deployment | | | not modelled |

### Interactions

A **save** (`PUT /api/estimates/{id}`) rewrites header and lines in one transaction,
keeping the stored result of each line whose revision did not change. If the estimate has
earlier results, a goroutine then queues the lines that have none.

A **start** (`POST .../calc`) may first cancel, then marks the estimate in
`calcStartJobs`, writes the state "starting" and returns. Its goroutine reads the lines
outside any transaction, clears or keeps earlier results, and queues the lines batch by
batch, one transaction each, checking the generation before each.

**Queueing** a line sets it to `queued` at a revision (a hash of code, quantity, district,
FGIS set and generation), deletes its receipts, and writes a job row, an outbox event, or
both, depending on `APP_QUEUE_MODE` (`db`, `dual`, `rabbit`). The default in the code is
`db`; production uses `rabbit` and keeps `db` for rollback.

The **publisher** publishes events with confirms and marks them. A **consumer** asks
`ShouldSkipCalcDelivery` what to do with a delivery, calculates, completes or fails the
line, republishes failed messages to a TTL retry queue or the DLQ, and acknowledges. A
**worker of the DB queue** claims a job with `FOR UPDATE SKIP LOCKED` and a lease of 45 s,
marks the line `leased`, calculates for at most 40 s and writes the verdict to job and line.

A **cancel** raises the generation, resets the lines, deletes unpublished events and kills
jobs. A **status poll** with `summary=1` recounts the state row when nothing is pending.

The **client** starts a calculation by a save and a start, then runs a *listener*: it asks
for batches with the number of lines it has applied as its cursor, applies them, and reads
the statuses at the end. A save stops the listener and waits for it; a change of district or
price set sets a timer of 200 ms whose callback restarts the calculation in rounds; the switch
to text stops the listener, cancels and shows the text.

An **edit lock** is acquired when an estimate is opened, renewed by a heartbeat every 30 s
and looked at by a poll every 5 s; its TTL is 90 s. The PUT does not look at it. The estimate
is opened from the page's own copy if that has lines, and read from the server otherwise. A
**licence session** is a seat in a subsection of the base; the page asks for what its section needs and
gives up the rest, and a heartbeat asks again.

The **text** of an estimate has no line ids: after typing, the lines are identified again by
their order, code and content. The **body** of a table of more than 250 lines is drawn in
pieces between animation frames. The **base** and the **tree** show what the last answer
said.

### What is hard, and what makes it correct

- *Interleaving.* No lock spans two transactions, and no await of the client keeps anything
  as it was. What a start, a save, a worker or a listener has read may be outdated when it
  writes. Correct: a result never ends up on a line that asks for something else
  (`DoneMatchesRevision`), a batch in no other calculation (`BatchesStayInTheirCalculation`),
  one listener at a time (`OneListener`), none during a save (`SaveStopsListening`).
- *At-least-once delivery.* Lost connections, lost confirms, failed marks, retries, replays
  and expiring leases repeat work. Correct: repetition neither loses nor damages a line.
- *Partial failure and crashes.* Errors of `FailEstimateCalcJob` and of the after-save
  enqueue are dropped; goroutines keep their work in memory. Correct: a queued line always
  has something that will settle it (`QueuedLineIsCarried`, `QueuedLineHasLiveJob`), and
  settles (`QueuedLineSettles`, `AwaitedLineSettles`); the page never leaves one waiting
  with nobody to listen (`NotStranded`).
- *Stale markers.* The start mark and receipts of earlier runs must not block later ones
  (`StartMarkIsReleased`, `QueuedLineHasNoReceipt`).
- *Time.* Leases, heartbeats, sleeping machines and requests that overtake each other.
  Correct: who edits holds the lock (`EditorsHoldTheLock`) and overwrites nothing saved since
  he opened (`SavesSeeTheLatest`), who lost it leaves (`LosersLeave`), who sees a licensed section has a seat (`ViewersHaveSeats`), and both
  tables are leases (`IsLease`, `SessionsAreLeases`).
- *Identity.* Lines without ids, answers without tokens. Correct: what is stored is what is
  shown (`TableIsStored`, `QuietTreeIsTheServers`, `TreeIsOfTheSupplement`,
  `PricesAreOfTheSet`).
- *Counters kept by many writers.* They must not become negative (`TypeOK`); that they add
  up is not true today (section 7).

`PROJECT.json` lists each hazard at its line with the properties that would catch it, or
with the reason why none does.

## 2 Modules

| module | content |
|---|---|
| `EstimateCalc` | one estimate: saves, starts, cancels, status polls, publisher, broker, consumers, replay, crashes; all three queue modes on the server's side |
| `CalcJobs` | extends it with the workers of the DB queue, the passing of time and the Manager |
| `CalcSession` | the client's calculation session of one estimate, against the server's API |
| `Lease` | what both presence tables promise: a seat while there is room, kept by whoever keeps in touch |
| `EstimateLocks` | the edit lock of one estimate and its users' tabs; implements `Lease` with one seat |
| `LicenseSeats` | the licence sessions of a company and its users' pages; implements one `Lease` per subsection |
| `EstimateText` | the lines of one estimate between text, table and server |
| `TableBody` | the drawn rows of a table |
| `PositionBuffer` | positions added from the base, steppers and buffer |
| `BasePanels` | the GSN tree and the FGIS table of the base |
| `ConstructionTree` | constructions, objects and estimates of the page and of the server |
| `MCEstimateCalc` (2 cfg), `MCCalcJobs` (2), `MCCalcSession` (3), `MCEstimateLocks` (1) | instances, symmetry |
| `MCCrossings` (1) | `EstimateCalc` again, with the state constraint of the run `crossings` (section 5) |
| `MCTable` (2) | `EstimateText`, `TableBody`, `PositionBuffer` side by side |
| `MCPage` (1) | `LicenseSeats`, `BasePanels`, `ConstructionTree` side by side |
| `EstimateCalcProofs` | TLAPS proofs about `EstimateCalc` and about `CalcJobs`, whose invariants are built from the same parts |
| `LeaseProofs`, `EstimateLocksProofs`, `LicenseSeatsProofs`, `ConstructionTreeProofs`, `CalcSessionProofs`, `EstimateTextProofs` | TLAPS proofs about the module they are named after |
| `TablesProofs` | TLAPS proofs about `TableBody`, `BasePanels` and `PositionBuffer` |

The components of `MCTable` and `MCPage` share no variable; the variable `part` chooses
which one runs, so that one run checks them all without multiplying their states. `CalcJobs`
really composes: its workers share the tables of `EstimateCalc` with saves, starts, cancels
and consumers. `EstimateLocks` and `LicenseSeats` are composed with `Lease` by a refinement
mapping. `CalcSession` sees the server as its API shows it: one action enqueues, one settles
a line, as `EstimateCalc` explains in detail.

Definitions commented "Seeded fault" are not used by the specifications. Each is a variant
of a definition with one plausible mistake (a forgotten guard, an acknowledgement too
early, `ON CONFLICT DO NOTHING`); replacing the definition by it makes TLC violate the
property `PROJECT.json` names with it. They show that each property can fail.

## 3 How the models correspond to the code

### The calculation on the server: `EstimateCalc`, `CalcJobs`

A step is one database transaction, one statement outside a transaction, or one exchange
with the broker. Variables are the tables, in this order: `gen`, `env` (the header),
`content`, `status`, `rev`, `result` (line rows), `rows` (`estimate_calc_lines`), `state`
(`estimate_calc_state`), `receipts`, `outbox` (unpublished events), `jobs`
(`estimate_calc_jobs`); then the memory of processes: `save`, `start`, `marked`
(`calcStartJobs`), `fetched` and `sent` (publisher), `cons`, `worker`; and the broker's
`main`, `retry`, `dlq`.

| actions | code |
|---|---|
| `BeginSave`, `CommitSave` | `upsertEstimateDB`, `prepareEstimateLineForStorage`, `removeLineCalcFromGenerationTx` (FS, PS). Two steps, because workers and starts run while the transaction is open; the header's row lock keeps a second save and a cancel out |
| `CheckAfterSave`, `EnqueueAfterSave`, `AfterSaveFails` | `enqueueEstimateLinesAfterSave` |
| `BeginStart`, `CancelForStart`, `RereadForStart`, `MarkStart`, `GiveUpStart` | `StartEstimateCalc`, `markEstimateCalcStartJob`, the 120 tries for the mark |
| `ReadLines`, `PrepareFull`, `PrepareResumed`, `NothingToResume`, `CheckGeneration`, `PostBatch`, `StartFails` | `runEstimateCalcStart`, `enqueueEstimateCalcBatches`, `clearEstimateCalcGenerationTx` |
| `Cancel` (`CancelTx`) | `CancelEstimateCalc`, with the unmark after its commit |
| `EnqueueLines`, `Requeued`, `ReceiptsWithout` | `enqueueEstimateLineCalcJobTx`, for the lines of one transaction |
| `Summarize` (`Reconciled`) | `reconcileEstimateCalcStateTx` behind the status poll |
| `FetchEvents`, `PublishEvent`, `ConfirmLost`, `MarkPublished`, `MarkFails` | `publishBatch` |
| `Deliver`, `LookupFails` | `ShouldSkipCalcDelivery` and the switch on its answer |
| `CompleteJob`, `FailStale`, `JobError`, `FailJob`, `FailLost`, `Republish`, `RepublishFails`, `Ack` | `handleRabbitDelivery`, `CompleteEstimateCalcJob`, `FailEstimateCalcJob` |
| `LoseConnection`, `RetryExpires` | the broker: redelivery, dead-lettering of expired retries |
| `CrashServer`, `CrashWorker` | process deaths: memory is lost, tables and queues stay |
| `ReplayDead` | `cmd/replay_dlq` |
| `Claim`, `MarkLeased`, `MarkLeasedFails` | `ClaimEstimateCalcJob`: the claim and the mark on the line are two statements, and an error of the second is ignored |
| `CompleteLeased`, `LeasedError`, `FailLeased`, `FailLeasedLost` | `processJob` and the two verdict transactions with their job row |
| `StopWorker` | death of the process, or the Manager replacing its group of workers (the cancelled context loses the verdict in both) |
| `TimePasses`, `ReleaseStuckLeases` | `run_after`, `leased_until`; `ReleaseStuckCalcJobLeases` |

Consumers of RabbitMQ never touch `estimate_calc_jobs` in the model: they run only in
processes whose own mode is `rabbit`. Workers of the DB queue run in processes of mode
`db` or `dual` and always update their job row. `QueueMode` is the mode of the *server*.

### The calculation session: `CalcSession`

A step is the code between two awaits of `APP`, or the handling of one request by the
server. `srv` is the server as its API shows it; `context`, `line`, `view`, `awaiting`,
`blocked`, `shown` are the open estimate and its flags; `ctrl` is the controller in
`estimateCalcBatchControllers`; `task` the asynchronous functions that listen, several of
which may be alive while only one is current; `reading` the one status read at a time;
`op` where a calculation, a restart, a save and the way back to text are; `coalesce` the
entry of `estimateCalcRestartCoalesce`. The `session` number a listener compares with
that of the controller is the flag `own`: every new session takes it from all tasks.

| actions | code |
|---|---|
| `Check`, `AnswerBatch`, `FetchAborted`, `BatchFails`, `Deliver`, `Applied`, `Finalize`, `Leave`, `RunAgain` | `runEstimateCalcBatchListener`, `applyEstimateCalcBatchResponse` and `finally` |
| `Batch`, `TerminalLines` | `FetchEstimateCalcBatch`, `buildEstimateCalcBatchResponse` |
| `Reconcile`, `AnswerStatus`, `ApplyStatuses`, `StatusFails` | `reconcileEstimateCalcStatusesFromServer` |
| `BeginPersist`, `SendPut`, `HandlePut`, `PutDone` | `persistOpenEstimate` with its queue, the PUT, what follows the answer |
| `ToTable`, `HandleStart`, `CalculationStarted`, `CalculationFails` | `setEstimateViewMode("table")`, `runEstimateTableCalculation` |
| `ChangeContext`, `TimerFires`, `BeginRestart`, `ResetForRestart`, `RestartStarted`, `RestartFails`, `AfterFailure`, `EndRestart`, `Recalculate`, `ListensAgain` (the `finally` of their saves) | `scheduleRestartEstimateCalculationAfterContextChange`, `coalescedRestartEstimateCalculation`, `runFastEstimateCalculationRestart` |
| `Render`, `GoAway`, `ComeBack` (`Synchronize`) | `renderEditor`, `syncEstimateCalcStatusPolling`, navigation |
| `ToText`, `CancelCalculation`, `ShowText` | `setEstimateViewMode("text")`, `cancelAndStopEstimateCalc` |
| `Enqueue`, `Calculate` | everything `EstimateCalc` models |

`PromptStatus` is a bound on interleavings: a status read is answered and applied before
anything else happens, and then whoever awaits it (`Awaits`) goes on (`GoOn`), as the
continuation of an `await` whose promise is settled runs before the next callback or answer.
The history `outdated` marks a batch asked for before the lines were
reset.

### Presence: `Lease`, `EstimateLocks`, `LicenseSeats`

A tick is one heartbeat interval (30 s); `TTL` is the lifetime in ticks. A tick passes only
when the timers of every tab that is awake have fired and every request is answered: that is
the assumption "requests are answered within 30 s". Everything else within a tick happens in
any order, and a sleeping machine fires nothing.

| actions | code |
|---|---|
| `HandleAcquire`, `HandleRelease`, `ForceRelease`, `Purged`, the list in `Timer` | `EstimateLocks.Acquire`, `Release`, `ForceRelease`, `purgeExpiredLocked`, `List` |
| `Open`, `Granted`, `OpenRefused`, `Select`, `Selected` | `openEstimateInEditor` up to the lock, and selecting a tab that is open |
| `OpenAsks`, `Opened`, `OpenCopy`, `DetailFails` | `fetchEstimateDetail`: from the server, or the page's copy; the tab after it |
| `TakeLists` | `refreshConstructionData`, whose lists drop the copy |
| `Save`, `HandleSave` (`Outdated`, `Overtaken`, `Stored`), `Saved` (`Answered`), `Close`, `Closed`, `Released` | `persistOpenEstimate`, the PUT, `closeEstimateFromEditor`, `releaseEstimateLock` |
| `Timer`, `Polled`, `Beaten`, `Renewed` | `refreshEstimateLocks`, `refreshOwnedEstimateLocks`, `kickEstimateFromEditor` |
| `Reload`, `Sleep`, `Wake`, `Tick` | `beforeunload`, `restoreOpenEstimateLocks`; time |
| `HandleAsk` (`Synced`, `ReleasedAll`, `Blocked`) | `handleLicenseSessions`, `LicenseSessions.Sync`, `ReleaseAll` |
| `Go` (`Gate`), `SeatsAnswered` (`After`, `Passed`) | `renderSections`, `applyLicenseGate` with its version |
| `ToLicensedTable`, `BackToText`, `RecalculateTable`, `ChangePriceSet`, `Beat` | the five callers of `syncLicenseSessions` beside the gate |

In `EstimateLocks` a document is known by what it lacks. `base` is the one in the editor,
`copy` the page's entry in `state.estimates`, `answer` the unread answer of a PUT: "latest" if
no save that another user made with the lock is missing in it, "old" if one came after it, and
"stale" in the editor if one was missing when it was opened. `copy` is "none" while the entry
has no lines, and only then the server is asked. It survives `Left`, the closing and the kick.

### The editor and the page

`EstimateText`: `Type`, `ToTable`, `ReadDetail`, `ShowTable`, `Delete`, `Move`, `ToText` are
the gestures and awaits of the two views. `cache` is the estimate in `state.estimates`: a
change to the table identifies its lines against it (`fetchEstimateDetail` asks the server only
if it has no lines), the answer of a PUT replaces it, and `Refresh` is the list of estimates
read again, which comes without lines. `Parsed`, `SyncedIds`, `Merged`, `Answered`,
`Applied` are `buildEditorEstimateFromSource`, the identification of lines against the saved ones, the
answer of a save, and `matchCalcStatusesToItems`; `HandlePut` is the server's
`ensureUniqueEstimateLineIDs` and `prepareEstimateLineForStorage`. A report of statuses names
every line with its status (`Statuses`), and `ReportDone` applies each that differs. Codes and volumes are
values; whether names and totals are written in the text is the flag `full`.

`TableBody`: `frames` is the queue of `requestAnimationFrame` callbacks (`Drawn` is one chunk
of `mountEditorTableBody`, with its render token as the flag `live`); `MountContent`, `Flush`
are `mountEditorContent` and the redraw deferred while a field of the header is active;
`DeliverBatch`, `Report`, `Reset` are what the calculation session does to the rows.

`PositionBuffer`: `Touch` is every click and key of a stepper; `Fetched`, `FetchFails` the
answer of `fetchGSNHierarchyRecords` for an addition or the next record of a paste.

`BasePanels`: `LoadInfo`, `LoadTree`, `LoadGsnPanel`, `LoadRows`, `LoadFgisPanel` are the
functions of `APP` as maps from a panel and the calls in flight to both afterwards;
`AnswerCall` answers a call in its turn, late, or with an error.

`ConstructionTree`: `tasks` are the asynchronous gestures; `AnswerList` and `TakeLists` are
`refreshConstructionData` (two answers, taken over together), `PostNode`, `PostDelete`,
`PostStart`, `PostCancel`, `PollSummary` the requests of the gestures,
`CalculateEstimate` the server's part.

## 4 Properties

The calculation on the server:

| property | says | why it could fail |
|---|---|---|
| `DoneMatchesRevision` | a done line shows the code, quantity and price its revision was made of | a late result of an old revision; a save that puts back what it read; an edit between read and batch |
| `QueuedLineIsCarried` | a message for a queued line's revision is in the outbox, a queue, the DLQ, or with a consumer that has not finished it. The event about to be marked does not count | acknowledging too early, marking events nobody published, a cancel that deletes too much |
| `QueuedLineHasLiveJob` | the job of a queued line's revision is queued or leased | a verdict of a worker that lost its lease; a cancel followed by the same revision again; `ON CONFLICT` on a dead row |
| `QueuedLineHasNoReceipt` | a queued line has no receipt of its revision | cancel and start without an edit gives a line the revision it already had |
| `JobsTypeOK` | types, and one job row for each line and revision | |
| `QueuedLineSettles`, `AwaitedLineSettles` | a queued line leaves that status; a line that waits with a live job gets a verdict | messages lost on a round of retries, a lease nobody takes over |
| `StartMarkIsReleased` | the start mark is always taken back | a goroutine that leaves without its deferred unmark |
| `TypeOK` | types, and no negative counter | a restart zeroes counters a save subtracts from |

`QueuedLineHasLiveJob` promises nothing to a line shown as `leased`: its mark is a
statement of its own and may come after a cancel has killed the job. `AwaitedLineSettles`
has "with a live job" in its premise for the same reason.

The statements `CancelInvalidatesInFlight`, `DuplicateLeavesOutcome`, `EventsAskForStoredLine`,
`CancelledJobStaysDead`, `CopiesSeeTheLatest` and `RowsShowTheirOwnResult` are written down in their modules and not
kept by the code; section 7 tells how.

The calculation session:

| property | says | why it could fail |
|---|---|---|
| `OneListener` | at most one listener belongs to the current session and asks for batches | views, sections, saves and starts all start one, across awaits |
| `SaveStopsListening` | while a PUT is on its way no current listener asks for a batch or holds one | a listener started again between the stop and the PUT |
| `BatchesStayInTheirCalculation` | a batch asked for before the lines were reset never changes them afterwards | the answer comes when another calculation has begun |
| `NotStranded` | when all is quiet and nobody listens, no line of the first calculation is in flight | a listener leaves on a flag that is taken back, a lost batch, a status read that comes too early |
| `FreshPrices` | when all is quiet, the prices are those of the context chosen | a change during a restart, a batch of the old context |
| `ContextSaved` | when all is quiet, the server has the context chosen | a change coalesced with a round that had already sent the old one |
| `OperationsEnd` | every calculation, restart, save and switch ends | an operation waits for a listener that was told to stop and never resolves its promise |

Presence:

| property | says | why it could fail |
|---|---|---|
| `IsLease` | the lock table is a lease with one seat | an access that forgets to purge, a boundary of the TTL |
| `EditorsHoldTheLock` | who has the estimate open and met no accident holds the lock | a late heartbeat, a release after the next opening, a list from before a renewal |
| `SavesSeeTheLatest` | a save of somebody who kept the lock never replaces a version that another user saved, with the lock, since the document was put in the editor | the PUT does not look at the lock; a document put in the editor before the lock is granted, or kept there after it is lost |
| `LosersLeave` | nobody edits for more than a tick without the lock he thinks he has | a list that misses the loss, a heartbeat that renews what is lost |
| `SessionsAreLeases` | the sessions of every subsection are a lease with as many seats as licences | several subsections in one request, all or nothing |
| `ViewersHaveSeats` | who sees a licensed section has its seats | overlapping gates, answers out of order, heartbeats switched off |

The editor and the page:

| property | says | why it could fail |
|---|---|---|
| `TableIsStored` | when all is answered the server has the lines of the table, in order | ids found again by code; a save of an old copy |
| `DistinctRowsAreRight` | without repeated ids, what is stored is what the user left, each row with its own result | edits between the parse and the answer |
| `RowsAreDrawnOnce` | no line is drawn twice; a body that takes clicks is not being drawn | a chunk of an earlier drawing |
| `RowsSayWhatLinesSay` | at rest the body has every line in its place, with its result if it is in view | a refresh lost with rows not yet drawn, a deferred redraw that is forgotten |
| `SteppersTellTheLists` | a stepper shows how many there are in its list | the list changed by an answer that comes later |
| `BufferMovesItsItems` | what leaves the buffer is in an estimate | a record that cannot be fetched in the middle of a paste |
| `TreeIsOfTheSupplement`, `PricesAreOfTheSet` | when all is answered the panels show what is selected | answers carry no token |
| `QuietTreeIsTheServers` | at rest the tree is the server's and no deleted estimate is open | three lists read at different times |
| `RecalculationsShowTheirResults` | a recalculation that ends as complete shows its own totals | a summary that is complete too early, lists read before it |

A property names its exceptions in its own hypothesis (`lapsed`, `excused`, `doubt`, `adrift`,
`contested`, `stale`, `shared`: histories of what went wrong by accident, and nothing else);
section 7 tells what happens in them.

## 5 Runs and bounds

| run | instance | result |
|---|---|---|
| `crossings` | `rabbit`; 1 line, 2 contents; a save, 2 starts, a cancel, 2 consumers without fault or retry; or a save, a start, a cancel, a consumer, 2 attempts, any 2 of 9 kinds of fault | 1.7 M states; `TypeOK`, `DoneMatchesRevision`, `QueuedLineIsCarried`, `QueuedLineHasNoReceipt` hold |
| `progress` | `rabbit`, fair; 2 lines in 2 batches, a start, a cancel, 2 attempts, 1 of 7 kinds of fault | 344 k states; `QueuedLineSettles`, `StartMarkIsReleased` hold |
| `db_queue` | `db`, fair; 1 line, 2 starts, a cancel, 2 workers, 2 attempts, 1 of 6 kinds of fault | 307 k states; `QueuedLineHasLiveJob`, `AwaitedLineSettles` hold |
| `dual_queue` | `dual`; 1 line, 2 contents, a save, a start, a cancel, a consumer and a worker | 381 k states; `JobsTypeOK`, `QueuedLineHasLiveJob`, `DoneMatchesRevision` hold |
| `table_session` | 2 lines in batches of 1; calculate, text, render, away, 3 times; 3 listeners; a failed batch or status | 1.8 M states; `TypeOK`, `OneListener`, `SaveStopsListening`, `NotStranded`, `BatchesStayInTheirCalculation` hold |
| `context_changes` | 1 line; calculate and context, 3 times; 2 listeners | 1.2 M states; `FreshPrices`, `ContextSaved` hold |
| `operations` | fair; 1 line; calculate, recalculate, save, text, twice; 3 listeners; a failed PUT or start | 147 k states; `OperationsEnd` holds |
| `edit_lock` | 2 users, TTL 1 tick, 3 gestures, 1 of 5 kinds of accident | 1.2 M states; `TypeOK`, `EditorsHoldTheLock`, `SavesSeeTheLatest`, `LosersLeave`, `IsLease` hold |
| `estimate_table` | text: opened with 3 lines, two of one code, 2 edits, 3 switches; body: 2 and 3 rows around the threshold, 2 rounds, 2 gestures, a failed save; buffer: 2 estimates, a norm, an own position, 4 gestures, a miss | 1.5 M states; the six invariants and `BufferMovesItsItems` hold |
| `page_sections` | seats: 2 pages of 1 or 2 users, 1 licence each, 3 moves, an accident; panels: 2 supplements, 2 price sets, a word, 4 clicks, a trouble; tree: 1 construction, 2 objects, 2 estimates, 2 gestures | 2.3 M states; the five invariants, `SessionsAreLeases` and `RecalculationsShowTheirResults` hold |
| `done_report`, `reopened` | the smallest instances that show it | violated, section 7 |

`crossings` is one behaviour with two sides. TLC goes on only from states that satisfy
`CalmOrAlone`: either nothing has failed and no message is tried again (`Calm`), and then two
starts and two consumers cross the save and the cancel; or at most one start has begun and one
consumer is busy (`Alone`), and then everything may fail. Both at once would be
tens of millions of states; the theorems of section 8 cover them.

`edit_lock` is constrained as well (`Interesting`). Two gestures are free: openings, selections
and saves without a closing of both users in any order, with polls, heartbeats, closings and
releases between them and one accident. The third is an opening, after a past without
accidents and while the other user rests: the least that opens an estimate again from the copy
its page has kept, after the other user has opened and saved it (`LastIsAnOpening`). What an
accident leaves behind is followed while somebody is in the editor or may come in, nobody stays
there beside the holder he knows of, and no closed page has an outdated copy with no gesture
left to open it (`AccidentGoesOn`). TLC checks the properties in every state it reaches; without the
constraint three gestures are too many for it, and the theorems cover them.

Why these bounds. A line's fate depends on its own row, messages and job and on the
estimate's header, generation and mark, so one line shows the crossings of writers;
two lines are there where batches, cursors and counters matter (`progress`, `done_report`,
`table_session`). Two contents distinguish an edit from no edit and allow an edit back
through a cancelled revision. `MaxGen = 1` allows one cancel, the least that makes an old and
a new generation meet; starts may use it as well (a forced start cancels). `MaxAttempts = 2`
is the least with a retry and an exhausted message. `MaxFaults` bounds faults and DLQ replays
together. `BatchSize = 1` makes two lines two batches.

Three gestures are the least that go from the table to another view, back, and once more
while a listener of the first is still alive; `Listeners` bounds how many tasks are alive at
one time, and three are enough that no gesture of these runs waits for a free one. A TTL of
one tick stands for the code's three: what matters is a renewal before, at and after the
limit, and section 8 proves the rest for every TTL. Two users, one seat and one licence are
the least that compete. A threshold of two rows, chunks and a window of one row put every
boundary of the drawing between two rows. Two clicks change a selection while an answer is
on its way; four add a search and a page. What section 8 proves does not depend on any of
these numbers.

Symmetry over the members of each constant set is used in `crossings` and
`done_report`, which check invariants only, and over the users in `edit_lock`, whose only
temporal property is a safety property of the form `Init /\ [][Next]_v`. No run with a
liveness property uses it. `CHECK_DEADLOCK FALSE` where all requests may be answered, all
queues empty and the user's gestures used up: then the system rightly stops. In `edit_lock`
time goes on for ever and deadlock is checked.

## 6 Fairness

Weak fairness, and only for what the code runs in loops, goroutines or tasks that nothing
blocks.

`EstimateCalc`, `CalcJobs`:

- the transactions that follow each other in a save and in the goroutine of a start;
- the publisher's loop: fetch, publish, mark (its channel is assumed to stay open: the
  code does not reconnect after a closed channel, see the hazards);
- the broker: deliveries to an idle consumer, expiry of a retry queue;
- a consumer with a delivery finishes it; a worker claims what is due and finishes it
  (its calculation has a time limit);
- time: a pause or the lease of a dead worker ends.

Nothing makes a request, a cancel, a poll, a fault, a failing calculation, a replay or a
Manager restart happen. `progress` leaves out the kinds `"fail"`, `"nack"`, `"replay"`:
with `"fail"` the code drops the error and a message can end in the DLQ while its line
still says queued, so the statement is false there (a hazard, and half of the observation
`line_stranded`).

`CalcSession`: the server queues and settles lines (what `progress` and `db_queue` show), a
status read is answered and applied, every listener goes on at its next await, some
operation whose turn it is goes on, and a user who left the section comes back. Nothing
makes a gesture or a fault happen. `OperationsEnd` says that operations end under these
conditions, so whoever waits is woken.

The other models have only safety properties and no fairness.

## 7 What the code does not keep

Two disagreements of the code with a statement of its documentation are runs whose
counterexamples TLC finds, and findings in `PROJECT.json` with the quoted statement:

- `done_report`: the state row says "done" with a line still queued. Reconciliation counts
  a failed line that waits for its retry as an error and nothing takes that back.
- `reopened`: an estimate is opened with the results of an earlier session, a line is removed
  from its text, and the table is shown. HANDOFF.md:555 says that the change to the table saves
  the parsed text; the code saves only to calculate, and every line that is left has a result.
  The table and the server differ until another save.

Five more about the server are statements in the modules that no run checks; TLC refutes each
in a second when it is added to a configuration of the size given:

- `CancelInvalidatesInFlight` (1 line, 1 start, 1 consumer, `MaxGen = 1`): a job published
  before a cancel still makes the line done after it, because a cancel leaves the lines'
  revisions as they were.
- `DuplicateLeavesOutcome` (2 consumers, `MaxAttempts = 2`, one `"connection"` fault): after a
  redelivery has completed, the first consumer's failure turns the done line into a failed
  one; `FailEstimateCalcJob` does not look at the status.
- `EventsAskForStoredLine` (a save and a start): a start that read the lines before a save
  queues the old content over the edited line, and the late result then overwrites the edit.
- `QueuedLineIsCarried` with `FaultKinds = {"lookup", "fail"}`, `MaxFaults = 2`
  (*line_stranded*): an error while reading the line is taken for "stale"; if marking the
  line fails as well, the message is acknowledged and the line stays queued for ever.
- `CancelledJobStaysDead` (mode `db`, 1 worker, `MaxAttempts = 2`, `MaxGen = 1`): a cancelled
  job comes back into the DB queue when its worker fails after the cancel.

What was seen in the client while modelling it. None of it contradicts a property above:
each is outside its hypothesis, or the model shows that it happens.

*Calculation session.* The second status read after a complete summary is never applied: it
assigns to the constant `statuses` first. With a restart (a change of context, a forced
recalculation) the listener that the save has started and the one that the restart starts run
side by side (APP:6613, HANDOFF.md:606), so `OneListener` fails as soon as both gestures are
allowed. A line finished out of order is not delivered by the cursor of the batches, only by
the last status read; two failed status reads at the end leave it queued on screen until the
next redraw, and with restarts or switches to text in three gestures a line can stay queued
with nobody listening. A second save may send its PUT while the listener restarted by the
first save runs. After a failed restart old prices may remain, and a context changed in the
text view waits for the next save.

*Edit locks.* A list answered before a renewal puts out a user who has just opened the
estimate. A failed read of the estimate keeps the lock until its time is over. After a reload
whose lock is refused the estimate stays open beside its new holder.
`closeEstimateFromEditor` uses an index computed before its awaits. Selecting an estimate one
has just been put out of throws. The PUT does not look at the lock, so a save in flight when
its user loses the lock is written. A release of one's own that is
overtaken by the next opening frees the lock of the estimate just opened. A user who slept
past the TTL and selects the tab before his poll gets the lock back with an old estimate.

A document opened with the lock may be outdated without any accident. `fetchEstimateDetail`
returns the entry of `state.estimates` if it has lines (APP:1157); the entry is filled by the
first read of the estimate (APP:1162) and by the answer of every PUT (APP:10843), and neither
closing nor being put out drops it. Only lists do (`?summary=1`, no lines), when they arrive; the
page asks for them on the way to the tree, which opens what is clicked before they have come
and when they fail, and an answer of a save or a closing that comes after them fills the entry again. So
u1 opens, saves and closes; u2 opens, saves and closes; u1 opens again, gets the lock and his
own copy, and his next save replaces what u2 saved, while he holds the lock.
`CopiesSeeTheLatest` denies this; TLC refutes it in seconds (2 users, `MaxGestures = 3`, no
fault). No document of the repository says that an opened estimate is the latest, so no
run does, and `SavesSeeTheLatest` does not say it either.

*Licences.* The section of the base stays hidden on "own positions" after a refusal. A change
of the price set in the text view to one without a licence hides the editor. A table with
nothing to calculate takes no licence. The heartbeat ignores a refusal. The branch of a
section without a licence does not look at the gate's version. A second tab of the same user
gives up the seats of the first. A refused request does not renew the seats one has.

*Text and table.* Two rows may get one id, and a result then goes to the wrong row
(`RowsShowTheirOwnResult`; HANDOFF.md:546, 604). The answer of a PUT has the ids as they were
sent, not as they are stored. A PUT with no lines keeps the stored ones. What is typed while
the table is prepared is dropped. A fast switch back to text starts the calculation although
the view is text. Deleting a row whose id is repeated deletes the first. Quantities and codes
of GSN lines edited in the table are dropped by the server. HANDOFF.md:899 says that the
client does not compute quantity expressions; it does. When the user does not wait for the
answers (`"hurry"`), `TableIsStored` fails. With results of an earlier session (`"results"`) a
line identified by its place can also show the result of another one, until the next save.

*Table body.* A redraw of a large body scrolls to the top, and scrolling an incomplete one
begins the drawing again. After a deletion or a move whose save fails the old rows stay.

*Positions and buffer.* A second "+" or a blur while the record is fetched adds the line
twice. Steppers keep their number after the buffer was pasted, a row deleted, a fetch failed
or the estimate closed; after a reload the buffer is restored and the steppers are not. A
paste twice adds twice; what is put into the buffer during a paste is lost when it ends; a
paste into an estimate that was closed meanwhile empties the buffer into nothing; a failed
paste leaves the buffer and the lines added so far. A cancelled add-line dialog leaves the
steppers of the estimate aimed at. Keys of the buffer contain the supplement.

*Base panels.* Answers carry no token, so a late one overwrites what is selected. An error of
the base information wipes the tree while it still counts as loaded. A stored supplement that
is gone is shown until the list is there. A page turned during a search may be behind the last
one. Price sets that failed to load once are "not found" until a reload; an error of the rows
takes the select away. A late tree makes a change of the open estimates forgotten.

*Tree.* A summary in state "starting" has no lines yet and counts as complete when events of
an earlier start are unpublished (RESOURCE_ANALYTICS_SERVICE_CONTEXT.md:389): the
recalculation ends at once with totals of zero. Lists answered late make the tree old; a
change before the last one is through can leave a deleted estimate open. A refused request
ends a recalculation without rereading the tree, and after its deadline of 30 minutes it says
"завершён" all the same. Clearing part of a scope that is being recalculated makes it poll to
the deadline. Closing deleted estimates does not release their locks.

## 8 Proofs

Every theorem is for all values of the constants: any number of lines, users, pages,
listeners, gestures, attempts, cancels and faults, any TTL, any tree. The assumptions are the
named ones of the modules (the bounds are natural numbers, as large as one likes; `None` is
none of the values it stands beside; sets that are counted are finite), which TLC evaluates in
the runs, and the hypotheses written out below.

| module | theorem | statement |
|---|---|---|
| `EstimateCalcProofs` | `TypeCorrect` | `Spec => []TypeOK` |
| | `ReceiptsCorrect` | `Spec => []QueuedLineHasNoReceipt` |
| | `ResultsCorrect` | `Spec => []DoneMatchesRevision` |
| | `QueuedLinesAreCarried` | `Spec => []QueuedLineIsCarried`, if `QueueMode # "db"` and `"lookup" \notin FaultKinds` |
| | `JobsTypeCorrect` | `JobsSpec => []JobsTypeOK` |
| | `JobsReceiptsCorrect` | `JobsSpec => []QueuedLineHasNoReceipt` |
| | `JobsResultsCorrect` | `JobsSpec => []DoneMatchesRevision` |
| | `QueuedLinesHaveLiveJobs` | `JobsSpec => []QueuedLineHasLiveJob`, if `QueueMode # "rabbit"` |
| `CalcSessionProofs` | `SessionTyped` | `Spec => []TypeOK` |
| | `ListenersAreAlone` | `Spec => []OneListener`, without the gestures `"context"`, `"recalculate"` |
| | `BatchesStay` | `Spec => BatchesStayInTheirCalculation`, likewise |
| | `SavesStopListening` | `Spec => []SaveStopsListening`, and without `"save"` |
| | `ChoicesAreSaved` | `Spec => []ContextSaved`, without the gesture `"text"` and the faults `"put"`, `"start"` |
| | `NothingIsStranded` | `Spec => []NotStranded`, if `PromptStatus`, without `"context"`, `"recalculate"` |
| | `PricesAreFresh` | `Spec => []FreshPrices`, if `PromptStatus`, without the gesture `"text"` and any fault but `"batch"` |
| `LeaseProofs` | `LeaseLimits` | `Lease!Spec => []SeatsLimited` |
| `EstimateLocksProofs` | `LocksAreALease` | `Spec => IsLease` |
| | `LocksTyped` | `Spec => []TypeOK` |
| | `EditorsHold` | `Spec => []EditorsHoldTheLock` |
| | `SavesSee` | `Spec => []SavesSeeTheLatest` |
| | `LosersAreOut` | `Spec => []LosersLeave` |
| `LicenseSeatsProofs` | `SessionsImplementLeases` | `SeatsSpec => SessionsAreLeases` |
| | `LicenseTyped` | `SeatsSpec => []LicenseTypeOK` |
| | `ViewersAreSeated` | `SeatsSpec => []ViewersHaveSeats` |
| `ConstructionTreeProofs` | `QuietTreeIsRight` | `TreeSpec => []QuietTreeIsTheServers`, without the mishaps `"late"`, `"rush"` |
| | `RecalculationsAreRight` | `TreeSpec => RecalculationsShowTheirResults`, without the mishap `"unpublished"` |
| `TablesProofs` | `RowsAreDrawnRight` | `BodySpec => []RowsAreDrawnOnce` |
| | `RowsAreRight` | `BodySpec => []RowsSayWhatLinesSay` |
| | `PricesAreRight` | `PanelsSpec => []PricesAreOfTheSet` |
| | `TreeIsRight` | `PanelsSpec => []TreeIsOfTheSupplement` |
| | `SteppersAreRight` | `BufferSpec => []SteppersTellTheLists` |
| | `BufferIsMoved` | `BufferSpec => BufferMovesItsItems` |
| `EstimateTextProofs` | `TextTyped` | `TextSpec => []TextTypeOK` |
| | `TablesAreStored` | `TextSpec => []TableIsStored`, without the cases `"hurry"`, `"results"` |
| | `DistinctRows` | `TextSpec => []DistinctRowsAreRight`, likewise |

### The calculation on the server

*Types.* `TypeOK` is not inductive: a request between two transactions must know a real
district and FGIS set, and a busy consumer a real message. `TypeInv` adds
`RequestsKnowHeader` and `BusyConsumersHaveMessage`; `JobsTypeInv` adds that a worker which
is not polling has a job.

*Results.* `DoneMatchesRevision` is not inductive either: an open save holds results it read
before and may put back. `DoneInv` adds `SnapshotsFit`: they fit the revision they were read
with. Then a save keeps a result only at an equal revision, `CompleteEstimateCalcJob`
writes one only at an equal revision, and everything else takes "done" away.

*Receipts.* Inductive with the types alone: whoever queues a line deletes its receipts in
the same transaction, and whoever writes a receipt takes the line out of "queued".

*Messages.* A message that a queued line needs is handed on (`HandedOn`): from the outbox to
the queue before the mark, from a queue to a consumer, from there back to a queue.
`CarriedSafely` counts a consumer only if the message is really kept until a verdict (not
one that judged it stale), because a stale verdict acknowledges. `IdsGrow` (an event being
marked is older than any new one) is what keeps a mark from removing the event of a line that
was queued meanwhile. The assumption on `"lookup"` is needed: *line_stranded* in section 7 is
the counterexample without it.

*Jobs.* `JobsAwaited` adds to `QueuedLineHasLiveJob` that a queued line exists. The argument
the code rests on: `CompleteEstimateCalcJob` and `FailEstimateCalcJob` take the line of the
job they touch out of "queued" in the same transaction, whoever holds the lease and whatever
the line's revision is, so a verdict can kill the job of no line that is still queued;
asking for a line revives or creates its job (`RequeuedLive`); claiming, expiry and
release keep it live; a save and a cancel leave no line queued. `RowsUnique` is kept because
every change rewrites rows without touching their keys (`UniqueRewritten`) or adds a key
that no row has (`UniqueRequeued`).

### The calculation session

*Types* (`SessionInv`). The cursor stays inside the lines because a batch never goes past the
terminal ones and no line is counted twice (`TerminalLines` is strictly increasing); the
generation a listener knows is never ahead of the server's, nor an operation's context ahead
of the user's.

*One listener* (`CalmInv`: `Owned`, `Fresh`, `NoRestart`). At most one task has the current
session. Every start of a listener but that of a restart takes the session away from all tasks
first. `Fresh` says that the task with the session holds no batch from before the last reset
and that the text is not shown; together with the test of the session after each await this is
`BatchesStayInTheirCalculation`. The hypothesis is not a convenience: `RestartStarted` launches a
second listener beside the one its save has started, and TLC finds two of them as soon as both
"calculate" and "context" are allowed.

*Saves* (`SaveInv`). The flag that keeps a redraw from starting a listener is set from before
the calculation's save to after it, and the controller is stopped from the moment the listener
is told to stop until the answer. A save of another kind takes the flag back at its end, so the
statement needs that no gesture makes one.

*Context* (`ContextInv`). A choice that the server has not seen is owed to it: by the timer,
by the round that follows the running one, or by a round that has not yet read it. A PUT that
fails ends its round with nothing owed, and the text view drops restarts, hence the hypotheses.

*Nothing stranded* (`StrandInv`: `Basis` and, in the first generation, `Untouched`,
`Unstarted`, `Shown`, `Answers`, `ReadNow`, `Released`, `Watched`). What the table shows as
settled is what the server says; answers in flight are true of the server; the flag of a save
is released by the operation that set it. `Watched` is the heart: while a line is in flight
and no operation is at work, either a listener goes on, or the server is through and a read of
all the lines is under way, or the listener whose last step is such a read is at its end. With
one failed request there are two chances for one failure: the last batch reads the statuses,
and so does its end. With a restart, or two failures, the code can strand a line (section 7).

*Prices* (`ContextInv`, `HearInv`, `FreshInv`). A price of an older context comes to the table
with a batch or a read of the statuses. `FreshInv` says how long it can stay: the table may have
one while a restart is owed, at work, or before its last read (`Settling`), and a batch with one
may be held by a task with the session only until the restart resets the lines (`Held`).
Here the restart must have taken care of the listener its save found or left: `HearInv` says
that from the abort of a restart on at most one task has the session, and that while the
restart's save is on its way a task that waits for a batch has a line to wait for, so the end
of the save replaces it. The last read of the statuses, of a server whose prices are of the
new context by `ContextInv`, then cleans the table. The proof changed the model: it let a task
whose read was over go on arbitrarily late, and with three changes of context around a
calculation of three lines such a task took back the flag of a restart two rounds later.
JavaScript does not wait there, and `PromptStatus` now says so.

### Presence

*The abstract lease.* `SeatsLimited` is inductive; a seat is granted to a holder, who is
already counted, or while there is room (`FS_AddElement` and friends).

*Refinement.* `silence` is the age of the lock of its user (-1 for the others), or the age of
a user's session of one subsection. `LockStep` and `SeatsStep` map every step: an access that
purges is a `Purge`, a `Grant` or a `Drop`, time is `Tick`, the rest leaves the seats alone. For
the sessions the one atomic request is, in every subsection, a grant, a drop or a purge of that
subsection's lease; that all are granted or none is what `Blocked` contributes. With
`LeaseLimits` no limit is ever exceeded.

*Editors* (`EditInv`). Whoever is in, or about to be, and had no accident holds the lock
(`Holds`); and unless his lock is new his heartbeat is due or under way (`RenewsInTime`),
which is why the clock, which waits for heartbeats, never takes it past its time.

*Saves* (`SavesInv`). A document in the editor that a save of another user with the lock has
outdated since it was put there belongs to somebody who lost the lock: the only user who is in
without an accident is the holder (`EditInv`), so such a save cannot find him in. The copies of
closed estimates do become outdated; what is put in the editor from one is marked "stale", and the
theorem says nothing of what it lacks (section 7).

*Losers* (`LosersInv`). A user who edits without the lock has a list to come in this tick that
says so, because only a request for the lock could give it back.

*Viewers* (`SeatsInv`: for every page not excused `Orderly`, `Covered`, `KeptUp`, `Seated`).
Calls of a page are answered in their order; one that would give up what is needed is followed
by one that asks for it; a page that shows a licensed section has its heartbeat, or the call
that will start it; its seats are new or about to be renewed, or the call that decides has not been
granted, or the section is hidden.

### The tree

`TypeInv` has the shape of a task at each of its awaits. `SoonFresh`: the tree is the
server's, or a confirmed change is about to ask for the lists, or a read was asked for after
the last change and every later one answers with the server's nodes (`FreshFrom`); lists are
numbered when asked for and taken over in that order (`InTurn`), and there is one change at a
time (`OneChange`). `OpenInv`: an open estimate exists or a deletion under way will close it.
`RecalcInv`: what a recalculation found complete is calculated or was started again (`Shows`),
and the lists it reads at the end show it (`Found`).

### Tables

*Rows* (`BodyInv`: `BodyTyped`, `Distinct`, `Stepping`, `Faithful`). However often a drawing is
begun again, put off or overtaken, at most one step of it in the queue is still wanted, and it
goes on where the rows end, so no line is drawn twice or left out (`Stepping`, with `Begun`: the
rows are those of the first lines). `Faithful` is `RowsSayWhatLinesSay` at every moment: a row
that does not say what its line says is excused while lines are calculated and it is out of
view, or while a callback that will draw it again is queued. The lines must have distinct ids
when they are opened (`OpenedLinesAssumption`; an id is the primary key of its table).

*Panels* (`PanelsInv`). No answer is compared with what is selected when it comes. What saves
the panels is that calls of a kind are answered in their order and the last of them in flight
asks for what is selected (`LastAsks`); once none is, what is shown is of it (`RowsRight`,
`InfoRight`, `TreeRight`). The page of rows selected is there (`PageThere`), or the table would
ask again. No branch is of another supplement, or the list has replaced the supplement and the
tree is still to be read, after the information or when the tab is opened again (`Renewed`). A
panel one of whose answers was lost or late is left out (`doubt`). `SupplementsAssumption` and
`NothingAssumption` say that there are supplements and sets and that `Nothing` is none of them.

*Steppers* (`SteppersInv`). For every list no other hand has changed: it has one row of the
thing with the stepper's quantity and nothing of it is still to come, or it has no row and
exactly one addition that waits has one, with that quantity (`Told`). An answer turns the second
into the first, or, if it brings only the own positions, moves the thing on with the rest. The
buffer empties itself at the end of an addition, so while it is added a stepper in step has
nothing there.

*The buffer* (`MovesInv`). What the buffer has while it is added is in the estimate already or
in what is left to add, or the user had a hand on it (`Due`); and it has one row of a thing, with
the quantity its stepper tells, if it tells any (`BufferInOrder`), so that a click that changes no
quantity puts the row in its own place.

The lemmas about lists are general: what a list has of a thing when two are joined, when it is
split, when a row is removed, put in a place or at the end (`JoinedTells`, `ListSplit`,
`RowGone`, `UpsertedTells`). That a set of numbers has a least one (`LeastOf`) comes from
`NatLessThanWellFounded` and `WFMin`, which have no operator for a parameter.

The proofs found a defect of the model: a `CASE` of `BasePanels` had guards that overlap. TLC takes
the first that holds, TLA+ leaves open which; the guards are now disjoint.

### The text and the table

*Types* (`TypeInv`). Ids given out are below the server's next one, so what `Unique` gives a
repeated id is nobody's, and the stored lines keep distinct ids whatever a save sends and
however saves overlap. This one needs no hypothesis.

*The hypotheses of the others.* Without `"hurry"` the user makes the next gesture when the
last save and change of the view are answered; statuses and batches may still come in
between. Without `"results"` the estimate is opened with no line calculated. Neither is a
convenience: section 7 says what happens to a user in a hurry, and the run `reopened` is the
counterexample to `TableIsStored` for an estimate that has the results of an earlier session. The
case `"twins"` (lines that say the same), any edits and any number of changes are covered.

*The table is stored* (`CalmInv`: `OneAtATime`, `NoResults`, `Apart`, `InTable`). At most one save
is on its way, and which of view, save, start and report is waited for excludes the others
(`OneAtATime`). `InTable`: once the save of a table is sent, what is on its way are the rows as
they are, and what is stored says what they say; `~shared` adds that the ids are the same. The
change of the view from text is the dangerous step, because it saves only if some line has no
result: `NoResults` says that while the text is shown neither the server, nor the page's copy
of the estimate, nor an answer on its way has one, since the cancel that comes before has taken
them away; so a text that has any line is always saved.

*Rows are right* (`DistinctInv`: and `RightResults`, `Intended`, `Aligned`). Results are those
of their lines on the server and in a report (`RightResults`). The rows say what the user
left (`Intended`). Every line on the server with a result, or that may get one, and every status
in flight, says what the row with its id says (`Aligned`), so matching by id is right, and
matching by content is right anyway (`AppliedRight`). The heart is that the three ways of
finding a line again keep ids: after an answer the n-th row of a text takes the id of the n-th
stored line of that text. `SyncedKeeps` proves that this leaves every row its own id if the
ids come out distinct: take the first row that does not have its own; of the rows like it up to
there as many came before as in the other list, and the place where the count is reached is its
own place, or else an earlier row or its own has been counted twice. Distinct ids are needed, and
two rows with one id are what `shared` remembers. That a settled table is done is `AllDone`: with
distinct ids a status in its place finds its own row, whose id no status before it has used
(`OwnStatus`).

The fold over the statuses is a recursive function over places (`Applications`), and what it
computes is followed with `LeastOf`: the first place where a property of it fails, if there is
one, is not the first of all, and the place before it has the property. That replaces
induction, whose library form the provers cannot use.

The proof changed the model: the page's copy of the estimate had been left out (`cache`), and
with it a table whose lines were identified against an old list. The hypothesis
`"results"` came from it too, and is a finding (section 7).

### What is only model-checked

- Liveness (`QueuedLineSettles`, `AwaitedLineSettles`, `StartMarkIsReleased`,
  `OperationsEnd`): fairness and `ENABLED` are outside the prover.
- The violations of section 7.

What a theorem's hypotheses leave out is also outside the run that checks its property; where
TLC found that the property fails there, section 7 says so. TLC has checked each inductive
invariant in runs of the sizes of section 5 before it was proved.

## 9 Abstractions and what is not modelled

On the server:

- Lines are GSN positions with a code, the only ones that are calculated. A document is any
  set of them with contents, the empty one included.
- A revision is the tuple of the values hashed; the hash is taken to be injective. The
  quantity is one value: that it is hashed as a float and stored as NUMERIC(14,3) is a
  hazard without a property.
- A result is a function of the revision. Prices, resource aggregates and sums are not
  modelled.
- Message queues are sets, so order and multiplicity are not kept; duplicates arise by
  redelivery, lost confirms, failed marks and replays. A fetched batch is all pending
  events, where the code takes the oldest 100.
- The order of lines in batches is arbitrary, as is the choice among claimable jobs.
- The three reads of a start before its mark are one step, as are the mark and the upsert of
  "starting". Two transactions that deadlock in PostgreSQL (after-save enqueue against
  complete) appear as the fault `"enqueue"`.
- That a lease ends while its worker is alive is a fault (`"lease"`); otherwise leases end
  when nobody holds them. That a permanent error ends the attempts is the choice `fatal`.
- `ClearEstimateCalcResultsOnClose` does nothing (`CB:182`) and is left out, as is the
  receipt branch of the skip decision: the code computes it and does not use it.
- Not modelled: deletion of an estimate while it is calculated, malformed messages, purging a
  queue, the publisher's connection.

In the client:

- `CalcSession` takes the server's calculation as two actions (enqueue, settle a line), and
  progress texts, resource tabs and the sum are left out. `PromptStatus` excludes reads that
  are answered after something else happened; the three runs of `CalcSession` and the two
  theorems that name it in section 8 assume it.
- Presence counts time in ticks of 30 s; a request or an answer takes less than a tick unless
  the machine sleeps. Polls within a tick are one. In `EstimateLocks` an estimate has lines (one
  without is always read from the server); the lists are one step, taken or not on the way to
  the opening, the only reader of the copy there; readers that fill the copy in other ways
  (recalculation of a scope, restored tabs) and a plain save that fails are left out.
- `EstimateText` leaves out sections, notes, edits of cells and the local calculation of
  quantity expressions; codes and volumes are values.
- `TableBody` and `EstimateText` take the long poll as a step that delivers some results;
  `PositionBuffer` is the table view only, and an estimate is closed once.
- `ConstructionTree` has one user; constructions and objects are answered at one moment;
  node ids may be reused. `BasePanels` leaves out the dialogs of a record and the regions.
- Not modelled: the catalogue of user positions, login and administration pages (forms whose
  every request is followed by a full reload), and what the table of section 1 lists as such.

## 10 Plan

Done: the eleven models, their runs, and proofs about all of them. Every safety property and
every action property that a run checks is a theorem; liveness stays with TLC.

What would come next: models of the hazards without a property, first the repeated server
crash between a save and its after-save enqueue and the publisher's connection; prices and
resource aggregates as sums over the lines; edits of cells in the table, with the local
calculation of quantity expressions.
