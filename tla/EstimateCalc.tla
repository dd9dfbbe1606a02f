---------------------------- MODULE EstimateCalc ----------------------------
(***************************************************************************)
(* Asynchronous calculation of one estimate.                               *)
(*                                                                         *)
(* The API server saves estimates, starts and cancels calculations and     *)
(* runs the outbox publisher (store/file_store.go, store/calc_batch.go,    *)
(* outbox/publisher.go); calc workers consume the RabbitMQ queues          *)
(* (calcworker/rabbit.go) and write line results back to PostgreSQL.  The  *)
(* queue mode also says whether the server keeps rows in the DB job queue; *)
(* the workers of that queue are in CalcJobs.                              *)
(* A step of this module is one database transaction, one statement run    *)
(* outside a transaction, or one exchange with the broker.                 *)
(*                                                                         *)
(* A line revision is a 63-bit FNV hash of the line's code and quantity,   *)
(* the estimate's district and FGIS set, and the calculation generation.   *)
(* It is modelled by the hashed values themselves (no collisions).         *)
(***************************************************************************)
EXTENDS Integers, FiniteSets

CONSTANTS
  QueueMode,    \* APP_QUEUE_MODE of the server: "db", "dual" or "rabbit"
  Lines,        \* ids of GSN position lines, the only lines that are calculated
  Specs,        \* what a line asks for: its code and quantity
  Envs,         \* district and FGIS set of the estimate header
  Saves,        \* PUT /api/estimates/{id} requests
  Starts,       \* POST /api/estimates/{id}/calc requests
  Consumers,    \* consumer goroutines of the calc workers
  BatchSize,    \* calc_start_batch_size
  MaxAttempts,  \* maxAttempts of every message and job
  MaxGen,       \* bound: the highest calc_generation, so a bound on cancels
  MaxFaults,    \* bound: how many faults happen
  FaultKinds,   \* the kinds of fault that may happen
  None          \* no such row, value or message

AllFaultKinds ==
  {"server", "worker", "connection", "confirm", "mark", "lookup", "fail", "nack",
   "enqueue", "replay", "claim", "lease"}

ASSUME QueueModeAssumption == QueueMode \in {"db", "dual", "rabbit"}
ASSUME BatchSizeAssumption == BatchSize \in Nat \ {0}
ASSUME MaxAttemptsAssumption == MaxAttempts \in Nat \ {0}
ASSUME BoundsAssumption == MaxGen \in Nat /\ MaxFaults \in Nat
ASSUME FaultKindsAssumption == FaultKinds \subseteq AllFaultKinds
ASSUME LinesAssumption == IsFiniteSet(Lines)

LineStatus == {"", "queued", "leased", "done", "failed", "dead"}
Terminal == {"done", "failed", "dead"}

Revision == [spec : Specs, env : Envs, gen : Nat]
RevisionOf(spec, e, g) == [spec |-> spec, env |-> e, gen |-> g]

Result == [spec : Specs, env : Envs]
Price(r) == [spec |-> r.spec, env |-> r.env]

Message == [id : Nat, line : Lines, rev : Revision, attempt : Nat]

\* A row of estimate_calc_jobs; "due" says that run_after or leased_until has passed.
Live == {"queued", "leased"}
Job == [id : Nat, line : Lines, rev : Revision, attempt : Nat,
        status : Live \cup {"done", "failed", "dead"}, due : BOOLEAN]

\* Some lines of an estimate with what each asks for.
Document == UNION {[D -> Specs] : D \in SUBSET Lines}

CalcState == [gen : Nat, env : Envs \cup {None},
              status : {"", "starting", "running", "done"},
              total : Nat, done : Nat, errors : Nat]

\* What a save read about a line before it replaces the rows.
StoredLine == [status : LineStatus, rev : Revision \cup {None}, result : Result \cup {None}]

ASSUME NoneAssumption ==
  /\ None \notin Specs /\ None \notin Envs /\ None \notin Revision
  /\ None \notin Result /\ None \notin CalcState /\ None \notin Message
  /\ None \notin StoredLine

VARIABLES
  gen, env,                      \* app_estimates: calc_generation; district and fgis_set_id
  content, status, rev, result,  \* app_estimate_lines, by line id
  rows,                          \* estimate_calc_lines: pairs <<generation, line id>>
  state,                         \* estimate_calc_state
  receipts,                      \* calc_message_receipts: pairs <<line id, revision>>
  outbox,                        \* outbox_events with published_at IS NULL
  jobs,                          \* estimate_calc_jobs
  nextId,                        \* source of job and event ids
  save, start,                   \* requests and the goroutines they leave behind
  marked,                        \* calcStartJobs holds this estimate
  fetched, sent,                 \* publisher: events still to publish; event to mark
  main, retry, dlq,              \* messages ready in the RabbitMQ queues
  cons,                          \* what each consumer goroutine is doing
  faults                         \* faults so far

header   == <<gen, env>>
lineVars == <<content, status, rev, result>>
calcVars == <<rows, state, receipts>>
events   == <<outbox, jobs, nextId>>
server   == <<save, start, marked>>
publisher == <<fetched, sent>>
queues   == <<main, retry, dlq>>
vars == <<header, lineVars, calcVars, events, server, publisher, queues, cons, faults>>

Exists(l) == content[l] # None
Existing == {l \in Lines : Exists(l)}

EmptyState ==
  [gen |-> 0, env |-> None, status |-> "", total |-> 0, done |-> 0, errors |-> 0]

\* lockEstimateCalcState: the row, inserted with its defaults when it is missing.
Locked == IF state = None THEN EmptyState ELSE state

\* Seeded fault: GREATEST(0, ...) forgotten.
Unclamped(n) == n

NotBelowZero(n) == IF n < 0 THEN 0 ELSE n

Fault(kind) == kind \in FaultKinds /\ faults < MaxFaults /\ faults' = faults + 1

-----------------------------------------------------------------------------
(* State of the requests, the consumers and the whole system at the start. *)

\* A document of no lines.
NoLines == [l \in {} |-> None]

NewSave == [phase |-> "new", doc |-> NoLines, env |-> None, gen |-> 0,
            old |-> [l \in Lines |-> None], lines |-> NoLines]
NewStart == [phase |-> "new", env |-> None, gen |-> 0, full |-> FALSE,
             todo |-> NoLines, doneBefore |-> 0, first |-> TRUE]
Idle == [phase |-> "idle", msg |-> None, held |-> FALSE, fatal |-> FALSE]

Init ==
  /\ gen = 0
  /\ env \in Envs
  /\ \E doc \in Document :
       /\ content = [l \in Lines |-> IF l \in DOMAIN doc THEN doc[l] ELSE None]
       /\ rev = [l \in Lines |->
                   IF l \in DOMAIN doc THEN RevisionOf(doc[l], env, 0) ELSE None]
  /\ status = [l \in Lines |-> ""]
  /\ result = [l \in Lines |-> None]
  /\ rows = {} /\ state = None /\ receipts = {}
  /\ outbox = {} /\ jobs = {} /\ nextId = 0
  /\ save = [s \in Saves |-> NewSave]
  /\ start = [t \in Starts |-> NewStart]
  /\ marked = FALSE
  /\ fetched = {} /\ sent = None
  /\ main = {} /\ retry = {} /\ dlq = {}
  /\ cons = [c \in Consumers |-> Idle]
  /\ faults = 0

-----------------------------------------------------------------------------
(* Effects shared by several handlers.                                     *)

\* UPDATE estimate_calc_jobs ... WHERE the job is queued or leased.
Killed(doomed) ==
  {IF j.status \in Live /\ j.line \in doomed THEN [j EXCEPT !.status = "dead", !.due = FALSE] ELSE j :
     j \in jobs}

\* Seeded fault: an event for a line that has one unpublished is left out.
EnqueueLinesOncePerLine(asked, e, g) ==
  LET hit == DOMAIN asked \cap Existing
      new == {l \in DOMAIN asked : \A m \in outbox : m.line # l} IN
  /\ status' = [l \in Lines |-> IF l \in hit THEN "queued" ELSE status[l]]
  /\ rev' = [l \in Lines |-> IF l \in hit THEN RevisionOf(asked[l], e, g) ELSE rev[l]]
  /\ result' = [l \in Lines |-> IF l \in hit THEN None ELSE result[l]]
  /\ outbox' = outbox \cup
       {[id |-> nextId, line |-> l, rev |-> RevisionOf(asked[l], e, g), attempt |-> 1] : l \in new}
  /\ jobs' = jobs
  /\ nextId' = nextId + 1

JobKey(j) == <<j.line, j.rev>>
NewJob(k) == [id |-> nextId, line |-> k[1], rev |-> k[2], attempt |-> 0,
              status |-> "queued", due |-> TRUE]

\* Seeded fault: INSERT without ON CONFLICT or a unique key.
RequeuedAlways(asked) == jobs \cup {NewJob(k) : k \in asked}

\* Seeded fault: ON CONFLICT DO NOTHING.
RequeuedIfNew(asked) == jobs \cup {NewJob(k) : k \in asked \ {JobKey(j) : j \in jobs}}

\* INSERT ... ON CONFLICT (estimate_id, line_id, revision) DO UPDATE: the row keeps its
\* id and its attempts, and its lease when it is leased.
Requeued(asked) ==
  {IF JobKey(j) \in asked /\ j.status # "leased"
   THEN [j EXCEPT !.status = "queued", !.due = TRUE] ELSE j : j \in jobs}
  \cup {NewJob(k) : k \in asked \ {JobKey(j) : j \in jobs}}

\* The rows of a queued batch: line rows reset, old receipts deleted, one job or event
\* each.  A line deleted meanwhile has no row to update, but is still asked for.
EnqueueLines(asked, e, g) ==
  LET hit   == DOMAIN asked \cap Existing
      to(l) == RevisionOf(asked[l], e, g) IN
  /\ status' = [l \in Lines |-> IF l \in hit THEN "queued" ELSE status[l]]
  /\ rev' = [l \in Lines |-> IF l \in hit THEN to(l) ELSE rev[l]]
  /\ result' = [l \in Lines |-> IF l \in hit THEN None ELSE result[l]]
  /\ jobs' = IF QueueMode = "rabbit" THEN jobs
             ELSE Requeued({<<l, to(l)>> : l \in DOMAIN asked})
  /\ outbox' = IF QueueMode = "db" THEN outbox
               ELSE outbox \cup {[id |-> nextId, line |-> l, rev |-> to(l), attempt |-> 1] :
                                    l \in DOMAIN asked}
  /\ nextId' = nextId + 1

\* Seeded fault: the receipts of the lines queued again are not deleted.
ReceiptsKept(lines) == receipts

ReceiptsWithout(lines) == {r \in receipts : r[1] \notin lines}

\* reconcileEstimateCalcStateTx, over the line statuses and jobs the transaction sees.
Reconciled(st, js) ==
  LET present  == Existing
      finished == {l \in present : st[l] = "done"}
      broken   == {l \in present : st[l] \in {"failed", "dead"}}
      pending  == {l \in present : st[l] \in Live}
  IN IF \/ state = None
        \/ pending # {} \/ (\E j \in js : j.status \in Live) \/ outbox # {}
        \/ state.status = ""
     THEN state
     ELSE [state EXCEPT
             !.total = Cardinality(present),
             !.done = Cardinality(finished),
             !.errors = Cardinality(broken),
             !.status = IF Cardinality(finished) + Cardinality(broken) >= Cardinality(present)
                        THEN "done" ELSE "running"]

\* The body of CancelEstimateCalc, with the unmark that follows its commit.
CancelTx ==
  /\ gen < MaxGen
  /\ \A s \in Saves : save[s].phase # "open"
  /\ gen' = gen + 1
  /\ status' = [l \in Lines |-> ""]
  /\ result' = [l \in Lines |-> None]
  /\ outbox' = {}
  /\ jobs' = Killed(Lines)
  /\ rows' = {}
  /\ state' = [EmptyState EXCEPT !.gen = gen + 1, !.env = env]
  /\ marked' = FALSE
  /\ UNCHANGED <<env, content, rev, receipts, nextId, publisher, queues, cons, faults>>

-----------------------------------------------------------------------------
(* PUT /api/estimates/{id}: upsertEstimateDB and the goroutine it starts.  *)
(* The header upsert locks the estimate's row, so at most one save is open *)
(* and no cancel runs beside it; workers and starts do run beside it.      *)

\* The transaction has locked the header and read the stored lines.
BeginSave(s, doc, e) ==
  /\ save[s].phase = "new"
  /\ \A other \in Saves : save[other].phase # "open"
  /\ save' = [save EXCEPT ![s] =
       [phase |-> "open", doc |-> doc, env |-> e, gen |-> gen,
        old |-> [l \in Lines |-> IF Exists(l) THEN [status |-> status[l], rev |-> rev[l],
                                                   result |-> result[l]] ELSE None],
        lines |-> NoLines]]
  /\ UNCHANGED <<header, lineVars, calcVars, events, start, marked, publisher, queues, cons, faults>>

\* Seeded fault: the stored revision is not compared.
KeepsAnyResult(sv, l) == sv.old[l] # None /\ sv.old[l].status \in Terminal

\* prepareEstimateLineForStorage: the stored results of line l are kept.
KeepsResult(sv, l) ==
  /\ sv.old[l] # None
  /\ sv.old[l].rev = RevisionOf(sv.doc[l], sv.env, sv.gen)
  /\ sv.old[l].status \in Terminal

RemovedBy(sv) == {l \in Lines \ DOMAIN sv.doc : sv.old[l] # None}
EnqueuedBy(sv) == [l \in {k \in DOMAIN sv.doc : ~KeepsResult(sv, k)} |-> sv.doc[l]]

CommitSave(s) ==
  LET sv      == save[s]
      removed == RemovedBy(sv)
      dropped == {l \in removed : <<sv.gen, l>> \in rows}
      kept    == {l \in DOMAIN sv.doc : KeepsResult(sv, l)}
      n       == Cardinality(dropped)
  IN
  /\ sv.phase = "open"
  /\ env' = sv.env
  /\ content' = [l \in Lines |-> IF l \in DOMAIN sv.doc THEN sv.doc[l] ELSE None]
  /\ rev' = [l \in Lines |-> IF l \in DOMAIN sv.doc
                             THEN RevisionOf(sv.doc[l], sv.env, sv.gen) ELSE None]
  /\ status' = [l \in Lines |-> IF l \in kept THEN sv.old[l].status ELSE ""]
  /\ result' = [l \in Lines |-> IF l \in kept THEN sv.old[l].result ELSE None]
  /\ rows' = rows \ {<<sv.gen, l>> : l \in removed}
  /\ state' = IF removed = {} THEN state
              ELSE [Locked EXCEPT !.done = NotBelowZero(@ - n), !.total = NotBelowZero(@ - n)]
  /\ receipts' = ReceiptsWithout(removed)
  /\ outbox' = {m \in outbox : m.line \notin removed}
  /\ jobs' = Killed(removed)
  /\ save' = [save EXCEPT ![s].lines = EnqueuedBy(sv),
                          ![s].phase = IF DOMAIN EnqueuedBy(sv) = {} THEN "end" ELSE "check",
                          ![s].old = NewSave.old, ![s].doc = NoLines]
  /\ UNCHANGED <<gen, nextId, start, marked, publisher, queues, cons, faults>>

EndSave(s) == save' = [save EXCEPT ![s] = [NewSave EXCEPT !.phase = "end"]]

\* enqueueEstimateLinesAfterSave begins: without earlier results it does nothing.
CheckAfterSave(s) ==
  /\ save[s].phase = "check"
  /\ IF rows = {} THEN EndSave(s) ELSE save' = [save EXCEPT ![s].phase = "enqueue"]
  /\ UNCHANGED <<header, lineVars, calcVars, events, start, marked, publisher, queues, cons, faults>>

\* Seeded fault: the lines a save queues keep their receipts.
EnqueueAfterSaveWithReceipts(s) ==
  LET sv == save[s] IN
  /\ sv.phase = "enqueue"
  /\ state' = [Locked EXCEPT !.total = @ + Cardinality(DOMAIN sv.lines), !.status = "running"]
  /\ EnqueueLines(sv.lines, sv.env, sv.gen)
  /\ EndSave(s)
  /\ UNCHANGED <<header, content, rows, receipts, start, marked, publisher, queues, cons, faults>>

\* ... and its transaction queues the lines the save left without a result.
EnqueueAfterSave(s) ==
  LET sv == save[s] IN
  /\ sv.phase = "enqueue"
  /\ state' = [Locked EXCEPT !.total = @ + Cardinality(DOMAIN sv.lines), !.status = "running"]
  /\ EnqueueLines(sv.lines, sv.env, sv.gen)
  /\ receipts' = ReceiptsWithout(DOMAIN sv.lines)
  /\ EndSave(s)
  /\ UNCHANGED <<header, content, rows, start, marked, publisher, queues, cons, faults>>

\* An error in that transaction (a deadlock, a lost connection) is only logged.
AfterSaveFails(s) ==
  /\ save[s].phase = "enqueue"
  /\ Fault("enqueue")
  /\ EndSave(s)
  /\ UNCHANGED <<header, lineVars, calcVars, events, start, marked, publisher, queues, cons>>

-----------------------------------------------------------------------------
(* POST /api/estimates/{id}/calc: StartEstimateCalc and the goroutine      *)
(* runEstimateCalcStart it leaves behind.                                  *)

EndStart(t) == start' = [start EXCEPT ![t] = [NewStart EXCEPT !.phase = "end"]]

\* Seeded fault: no deferred unmark.
LeaveStartMarked(t) == EndStart(t) /\ UNCHANGED marked

\* The goroutine returns: its deferred unmark runs whoever set the mark.
LeaveStart(t) == EndStart(t) /\ marked' = FALSE

\* Reads the header, whether results exist, and the state's district and FGIS set.
BeginStart(t, force) ==
  LET moved == state # None /\ state.env # env IN
  /\ start[t].phase = "new"
  /\ start' = [start EXCEPT ![t] =
       [NewStart EXCEPT !.phase = IF force \/ moved THEN "cancel" ELSE "mark",
                        !.env = env, !.gen = gen,
                        !.full = force \/ moved \/ rows = {}]]
  /\ UNCHANGED <<header, lineVars, calcVars, events, save, marked, publisher, queues, cons, faults>>

CancelForStart(t) ==
  /\ start[t].phase = "cancel"
  /\ CancelTx
  /\ start' = [start EXCEPT ![t].phase = "reread"]
  /\ UNCHANGED save

RereadForStart(t) ==
  /\ start[t].phase = "reread"
  /\ start' = [start EXCEPT ![t].phase = "mark", ![t].env = env, ![t].gen = gen]
  /\ UNCHANGED <<header, lineVars, calcVars, events, save, marked, publisher, queues, cons, faults>>

\* markEstimateCalcStartJob succeeds and the state row says "starting".
MarkStart(t) ==
  LET st == start[t] IN
  /\ st.phase = "mark"
  /\ ~marked
  /\ marked' = TRUE
  /\ state' = [EmptyState EXCEPT !.gen = st.gen, !.env = st.env, !.status = "starting"]
  /\ start' = [start EXCEPT ![t].phase = "read"]
  /\ UNCHANGED <<header, lineVars, rows, receipts, events, save, publisher, queues, cons, faults>>

\* 120 tries later: "estimate calc start already in progress".
GiveUpStart(t) ==
  /\ start[t].phase = "mark"
  /\ marked
  /\ EndStart(t)
  /\ UNCHANGED <<header, lineVars, calcVars, events, save, marked, publisher, queues, cons, faults>>

\* A resumed start leaves out the lines done at the revision they would get now.
Candidates(st) ==
  {l \in Existing :
     st.full \/ ~(status[l] = "done" /\ rev[l] = RevisionOf(content[l], st.env, st.gen))}

ReadLines(t) ==
  LET st == start[t] IN
  /\ st.phase = "read"
  /\ start' = [start EXCEPT ![t].phase = "prepare",
                            ![t].todo = [l \in Candidates(st) |-> content[l]],
                            ![t].doneBefore = Cardinality({l \in Existing : status[l] = "done"})]
  /\ UNCHANGED <<header, lineVars, calcVars, events, save, marked, publisher, queues, cons, faults>>

\* A full start clears the earlier results; clearEstimateCalcGenerationTx.
PrepareFull(t) ==
  LET st == start[t] IN
  /\ st.phase = "prepare" /\ st.full
  /\ rows' = {}
  /\ state' = [gen |-> st.gen, env |-> st.env,
               status |-> IF DOMAIN st.todo = {} THEN "done" ELSE "running",
               total |-> Cardinality(DOMAIN st.todo), done |-> 0, errors |-> 0]
  /\ IF DOMAIN st.todo = {}
     THEN LeaveStart(t)
     ELSE start' = [start EXCEPT ![t].phase = "guard"] /\ UNCHANGED marked
  /\ UNCHANGED <<header, lineVars, receipts, events, save, publisher, queues, cons, faults>>

\* A resumed start keeps the row's counters; only a missing row gets fresh ones.
PrepareResumed(t) ==
  LET st    == start[t]
      fresh == [EmptyState EXCEPT !.done = st.doneBefore]
      old   == IF state = None THEN fresh ELSE state
      total == st.doneBefore + Cardinality(DOMAIN st.todo)
  IN
  /\ st.phase = "prepare" /\ ~st.full /\ DOMAIN st.todo # {}
  /\ state' = [old EXCEPT !.gen = st.gen, !.env = st.env, !.status = "running", !.total = total]
  /\ start' = [start EXCEPT ![t].phase = "guard"]
  /\ UNCHANGED <<header, lineVars, rows, receipts, events, save, marked, publisher, queues, cons, faults>>

NothingToResume(t) ==
  LET st == start[t] IN
  /\ st.phase = "prepare" /\ ~st.full /\ DOMAIN st.todo = {}
  /\ state' = IF state # None /\ state.status = "starting"
              THEN [state EXCEPT !.status = "done"] ELSE state
  /\ LeaveStart(t)
  /\ UNCHANGED <<header, lineVars, rows, receipts, events, save, publisher, queues, cons, faults>>

\* Before each batch, outside its transaction: has the generation moved on?
CheckGeneration(t) ==
  LET st == start[t] IN
  /\ st.phase = "guard"
  /\ IF DOMAIN st.todo # {} /\ gen = st.gen
     THEN start' = [start EXCEPT ![t].phase = "batch"] /\ UNCHANGED marked
     ELSE LeaveStart(t)
  /\ UNCHANGED <<header, lineVars, calcVars, events, save, publisher, queues, cons, faults>>

\* One batch transaction. Lines go in sort order, which is the client's: any order.
PostBatch(t) ==
  LET st == start[t] IN
  /\ st.phase = "batch"
  /\ \E batch \in SUBSET DOMAIN st.todo :
       /\ batch # {}
       /\ \/ Cardinality(batch) = BatchSize
          \/ Cardinality(batch) < BatchSize /\ batch = DOMAIN st.todo
       /\ EnqueueLines([l \in batch |-> st.todo[l]], st.env, st.gen)
       /\ receipts' = IF st.first /\ st.full THEN {} ELSE ReceiptsWithout(batch)
       /\ start' = [start EXCEPT
                      ![t].phase = "guard", ![t].first = FALSE,
                      ![t].todo = [l \in DOMAIN st.todo \ batch |-> st.todo[l]]]
  /\ UNCHANGED <<header, content, rows, state, save, marked, publisher, queues, cons, faults>>

\* An error in one of the goroutine's transactions is only logged.
StartFails(t) ==
  /\ start[t].phase \in {"prepare", "batch"}
  /\ Fault("enqueue")
  /\ LeaveStart(t)
  /\ UNCHANGED <<header, lineVars, calcVars, events, save, publisher, queues, cons>>

\* POST /api/estimates/{id}/calc/cancel.
Cancel == CancelTx /\ UNCHANGED <<save, start>>

\* The server process dies: open transactions, goroutines and marks are gone.
CrashServer ==
  /\ Fault("server")
  /\ save' = [s \in Saves |-> IF save[s].phase = "new" THEN save[s]
                              ELSE [NewSave EXCEPT !.phase = "end"]]
  /\ start' = [t \in Starts |-> IF start[t].phase = "new" THEN start[t]
                                ELSE [NewStart EXCEPT !.phase = "end"]]
  /\ marked' = FALSE
  /\ fetched' = {} /\ sent' = None
  /\ UNCHANGED <<header, lineVars, calcVars, events, queues, cons>>

\* GET calc-status?summary=1 repairs the counters of a calculation that looks idle.
Summarize ==
  /\ state # None /\ state.status \in {"starting", "running"}
  /\ state' = Reconciled(status, jobs)
  /\ UNCHANGED <<header, lineVars, rows, receipts, events, server, publisher, queues, cons, faults>>

-----------------------------------------------------------------------------
(* Outbox publisher: publishBatch.                                         *)

FetchEvents ==
  /\ sent = None /\ fetched = {} /\ outbox # {}
  /\ fetched' = outbox
  /\ UNCHANGED <<header, lineVars, calcVars, events, server, sent, queues, cons, faults>>

\* The broker confirms the event; a queue is a set, see the README.
PublishEvent(m) ==
  /\ sent = None
  /\ m \in fetched
  /\ main' = main \cup {m}
  /\ sent' = m
  /\ fetched' = fetched \ {m}
  /\ UNCHANGED <<header, lineVars, calcVars, events, server, retry, dlq, cons, faults>>

\* No positive confirm, whether or not the broker has the message: the event waits.
ConfirmLost(m, reached) ==
  /\ sent = None
  /\ m \in fetched
  /\ Fault("confirm")
  /\ main' = IF reached THEN main \cup {m} ELSE main
  /\ fetched' = fetched \ {m}
  /\ UNCHANGED <<header, lineVars, calcVars, events, server, sent, retry, dlq, cons>>

\* Seeded fault: the UPDATE marks every pending event.
MarkAllPublished ==
  /\ sent # None
  /\ outbox' = {}
  /\ sent' = None
  /\ UNCHANGED <<header, lineVars, calcVars, jobs, nextId, server, fetched, queues, cons, faults>>

MarkPublished ==
  /\ sent # None
  /\ outbox' = outbox \ {sent}
  /\ sent' = None
  /\ UNCHANGED <<header, lineVars, calcVars, jobs, nextId, server, fetched, queues, cons, faults>>

\* The mark fails: the session ends and the event will be published again.
MarkFails ==
  /\ sent # None
  /\ Fault("mark")
  /\ sent' = None /\ fetched' = {}
  /\ UNCHANGED <<header, lineVars, calcVars, events, server, queues, cons>>

-----------------------------------------------------------------------------
(* Calc worker: handleRabbitDelivery. A consumer whose connection is lost  *)
(* goes on with the job, but the broker has already requeued the message.  *)

\* Seeded fault: the consumer subscribes with automatic acknowledgement.
DeliverAutoAck(c, m) ==
  /\ cons[c] = Idle
  /\ m \in main
  /\ main' = main \ {m}
  /\ cons' = [cons EXCEPT ![c] =
       [Idle EXCEPT !.msg = m,
                    !.phase = IF rev[m.line] # m.rev THEN "stale"
                              ELSE IF status[m.line] = "done" THEN "ack" ELSE "work"]]
  /\ UNCHANGED <<header, lineVars, calcVars, events, server, publisher, retry, dlq, faults>>

\* ShouldSkipCalcDelivery decides what becomes of the delivery.
Deliver(c, m) ==
  /\ cons[c] = Idle
  /\ m \in main
  /\ main' = main \ {m}
  /\ cons' = [cons EXCEPT ![c] =
       [Idle EXCEPT !.msg = m, !.held = TRUE,
                    !.phase = IF rev[m.line] # m.rev THEN "stale"
                              ELSE IF status[m.line] = "done" THEN "ack" ELSE "work"]]
  /\ UNCHANGED <<header, lineVars, calcVars, events, server, publisher, retry, dlq, faults>>

\* A query of ShouldSkipCalcDelivery fails: the first error lets the job run, an
\* error while reading the line is taken for another revision.
LookupFails(c, m) ==
  /\ cons[c] = Idle
  /\ m \in main
  /\ Fault("lookup")
  /\ main' = main \ {m}
  /\ \E verdict \in {"stale", "work"} :
       cons' = [cons EXCEPT ![c] = [Idle EXCEPT !.msg = m, !.held = TRUE, !.phase = verdict]]
  /\ UNCHANGED <<header, lineVars, calcVars, events, server, publisher, retry, dlq>>

\* FailEstimateCalcJob: the line row is marked whatever its revision is now.
FailTx(m, js) ==
  LET verdict == IF m.attempt >= MaxAttempts THEN "dead" ELSE "failed"
      after == [l \in Lines |-> IF l = m.line /\ Exists(l) THEN verdict ELSE status[l]]
  IN /\ status' = after
     /\ state' = IF verdict = "dead" THEN Reconciled(after, js) ELSE state

FailStale(c) ==
  /\ cons[c].phase = "stale"
  /\ FailTx(cons[c].msg, jobs)
  /\ cons' = [cons EXCEPT ![c].phase = "ack"]
  /\ UNCHANGED <<header, content, rev, result, rows, receipts, events, server, publisher, queues, faults>>

\* The row as CompleteEstimateCalcJob leaves it when the revision still matches:
\* code and quantity come from the message.
RecordDone(m) ==
  LET l   == m.line
      g   == IF m.rev.gen = 0 THEN gen ELSE m.rev.gen
      add == IF <<g, l>> \in rows THEN 0 ELSE 1
  IN
  /\ content' = [content EXCEPT ![l] = m.rev.spec]
  /\ status' = [status EXCEPT ![l] = "done"]
  /\ result' = [result EXCEPT ![l] = Price(m.rev)]
  /\ rows' = rows \cup {<<g, l>>}
  /\ receipts' = receipts \cup {<<l, m.rev>>}
  /\ state' = [Locked EXCEPT
       !.gen = g, !.done = @ + add,
       !.status = IF Locked.total > 0 /\ Locked.done + add + Locked.errors >= Locked.total
                  THEN "done" ELSE "running"]

\* ... and when it does not: "stale line revision", on whatever revision is there.
RecordStale(m) ==
  /\ status' = [status EXCEPT ![m.line] = IF Exists(m.line) THEN "failed" ELSE @]
  /\ UNCHANGED <<content, result, rows, receipts, state>>

\* Seeded fault: the UPDATE does not compare the revision.
CompleteAnyRevision(c) ==
  LET m == cons[c].msg IN
  /\ cons[c].phase = "work"
  /\ IF rev[m.line] # None THEN RecordDone(m) ELSE RecordStale(m)
  /\ cons' = [cons EXCEPT ![c].phase = "ack"]
  /\ UNCHANGED <<header, rev, events, server, publisher, queues, faults>>

CompleteJob(c) ==
  LET m == cons[c].msg IN
  /\ cons[c].phase = "work"
  /\ IF rev[m.line] = m.rev THEN RecordDone(m) ELSE RecordStale(m)
  /\ cons' = [cons EXCEPT ![c].phase = "ack"]
  /\ UNCHANGED <<header, rev, events, server, publisher, queues, faults>>

\* Lookup, pricing or the database fails, for good or for now.
JobError(c, fatal) ==
  /\ cons[c].phase = "work"
  /\ cons' = [cons EXCEPT ![c].phase = "failing", ![c].fatal = fatal]
  /\ UNCHANGED <<header, lineVars, calcVars, events, server, publisher, queues, faults>>

FailJob(c) ==
  /\ cons[c].phase = "failing"
  /\ FailTx(cons[c].msg, jobs)
  /\ cons' = [cons EXCEPT ![c].phase = "republish"]
  /\ UNCHANGED <<header, content, rev, result, rows, receipts, events, server, publisher, queues, faults>>

\* FailEstimateCalcJob itself fails; the handler ignores its error.
FailLost(c) ==
  /\ Fault("fail")
  /\ \/ cons[c].phase = "failing" /\ cons' = [cons EXCEPT ![c].phase = "republish"]
     \/ cons[c].phase = "stale" /\ cons' = [cons EXCEPT ![c].phase = "ack"]
  /\ UNCHANGED <<header, lineVars, calcVars, events, server, publisher, queues>>

\* The message goes to a retry queue or, out of attempts or hopeless, to the DLQ.
Republish(c) ==
  LET m == [cons[c].msg EXCEPT !.attempt = @ + 1] IN
  /\ cons[c].phase = "republish" /\ cons[c].held
  /\ IF ~cons[c].fatal /\ m.attempt <= MaxAttempts
     THEN retry' = retry \cup {m} /\ UNCHANGED dlq
     ELSE dlq' = dlq \cup {m} /\ UNCHANGED retry
  /\ cons' = [cons EXCEPT ![c].phase = "ack"]
  /\ UNCHANGED <<header, lineVars, calcVars, events, server, publisher, main, faults>>

\* The publish fails: Nack with requeue, or nothing when the connection is gone.
RepublishFails(c) ==
  /\ cons[c].phase = "republish"
  /\ IF cons[c].held
     THEN Fault("nack") /\ main' = main \cup {cons[c].msg}
     ELSE UNCHANGED <<main, faults>>
  /\ cons' = [cons EXCEPT ![c] = Idle]
  /\ UNCHANGED <<header, lineVars, calcVars, events, server, publisher, retry, dlq>>

Ack(c) ==
  /\ cons[c].phase = "ack"
  /\ cons' = [cons EXCEPT ![c] = Idle]
  /\ UNCHANGED <<header, lineVars, calcVars, events, server, publisher, queues, faults>>

\* The broker requeues what the lost connection had not acknowledged.
LoseConnection(c) ==
  /\ cons[c].held
  /\ Fault("connection")
  /\ main' = main \cup {cons[c].msg}
  /\ cons' = [cons EXCEPT ![c].held = FALSE]
  /\ UNCHANGED <<header, lineVars, calcVars, events, server, publisher, retry, dlq>>

CrashWorker(c) ==
  /\ cons[c] # Idle
  /\ Fault("worker")
  /\ main' = IF cons[c].held THEN main \cup {cons[c].msg} ELSE main
  /\ cons' = [cons EXCEPT ![c] = Idle]
  /\ UNCHANGED <<header, lineVars, calcVars, events, server, publisher, retry, dlq>>

\* A retry queue's TTL ends: RabbitMQ dead-letters the message to the main queue.
RetryExpires(m) ==
  /\ m \in retry
  /\ retry' = retry \ {m}
  /\ main' = main \cup {m}
  /\ UNCHANGED <<header, lineVars, calcVars, events, server, publisher, dlq, cons, faults>>

\* An operator runs cmd/replay_dlq: back to the main queue with a first attempt.
\* It is counted with the faults to keep replays bounded.
ReplayDead(m) ==
  /\ m \in dlq
  /\ Fault("replay")
  /\ dlq' = dlq \ {m}
  /\ main' = main \cup {[m EXCEPT !.attempt = 1]}
  /\ UNCHANGED <<header, lineVars, calcVars, events, server, publisher, retry, cons>>

-----------------------------------------------------------------------------

SaveStep(s) ==
  \/ \E doc \in Document, e \in Envs : BeginSave(s, doc, e)
  \/ CommitSave(s)
  \/ CheckAfterSave(s)
  \/ EnqueueAfterSave(s)
  \/ AfterSaveFails(s)

StartStep(t) ==
  \/ \E force \in BOOLEAN : BeginStart(t, force)
  \/ CancelForStart(t) \/ RereadForStart(t)
  \/ MarkStart(t) \/ GiveUpStart(t)
  \/ ReadLines(t)
  \/ PrepareFull(t) \/ PrepareResumed(t) \/ NothingToResume(t)
  \/ CheckGeneration(t) \/ PostBatch(t)
  \/ StartFails(t)

PublisherStep ==
  \/ FetchEvents \/ MarkPublished \/ MarkFails
  \/ \E m \in fetched : PublishEvent(m) \/ \E reached \in BOOLEAN : ConfirmLost(m, reached)

ConsumerStep(c) ==
  \/ \E m \in main : Deliver(c, m) \/ LookupFails(c, m)
  \/ FailStale(c) \/ CompleteJob(c)
  \/ \E fatal \in BOOLEAN : JobError(c, fatal)
  \/ FailJob(c) \/ FailLost(c)
  \/ Republish(c) \/ RepublishFails(c) \/ Ack(c)
  \/ LoseConnection(c) \/ CrashWorker(c)

BrokerStep ==
  \/ \E m \in retry : RetryExpires(m)
  \/ \E m \in dlq : ReplayDead(m)

Next ==
  \/ \E s \in Saves : SaveStep(s)
  \/ \E t \in Starts : StartStep(t)
  \/ Cancel \/ CrashServer \/ Summarize
  \/ PublisherStep
  \/ \E c \in Consumers : ConsumerStep(c)
  \/ BrokerStep

Spec == Init /\ [][Next]_vars

-----------------------------------------------------------------------------
(* Properties.                                                             *)

SaveRecord ==
  [phase : {"new", "open", "check", "enqueue", "end"}, doc : Document,
   env : Envs \cup {None}, gen : Nat, old : [Lines -> StoredLine \cup {None}], lines : Document]
StartRecord ==
  [phase : {"new", "cancel", "reread", "mark", "read", "prepare", "guard", "batch", "end"},
   env : Envs \cup {None}, gen : Nat, full : BOOLEAN, todo : Document,
   doneBefore : Nat, first : BOOLEAN]
ConsumerRecord ==
  [phase : {"idle", "stale", "work", "failing", "republish", "ack"},
   msg : Message \cup {None}, held : BOOLEAN, fatal : BOOLEAN]

TypeOK ==
  /\ gen \in Nat /\ env \in Envs
  /\ content \in [Lines -> Specs \cup {None}]
  /\ status \in [Lines -> LineStatus]
  /\ rev \in [Lines -> Revision \cup {None}]
  /\ result \in [Lines -> Result \cup {None}]
  /\ rows \subseteq Nat \X Lines
  /\ state \in CalcState \cup {None}
  /\ receipts \subseteq Lines \X Revision
  /\ outbox \subseteq Message /\ jobs \subseteq Job /\ nextId \in Nat
  /\ save \in [Saves -> SaveRecord]
  /\ start \in [Starts -> StartRecord]
  /\ marked \in BOOLEAN
  /\ fetched \subseteq Message /\ sent \in Message \cup {None}
  /\ main \subseteq Message /\ retry \subseteq Message /\ dlq \subseteq Message
  /\ cons \in [Consumers -> ConsumerRecord]
  /\ faults \in Nat

(***************************************************************************)
(* A line shown as done carries the price of exactly the code, quantity,   *)
(* district and FGIS set its stored revision was made of, and shows that   *)
(* code and quantity, whatever saves, late results, retries and duplicates *)
(* crossed each other on the way.                                          *)
(***************************************************************************)
DoneMatchesRevision ==
  \A l \in Lines : status[l] = "done" =>
    /\ rev[l] # None
    /\ content[l] = rev[l].spec
    /\ result[l] = Price(rev[l])

\* The messages that will still bring line l's current revision to a verdict (modes
\* "dual" and "rabbit"; the jobs of modes "db" and "dual" are in CalcJobs).
\* The event being marked published does not count: it is about to go.
Carriers(l) ==
  {m \in (outbox \ {sent}) \cup main \cup retry \cup dlq
        \cup {cons[c].msg : c \in {k \in Consumers :
                 cons[k].held /\ cons[k].phase \in {"stale", "work", "failing", "republish"}}} :
     m.line = l /\ m.rev = rev[l]}

(***************************************************************************)
(* No queued line is forgotten: whatever crashed, was lost, repeated or    *)
(* cancelled, a message for its current revision waits in the outbox, in a *)
(* queue (the DLQ included) or with a consumer that has not finished it.   *)
(* The run line_stranded shows the one exception: a consumer acknowledges  *)
(* a delivery it took for stale although marking the line failed as well.  *)
(***************************************************************************)
QueuedLineIsCarried == \A l \in Lines : status[l] = "queued" => Carriers(l) # {}

(***************************************************************************)
(* A receipt says that this revision of the line was recorded as done, so  *)
(* a line that waits for its calculation has none: whoever queues a line   *)
(* again, at the same revision too, deletes its receipts first.            *)
(***************************************************************************)
QueuedLineHasNoReceipt ==
  \A l \in Lines : status[l] = "queued" => <<l, rev[l]>> \notin receipts

-----------------------------------------------------------------------------
(* Statements of the documentation that the code does not keep.            *)

\* RESOURCE_ANALYTICS_SERVICE_CONTEXT.md: the status "done" means that every line
\* being processed is terminal, so a calculation reported as done has no queued line.
DoneReportHasNoQueuedLine ==
  state # None /\ state.status = "done" => \A l \in Lines : status[l] # "queued"

\* calc_batch.go says a cancel invalidates the jobs in flight: a line becomes
\* done only with the result of the current generation.
CancelInvalidatesInFlight ==
  [][\A l \in Lines : status'[l] = "done" /\ status[l] # "done" => rev'[l].gen = gen']_vars

\* RABBITMQ_MIGRATION_PLAN.md, section 4: delivering a duplicate leaves the outcome
\* the same, so no delivery turns a finished line of the same revision into a failed one.
DuplicateLeavesOutcome ==
  [][\A l \in Lines : status[l] = "done" /\ rev'[l] = rev[l]
                        => status'[l] \notin {"failed", "dead"}]_vars

\* RABBITMQ_MIGRATION_PLAN.md, section 3.1: the event is written by the transaction
\* that updates the line, so it asks for what the line holds then.
EventsAskForStoredLine ==
  [][\A m \in outbox' \ outbox : content'[m.line] \in {m.rev.spec, None}]_vars

-----------------------------------------------------------------------------
(* Liveness.                                                               *)

\* The server's goroutines and the publisher's loop run, the broker delivers
\* and expires, and a consumer finishes what it was given.  Nothing makes a
\* request, a cancel, a poll, a replay or a fault happen.
Fairness ==
  /\ \A s \in Saves : WF_vars(CommitSave(s) \/ CheckAfterSave(s) \/ EnqueueAfterSave(s))
  /\ \A t \in Starts :
       /\ WF_vars(RereadForStart(t) \/ ReadLines(t) \/ PrepareFull(t) \/ PrepareResumed(t)
                  \/ NothingToResume(t) \/ CheckGeneration(t) \/ PostBatch(t))
  /\ WF_vars(FetchEvents) /\ WF_vars(MarkPublished)
  /\ WF_vars(\E m \in fetched : PublishEvent(m))
  /\ WF_vars(\E m \in retry : RetryExpires(m))
  /\ \A c \in Consumers :
       /\ WF_vars(\E m \in main : Deliver(c, m))
       /\ WF_vars(FailStale(c) \/ CompleteJob(c) \/ FailJob(c)
                  \/ Republish(c) \/ RepublishFails(c) \/ Ack(c))

FairSpec == Spec /\ Fairness

(***************************************************************************)
(* HANDOFF.md: a line gets a terminal status in every case and progress    *)
(* does not freeze.  A queued line does not stay queued.                   *)
(***************************************************************************)
QueuedLineSettles == \A l \in Lines : status[l] = "queued" ~> status[l] # "queued"

(***************************************************************************)
(* The mark that keeps a second start out is always taken back, also when  *)
(* the goroutine meets a cancel, an error or a crash.                      *)
(***************************************************************************)
StartMarkIsReleased == marked ~> ~marked
=============================================================================
