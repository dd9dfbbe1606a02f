---------------------------- MODULE CalcSession ----------------------------
(***************************************************************************)
(* The calculation of the open estimate as the browser follows it          *)
(* (web/app.js): the tasks that ask for batches of results, the status     *)
(* read that reconciles the table, saves, and the starts and restarts of a *)
(* calculation.  Every piece of code between two awaits is one step.       *)
(* The server is here as its API shows it: EstimateCalc has its inside.    *)
(***************************************************************************)
EXTENDS Integers, FiniteSets, Sequences

CONSTANTS
  NLines,       \* GSN lines of the estimate, 1 .. NLines in their sort order
  ClientBatch,  \* calc_client_batch_size
  Listeners,    \* bound: tasks of runEstimateCalcBatchListener at one time
  Gestures,     \* what the user does
  MaxGestures,  \* bound: how often
  PromptStatus, \* bound: a status read is answered, and who awaits it goes on, before anything else
  Verdicts,     \* how the server's calculation of a line may end
  FaultKinds,   \* requests that may fail
  MaxFaults,    \* bound: how many do
  None

ASSUME SizesAssumption == NLines \in Nat \ {0} /\ ClientBatch \in Nat \ {0}
ASSUME BoundsAssumption == MaxGestures \in Nat /\ MaxFaults \in Nat /\ PromptStatus \in BOOLEAN
ASSUME GesturesAssumption ==
  Gestures \subseteq {"calculate", "context", "recalculate", "save", "render", "away", "text"}
ASSUME FaultKindsAssumption == FaultKinds \subseteq {"batch", "status", "put", "start"}
ASSUME VerdictsAssumption == Verdicts \subseteq {"done", "failed"}
ASSUME NoneAssumption == None \notin Listeners

Lines == 1 .. NLines
Status == {"", "queued", "done", "failed"}
Terminal == {"done", "failed"}
Ops == {"calculate", "restart", "save", "text"}

VARIABLES
  srv,        \* the server: generation, context, lines, and an enqueue to come
  context,    \* district and FGIS set the user has chosen
  line,       \* the items of the open estimate: status and context of the price
  view,       \* "table", "text", or "away": another tab or section
  awaiting,   \* estimateCalcAwaitingServer
  blocked,    \* estimateCalcPollBlockedByPersist
  shown,      \* "processed" of the progress target
  ctrl,       \* the controller in estimateCalcBatchControllers
  task,       \* the listeners
  reading,    \* reconcileEstimateCalcStatusesFromServer, one at a time
  op,         \* where the calculation, the restart and a plain save are
  coalesce,   \* entry of estimateCalcRestartCoalesce
  gestures, faults

ui == <<context, view>>
table == <<line, awaiting, blocked, shown>>
bounds == <<gestures, faults>>
vars == <<srv, ui, table, ctrl, task, reading, op, coalesce, bounds>>

Fault(kind) == kind \in FaultKinds /\ faults < MaxFaults /\ faults' = faults + 1

Blank == [status |-> "", price |-> None]
Queued == [status |-> "queued", price |-> None]
NoBatch == [reset |-> FALSE, gen |-> 0, applied |-> 0, items |-> <<>>, processed |-> 0, done |-> FALSE]
NoTask == [phase |-> "idle", own |-> FALSE, batch |-> NoBatch, outdated |-> FALSE]
NoReading == [phase |-> "none", for |-> None, statuses |-> [l \in Lines |-> Blank]]
NoOp == [phase |-> "idle", wait |-> None, context |-> 0]

Init ==
  /\ srv = [gen |-> 1, context |-> 0, at |-> 0, line |-> [l \in Lines |-> Blank], enqueue |-> FALSE]
  /\ context = 0 /\ view = "text"
  /\ line = [l \in Lines |-> Blank]
  /\ awaiting = FALSE /\ blocked = FALSE /\ shown = 0
  /\ ctrl = [stopped |-> TRUE, applying |-> FALSE, promise |-> None, applied |-> 0, gen |-> 0]
  /\ task = [i \in Listeners |-> NoTask]
  /\ reading = NoReading
  /\ op = [o \in Ops |-> NoOp]
  /\ coalesce = [timer |-> FALSE, pending |-> FALSE]
  /\ gestures = 0 /\ faults = 0

-----------------------------------------------------------------------------
(* The server behind its API.                                              *)

AllTerminal(ls) == \A l \in Lines : ls[l].status \in Terminal

\* PUT: a changed context empties the lines, and queues them if they had results.
Saved(c) ==
  IF c = srv.context THEN srv
  ELSE [srv EXCEPT !.context = c, !.line = [l \in Lines |-> Blank],
                   !.enqueue = srv.enqueue \/ \E l \in Lines : srv.line[l].price # None]

\* POST calc/cancel.
Cancelled == [srv EXCEPT !.gen = @ + 1, !.line = [l \in Lines |-> Blank], !.enqueue = FALSE]

\* POST calc: the answer comes before the goroutine has queued a line.
Started(force) ==
  [(IF force \/ srv.at # srv.context THEN Cancelled ELSE srv) EXCEPT !.enqueue = TRUE, !.at = srv.context]

Enqueue ==
  /\ srv.enqueue
  /\ srv' = [srv EXCEPT !.enqueue = FALSE,
       !.line = [l \in Lines |-> IF srv.line[l].status = "done" THEN srv.line[l] ELSE Queued]]
  /\ UNCHANGED <<ui, table, ctrl, task, reading, op, coalesce, bounds>>

Calculate(l, verdict) ==
  /\ srv.line[l].status = "queued"
  /\ srv' = [srv EXCEPT !.line[l] =
       [status |-> verdict, price |-> IF verdict = "done" THEN srv.context ELSE None]]
  /\ UNCHANGED <<ui, table, ctrl, task, reading, op, coalesce, bounds>>

\* buildEstimateCalcBatchResponse: the terminal lines after the first "applied" of them.
TerminalLines ==
  LET terminal == {l \in Lines : srv.line[l].status \in Terminal} IN
  [k \in 1 .. Cardinality(terminal) |-> CHOOSE l \in terminal : Cardinality({m \in terminal : m <= l}) = k]

\* Seeded fault: the cursor advances by a whole batch, however few lines there were.
BatchPastTheEnd(applied, gen) ==
  LET lines == TerminalLines
      from  == IF applied > Len(lines) THEN Len(lines) ELSE applied
      items == SubSeq(lines, from + 1, Len(lines))
  IN [reset |-> FALSE, gen |-> srv.gen, processed |-> Len(lines), done |-> Len(lines) = NLines,
      applied |-> from + ClientBatch,
      items |-> [k \in 1 .. Len(items) |-> [id |-> items[k], now |-> srv.line[items[k]]]]]

Batch(applied, gen) ==
  LET lines == TerminalLines
      from  == IF applied > Len(lines) THEN Len(lines) ELSE applied
      done  == Len(lines) = NLines
      fresh == Len(lines) - from
      ready == fresh >= ClientBatch \/ (done /\ (fresh > 0 \/ from > 0))
      upto  == IF fresh < ClientBatch THEN Len(lines) ELSE from + ClientBatch
      items == IF ready THEN SubSeq(lines, from + 1, upto) ELSE <<>>
  IN IF gen > 0 /\ gen # srv.gen
     THEN [NoBatch EXCEPT !.reset = TRUE, !.gen = srv.gen]
     ELSE [reset |-> FALSE, gen |-> srv.gen, processed |-> Len(lines), done |-> done,
           applied |-> IF ready THEN from + Len(items) ELSE applied,
           items |-> [k \in 1 .. Len(items) |-> [id |-> items[k], now |-> srv.line[items[k]]]]]

-----------------------------------------------------------------------------
(* Reading and changing the table.                                         *)

InFlight(ls) == \E l \in Lines : ls[l].status \in {"", "queued"}
Processed(ls) == Cardinality({l \in Lines : ls[l].status \in Terminal})
ShouldWait == awaiting \/ InFlight(line)
Larger(m, n) == IF m > n THEN m ELSE n

\* What was asked for before the lines were reset (a history variable of the model).
Outdated ==
  [i \in Listeners |-> [task[i] EXCEPT !.outdated = @ \/ task[i].phase \in {"fetch", "answer"}]]

\* resetGsnLinesForTableCalculation and the new progress target.
ResetLines(preserveDone) ==
  /\ line' = [l \in Lines |-> IF preserveDone /\ line[l].status = "done" THEN line[l] ELSE Queued]
  /\ awaiting' = TRUE /\ blocked' = TRUE /\ shown' = 0
  /\ task' = Outdated

Persisting == \E o \in Ops : op[o].phase \in {"put", "saved"}
Alive(i) == task[i].phase # "idle"
Current(i) == task[i].own /\ ~ctrl.stopped

\* abortEstimateCalcBatchSession up to its await: a new session, whose id no task has.
Aborted(c) == [c EXCEPT !.stopped = TRUE]
Disowned(ts) == [i \in Listeners |-> [ts[i] EXCEPT !.own = FALSE]]
Abort == ctrl' = Aborted(ctrl) /\ task' = Disowned(task)

Looping   == [NoTask EXCEPT !.phase = "check", !.own = TRUE]
Finishing == [NoTask EXCEPT !.phase = "final", !.own = TRUE]

\* runEstimateCalcBatchListener is called: c is the controller, ts the tasks.
Launch(c, ts) ==
  LET free == {i \in Listeners : ts[i].phase = "idle"}
      i    == CHOOSE i \in free : TRUE
  IN
    /\ free # {}
    /\ task' = [ts EXCEPT ![i] = Looping]
    /\ ctrl' = [c EXCEPT !.stopped = FALSE, !.promise = i]

\* Seeded fault: the listener before it goes on.
StartListenerBeside(c, ts, should) ==
  IF should THEN Launch(c, ts) ELSE ctrl' = c /\ task' = ts

\* startEstimateCalcBatchListener, given whether shouldRunEstimateCalcBatchListener.
StartListener(c, ts, should) ==
  IF should THEN Launch(Aborted(c), Disowned(ts)) ELSE ctrl' = c /\ task' = ts

\* The listener returns; whoever awaits its promise goes on.
Returned(i) == [task EXCEPT ![i] = NoTask]
Settled(i, c) == [c EXCEPT !.promise = IF @ = i THEN None ELSE @]
Woken(i) == [o \in Ops |-> [op[o] EXCEPT !.wait = IF @ = i THEN None ELSE @]]

-----------------------------------------------------------------------------
(* reconcileEstimateCalcStatusesFromServer.                                *)

\* The call: one that finds another in flight returns at once.
Reconcile(caller) ==
  reading' = IF reading.phase = "none" THEN [NoReading EXCEPT !.phase = "sent", !.for = caller]
             ELSE reading

AnswerStatus ==
  /\ reading.phase \in {"sent", "retry"}
  /\ reading' = [reading EXCEPT !.phase = IF @ = "sent" THEN "answered" ELSE "retried",
                                !.statuses = srv.line]
  /\ UNCHANGED <<srv, ui, table, ctrl, task, op, coalesce, bounds>>

\* The answer is applied line by line, whatever happened since it was read. When it
\* brings nothing, a complete summary makes the code read the statuses once more; it never
\* applies them, because it assigns them to a constant first.
ApplyStatuses ==
  LET now   == reading.statuses
      first == reading.phase = "answered"
      found == first /\ (now # line \/ (InFlight(line) /\ Processed(now) > 0))
      full  == first /\ ~found /\ AllTerminal(srv.line)
  IN
  /\ reading.phase \in {"answered", "retried"}
  /\ reading' = IF full THEN [reading EXCEPT !.phase = "retry"] ELSE NoReading
  /\ IF found
     THEN /\ line' = now
          /\ shown' = IF awaiting THEN Processed(now) ELSE Larger(Processed(now), shown)
          /\ awaiting' = (awaiting /\ InFlight(now))
     ELSE /\ UNCHANGED line
          /\ shown' = IF full THEN NLines ELSE shown
          /\ awaiting' = (awaiting /\ ~full)
  /\ UNCHANGED <<srv, ui, blocked, ctrl, task, op, coalesce, bounds>>

\* Its errors are swallowed.
StatusFails ==
  /\ reading.phase \in {"sent", "retry"}
  /\ Fault("status")
  /\ reading' = NoReading
  /\ UNCHANGED <<srv, ui, table, ctrl, task, op, coalesce, gestures>>

-----------------------------------------------------------------------------
(* runEstimateCalcBatchListener.                                           *)

\* Seeded fault: whoever waits for this listener is not told.
LeaveUnwoken(i) ==
  task' = Returned(i) /\ ctrl' = Settled(i, ctrl) /\ UNCHANGED <<reading, op>>

\* After the loop: a read of what is missing, or a new run in 1.5 s.
Leave(i) ==
  LET own   == Current(i) /\ view = "table"
      again == own /\ task[i].phase # "final" /\ Processed(line) < NLines
  IN
  /\ IF own /\ task[i].phase = "final" /\ InFlight(line) THEN Reconcile(None) ELSE UNCHANGED reading
  /\ task' = IF again THEN [task EXCEPT ![i] = [NoTask EXCEPT !.phase = "later", !.own = TRUE]]
             ELSE Returned(i)
  /\ ctrl' = Settled(i, ctrl)
  /\ op' = Woken(i)

Check(i) ==
  /\ task[i].phase = "check"
  /\ ~(Current(i) /\ ctrl.applying)
  /\ IF Current(i) /\ view = "table" /\ ShouldWait
     THEN /\ task' = [task EXCEPT ![i].phase = "fetch", ![i].outdated = FALSE,
                                  ![i].batch = [NoBatch EXCEPT !.applied = ctrl.applied, !.gen = ctrl.gen]]
          /\ UNCHANGED <<ctrl, reading, op>>
     ELSE Leave(i)
  /\ UNCHANGED <<srv, ui, table, coalesce, bounds>>

\* FetchEstimateCalcBatch answers: a batch is ready, the calculation is idle, or 25 s passed.
AnswerBatch(i) ==
  /\ task[i].phase = "fetch"
  /\ task' = [task EXCEPT ![i].phase = "answer",
                          ![i].batch = Batch(task[i].batch.applied, task[i].batch.gen)]
  /\ UNCHANGED <<srv, ui, table, ctrl, reading, op, coalesce, bounds>>

\* The abort of the session ends the fetch.
FetchAborted(i) ==
  /\ task[i].phase \in {"fetch", "answer"}
  /\ ~Current(i)
  /\ Leave(i)
  /\ UNCHANGED <<srv, ui, table, coalesce, bounds>>

\* A pause of 1 s, then the loop again.
BatchFails(i) ==
  /\ task[i].phase = "fetch" /\ Current(i)
  /\ Fault("batch")
  /\ task' = [task EXCEPT ![i] = Looping]
  /\ UNCHANGED <<srv, ui, table, ctrl, reading, op, coalesce, gestures>>

ItemsOf(b) == {b.items[k] : k \in 1 .. Len(b.items)}
WithItems(b) ==
  [l \in Lines |-> IF \E it \in ItemsOf(b) : it.id = l
                   THEN (CHOOSE it \in ItemsOf(b) : it.id = l).now ELSE line[l]]

\* Seeded fault: the answer is not compared with the session.
DeliverAnySession(i) ==
  LET b == task[i].batch IN
  /\ task[i].phase = "answer" /\ ~b.reset
  /\ line' = WithItems(b) /\ shown' = b.processed
  /\ ctrl' = [ctrl EXCEPT !.gen = b.gen, !.applied = b.applied]
  /\ task' = [task EXCEPT ![i] = [(IF b.done THEN Finishing ELSE Looping) EXCEPT !.own = task[i].own]]
  /\ IF b.done THEN Reconcile(i) ELSE UNCHANGED reading
  /\ UNCHANGED <<srv, ui, awaiting, blocked, op, coalesce, bounds>>

\* The answer arrives: a reset of the cursor, nothing new, or lines to apply.
Deliver(i) ==
  LET b   == task[i].batch
      new == b.done \/ b.items # <<>> \/ b.applied # ctrl.applied
      bare == b.done /\ WithItems(b) = line
  IN
  /\ task[i].phase = "answer" /\ Current(i)
  /\ IF b.reset
     THEN /\ ctrl' = [ctrl EXCEPT !.applied = 0, !.gen = b.gen]
          /\ task' = [task EXCEPT ![i] = Looping]
          /\ UNCHANGED <<line, shown, awaiting, reading>>
     ELSE /\ line' = IF new THEN WithItems(b) ELSE line
          /\ shown' = IF new /\ ~bare THEN b.processed ELSE shown
          /\ awaiting' = (awaiting /\ (bare \/ ~b.done))
          /\ ctrl' = [ctrl EXCEPT !.gen = b.gen, !.applying = bare,
                                  !.applied = IF new /\ ~bare THEN b.applied ELSE @]
          /\ task' = [task EXCEPT ![i] = IF bare THEN [@ EXCEPT !.phase = "applying", !.outdated = FALSE]
                                         ELSE IF b.done THEN Finishing ELSE Looping]
          /\ IF b.done THEN Reconcile(i) ELSE UNCHANGED reading
  /\ UNCHANGED <<srv, ui, blocked, op, coalesce, bounds>>

\* A final batch without news awaits one reconciliation inside its application ...
Applied(i) ==
  LET b == task[i].batch IN
  /\ task[i].phase = "applying" /\ reading.for # i
  /\ shown' = b.processed /\ awaiting' = FALSE
  /\ IF Current(i)
     THEN /\ task' = [task EXCEPT ![i] = Finishing]
          /\ ctrl' = [ctrl EXCEPT !.applying = FALSE, !.applied = b.applied]
          /\ Reconcile(i)
          /\ UNCHANGED op
     ELSE /\ task' = Returned(i)
          /\ ctrl' = Settled(i, [ctrl EXCEPT !.applying = FALSE, !.applied = b.applied])
          /\ op' = Woken(i)
          /\ UNCHANGED reading
  /\ UNCHANGED <<srv, ui, line, blocked, coalesce, bounds>>

\* ... and the last batch always one more; then the target is made final.
Finalize(i) ==
  /\ task[i].phase = "final" /\ reading.for # i
  /\ shown' = NLines /\ awaiting' = FALSE
  /\ Leave(i)
  /\ UNCHANGED <<srv, ui, line, blocked, coalesce, bounds>>

RunAgain(i) ==
  /\ task[i].phase = "later"
  /\ IF Current(i)
     THEN /\ task' = [task EXCEPT ![i] = Looping]
          /\ ctrl' = [ctrl EXCEPT !.promise = i]
     ELSE task' = Returned(i) /\ UNCHANGED ctrl
  /\ UNCHANGED <<srv, ui, table, reading, op, coalesce, bounds>>

-----------------------------------------------------------------------------
(* persistOpenEstimate, which a calculation, a restart and an edit share.  *)

Goes(o, phase) == [op EXCEPT ![o].phase = phase]
Waits(o, phase) == [op EXCEPT ![o].phase = phase, ![o].wait = ctrl.promise]

\* Seeded fault: the listener is not stopped.
BeginPersistListening(o) ==
  /\ op[o].phase = "queue" /\ ~Persisting
  /\ op' = Goes(o, "send")
  /\ UNCHANGED <<srv, ui, table, ctrl, task, reading, coalesce, bounds>>

\* An earlier save has ended; in table mode the listener is stopped for this one.
BeginPersist(o) ==
  /\ op[o].phase = "queue" /\ ~Persisting
  /\ IF view = "text"
     THEN op' = Goes(o, "send") /\ UNCHANGED <<ctrl, task, blocked>>
     ELSE op' = Waits(o, "send") /\ Abort /\ blocked' = TRUE
  /\ UNCHANGED <<srv, ui, line, awaiting, shown, reading, coalesce, bounds>>

SendPut(o) ==
  /\ op[o].phase = "send" /\ op[o].wait = None
  /\ op' = [op EXCEPT ![o].phase = "put", ![o].context = context]
  /\ UNCHANGED <<srv, ui, table, ctrl, task, reading, coalesce, bounds>>

HandlePut(o) ==
  /\ op[o].phase = "put"
  /\ srv' = Saved(op[o].context)
  /\ op' = [op EXCEPT ![o].phase = "saved", ![o].context = 0]
  /\ UNCHANGED <<ui, table, ctrl, task, reading, coalesce, bounds>>

\* The answer: lines in flight are reconciled, and the listener may run again.
PutDone(o) ==
  /\ op[o].phase = "saved"
  /\ IF view # "text" /\ InFlight(line) THEN Reconcile(None) ELSE UNCHANGED reading
  /\ IF view = "text" THEN UNCHANGED <<blocked, ctrl, task>>
     ELSE blocked' = FALSE /\ StartListener(ctrl, task, ShouldWait)
  /\ op' = [op EXCEPT ![o].phase = IF o = "save" THEN "idle" ELSE "start"]
  /\ UNCHANGED <<srv, ui, line, awaiting, shown, coalesce, bounds>>

-----------------------------------------------------------------------------
(* runEstimateTableCalculation and runFastEstimateCalculationRestart.      *)

HandleStart(o) ==
  /\ op[o].phase = "start"
  /\ srv' = Started(o = "restart")
  /\ op' = Goes(o, "started")
  /\ UNCHANGED <<ui, table, ctrl, task, reading, coalesce, bounds>>

CalculationStarted ==
  /\ op["calculate"].phase = "started"
  /\ blocked' = FALSE
  /\ StartListener(ctrl, task, ShouldWait /\ ~Persisting)
  /\ op' = Goes("calculate", "idle")
  /\ UNCHANGED <<srv, ui, line, awaiting, shown, reading, coalesce, bounds>>

\* A save that fails ends as one that succeeds: with a listener, if one is to run.
ListensAgain(o) == op[o].phase = "put" /\ view # "text" /\ ShouldWait

\* The save or the start failed: a message, and the listener as the flags then say.
CalculationFails ==
  /\ \/ op["calculate"].phase = "put" /\ Fault("put")
     \/ op["calculate"].phase = "start" /\ Fault("start")
  /\ awaiting' = FALSE /\ blocked' = FALSE
  /\ StartListener(ctrl, task, ListensAgain("calculate") \/ (view = "table" /\ InFlight(line)))
  /\ op' = Goes("calculate", "idle")
  /\ UNCHANGED <<srv, ui, line, shown, reading, coalesce, gestures>>

\* One pass of the loop of coalescedRestartEstimateCalculation, or a forced recalculation.
BeginRestart(pending) ==
  /\ coalesce' = pending
  /\ IF view = "text" THEN op' = Goes("restart", "idle") /\ UNCHANGED <<ctrl, task>>
     ELSE op' = Waits("restart", "abort") /\ Abort

ResetForRestart ==
  /\ op["restart"].phase = "abort" /\ op["restart"].wait = None
  /\ ResetLines(FALSE)
  /\ ctrl' = [ctrl EXCEPT !.applied = 0, !.gen = 0]
  /\ op' = Goes("restart", "queue")
  /\ UNCHANGED <<srv, ui, reading, coalesce, bounds>>

\* A listener is run here without stopping the one the save has started.
RestartStarted ==
  /\ op["restart"].phase = "started"
  /\ blocked' = FALSE
  /\ Launch([ctrl EXCEPT !.applied = 0, !.gen = srv.gen], task)
  /\ Reconcile("restart")
  /\ op' = Goes("restart", "status")
  /\ UNCHANGED <<srv, ui, line, awaiting, shown, coalesce, bounds>>

RestartFails ==
  /\ \/ op["restart"].phase = "put" /\ Fault("put")
     \/ op["restart"].phase = "start" /\ Fault("start")
  /\ blocked' = FALSE
  /\ StartListener(ctrl, task, ListensAgain("restart"))
  /\ Reconcile("restart")
  /\ op' = Goes("restart", "failed")
  /\ UNCHANGED <<srv, ui, line, awaiting, shown, coalesce, gestures>>

AfterFailure ==
  /\ op["restart"].phase = "failed" /\ reading.for # "restart"
  /\ awaiting' = InFlight(line)
  /\ IF ctrl.promise = None THEN Launch(ctrl, task) ELSE UNCHANGED <<ctrl, task>>
  /\ op' = Goes("restart", "idle")
  /\ UNCHANGED <<srv, ui, line, blocked, shown, reading, coalesce, bounds>>

\* Seeded fault: a change during the restart is not looked at again.
EndRestartOnce ==
  /\ op["restart"].phase = "status" /\ reading.for # "restart"
  /\ op' = Goes("restart", "idle")
  /\ UNCHANGED <<srv, ui, table, ctrl, task, reading, coalesce, bounds>>

EndRestart ==
  /\ op["restart"].phase = "status" /\ reading.for # "restart"
  /\ IF coalesce.pending THEN BeginRestart([coalesce EXCEPT !.pending = FALSE])
     ELSE op' = Goes("restart", "idle") /\ UNCHANGED <<ctrl, task, coalesce>>
  /\ UNCHANGED <<srv, ui, table, reading, bounds>>

\* Seeded fault: a timer that finds a restart at work leaves it at that.
TimerFiresIfIdle ==
  /\ coalesce.timer
  /\ IF op["restart"].phase = "idle"
     THEN BeginRestart([timer |-> FALSE, pending |-> FALSE])
     ELSE coalesce' = [timer |-> FALSE, pending |-> FALSE] /\ UNCHANGED <<op, ctrl, task>>
  /\ UNCHANGED <<srv, ui, table, reading, bounds>>

\* 200 ms after the last change.
TimerFires ==
  /\ coalesce.timer
  /\ IF op["restart"].phase = "idle"
     THEN BeginRestart([timer |-> FALSE, pending |-> FALSE])
     ELSE coalesce' = [timer |-> FALSE, pending |-> TRUE] /\ UNCHANGED <<op, ctrl, task>>
  /\ UNCHANGED <<srv, ui, table, reading, bounds>>

-----------------------------------------------------------------------------
(* What the user does.                                                     *)

Gesture(kind) == kind \in Gestures /\ gestures < MaxGestures /\ gestures' = gestures + 1

\* setEstimateViewMode(table): results come from the server, the rest is calculated.
ToTable ==
  LET done == \A l \in Lines : srv.line[l].status = "done" IN
  /\ view = "text" /\ op["calculate"].phase = "idle" /\ op["text"].phase = "idle"
  /\ Gesture("calculate")
  /\ view' = "table"
  /\ line' = [l \in Lines |-> IF srv.line[l].status = "done" THEN srv.line[l] ELSE Queued]
  /\ awaiting' = ~done /\ task' = Outdated
  /\ IF done THEN shown' = NLines /\ UNCHANGED <<blocked, ctrl, op>>
     ELSE /\ shown' = 0 /\ blocked' = TRUE
          /\ ctrl' = [ctrl EXCEPT !.applied = 0, !.gen = 0]
          /\ op' = Goes("calculate", "queue")
  /\ UNCHANGED <<srv, context, reading, coalesce, faults>>

ChangeContext ==
  /\ view = "table" /\ Gesture("context")
  /\ context' = context + 1
  /\ coalesce' = [timer |-> TRUE, pending |-> TRUE]
  /\ UNCHANGED <<srv, view, table, ctrl, task, reading, op, faults>>

Recalculate ==
  /\ view = "table" /\ op["restart"].phase = "idle" /\ Gesture("recalculate")
  /\ BeginRestart(coalesce)
  /\ UNCHANGED <<srv, ui, table, reading, faults>>

Save ==
  /\ op["save"].phase = "idle" /\ Gesture("save")
  /\ op' = Goes("save", "queue")
  /\ UNCHANGED <<srv, ui, table, ctrl, task, reading, coalesce, faults>>

\* Seeded fault: coming back shows the table and goes on as if nothing was missing.
SynchronizeNothing == UNCHANGED <<ctrl, task, reading>>

\* renderEditor ends with syncEstimateCalcStatusPolling.
Synchronize ==
  IF Persisting \/ blocked THEN UNCHANGED <<ctrl, task, reading>>
  ELSE /\ IF InFlight(line) THEN Reconcile(None) ELSE UNCHANGED reading
       /\ StartListener(ctrl, task, ShouldWait)

Render ==
  /\ view = "table" /\ Gesture("render")
  /\ Synchronize
  /\ UNCHANGED <<srv, ui, table, op, coalesce, faults>>

GoAway ==
  /\ view = "table" /\ op["text"].phase = "idle" /\ Gesture("away")
  /\ view' = "away"
  /\ UNCHANGED <<srv, context, table, ctrl, task, reading, op, coalesce, faults>>

ComeBack ==
  /\ view = "away"
  /\ view' = "table"
  /\ Synchronize
  /\ UNCHANGED <<srv, context, table, op, coalesce, bounds>>

\* setEstimateViewMode(text): cancelAndStopEstimateCalc, then the other mode.
ToText ==
  /\ view = "table" /\ op["text"].phase = "idle" /\ Gesture("text")
  /\ op' = Waits("text", "cancel") /\ Abort
  /\ UNCHANGED <<srv, ui, table, reading, coalesce, faults>>

CancelCalculation ==
  /\ op["text"].phase = "cancel" /\ op["text"].wait = None
  /\ srv' = Cancelled
  /\ op' = Goes("text", "cancelled")
  /\ UNCHANGED <<ui, table, ctrl, task, reading, coalesce, bounds>>

ShowText ==
  /\ op["text"].phase = "cancelled"
  /\ view' = "text"
  /\ ctrl' = Aborted([ctrl EXCEPT !.applied = 0, !.gen = srv.gen]) /\ task' = Disowned(task)
  /\ op' = Goes("text", "idle")
  /\ UNCHANGED <<srv, context, table, reading, coalesce, bounds>>

-----------------------------------------------------------------------------
ReadStep == AnswerStatus \/ ApplyStatuses \/ StatusFails

ServerStep == Enqueue \/ \E l \in Lines, verdict \in Verdicts : Calculate(l, verdict)

\* Whoever awaits a read that is over goes on: nothing of the page comes between.
Awaits ==
  \/ \E i \in Listeners : task[i].phase \in {"applying", "final"}
  \/ op["restart"].phase \in {"status", "failed"}

GoOn == (\E i \in Listeners : Applied(i) \/ Finalize(i)) \/ AfterFailure \/ EndRestart

ListenerTurn(i) ==
  Check(i) \/ AnswerBatch(i) \/ FetchAborted(i) \/ BatchFails(i) \/ Deliver(i) \/ RunAgain(i)

OpTurn ==
  \/ \E o \in Ops : BeginPersist(o) \/ SendPut(o) \/ HandlePut(o) \/ PutDone(o) \/ HandleStart(o)
  \/ CalculationStarted \/ CalculationFails
  \/ ResetForRestart \/ RestartStarted \/ RestartFails \/ TimerFires
  \/ CancelCalculation \/ ShowText

UserStep ==
  ToTable \/ ChangeContext \/ Recalculate \/ Save \/ Render \/ GoAway \/ ComeBack \/ ToText

Next ==
  \/ ReadStep
  \/ /\ PromptStatus => reading.phase = "none"
     /\ GoOn
  \/ /\ PromptStatus => reading.phase = "none" /\ ~Awaits
     /\ ServerStep \/ OpTurn \/ UserStep \/ \E i \in Listeners : ListenerTurn(i)

Spec == Init /\ [][Next]_vars

-----------------------------------------------------------------------------
(* Properties.                                                             *)

LineType == [status : Status, price : {None} \cup 0 .. MaxGestures]
TaskPhases == {"idle", "check", "fetch", "answer", "applying", "final", "later"}
OpPhases == {"idle", "abort", "queue", "send", "put", "saved", "start", "started", "status", "failed",
             "cancel", "cancelled"}

\* Types; the cursor of the batches never passes the last line, on either side
\* (buildEstimateCalcBatchResponse, applyEstimateCalcBatchResponse).
TypeOK ==
  /\ srv.line \in [Lines -> LineType] /\ line \in [Lines -> LineType]
  /\ srv.gen \in Nat /\ srv.context \in 0 .. context /\ srv.at \in 0 .. context /\ srv.enqueue \in BOOLEAN
  /\ view \in {"table", "text", "away"} /\ shown \in 0 .. NLines
  /\ {awaiting, blocked, ctrl.stopped, ctrl.applying, coalesce.timer, coalesce.pending} \subseteq BOOLEAN
  /\ ctrl.applied \in 0 .. NLines /\ ctrl.gen \in 0 .. srv.gen /\ ctrl.promise \in Listeners \cup {None}
  /\ \A i \in Listeners : /\ task[i].phase \in TaskPhases
                          /\ task[i].batch.applied \in 0 .. NLines
  /\ \A o \in Ops : op[o].phase \in OpPhases /\ op[o].wait \in Listeners \cup {None}

Listening(i) == Alive(i) /\ Current(i) /\ task[i].phase # "later"
Quiet == (\A o \in Ops : op[o].phase = "idle") /\ reading.phase = "none" /\ ~coalesce.timer
NobodyListens == \A i \in Listeners : ~Alive(i)

\* Never do two tasks that belong to the current session ask for batches
\* (startEstimateCalcBatchListener aborts before it runs a new one).
OneListener == \A i, j \in Listeners : Listening(i) /\ Listening(j) => i = j

\* While the calculation's PUT is on its way no current listener asks for batches or
\* holds one: persistOpenEstimate has aborted it and awaited its end.
SaveStopsListening ==
  \A i \in Listeners, o \in Ops :
    op[o].phase = "put" /\ view = "table" => ~(Current(i) /\ task[i].phase \in {"fetch", "answer"})

\* A batch asked for before the lines were reset is not applied to them afterwards:
\* switching to text and calculating again does not bring back old answers.
BatchesStayInTheirCalculation ==
  [][\A i \in Listeners :
       task[i].phase = "answer" /\ task'[i].phase # "answer" /\ line' # line => ~task[i].outdated]_vars

\* As long as nothing was cancelled or restarted (the first generation) and no more than one
\* request has failed, whichever it was and whatever the user opens meanwhile: once nothing is
\* under way and nobody listens, no line of the table is still in flight.
NotStranded ==
  Quiet /\ NobodyListens /\ view = "table" /\ srv.gen = 1 /\ faults <= 1 => ~InFlight(line)

\* Once all is quiet, no price in the table is of another district or FGIS set than
\* the one chosen, however the changes and the restarts overlapped.
FreshPrices == Quiet /\ NobodyListens /\ view = "table" => \A l \in Lines : line[l].price \in {None, context}

\* Once all is quiet the server has the last choice: a change made during a restart
\* is not forgotten (coalescedRestartEstimateCalculation).
ContextSaved == Quiet /\ view = "table" => srv.context = context

\* Saves, starts, restarts and the way back to text always end, although they wait
\* for each other and for the listener they have aborted.
OperationsEnd == []<>(\A o \in Ops : op[o].phase = "idle")

ListenerStep(i) == ListenerTurn(i) \/ Applied(i) \/ Finalize(i)
OpStep == OpTurn \/ AfterFailure \/ EndRestart

\* The browser runs every task and callback, and every request is answered or fails.
Fairness ==
  /\ WF_vars(Enqueue) /\ \A l \in Lines : WF_vars(\E verdict \in Verdicts : Calculate(l, verdict))
  /\ WF_vars(AnswerStatus) /\ WF_vars(ApplyStatuses)
  /\ \A i \in Listeners : WF_vars(ListenerStep(i))
  /\ WF_vars(OpStep) /\ WF_vars(ComeBack)

FairSpec == Spec /\ Fairness
=============================================================================
