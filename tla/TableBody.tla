----------------------------- MODULE TableBody ------------------------------
(***************************************************************************)
(* The rows of the estimate table as web/app.js draws them: a long body is *)
(* put in piece by piece in animation frames, the results of a calculation *)
(* redraw only the rows in view, and a table whose header is being edited  *)
(* is drawn again when the field is left.  What the lines say comes from   *)
(* elsewhere; here is whether the rows on the screen say the same.         *)
(***************************************************************************)
EXTENDS Integers, SequencesExt, Functions

CONSTANTS
  OpenedLines,  \* the lines an estimate may have, by their ids
  Threshold,    \* LARGE_ESTIMATE_CALC_LINE_THRESHOLD
  Chunk,        \* rows put in at a time
  Window,       \* rows in view
  MaxRounds,    \* bound: calculations
  Doings,       \* what the user does
  MaxDoings,    \* bound: how often
  MaxFailures   \* bound: saves that fail

ASSUME ThresholdAssumption == Threshold \in Nat /\ Chunk \in Nat \ {0} /\ Window \in Nat \ {0}
LineIds == UNION {{ids[k] : k \in 1..Len(ids)} : ids \in OpenedLines}

\* What the server opens are lines with distinct ids.
ASSUME OpenedLinesAssumption == \A ids \in OpenedLines : ids \in Seq(LineIds) /\ IsInjective(ids)
ASSUME DoingsAssumption == Doings \subseteq {"edit", "scroll", "header", "render", "leave"}

VARIABLES
  items,    \* estimate.items: the line, and the calculation whose result it shows (0: none)
  estimate, \* largeEstimate of its progress target, and the last calculation
  body,     \* the rows drawn, editorTableBodyReady, how far it is scrolled
  onScreen, \* whether the table is the section shown
  frames,   \* the callbacks requestAnimationFrame has been given
  pending,  \* estimateTableRowRefreshPendingIds
  header,   \* a field is active, the timer of its focusout, pendingEditorRemountEstimateId
  saving,   \* changes of the lines whose save is awaited
  stale,    \* history: a save failed after the rows were changed, and no drawing since
  doings, failures

bodyVars ==
  <<items, estimate, body, onScreen, frames, pending, header, saving, stale, doings, failures>>

Doing(kind) == kind \in Doings /\ doings < MaxDoings /\ doings' = doings + 1
Fewer(m, n) == IF m < n THEN m ELSE n

Ids(lines) == [k \in 1..Len(lines) |-> lines[k].id]
InFlightIds == {items[k].id : k \in {j \in 1..Len(items) : items[j].round = 0}}
InProgress == InFlightIds # {}
Complete(b) == Len(b.rows) >= Len(items)

Step(from) == [kind |-> "step", from |-> from, live |-> TRUE]
Frame(kind) == [kind |-> kind, from |-> 0, live |-> TRUE]
Scheduled(kind) == \E i \in 1..Len(frames) : frames[i].kind = kind

-----------------------------------------------------------------------------
(* Drawing the body.                                                       *)

\* cancelEditorTableBodyRender: the steps under way have the old token.
Cancelled(fs) ==
  [i \in 1..Len(fs) |-> IF fs[i].kind = "step" THEN [fs[i] EXCEPT !.live = FALSE] ELSE fs[i]]

\* mountEditorTableBody: the rows at once, or none and the first step.
Mounted(b, lines) ==
  IF Len(lines) <= Threshold THEN [b EXCEPT !.rows = lines, !.ready = TRUE]
  ELSE [b EXCEPT !.rows = <<>>, !.ready = FALSE, !.top = 0]
MountFrames(fs, lines) ==
  IF Len(lines) <= Threshold THEN Cancelled(fs) ELSE Append(Cancelled(fs), Step(0))

\* updateEditorTableContent with refreshBody; a body emptied is scrolled to its top.
Redraw(lines) ==
  /\ body' = Mounted(body, lines)
  /\ frames' = MountFrames(frames, lines)
  /\ stale' = FALSE

\* mountEditorContent: a new table, mounted, and once more as it is not complete.
MountContent(force) ==
  IF ~force /\ header.active
  THEN header' = [header EXCEPT !.remount = TRUE] /\ UNCHANGED <<body, frames, stale>>
  ELSE /\ header' = [header EXCEPT !.remount = FALSE, !.active = FALSE]
       /\ body' = Mounted([body EXCEPT !.top = 0], items)
       /\ frames' = MountFrames(MountFrames(frames, items), items)
       /\ stale' = FALSE

InView(b) == {k \in 1..Len(b.rows) : k \in b.top + 1 .. b.top + Window}

\* The rows at some places say again what the lines of their ids say.
Refreshed(b, places, lines) ==
  [b EXCEPT !.rows = [k \in 1..Len(b.rows) |->
     LET same == {j \in 1..Len(lines) : lines[j].id = b.rows[k].id}
     IN IF k \in places /\ same # {} THEN lines[Max(same)] ELSE b.rows[k]]]

\* refreshEstimateTableRowsByIds
RefreshedIds(b, ids, lines) == Refreshed(b, {k \in InView(b) : b.rows[k].id \in ids}, lines)

\* refreshAllRenderedEstimateTableRows
RefreshedAll(b, lines) == Refreshed(b, 1..Len(b.rows), lines)

\* refreshVisibleEstimateTableRows: those in view whose line is done.
RefreshedVisible(b) ==
  LET done == {items[k].id : k \in {j \in 1..Len(items) : items[j].round # 0}}
  IN Refreshed(b, {k \in InView(b) : b.rows[k].id \in done}, items)

\* Seeded fault: a step does not look whether it is still wanted.
DrawnRegardless(f) ==
  LET to == Fewer(f.from + Chunk, Len(items))
      html == SubSeq(items, f.from + 1, to)
  IN /\ body' = [body EXCEPT !.rows = IF f.from = 0 THEN html ELSE @ \o html, !.ready = to >= Len(items)]
     /\ frames' = IF to < Len(items) THEN Append(Tail(frames), Step(to)) ELSE Tail(frames)

\* "step" of mountEditorTableBody.
Drawn(f) ==
  LET to == Fewer(f.from + Chunk, Len(items))
      html == SubSeq(items, f.from + 1, to)
  IN IF ~f.live THEN frames' = Tail(frames) /\ UNCHANGED body
     ELSE /\ body' = [body EXCEPT !.rows = IF f.from = 0 THEN html ELSE @ \o html, !.ready = to >= Len(items)]
          /\ frames' = IF to < Len(items) THEN Append(Tail(frames), Step(to)) ELSE Tail(frames)

\* The browser runs the callbacks in their order; nothing of the table happens off the screen,
\* but for its steps.
RunFrame ==
  /\ frames # <<>>
  /\ LET f == Head(frames) IN
     CASE f.kind = "step" -> Drawn(f) /\ UNCHANGED pending
       [] f.kind = "refresh" -> /\ body' = IF onScreen THEN RefreshedIds(body, pending, items) ELSE body
                                /\ pending' = {} /\ frames' = Tail(frames)
       [] OTHER -> /\ body' = IF onScreen THEN RefreshedVisible(body) ELSE body
                   /\ frames' = Tail(frames) /\ UNCHANGED pending
  /\ UNCHANGED <<items, estimate, onScreen, header, saving, stale, doings, failures>>

-----------------------------------------------------------------------------
(* The calculation.                                                        *)

BodyInit ==
  /\ \E ids \in OpenedLines :
       /\ items = [k \in 1..Len(ids) |-> [id |-> ids[k], round |-> 0]]
       /\ estimate \in [large : {FALSE, Len(ids) > Threshold}, round : {1}]
       /\ body = Mounted([rows |-> <<>>, ready |-> FALSE, top |-> 0], items)
       /\ frames = MountFrames(<<>>, items)
  /\ onScreen = TRUE /\ pending = {} /\ saving = 0 /\ stale = FALSE
  /\ header = [active |-> FALSE, timer |-> FALSE, remount |-> FALSE]
  /\ doings = 0 /\ failures = 0

WithResults(ids) ==
  [k \in 1..Len(items) |-> IF items[k].id \in ids THEN [items[k] EXCEPT !.round = estimate.round] ELSE items[k]]

\* scheduleEstimateTableRowRefresh
WithRefresh == IF Scheduled("refresh") THEN frames ELSE Append(frames, Frame("refresh"))

\* The table after a batch that is not the last one: the rows in view, of a large estimate in
\* the next frame.
AfterBatch(ids, lines) ==
  IF estimate.large
  THEN pending' = pending \cup ids /\ frames' = WithRefresh /\ UNCHANGED body
  ELSE body' = RefreshedIds(body, ids, lines) /\ UNCHANGED <<frames, pending>>

\* applyEstimateCalcBatchResponse: the last batch, and one that leaves no line to calculate is
\* the last, draws the whole body again. The long poll does not run during a save.
DeliverBatch(ids) ==
  /\ saving = 0
  /\ items' = WithResults(ids)
  /\ \E done \in {TRUE, InFlightIds = ids} :
       IF ~onScreen THEN UNCHANGED <<body, frames, pending, stale>>
       ELSE IF ~done THEN AfterBatch(ids, items') /\ UNCHANGED stale
       ELSE /\ body' = Mounted(body, items') /\ stale' = FALSE
            /\ frames' = MountFrames(IF estimate.large THEN WithRefresh ELSE frames, items')
            /\ pending' = IF estimate.large THEN pending \cup ids ELSE pending
  /\ UNCHANGED <<estimate, onScreen, header, saving, doings, failures>>

\* reconcileEstimateCalcStatusesFromServer
Report(ids) ==
  /\ items' = WithResults(ids)
  /\ IF ~onScreen THEN UNCHANGED <<body, frames, stale>>
     ELSE IF estimate.large THEN Redraw(items')
     ELSE body' = RefreshedAll(body, items') /\ UNCHANGED <<frames, stale>>
  /\ UNCHANGED <<estimate, onScreen, pending, header, saving, doings, failures>>

\* The lines are calculated anew: restartEstimateTableCalculation and
\* syncEstimateCalcDisplayAfterReset.
Reset ==
  /\ onScreen /\ estimate.round < MaxRounds
  /\ items' = [k \in 1..Len(items) |-> [items[k] EXCEPT !.round = 0]]
  /\ \E large \in {FALSE, Len(items) > Threshold} :
       /\ estimate' = [large |-> large, round |-> estimate.round + 1]
       /\ IF large THEN body' = RefreshedAll(body, items') /\ UNCHANGED <<frames, stale>>
          ELSE Redraw(items')
  /\ UNCHANGED <<onScreen, pending, header, saving, doings, failures>>

-----------------------------------------------------------------------------
(* The user.                                                               *)

\* A row in view is deleted or moved down; the body takes no click while it is being drawn.
EditLines ==
  /\ onScreen /\ body.ready /\ Doing("edit")
  /\ \E k \in InView(body) :
       \E j \in {n \in 1..Len(items) : items[n].id = body.rows[k].id} :
         \/ items' = RemoveAt(items, j)
         \/ j < Len(items) /\ items' = [items EXCEPT ![j] = items[j + 1], ![j + 1] = items[j]]
  /\ saving' = saving + 1
  /\ UNCHANGED <<estimate, body, onScreen, frames, pending, header, stale, failures>>

\* deleteEstimateLine and moveEstimateLine after their await.
EditSaved ==
  /\ saving > 0
  /\ saving' = saving - 1
  /\ MountContent(FALSE)
  /\ UNCHANGED <<items, estimate, onScreen, pending, doings, failures>>

\* persistOpenEstimate throws, and nothing draws the table.
EditFails ==
  /\ saving > 0 /\ failures < MaxFailures
  /\ saving' = saving - 1 /\ failures' = failures + 1
  /\ stale' = TRUE
  /\ UNCHANGED <<items, estimate, body, onScreen, frames, pending, header, doings>>

\* The scroll handler: an incomplete body is begun again, and the rows in view are refreshed
\* in the next frame while the calculation lasts.
Scroll ==
  /\ onScreen /\ Doing("scroll")
  /\ \E top \in 0..Len(body.rows) :
       LET moved == [body EXCEPT !.top = top]
           again == ~Complete(body)
           drawn == IF again THEN MountFrames(frames, items) ELSE frames
       IN /\ body' = IF again THEN Mounted(moved, items) ELSE [moved EXCEPT !.ready = TRUE]
          /\ frames' = IF InProgress /\ ~Scheduled("visible") THEN Append(drawn, Frame("visible")) ELSE drawn
  /\ UNCHANGED <<items, estimate, onScreen, pending, header, saving, stale, failures>>

Focus ==
  /\ onScreen /\ ~header.active /\ Doing("header")
  /\ header' = [header EXCEPT !.active = TRUE]
  /\ UNCHANGED <<items, estimate, body, onScreen, frames, pending, saving, stale, failures>>

Blur ==
  /\ header.active
  /\ header' = [header EXCEPT !.active = FALSE, !.timer = TRUE]
  /\ UNCHANGED <<items, estimate, body, onScreen, frames, pending, saving, stale, doings, failures>>

\* Seeded fault: a drawing that was put off is forgotten.
FlushNothing ==
  /\ header.timer
  /\ header' = [header EXCEPT !.timer = FALSE, !.remount = FALSE]
  /\ UNCHANGED <<items, estimate, body, onScreen, frames, pending, saving, stale, doings, failures>>

\* flushPendingEditorRemount, from the timer of focusout.
Flush ==
  /\ header.timer
  /\ IF ~header.remount \/ header.active
     THEN header' = [header EXCEPT !.timer = FALSE] /\ UNCHANGED <<body, frames, stale>>
     ELSE /\ header' = [header EXCEPT !.timer = FALSE, !.remount = FALSE]
          /\ IF onScreen
             THEN /\ body' = Mounted([body EXCEPT !.top = 0], items)
                  /\ frames' = MountFrames(MountFrames(frames, items), items)
                  /\ stale' = FALSE
             ELSE UNCHANGED <<body, frames, stale>>
  /\ UNCHANGED <<items, estimate, onScreen, pending, saving, doings, failures>>

\* Anything else that ends in renderEditor: a line added, a resource list opened.
Render ==
  /\ onScreen /\ Doing("render")
  /\ MountContent(FALSE)
  /\ UNCHANGED <<items, estimate, onScreen, pending, saving, failures>>

\* Another section, and back; a hidden header is not active.
LeaveTable ==
  /\ onScreen /\ ~header.active /\ Doing("leave")
  /\ onScreen' = FALSE
  /\ UNCHANGED <<items, estimate, body, frames, pending, header, saving, stale, failures>>

ComeBack ==
  /\ ~onScreen
  /\ onScreen' = TRUE
  /\ MountContent(FALSE)
  /\ UNCHANGED <<items, estimate, pending, saving, doings, failures>>

BodyNext ==
  \/ RunFrame \/ Reset
  \/ \E ids \in (SUBSET InFlightIds) \ {{}} : DeliverBatch(ids) \/ Report(ids)
  \/ EditLines \/ EditSaved \/ EditFails \/ Scroll
  \/ Focus \/ Blur \/ Flush \/ Render \/ LeaveTable \/ ComeBack

BodySpec == BodyInit /\ [][BodyNext]_bodyVars

-----------------------------------------------------------------------------
(* Properties.                                                             *)

\* No line is drawn twice, however often the drawing is begun again, and a body that takes
\* clicks is not being drawn.
RowsAreDrawnOnce ==
  /\ IsInjective(Ids(body.rows))
  /\ body.ready => \A i \in 1..Len(frames) : frames[i].kind = "step" => ~frames[i].live

RowsAtRest == frames = <<>> /\ ~header.timer /\ ~header.remount /\ saving = 0 /\ onScreen /\ ~stale

\* Once the callbacks have run, no save is awaited and no field of the header keeps the table as
\* it was, the table has every line in its place, the rows in view say what the lines say, and
\* all do once the calculation is over -- unless the save of a changed table failed.
RowsSayWhatLinesSay ==
  RowsAtRest =>
    /\ body.ready /\ Ids(body.rows) = Ids(items)
    /\ \A k \in 1..Len(items) : k \in InView(body) \/ ~InProgress => body.rows[k] = items[k]
=============================================================================
