-------------------------- MODULE ConstructionTree --------------------------
(***************************************************************************)
(* The page's tree of constructions, objects and estimates (web/app.js):   *)
(* it is read from the server in three lists, its nodes are added and      *)
(* removed, and the estimates under a node are recalculated or cleared     *)
(* together.  Each gesture is a task of the page that goes on, call by     *)
(* call, beside the others.  A calculation is the server's; here it is     *)
(* starting, running and done, as its summary reports it.                  *)
(***************************************************************************)
EXTENDS Integers, SequencesExt, FiniteSets

CONSTANTS
  Constructions, Objects, Estimates, \* all the nodes there may be
  Above,        \* the node each object and each estimate is under
  Trees,        \* the sets of nodes the server may have at first
  Gestures,     \* what the user does
  MaxTasks,     \* bound: gestures
  MaxSummaries, \* bound: rounds of summaries of one recalculation
  Mishaps,      \* "late": lists answered out of order; "rush": a change before the last one
                \* is through; "unpublished": events of an earlier start are unpublished yet
  Unread

ASSUME AboveAssumption ==
  /\ Above \in [Objects \cup Estimates -> Constructions \cup Objects]
  /\ \A o \in Objects : Above[o] \in Constructions
  /\ \A e \in Estimates : Above[e] \in Objects
ASSUME KindsAreApart ==
  Constructions \cap Objects = {} /\ Constructions \cap Estimates = {} /\ Objects \cap Estimates = {}
ASSUME TreesAssumption == Trees \subseteq SUBSET (Constructions \cup Objects \cup Estimates)
ASSUME MishapsAssumption == Mishaps \subseteq {"late", "rush", "unpublished"}

VARIABLES
  nodesStored,  \* the server's nodes
  calcState,    \* estimate_calc_state: generation, status, and the generation its total is of
  tree,    \* state.constructions, objects and estimates: the nodes, the estimates' totals
  busy,    \* the keys of state.treeCalcProgress
  opened,  \* state.openEstimates
  tasks,   \* the gestures so far, each with what is left of it
  asked    \* how often the lists have been asked for

treeVars == <<nodesStored, calcState, tree, busy, opened, tasks, asked>>

Nodes == Constructions \cup Objects \cup Estimates
\* Lists answered at one moment: constructions with objects, and estimates.
Lists == [upper |-> Constructions \cup Objects, estimates |-> Estimates]
TaskIds == 1..Len(tasks)

\* collectEstimateIdsForScope
EstimatesUnder(node, nodes) ==
  {e \in Estimates \cap nodes : node = e \/ node = Above[e] \/ (Above[e] \in nodes /\ node = Above[Above[e]])}
Placed(node, nodes) == IF node \in Constructions THEN TRUE ELSE Above[node] \in nodes
\* what goes when the server deletes a node
Cascade(node) == {node} \cup {n \in Objects \cup Estimates : Above[n] = node}
                        \cup {e \in Estimates : Above[Above[e]] = node}

Reads == [list \in DOMAIN Lists |-> Unread]
Task(kind, node, ids, at) ==
  [kind |-> kind, node |-> node, ids |-> ids, left |-> ids, at |-> at, finished |-> {}, round |-> 1,
   started |-> [e \in ids |-> 0], complete |-> FALSE, reads |-> Reads, totals |-> Unread, since |-> 0]

Changes == {"add", "create", "clear", "delete"}
AtWork(t) == tasks[t].at # "end"
Waits(kind) ==
  kind \in Changes /\ "rush" \notin Mishaps /\ \E t \in TaskIds : AtWork(t) /\ tasks[t].kind \in Changes

Begin(task) ==
  /\ task.kind \in Gestures /\ Len(tasks) < MaxTasks /\ ~Waits(task.kind)
  /\ tasks' = Append(tasks, task)

\* refreshConstructionData asks for the lists at once.
Refreshing == {t \in TaskIds : tasks[t].at = "refresh"}
AskLists(task) == [task EXCEPT !.at = "refresh", !.reads = Reads, !.since = asked + 1]
Continue(t, task) == tasks' = [tasks EXCEPT ![t] = task]
\* What a task has found is forgotten at its end, its calls under way are not.
Ended(task) == [Task(task.kind, Unread, {}, "end") EXCEPT !.left = task.left, !.started = <<>>]

-----------------------------------------------------------------------------
(* Reading the tree.                                                       *)

TreeInit ==
  /\ nodesStored \in Trees
  /\ calcState = [e \in Estimates |-> IF e \in nodesStored THEN [gen |-> 1, status |-> "done", total |-> 1]
                                 ELSE [gen |-> 0, status |-> "", total |-> 0]]
  /\ tree = [nodes |-> nodesStored, totals |-> [e \in Estimates |-> calcState[e].total]]
  /\ busy = {} /\ opened \in {{}, Estimates \cap nodesStored} /\ tasks = <<>> /\ asked = 0

\* The section "Стройки" is opened.
OpenSection ==
  /\ Begin(AskLists(Task("look", Unread, {}, "")))
  /\ asked' = asked + 1
  /\ UNCHANGED <<nodesStored, calcState, tree, busy, opened>>

TotalOf(c) == IF c.status = "done" THEN c.total ELSE 0

\* The server answers one of the reads.
AnswerList(t, list) ==
  /\ tasks[t].at = "refresh" /\ tasks[t].reads[list] = Unread
  /\ Continue(t, [tasks[t] EXCEPT
       !.reads[list] = nodesStored \cap Lists[list],
       !.totals = IF list = "estimates" THEN [e \in Estimates |-> TotalOf(calcState[e])] ELSE @])
  /\ UNCHANGED <<nodesStored, calcState, tree, busy, opened, asked>>

\* Seeded fault: the open estimates are compared before the lists are read again.
PrunedBefore(nodes) == opened \cap tree.nodes

\* pruneOpenEstimates
Pruned(nodes) == opened \cap nodes

\* The answers are taken over together; what the task does then.
TakeLists(t) ==
  LET task == tasks[t]
      nodes == UNION {task.reads[list] : list \in DOMAIN Lists}
  IN
  /\ task.at = "refresh" /\ \A list \in DOMAIN Lists : task.reads[list] # Unread
  /\ "late" \in Mishaps \/ \A u \in Refreshing : tasks[u].since >= task.since
  /\ tree' = [nodes |-> nodes, totals |-> task.totals]
  /\ CASE task.kind = "delete" /\ task.node \notin Estimates ->
            opened' = Pruned(nodes) /\ Continue(t, Ended(task))
       [] task.kind = "create" /\ task.round = 1 ->
            Continue(t, [task EXCEPT !.at = "post", !.round = 2]) /\ UNCHANGED opened
       [] task.kind = "create" /\ task.round = 2 ->
            opened' = opened \cup {task.node} /\ Continue(t, Ended(task))
       [] OTHER -> Continue(t, Ended(task)) /\ UNCHANGED opened
  /\ UNCHANGED <<nodesStored, calcState, busy, asked>>

-----------------------------------------------------------------------------
(* Adding and removing nodes.                                              *)

\* openConstructionDialog, saveConstructionDialog: a node below one that is shown.
AddNode(node) ==
  /\ Placed(node, tree.nodes)
  /\ Begin(Task("add", node, {}, "post"))
  /\ UNCHANGED <<nodesStored, calcState, tree, busy, opened, asked>>

\* createEditorEstimate reads the tree first.
CreateEstimate(e) ==
  /\ e \in Estimates /\ Above[e] \in tree.nodes
  /\ Begin(AskLists(Task("create", e, {}, "")))
  /\ asked' = asked + 1
  /\ UNCHANGED <<nodesStored, calcState, tree, busy, opened>>

\* The POST is refused when the node above is gone; then nothing is read again.
PostNode(t) ==
  LET task == tasks[t] IN
  /\ task.at = "post" /\ task.kind \in {"add", "create"}
  /\ IF task.node \notin nodesStored /\ Placed(task.node, nodesStored)
     THEN nodesStored' = nodesStored \cup {task.node} /\ Continue(t, [task EXCEPT !.at = "answer"])
     ELSE Continue(t, Ended(task)) /\ UNCHANGED nodesStored
  /\ UNCHANGED <<calcState, tree, busy, opened, asked>>

\* deleteConstructionEntity, deleteEstimateFromEditor
AskDelete(node) ==
  /\ node \in tree.nodes \cup opened
  /\ Begin(Task("delete", node, {}, "post"))
  /\ UNCHANGED <<nodesStored, calcState, tree, busy, opened, asked>>

PostDelete(t) ==
  LET task == tasks[t] IN
  /\ task.at = "post" /\ task.kind = "delete"
  /\ IF task.node \in nodesStored
     THEN /\ nodesStored' = nodesStored \ Cascade(task.node)
          /\ Continue(t, [task EXCEPT !.at = "answer"])
     ELSE Continue(t, Ended(task)) /\ UNCHANGED nodesStored
  /\ UNCHANGED <<calcState, tree, busy, opened, asked>>

\* The change is confirmed: the tree is read again; removeEstimatePermanently closes the
\* estimate before.
AfterChange(t) ==
  /\ tasks[t].at = "answer"
  /\ opened' = IF tasks[t].kind = "delete" THEN opened \ {tasks[t].node} ELSE opened
  /\ Continue(t, AskLists(tasks[t]))
  /\ asked' = asked + 1
  /\ UNCHANGED <<nodesStored, calcState, tree, busy>>

-----------------------------------------------------------------------------
(* Recalculating and clearing the estimates under a node.                  *)

RecalculateScope(node) ==
  /\ node \notin busy /\ node \in tree.nodes /\ EstimatesUnder(node, tree.nodes) # {}
  /\ Begin(Task("recalculate", node, EstimatesUnder(node, tree.nodes), "start"))
  /\ busy' = busy \cup {node}
  /\ UNCHANGED <<nodesStored, calcState, tree, opened, asked>>

\* The catch of recalculateConstructionScope.
Abandon(t) == busy' = busy \ {tasks[t].node} /\ Continue(t, Ended([tasks[t] EXCEPT !.left = {}]))

\* POST calc?force=1, all at once; one refused ends the recalculation, the others are answered
\* all the same.
PostStart(t, e) ==
  LET task == tasks[t]
      left == task.left \ {e}
  IN
  /\ task.kind = "recalculate" /\ e \in task.left /\ task.at \in {"start", "end"}
  /\ IF e \in nodesStored
     THEN /\ calcState' = [calcState EXCEPT ![e] = [gen |-> @.gen + 1, status |-> "starting", total |-> 0]]
          /\ Continue(t, IF task.at = "end" THEN [task EXCEPT !.left = left]
                        ELSE [task EXCEPT !.started[e] = calcState[e].gen + 1,
                                          !.left = IF left = {} THEN task.ids ELSE left,
                                          !.at = IF left = {} THEN "poll" ELSE "start"])
          /\ UNCHANGED busy
     ELSE /\ Continue(t, Ended([task EXCEPT !.left = left]))
          /\ busy' = IF task.at = "start" THEN busy \ {task.node} ELSE busy
          /\ UNCHANGED calcState
  /\ UNCHANGED <<nodesStored, tree, opened, asked>>

\* Seeded fault: an estimate whose lines are not counted yet counts as complete.
SummaryCompleteAtOnce(c) == c.status # "running"

\* isCalcSummaryComplete of the summary the server answers: before the lines are counted it is
\* complete only as their number is 0, which it is when the answer was not reconciled.
SummaryComplete(c) == c.status = "done" \/ (c.status = "starting" /\ "unpublished" \in Mishaps)

\* The calls of a loop are made one after the other, in the order of the ids.
IsNext(e, left) == e \in left /\ e = CHOOSE first \in left : TRUE

\* One GET of a round; a deleted estimate ends it all.
PollSummary(t, e) ==
  LET task == tasks[t]
      finished == IF SummaryComplete(calcState[e]) THEN task.finished \cup {e} ELSE task.finished
      left == task.left \ {e}
  IN
  /\ task.at = "poll" /\ IsNext(e, task.left)
  /\ IF e \notin nodesStored THEN Abandon(t) /\ UNCHANGED <<tree, asked>>
     ELSE /\ tree' = IF e \in tree.nodes THEN [tree EXCEPT !.totals[e] = TotalOf(calcState[e])] ELSE tree
          /\ IF left # {}
             THEN Continue(t, [task EXCEPT !.left = left, !.finished = finished]) /\ UNCHANGED <<busy, asked>>
             ELSE IF finished = task.ids \/ task.round = MaxSummaries
             THEN /\ Continue(t, AskLists([task EXCEPT !.left = {}, !.complete = finished = task.ids]))
                  /\ busy' = busy \ {task.node} /\ asked' = asked + 1
             ELSE /\ Continue(t, [task EXCEPT !.left = task.ids, !.finished = {}, !.round = @ + 1])
                  /\ UNCHANGED <<busy, asked>>
  /\ UNCHANGED <<nodesStored, calcState, opened>>

\* clearConstructionCalcScope: one cancel after the other, and the lists are read again.
Clear(node) ==
  /\ node \notin busy /\ node \in tree.nodes
  /\ \E e \in EstimatesUnder(node, tree.nodes) : tree.totals[e] # 0
  /\ Begin(Task("clear", node, EstimatesUnder(node, tree.nodes), "cancel"))
  /\ UNCHANGED <<nodesStored, calcState, tree, busy, opened, asked>>

PostCancel(t, e) ==
  LET task == tasks[t]
      left == task.left \ {e}
  IN
  /\ task.at = "cancel" /\ IsNext(e, task.left)
  /\ IF e \in nodesStored
     THEN /\ calcState' = [calcState EXCEPT ![e] = [gen |-> @.gen + 1, status |-> "", total |-> 0]]
          /\ Continue(t, [task EXCEPT !.left = left, !.at = IF left = {} THEN "answer" ELSE "cancel"])
     ELSE Continue(t, Ended([task EXCEPT !.left = {}])) /\ UNCHANGED calcState
  /\ UNCHANGED <<nodesStored, tree, busy, opened, asked>>

\* The server's part, in the order EstimateCalc gives it: lines are queued, then settled.
CalculateEstimate(e) ==
  /\ e \in nodesStored /\ calcState[e].status \in {"starting", "running"}
  /\ calcState' = [calcState EXCEPT ![e] = IF @.status = "starting" THEN [@ EXCEPT !.status = "running"]
                                 ELSE [@ EXCEPT !.status = "done", !.total = calcState[e].gen]]
  /\ UNCHANGED <<nodesStored, tree, busy, opened, tasks, asked>>

TreeNext ==
  \/ OpenSection
  \/ \E n \in Nodes : AddNode(n) \/ CreateEstimate(n) \/ AskDelete(n) \/ RecalculateScope(n) \/ Clear(n)
  \/ \E t \in TaskIds :
       \/ PostNode(t) \/ PostDelete(t) \/ AfterChange(t) \/ TakeLists(t)
       \/ \E list \in DOMAIN Lists : AnswerList(t, list)
       \/ \E e \in Estimates : PostStart(t, e) \/ PollSummary(t, e) \/ PostCancel(t, e)
  \/ \E e \in Estimates : CalculateEstimate(e)

TreeSpec == TreeInit /\ [][TreeNext]_treeVars

-----------------------------------------------------------------------------
(* What the tree promises.                                                 *)

\* With every gesture at its end the tree has the server's nodes, and no estimate is open that
\* was deleted with the object or the construction above it (pruneOpenEstimates,
\* refreshConstructionData).
QuietTreeIsTheServers ==
  (\A t \in TaskIds : ~AtWork(t) /\ tasks[t].left = {}) =>
    tree.nodes = nodesStored /\ opened \subseteq nodesStored

\* A recalculation that has found all summaries complete, and not run into its deadline, leaves
\* in the tree the totals of the generations it started, of every estimate that was not
\* started or cancelled again (recalculateConstructionScope).
RecalculationsShowTheirResults ==
  [][\A t \in TaskIds :
       LET task == tasks[t] IN
       task.kind = "recalculate" /\ task.complete /\ task.at = "refresh" /\ tasks'[t].at = "end" =>
         \A e \in task.ids \cap tree'.nodes :
           tree'.totals[e] = task.started[e] \/ calcState'[e].gen # task.started[e]]_treeVars
=============================================================================
