----------------------- MODULE ConstructionTreeProofs -----------------------
(***************************************************************************)
(* Proofs about ConstructionTree for every set of nodes and any number of  *)
(* gestures and of rounds of summaries.                                    *)
(***************************************************************************)
EXTENDS ConstructionTree, SequenceTheorems, TLAPS

-----------------------------------------------------------------------------
(* Types.                                                                  *)

Kinds == {"look", "add", "create", "delete", "recalculate", "clear"}
Phases == {"", "post", "answer", "refresh", "start", "poll", "cancel", "end"}
Totals == [Estimates -> Nat]
Starts == UNION {[ids -> Nat] : ids \in SUBSET Estimates}
ListNames == {"upper", "estimates"}

TaskRecord ==
  [kind : Kinds, node : Nodes \cup {Unread}, ids : SUBSET Estimates, left : SUBSET Estimates, at : Phases,
   finished : SUBSET Estimates, round : Nat, started : Starts, complete : BOOLEAN,
   reads : [ListNames -> (SUBSET Nodes) \cup {Unread}], totals : Totals \cup {Unread}, since : Nat]

CalcRecord == [gen : Nat, status : {"", "starting", "running", "done"}, total : Nat]

TotalsAreRead(x) == x.reads["estimates"] # Unread => x.totals \in Totals
IsTask(x) == x \in TaskRecord /\ TotalsAreRead(x)

TreeTyped ==
  /\ nodesStored \subseteq Nodes
  /\ calcState \in [Estimates -> CalcRecord]
  /\ tree \in [nodes : SUBSET Nodes, totals : Totals]
  /\ opened \subseteq Estimates
  /\ tasks \in Seq(TaskRecord) /\ \A t \in TaskIds : TotalsAreRead(tasks[t])
  /\ asked \in Nat

\* One task has begun or gone on, and the others are as they were.
Moved(t) ==
  /\ TaskIds' = TaskIds \cup {t}
  /\ \A u \in TaskIds : u # t => tasks'[u] = tasks[u]

LEMMA ListsAre ==
  /\ DOMAIN Lists = ListNames
  /\ Lists["upper"] = Constructions \cup Objects /\ Lists["estimates"] = Estimates
  /\ Reads \in [ListNames -> (SUBSET Nodes) \cup {Unread}]
  /\ \A list \in ListNames : Reads[list] = Unread
<1>1. DOMAIN Lists = ListNames
  BY DEF Lists, ListNames
<1>2. Lists["upper"] = Constructions \cup Objects /\ Lists["estimates"] = Estimates
  BY DEF Lists
<1>3. Reads = [list \in ListNames |-> Unread]
  BY <1>1 DEF Reads
<1> QED
  BY <1>1, <1>2, <1>3

LEMMA StartsAre ==
  /\ <<>> \in Starts
  /\ \A ids \in SUBSET Estimates : [e \in ids |-> 0] \in Starts
  /\ \A f \in Starts, e \in Estimates, n \in Nat : [f EXCEPT ![e] = n] \in Starts
<1>1. <<>> \in Starts
  <2>1. <<>> \in [{} -> Nat]
    OBVIOUS
  <2> QED
    BY <2>1 DEF Starts
<1>2. ASSUME NEW ids \in SUBSET Estimates
      PROVE  [e \in ids |-> 0] \in Starts
  <2>1. [e \in ids |-> 0] \in [ids -> Nat]
    OBVIOUS
  <2> QED
    BY <2>1 DEF Starts
<1>3. ASSUME NEW f \in Starts, NEW e \in Estimates, NEW n \in Nat
      PROVE  [f EXCEPT ![e] = n] \in Starts
  <2>1. PICK ids \in SUBSET Estimates : f \in [ids -> Nat]
    BY DEF Starts
  <2>2. [f EXCEPT ![e] = n] \in [ids -> Nat]
    BY <2>1
  <2> QED
    BY <2>2 DEF Starts
<1> QED
  BY <1>1, <1>2, <1>3

LEMMA TaskTyped ==
  ASSUME NEW kind \in Kinds, NEW node \in Nodes \cup {Unread}, NEW ids \in SUBSET Estimates, NEW at \in Phases
  PROVE  /\ IsTask(Task(kind, node, ids, at))
         /\ Task(kind, node, ids, at).kind = kind /\ Task(kind, node, ids, at).node = node
         /\ Task(kind, node, ids, at).ids = ids /\ Task(kind, node, ids, at).left = ids
         /\ Task(kind, node, ids, at).at = at
         /\ Task(kind, node, ids, at).finished = {} /\ Task(kind, node, ids, at).started = [e \in ids |-> 0]
         /\ Task(kind, node, ids, at).complete = FALSE /\ Task(kind, node, ids, at).round = 1
<1>1. Task(kind, node, ids, at) \in TaskRecord
  BY ListsAre, StartsAre DEF Task, TaskRecord
<1>2. Task(kind, node, ids, at).reads["estimates"] = Unread
  BY ListsAre DEF Task, ListNames
<1> QED
  BY <1>1, <1>2 DEF IsTask, TotalsAreRead, Task

LEMMA AskListsTyped ==
  ASSUME asked \in Nat, NEW x \in TaskRecord
  PROVE  /\ IsTask(AskLists(x))
         /\ AskLists(x).at = "refresh" /\ AskLists(x).since = asked + 1 /\ AskLists(x).reads = Reads
         /\ AskLists(x).kind = x.kind /\ AskLists(x).node = x.node /\ AskLists(x).ids = x.ids
         /\ AskLists(x).left = x.left /\ AskLists(x).finished = x.finished /\ AskLists(x).started = x.started
         /\ AskLists(x).complete = x.complete /\ AskLists(x).round = x.round
<1>1. AskLists(x) \in TaskRecord
  <2>1. "refresh" \in Phases /\ asked + 1 \in Nat /\ Reads \in [ListNames -> (SUBSET Nodes) \cup {Unread}]
    BY ListsAre DEF Phases
  <2>2. [x EXCEPT !.at = "refresh"] \in TaskRecord
    BY <2>1 DEF TaskRecord
  <2>3. [[x EXCEPT !.at = "refresh"] EXCEPT !.reads = Reads] \in TaskRecord
    BY <2>1, <2>2 DEF TaskRecord
  <2>4. [[[x EXCEPT !.at = "refresh"] EXCEPT !.reads = Reads] EXCEPT !.since = asked + 1] \in TaskRecord
    BY <2>1, <2>3 DEF TaskRecord
  <2> QED
    BY <2>4 DEF AskLists
<1>3. AskLists(x).reads = Reads
  BY DEF AskLists, TaskRecord
<1>2. TotalsAreRead(AskLists(x))
  BY <1>3, ListsAre DEF TotalsAreRead, ListNames
<1> QED
  BY <1>1, <1>2, <1>3 DEF IsTask, AskLists, TaskRecord

LEMMA EndedTyped ==
  ASSUME NEW x \in TaskRecord
  PROVE  IsTask(Ended(x)) /\ Ended(x).kind = x.kind /\ Ended(x).at = "end"
<1>1. x.kind \in Kinds /\ x.left \in SUBSET Estimates
  BY DEF TaskRecord
<1> DEFINE y == Task(x.kind, Unread, {}, "end")
<1>2. IsTask(y) /\ y.kind = x.kind /\ y.at = "end"
  <2>1. "end" \in Phases /\ Unread \in Nodes \cup {Unread} /\ {} \in SUBSET Estimates
    BY DEF Phases
  <2> HIDE DEF y
  <2>2. y = Task(x.kind, Unread, {}, "end")
    BY DEF y
  <2>3. IsTask(Task(x.kind, Unread, {}, "end"))
    BY <1>1, <2>1, TaskTyped, Zenon
  <2>4. Task(x.kind, Unread, {}, "end").kind = x.kind /\ Task(x.kind, Unread, {}, "end").at = "end"
    BY DEF Task
  <2> QED
    BY <2>2, <2>3, <2>4
<1>3. Ended(x) \in TaskRecord /\ Ended(x).reads = y.reads
      /\ Ended(x).kind = x.kind /\ Ended(x).at = "end" /\ Ended(x).totals = y.totals
  BY <1>1, <1>2, StartsAre DEF Ended, TaskRecord, IsTask
<1> QED
  BY <1>2, <1>3 DEF IsTask, TotalsAreRead

LEMMA ContinueMoves ==
  ASSUME TreeTyped, NEW t \in TaskIds, NEW x, IsTask(x), Continue(t, x)
  PROVE  /\ tasks' \in Seq(TaskRecord) /\ \A u \in TaskIds' : TotalsAreRead(tasks'[u])
         /\ Moved(t) /\ t \in TaskIds' /\ tasks'[t] = x
<1>1. tasks \in Seq(TaskRecord) /\ t \in 1..Len(tasks) /\ x \in TaskRecord /\ tasks' = [tasks EXCEPT ![t] = x]
  BY DEF TreeTyped, TaskIds, IsTask, Continue
<1>2. tasks' \in Seq(TaskRecord) /\ Len(tasks') = Len(tasks)
  BY <1>1, ExceptSeq
<1>3. tasks'[t] = x /\ \A u \in TaskIds : u # t => tasks'[u] = tasks[u]
  BY <1>1 DEF TaskIds
<1> QED
  BY <1>1, <1>2, <1>3 DEF TaskIds, Moved, IsTask, TreeTyped

LEMMA BeginMoves ==
  ASSUME TreeTyped, NEW x, IsTask(x), Begin(x)
  PROVE  /\ tasks' \in Seq(TaskRecord) /\ \A u \in TaskIds' : TotalsAreRead(tasks'[u])
         /\ Moved(Len(tasks) + 1) /\ Len(tasks) + 1 \in TaskIds' /\ Len(tasks) + 1 \notin TaskIds
         /\ tasks'[Len(tasks) + 1] = x
<1>1. tasks \in Seq(TaskRecord) /\ x \in TaskRecord /\ tasks' = Append(tasks, x) /\ Len(tasks) \in Nat
  BY DEF TreeTyped, IsTask, Begin
<1>2. /\ tasks' \in Seq(TaskRecord) /\ Len(tasks') = Len(tasks) + 1
      /\ tasks'[Len(tasks) + 1] = x /\ \A u \in 1..Len(tasks) : tasks'[u] = tasks[u]
  BY <1>1, AppendProperties
<1> QED
  BY <1>1, <1>2 DEF TaskIds, Moved, IsTask, TreeTyped

\* A task whose phase, round, complete flag or sets are changed stays a task.
LEMMA PhaseTyped ==
  ASSUME NEW x, IsTask(x), NEW at \in Phases
  PROVE  /\ IsTask([x EXCEPT !.at = at])
         /\ [x EXCEPT !.at = at].at = at
         /\ \A f \in {"kind", "node", "ids", "left", "finished", "round", "started", "complete", "reads", "totals", "since"} :
              [x EXCEPT !.at = at][f] = x[f]
BY DEF IsTask, TaskRecord, TotalsAreRead

\* Beginning and going on change nothing that the type does not allow.
LEMMA TasksTyped ==
  ASSUME TreeTyped, NEW x, IsTask(x), Begin(x) \/ \E t \in TaskIds : Continue(t, x),
         nodesStored' \subseteq Nodes, calcState' \in [Estimates -> CalcRecord],
         tree' \in [nodes : SUBSET Nodes, totals : Totals], opened' \subseteq Estimates, asked' \in Nat
  PROVE  TreeTyped'
<1>1. tasks' \in Seq(TaskRecord) /\ \A u \in TaskIds' : TotalsAreRead(tasks'[u])
  BY ContinueMoves, BeginMoves
<1> QED
  BY <1>1 DEF TreeTyped

LEMMA AskingTyped ==
  ASSUME TreeTyped
  PROVE  /\ IsTask(AskLists(Task("look", Unread, {}, "")))
         /\ \A e \in Estimates : IsTask(AskLists(Task("create", e, {}, "")))
         /\ \A n \in Nodes : IsTask(Task("add", n, {}, "post")) /\ IsTask(Task("delete", n, {}, "post"))
         /\ \A n \in Nodes, ids \in SUBSET Estimates :
              IsTask(Task("recalculate", n, ids, "start")) /\ IsTask(Task("clear", n, ids, "cancel"))
         /\ \A t \in TaskIds : IsTask(tasks[t]) /\ IsTask(AskLists(tasks[t])) /\ IsTask(Ended(tasks[t]))
<1>1. asked \in Nat /\ \A x \in TaskRecord : IsTask(AskLists(x)) /\ IsTask(Ended(x))
  BY AskListsTyped, EndedTyped DEF TreeTyped
<1>2. \A t \in TaskIds : IsTask(tasks[t])
  BY DEF TreeTyped, TaskIds, IsTask
<1>3. \A kind \in Kinds, node \in Nodes \cup {Unread}, ids \in SUBSET Estimates, at \in Phases :
        IsTask(Task(kind, node, ids, at))
  BY TaskTyped
<1>4. {"look", "create", "add", "delete", "recalculate", "clear"} \subseteq Kinds
      /\ {"", "post", "start", "cancel"} \subseteq Phases /\ Estimates \subseteq Nodes
  BY DEF Kinds, Phases, Nodes
<1>5. IsTask(Task("look", Unread, {}, "")) /\ \A e \in Estimates : IsTask(Task("create", e, {}, ""))
  BY <1>3, <1>4
<1> QED
  BY <1>1, <1>2, <1>3, <1>4, <1>5 DEF IsTask

\* Where the new task of a gesture is put.
New == Len(tasks) + 1

Gestured(n) ==
  \/ OpenSection
  \/ n \in Nodes /\ (AddNode(n) \/ CreateEstimate(n) \/ AskDelete(n) \/ RecalculateScope(n) \/ Clear(n))

LEMMA GesturesMove ==
  ASSUME TreeTyped, NEW n, Gestured(n)
  PROVE  /\ TreeTyped' /\ Moved(New) /\ New \in TaskIds' /\ New \notin TaskIds
         /\ \/ OpenSection /\ tasks'[New] = AskLists(Task("look", Unread, {}, ""))
            \/ n \in Nodes /\ CreateEstimate(n) /\ tasks'[New] = AskLists(Task("create", n, {}, ""))
            \/ n \in Nodes /\ AddNode(n) /\ tasks'[New] = Task("add", n, {}, "post")
            \/ n \in Nodes /\ AskDelete(n) /\ tasks'[New] = Task("delete", n, {}, "post")
            \/ n \in Nodes /\ RecalculateScope(n) /\ tasks'[New] = Task("recalculate", n, EstimatesUnder(n, tree.nodes), "start")
            \/ n \in Nodes /\ Clear(n) /\ tasks'[New] = Task("clear", n, EstimatesUnder(n, tree.nodes), "cancel")
<1>1. ASSUME NEW x, IsTask(x), Begin(x)
      PROVE  Moved(New) /\ New \in TaskIds' /\ New \notin TaskIds /\ tasks'[New] = x
  BY <1>1, BeginMoves DEF New
<1>2. /\ nodesStored' = nodesStored /\ calcState' = calcState /\ tree' = tree /\ opened' = opened
      /\ asked' \in {asked, asked + 1}
  BY DEF Gestured, OpenSection, AddNode, CreateEstimate, AskDelete, RecalculateScope, Clear
<1>3. ASSUME NEW x, IsTask(x), Begin(x) PROVE TreeTyped'
  BY <1>2, <1>3, TasksTyped DEF TreeTyped
<1>4. EstimatesUnder(n, tree.nodes) \in SUBSET Estimates
  BY DEF EstimatesUnder
<1>5. CASE OpenSection
  BY <1>1, <1>3, <1>5, AskingTyped DEF OpenSection
<1>6. CASE n \in Nodes /\ CreateEstimate(n)
  BY <1>1, <1>3, <1>6, AskingTyped DEF CreateEstimate
<1>7. CASE n \in Nodes /\ AddNode(n)
  BY <1>1, <1>3, <1>7, AskingTyped DEF AddNode
<1>8. CASE n \in Nodes /\ AskDelete(n)
  BY <1>1, <1>3, <1>8, AskingTyped DEF AskDelete
<1>9. CASE n \in Nodes /\ RecalculateScope(n)
  BY <1>1, <1>3, <1>4, <1>9, AskingTyped DEF RecalculateScope
<1>10. CASE n \in Nodes /\ Clear(n)
  BY <1>1, <1>3, <1>4, <1>10, AskingTyped DEF Clear
<1> QED
  BY <1>5, <1>6, <1>7, <1>8, <1>9, <1>10 DEF Gestured

LEMMA AnswerListMoves ==
  ASSUME TreeTyped, NEW t \in TaskIds, NEW list \in ListNames, AnswerList(t, list)
  PROVE  /\ TreeTyped' /\ Moved(t) /\ t \in TaskIds'
         /\ tasks'[t] = [tasks[t] EXCEPT !.reads[list] = nodesStored \cap Lists[list],
              !.totals = IF list = "estimates" THEN [e \in Estimates |-> TotalOf(calcState[e])] ELSE @]
<1> DEFINE counted == [e \in Estimates |-> TotalOf(calcState[e])]
           r == [tasks[t].reads EXCEPT ![list] = nodesStored \cap Lists[list]]
           y == [tasks[t] EXCEPT !.reads = r]
           x == [y EXCEPT !.totals = IF list = "estimates" THEN counted ELSE @]
<1>1. IsTask(tasks[t]) /\ tasks[t] \in TaskRecord
  BY AskingTyped DEF IsTask
<1>2. counted \in Totals
  BY DEF TreeTyped, CalcRecord, TotalOf, Totals
<1>3. r \in [ListNames -> (SUBSET Nodes) \cup {Unread}]
  BY <1>1 DEF TaskRecord, TreeTyped
<1> HIDE DEF counted
<1>4. y \in TaskRecord /\ y.totals = tasks[t].totals /\ y.reads = r
  <2> HIDE DEF r
  <2> QED
    BY <1>1, <1>3 DEF TaskRecord
<1>5. x \in TaskRecord /\ x.reads = r /\ x.totals = IF list = "estimates" THEN counted ELSE tasks[t].totals
  <2> HIDE DEF r, y
  <2> QED
    BY <1>2, <1>4 DEF TaskRecord
<1>6. TotalsAreRead(x)
  <2>1. CASE list = "estimates"
    BY <1>2, <1>5, <2>1 DEF TotalsAreRead
  <2>2. CASE list # "estimates"
    <3>1. r["estimates"] = tasks[t].reads["estimates"]
      BY <1>1, <2>2 DEF TaskRecord, ListNames
    <3> QED
      BY <1>1, <1>5, <2>2, <3>1 DEF TotalsAreRead, IsTask
  <2> QED
    BY <2>1, <2>2
<1>7. x = [tasks[t] EXCEPT !.reads[list] = nodesStored \cap Lists[list],
             !.totals = IF list = "estimates" THEN [e \in Estimates |-> TotalOf(calcState[e])] ELSE @]
  BY <1>1 DEF TaskRecord, counted
<1>8. Continue(t, x) /\ UNCHANGED <<nodesStored, calcState, tree, opened, asked>>
  BY <1>7 DEF AnswerList
<1>9. IsTask(x)
  BY <1>5, <1>6 DEF IsTask
<1> HIDE DEF x
<1> QED
  BY <1>7, <1>8, <1>9, ContinueMoves, TasksTyped DEF TreeTyped

\* What the answers of the lists make of the tree.
Answered(t) == UNION {tasks[t].reads[list] : list \in ListNames}

LEMMA TakeListsMoves ==
  ASSUME TreeTyped, NEW t \in TaskIds, TakeLists(t)
  PROVE  /\ Moved(t) /\ t \in TaskIds'
         /\ tasks'[t] = IF tasks[t].kind = "create" /\ tasks[t].round = 1
                        THEN [[tasks[t] EXCEPT !.at = "post"] EXCEPT !.round = 2] ELSE Ended(tasks[t])
         /\ IsTask(tasks'[t])
         /\ tasks[t].at = "refresh" /\ \A list \in ListNames : tasks[t].reads[list] # Unread
         /\ tree' = [nodes |-> Answered(t), totals |-> tasks[t].totals]
<1>1. IsTask(tasks[t]) /\ IsTask(Ended(tasks[t]))
  BY AskingTyped
<1>2. IsTask([[tasks[t] EXCEPT !.at = "post"] EXCEPT !.round = 2])
      /\ [[tasks[t] EXCEPT !.at = "post"] EXCEPT !.round = 2] = [tasks[t] EXCEPT !.at = "post", !.round = 2]
  BY <1>1 DEF IsTask, TaskRecord, TotalsAreRead, Phases
<1>3. CASE tasks[t].kind = "create" /\ tasks[t].round = 1
  <2>1. Continue(t, [[tasks[t] EXCEPT !.at = "post"] EXCEPT !.round = 2])
    BY <1>2, <1>3 DEF TakeLists
  <2> QED
    BY <1>2, <1>3, <2>1, ContinueMoves, ListsAre DEF TakeLists, Answered
<1>4. CASE ~(tasks[t].kind = "create" /\ tasks[t].round = 1)
  <2>1. Continue(t, Ended(tasks[t]))
    BY <1>4 DEF TakeLists
  <2> QED
    BY <1>1, <1>4, <2>1, ContinueMoves, ListsAre DEF TakeLists, Answered
<1> QED
  BY <1>3, <1>4

LEMMA TakeListsTyped ==
  ASSUME TreeTyped, NEW t \in TaskIds, TakeLists(t),
         tasks[t].kind = "create" => tasks[t].node \in Estimates
  PROVE  TreeTyped'
<1>0. /\ tree' = [nodes |-> Answered(t), totals |-> tasks[t].totals]
      /\ \A list \in ListNames : tasks[t].reads[list] # Unread
  BY TakeListsMoves
<1>1. Answered(t) \subseteq Nodes /\ tasks[t].totals \in Totals
  <2>1. tasks[t].reads \in [ListNames -> (SUBSET Nodes) \cup {Unread}] /\ TotalsAreRead(tasks[t])
    BY AskingTyped DEF IsTask, TaskRecord
  <2>2. \A list \in ListNames : tasks[t].reads[list] \in SUBSET Nodes
    BY <1>0, <2>1
  <2>3. Answered(t) \subseteq Nodes
    BY <2>2 DEF Answered
  <2> QED
    BY <1>0, <2>1, <2>3 DEF TotalsAreRead, ListNames
<1>2. tree' \in [nodes : SUBSET Nodes, totals : Totals]
  <2>1. Answered(t) \in SUBSET Nodes
    BY <1>1
  <2> QED
    BY <1>0, <1>1, <2>1
<1>3. opened' \subseteq Estimates
  BY DEF TakeLists, TreeTyped, Pruned
<1>4. IsTask(tasks'[t]) /\ Continue(t, tasks'[t])
  BY TakeListsMoves DEF TakeLists, Continue, TreeTyped, TaskIds
<1> QED
  BY <1>2, <1>3, <1>4, TasksTyped DEF TakeLists, TreeTyped

LEMMA ChangesMove ==
  ASSUME TreeTyped, NEW t \in TaskIds, PostNode(t) \/ PostDelete(t) \/ AfterChange(t),
         tasks[t].at = "post" => tasks[t].node \in Nodes
  PROVE  /\ TreeTyped' /\ Moved(t) /\ t \in TaskIds'
         /\ \/ tasks[t].at = "post" /\ tasks'[t] = [tasks[t] EXCEPT !.at = "answer"]
            \/ tasks[t].at = "post" /\ nodesStored' = nodesStored /\ tasks'[t] = Ended(tasks[t])
            \/ AfterChange(t) /\ tasks'[t] = AskLists(tasks[t])
<1>1. IsTask(tasks[t]) /\ IsTask(Ended(tasks[t])) /\ IsTask(AskLists(tasks[t]))
  BY AskingTyped
<1>2. IsTask([tasks[t] EXCEPT !.at = "answer"])
  BY <1>1, PhaseTyped DEF Phases
<1>3. nodesStored' \subseteq Nodes /\ opened' \subseteq Estimates /\ asked' \in {asked, asked + 1}
      /\ UNCHANGED <<calcState, tree>>
  BY DEF PostNode, PostDelete, AfterChange, TreeTyped
<1>4. ASSUME NEW x, IsTask(x), Continue(t, x)
      PROVE  TreeTyped' /\ Moved(t) /\ t \in TaskIds' /\ tasks'[t] = x
  BY <1>3, <1>4, ContinueMoves, TasksTyped DEF TreeTyped
<1>5. CASE PostNode(t) \/ PostDelete(t)
  BY <1>1, <1>2, <1>4, <1>5 DEF PostNode, PostDelete
<1>6. CASE AfterChange(t)
  BY <1>1, <1>4, <1>6 DEF AfterChange
<1> QED
  BY <1>5, <1>6

LEMMA PostCancelMoves ==
  ASSUME TreeTyped, NEW t \in TaskIds, NEW e \in Estimates, PostCancel(t, e)
  PROVE  /\ TreeTyped' /\ Moved(t) /\ t \in TaskIds' /\ tasks[t].at = "cancel"
         /\ \/ tasks'[t].kind = tasks[t].kind /\ tasks'[t].at \in {"answer", "cancel"}
            \/ tasks'[t].kind = tasks[t].kind /\ tasks'[t].at = "end"
<1>1. IsTask(tasks[t]) /\ tasks[t] \in TaskRecord
  BY AskingTyped DEF IsTask
<1>2. \A left \in SUBSET Estimates : IsTask([tasks[t] EXCEPT !.left = left])
  BY <1>1 DEF IsTask, TaskRecord, TotalsAreRead
<1>3. \A left \in SUBSET Estimates, at \in {"answer", "cancel"} :
        /\ IsTask([tasks[t] EXCEPT !.left = left, !.at = at])
        /\ [tasks[t] EXCEPT !.left = left, !.at = at].at = at
        /\ [tasks[t] EXCEPT !.left = left, !.at = at].kind = tasks[t].kind
  BY <1>1 DEF IsTask, TaskRecord, TotalsAreRead, Phases
<1>4. calcState' \in [Estimates -> CalcRecord]
  <2>0. calcState[e].gen \in Nat
    BY DEF TreeTyped, CalcRecord
  <2>1. [gen |-> calcState[e].gen + 1, status |-> "", total |-> 0] \in CalcRecord
    BY <2>0 DEF CalcRecord
  <2> QED
    BY <2>1 DEF PostCancel, TreeTyped
<1>5. ASSUME NEW x, IsTask(x), Continue(t, x)
      PROVE  TreeTyped' /\ Moved(t) /\ t \in TaskIds' /\ tasks'[t] = x
  BY <1>4, <1>5, ContinueMoves, TasksTyped DEF TreeTyped, PostCancel
<1>6. CASE e \in nodesStored
  <2> DEFINE left == tasks[t].left \ {e}
             at == IF left = {} THEN "answer" ELSE "cancel"
  <2>1. left \in SUBSET Estimates /\ at \in {"answer", "cancel"}
    BY <1>1 DEF TaskRecord
  <2>2. Continue(t, [tasks[t] EXCEPT !.left = left, !.at = at])
    BY <1>6 DEF PostCancel
  <2> HIDE DEF left, at
  <2> QED
    BY <1>3, <1>5, <2>1, <2>2 DEF PostCancel
<1>7. CASE e \notin nodesStored
  <2> DEFINE y == [tasks[t] EXCEPT !.left = {}]
  <2>1. Continue(t, Ended(y))
    BY <1>7 DEF PostCancel
  <2>2. IsTask(y) /\ y.kind = tasks[t].kind
    BY <1>1, <1>2 DEF TaskRecord
  <2>3. IsTask(Ended(y)) /\ Ended(y).kind = tasks[t].kind /\ Ended(y).at = "end"
    <3> HIDE DEF y
    <3> QED
      BY <2>2, EndedTyped DEF IsTask
  <2> HIDE DEF y
  <2> QED
    BY <1>5, <2>1, <2>3 DEF PostCancel
<1> QED
  BY <1>6, <1>7

LEMMA EndedOfTyped ==
  ASSUME NEW x, IsTask(x), NEW left \in SUBSET Estimates
  PROVE  /\ IsTask([x EXCEPT !.left = left]) /\ [x EXCEPT !.left = left].at = x.at
         /\ IsTask(Ended([x EXCEPT !.left = left]))
         /\ Ended([x EXCEPT !.left = left]).kind = x.kind /\ Ended([x EXCEPT !.left = left]).at = "end"
<1> DEFINE y == [x EXCEPT !.left = left]
<1>1. IsTask(y) /\ y.kind = x.kind /\ y.at = x.at
  BY DEF IsTask, TaskRecord, TotalsAreRead
<1>2. IsTask(Ended(y)) /\ Ended(y).kind = x.kind /\ Ended(y).at = "end"
  <2> HIDE DEF y
  <2> QED
    BY <1>1, EndedTyped DEF IsTask
<1> QED
  BY <1>1, <1>2

\* What a start leaves of the task that asked for it.
StartedTask(t, e) ==
  LET left == tasks[t].left \ {e} IN
  [tasks[t] EXCEPT !.started[e] = calcState[e].gen + 1,
                   !.left = IF left = {} THEN tasks[t].ids ELSE left,
                   !.at = IF left = {} THEN "poll" ELSE "start"]

LEMMA StartedTaskTyped ==
  ASSUME TreeTyped, NEW t \in TaskIds, NEW e \in Estimates
  PROVE  /\ IsTask(StartedTask(t, e)) /\ StartedTask(t, e).kind = tasks[t].kind
         /\ StartedTask(t, e).at \in {"poll", "start"}
         /\ StartedTask(t, e).started = [tasks[t].started EXCEPT ![e] = calcState[e].gen + 1]
         /\ StartedTask(t, e).ids = tasks[t].ids /\ StartedTask(t, e).finished = tasks[t].finished
         /\ StartedTask(t, e).complete = tasks[t].complete
<1> DEFINE left == IF tasks[t].left \ {e} = {} THEN tasks[t].ids ELSE tasks[t].left \ {e}
           at == IF tasks[t].left \ {e} = {} THEN "poll" ELSE "start"
           started == [tasks[t].started EXCEPT ![e] = calcState[e].gen + 1]
<1>1. IsTask(tasks[t]) /\ tasks[t] \in TaskRecord /\ calcState[e].gen \in Nat
  BY AskingTyped DEF IsTask, TreeTyped, CalcRecord
<1>2. started \in Starts
  BY <1>1, StartsAre DEF TaskRecord
<1>3. left \in SUBSET Estimates /\ at \in {"poll", "start"} /\ at \in Phases
  BY <1>1 DEF TaskRecord, Phases
<1>4. StartedTask(t, e) = [tasks[t] EXCEPT !.started = started, !.left = left, !.at = at]
  BY DEF StartedTask
<1> HIDE DEF left, at, started
<1>5. /\ IsTask([tasks[t] EXCEPT !.started = started, !.left = left, !.at = at])
      /\ [tasks[t] EXCEPT !.started = started, !.left = left, !.at = at].started = started
      /\ [tasks[t] EXCEPT !.started = started, !.left = left, !.at = at].at = at
      /\ [tasks[t] EXCEPT !.started = started, !.left = left, !.at = at].kind = tasks[t].kind
      /\ [tasks[t] EXCEPT !.started = started, !.left = left, !.at = at].ids = tasks[t].ids
      /\ [tasks[t] EXCEPT !.started = started, !.left = left, !.at = at].finished = tasks[t].finished
      /\ [tasks[t] EXCEPT !.started = started, !.left = left, !.at = at].complete = tasks[t].complete
  BY <1>1, <1>2, <1>3 DEF IsTask, TaskRecord, TotalsAreRead
<1> QED
  BY <1>3, <1>4, <1>5 DEF started

LEMMA PostStartMoves ==
  ASSUME TreeTyped, NEW t \in TaskIds, NEW e \in Estimates, PostStart(t, e)
  PROVE  /\ TreeTyped' /\ Moved(t) /\ t \in TaskIds' /\ tasks[t].kind = "recalculate"
         /\ tasks[t].at \in {"start", "end"}
         /\ \/ tasks'[t].kind = "recalculate" /\ tasks'[t].at = "end"
            \/ tasks[t].at = "start" /\ e \in nodesStored /\ tasks'[t] = StartedTask(t, e)
<1>1. IsTask(tasks[t]) /\ tasks[t] \in TaskRecord
  BY AskingTyped DEF IsTask
<1>2. calcState' \in [Estimates -> CalcRecord]
  <2>0. calcState[e].gen \in Nat
    BY DEF TreeTyped, CalcRecord
  <2>1. [gen |-> calcState[e].gen + 1, status |-> "starting", total |-> 0] \in CalcRecord
    BY <2>0 DEF CalcRecord
  <2> QED
    BY <2>1 DEF PostStart, TreeTyped
<1>3. ASSUME NEW x, IsTask(x), Continue(t, x)
      PROVE  TreeTyped' /\ Moved(t) /\ t \in TaskIds' /\ tasks'[t] = x
  BY <1>2, <1>3, ContinueMoves, TasksTyped DEF TreeTyped, PostStart
<1>4. tasks[t].kind = "recalculate" /\ tasks[t].at \in {"start", "end"} /\ tasks[t].left \ {e} \in SUBSET Estimates
  BY <1>1 DEF PostStart, TaskRecord
<1>5. CASE e \notin nodesStored
  <2>1. Continue(t, Ended([tasks[t] EXCEPT !.left = tasks[t].left \ {e}]))
    BY <1>5 DEF PostStart
  <2>2. /\ IsTask(Ended([tasks[t] EXCEPT !.left = tasks[t].left \ {e}]))
        /\ Ended([tasks[t] EXCEPT !.left = tasks[t].left \ {e}]).kind = "recalculate"
        /\ Ended([tasks[t] EXCEPT !.left = tasks[t].left \ {e}]).at = "end"
    BY <1>1, <1>4, EndedOfTyped
  <2> QED
    BY <1>3, <1>4, <2>1, <2>2
<1>6. CASE e \in nodesStored /\ tasks[t].at = "end"
  <2>1. Continue(t, [tasks[t] EXCEPT !.left = tasks[t].left \ {e}])
    BY <1>6 DEF PostStart
  <2>2. /\ IsTask([tasks[t] EXCEPT !.left = tasks[t].left \ {e}])
        /\ [tasks[t] EXCEPT !.left = tasks[t].left \ {e}].at = "end"
        /\ [tasks[t] EXCEPT !.left = tasks[t].left \ {e}].kind = "recalculate"
    BY <1>1, <1>4, <1>6, EndedOfTyped DEF TaskRecord
  <2> QED
    BY <1>3, <1>4, <2>1, <2>2
<1>7. CASE e \in nodesStored /\ tasks[t].at = "start"
  <2>1. Continue(t, StartedTask(t, e))
    BY <1>7 DEF PostStart, StartedTask
  <2> QED
    BY <1>3, <1>4, <1>7, <2>1, StartedTaskTyped
<1> QED
  BY <1>4, <1>5, <1>6, <1>7

\* What a round of summaries has found when the answer for e is there.
FinishedBy(t, e) ==
  IF SummaryComplete(calcState[e]) THEN tasks[t].finished \cup {e} ELSE tasks[t].finished

LEMMA PollSummaryMoves ==
  ASSUME TreeTyped, NEW t \in TaskIds, NEW e \in Estimates, PollSummary(t, e)
  PROVE  /\ TreeTyped' /\ Moved(t) /\ t \in TaskIds' /\ tree'.nodes = tree.nodes
         /\ tasks[t].at = "poll" /\ tasks'[t].kind = tasks[t].kind
         /\ \/ tasks'[t].at = "end" /\ asked' = asked
            \/ /\ tasks'[t].at = "poll" /\ asked' = asked
               /\ tasks'[t].ids = tasks[t].ids /\ tasks'[t].started = tasks[t].started
               /\ tasks'[t].complete = tasks[t].complete
               /\ tasks'[t].finished \in {{}, FinishedBy(t, e)}
            \/ /\ tasks'[t].at = "refresh" /\ asked' = asked + 1
               /\ tasks'[t].since = asked + 1 /\ tasks'[t].reads = Reads
               /\ tasks'[t].ids = tasks[t].ids /\ tasks'[t].started = tasks[t].started
               /\ tasks'[t].complete = (FinishedBy(t, e) = tasks[t].ids)
               /\ tasks'[t].finished = tasks[t].finished
<1> DEFINE finished == FinishedBy(t, e)
           left == tasks[t].left \ {e}
           done == (finished = tasks[t].ids)
<1>1. IsTask(tasks[t]) /\ tasks[t] \in TaskRecord
  BY AskingTyped DEF IsTask
<1>2. finished \in SUBSET Estimates /\ left \in SUBSET Estimates /\ done \in BOOLEAN /\ tasks[t].round \in Nat
  BY <1>1 DEF TaskRecord, FinishedBy
<1>3. tree' \in [nodes : SUBSET Nodes, totals : Totals] /\ tree'.nodes = tree.nodes
  <2>1. tree \in [nodes : SUBSET Nodes, totals : Totals] /\ TotalOf(calcState[e]) \in Nat
    BY DEF TreeTyped, CalcRecord, TotalOf
  <2>2. /\ [tree EXCEPT !.totals[e] = TotalOf(calcState[e])] \in [nodes : SUBSET Nodes, totals : Totals]
        /\ [tree EXCEPT !.totals[e] = TotalOf(calcState[e])].nodes = tree.nodes
    BY <2>1 DEF Totals
  <2>3. tree' = tree \/ tree' = [tree EXCEPT !.totals[e] = TotalOf(calcState[e])]
    BY DEF PollSummary
  <2> QED
    BY <2>1, <2>2, <2>3
<1>4. UNCHANGED <<nodesStored, calcState, opened>> /\ tasks[t].at = "poll" /\ asked' \in {asked, asked + 1}
  BY DEF PollSummary
<1>5. ASSUME NEW x, IsTask(x), Continue(t, x)
      PROVE  TreeTyped' /\ Moved(t) /\ t \in TaskIds' /\ tasks'[t] = x
  BY <1>3, <1>4, <1>5, ContinueMoves, TasksTyped DEF TreeTyped
<1>6. CASE e \notin nodesStored
  <2>1. Continue(t, Ended([tasks[t] EXCEPT !.left = {}])) /\ asked' = asked
    BY <1>6 DEF PollSummary, Abandon
  <2>2. /\ IsTask(Ended([tasks[t] EXCEPT !.left = {}]))
        /\ Ended([tasks[t] EXCEPT !.left = {}]).kind = tasks[t].kind
        /\ Ended([tasks[t] EXCEPT !.left = {}]).at = "end"
    BY <1>1, EndedOfTyped
  <2> QED
    BY <1>3, <1>4, <1>5, <2>1, <2>2
<1>7. CASE e \in nodesStored /\ left # {}
  <2> DEFINE x == [tasks[t] EXCEPT !.left = left, !.finished = finished]
  <2>1. Continue(t, x) /\ asked' = asked
    BY <1>7 DEF PollSummary, FinishedBy
  <2> HIDE DEF left, finished
  <2>2. /\ IsTask(x) /\ x.kind = tasks[t].kind /\ x.at = tasks[t].at /\ x.ids = tasks[t].ids
        /\ x.started = tasks[t].started /\ x.complete = tasks[t].complete /\ x.finished = finished
    BY <1>1, <1>2 DEF IsTask, TaskRecord, TotalsAreRead
  <2> HIDE DEF x
  <2> QED
    BY <1>3, <1>4, <1>5, <2>1, <2>2 DEF finished
<1>8. CASE e \in nodesStored /\ left = {} /\ (done \/ tasks[t].round = MaxSummaries)
  <2> DEFINE y == [tasks[t] EXCEPT !.left = {}, !.complete = done]
  <2>1. Continue(t, AskLists(y)) /\ asked' = asked + 1
    BY <1>8 DEF PollSummary, FinishedBy
  <2> HIDE DEF done
  <2>2. /\ y \in TaskRecord /\ y.kind = tasks[t].kind /\ y.ids = tasks[t].ids
        /\ y.started = tasks[t].started /\ y.complete = done /\ y.finished = tasks[t].finished
    BY <1>1, <1>2 DEF TaskRecord
  <2> HIDE DEF y
  <2>3. /\ IsTask(AskLists(y)) /\ AskLists(y).at = "refresh" /\ AskLists(y).since = asked + 1
        /\ AskLists(y).reads = Reads
    BY <2>2, AskListsTyped DEF TreeTyped
  <2>4. /\ AskLists(y).kind = y.kind /\ AskLists(y).ids = y.ids /\ AskLists(y).started = y.started
        /\ AskLists(y).complete = y.complete /\ AskLists(y).finished = y.finished
    BY <2>2, AskListsTyped DEF TreeTyped
  <2>5. TreeTyped' /\ Moved(t) /\ t \in TaskIds' /\ tasks'[t] = AskLists(y)
    BY <1>5, <2>1, <2>3
  <2> QED
    BY <1>3, <1>4, <2>1, <2>2, <2>3, <2>4, <2>5 DEF done
<1>9. CASE e \in nodesStored /\ left = {} /\ ~(done \/ tasks[t].round = MaxSummaries)
  <2> DEFINE x == [tasks[t] EXCEPT !.left = tasks[t].ids, !.finished = {}, !.round = tasks[t].round + 1]
  <2>1. Continue(t, x) /\ asked' = asked
    BY <1>9 DEF PollSummary, FinishedBy
  <2> HIDE DEF left, finished, done
  <2>0. tasks[t].round + 1 \in Nat /\ tasks[t].ids \in SUBSET Estimates /\ {} \in SUBSET Estimates
    BY <1>1, <1>2 DEF TaskRecord
  <2>2. /\ IsTask(x) /\ x.kind = tasks[t].kind /\ x.at = tasks[t].at /\ x.ids = tasks[t].ids
        /\ x.started = tasks[t].started /\ x.complete = tasks[t].complete /\ x.finished = {}
    BY <1>1, <2>0 DEF IsTask, TaskRecord, TotalsAreRead
  <2> HIDE DEF x
  <2> QED
    BY <1>3, <1>4, <1>5, <2>1, <2>2
<1> QED
  BY <1>6, <1>7, <1>8, <1>9

LEMMA CalculateTyped ==
  ASSUME TreeTyped, NEW e \in Estimates, CalculateEstimate(e)
  PROVE  TreeTyped'
<1>1. calcState[e] \in CalcRecord
  BY DEF TreeTyped
<1>2. /\ [calcState[e] EXCEPT !.status = "running"] \in CalcRecord
      /\ [calcState[e] EXCEPT !.status = "done", !.total = calcState[e].gen] \in CalcRecord
  BY <1>1 DEF CalcRecord
<1>3. calcState' \in [Estimates -> CalcRecord]
  BY <1>2 DEF CalculateEstimate, TreeTyped
<1> QED
  BY <1>3 DEF CalculateEstimate, TreeTyped, TaskIds

\* Which gesture is in which phase, and of which node.
Shape(t) ==
  /\ tasks[t].at = "post" => tasks[t].kind \in {"add", "create", "delete"}
  /\ tasks[t].at \in {"start", "poll"} => tasks[t].kind = "recalculate"
  /\ tasks[t].at = "cancel" => tasks[t].kind = "clear"
  /\ tasks[t].at = "answer" => tasks[t].kind \in Changes
  /\ AtWork(t) /\ tasks[t].kind \in {"add", "create", "delete"} => tasks[t].node \in Nodes
  /\ AtWork(t) /\ tasks[t].kind = "create" => tasks[t].node \in Estimates

TypeInv == TreeTyped /\ \A t \in TaskIds : Shape(t)

LEMMA TypeInvInit ==
  ASSUME TreeInit
  PROVE  TypeInv
<1>1. TaskIds = {} /\ tasks = <<>> /\ asked = 0
  <2>1. tasks = <<>> /\ asked = 0
    BY DEF TreeInit
  <2>2. Len(tasks) = 0
    BY <2>1
  <2> QED
    BY <2>1, <2>2 DEF TaskIds
<1>2. calcState \in [Estimates -> CalcRecord]
  BY DEF TreeInit, CalcRecord
<1>3. [e \in Estimates |-> calcState[e].total] \in Totals
  BY <1>2 DEF CalcRecord, Totals
<1>4. nodesStored \subseteq Nodes /\ opened \subseteq Estimates
  BY TreesAssumption DEF TreeInit, Nodes
<1>5. tree \in [nodes : SUBSET Nodes, totals : Totals]
  BY <1>3, <1>4 DEF TreeInit
<1> QED
  BY <1>1, <1>2, <1>4, <1>5 DEF TypeInv, TreeTyped

LEMMA ShapesKept ==
  ASSUME TypeInv, TreeTyped', NEW t, Moved(t), t \in TaskIds', Shape(t)'
  PROVE  TypeInv'
<1>1. ASSUME NEW u \in TaskIds', u # t
      PROVE  Shape(u)'
  BY <1>1 DEF Moved, TypeInv, Shape, AtWork
<1> QED
  BY <1>1 DEF TypeInv

LEMMA GesturesShape ==
  ASSUME TypeInv, NEW n, Gestured(n)
  PROVE  TypeInv'
<1>1. PICK new : new = New
  OBVIOUS
<1>2. TreeTyped' /\ Moved(new) /\ new \in TaskIds'
  BY <1>1, GesturesMove DEF TypeInv
<1>3. EstimatesUnder(n, tree.nodes) \in SUBSET Estimates /\ Unread \in Nodes \cup {Unread} /\ {} \in SUBSET Estimates
  BY DEF EstimatesUnder
<1>5. asked \in Nat /\ "look" \in Kinds /\ "add" \in Kinds /\ "create" \in Kinds /\ "delete" \in Kinds
      /\ "recalculate" \in Kinds /\ "clear" \in Kinds
      /\ "" \in Phases /\ "post" \in Phases /\ "start" \in Phases /\ "cancel" \in Phases
  BY DEF Kinds, Phases, TypeInv, TreeTyped
<1>6. Shape(new)'
  <2>1. CASE tasks'[new] = AskLists(Task("look", Unread, {}, ""))
    <3>0. /\ AskLists(Task("look", Unread, {}, "")).kind = "look"
          /\ AskLists(Task("look", Unread, {}, "")).at = "refresh"
      BY DEF AskLists, Task
    <3>1. tasks'[new].kind = "look" /\ tasks'[new].at = "refresh"
      BY <2>1, <3>0
    <3> QED
      BY <3>1 DEF Shape
  <2>2. CASE n \in Nodes /\ CreateEstimate(n) /\ tasks'[new] = AskLists(Task("create", n, {}, ""))
    <3>2. n \in Nodes \cup {Unread}
      BY <2>2
    <3>0. LET x == AskLists(Task("create", n, {}, "")) IN x.kind = "create" /\ x.at = "refresh" /\ x.node = n
      BY DEF AskLists, Task
    <3>1. tasks'[new].kind = "create" /\ tasks'[new].at = "refresh" /\ tasks'[new].node = n
      BY <2>2, <3>0
    <3> QED
      BY <2>2, <3>1 DEF Shape, CreateEstimate
  <2>3. CASE n \in Nodes /\ tasks'[new] \in {Task("add", n, {}, "post"), Task("delete", n, {}, "post")}
    <3>1. tasks'[new].kind \in {"add", "delete"} /\ tasks'[new].at = "post" /\ tasks'[new].node = n
      BY <2>3 DEF Task
    <3> QED
      BY <2>3, <3>1 DEF Shape
  <2>4. CASE /\ n \in Nodes
             /\ \/ tasks'[new] = Task("recalculate", n, EstimatesUnder(n, tree.nodes), "start")
                \/ tasks'[new] = Task("clear", n, EstimatesUnder(n, tree.nodes), "cancel")
    <3>1. \/ tasks'[new].kind = "recalculate" /\ tasks'[new].at = "start"
          \/ tasks'[new].kind = "clear" /\ tasks'[new].at = "cancel"
      <4> DEFINE ids == EstimatesUnder(n, tree.nodes)
      <4>1. ids \in SUBSET Estimates /\ n \in Nodes \cup {Unread}
        BY <1>3, <2>4
      <4> HIDE DEF ids
      <4>2. /\ Task("recalculate", n, ids, "start").kind = "recalculate" /\ Task("recalculate", n, ids, "start").at = "start"
            /\ Task("clear", n, ids, "cancel").kind = "clear" /\ Task("clear", n, ids, "cancel").at = "cancel"
        BY DEF Task
      <4> QED
        BY <2>4, <4>2 DEF ids
    <3> QED
      BY <3>1 DEF Shape
  <2> QED
    BY <1>1, <2>1, <2>2, <2>3, <2>4, GesturesMove DEF TypeInv
<1> QED
  BY <1>2, <1>6, ShapesKept

LEMMA TaskStepsShape ==
  ASSUME TypeInv, NEW t \in TaskIds,
         \/ PostNode(t) \/ PostDelete(t) \/ AfterChange(t) \/ TakeLists(t)
         \/ \E list \in ListNames : AnswerList(t, list)
         \/ \E e \in Estimates : PostStart(t, e) \/ PollSummary(t, e) \/ PostCancel(t, e)
  PROVE  TypeInv'
<1>1. tasks[t] \in TaskRecord /\ Shape(t) /\ TreeTyped
  BY AskingTyped DEF IsTask, TypeInv
<1>2. /\ AskLists(tasks[t]).kind = tasks[t].kind /\ AskLists(tasks[t]).node = tasks[t].node
      /\ AskLists(tasks[t]).at = "refresh"
      /\ Ended(tasks[t]).kind = tasks[t].kind /\ Ended(tasks[t]).at = "end"
  BY <1>1, AskListsTyped, EndedTyped DEF TreeTyped
<1>3. CASE PostNode(t) \/ PostDelete(t) \/ AfterChange(t)
  <2>1. tasks[t].at = "post" => tasks[t].node \in Nodes
    BY <1>1 DEF Shape, AtWork
  <2>2. /\ TreeTyped' /\ Moved(t) /\ t \in TaskIds'
        /\ \/ tasks[t].at = "post" /\ tasks'[t] = [tasks[t] EXCEPT !.at = "answer"]
           \/ tasks[t].at = "post" /\ tasks'[t] = Ended(tasks[t])
           \/ AfterChange(t) /\ tasks'[t] = AskLists(tasks[t])
    BY <1>1, <1>3, <2>1, ChangesMove
  <2>3. CASE tasks[t].at = "post" /\ tasks'[t] = [tasks[t] EXCEPT !.at = "answer"]
    <3>1. tasks'[t].kind = tasks[t].kind /\ tasks'[t].node = tasks[t].node /\ tasks'[t].at = "answer"
      BY <1>1, <2>3 DEF TaskRecord
    <3>2. Shape(t)'
      BY <1>1, <2>3, <3>1 DEF Shape, AtWork, Changes
    <3> QED
      BY <2>2, <3>2, ShapesKept
  <2>4. CASE tasks'[t] = Ended(tasks[t])
    <3>1. Shape(t)'
      BY <1>2, <2>4 DEF Shape, AtWork
    <3> QED
      BY <2>2, <3>1, ShapesKept
  <2>5. CASE AfterChange(t) /\ tasks'[t] = AskLists(tasks[t])
    <3>1. Shape(t)'
      BY <1>1, <1>2, <2>5 DEF Shape, AtWork, AfterChange
    <3> QED
      BY <2>2, <3>1, ShapesKept
  <2> QED
    BY <2>2, <2>3, <2>4, <2>5
<1>4. CASE TakeLists(t)
  <2>1. TreeTyped' /\ tasks[t].at = "refresh"
    BY <1>1, <1>4, TakeListsTyped, TakeListsMoves DEF Shape, AtWork
  <2>2. /\ Moved(t) /\ t \in TaskIds'
        /\ tasks'[t] = IF tasks[t].kind = "create" /\ tasks[t].round = 1
                       THEN [[tasks[t] EXCEPT !.at = "post"] EXCEPT !.round = 2] ELSE Ended(tasks[t])
    BY <1>1, <1>4, TakeListsMoves
  <2>3. LET x == [[tasks[t] EXCEPT !.at = "post"] EXCEPT !.round = 2] IN
        x.kind = tasks[t].kind /\ x.node = tasks[t].node /\ x.at = "post"
    BY <1>1 DEF TaskRecord
  <2>4. Shape(t)'
    BY <1>1, <1>2, <2>1, <2>2, <2>3 DEF Shape, AtWork
  <2> QED
    BY <2>1, <2>2, <2>4, ShapesKept
<1>5. ASSUME NEW list \in ListNames, AnswerList(t, list)
      PROVE  TypeInv'
  <2>1. /\ TreeTyped' /\ Moved(t) /\ t \in TaskIds'
        /\ tasks'[t] = [tasks[t] EXCEPT !.reads[list] = nodesStored \cap Lists[list],
             !.totals = IF list = "estimates" THEN [e \in Estimates |-> TotalOf(calcState[e])] ELSE @]
    BY <1>1, <1>5, AnswerListMoves
  <2>2. tasks'[t].kind = tasks[t].kind /\ tasks'[t].node = tasks[t].node /\ tasks'[t].at = tasks[t].at
    BY <1>1, <2>1 DEF TaskRecord
  <2>3. Shape(t)'
    BY <1>1, <2>2 DEF Shape, AtWork
  <2> QED
    BY <2>1, <2>3, ShapesKept
<1>6. ASSUME NEW e \in Estimates, PostStart(t, e)
      PROVE  TypeInv'
  <2>1. /\ TreeTyped' /\ Moved(t) /\ t \in TaskIds'
        /\ tasks'[t].kind = "recalculate" /\ tasks'[t].at \in {"end", "poll", "start"}
    <3>1. /\ TreeTyped' /\ Moved(t) /\ t \in TaskIds' /\ tasks[t].kind = "recalculate"
          /\ \/ tasks'[t].kind = "recalculate" /\ tasks'[t].at = "end"
             \/ tasks'[t] = StartedTask(t, e)
      BY <1>1, <1>6, PostStartMoves
    <3>2. StartedTask(t, e).kind = tasks[t].kind /\ StartedTask(t, e).at \in {"poll", "start"}
      BY <1>1, StartedTaskTyped
    <3> QED
      BY <3>1, <3>2
  <2>2. Shape(t)'
    BY <2>1 DEF Shape, AtWork
  <2> QED
    BY <2>1, <2>2, ShapesKept
<1>7. ASSUME NEW e \in Estimates, PollSummary(t, e)
      PROVE  TypeInv'
  <2>1. /\ TreeTyped' /\ Moved(t) /\ t \in TaskIds' /\ tasks[t].at = "poll"
        /\ tasks'[t].kind = tasks[t].kind /\ tasks'[t].at \in {"end", "poll", "refresh"}
    BY <1>1, <1>7, PollSummaryMoves
  <2>2. Shape(t)'
    BY <1>1, <2>1 DEF Shape, AtWork
  <2> QED
    BY <2>1, <2>2, ShapesKept
<1>8. ASSUME NEW e \in Estimates, PostCancel(t, e)
      PROVE  TypeInv'
  <2>1. /\ TreeTyped' /\ Moved(t) /\ t \in TaskIds' /\ tasks[t].at = "cancel"
        /\ tasks'[t].kind = tasks[t].kind /\ tasks'[t].at \in {"end", "answer", "cancel"}
    BY <1>1, <1>8, PostCancelMoves
  <2>2. Shape(t)'
    BY <1>1, <2>1 DEF Shape, AtWork, Changes
  <2> QED
    BY <2>1, <2>2, ShapesKept
<1> QED
  BY <1>3, <1>4, <1>5, <1>6, <1>7, <1>8

\* TreeNext once more, with its disjuncts sorted.
LEMMA StepsAre ==
  ASSUME [TreeNext]_treeVars
  PROVE  \/ \E n \in Nodes \cup {Unread} : Gestured(n)
         \/ \E t \in TaskIds :
              \/ PostNode(t) \/ PostDelete(t) \/ AfterChange(t) \/ TakeLists(t)
              \/ \E list \in ListNames : AnswerList(t, list)
              \/ \E e \in Estimates : PostStart(t, e) \/ PollSummary(t, e) \/ PostCancel(t, e)
         \/ \E e \in Estimates : CalculateEstimate(e)
         \/ UNCHANGED treeVars
BY ListsAre DEF TreeNext, Gestured

LEMMA TypeInvNext ==
  ASSUME TypeInv, [TreeNext]_treeVars
  PROVE  TypeInv'
<1>1. ASSUME NEW e \in Estimates, CalculateEstimate(e)
      PROVE  TypeInv'
  BY <1>1, CalculateTyped DEF TypeInv, Shape, AtWork, CalculateEstimate, TaskIds
<1>2. CASE UNCHANGED treeVars
  BY <1>2 DEF treeVars, TypeInv, TreeTyped, Shape, AtWork, TaskIds, TotalsAreRead
<1> QED
  BY <1>1, <1>2, StepsAre, GesturesShape, TaskStepsShape

-----------------------------------------------------------------------------
(* With the lists answered in order and one change at a time: what the     *)
(* page has, and what it has asked for.                                    *)

Consistent(t) == \A list \in ListNames : tasks[t].reads[list] \in {Unread, nodesStored \cap Lists[list]}
Asking(t) == tasks[t].at = "refresh"
Kind(t) == tasks[t].kind

\* The reads of the lists are numbered in the order they were asked for.
InTurn ==
  /\ \A t \in TaskIds : Asking(t) => tasks[t].since <= asked
  /\ \A t, u \in TaskIds : Asking(t) /\ Asking(u) /\ tasks[t].since = tasks[u].since => t = u

OneChange == \A t, u \in TaskIds : AtWork(t) /\ AtWork(u) /\ Kind(t) \in Changes /\ Kind(u) \in Changes => t = u

ChangesReadFresh == \A t \in TaskIds : Kind(t) \in Changes /\ Asking(t) => Consistent(t)

\* From t's read on, every read that is under way answers with the server's nodes.
FreshFrom(t) == Asking(t) /\ \A u \in TaskIds : Asking(u) /\ tasks[u].since >= tasks[t].since => Consistent(u)

\* Either the tree is the server's, or a read that will make it so is under way or due.
SoonFresh ==
  \/ \E t \in TaskIds : tasks[t].at = "answer"
  \/ \E t \in TaskIds : FreshFrom(t)
  \/ tree.nodes = nodesStored /\ \A u \in TaskIds : Asking(u) => Consistent(u)

\* What t's deletion has still to close.
Doomed(t) ==
  IF Kind(t) = "delete" /\ (tasks[t].at = "answer" \/ (Asking(t) /\ tasks[t].node \notin Estimates))
  THEN Cascade(tasks[t].node) ELSE {}
OpenInv == \A e \in opened : e \in nodesStored \/ \E t \in TaskIds : e \in Doomed(t)

Created(t) ==
  Kind(t) = "create" =>
    /\ tasks[t].at \in {"post", "answer"} => tasks[t].round = 2
    /\ tasks[t].at = "answer" \/ (Asking(t) /\ tasks[t].round = 2) => tasks[t].node \in nodesStored

TreeInv ==
  /\ InTurn /\ OneChange /\ ChangesReadFresh /\ SoonFresh /\ OpenInv
  /\ \A t \in TaskIds : Created(t)

\* The change t is at work alone.
AloneNext(t) ==
  tasks'[t].kind \in Changes /\ tasks'[t].at # "end" =>
    \A u \in TaskIds : u # t /\ Kind(u) \in Changes => ~AtWork(u)

LEMMA TreeInvInit ==
  ASSUME TreeInit
  PROVE  TreeInv
<1>1. TaskIds = {} /\ tree.nodes = nodesStored /\ opened \subseteq nodesStored
  <2>1. tasks = <<>> /\ tree.nodes = nodesStored /\ opened \subseteq nodesStored
    BY DEF TreeInit
  <2>2. Len(tasks) = 0
    BY <2>1
  <2> QED
    BY <2>1, <2>2 DEF TaskIds
<1> QED
  BY <1>1 DEF TreeInv, InTurn, OneChange, ChangesReadFresh, SoonFresh, OpenInv

\* Of the changes at work there is still one.
LEMMA OneChangeKept ==
  ASSUME OneChange, NEW t, Moved(t), AloneNext(t)
  PROVE  OneChange'
<1>1. ASSUME NEW u \in TaskIds', NEW w \in TaskIds', (AtWork(u) /\ AtWork(w) /\ Kind(u) \in Changes /\ Kind(w) \in Changes)'
      PROVE  u = w
  <2>1. \A v \in TaskIds' : v # t => v \in TaskIds /\ tasks'[v] = tasks[v]
    BY DEF Moved
  <2>2. CASE u # t /\ w # t
    BY <1>1, <2>1, <2>2 DEF OneChange, AtWork, Kind
  <2>3. CASE u = t /\ w # t
    BY <1>1, <2>1, <2>3 DEF AloneNext, AtWork, Kind
  <2>4. CASE u # t /\ w = t
    BY <1>1, <2>1, <2>4 DEF AloneNext, AtWork, Kind
  <2> QED
    BY <2>2, <2>3, <2>4
<1> QED
  BY <1>1 DEF OneChange

\* A step of t that has to do with no read and no change of the nodes.
LEMMA ApartKept ==
  ASSUME TypeInv, TreeInv, NEW t, Moved(t), t \in TaskIds', AloneNext(t),
         nodesStored' = nodesStored, tree'.nodes = tree.nodes, opened' = opened, asked' = asked,
         tasks'[t].at \notin {"answer", "refresh"}, tasks'[t].at = "post" => tasks'[t].kind # "create",
         t \in TaskIds => tasks[t].at \notin {"answer", "refresh"}
  PROVE  TreeInv'
<1>1. \A u \in TaskIds' : u # t => u \in TaskIds /\ tasks'[u] = tasks[u]
  BY DEF Moved
<1>2. \A u \in TaskIds : u # t => u \in TaskIds' /\ tasks'[u] = tasks[u]
  BY DEF Moved
<1>3. InTurn'
  BY <1>1 DEF TreeInv, InTurn, Asking
<1>4. OneChange'
  BY OneChangeKept DEF TreeInv
<1>5. \A u \in TaskIds' : Asking(u)' => u \in TaskIds /\ Asking(u) /\ tasks'[u] = tasks[u] /\ (Consistent(u)' <=> Consistent(u))
  BY <1>1 DEF Asking, Consistent
<1>6. ChangesReadFresh'
  BY <1>5 DEF TreeInv, ChangesReadFresh, Kind
<1>7. SoonFresh'
  <2>1. CASE \E u \in TaskIds : tasks[u].at = "answer"
    BY <1>2, <2>1 DEF SoonFresh
  <2>2. CASE \E u \in TaskIds : FreshFrom(u)
    <3>1. PICK u \in TaskIds : FreshFrom(u)
      BY <2>2
    <3>2. u # t /\ u \in TaskIds' /\ tasks'[u] = tasks[u]
      BY <1>2, <3>1 DEF FreshFrom, Asking
    <3>3. FreshFrom(u)'
      BY <1>5, <3>1, <3>2 DEF FreshFrom, Asking
    <3> QED
      BY <3>2, <3>3 DEF SoonFresh
  <2>3. CASE tree.nodes = nodesStored /\ \A u \in TaskIds : Asking(u) => Consistent(u)
    BY <1>5, <2>3 DEF SoonFresh
  <2> QED
    BY <2>1, <2>2, <2>3 DEF TreeInv, SoonFresh
<1>8. OpenInv'
  <2>1. \A u \in TaskIds : Doomed(u) # {} => u # t
    BY DEF Doomed, Asking
  <2>2. \A u \in TaskIds : u # t => u \in TaskIds' /\ Doomed(u)' = Doomed(u)
    BY <1>2 DEF Doomed, Asking, Kind
  <2> QED
    BY <2>1, <2>2 DEF TreeInv, OpenInv
<1>9. ASSUME NEW u \in TaskIds'
      PROVE  Created(u)'
  BY <1>1, <1>9 DEF TreeInv, Created, Asking, Kind
<1> QED
  BY <1>3, <1>4, <1>6, <1>7, <1>8, <1>9 DEF TreeInv

\* A step of t that asks for the lists.
LEMMA AskedKept ==
  ASSUME TypeInv, TreeInv, NEW t, Moved(t), t \in TaskIds', AloneNext(t),
         nodesStored' = nodesStored, asked' = asked + 1,
         tasks'[t].at = "refresh", tasks'[t].since = asked + 1, tasks'[t].reads = Reads,
         OpenInv', Created(t)'
  PROVE  TreeInv'
<1>0. asked \in Nat /\ \A u \in TaskIds : tasks[u].since \in Nat
  <2>1. \A u \in TaskIds : tasks[u] \in TaskRecord
    BY AskingTyped DEF TypeInv, IsTask
  <2> QED
    BY <2>1 DEF TypeInv, TreeTyped, TaskRecord
<1>1. \A u \in TaskIds' : u # t => u \in TaskIds /\ tasks'[u] = tasks[u]
  BY DEF Moved
<1>2. \A u \in TaskIds' : Asking(u)' /\ u # t => tasks'[u].since <= asked
  BY <1>1 DEF TreeInv, InTurn, Asking
<1>3. InTurn'
  <2>1. \A u \in TaskIds' : Asking(u)' => tasks'[u].since <= asked'
    BY <1>0, <1>1, <1>2
  <2>2. ASSUME NEW u \in TaskIds', NEW w \in TaskIds', (Asking(u) /\ Asking(w) /\ tasks[u].since = tasks[w].since)'
        PROVE  u = w
    <3>1. CASE u # t /\ w # t
      BY <1>1, <2>2, <3>1 DEF TreeInv, InTurn, Asking
    <3>2. CASE u = t \/ w = t
      BY <1>0, <1>1, <1>2, <2>2, <3>2
    <3> QED
      BY <3>1, <3>2
  <2> QED
    BY <2>1, <2>2 DEF InTurn
<1>4. OneChange'
  BY OneChangeKept DEF TreeInv
<1>5. Consistent(t)'
  BY ListsAre DEF Consistent
<1>6. ChangesReadFresh'
  <2>1. ASSUME NEW u \in TaskIds', (Kind(u) \in Changes /\ Asking(u))', u # t
        PROVE  Consistent(u)'
    <3>1. u \in TaskIds /\ tasks'[u] = tasks[u] /\ Kind(u) \in Changes /\ Asking(u)
      BY <1>1, <2>1 DEF Kind, Asking
    <3>2. Consistent(u)
      BY <3>1 DEF TreeInv, ChangesReadFresh
    <3> QED
      BY <3>1, <3>2 DEF Consistent
  <2> QED
    BY <1>5, <2>1 DEF ChangesReadFresh
<1>7. SoonFresh'
  <2>1. \A u \in TaskIds' : Asking(u)' /\ tasks'[u].since >= tasks'[t].since => u = t
    BY <1>0, <1>1, <1>2
  <2>2. FreshFrom(t)'
    BY <1>5, <2>1 DEF FreshFrom, Asking
  <2> QED
    BY <2>2 DEF SoonFresh
<1>8. ASSUME NEW u \in TaskIds'
      PROVE  Created(u)'
  BY <1>1, <1>8 DEF TreeInv, Created, Asking, Kind
<1> QED
  BY <1>3, <1>4, <1>6, <1>7, <1>8 DEF TreeInv

\* A step of t that waits for the answer of a change.
LEMMA ChangedKept ==
  ASSUME TypeInv, TreeInv, NEW t \in TaskIds, Moved(t), t \in TaskIds', asked' = asked,
         tasks'[t].at = "answer", tasks'[t].kind = tasks[t].kind, tasks'[t].kind \in Changes,
         tasks[t].at \notin {"end", "refresh"},
         OpenInv', Created(t)'
  PROVE  TreeInv'
<1>1. \A u \in TaskIds' : u # t => u \in TaskIds /\ tasks'[u] = tasks[u] /\ (Kind(u) \in Changes => ~AtWork(u))
  BY DEF Moved, TreeInv, OneChange, AtWork, Kind
<1>2. InTurn'
  BY <1>1 DEF TreeInv, InTurn, Asking
<1>3. OneChange'
  BY <1>1, OneChangeKept DEF TreeInv, AloneNext, Moved
<1>4. ChangesReadFresh'
  BY <1>1 DEF ChangesReadFresh, Asking, AtWork, Kind
<1>5. SoonFresh'
  BY DEF SoonFresh
<1>6. ASSUME NEW u \in TaskIds'
      PROVE  Created(u)'
  <2>1. CASE u # t
    BY <1>1, <2>1 DEF Created, Asking, Kind, AtWork, Changes
  <2> QED
    BY <2>1
<1> QED
  BY <1>2, <1>3, <1>4, <1>5, <1>6 DEF TreeInv

\* A list that is answered has the server's nodes.
LEMMA AnswerKept ==
  ASSUME TypeInv, TreeInv, NEW t \in TaskIds, NEW list \in ListNames, AnswerList(t, list)
  PROVE  TreeInv'
<1>1. /\ Moved(t) /\ TaskIds' = TaskIds
      /\ tasks'[t] = [tasks[t] EXCEPT !.reads[list] = nodesStored \cap Lists[list],
           !.totals = IF list = "estimates" THEN [e \in Estimates |-> TotalOf(calcState[e])] ELSE @]
  BY AnswerListMoves DEF TypeInv, Moved
<1>2. UNCHANGED <<nodesStored, tree, opened, asked>> /\ Asking(t)
  BY DEF AnswerList, Asking
<1>3. tasks[t] \in TaskRecord
  BY AskingTyped DEF TypeInv, IsTask
<1>4. /\ tasks'[t].at = tasks[t].at /\ tasks'[t].kind = tasks[t].kind /\ tasks'[t].node = tasks[t].node
      /\ tasks'[t].round = tasks[t].round /\ tasks'[t].since = tasks[t].since
      /\ tasks'[t].reads = [tasks[t].reads EXCEPT ![list] = nodesStored \cap Lists[list]]
  BY <1>1, <1>3 DEF TaskRecord
<1>5. Consistent(t) => Consistent(t)'
  BY <1>2, <1>3, <1>4 DEF Consistent, TaskRecord
<1>6. \A u \in TaskIds :
        /\ tasks'[u].at = tasks[u].at /\ tasks'[u].kind = tasks[u].kind /\ tasks'[u].node = tasks[u].node
        /\ tasks'[u].round = tasks[u].round /\ tasks'[u].since = tasks[u].since
        /\ Consistent(u) => Consistent(u)'
  BY <1>1, <1>2, <1>4, <1>5 DEF Moved, Consistent
<1>7. InTurn'
  BY <1>1, <1>2, <1>6 DEF TreeInv, InTurn, Asking
<1>8. OneChange'
  BY <1>1, <1>6 DEF TreeInv, OneChange, AtWork, Kind
<1>9. ChangesReadFresh'
  BY <1>1, <1>6 DEF TreeInv, ChangesReadFresh, Asking, Kind
<1>10. SoonFresh'
  <2>1. CASE \E u \in TaskIds : tasks[u].at = "answer"
    BY <1>1, <1>6, <2>1 DEF SoonFresh
  <2>2. ASSUME NEW u \in TaskIds, FreshFrom(u)
        PROVE  FreshFrom(u)'
    BY <1>1, <1>6, <2>2 DEF FreshFrom, Asking
  <2>3. CASE tree.nodes = nodesStored /\ \A u \in TaskIds : Asking(u) => Consistent(u)
    BY <1>1, <1>2, <1>6, <2>3 DEF SoonFresh, Asking
  <2> QED
    BY <1>1, <2>1, <2>2, <2>3 DEF TreeInv, SoonFresh
<1>11. OpenInv'
  <2>1. \A u \in TaskIds : Doomed(u)' = Doomed(u)
    BY <1>6 DEF Doomed, Asking, Kind
  <2> QED
    BY <1>1, <1>2, <2>1 DEF TreeInv, OpenInv
<1>12. \A u \in TaskIds' : Created(u)'
  BY <1>1, <1>2, <1>6 DEF TreeInv, Created, Asking, Kind
<1> QED
  BY <1>7, <1>8, <1>9, <1>10, <1>11, <1>12 DEF TreeInv

\* The lists of a read whose answers are the server's nodes are all the server's nodes.
LEMMA AnswersAreTheNodes ==
  ASSUME TypeInv, NEW t \in TaskIds, Consistent(t), \A list \in ListNames : tasks[t].reads[list] # Unread
  PROVE  Answered(t) = nodesStored
<1>1. \A list \in ListNames : tasks[t].reads[list] = nodesStored \cap Lists[list]
  BY DEF Consistent
<1>2. nodesStored \subseteq Lists["upper"] \cup Lists["estimates"]
  BY ListsAre DEF TypeInv, TreeTyped, Nodes
<1>3. ASSUME NEW n \in nodesStored
      PROVE  n \in Answered(t)
  <2>1. PICK list \in ListNames : n \in Lists[list]
    BY <1>2 DEF ListNames
  <2>2. n \in tasks[t].reads[list]
    BY <1>1, <2>1
  <2> QED
    BY <2>2 DEF Answered
<1>4. ASSUME NEW n \in Answered(t)
      PROVE  n \in nodesStored
  BY <1>1, <1>4 DEF Answered
<1> QED
  BY <1>3, <1>4

\* The lists are taken over in the order they were asked for.
LEMMA TakenKept ==
  ASSUME TypeInv, TreeInv, "late" \notin Mishaps, NEW t \in TaskIds, TakeLists(t)
  PROVE  TreeInv'
<1>1. /\ Moved(t) /\ TaskIds' = TaskIds
      /\ tasks'[t] = IF tasks[t].kind = "create" /\ tasks[t].round = 1
                     THEN [[tasks[t] EXCEPT !.at = "post"] EXCEPT !.round = 2] ELSE Ended(tasks[t])
      /\ Asking(t) /\ \A list \in ListNames : tasks[t].reads[list] # Unread
      /\ tree' = [nodes |-> Answered(t), totals |-> tasks[t].totals]
  BY TakeListsMoves DEF TypeInv, Asking, Moved
<1>2. UNCHANGED <<nodesStored, asked>> /\ \A u \in TaskIds : Asking(u) => tasks[u].since >= tasks[t].since
  BY DEF TakeLists, Refreshing, Asking
<1>3. tasks[t] \in TaskRecord
  BY AskingTyped DEF TypeInv, IsTask
<1>4. /\ tasks'[t].kind = tasks[t].kind
      /\ \/ tasks'[t].at = "end"
         \/ Kind(t) = "create" /\ tasks'[t].at = "post" /\ tasks'[t].round = 2
  BY <1>1, <1>3, EndedTyped DEF TaskRecord, Kind
<1>5. \A u \in TaskIds : u # t => tasks'[u] = tasks[u] /\ (Consistent(u)' <=> Consistent(u))
  BY <1>1, <1>2 DEF Moved, Consistent
<1>6. ~Asking(t)' /\ tasks'[t].at # "answer"
  BY <1>4 DEF Asking
<1>7. Consistent(t) => tree'.nodes = nodesStored
  BY <1>1, AnswersAreTheNodes
<1>8. AloneNext(t)
  BY <1>1, <1>4 DEF AloneNext, TreeInv, OneChange, AtWork, Kind, Asking
<1>9. InTurn'
  <2>1. \A u \in TaskIds' : Asking(u)' => u \in TaskIds /\ Asking(u) /\ tasks'[u] = tasks[u]
    BY <1>1, <1>5, <1>6 DEF Asking
  <2> QED
    BY <1>2, <2>1 DEF TreeInv, InTurn
<1>10. OneChange'
  BY <1>1, <1>8, OneChangeKept DEF TreeInv
<1>11. ChangesReadFresh'
  BY <1>1, <1>5, <1>6 DEF TreeInv, ChangesReadFresh, Asking, Kind
<1>12. SoonFresh'
  <2>1. CASE \E u \in TaskIds : tasks[u].at = "answer"
    <3>1. PICK u \in TaskIds : tasks[u].at = "answer"
      BY <2>1
    <3>2. u # t
      BY <1>1, <3>1 DEF Asking
    <3> QED
      BY <1>1, <1>5, <3>1, <3>2 DEF SoonFresh
  <2>2. CASE \E w \in TaskIds : FreshFrom(w) /\ w # t
    <3>1. PICK w \in TaskIds : FreshFrom(w) /\ w # t
      BY <2>2
    <3>2. FreshFrom(w)'
      BY <1>1, <1>5, <1>6, <3>1 DEF FreshFrom, Asking
    <3> QED
      BY <1>1, <3>1, <3>2 DEF SoonFresh
  <2>3. CASE \A u \in TaskIds : Asking(u) => Consistent(u)
    BY <1>1, <1>2, <1>5, <1>6, <1>7, <2>3 DEF SoonFresh, Asking
  <2>4. FreshFrom(t) => \A u \in TaskIds : Asking(u) => Consistent(u)
    BY <1>2 DEF FreshFrom
  <2> QED
    BY <2>1, <2>2, <2>3, <2>4 DEF TreeInv, SoonFresh
<1>13. OpenInv'
  <2>1. \A u \in TaskIds : u # t => Doomed(u)' = Doomed(u)
    BY <1>5 DEF Doomed, Asking, Kind
  <2>2. CASE Kind(t) = "delete" /\ tasks[t].node \notin Estimates
    <3>1. Consistent(t)
      BY <1>1, <2>2 DEF TreeInv, ChangesReadFresh, Changes
    <3>2. opened' = opened \cap nodesStored
      <4>1. opened' = opened \cap tree'.nodes
        BY <1>1, <2>2 DEF TakeLists, Pruned, Kind
      <4> QED
        BY <1>7, <3>1, <4>1
    <3> QED
      BY <1>2, <3>2 DEF OpenInv
  <2>3. CASE ~(Kind(t) = "delete" /\ tasks[t].node \notin Estimates)
    <3>1. Doomed(t) = {}
      BY <1>1, <2>3 DEF Doomed, Asking
    <3>2. opened' = opened \/ (opened' = opened \cup {tasks[t].node} /\ Kind(t) = "create" /\ tasks[t].round = 2)
      BY <2>3 DEF TakeLists, Kind
    <3>3. \A e \in opened' : e \in opened \/ e \in nodesStored
      BY <1>1, <3>2 DEF TreeInv, Created
    <3> QED
      BY <1>1, <1>2, <2>1, <3>1, <3>3 DEF TreeInv, OpenInv
  <2> QED
    BY <2>2, <2>3
<1>14. ASSUME NEW u \in TaskIds
       PROVE  Created(u)'
  <2>1. CASE u = t
    BY <1>4, <1>6, <2>1 DEF Created
  <2>2. CASE u # t
    BY <1>2, <1>5, <2>2 DEF TreeInv, Created, Asking, Kind
  <2> QED
    BY <2>1, <2>2
<1> QED
  BY <1>1, <1>9, <1>10, <1>11, <1>12, <1>13, <1>14 DEF TreeInv

\* What t closes, and what it has yet to close.
LEMMA OpensKept ==
  ASSUME OpenInv, NEW t, Moved(t), t \in TaskIds', opened' \subseteq opened,
         \A n \in nodesStored : n \in nodesStored' \/ n \in Doomed(t)',
         t \in TaskIds => \A e \in opened' : e \in Doomed(t) => e \in Doomed(t)'
  PROVE  OpenInv'
<1>1. \A u \in TaskIds : u # t => u \in TaskIds' /\ Doomed(u)' = Doomed(u)
  BY DEF Moved, Doomed, Asking, Kind
<1>2. ASSUME NEW e \in opened'
      PROVE  e \in nodesStored' \/ \E u \in TaskIds' : e \in Doomed(u)'
  <2>1. CASE e \in nodesStored
    BY <2>1
  <2>2. CASE \E u \in TaskIds : e \in Doomed(u)
    <3>1. PICK u \in TaskIds : e \in Doomed(u)
      BY <2>2
    <3>2. CASE u = t
      BY <3>1, <3>2
    <3>3. CASE u # t
      BY <1>1, <3>1, <3>3
    <3> QED
      BY <3>2, <3>3
  <2> QED
    BY <2>1, <2>2 DEF OpenInv
<1> QED
  BY <1>2 DEF OpenInv

LEMMA GesturesKept ==
  ASSUME TypeInv, TreeInv, "rush" \notin Mishaps, NEW n, Gestured(n)
  PROVE  TreeInv'
<1>1. PICK new : new = New
  OBVIOUS
<1>2. Moved(new) /\ new \in TaskIds' /\ new \notin TaskIds
  BY <1>1, GesturesMove DEF TypeInv
<1>3. UNCHANGED <<nodesStored, tree, opened>>
  BY DEF Gestured, OpenSection, AddNode, CreateEstimate, AskDelete, RecalculateScope, Clear
<1>4. OpenInv'
  BY <1>2, <1>3, OpensKept DEF TreeInv
<1>5. ASSUME NEW x, Begin(x), tasks'[new].kind = x.kind
      PROVE  AloneNext(new)
  <2>1. x.kind \in Changes => \A u \in TaskIds : ~(AtWork(u) /\ tasks[u].kind \in Changes)
    BY <1>5 DEF Begin, Waits
  <2> QED
    BY <1>5, <2>1 DEF AloneNext, Kind
<1>6. CASE OpenSection /\ tasks'[new] = AskLists(Task("look", Unread, {}, ""))
  <2> DEFINE x == AskLists(Task("look", Unread, {}, ""))
  <2>1. x.kind = "look" /\ x.at = "refresh" /\ x.since = asked + 1 /\ x.reads = Reads
    BY DEF AskLists, Task
  <2>2. Begin(x) /\ asked' = asked + 1
    BY <1>6 DEF OpenSection
  <2> HIDE DEF x
  <2>3. AloneNext(new) /\ tasks'[new] = x
    BY <1>5, <1>6, <2>2 DEF x
  <2>4. Created(new)'
    BY <2>1, <2>3 DEF Created, Kind
  <2> QED
    BY <1>2, <1>3, <1>4, <2>1, <2>2, <2>3, <2>4, AskedKept
<1>7. CASE CreateEstimate(n) /\ tasks'[new] = AskLists(Task("create", n, {}, ""))
  <2> DEFINE x == AskLists(Task("create", n, {}, ""))
  <2>1. x.kind = "create" /\ x.at = "refresh" /\ x.since = asked + 1 /\ x.reads = Reads /\ x.round = 1
    BY DEF AskLists, Task
  <2>2. Begin(x) /\ asked' = asked + 1
    BY <1>7 DEF CreateEstimate
  <2> HIDE DEF x
  <2>3. AloneNext(new) /\ tasks'[new] = x
    BY <1>5, <1>7, <2>2 DEF x
  <2>4. Created(new)'
    BY <2>1, <2>3 DEF Created, Kind
  <2> QED
    BY <1>2, <1>3, <1>4, <2>1, <2>2, <2>3, <2>4, AskedKept
<1>8. ASSUME NEW x, Begin(x), tasks'[new] = x, asked' = asked, x.at \in {"post", "start", "cancel"},
             x.kind # "create"
      PROVE  TreeInv'
  <2>1. AloneNext(new)
    BY <1>5, <1>8
  <2> QED
    BY <1>2, <1>3, <1>8, <2>1, ApartKept
<1>9. CASE AddNode(n) /\ tasks'[new] = Task("add", n, {}, "post")
  <2>1. Task("add", n, {}, "post").at = "post" /\ Task("add", n, {}, "post").kind = "add"
    BY DEF Task
  <2> QED
    BY <1>8, <1>9, <2>1 DEF AddNode
<1>10. CASE AskDelete(n) /\ tasks'[new] = Task("delete", n, {}, "post")
  <2>1. Task("delete", n, {}, "post").at = "post" /\ Task("delete", n, {}, "post").kind = "delete"
    BY DEF Task
  <2> QED
    BY <1>8, <1>10, <2>1 DEF AskDelete
<1>11. CASE RecalculateScope(n) /\ tasks'[new] = Task("recalculate", n, EstimatesUnder(n, tree.nodes), "start")
  <2> DEFINE x == Task("recalculate", n, EstimatesUnder(n, tree.nodes), "start")
  <2>1. x.at = "start" /\ x.kind = "recalculate"
    BY DEF Task
  <2>2. Begin(x) /\ asked' = asked
    BY <1>11 DEF RecalculateScope
  <2> HIDE DEF x
  <2>3. tasks'[new] = x
    BY <1>11 DEF x
  <2> QED
    BY <1>8, <2>1, <2>2, <2>3
<1>12. CASE Clear(n) /\ tasks'[new] = Task("clear", n, EstimatesUnder(n, tree.nodes), "cancel")
  <2> DEFINE x == Task("clear", n, EstimatesUnder(n, tree.nodes), "cancel")
  <2>1. x.at = "cancel" /\ x.kind = "clear"
    BY DEF Task
  <2>2. Begin(x) /\ asked' = asked
    BY <1>12 DEF Clear
  <2> HIDE DEF x
  <2>3. tasks'[new] = x
    BY <1>12 DEF x
  <2> QED
    BY <1>8, <2>1, <2>2, <2>3
<1> QED
  BY <1>1, <1>6, <1>7, <1>9, <1>10, <1>11, <1>12, GesturesMove DEF TypeInv

\* A change at work may go on: it is alone.
LEMMA ChangesAreAlone ==
  ASSUME TreeInv, NEW t \in TaskIds, AtWork(t), tasks'[t].kind = tasks[t].kind
  PROVE  AloneNext(t)
BY DEF TreeInv, OneChange, AloneNext, Kind

LEMMA ChangesKept ==
  ASSUME TypeInv, TreeInv, NEW t \in TaskIds, PostNode(t) \/ PostDelete(t) \/ AfterChange(t)
  PROVE  TreeInv'
<1>1. tasks[t] \in TaskRecord /\ Shape(t) /\ Created(t)
  BY AskingTyped DEF TypeInv, IsTask, TreeInv
<1>2. /\ Moved(t) /\ t \in TaskIds'
      /\ \/ tasks[t].at = "post" /\ tasks'[t] = [tasks[t] EXCEPT !.at = "answer"]
         \/ tasks[t].at = "post" /\ nodesStored' = nodesStored /\ tasks'[t] = Ended(tasks[t])
         \/ AfterChange(t) /\ tasks'[t] = AskLists(tasks[t])
  BY <1>1, ChangesMove DEF TypeInv, Shape, AtWork
<1>3. CASE tasks[t].at = "post" /\ tasks'[t] = [tasks[t] EXCEPT !.at = "answer"]
  <2>1. /\ tasks'[t].at = "answer" /\ tasks'[t].kind = tasks[t].kind /\ tasks'[t].node = tasks[t].node
        /\ tasks'[t].round = tasks[t].round /\ tasks[t].kind \in {"add", "create", "delete"}
    BY <1>1, <1>3 DEF TaskRecord, Shape
  <2>2. \/ PostNode(t) /\ nodesStored' = nodesStored \cup {tasks[t].node} /\ UNCHANGED <<opened, asked>>
        \/ PostDelete(t) /\ nodesStored' = nodesStored \ Cascade(tasks[t].node) /\ UNCHANGED <<opened, asked>>
    <3>1. Ended(tasks[t]).at = "end" /\ ~AfterChange(t)
      BY <1>1, <1>3, EndedTyped DEF AfterChange
    <3>2. tasks'[t] # Ended(tasks[t])
      BY <2>1, <3>1
    <3>3. tasks \in Seq(TaskRecord) /\ t \in 1..Len(tasks)
      BY DEF TypeInv, TreeTyped, TaskIds
    <3>4. ~Continue(t, Ended(tasks[t]))
      BY <3>2, <3>3 DEF Continue
    <3> QED
      BY <3>1, <3>4 DEF PostNode, PostDelete
  <2>3. Created(t)'
    BY <1>1, <1>3, <2>1, <2>2 DEF Created, Kind, PostDelete
  <2>4. \A m \in nodesStored : m \in nodesStored' \/ m \in Doomed(t)'
    BY <2>1, <2>2 DEF Doomed, Kind, PostDelete
  <2>5. OpenInv'
    BY <1>1, <1>2, <1>3, <2>1, <2>2, <2>4, OpensKept DEF TreeInv, Doomed, Asking
  <2>6. asked' = asked /\ tasks'[t].kind \in Changes /\ tasks[t].at \notin {"end", "refresh"}
    BY <1>3, <2>1, <2>2 DEF Changes
  <2> QED
    BY <1>2, <2>1, <2>3, <2>5, <2>6, ChangedKept
<1>4. CASE tasks[t].at = "post" /\ nodesStored' = nodesStored /\ tasks'[t] = Ended(tasks[t])
  <2>1. tasks'[t].at = "end" /\ tasks'[t].kind = tasks[t].kind
    BY <1>1, <1>4, EndedTyped
  <2>2. UNCHANGED <<tree, opened, asked>>
    BY <1>4 DEF PostNode, PostDelete, AfterChange
  <2>3. AloneNext(t)
    BY <2>1 DEF AloneNext
  <2> QED
    BY <1>2, <1>4, <2>1, <2>2, <2>3, ApartKept
<1>5. CASE AfterChange(t) /\ tasks'[t] = AskLists(tasks[t])
  <2>1. /\ tasks'[t].kind = tasks[t].kind /\ tasks'[t].node = tasks[t].node /\ tasks'[t].round = tasks[t].round
        /\ tasks'[t].at = "refresh" /\ tasks'[t].since = asked + 1 /\ tasks'[t].reads = Reads
    BY <1>1, <1>5, AskListsTyped DEF TypeInv, TreeTyped
  <2>2. /\ tasks[t].at = "answer" /\ UNCHANGED <<nodesStored, tree>> /\ asked' = asked + 1
        /\ opened' = IF tasks[t].kind = "delete" THEN opened \ {tasks[t].node} ELSE opened
    BY <1>5 DEF AfterChange
  <2>3. AloneNext(t)
    BY <2>1, <2>2, ChangesAreAlone DEF AtWork
  <2>4. Created(t)'
    BY <1>1, <2>1, <2>2 DEF Created, Kind, Asking
  <2>5. ASSUME NEW e \in opened', e \in Doomed(t)
        PROVE  e \in Doomed(t)'
    <3>1. Kind(t) = "delete" /\ e \in Cascade(tasks[t].node) /\ e \in Estimates /\ e # tasks[t].node
      BY <2>2, <2>5 DEF Doomed, Kind, TypeInv, TreeTyped
    <3>2. tasks[t].node \notin Estimates
      <4>1. Above[e] \in Objects /\ Above[Above[e]] \in Constructions /\ e \notin Objects
        BY <3>1, AboveAssumption, KindsAreApart
      <4>2. tasks[t].node \in Objects \cup Constructions
        BY <3>1, <4>1 DEF Cascade
      <4> QED
        BY <4>2, KindsAreApart
    <3> QED
      BY <2>1, <3>1, <3>2 DEF Doomed, Kind, Asking
  <2>6. OpenInv'
    BY <1>2, <2>2, <2>5, OpensKept DEF TreeInv
  <2> QED
    BY <1>2, <2>1, <2>2, <2>3, <2>4, <2>6, AskedKept
<1> QED
  BY <1>2, <1>3, <1>4, <1>5

LEMMA ScopesKept ==
  ASSUME TypeInv, TreeInv, NEW t \in TaskIds, NEW e \in Estimates,
         PostStart(t, e) \/ PollSummary(t, e) \/ PostCancel(t, e)
  PROVE  TreeInv'
<1>1. tasks[t] \in TaskRecord /\ Shape(t) /\ TreeTyped
  BY AskingTyped DEF TypeInv, IsTask
<1>2. CASE PostStart(t, e)
  <2>1. /\ Moved(t) /\ t \in TaskIds' /\ tasks[t].kind = "recalculate" /\ tasks[t].at \in {"start", "end"}
        /\ \/ tasks'[t].kind = "recalculate" /\ tasks'[t].at = "end"
           \/ tasks'[t] = StartedTask(t, e)
    BY <1>1, <1>2, PostStartMoves
  <2>2. StartedTask(t, e).kind = tasks[t].kind /\ StartedTask(t, e).at \in {"poll", "start"}
    BY <1>1, StartedTaskTyped
  <2>3. UNCHANGED <<nodesStored, tree, opened, asked>>
    BY <1>2 DEF PostStart
  <2>4. tasks'[t].kind = "recalculate" /\ tasks'[t].at \in {"end", "poll", "start"}
    BY <2>1, <2>2
  <2>5. AloneNext(t)
    BY <2>4 DEF AloneNext, Changes
  <2> QED
    BY <2>1, <2>3, <2>4, <2>5, ApartKept
<1>3. CASE PollSummary(t, e)
  <2>1. /\ Moved(t) /\ t \in TaskIds' /\ tree'.nodes = tree.nodes
        /\ tasks[t].at = "poll" /\ tasks'[t].kind = tasks[t].kind
        /\ \/ tasks'[t].at \in {"end", "poll"} /\ asked' = asked
           \/ /\ tasks'[t].at = "refresh" /\ asked' = asked + 1
              /\ tasks'[t].since = asked + 1 /\ tasks'[t].reads = Reads
    BY <1>1, <1>3, PollSummaryMoves
  <2>2. tasks'[t].kind = "recalculate"
    BY <1>1, <2>1 DEF Shape
  <2>3. UNCHANGED <<nodesStored, opened>>
    BY <1>3 DEF PollSummary
  <2>4. AloneNext(t)
    BY <2>2 DEF AloneNext, Changes
  <2>5. CASE tasks'[t].at \in {"end", "poll"} /\ asked' = asked
    BY <2>1, <2>2, <2>3, <2>4, <2>5, ApartKept
  <2>6. CASE tasks'[t].at = "refresh"
    <3>1. Created(t)'
      BY <2>2 DEF Created, Kind
    <3>2. OpenInv'
      BY <2>1, <2>3, OpensKept DEF TreeInv, Doomed, Asking
    <3> QED
      BY <2>1, <2>3, <2>4, <2>6, <3>1, <3>2, AskedKept
  <2> QED
    BY <2>1, <2>5, <2>6
<1>4. CASE PostCancel(t, e)
  <2>1. /\ Moved(t) /\ t \in TaskIds' /\ tasks[t].at = "cancel"
        /\ tasks'[t].kind = tasks[t].kind /\ tasks'[t].at \in {"end", "answer", "cancel"}
    BY <1>1, <1>4, PostCancelMoves
  <2>2. tasks'[t].kind = "clear"
    BY <1>1, <2>1 DEF Shape
  <2>3. UNCHANGED <<nodesStored, tree, opened, asked>>
    BY <1>4 DEF PostCancel
  <2>4. AloneNext(t)
    BY <2>1, ChangesAreAlone DEF AtWork
  <2>5. CASE tasks'[t].at = "answer"
    <3>1. Created(t)'
      BY <2>2 DEF Created, Kind
    <3>2. OpenInv'
      BY <2>1, <2>3, OpensKept DEF TreeInv, Doomed, Asking
    <3>3. tasks'[t].kind \in Changes
      BY <2>2 DEF Changes
    <3> QED
      BY <2>1, <2>3, <2>5, <3>1, <3>2, <3>3, ChangedKept
  <2>6. CASE tasks'[t].at # "answer"
    BY <2>1, <2>3, <2>4, <2>6, ApartKept
  <2> QED
    BY <2>5, <2>6
<1> QED
  BY <1>2, <1>3, <1>4

LEMMA TreeInvNext ==
  ASSUME TypeInv, TreeInv, "late" \notin Mishaps, "rush" \notin Mishaps, [TreeNext]_treeVars
  PROVE  TreeInv'
<1>1. CASE UNCHANGED <<nodesStored, tree, opened, tasks, asked>>
  <2>1. \A t \in TaskIds : Consistent(t)' = Consistent(t)
    BY <1>1 DEF Consistent
  <2>2. SoonFresh'
    BY <1>1, <2>1 DEF TreeInv, SoonFresh, FreshFrom, Asking, TaskIds
  <2>3. ChangesReadFresh'
    BY <1>1, <2>1 DEF TreeInv, ChangesReadFresh, Kind, Asking, TaskIds
  <2>4. InTurn' /\ OneChange'
    BY <1>1 DEF TreeInv, InTurn, OneChange, Kind, Asking, AtWork, TaskIds
  <2>5. OpenInv' /\ \A t \in TaskIds' : Created(t)'
    BY <1>1 DEF TreeInv, OpenInv, Doomed, Created, Kind, Asking, TaskIds
  <2> QED
    BY <2>2, <2>3, <2>4, <2>5 DEF TreeInv
<1>2. ASSUME NEW e \in Estimates, CalculateEstimate(e)
      PROVE  TreeInv'
  BY <1>1, <1>2 DEF CalculateEstimate
<1>3. CASE UNCHANGED treeVars
  BY <1>1, <1>3 DEF treeVars
<1> QED
  BY <1>2, <1>3, StepsAre, GesturesKept, ChangesKept, TakenKept, AnswerKept, ScopesKept

\* With the lists answered in order and no change before the last one is through: when every
\* gesture is at its end the tree has the server's nodes, and no estimate is open that was
\* deleted with a node above it, whatever the nodes, the gestures and their number
\* (refreshConstructionData, pruneOpenEstimates).
THEOREM QuietTreeIsRight ==
  ASSUME "late" \notin Mishaps, "rush" \notin Mishaps
  PROVE  TreeSpec => []QuietTreeIsTheServers
<1>1. TreeInit => TypeInv /\ TreeInv
  BY TypeInvInit, TreeInvInit
<1>2. TypeInv /\ TreeInv /\ [TreeNext]_treeVars => TypeInv' /\ TreeInv'
  BY TypeInvNext, TreeInvNext
<1>3. TypeInv /\ TreeInv => QuietTreeIsTheServers
  BY DEF TreeInv, SoonFresh, FreshFrom, OpenInv, Doomed, Asking, AtWork, QuietTreeIsTheServers
<1> QED
  BY <1>1, <1>2, <1>3, PTL DEF TreeSpec

-----------------------------------------------------------------------------
(* With every start's events published: what a recalculation has found.    *)

\* A total that is shown as calculated is of the estimate's generation.
Results == \A e \in Estimates : calcState[e].status = "done" => calcState[e].total = calcState[e].gen

\* What t started is calculated, or was started or cancelled again.
Shows(t, e) ==
  \/ calcState[e].gen > tasks[t].started[e]
  \/ calcState[e].gen = tasks[t].started[e] /\ calcState[e].status = "done"

Found(t) ==
  \A e \in tasks[t].ids :
    /\ Shows(t, e)
    /\ tasks[t].reads["estimates"] # Unread =>
         tasks[t].totals[e] = tasks[t].started[e] \/ calcState[e].gen > tasks[t].started[e]

Recalculates(t) ==
  Kind(t) = "recalculate" /\ AtWork(t) =>
    /\ tasks[t].started \in [tasks[t].ids -> Nat]
    /\ \A e \in tasks[t].ids : tasks[t].started[e] <= calcState[e].gen
    /\ \A e \in tasks[t].ids \cap tasks[t].finished : Shows(t, e)
    /\ tasks[t].at \in {"start", "poll"} => ~tasks[t].complete
    /\ tasks[t].at = "start" => tasks[t].finished = {}
    /\ tasks[t].complete => Found(t)

RecalcInv == Results /\ \A t \in TaskIds : Recalculates(t)

\* The server starts, cancels and calculates; it takes no result back.
Later(e) ==
  \/ calcState'[e] = calcState[e]
  \/ calcState'[e].gen > calcState[e].gen
  \/ calcState'[e].gen = calcState[e].gen /\ calcState[e].status # "done"

LEMMA CalcTyped ==
  ASSUME TypeInv, NEW e \in Estimates
  PROVE  /\ calcState[e] \in CalcRecord /\ calcState[e].gen \in Nat /\ calcState[e].total \in Nat
         /\ calcState[e].status \in {"", "starting", "running", "done"}
BY DEF TypeInv, TreeTyped, CalcRecord

LEMMA CalcStateMoves ==
  ASSUME TypeInv, Results, NEW e \in Estimates, NEW c \in CalcRecord, calcState' = [calcState EXCEPT ![e] = c],
         c.gen > calcState[e].gen \/ (c.gen = calcState[e].gen /\ calcState[e].status # "done"),
         c.status = "done" => c.total = c.gen
  PROVE  Results' /\ \A x \in Estimates : Later(x)
<1>1. calcState'[e] = c /\ \A x \in Estimates : x # e => calcState'[x] = calcState[x]
  BY DEF TypeInv, TreeTyped
<1>2. Results'
  BY <1>1 DEF Results
<1>3. \A x \in Estimates : Later(x)
  BY <1>1 DEF Later
<1> QED
  BY <1>2, <1>3

LEMMA CalcGrows ==
  ASSUME TypeInv, Results, [TreeNext]_treeVars
  PROVE  Results' /\ \A e \in Estimates : Later(e)
<1>1. CASE UNCHANGED calcState
  BY <1>1 DEF Results, Later
<1>2. ASSUME NEW t \in TaskIds, NEW e \in Estimates, PostStart(t, e) \/ PostCancel(t, e)
      PROVE  UNCHANGED calcState \/ \A x \in Estimates : Results' /\ Later(x)
  <2>0. calcState[e].gen \in Nat
    BY CalcTyped
  <2>1. calcState[e].gen + 1 \in Nat /\ calcState[e].gen + 1 > calcState[e].gen /\ 0 \in Nat
    BY <2>0
  <2> DEFINE c(s) == [gen |-> calcState[e].gen + 1, status |-> s, total |-> 0]
  <2>2. ASSUME NEW s \in {"", "starting"}
        PROVE  c(s) \in CalcRecord /\ c(s).gen > calcState[e].gen /\ c(s).status # "done"
    <3>1. s \in {"", "starting", "running", "done"} /\ s # "done"
      OBVIOUS
    <3>2. c(s).gen = calcState[e].gen + 1 /\ c(s).status = s
      OBVIOUS
    <3>4. c(s) \in CalcRecord
      BY <2>1, <3>1, Zenon DEF CalcRecord
    <3> QED
      BY <2>1, <3>1, <3>2, <3>4, Zenon
  <2>3. UNCHANGED calcState \/ \E s \in {"", "starting"} : calcState' = [calcState EXCEPT ![e] = c(s)]
    BY <1>2 DEF PostStart, PostCancel
  <2> HIDE DEF c
  <2> QED
    BY <2>2, <2>3, CalcStateMoves
<1>3. ASSUME NEW e \in Estimates, CalculateEstimate(e)
      PROVE  Results' /\ \A x \in Estimates : Later(x)
  <2> DEFINE c == IF calcState[e].status = "starting" THEN [calcState[e] EXCEPT !.status = "running"]
                  ELSE [calcState[e] EXCEPT !.status = "done", !.total = calcState[e].gen]
  <2>1. /\ c \in CalcRecord /\ c.gen = calcState[e].gen /\ calcState[e].status # "done"
        /\ c.status = "done" => c.total = c.gen
    BY <1>3, CalcTyped DEF CalcRecord, CalculateEstimate
  <2>2. calcState' = [calcState EXCEPT ![e] = c]
    BY <1>3 DEF CalculateEstimate
  <2> HIDE DEF c
  <2> QED
    BY <2>1, <2>2, CalcStateMoves
<1>4. ASSUME NEW n, Gestured(n)
      PROVE  UNCHANGED calcState
  BY <1>4 DEF Gestured, OpenSection, AddNode, CreateEstimate, AskDelete, RecalculateScope, Clear
<1>5. ASSUME NEW t \in TaskIds,
             \/ PostNode(t) \/ PostDelete(t) \/ AfterChange(t) \/ TakeLists(t)
             \/ \E list \in ListNames : AnswerList(t, list)
             \/ \E e \in Estimates : PollSummary(t, e)
      PROVE  UNCHANGED calcState
  BY <1>5 DEF PostNode, PostDelete, AfterChange, TakeLists, AnswerList, PollSummary
<1>6. CASE Estimates = {}
  BY <1>6 DEF Results
<1>7. CASE UNCHANGED treeVars
  BY <1>1, <1>7 DEF treeVars
<1> QED
  BY <1>1, <1>2, <1>3, <1>4, <1>5, <1>6, <1>7, StepsAre

\* What a task has found stays found.
LEMMA FoundKept ==
  ASSUME TypeInv, TypeInv', NEW t \in TaskIds, Recalculates(t), \A e \in Estimates : Later(e), tasks'[t] = tasks[t]
  PROVE  Recalculates(t)'
<1>1. tasks[t] \in TaskRecord
  BY AskingTyped DEF TypeInv, IsTask
<1>2. CASE Kind(t) = "recalculate" /\ AtWork(t)
  <2>1. tasks[t].ids \subseteq Estimates /\ tasks[t].started \in [tasks[t].ids -> Nat]
    BY <1>1, <1>2 DEF TaskRecord, Recalculates
  <2>2. ASSUME NEW e \in tasks[t].ids
        PROVE  /\ calcState'[e].gen >= calcState[e].gen /\ calcState'[e].gen \in Nat
               /\ Shows(t, e) => Shows(t, e)'
               /\ calcState[e].gen > tasks[t].started[e] => calcState'[e].gen > tasks[t].started[e]
    <3>1. e \in Estimates /\ tasks[t].started[e] \in Nat /\ calcState[e].gen \in Nat
      BY <2>1, CalcTyped
    <3>2. calcState'[e].gen \in Nat
      BY <3>1 DEF TypeInv, TreeTyped, CalcRecord
    <3>3. calcState'[e].gen >= calcState[e].gen
      BY <3>1, <3>2 DEF Later
    <3>4. Shows(t, e) => Shows(t, e)'
      BY <3>1, <3>2 DEF Later, Shows
    <3> QED
      BY <3>1, <3>2, <3>3, <3>4
  <2>3. \A e \in tasks[t].ids : tasks[t].started[e] <= calcState'[e].gen
    <3> SUFFICES ASSUME NEW e \in tasks[t].ids PROVE tasks[t].started[e] <= calcState'[e].gen
      OBVIOUS
    <3>1. tasks[t].started[e] \in Nat /\ calcState[e].gen \in Nat /\ tasks[t].started[e] <= calcState[e].gen
      BY <1>2, <2>1, CalcTyped DEF Recalculates
    <3> QED
      BY <2>2, <3>1
  <2>4. \A e \in tasks[t].ids \cap tasks[t].finished : Shows(t, e)'
    BY <1>2, <2>2 DEF Recalculates
  <2>5. tasks[t].complete => Found(t)'
    BY <1>2, <2>2 DEF Recalculates, Found
  <2> QED
    BY <1>2, <2>1, <2>3, <2>4, <2>5 DEF Recalculates, Kind, AtWork
<1>3. CASE ~(Kind(t) = "recalculate" /\ AtWork(t))
  BY <1>3 DEF Recalculates, Kind, AtWork
<1> QED
  BY <1>2, <1>3

\* A start is noted with the generation the server answers.
LEMMA StartNoted ==
  ASSUME TypeInv, NEW t \in TaskIds, NEW e \in Estimates, PostStart(t, e), Recalculates(t), tasks[t].at = "start",
         e \in nodesStored, tasks'[t] = StartedTask(t, e)
  PROVE  Recalculates(t)'
<1>1. tasks[t] \in TaskRecord /\ Kind(t) = "recalculate" /\ AtWork(t)
  BY AskingTyped DEF TypeInv, IsTask, PostStart, Kind, AtWork
<1>2. /\ tasks'[t].kind = tasks[t].kind /\ tasks'[t].at \in {"poll", "start"}
      /\ tasks'[t].started = [tasks[t].started EXCEPT ![e] = calcState[e].gen + 1]
      /\ tasks'[t].ids = tasks[t].ids /\ tasks'[t].finished = {} /\ tasks'[t].complete = tasks[t].complete
      /\ ~tasks[t].complete
  BY <1>1, StartedTaskTyped DEF TypeInv, Recalculates
<1>3. /\ calcState'[e].gen = calcState[e].gen + 1
      /\ \A x \in Estimates : x # e => calcState'[x] = calcState[x]
  BY DEF PostStart, TypeInv, TreeTyped
<1>4. tasks[t].ids \subseteq Estimates /\ tasks[t].started \in [tasks[t].ids -> Nat]
      /\ \A x \in tasks[t].ids : tasks[t].started[x] <= calcState[x].gen
  BY <1>1 DEF TaskRecord, Recalculates
<1>5. calcState[e].gen + 1 \in Nat
  <2>1. calcState[e].gen \in Nat
    BY CalcTyped
  <2> QED
    BY <2>1
<1>6. tasks'[t].started \in [tasks[t].ids -> Nat]
  BY <1>2, <1>4, <1>5
<1>7. \A x \in tasks[t].ids : tasks'[t].started[x] <= calcState'[x].gen
  BY <1>2, <1>3, <1>4, <1>5
<1> QED
  BY <1>2, <1>6, <1>7 DEF Recalculates, Kind

\* A summary counts as complete when its estimate is calculated.
LEMMA SummaryNoted ==
  ASSUME TypeInv, "unpublished" \notin Mishaps, NEW t \in TaskIds, NEW e \in Estimates, PollSummary(t, e),
         Recalculates(t)
  PROVE  Recalculates(t)'
<1>1. tasks[t] \in TaskRecord /\ Shape(t) /\ TreeTyped
  BY AskingTyped DEF TypeInv, IsTask
<1>2. /\ tasks[t].at = "poll" /\ tasks'[t].kind = tasks[t].kind
      /\ \/ tasks'[t].at = "end"
         \/ /\ tasks'[t].at = "poll"
            /\ tasks'[t].ids = tasks[t].ids /\ tasks'[t].started = tasks[t].started
            /\ tasks'[t].complete = tasks[t].complete
            /\ tasks'[t].finished \in {{}, FinishedBy(t, e)}
         \/ /\ tasks'[t].at = "refresh" /\ tasks'[t].reads = Reads
            /\ tasks'[t].ids = tasks[t].ids /\ tasks'[t].started = tasks[t].started
            /\ tasks'[t].complete = (FinishedBy(t, e) = tasks[t].ids)
            /\ tasks'[t].finished = tasks[t].finished
  BY <1>1, PollSummaryMoves
<1>3. Kind(t) = "recalculate" /\ AtWork(t) /\ calcState' = calcState
  BY <1>1, <1>2 DEF Shape, Kind, AtWork, PollSummary
<1>4. /\ tasks[t].ids \subseteq Estimates /\ tasks[t].started \in [tasks[t].ids -> Nat] /\ ~tasks[t].complete
      /\ \A x \in tasks[t].ids : tasks[t].started[x] <= calcState[x].gen
      /\ \A x \in tasks[t].ids \cap tasks[t].finished : Shows(t, x)
  BY <1>1, <1>2, <1>3 DEF TaskRecord, Recalculates
<1>5. ASSUME NEW x \in tasks[t].ids, x \in FinishedBy(t, e)
      PROVE  Shows(t, x)
  <2>1. CASE x \in tasks[t].finished
    BY <1>4, <2>1
  <2>2. CASE x \notin tasks[t].finished
    <3>1. x = e /\ calcState[e].status = "done"
      BY <1>5, <2>2 DEF FinishedBy, SummaryComplete
    <3>2. tasks[t].started[x] <= calcState[x].gen /\ tasks[t].started[x] \in Nat /\ calcState[x].gen \in Nat
      BY <1>4, CalcTyped
    <3> QED
      BY <3>1, <3>2 DEF Shows
  <2> QED
    BY <2>1, <2>2
<1>6. CASE tasks'[t].at = "end"
  BY <1>6 DEF Recalculates, AtWork
<1>7. CASE /\ tasks'[t].at = "poll"
           /\ tasks'[t].ids = tasks[t].ids /\ tasks'[t].started = tasks[t].started
           /\ tasks'[t].complete = tasks[t].complete
           /\ tasks'[t].finished \in {{}, FinishedBy(t, e)}
  <2>1. \A x \in tasks[t].ids \cap tasks'[t].finished : Shows(t, x)
    BY <1>5, <1>7
  <2> QED
    BY <1>3, <1>4, <1>7, <2>1 DEF Recalculates, Shows
<1>8. CASE /\ tasks'[t].at = "refresh" /\ tasks'[t].reads = Reads
           /\ tasks'[t].ids = tasks[t].ids /\ tasks'[t].started = tasks[t].started
           /\ tasks'[t].complete = (FinishedBy(t, e) = tasks[t].ids)
           /\ tasks'[t].finished = tasks[t].finished
  <2>1. tasks'[t].reads["estimates"] = Unread
    BY <1>8, ListsAre DEF ListNames
  <2>2. tasks'[t].complete => \A x \in tasks[t].ids : Shows(t, x)
    BY <1>5, <1>8
  <2> QED
    BY <1>3, <1>4, <1>8, <2>1, <2>2 DEF Recalculates, Found, Shows
<1> QED
  BY <1>2, <1>6, <1>7, <1>8

\* The list of the estimates has the results the summaries have found, or later ones.
LEMMA ListNoted ==
  ASSUME TypeInv, Results, NEW t \in TaskIds, NEW list \in ListNames, AnswerList(t, list), Recalculates(t)
  PROVE  Recalculates(t)'
<1>1. tasks[t] \in TaskRecord
  BY AskingTyped DEF TypeInv, IsTask
<1> DEFINE counted == [e \in Estimates |-> TotalOf(calcState[e])]
<1>2. tasks'[t] = [tasks[t] EXCEPT !.reads[list] = nodesStored \cap Lists[list],
                     !.totals = IF list = "estimates" THEN counted ELSE @]
  BY AnswerListMoves DEF TypeInv
<1> HIDE DEF counted
<1>3. /\ tasks'[t].at = tasks[t].at /\ tasks'[t].kind = tasks[t].kind /\ tasks'[t].ids = tasks[t].ids
      /\ tasks'[t].started = tasks[t].started /\ tasks'[t].complete = tasks[t].complete
      /\ tasks'[t].finished = tasks[t].finished
      /\ tasks'[t].reads = [tasks[t].reads EXCEPT ![list] = nodesStored \cap Lists[list]]
      /\ tasks'[t].totals = IF list = "estimates" THEN counted ELSE tasks[t].totals
  BY <1>1, <1>2 DEF TaskRecord
<1>4. calcState' = calcState
  BY DEF AnswerList
<1>5. CASE Kind(t) = "recalculate" /\ AtWork(t)
  <2>1. ASSUME tasks[t].complete
        PROVE  Found(t)'
    <3>1. Found(t) /\ tasks[t].ids \subseteq Estimates
      BY <1>1, <1>5, <2>1 DEF Recalculates, TaskRecord
    <3>2. ASSUME NEW e \in tasks[t].ids, list = "estimates"
          PROVE  counted[e] = tasks[t].started[e] \/ calcState[e].gen > tasks[t].started[e]
      <4>1. counted[e] = TotalOf(calcState[e]) /\ e \in Estimates
        BY <3>1 DEF counted
      <4>2. Shows(t, e)
        BY <3>1 DEF Found
      <4> QED
        BY <4>1, <4>2 DEF Shows, Results, TotalOf
    <3>3. list # "estimates" => tasks'[t].reads["estimates"] = tasks[t].reads["estimates"]
      BY <1>1, <1>3 DEF TaskRecord, ListNames
    <3> QED
      BY <1>3, <1>4, <3>1, <3>2, <3>3 DEF Found, Shows
  <2> QED
    BY <1>3, <1>4, <1>5, <2>1 DEF Recalculates, Shows
<1>6. CASE ~(Kind(t) = "recalculate" /\ AtWork(t))
  BY <1>3, <1>6 DEF Recalculates, Kind, AtWork
<1> QED
  BY <1>5, <1>6

\* The other tasks keep what they have found.
LEMMA OthersFound ==
  ASSUME TypeInv, TypeInv', RecalcInv, Results', \A e \in Estimates : Later(e),
         NEW t, Moved(t), t \in TaskIds', Recalculates(t)'
  PROVE  RecalcInv'
<1>1. ASSUME NEW u \in TaskIds', u # t
      PROVE  Recalculates(u)'
  <2>1. u \in TaskIds /\ tasks'[u] = tasks[u]
    BY <1>1 DEF Moved
  <2> QED
    BY <2>1, FoundKept DEF RecalcInv
<1> QED
  BY <1>1 DEF RecalcInv

LEMMA RecalcInvNext ==
  ASSUME TypeInv, RecalcInv, "unpublished" \notin Mishaps, [TreeNext]_treeVars
  PROVE  RecalcInv'
<1>1. TypeInv' /\ Results' /\ TreeTyped /\ \A e \in Estimates : Later(e)
  BY TypeInvNext, CalcGrows DEF RecalcInv, TypeInv
<1>2. ASSUME NEW t \in TaskIds
      PROVE  tasks[t] \in TaskRecord /\ Shape(t) /\ Recalculates(t)
  BY AskingTyped DEF IsTask, TypeInv, RecalcInv
<1>3. ASSUME NEW n, Gestured(n)
      PROVE  RecalcInv'
  <2>1. PICK new : new = New
    OBVIOUS
  <2>2. Moved(new) /\ new \in TaskIds'
    BY <1>1, <1>3, <2>1, GesturesMove
  <2>3. CASE RecalculateScope(n) /\ tasks'[new] = Task("recalculate", n, EstimatesUnder(n, tree.nodes), "start")
    <3> DEFINE ids == EstimatesUnder(n, tree.nodes)
               x == Task("recalculate", n, ids, "start")
    <3>1. ids \subseteq Estimates
      BY DEF EstimatesUnder
    <3>2. /\ x.ids = ids /\ x.started = [e \in ids |-> 0] /\ x.finished = {} /\ x.complete = FALSE
          /\ x.at = "start" /\ x.kind = "recalculate"
      BY DEF Task
    <3>3. calcState' = calcState
      BY <2>3 DEF RecalculateScope
    <3>4. ASSUME NEW e \in ids
          PROVE  0 <= calcState[e].gen
      <4>1. calcState[e].gen \in Nat
        BY <3>1, CalcTyped
      <4> QED
        BY <4>1
    <3> HIDE DEF ids, x
    <3>5. tasks'[new] = x
      BY <2>3 DEF x, ids
    <3>6. Recalculates(new)'
      BY <3>2, <3>3, <3>4, <3>5 DEF Recalculates
    <3> QED
      BY <1>1, <2>2, <3>6, OthersFound
  <2>4. CASE tasks'[new].kind # "recalculate"
    <3>1. Recalculates(new)'
      BY <2>4 DEF Recalculates, Kind
    <3> QED
      BY <1>1, <2>2, <3>1, OthersFound
  <2>5. /\ AskLists(Task("look", Unread, {}, "")).kind = "look" /\ AskLists(Task("create", n, {}, "")).kind = "create"
        /\ Task("add", n, {}, "post").kind = "add" /\ Task("delete", n, {}, "post").kind = "delete"
        /\ Task("clear", n, EstimatesUnder(n, tree.nodes), "cancel").kind = "clear"
    BY DEF AskLists, Task
  <2>6. \/ tasks'[new] = AskLists(Task("look", Unread, {}, ""))
        \/ tasks'[new] = AskLists(Task("create", n, {}, ""))
        \/ tasks'[new] = Task("add", n, {}, "post")
        \/ tasks'[new] = Task("delete", n, {}, "post")
        \/ RecalculateScope(n) /\ tasks'[new] = Task("recalculate", n, EstimatesUnder(n, tree.nodes), "start")
        \/ tasks'[new] = Task("clear", n, EstimatesUnder(n, tree.nodes), "cancel")
    BY <1>1, <1>3, <2>1, GesturesMove
  <2> QED
    BY <2>3, <2>4, <2>5, <2>6
<1>4. ASSUME NEW t \in TaskIds, Moved(t), t \in TaskIds', tasks'[t].at = "end" \/ tasks'[t].kind # "recalculate"
      PROVE  RecalcInv'
  <2>1. Recalculates(t)'
    BY <1>4 DEF Recalculates, Kind, AtWork
  <2> QED
    BY <1>1, <1>4, <2>1, OthersFound
<1>5. ASSUME NEW t \in TaskIds, PostNode(t) \/ PostDelete(t) \/ AfterChange(t)
      PROVE  RecalcInv'
  <2>1. /\ Moved(t) /\ t \in TaskIds'
        /\ \/ tasks[t].at = "post" /\ tasks'[t] = [tasks[t] EXCEPT !.at = "answer"]
           \/ tasks'[t] = Ended(tasks[t])
           \/ AfterChange(t) /\ tasks'[t] = AskLists(tasks[t])
    BY <1>1, <1>2, <1>5, ChangesMove DEF Shape, AtWork
  <2>2. /\ [tasks[t] EXCEPT !.at = "answer"].kind = tasks[t].kind /\ AskLists(tasks[t]).kind = tasks[t].kind
        /\ Ended(tasks[t]).at = "end"
    BY <1>1, <1>2, AskListsTyped, EndedTyped DEF TaskRecord, TreeTyped
  <2>3. tasks[t].at = "post" \/ AfterChange(t) => tasks[t].kind # "recalculate"
    BY <1>2 DEF Shape, AfterChange, Changes
  <2> QED
    BY <1>4, <2>1, <2>2, <2>3
<1>6. ASSUME NEW t \in TaskIds, TakeLists(t)
      PROVE  RecalcInv'
  <2>1. /\ Moved(t) /\ t \in TaskIds'
        /\ tasks'[t] = IF tasks[t].kind = "create" /\ tasks[t].round = 1
                       THEN [[tasks[t] EXCEPT !.at = "post"] EXCEPT !.round = 2] ELSE Ended(tasks[t])
    BY <1>1, <1>6, TakeListsMoves
  <2>2. tasks'[t].at = "end" \/ tasks'[t].kind = "create"
    BY <1>2, <2>1, EndedTyped DEF TaskRecord
  <2> QED
    BY <1>4, <2>1, <2>2
<1>7. ASSUME NEW t \in TaskIds, NEW list \in ListNames, AnswerList(t, list)
      PROVE  RecalcInv'
  <2>1. Moved(t) /\ t \in TaskIds' /\ Recalculates(t)'
    BY <1>1, <1>2, <1>7, AnswerListMoves, ListNoted DEF RecalcInv
  <2> QED
    BY <1>1, <2>1, OthersFound
<1>8. ASSUME NEW t \in TaskIds, NEW e \in Estimates, PostStart(t, e)
      PROVE  RecalcInv'
  <2>1. /\ Moved(t) /\ t \in TaskIds'
        /\ \/ tasks'[t].kind = "recalculate" /\ tasks'[t].at = "end"
           \/ tasks[t].at = "start" /\ e \in nodesStored /\ tasks'[t] = StartedTask(t, e)
    BY <1>1, <1>8, PostStartMoves
  <2>2. CASE tasks[t].at = "start" /\ e \in nodesStored /\ tasks'[t] = StartedTask(t, e)
    <3>1. Recalculates(t)'
      BY <1>2, <1>8, <2>2, StartNoted
    <3> QED
      BY <1>1, <2>1, <3>1, OthersFound
  <2> QED
    BY <1>4, <2>1, <2>2
<1>9. ASSUME NEW t \in TaskIds, NEW e \in Estimates, PollSummary(t, e)
      PROVE  RecalcInv'
  <2>1. Moved(t) /\ t \in TaskIds' /\ Recalculates(t)'
    BY <1>1, <1>2, <1>9, PollSummaryMoves, SummaryNoted
  <2> QED
    BY <1>1, <2>1, OthersFound
<1>10. ASSUME NEW t \in TaskIds, NEW e \in Estimates, PostCancel(t, e)
       PROVE  RecalcInv'
  <2>1. /\ Moved(t) /\ t \in TaskIds' /\ tasks[t].at = "cancel" /\ tasks'[t].kind = tasks[t].kind
    BY <1>1, <1>10, PostCancelMoves
  <2>2. tasks'[t].kind # "recalculate"
    BY <1>2, <2>1 DEF Shape
  <2> QED
    BY <1>4, <2>1, <2>2
<1>11. CASE UNCHANGED tasks
  <2>1. \A t \in TaskIds : Recalculates(t)'
    BY <1>1, <1>2, <1>11, FoundKept
  <2> QED
    BY <1>1, <1>11, <2>1 DEF RecalcInv, TaskIds
<1>12. ASSUME NEW e \in Estimates, CalculateEstimate(e)
       PROVE  RecalcInv'
  BY <1>11, <1>12 DEF CalculateEstimate
<1>13. CASE UNCHANGED treeVars
  BY <1>11, <1>13 DEF treeVars
<1> QED
  BY <1>3, <1>5, <1>6, <1>7, <1>8, <1>9, <1>10, <1>12, <1>13, StepsAre

LEMMA RecalcInvInit ==
  ASSUME TreeInit
  PROVE  RecalcInv
<1>1. TaskIds = {}
  <2>1. tasks = <<>>
    BY DEF TreeInit
  <2>2. Len(tasks) = 0
    BY <2>1
  <2> QED
    BY <2>2 DEF TaskIds
<1>2. Results
  BY DEF TreeInit, Results
<1> QED
  BY <1>1, <1>2 DEF RecalcInv

\* What the property says of one task's step.
ShowsItsResults(t) ==
  LET task == tasks[t] IN
  task.kind = "recalculate" /\ task.complete /\ task.at = "refresh" /\ tasks'[t].at = "end" =>
    \A e \in task.ids \cap tree'.nodes :
      tree'.totals[e] = task.started[e] \/ calcState'[e].gen # task.started[e]

\* Only taking the lists over ends a read of them.
LEMMA ReadsEndTaken ==
  ASSUME TypeInv, [TreeNext]_treeVars, NEW t \in TaskIds, Asking(t), tasks'[t].at = "end"
  PROVE  TakeLists(t)
<1>1. ASSUME NEW u, Moved(u)
      PROVE  u = t
  BY <1>1 DEF Moved, Asking
<1>2. TreeTyped /\ \A u \in TaskIds : tasks[u].at = "post" => tasks[u].node \in Nodes
  BY DEF TypeInv, Shape, AtWork
<1>3. ASSUME NEW n, Gestured(n)
      PROVE  FALSE
  <2>1. Moved(New) /\ New \notin TaskIds
    BY <1>2, <1>3, GesturesMove
  <2> QED
    BY <1>1, <2>1
<1>4. ASSUME NEW u \in TaskIds, PostNode(u) \/ PostDelete(u) \/ AfterChange(u)
      PROVE  FALSE
  <2>1. Moved(u) /\ tasks[u].at \in {"post", "answer"}
    BY <1>2, <1>4, ChangesMove DEF AfterChange
  <2> QED
    BY <1>1, <2>1 DEF Asking
<1>5. ASSUME NEW u \in TaskIds, NEW list \in ListNames, AnswerList(u, list)
      PROVE  FALSE
  <2>1. Moved(u) /\ tasks'[u] = [tasks[u] EXCEPT !.reads[list] = nodesStored \cap Lists[list],
          !.totals = IF list = "estimates" THEN [e \in Estimates |-> TotalOf(calcState[e])] ELSE @]
    BY <1>2, <1>5, AnswerListMoves
  <2>2. tasks[u] \in TaskRecord
    BY <1>2, AskingTyped DEF IsTask
  <2>3. tasks'[u].at = tasks[u].at
    BY <2>1, <2>2 DEF TaskRecord
  <2> QED
    BY <1>1, <2>1, <2>3 DEF Asking
<1>6. ASSUME NEW u \in TaskIds, NEW e \in Estimates, PostStart(u, e) \/ PollSummary(u, e) \/ PostCancel(u, e)
      PROVE  FALSE
  <2>1. Moved(u) /\ tasks[u].at \in {"start", "end", "poll", "cancel"}
    BY <1>2, <1>6, PostStartMoves, PollSummaryMoves, PostCancelMoves
  <2> QED
    BY <1>1, <2>1 DEF Asking
<1>7. ASSUME NEW u \in TaskIds, TakeLists(u)
      PROVE  u = t
  BY <1>1, <1>2, <1>7, TakeListsMoves
<1>8. ~UNCHANGED tasks
  BY DEF Asking
<1>9. ~UNCHANGED treeVars /\ ~\E e \in Estimates : CalculateEstimate(e)
  BY <1>8 DEF treeVars, CalculateEstimate
<1> QED
  BY <1>3, <1>4, <1>5, <1>6, <1>7, <1>9, StepsAre

LEMMA ResultsShown ==
  ASSUME TypeInv, RecalcInv, [TreeNext]_treeVars, NEW t \in TaskIds
  PROVE  ShowsItsResults(t)
<1> SUFFICES ASSUME tasks[t].kind = "recalculate", tasks[t].complete, tasks[t].at = "refresh", tasks'[t].at = "end",
                    NEW e \in tasks[t].ids
             PROVE  tree'.totals[e] = tasks[t].started[e] \/ calcState'[e].gen # tasks[t].started[e]
  BY DEF ShowsItsResults
<1>1. TakeLists(t)
  BY ReadsEndTaken DEF Asking
<1>2. /\ tree' = [nodes |-> Answered(t), totals |-> tasks[t].totals] /\ calcState' = calcState
      /\ tasks[t].reads["estimates"] # Unread
  BY <1>1, TakeListsMoves DEF TakeLists, TypeInv, ListNames
<1>3. tasks[t].totals[e] = tasks[t].started[e] \/ calcState[e].gen > tasks[t].started[e]
  BY <1>2 DEF RecalcInv, Recalculates, Found, Kind, AtWork
<1>4. tasks[t].started[e] \in Nat
  BY DEF RecalcInv, Recalculates, Kind, AtWork
<1>5. calcState[e].gen \in Nat
  <2>1. tasks[t] \in TaskRecord
    BY AskingTyped DEF TypeInv, IsTask
  <2>2. e \in Estimates
    BY <2>1 DEF TaskRecord
  <2> QED
    BY <2>2, CalcTyped
<1> QED
  BY <1>2, <1>3, <1>4, <1>5

\* With the events of every start published: a recalculation that has found all summaries
\* complete leaves in the tree the totals of the generations it started, of every estimate that
\* was not started or cancelled again (recalculateConstructionScope).
THEOREM RecalculationsAreRight ==
  ASSUME "unpublished" \notin Mishaps
  PROVE  TreeSpec => RecalculationsShowTheirResults
<1>1. TreeInit => TypeInv /\ RecalcInv
  BY TypeInvInit, RecalcInvInit
<1>2. TypeInv /\ RecalcInv /\ [TreeNext]_treeVars => TypeInv' /\ RecalcInv'
  BY TypeInvNext, RecalcInvNext
<1>3. TypeInv /\ RecalcInv /\ [TreeNext]_treeVars => [\A t \in TaskIds : ShowsItsResults(t)]_treeVars
  BY ResultsShown
<1>4. TreeSpec => [][\A t \in TaskIds : ShowsItsResults(t)]_treeVars
  BY <1>1, <1>2, <1>3, PTL DEF TreeSpec
<1> QED
  BY <1>4 DEF RecalculationsShowTheirResults, ShowsItsResults
=============================================================================
