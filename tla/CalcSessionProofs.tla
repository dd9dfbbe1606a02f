-------------------------- MODULE CalcSessionProofs --------------------------
(***************************************************************************)
(* Proofs about CalcSession for any number of lines, listeners, gestures   *)
(* and faults.                                                             *)
(***************************************************************************)
EXTENDS CalcSession, FiniteSetTheorems, SequenceTheorems, TLAPS

-----------------------------------------------------------------------------
(* Types.                                                                  *)

Counts == 0 .. NLines
LineMap == [Lines -> LineType]
Item == [id : Lines, now : LineType]
BatchRecord ==
  [reset : BOOLEAN, gen : Nat, applied : Counts, items : Seq(Item), processed : Counts, done : BOOLEAN]
TaskRecord == [phase : TaskPhases, own : BOOLEAN, batch : BatchRecord, outdated : BOOLEAN]
Waited == Listeners \cup {None}
OpRecord == [phase : OpPhases, wait : Waited, context : Nat]
CtrlRecord == [stopped : BOOLEAN, applying : BOOLEAN, promise : Waited, applied : Counts, gen : Nat]
ReadPhases == {"none", "sent", "answered", "retry", "retried"}
ReadRecord == [phase : ReadPhases, for : Waited \cup Ops, statuses : LineMap]
SrvRecord == [gen : Nat, context : Nat, at : Nat, line : LineMap, enqueue : BOOLEAN]

\* Nobody is ahead of the server's generation, nor of the user's choice of a context.
Srvs(chosen) == {s \in SrvRecord : s.context <= chosen /\ s.at <= chosen}
Ctrls(gen) == {c \in CtrlRecord : c.gen <= gen}
Tasks(gen) == {ts \in [Listeners -> TaskRecord] : \A i \in Listeners : ts[i].batch.gen <= gen}
OpMaps(chosen) == {os \in [Ops -> OpRecord] : \A o \in Ops : os[o].context <= chosen}

SessionInv ==
  /\ srv \in Srvs(context) /\ ctrl \in Ctrls(srv.gen) /\ task \in Tasks(srv.gen) /\ op \in OpMaps(context)
  /\ reading \in ReadRecord
  /\ line \in LineMap /\ awaiting \in BOOLEAN /\ blocked \in BOOLEAN /\ shown \in Counts
  /\ context \in Nat /\ context <= gestures /\ gestures \in 0 .. MaxGestures /\ faults \in Nat
  /\ view \in {"table", "text", "away"} /\ coalesce \in [timer : BOOLEAN, pending : BOOLEAN]

\* The kinds of steps, whatever the order PromptStatus asks for.
LEMMA StepsAre ==
  ASSUME Next
  PROVE  /\ ReadStep \/ ServerStep \/ OpStep \/ UserStep \/ \E i \in Listeners : ListenerStep(i)
         /\ PromptStatus /\ ~ReadStep => reading.phase = "none"
BY DEF Next, GoOn, ListenerStep, OpStep

LEMMA LinesAreFinite ==
  /\ IsFiniteSet(Lines) /\ Cardinality(Lines) = NLines /\ NLines \in Nat /\ NLines >= 1
  /\ \A S \in SUBSET Lines : IsFiniteSet(S) /\ Cardinality(S) \in Counts /\ (Cardinality(S) = NLines => S = Lines)
<1>1. NLines \in Nat /\ NLines >= 1
  BY SizesAssumption
<1>2. IsFiniteSet(Lines) /\ Cardinality(Lines) = NLines
  BY <1>1, FS_Interval DEF Lines
<1>3. ASSUME NEW S \in SUBSET Lines
      PROVE  IsFiniteSet(S) /\ Cardinality(S) \in Counts /\ (Cardinality(S) = NLines => S = Lines)
  <2>1. IsFiniteSet(S) /\ Cardinality(S) <= NLines /\ (Cardinality(S) = NLines => S = Lines)
    BY <1>2, FS_Subset
  <2>2. Cardinality(S) \in Nat
    BY <2>1, FS_CardinalityType
  <2> QED
    BY <1>1, <2>1, <2>2 DEF Counts
<1> QED
  BY <1>1, <1>2, <1>3

\* The k-th element of a set of lines, in their order.
Ordered(S) == [k \in 1 .. Cardinality(S) |-> CHOOSE l \in S : Cardinality({m \in S : m <= l}) = k]

LEMMA OrderedAre ==
  ASSUME NEW S \in SUBSET Lines
  PROVE  /\ Ordered(S) \in Seq(S) /\ Len(Ordered(S)) = Cardinality(S)
         /\ \A l \in S : \E k \in 1 .. Cardinality(S) : Ordered(S)[k] = l
<1> DEFINE rank(l) == Cardinality({m \in S : m <= l})
           n == Cardinality(S)
           f == [l \in S |-> rank(l)]
<1>1. IsFiniteSet(S) /\ n \in Nat /\ \A l \in S : l \in Nat
  BY LinesAreFinite DEF Counts, Lines
<1>2. ASSUME NEW l \in S
      PROVE  rank(l) \in 1 .. n
  <2> DEFINE below == {m \in S : m <= l}
  <2>1. IsFiniteSet(below) /\ Cardinality(below) <= n
    BY <1>1, FS_Subset
  <2>2. Cardinality(below) \in Nat
    BY <2>1, FS_CardinalityType
  <2>3. l \in below
    BY <1>1
  <2>4. Cardinality(below) # 0
    BY <2>1, <2>3, FS_EmptySet
  <2> QED
    BY <1>1, <2>1, <2>2, <2>4
<1>3. ASSUME NEW l \in S, NEW m \in S, l < m
      PROVE  rank(l) < rank(m)
  <2> DEFINE below == {x \in S : x <= l}
             here == {x \in S : x <= m}
  <2>1. IsFiniteSet(here) /\ Cardinality(here) \in Nat
    BY <1>1, FS_Subset, FS_CardinalityType
  <2>2. below \subseteq here /\ m \in here /\ m \notin below
    BY <1>1, <1>3
  <2>3. Cardinality(below) <= Cardinality(here) /\ Cardinality(below) # Cardinality(here) /\ IsFiniteSet(below)
    BY <2>1, <2>2, FS_Subset
  <2>4. Cardinality(below) \in Nat
    BY <2>3, FS_CardinalityType
  <2> QED
    BY <2>1, <2>3, <2>4
<1>4. f \in Injection(S, 1 .. n)
  <2>1. f \in [S -> 1 .. n]
    BY <1>2
  <2>2. ASSUME NEW l \in S, NEW m \in S, f[l] = f[m]
        PROVE  l = m
    <3>1. rank(l) = rank(m) /\ rank(l) \in Nat
      BY <1>2, <2>2
    <3> HIDE DEF rank
    <3>2. ~(l < m) /\ ~(m < l)
      BY <1>3, <3>1
    <3> QED
      BY <1>1, <3>2
  <2> HIDE DEF f
  <2> QED
    BY <2>1, <2>2 DEF Injection, IsInjective
<1>5. f \in Surjection(S, 1 .. n)
  <2>1. IsFiniteSet(1 .. n) /\ Cardinality(1 .. n) = n
    BY <1>1, FS_Interval
  <2> HIDE DEF f
  <2> QED
    BY <1>4, <2>1, FS_Injection
<1>6. ASSUME NEW k \in 1 .. n
      PROVE  Ordered(S)[k] \in S /\ rank(Ordered(S)[k]) = k
  <2>1. \E l \in S : rank(l) = k
    BY <1>5 DEF Surjection
  <2> QED
    BY <2>1 DEF Ordered
<1>7. Ordered(S) \in [1 .. n -> S]
  BY <1>6 DEF Ordered
<1>8. Ordered(S) \in Seq(S) /\ Len(Ordered(S)) = n
  <2> HIDE DEF n
  <2> QED
    BY <1>1, <1>7
<1>9. ASSUME NEW l \in S
      PROVE  \E k \in 1 .. n : Ordered(S)[k] = l
  <2>1. rank(l) \in 1 .. n /\ Ordered(S)[rank(l)] \in S /\ rank(Ordered(S)[rank(l)]) = rank(l)
    BY <1>2, <1>6
  <2>2. f[Ordered(S)[rank(l)]] = f[l]
    BY <2>1
  <2>3. Ordered(S)[rank(l)] = l
    <3> HIDE DEF f
    <3> QED
      BY <1>4, <2>1, <2>2 DEF Injection, IsInjective
  <2> QED
    BY <2>1, <2>3
<1> QED
  BY <1>8, <1>9

\* The lines that are calculated, in their order.
TerminalSet == {l \in Lines : srv.line[l].status \in Terminal}

LEMMA TerminalLinesAre ==
  /\ TerminalLines \in Seq(TerminalSet) /\ Len(TerminalLines) = Cardinality(TerminalSet)
  /\ Len(TerminalLines) \in Counts
  /\ Len(TerminalLines) = NLines => AllTerminal(srv.line)
<1>1. TerminalSet \in SUBSET Lines
  BY DEF TerminalSet
<1>2. TerminalLines = Ordered(TerminalSet)
  BY DEF TerminalLines, Ordered, TerminalSet
<1>3. TerminalLines \in Seq(TerminalSet) /\ Len(TerminalLines) = Cardinality(TerminalSet)
  BY <1>1, <1>2, OrderedAre
<1>4. Cardinality(TerminalSet) \in Counts /\ (Cardinality(TerminalSet) = NLines => TerminalSet = Lines)
  BY <1>1, LinesAreFinite
<1>5. TerminalSet = Lines => AllTerminal(srv.line)
  BY DEF TerminalSet, AllTerminal
<1> QED
  BY <1>3, <1>4, <1>5

LEMMA ResetIs ==
  ASSUME NEW g \in Nat
  PROVE  LET r == [NoBatch EXCEPT !.reset = TRUE, !.gen = g] IN
         r \in BatchRecord /\ r.items = <<>> /\ r.done = FALSE /\ r.gen = g
<1>1. NoBatch \in BatchRecord
  <2>1. <<>> \in Seq(Item) /\ 0 \in Counts
    BY EmptySeq, SizesAssumption DEF Counts
  <2> QED
    BY <2>1 DEF NoBatch, BatchRecord
<1>2. NoBatch.items = <<>> /\ NoBatch.done = FALSE
  BY DEF NoBatch
<1> QED
  BY <1>1, <1>2 DEF BatchRecord

\* What an answer of the server says is so when it says it.
TrueOf(b) ==
  /\ \A k \in 1 .. Len(b.items) :
       b.items[k].now = srv.line[b.items[k].id] /\ b.items[k].now.status \in Terminal
  /\ b.done => AllTerminal(srv.line)

LEMMA BatchAnswers ==
  ASSUME srv \in SrvRecord, NEW applied \in Counts, NEW gen \in Nat
  PROVE  Batch(applied, gen) \in BatchRecord /\ Batch(applied, gen).gen = srv.gen /\ TrueOf(Batch(applied, gen))
<1> DEFINE lines == TerminalLines
           n == Len(lines)
           from == IF applied > n THEN n ELSE applied
           done == n = NLines
           fresh == n - from
           ready == fresh >= ClientBatch \/ (done /\ (fresh > 0 \/ from > 0))
           upto == IF fresh < ClientBatch THEN n ELSE from + ClientBatch
           items == IF ready THEN SubSeq(lines, from + 1, upto) ELSE <<>>
           told == [k \in 1 .. Len(items) |-> [id |-> items[k], now |-> srv.line[items[k]]]]
           b == [reset |-> FALSE, gen |-> srv.gen, processed |-> n, done |-> done,
                 applied |-> IF ready THEN from + Len(items) ELSE applied, items |-> told]
<1>1. lines \in Seq(TerminalSet) /\ n \in Counts /\ (n = NLines => AllTerminal(srv.line))
  BY TerminalLinesAre
<1>2. NLines \in Nat /\ ClientBatch \in Nat /\ ClientBatch > 0
  BY SizesAssumption
<1>3. n \in Nat /\ n <= NLines /\ from \in Nat /\ from <= n /\ applied \in Nat /\ applied <= NLines
  BY <1>1, <1>2 DEF Counts
<1>4. upto \in Nat /\ from <= upto /\ upto <= n
  BY <1>2, <1>3
<1>5. items \in Seq(TerminalSet) /\ (ready => Len(items) = upto - from) /\ (~ready => Len(items) = 0)
  <2>1. \A i \in from + 1 .. upto : lines[i] \in TerminalSet
    <3> HIDE DEF lines
    <3>1. \A i \in 1 .. n : lines[i] \in TerminalSet
      BY <1>1
    <3> HIDE DEF n, from, upto
    <3> QED
      BY <1>3, <1>4, <3>1
  <2>2. SubSeq(lines, from + 1, upto) \in Seq(TerminalSet) /\ Len(SubSeq(lines, from + 1, upto)) = upto - from
    <3> HIDE DEF lines, from, upto
    <3>1. /\ SubSeq(lines, from + 1, upto) \in Seq(TerminalSet)
          /\ Len(SubSeq(lines, from + 1, upto)) = IF from + 1 <= upto THEN upto - (from + 1) + 1 ELSE 0
      BY <1>3, <1>4, <2>1, SubSeqProperties
    <3> QED
      BY <1>3, <1>4, <3>1
  <2>3. <<>> \in Seq(TerminalSet) /\ Len(<<>>) = 0
    BY EmptySeq
  <2> HIDE DEF ready, lines, from, upto
  <2> QED
    BY <2>2, <2>3
<1> HIDE DEF items
<1>6. b.applied \in Counts
  <2> HIDE DEF ready, from, upto, n
  <2> QED
    BY <1>2, <1>3, <1>4, <1>5 DEF Counts
<1>7. Len(items) \in Nat /\ \A k \in 1 .. Len(items) : items[k] \in TerminalSet
  BY <1>5
<1>8. TerminalSet \subseteq Lines /\ srv.line \in LineMap /\ srv.gen \in Nat
  BY DEF TerminalSet, SrvRecord
<1>9. told \in Seq(Item) /\ Len(told) = Len(items)
      /\ \A k \in 1 .. Len(told) : told[k].now = srv.line[told[k].id] /\ told[k].now.status \in Terminal
  <2>1. \A k \in 1 .. Len(items) :
          /\ told[k] \in Item
          /\ told[k].now = srv.line[told[k].id] /\ told[k].now.status \in Terminal
    BY <1>7, <1>8 DEF Item, LineMap, TerminalSet
  <2>2. told \in [1 .. Len(items) -> Item]
    BY <2>1
  <2>3. told \in Seq(Item) /\ Len(told) = Len(items)
    <3> HIDE DEF told
    <3> QED
      BY <1>7, <2>2
  <2> QED
    BY <2>1, <2>3
<1> HIDE DEF told, lines
<1>10. CASE gen > 0 /\ gen # srv.gen
  <2>1. Batch(applied, gen) = [NoBatch EXCEPT !.reset = TRUE, !.gen = srv.gen]
    BY <1>10 DEF Batch
  <2>2. Len(<<>>) = 0
    BY EmptySeq
  <2> DEFINE r == [NoBatch EXCEPT !.reset = TRUE, !.gen = srv.gen]
  <2>3. r \in BatchRecord /\ r.items = <<>> /\ r.done = FALSE /\ r.gen = srv.gen
    BY <1>8, ResetIs
  <2>4. Batch(applied, gen) = r
    BY <2>1
  <2> HIDE DEF r
  <2>5. TrueOf(r)
    BY <2>2, <2>3 DEF TrueOf
  <2> QED
    BY <2>3, <2>4, <2>5
<1>11. CASE ~(gen > 0 /\ gen # srv.gen)
  <2>1. Batch(applied, gen) = b
    BY <1>11 DEF Batch, told, items, lines
  <2>2. b \in BatchRecord
    <3>1. n \in Counts /\ done \in BOOLEAN
      BY <1>1
    <3> QED
      BY <1>6, <1>8, <1>9, <3>1 DEF BatchRecord
  <2>3. TrueOf(b)
    BY <1>1, <1>9 DEF TrueOf
  <2> QED
    BY <2>1, <2>2, <2>3
<1> QED
  BY <1>10, <1>11

\* A line takes what a batch says of it, if it says something of it.
LEMMA ItemsApplied ==
  ASSUME line \in LineMap, NEW b \in BatchRecord
  PROVE  /\ WithItems(b) \in LineMap
         /\ \A l \in Lines : WithItems(b)[l] = line[l]
                             \/ \E k \in 1 .. Len(b.items) : b.items[k].id = l /\ WithItems(b)[l] = b.items[k].now
<1>1. b.items \in Seq(Item)
  BY DEF BatchRecord
<1>2. \A it \in ItemsOf(b) : it \in Item /\ \E k \in 1 .. Len(b.items) : it = b.items[k]
  BY <1>1 DEF ItemsOf
<1>3. ASSUME NEW l \in Lines
      PROVE  /\ WithItems(b)[l] \in LineType
             /\ WithItems(b)[l] = line[l]
                \/ \E k \in 1 .. Len(b.items) : b.items[k].id = l /\ WithItems(b)[l] = b.items[k].now
  <2>1. CASE \E it \in ItemsOf(b) : it.id = l
    <3> DEFINE it == CHOOSE it \in ItemsOf(b) : it.id = l
    <3>1. it \in ItemsOf(b) /\ it.id = l
      BY <2>1
    <3>2. WithItems(b)[l] = it.now
      BY <2>1 DEF WithItems
    <3> HIDE DEF it
    <3> QED
      BY <1>2, <3>1, <3>2 DEF Item
  <2>2. CASE ~\E it \in ItemsOf(b) : it.id = l
    BY <2>2 DEF WithItems, LineMap
  <2> QED
    BY <2>1, <2>2
<1>4. WithItems(b) \in LineMap
  <2>1. \A l \in Lines : WithItems(b)[l] \in LineType
    BY <1>3
  <2>2. WithItems(b) = [l \in Lines |-> WithItems(b)[l]]
    BY DEF WithItems
  <2> QED
    BY <2>1, <2>2 DEF LineMap
<1> QED
  BY <1>3, <1>4

LEMMA CountsOfLines ==
  ASSUME NEW ls
  PROVE  Processed(ls) \in Counts
<1>1. {l \in Lines : ls[l].status \in Terminal} \in SUBSET Lines
  OBVIOUS
<1> QED
  BY <1>1, LinesAreFinite DEF Processed

LEMMA ConstantsTyped ==
  /\ None \in Waited /\ Ops = {"calculate", "restart", "save", "text"}
  /\ Blank \in LineType /\ Queued \in LineType /\ 0 \in Counts /\ NLines \in Counts
  /\ NoBatch \in BatchRecord /\ NoBatch.gen = 0
  /\ NoTask \in TaskRecord /\ NoTask.batch = NoBatch
  /\ Looping \in TaskRecord /\ Looping.batch = NoBatch
  /\ Finishing \in TaskRecord /\ Finishing.batch = NoBatch
  /\ NoReading \in ReadRecord /\ NoOp \in OpRecord /\ NoOp.context = 0
<1>1. None \in Waited /\ Ops = {"calculate", "restart", "save", "text"} /\ 0 \in Counts /\ NLines \in Counts
  BY SizesAssumption DEF Waited, Ops, Counts
<1>2. Blank \in LineType /\ Queued \in LineType
  BY DEF Blank, Queued, LineType, Status
<1>3. NoBatch \in BatchRecord /\ NoBatch.gen = 0
  <2>1. <<>> \in Seq(Item)
    BY EmptySeq
  <2> QED
    BY <1>1, <2>1 DEF NoBatch, BatchRecord
<1>4. NoTask \in TaskRecord /\ NoTask.batch = NoBatch
  BY <1>3 DEF NoTask, TaskRecord, TaskPhases
<1>5. Looping \in TaskRecord /\ Looping.batch = NoBatch /\ Finishing \in TaskRecord /\ Finishing.batch = NoBatch
  BY <1>4 DEF Looping, Finishing, TaskRecord, TaskPhases
<1>6. [l \in Lines |-> Blank] \in LineMap
  BY <1>2 DEF LineMap
<1>7. NoReading \in ReadRecord
  BY <1>1, <1>6 DEF NoReading, ReadRecord, ReadPhases
<1>8. NoOp \in OpRecord /\ NoOp.context = 0
  BY <1>1 DEF NoOp, OpRecord, OpPhases
<1> QED
  BY <1>1, <1>2, <1>3, <1>4, <1>5, <1>7, <1>8

LEMMA LargerBounds ==
  ASSUME NEW g \in Nat, NEW h \in Nat, g <= h
  PROVE  Ctrls(g) \subseteq Ctrls(h) /\ Tasks(g) \subseteq Tasks(h) /\ OpMaps(g) \subseteq OpMaps(h) /\ Srvs(g) \subseteq Srvs(h)
<1>1. \A c \in CtrlRecord : c.gen \in Nat
  BY DEF CtrlRecord
<1>2. \A ts \in [Listeners -> TaskRecord] : \A i \in Listeners : ts[i].batch.gen \in Nat
  BY DEF TaskRecord, BatchRecord
<1>3. \A os \in [Ops -> OpRecord] : \A o \in Ops : os[o].context \in Nat
  BY DEF OpRecord
<1>4. \A s \in SrvRecord : s.context \in Nat /\ s.at \in Nat
  BY DEF SrvRecord
<1>5. Ctrls(g) \subseteq Ctrls(h)
  BY <1>1 DEF Ctrls
<1>6. Tasks(g) \subseteq Tasks(h)
  BY <1>2 DEF Tasks
<1>7. OpMaps(g) \subseteq OpMaps(h)
  BY <1>3 DEF OpMaps
<1>8. Srvs(g) \subseteq Srvs(h)
  BY <1>4 DEF Srvs
<1> QED
  BY <1>5, <1>6, <1>7, <1>8

\* One listener's task becomes another.
LEMMA TaskChanged ==
  ASSUME NEW g \in Nat, NEW ts \in Tasks(g), NEW i \in Listeners, NEW x \in TaskRecord, x.batch.gen <= g
  PROVE  [ts EXCEPT ![i] = x] \in Tasks(g)
BY DEF Tasks

LEMMA TasksAre ==
  ASSUME NEW g \in Nat, NEW ts \in Tasks(g), NEW i \in Listeners
  PROVE  ts[i] \in TaskRecord /\ ts[i].batch \in BatchRecord /\ ts[i].batch.gen <= g
BY DEF Tasks, TaskRecord

LEMMA DisownedTyped ==
  ASSUME NEW g \in Nat, NEW ts \in Tasks(g)
  PROVE  Disowned(ts) \in Tasks(g)
<1>1. ASSUME NEW i \in Listeners
      PROVE  [ts[i] EXCEPT !.own = FALSE] \in TaskRecord /\ [ts[i] EXCEPT !.own = FALSE].batch = ts[i].batch
             /\ ts[i].batch.gen <= g
  BY TasksAre DEF TaskRecord
<1> QED
  BY <1>1 DEF Disowned, Tasks

LEMMA OutdatedTyped ==
  ASSUME NEW g \in Nat, task \in Tasks(g)
  PROVE  Outdated \in Tasks(g)
<1>1. ASSUME NEW i \in Listeners
      PROVE  LET x == [task[i] EXCEPT !.outdated = @ \/ task[i].phase \in {"fetch", "answer"}] IN
             x \in TaskRecord /\ x.batch = task[i].batch /\ task[i].batch.gen <= g
  BY TasksAre DEF TaskRecord
<1> QED
  BY <1>1 DEF Outdated, Tasks

LEMMA AbortedTyped ==
  ASSUME NEW g, NEW c \in Ctrls(g)
  PROVE  Aborted(c) \in Ctrls(g)
BY DEF Aborted, Ctrls, CtrlRecord

LEMMA LaunchTyped ==
  ASSUME NEW g \in Nat, NEW c \in Ctrls(g), NEW ts \in Tasks(g), Launch(c, ts)
  PROVE  ctrl' \in Ctrls(g) /\ task' \in Tasks(g)
<1> DEFINE free == {i \in Listeners : ts[i].phase = "idle"}
<1>1. PICK i \in Listeners : task' = [ts EXCEPT ![i] = Looping] /\ ctrl' = [c EXCEPT !.stopped = FALSE, !.promise = i]
  <2>1. free # {}
    BY DEF Launch
  <2>2. (CHOOSE i \in free : TRUE) \in free
    BY <2>1
  <2> QED
    BY <2>2 DEF Launch
<1>2. task' \in Tasks(g)
  <2>1. Looping \in TaskRecord /\ Looping.batch.gen <= g
    BY ConstantsTyped
  <2> QED
    BY <1>1, <2>1, TaskChanged
<1>3. ctrl' \in Ctrls(g)
  BY <1>1 DEF Ctrls, CtrlRecord, Waited
<1> QED
  BY <1>2, <1>3

LEMMA StartListenerTyped ==
  ASSUME NEW g \in Nat, NEW c \in Ctrls(g), NEW ts \in Tasks(g), NEW should, StartListener(c, ts, should)
  PROVE  ctrl' \in Ctrls(g) /\ task' \in Tasks(g)
<1>1. Aborted(c) \in Ctrls(g) /\ Disowned(ts) \in Tasks(g)
  BY AbortedTyped, DisownedTyped
<1>2. CASE should
  BY <1>1, <1>2, LaunchTyped DEF StartListener
<1>3. CASE ~should
  BY <1>3 DEF StartListener
<1> QED
  BY <1>2, <1>3

LEMMA ReconcileTyped ==
  ASSUME reading \in ReadRecord, NEW caller \in Waited \cup Ops, Reconcile(caller)
  PROVE  reading' \in ReadRecord
<1>1. [NoReading EXCEPT !.phase = "sent", !.for = caller] \in ReadRecord
  <2>1. NoReading \in ReadRecord
    BY ConstantsTyped
  <2> QED
    BY <2>1 DEF ReadRecord, ReadPhases
<1> QED
  BY <1>1 DEF Reconcile

LEMMA OpsMove ==
  ASSUME NEW g \in Nat, op \in OpMaps(g), ctrl \in CtrlRecord, NEW o \in Ops, NEW phase \in OpPhases
  PROVE  Goes(o, phase) \in OpMaps(g) /\ Waits(o, phase) \in OpMaps(g)
<1>1. op \in [Ops -> OpRecord] /\ \A x \in Ops : op[x].context <= g
  BY DEF OpMaps
<1>2. [op[o] EXCEPT !.phase = phase] \in OpRecord /\ [op[o] EXCEPT !.phase = phase].context = op[o].context
  BY <1>1 DEF OpRecord
<1>3. Goes(o, phase) = [op EXCEPT ![o] = [op[o] EXCEPT !.phase = phase]]
  BY DEF Goes
<1>4. ctrl.promise \in Waited
  BY DEF CtrlRecord
<1> DEFINE y == [[op[o] EXCEPT !.phase = phase] EXCEPT !.wait = ctrl.promise]
<1>5. y \in OpRecord /\ y.context = op[o].context
  <2> DEFINE x == [op[o] EXCEPT !.phase = phase]
  <2>1. x \in OpRecord /\ x.context = op[o].context
    BY <1>2
  <2> HIDE DEF x
  <2>2. [x EXCEPT !.wait = ctrl.promise] \in OpRecord /\ [x EXCEPT !.wait = ctrl.promise].context = x.context
    BY <1>4, <2>1 DEF OpRecord
  <2> QED
    BY <2>1, <2>2 DEF x
<1>6. Waits(o, phase) = [op EXCEPT ![o] = y]
  BY <1>1 DEF Waits
<1> HIDE DEF y
<1> QED
  BY <1>1, <1>2, <1>3, <1>5, <1>6 DEF OpMaps

LEMMA WokenTyped ==
  ASSUME NEW g \in Nat, op \in OpMaps(g), NEW i
  PROVE  Woken(i) \in OpMaps(g)
<1>1. ASSUME NEW o \in Ops
      PROVE  LET x == [op[o] EXCEPT !.wait = IF @ = i THEN None ELSE @] IN
             x \in OpRecord /\ x.context = op[o].context /\ op[o].context <= g
  BY ConstantsTyped DEF OpMaps, OpRecord
<1> QED
  BY <1>1 DEF Woken, OpMaps

LEMMA SettledTyped ==
  ASSUME NEW g, NEW c \in Ctrls(g), NEW i
  PROVE  Settled(i, c) \in Ctrls(g)
BY DEF Settled, Ctrls, CtrlRecord, Waited

LEMMA LeaveTyped ==
  ASSUME SessionInv, NEW i \in Listeners, Leave(i)
  PROVE  task' \in Tasks(srv.gen) /\ ctrl' \in Ctrls(srv.gen) /\ op' \in OpMaps(context) /\ reading' \in ReadRecord
<1>1. srv.gen \in Nat /\ context \in Nat
  BY DEF SessionInv, Srvs, SrvRecord
<1>2. ctrl' \in Ctrls(srv.gen)
  BY SettledTyped DEF SessionInv, Leave
<1>3. op' \in OpMaps(context)
  BY <1>1, WokenTyped DEF SessionInv, Leave
<1>4. reading' \in ReadRecord
  <2>1. CASE Reconcile(None)
    BY <2>1, ReconcileTyped, ConstantsTyped DEF SessionInv
  <2>2. CASE UNCHANGED reading
    BY <2>2 DEF SessionInv
  <2> QED
    BY <2>1, <2>2 DEF Leave
<1>5. task' \in Tasks(srv.gen)
  <2> DEFINE again == [NoTask EXCEPT !.phase = "later", !.own = TRUE]
  <2>1. again \in TaskRecord /\ again.batch = NoBatch
    BY ConstantsTyped DEF TaskRecord, TaskPhases
  <2>2. task' = [task EXCEPT ![i] = again] \/ task' = [task EXCEPT ![i] = NoTask]
    BY DEF Leave, Returned
  <2> HIDE DEF again
  <2>3. again.batch.gen <= srv.gen /\ NoTask.batch.gen <= srv.gen /\ NoTask \in TaskRecord
    BY <1>1, <2>1, ConstantsTyped
  <2> QED
    BY <1>1, <2>1, <2>2, <2>3, TaskChanged DEF SessionInv
<1> QED
  BY <1>2, <1>3, <1>4, <1>5

LEMMA SessionFacts ==
  ASSUME SessionInv
  PROVE  /\ srv \in SrvRecord /\ srv.gen \in Nat /\ srv.line \in LineMap /\ context \in Nat
         /\ srv.context <= context /\ srv.at <= context
         /\ ctrl \in CtrlRecord /\ ctrl.gen \in Nat /\ ctrl.gen <= srv.gen /\ ctrl.applied \in Counts
         /\ op \in [Ops -> OpRecord] /\ \A o \in Ops : op[o].context \in Nat /\ op[o].context <= context
<1>1. srv \in SrvRecord /\ srv.context <= context /\ srv.at <= context
  BY DEF SessionInv, Srvs
<1>2. ctrl \in CtrlRecord /\ ctrl.gen <= srv.gen
  BY DEF SessionInv, Ctrls
<1>3. op \in [Ops -> OpRecord] /\ \A o \in Ops : op[o].context <= context
  BY DEF SessionInv, OpMaps
<1>4. \A o \in Ops : op[o].context \in Nat
  BY <1>3 DEF OpRecord
<1> QED
  BY <1>1, <1>2, <1>3, <1>4 DEF SessionInv, SrvRecord, CtrlRecord

\* The server's generation grows, the rest of the types follow.
LEMMA ServerMoves ==
  ASSUME SessionInv, NEW s \in Srvs(context), srv.gen <= s.gen
  PROVE  ctrl \in Ctrls(s.gen) /\ task \in Tasks(s.gen)
<1>1. srv.gen \in Nat /\ s.gen \in Nat
  BY SessionFacts DEF Srvs, SrvRecord
<1> QED
  BY <1>1, LargerBounds DEF SessionInv

LEMMA ServerAnswers ==
  ASSUME SessionInv
  PROVE  /\ Cancelled \in Srvs(context) /\ Cancelled.gen = srv.gen + 1
         /\ \A force \in BOOLEAN : Started(force) \in Srvs(context) /\ srv.gen <= Started(force).gen
         /\ \A c \in Nat : c <= context => Saved(c) \in Srvs(context) /\ Saved(c).gen = srv.gen
<1>1. srv \in SrvRecord /\ srv.gen \in Nat /\ srv.gen + 1 \in Nat /\ srv.context <= context /\ srv.at <= context
  BY SessionFacts
<1>2. [l \in Lines |-> Blank] \in LineMap
  BY ConstantsTyped DEF LineMap
<1>3. Cancelled \in Srvs(context) /\ Cancelled.gen = srv.gen + 1 /\ Cancelled.context = srv.context
  BY <1>1, <1>2 DEF Cancelled, Srvs, SrvRecord
<1>4. ASSUME NEW force \in BOOLEAN
      PROVE  Started(force) \in Srvs(context) /\ srv.gen <= Started(force).gen
  <2>1. ASSUME NEW s \in Srvs(context)
        PROVE  /\ [s EXCEPT !.enqueue = TRUE, !.at = srv.context] \in Srvs(context)
               /\ [s EXCEPT !.enqueue = TRUE, !.at = srv.context].gen = s.gen
    BY <1>1 DEF Srvs, SrvRecord
  <2>2. srv \in Srvs(context) /\ srv.gen <= srv.gen /\ srv.gen <= Cancelled.gen
    BY <1>1, <1>3 DEF SessionInv
  <2>3. Started(force) = [Cancelled EXCEPT !.enqueue = TRUE, !.at = srv.context]
        \/ Started(force) = [srv EXCEPT !.enqueue = TRUE, !.at = srv.context]
    BY DEF Started
  <2>4. CASE Started(force) = [Cancelled EXCEPT !.enqueue = TRUE, !.at = srv.context]
    BY <1>3, <2>1, <2>2, <2>4
  <2>5. CASE Started(force) = [srv EXCEPT !.enqueue = TRUE, !.at = srv.context]
    BY <2>1, <2>2, <2>5
  <2> QED
    BY <2>3, <2>4, <2>5
<1>5. ASSUME NEW c \in Nat, c <= context
      PROVE  Saved(c) \in Srvs(context) /\ Saved(c).gen = srv.gen
  <2>1. CASE c = srv.context
    BY <2>1 DEF Saved, SessionInv
  <2>2. CASE c # srv.context
    <3> DEFINE e == srv.enqueue \/ \E l \in Lines : srv.line[l].price # None
    <3>1. Saved(c) = [srv EXCEPT !.context = c, !.line = [l \in Lines |-> Blank], !.enqueue = e]
      BY <2>2 DEF Saved
    <3>2. e \in BOOLEAN
      BY <1>1 DEF SrvRecord
    <3> HIDE DEF e
    <3> QED
      BY <1>1, <1>2, <1>5, <3>1, <3>2 DEF Srvs, SrvRecord
  <2> QED
    BY <2>1, <2>2
<1> QED
  BY <1>3, <1>4, <1>5

LEMMA InitTyped == Init => SessionInv
<1> SUFFICES ASSUME Init
             PROVE  SessionInv
  OBVIOUS
<1>1. [l \in Lines |-> Blank] \in LineMap
  BY ConstantsTyped DEF LineMap
<1>2. srv \in Srvs(context) /\ srv.gen = 1 /\ context = 0
  BY <1>1 DEF Init, Srvs, SrvRecord
<1>3. ctrl \in Ctrls(srv.gen)
  BY <1>2, ConstantsTyped DEF Init, Ctrls, CtrlRecord
<1>4. task \in Tasks(srv.gen)
  BY <1>2, ConstantsTyped DEF Init, Tasks
<1>5. op \in OpMaps(context)
  BY <1>2, ConstantsTyped DEF Init, OpMaps
<1>6. context \in Nat /\ context <= gestures /\ gestures \in 0 .. MaxGestures /\ faults \in Nat
  BY BoundsAssumption DEF Init
<1>7. reading \in ReadRecord /\ line \in LineMap /\ awaiting \in BOOLEAN /\ blocked \in BOOLEAN /\ shown \in Counts
  BY <1>1, ConstantsTyped DEF Init
<1>8. view \in {"table", "text", "away"} /\ coalesce \in [timer : BOOLEAN, pending : BOOLEAN]
  BY DEF Init
<1> QED
  BY <1>2, <1>3, <1>4, <1>5, <1>6, <1>7, <1>8 DEF SessionInv

LEMMA ReadStepTyped == SessionInv /\ ReadStep => SessionInv'
<1> SUFFICES ASSUME SessionInv, ReadStep
             PROVE  SessionInv'
  OBVIOUS
<1>1. srv.line \in LineMap /\ reading \in ReadRecord /\ reading.statuses \in LineMap
  BY SessionFacts DEF SessionInv, ReadRecord
<1>2. CASE AnswerStatus
  <2>1. reading' \in ReadRecord
    BY <1>1, <1>2 DEF AnswerStatus, ReadRecord, ReadPhases
  <2> QED
    BY <1>2, <2>1 DEF SessionInv, AnswerStatus, ui, table, bounds
<1>3. CASE ApplyStatuses
  <2>1. reading' \in ReadRecord
    <3>1. [reading EXCEPT !.phase = "retry"] \in ReadRecord
      BY <1>1 DEF ReadRecord, ReadPhases
    <3> QED
      BY <1>3, <3>1, ConstantsTyped DEF ApplyStatuses
  <2>2. Processed(reading.statuses) \in Counts /\ NLines \in Counts
    BY CountsOfLines, ConstantsTyped
  <2>3. line' = reading.statuses \/ line' = line
    BY <1>3 DEF ApplyStatuses
  <2>4. shown' \in {Processed(reading.statuses), Larger(Processed(reading.statuses), shown), NLines, shown}
    BY <1>3 DEF ApplyStatuses
  <2>5. shown' \in Counts
    BY <2>2, <2>4 DEF SessionInv, Larger
  <2>6. awaiting' \in BOOLEAN
    BY <1>3 DEF ApplyStatuses, SessionInv
  <2>7. UNCHANGED <<srv, ui, blocked, ctrl, task, op, coalesce, bounds>>
    BY <1>3 DEF ApplyStatuses
  <2> QED
    BY <1>1, <2>1, <2>3, <2>5, <2>6, <2>7 DEF SessionInv, ui, bounds
<1>4. CASE StatusFails
  <2>1. reading' \in ReadRecord /\ faults' \in Nat
    BY <1>4, ConstantsTyped DEF StatusFails, Fault, SessionInv
  <2> QED
    BY <1>4, <2>1 DEF SessionInv, StatusFails, ui, table
<1> QED
  BY <1>2, <1>3, <1>4 DEF ReadStep

LEMMA ServerStepTyped == SessionInv /\ ServerStep => SessionInv'
<1> SUFFICES ASSUME SessionInv, ServerStep
             PROVE  SessionInv'
  OBVIOUS
<1>1. /\ srv \in SrvRecord /\ srv.gen \in Nat /\ srv.line \in LineMap
      /\ srv.context \in 0 .. MaxGestures /\ srv.context <= context /\ srv.at <= context
  BY SessionFacts, BoundsAssumption DEF SessionInv, SrvRecord
<1>2. ASSUME NEW ls \in LineMap, NEW e \in BOOLEAN, srv' = [srv EXCEPT !.enqueue = e, !.line = ls],
             UNCHANGED <<ui, table, ctrl, task, reading, op, coalesce, bounds>>
      PROVE  SessionInv'
  <2>1. srv' \in Srvs(context) /\ srv'.gen = srv.gen
    BY <1>1, <1>2 DEF Srvs, SrvRecord
  <2> QED
    BY <1>2, <2>1 DEF SessionInv, ui, table, bounds
<1>3. CASE Enqueue
  <2> DEFINE ls == [l \in Lines |-> IF srv.line[l].status = "done" THEN srv.line[l] ELSE Queued]
  <2>1. ls \in LineMap
    BY <1>1, ConstantsTyped DEF LineMap
  <2>2. srv' = [srv EXCEPT !.enqueue = FALSE, !.line = ls]
        /\ UNCHANGED <<ui, table, ctrl, task, reading, op, coalesce, bounds>>
    BY <1>3 DEF Enqueue
  <2> HIDE DEF ls
  <2> QED
    BY <1>2, <2>1, <2>2
<1>4. ASSUME NEW l \in Lines, NEW verdict \in Verdicts, Calculate(l, verdict)
      PROVE  SessionInv'
  <2> DEFINE x == [status |-> verdict, price |-> IF verdict = "done" THEN srv.context ELSE None]
             ls == [srv.line EXCEPT ![l] = x]
  <2>1. x \in LineType
    BY <1>1, VerdictsAssumption DEF LineType, Status
  <2>2. ls \in LineMap
    <3> HIDE DEF x
    <3> QED
      BY <1>1, <2>1 DEF LineMap
  <2>3. srv' = [srv EXCEPT !.enqueue = srv.enqueue, !.line = ls] /\ srv.enqueue \in BOOLEAN
    <3>1. srv' = [srv EXCEPT !.line = ls]
      BY <1>4 DEF Calculate
    <3> HIDE DEF ls
    <3> QED
      BY <1>1, <3>1 DEF SrvRecord
  <2> HIDE DEF ls, x
  <2> QED
    BY <1>2, <1>4, <2>2, <2>3 DEF Calculate
<1> QED
  BY <1>3, <1>4 DEF ServerStep

\* What a listener's step may change, and what it leaves alone.
LEMMA ListenerTyped ==
  ASSUME SessionInv, task' \in Tasks(srv.gen), ctrl' \in Ctrls(srv.gen), op' \in OpMaps(context),
         reading' \in ReadRecord, line' \in LineMap, awaiting' \in BOOLEAN, shown' \in Counts, faults' \in Nat,
         UNCHANGED <<srv, ui, blocked, coalesce, gestures>>
  PROVE  SessionInv'
<1>1. UNCHANGED <<srv, context, view, blocked, coalesce, gestures>>
  BY DEF ui
<1> QED
  BY <1>1 DEF SessionInv

LEMMA TaskMoves ==
  ASSUME SessionInv, NEW i \in Listeners
  PROVE  /\ task[i] \in TaskRecord /\ task[i].batch \in BatchRecord /\ task[i].batch.gen <= srv.gen
         /\ task[i].batch.applied \in Counts /\ task[i].batch.processed \in Counts /\ task[i].batch.gen \in Nat
         /\ [task EXCEPT ![i] = Looping] \in Tasks(srv.gen) /\ [task EXCEPT ![i] = Finishing] \in Tasks(srv.gen)
         /\ Returned(i) \in Tasks(srv.gen)
<1>1. task \in Tasks(srv.gen) /\ srv.gen \in Nat
  BY SessionFacts DEF SessionInv
<1>2. task[i] \in TaskRecord /\ task[i].batch \in BatchRecord /\ task[i].batch.gen <= srv.gen
  BY <1>1, TasksAre
<1>3. /\ Looping \in TaskRecord /\ Looping.batch.gen <= srv.gen /\ Finishing \in TaskRecord
      /\ Finishing.batch.gen <= srv.gen /\ NoTask \in TaskRecord /\ NoTask.batch.gen <= srv.gen
  BY <1>1, ConstantsTyped
<1>4. task[i].batch.applied \in Counts /\ task[i].batch.processed \in Counts /\ task[i].batch.gen \in Nat
  BY <1>2 DEF BatchRecord
<1> QED
  BY <1>1, <1>2, <1>3, <1>4, TaskChanged DEF Returned

LEMMA CheckTyped ==
  ASSUME SessionInv, NEW i \in Listeners, Check(i)
  PROVE  SessionInv'
<1>1. CASE Leave(i)
  BY <1>1, LeaveTyped, ListenerTyped DEF Check, SessionInv, table, bounds
<1>2. CASE ~Leave(i)
  <2> DEFINE b == [NoBatch EXCEPT !.applied = ctrl.applied, !.gen = ctrl.gen]
             x == [[[task[i] EXCEPT !.phase = "fetch"] EXCEPT !.outdated = FALSE] EXCEPT !.batch = b]
  <2>1. b \in BatchRecord /\ b.gen <= srv.gen
    BY SessionFacts, ConstantsTyped DEF BatchRecord
  <2>2. task \in [Listeners -> TaskRecord] /\ task[i] \in TaskRecord
    BY TaskMoves DEF SessionInv, Tasks
  <2>3. x \in TaskRecord /\ x.batch.gen <= srv.gen
    <3> HIDE DEF b
    <3> QED
      BY <2>1, <2>2 DEF TaskRecord, TaskPhases
  <2>4. task' = [task EXCEPT ![i] = x]
    <3>1. task' = [task EXCEPT ![i].phase = "fetch", ![i].outdated = FALSE, ![i].batch = b]
      BY <1>2 DEF Check
    <3> HIDE DEF b
    <3> QED
      BY <2>2, <3>1
  <2>5. task' \in Tasks(srv.gen)
    <3> HIDE DEF x
    <3> QED
      BY <2>3, <2>4, TaskChanged, SessionFacts DEF SessionInv
  <2>6. UNCHANGED <<ctrl, reading, op, srv, ui, table, coalesce, bounds>>
    BY <1>2 DEF Check
  <2> QED
    BY <2>5, <2>6, ListenerTyped DEF SessionInv, table, bounds
<1> QED
  BY <1>1, <1>2

LEMMA AnswerBatchTyped ==
  ASSUME SessionInv, NEW i \in Listeners, AnswerBatch(i)
  PROVE  SessionInv'
<1> DEFINE b == Batch(task[i].batch.applied, task[i].batch.gen)
           x == [[task[i] EXCEPT !.phase = "answer"] EXCEPT !.batch = b]
<1>1. task \in [Listeners -> TaskRecord] /\ task[i] \in TaskRecord
  BY TaskMoves DEF SessionInv, Tasks
<1>2. b \in BatchRecord /\ b.gen <= srv.gen
  <2>1. task[i].batch.applied \in Counts /\ task[i].batch.gen \in Nat /\ srv \in SrvRecord /\ srv.gen \in Nat
    BY TaskMoves, SessionFacts
  <2>2. b \in BatchRecord /\ b.gen = srv.gen
    BY <2>1, BatchAnswers
  <2> HIDE DEF b
  <2> QED
    BY <2>1, <2>2
<1> HIDE DEF b
<1>3. x \in TaskRecord /\ x.batch.gen <= srv.gen
  BY <1>1, <1>2 DEF TaskRecord, TaskPhases
<1>4. task' = [task EXCEPT ![i] = x]
  <2>1. task' = [task EXCEPT ![i].phase = "answer", ![i].batch = b]
    BY DEF AnswerBatch, b
  <2> QED
    BY <1>1, <2>1
<1>5. task' \in Tasks(srv.gen)
  <2> HIDE DEF x
  <2> QED
    BY <1>3, <1>4, TaskChanged, SessionFacts DEF SessionInv
<1> QED
  BY <1>5, ListenerTyped DEF AnswerBatch, SessionInv, table, bounds

LEMMA DeliverTyped ==
  ASSUME SessionInv, NEW i \in Listeners, Deliver(i)
  PROVE  SessionInv'
<1> DEFINE b == task[i].batch
           bare == b.done /\ WithItems(b) = line
           x == [[task[i] EXCEPT !.phase = "applying"] EXCEPT !.outdated = FALSE]
<1>1. /\ task \in Tasks(srv.gen) /\ task[i] \in TaskRecord /\ srv.gen \in Nat /\ b \in BatchRecord
      /\ b.gen \in Nat /\ b.gen <= srv.gen /\ b.applied \in Counts /\ b.processed \in Counts /\ b.done \in BOOLEAN
  BY TaskMoves, SessionFacts DEF SessionInv, BatchRecord
<1>2. WithItems(b) \in LineMap
  BY <1>1, ItemsApplied DEF SessionInv
<1> HIDE DEF b
<1>3. line' \in LineMap
  BY <1>2 DEF Deliver, SessionInv, b
<1>4. shown' \in Counts
  BY <1>1 DEF Deliver, SessionInv, b
<1>5. awaiting' \in BOOLEAN
  BY DEF Deliver, SessionInv
<1>6. reading' \in ReadRecord
  <2>1. i \in Waited \cup Ops
    BY DEF Waited
  <2>2. Reconcile(i) \/ UNCHANGED reading
    BY DEF Deliver
  <2> QED
    BY <2>1, <2>2, ReconcileTyped DEF SessionInv
<1>7. ctrl' \in Ctrls(srv.gen)
  <2>1. ctrl \in CtrlRecord /\ ctrl.applied \in Counts /\ 0 \in Counts
    BY SessionFacts, ConstantsTyped
  <2>2. ASSUME NEW n \in Counts, NEW applying \in BOOLEAN
        PROVE  [ctrl EXCEPT !.gen = b.gen, !.applying = applying, !.applied = n] \in Ctrls(srv.gen)
    BY <1>1, <2>1 DEF Ctrls, CtrlRecord
  <2>3. CASE b.reset
    <3>1. ctrl' = [ctrl EXCEPT !.applied = 0, !.gen = b.gen]
      BY <2>3 DEF Deliver, b
    <3> QED
      BY <1>1, <2>1, <3>1 DEF Ctrls, CtrlRecord
  <2>4. CASE ~b.reset
    <3>1. \E n \in {b.applied, ctrl.applied} : ctrl' = [ctrl EXCEPT !.gen = b.gen, !.applying = bare, !.applied = n]
      BY <2>4 DEF Deliver, b
    <3>2. bare \in BOOLEAN
      BY <1>1
    <3> HIDE DEF bare
    <3> QED
      BY <1>1, <2>1, <2>2, <3>1, <3>2
  <2> QED
    BY <2>3, <2>4
<1>8. task' \in Tasks(srv.gen)
  <2>1. task' = [task EXCEPT ![i] = Looping] \/ task' = [task EXCEPT ![i] = Finishing] \/ task' = [task EXCEPT ![i] = x]
    <3>1. task' = [task EXCEPT ![i] = Looping]
          \/ task' = [task EXCEPT ![i] = IF bare THEN [@ EXCEPT !.phase = "applying", !.outdated = FALSE]
                                         ELSE IF b.done THEN Finishing ELSE Looping]
      BY DEF Deliver, b
    <3> QED
      BY <1>1, <3>1 DEF Tasks
  <2>2. x \in TaskRecord /\ x.batch = task[i].batch
    BY <1>1 DEF TaskRecord, TaskPhases
  <2> HIDE DEF x
  <2>3. x.batch.gen <= srv.gen
    BY <1>1, <2>2 DEF b
  <2>4. [task EXCEPT ![i] = x] \in Tasks(srv.gen)
    BY <1>1, <2>2, <2>3, TaskChanged
  <2>5. [task EXCEPT ![i] = Looping] \in Tasks(srv.gen) /\ [task EXCEPT ![i] = Finishing] \in Tasks(srv.gen)
    BY TaskMoves
  <2> QED
    BY <2>1, <2>4, <2>5
<1>9. UNCHANGED <<srv, ui, blocked, op, coalesce, bounds>>
  BY DEF Deliver
<1> QED
  BY <1>3, <1>4, <1>5, <1>6, <1>7, <1>8, <1>9, ListenerTyped DEF SessionInv, bounds

LEMMA AppliedTyped ==
  ASSUME SessionInv, NEW i \in Listeners, Applied(i)
  PROVE  SessionInv'
<1> DEFINE c == [ctrl EXCEPT !.applying = FALSE, !.applied = task[i].batch.applied]
<1>1. c \in Ctrls(srv.gen)
  BY TaskMoves, SessionFacts DEF Ctrls, CtrlRecord
<1>2. ctrl' \in Ctrls(srv.gen)
  <2>1. ctrl' = c \/ ctrl' = Settled(i, c)
    BY DEF Applied
  <2> HIDE DEF c
  <2> QED
    BY <1>1, <2>1, SettledTyped
<1>3. task' \in Tasks(srv.gen)
  BY TaskMoves DEF Applied
<1>4. op' \in OpMaps(context)
  BY WokenTyped, SessionFacts DEF Applied, SessionInv
<1>5. reading' \in ReadRecord
  <2>1. i \in Waited \cup Ops /\ (Reconcile(i) \/ UNCHANGED reading)
    BY DEF Applied, Waited
  <2> QED
    BY <2>1, ReconcileTyped DEF SessionInv
<1>6. shown' \in Counts /\ awaiting' \in BOOLEAN
  BY TaskMoves DEF Applied
<1>7. UNCHANGED <<srv, ui, line, blocked, coalesce, bounds>>
  BY DEF Applied
<1> QED
  BY <1>2, <1>3, <1>4, <1>5, <1>6, <1>7, ListenerTyped DEF SessionInv, bounds

LEMMA ListenerStepTyped ==
  ASSUME SessionInv, NEW i \in Listeners, ListenerStep(i)
  PROVE  SessionInv'
<1>1. CASE FetchAborted(i)
  BY <1>1, LeaveTyped, ListenerTyped DEF FetchAborted, SessionInv, table, bounds
<1>2. CASE BatchFails(i)
  <2>1. faults' \in Nat
    BY <1>2 DEF BatchFails, Fault, SessionInv
  <2>2. task' \in Tasks(srv.gen)
    BY <1>2, TaskMoves DEF BatchFails
  <2> QED
    BY <1>2, <2>1, <2>2, ListenerTyped DEF BatchFails, SessionInv, table
<1>3. CASE Finalize(i)
  <2>1. shown' \in Counts /\ awaiting' \in BOOLEAN
    BY <1>3, ConstantsTyped DEF Finalize
  <2> QED
    BY <1>3, <2>1, LeaveTyped, ListenerTyped DEF Finalize, SessionInv, bounds
<1>4. CASE RunAgain(i)
  <2>1. task' \in Tasks(srv.gen)
    BY <1>4, TaskMoves DEF RunAgain
  <2>2. ctrl' \in Ctrls(srv.gen)
    <3>1. ctrl \in CtrlRecord /\ ctrl.gen <= srv.gen
      BY SessionFacts
    <3>2. ctrl' = [ctrl EXCEPT !.promise = i] \/ ctrl' = ctrl
      BY <1>4 DEF RunAgain
    <3> QED
      BY <3>1, <3>2 DEF Ctrls, CtrlRecord, Waited
  <2> QED
    BY <1>4, <2>1, <2>2, ListenerTyped DEF RunAgain, SessionInv, table, bounds
<1> QED
  BY <1>1, <1>2, <1>3, <1>4, CheckTyped, AnswerBatchTyped, DeliverTyped, AppliedTyped DEF ListenerStep, ListenerTurn

\* The same for a step of an operation, which may move the server on.
LEMMA OpTyped ==
  ASSUME SessionInv, srv' \in Srvs(context), task' \in Tasks(srv'.gen), ctrl' \in Ctrls(srv'.gen),
         op' \in OpMaps(context), reading' \in ReadRecord, line' \in LineMap, awaiting' \in BOOLEAN,
         blocked' \in BOOLEAN, shown' \in Counts, coalesce' \in [timer : BOOLEAN, pending : BOOLEAN],
         faults' \in Nat, view' \in {"table", "text", "away"}, gestures' \in 0 .. MaxGestures,
         gestures <= gestures', context' = context
  PROVE  SessionInv'
<1>1. context' <= gestures'
  BY BoundsAssumption DEF SessionInv
<1> QED
  BY <1>1 DEF SessionInv

\* What Abort, StartListener and a launch do to the controller and to the tasks.
LEMMA SessionMoves ==
  ASSUME SessionInv
  PROVE  /\ Abort => ctrl' \in Ctrls(srv.gen) /\ task' \in Tasks(srv.gen)
         /\ Outdated \in Tasks(srv.gen)
         /\ \A should : StartListener(ctrl, task, should) => ctrl' \in Ctrls(srv.gen) /\ task' \in Tasks(srv.gen)
         /\ Launch(ctrl, task) => ctrl' \in Ctrls(srv.gen) /\ task' \in Tasks(srv.gen)
         /\ \A gen \in 0 .. srv.gen : [ctrl EXCEPT !.applied = 0, !.gen = gen] \in Ctrls(srv.gen)
         /\ \A o \in Ops, phase \in OpPhases :
              Goes(o, phase) \in OpMaps(context) /\ Waits(o, phase) \in OpMaps(context)
         /\ \A caller \in Ops \cup {None} : Reconcile(caller) => reading' \in ReadRecord
<1>1. ctrl \in Ctrls(srv.gen) /\ task \in Tasks(srv.gen) /\ srv.gen \in Nat /\ context \in Nat /\ ctrl \in CtrlRecord
      /\ op \in OpMaps(context)
  BY SessionFacts DEF SessionInv
<1>2. Abort => ctrl' \in Ctrls(srv.gen) /\ task' \in Tasks(srv.gen)
  BY <1>1, AbortedTyped, DisownedTyped DEF Abort
<1>3. Outdated \in Tasks(srv.gen)
  BY <1>1, OutdatedTyped
<1>4. ASSUME NEW should, StartListener(ctrl, task, should)
      PROVE  ctrl' \in Ctrls(srv.gen) /\ task' \in Tasks(srv.gen)
  BY <1>1, <1>4, StartListenerTyped
<1>5. Launch(ctrl, task) => ctrl' \in Ctrls(srv.gen) /\ task' \in Tasks(srv.gen)
  BY <1>1, LaunchTyped
<1>6. ASSUME NEW gen \in 0 .. srv.gen
      PROVE  [ctrl EXCEPT !.applied = 0, !.gen = gen] \in Ctrls(srv.gen)
  <2>1. gen \in Nat /\ gen <= srv.gen /\ 0 \in Counts /\ ctrl \in CtrlRecord
    BY <1>1, ConstantsTyped
  <2> QED
    BY <2>1 DEF Ctrls, CtrlRecord
<1>7. ASSUME NEW o \in Ops, NEW phase \in OpPhases
      PROVE  Goes(o, phase) \in OpMaps(context) /\ Waits(o, phase) \in OpMaps(context)
  BY <1>1, OpsMove
<1>8. ASSUME NEW caller \in Ops \cup {None}, Reconcile(caller)
      PROVE  reading' \in ReadRecord
  BY <1>8, ReconcileTyped DEF SessionInv, Waited
<1> QED
  BY <1>2, <1>3, <1>4, <1>5, <1>6, <1>7, <1>8

LEMMA PersistTyped ==
  ASSUME SessionInv, NEW o \in Ops, BeginPersist(o) \/ SendPut(o) \/ HandlePut(o) \/ PutDone(o) \/ HandleStart(o)
  PROVE  SessionInv'
<1>1. {"send", "started", "saved", "idle", "start", "put"} \subseteq OpPhases
  BY DEF OpPhases
<1>2. op \in [Ops -> OpRecord] /\ context \in Nat /\ op[o].context \in Nat /\ op[o].context <= context
      /\ \A x \in Ops : op[x].context <= context
  BY SessionFacts
<1>3. ASSUME NEW phase \in OpPhases, NEW c \in 0 .. context
      PROVE  [op EXCEPT ![o].phase = phase, ![o].context = c] \in OpMaps(context)
  <2> DEFINE x == [op[o] EXCEPT !.phase = phase]
             y == [x EXCEPT !.context = c]
  <2>1. x \in OpRecord
    BY <1>2 DEF OpRecord
  <2>2. y \in OpRecord /\ y.context = c
    <3> HIDE DEF x
    <3> QED
      BY <1>2, <2>1 DEF OpRecord
  <2>3. [op EXCEPT ![o].phase = phase, ![o].context = c] = [op EXCEPT ![o] = y]
    BY <1>2
  <2> HIDE DEF y
  <2> QED
    BY <1>2, <2>2, <2>3 DEF OpMaps
<1>4. CASE BeginPersist(o)
  <2>1. CASE view = "text"
    BY <1>1, <1>4, <2>1, SessionMoves, OpTyped DEF BeginPersist, SessionInv, ui, bounds
  <2>2. CASE view # "text"
    BY <1>1, <1>4, <2>2, SessionMoves, OpTyped DEF BeginPersist, SessionInv, ui, bounds
  <2> QED
    BY <2>1, <2>2
<1>5. CASE SendPut(o)
  <2>1. op' = [op EXCEPT ![o].phase = "put", ![o].context = context]
        /\ UNCHANGED <<srv, ui, table, ctrl, task, reading, coalesce, bounds>>
    BY <1>5 DEF SendPut
  <2>2. op' \in OpMaps(context)
    <3>1. "put" \in OpPhases /\ context \in 0 .. context
      BY <1>1, <1>2
    <3>2. [op EXCEPT ![o].phase = "put", ![o].context = context] \in OpMaps(context)
      BY <1>3, <3>1
    <3> QED
      BY <2>1, <3>2
  <2> QED
    BY <2>1, <2>2, OpTyped DEF SessionInv, ui, table, bounds
<1>6. CASE HandlePut(o)
  <2>1. srv' \in Srvs(context) /\ srv'.gen = srv.gen
    BY <1>2, <1>6, ServerAnswers DEF HandlePut
  <2>2. op' \in OpMaps(context)
    <3>1. op' = [op EXCEPT ![o].phase = "saved", ![o].context = 0]
      BY <1>6 DEF HandlePut
    <3>2. "saved" \in OpPhases /\ 0 \in 0 .. context
      BY <1>1, <1>2
    <3>3. [op EXCEPT ![o].phase = "saved", ![o].context = 0] \in OpMaps(context)
      BY <1>3, <3>2
    <3> QED
      BY <3>1, <3>3
  <2> QED
    BY <1>6, <2>1, <2>2, OpTyped DEF HandlePut, SessionInv, ui, table, bounds
<1>7. CASE PutDone(o)
  <2>1. reading' \in ReadRecord
    <3>1. Reconcile(None) \/ UNCHANGED reading
      BY <1>7 DEF PutDone
    <3> QED
      BY <3>1, SessionMoves DEF SessionInv
  <2>2. op' \in OpMaps(context)
    <3>1. op' = Goes(o, IF o = "save" THEN "idle" ELSE "start")
      BY <1>7 DEF PutDone, Goes
    <3> QED
      BY <1>1, <3>1, SessionMoves
  <2>3. ctrl' \in Ctrls(srv.gen) /\ task' \in Tasks(srv.gen) /\ blocked' \in BOOLEAN
    <3>1. StartListener(ctrl, task, ShouldWait) \/ UNCHANGED <<ctrl, task>>
      BY <1>7 DEF PutDone
    <3>2. ctrl' \in Ctrls(srv.gen) /\ task' \in Tasks(srv.gen)
      BY <3>1, SessionMoves DEF SessionInv
    <3>3. blocked' = blocked \/ blocked' = FALSE
      BY <1>7 DEF PutDone
    <3> QED
      BY <3>2, <3>3 DEF SessionInv
  <2>4. UNCHANGED <<srv, ui, line, awaiting, shown, coalesce, bounds>>
    BY <1>7 DEF PutDone
  <2> QED
    BY <2>1, <2>2, <2>3, <2>4, OpTyped DEF SessionInv, ui, bounds
<1>8. CASE HandleStart(o)
  <2>1. srv' \in Srvs(context) /\ srv.gen <= srv'.gen
    BY <1>8, ServerAnswers DEF HandleStart
  <2>2. ctrl \in Ctrls(srv'.gen) /\ task \in Tasks(srv'.gen)
    <3>1. PICK s \in Srvs(context) : s = srv'
      BY <2>1
    <3> QED
      BY <2>1, <3>1, ServerMoves
  <2>3. op' \in OpMaps(context)
    BY <1>1, <1>8, SessionMoves DEF HandleStart
  <2> QED
    BY <1>8, <2>1, <2>2, <2>3, OpTyped DEF HandleStart, SessionInv, ui, table, bounds
<1> QED
  BY <1>4, <1>5, <1>6, <1>7, <1>8

LEMMA BeginRestartTyped ==
  ASSUME SessionInv, NEW pending \in [timer : BOOLEAN, pending : BOOLEAN], BeginRestart(pending)
  PROVE  /\ ctrl' \in Ctrls(srv.gen) /\ task' \in Tasks(srv.gen) /\ op' \in OpMaps(context)
         /\ coalesce' \in [timer : BOOLEAN, pending : BOOLEAN]
<1>1. "restart" \in Ops /\ "idle" \in OpPhases /\ "abort" \in OpPhases
  BY DEF Ops, OpPhases
<1>2. CASE view = "text"
  BY <1>1, <1>2, SessionMoves DEF BeginRestart, SessionInv
<1>3. CASE view # "text"
  BY <1>1, <1>3, SessionMoves DEF BeginRestart, SessionInv
<1> QED
  BY <1>2, <1>3

LEMMA RestartTyped ==
  ASSUME SessionInv,
         ResetForRestart \/ RestartStarted \/ RestartFails \/ AfterFailure \/ EndRestart \/ TimerFires
  PROVE  SessionInv'
<1>1. "restart" \in Ops /\ {"idle", "abort", "queue", "status", "failed"} \subseteq OpPhases
  BY DEF Ops, OpPhases
<1>2. srv.gen \in 0 .. srv.gen /\ 0 \in 0 .. srv.gen /\ 0 \in Counts /\ srv.gen \in Nat
  BY SessionFacts, ConstantsTyped
<1>3. CASE ResetForRestart
  <2>1. line' \in LineMap
    BY <1>3, ConstantsTyped DEF ResetForRestart, ResetLines, LineMap, SessionInv
  <2>2. ctrl' \in Ctrls(srv.gen) /\ op' \in OpMaps(context) /\ task' \in Tasks(srv.gen)
    BY <1>1, <1>2, <1>3, SessionMoves DEF ResetForRestart, ResetLines
  <2>3. shown' = 0 /\ awaiting' = TRUE /\ blocked' = TRUE /\ UNCHANGED <<srv, ui, reading, coalesce, bounds>>
    BY <1>3 DEF ResetForRestart, ResetLines
  <2> QED
    BY <1>2, <2>1, <2>2, <2>3, OpTyped DEF SessionInv, ui, bounds
<1>4. CASE RestartStarted
  <2> DEFINE c == [ctrl EXCEPT !.applied = 0, !.gen = srv.gen]
  <2>1. c \in Ctrls(srv.gen)
    BY <1>2, SessionMoves
  <2>2. Launch(c, task)
    BY <1>4 DEF RestartStarted
  <2> HIDE DEF c
  <2>3. ctrl' \in Ctrls(srv.gen) /\ task' \in Tasks(srv.gen)
    BY <1>2, <2>1, <2>2, LaunchTyped DEF SessionInv
  <2>4. reading' \in ReadRecord /\ op' \in OpMaps(context)
    BY <1>1, <1>4, SessionMoves DEF RestartStarted
  <2> QED
    BY <1>4, <2>3, <2>4, OpTyped DEF RestartStarted, SessionInv, ui, bounds
<1>5. CASE RestartFails
  <2>1. reading' \in ReadRecord /\ op' \in OpMaps(context)
    BY <1>1, <1>5, SessionMoves DEF RestartFails
  <2>2. faults' \in Nat
    BY <1>5 DEF RestartFails, Fault, SessionInv
  <2>3. ctrl' \in Ctrls(srv.gen) /\ task' \in Tasks(srv.gen)
    BY <1>5, SessionMoves DEF RestartFails
  <2> QED
    BY <1>5, <2>1, <2>2, <2>3, OpTyped DEF RestartFails, SessionInv, ui
<1>6. CASE AfterFailure
  <2>1. ctrl' \in Ctrls(srv.gen) /\ task' \in Tasks(srv.gen)
    <3>1. Launch(ctrl, task) \/ UNCHANGED <<ctrl, task>>
      BY <1>6 DEF AfterFailure
    <3> QED
      BY <3>1, SessionMoves DEF SessionInv
  <2>2. op' \in OpMaps(context) /\ awaiting' \in BOOLEAN
    BY <1>1, <1>6, SessionMoves DEF AfterFailure, InFlight
  <2> QED
    BY <1>6, <2>1, <2>2, OpTyped DEF AfterFailure, SessionInv, ui, bounds
<1>7. CASE EndRestart
  <2>1. /\ ctrl' \in Ctrls(srv.gen) /\ task' \in Tasks(srv.gen) /\ op' \in OpMaps(context)
        /\ coalesce' \in [timer : BOOLEAN, pending : BOOLEAN]
    <3>1. CASE coalesce.pending
      <4>1. [coalesce EXCEPT !.pending = FALSE] \in [timer : BOOLEAN, pending : BOOLEAN]
        BY DEF SessionInv
      <4> QED
        BY <1>7, <3>1, <4>1, BeginRestartTyped DEF EndRestart
    <3>2. CASE ~coalesce.pending
      BY <1>1, <1>7, <3>2, SessionMoves DEF EndRestart, SessionInv
    <3> QED
      BY <3>1, <3>2
  <2> QED
    BY <1>7, <2>1, OpTyped DEF EndRestart, SessionInv, ui, table, bounds
<1>8. CASE TimerFires
  <2>1. /\ ctrl' \in Ctrls(srv.gen) /\ task' \in Tasks(srv.gen) /\ op' \in OpMaps(context)
        /\ coalesce' \in [timer : BOOLEAN, pending : BOOLEAN]
    <3>1. CASE op["restart"].phase = "idle"
      <4>1. [timer |-> FALSE, pending |-> FALSE] \in [timer : BOOLEAN, pending : BOOLEAN]
        OBVIOUS
      <4> QED
        BY <1>8, <3>1, <4>1, BeginRestartTyped DEF TimerFires
    <3>2. CASE op["restart"].phase # "idle"
      <4>1. coalesce' = [timer |-> FALSE, pending |-> TRUE] /\ UNCHANGED <<op, ctrl, task>>
        BY <1>8, <3>2 DEF TimerFires
      <4> QED
        BY <4>1 DEF SessionInv
    <3> QED
      BY <3>1, <3>2
  <2> QED
    BY <1>8, <2>1, OpTyped DEF TimerFires, SessionInv, ui, table, bounds
<1> QED
  BY <1>3, <1>4, <1>5, <1>6, <1>7, <1>8

LEMMA CalculationTyped ==
  ASSUME SessionInv, CalculationStarted \/ CalculationFails
  PROVE  SessionInv'
<1>1. "calculate" \in Ops /\ "idle" \in OpPhases
  BY DEF Ops, OpPhases
<1>2. CASE CalculationStarted
  <2>1. ctrl' \in Ctrls(srv.gen) /\ task' \in Tasks(srv.gen) /\ op' \in OpMaps(context)
    BY <1>1, <1>2, SessionMoves DEF CalculationStarted
  <2> QED
    BY <1>2, <2>1, OpTyped DEF CalculationStarted, SessionInv, ui, bounds
<1>3. CASE CalculationFails
  <2>1. ctrl' \in Ctrls(srv.gen) /\ task' \in Tasks(srv.gen) /\ op' \in OpMaps(context)
    BY <1>1, <1>3, SessionMoves DEF CalculationFails
  <2>2. faults' \in Nat
    BY <1>3 DEF CalculationFails, Fault, SessionInv
  <2>3. awaiting' = FALSE /\ blocked' = FALSE
    BY <1>3 DEF CalculationFails
  <2> QED
    BY <1>3, <2>1, <2>2, <2>3, OpTyped DEF CalculationFails, SessionInv, ui
<1> QED
  BY <1>2, <1>3

LEMMA ToTextTyped ==
  ASSUME SessionInv, CancelCalculation \/ ShowText
  PROVE  SessionInv'
<1>1. "text" \in Ops /\ {"idle", "cancelled"} \subseteq OpPhases
  BY DEF Ops, OpPhases
<1>2. CASE CancelCalculation
  <2>1. PICK s \in Srvs(context) : s = srv' /\ srv.gen <= s.gen
    <3>1. Cancelled \in Srvs(context) /\ Cancelled.gen = srv.gen + 1 /\ srv.gen \in Nat /\ srv' = Cancelled
      BY <1>2, ServerAnswers, SessionFacts DEF CancelCalculation
    <3>2. srv.gen <= Cancelled.gen
      BY <3>1
    <3> QED
      BY <3>1, <3>2
  <2>2. ctrl \in Ctrls(srv'.gen) /\ task \in Tasks(srv'.gen)
    BY <2>1, ServerMoves
  <2>3. op' \in OpMaps(context)
    BY <1>1, <1>2, SessionMoves DEF CancelCalculation
  <2> QED
    BY <1>2, <2>1, <2>2, <2>3, OpTyped DEF CancelCalculation, SessionInv, ui, table, bounds
<1>3. CASE ShowText
  <2> DEFINE c == [ctrl EXCEPT !.applied = 0, !.gen = srv.gen]
  <2>1. c \in Ctrls(srv.gen)
    <3>1. srv.gen \in 0 .. srv.gen
      BY SessionFacts
    <3> QED
      BY <3>1, SessionMoves
  <2>2. ctrl' = Aborted(c)
    BY <1>3 DEF ShowText
  <2> HIDE DEF c
  <2>3. ctrl' \in Ctrls(srv.gen) /\ task' \in Tasks(srv.gen)
    BY <1>3, <2>1, <2>2, AbortedTyped, DisownedTyped, SessionFacts DEF ShowText, SessionInv
  <2>4. op' \in OpMaps(context)
    BY <1>1, <1>3, SessionMoves DEF ShowText
  <2> QED
    BY <1>3, <2>3, <2>4, OpTyped DEF ShowText, SessionInv, table, bounds
<1> QED
  BY <1>2, <1>3

LEMMA OpStepTyped == SessionInv /\ OpStep => SessionInv'
BY PersistTyped, RestartTyped, CalculationTyped, ToTextTyped DEF OpStep, OpTurn

\* A gesture adds one to their number.
LEMMA GestureCounts ==
  ASSUME SessionInv, NEW kind, Gesture(kind)
  PROVE  gestures' \in 0 .. MaxGestures /\ gestures <= gestures' /\ gestures' = gestures + 1
<1>1. MaxGestures \in Nat /\ gestures \in 0 .. MaxGestures
  BY BoundsAssumption DEF SessionInv
<1> QED
  BY <1>1 DEF Gesture

LEMMA SynchronizeTyped ==
  ASSUME SessionInv, Synchronize
  PROVE  ctrl' \in Ctrls(srv.gen) /\ task' \in Tasks(srv.gen) /\ reading' \in ReadRecord
<1>1. CASE Persisting \/ blocked
  BY <1>1 DEF Synchronize, SessionInv
<1>2. CASE ~(Persisting \/ blocked)
  <2>1. reading' \in ReadRecord
    <3>1. Reconcile(None) \/ UNCHANGED reading
      BY <1>2 DEF Synchronize
    <3> QED
      BY <3>1, SessionMoves DEF SessionInv
  <2>2. StartListener(ctrl, task, ShouldWait)
    BY <1>2 DEF Synchronize
  <2> QED
    BY <2>1, <2>2, SessionMoves
<1> QED
  BY <1>1, <1>2

LEMMA UserStepTyped == SessionInv /\ UserStep => SessionInv'
<1> SUFFICES ASSUME SessionInv, UserStep
             PROVE  SessionInv'
  OBVIOUS
<1>0. /\ gestures \in 0 .. MaxGestures /\ gestures <= gestures /\ {"calculate", "save", "text"} \subseteq Ops
      /\ {"queue", "cancel"} \subseteq OpPhases
  BY BoundsAssumption DEF SessionInv, Ops, OpPhases
<1>1. CASE ToTable
  <2>1. gestures' \in 0 .. MaxGestures /\ gestures <= gestures'
    BY <1>1, GestureCounts DEF ToTable
  <2>2. line' \in LineMap
    <3>1. srv.line \in LineMap
      BY SessionFacts
    <3> QED
      BY <1>1, <3>1, ConstantsTyped DEF ToTable, LineMap
  <2>3. task' \in Tasks(srv.gen)
    BY <1>1, SessionMoves DEF ToTable
  <2>4. ctrl' \in Ctrls(srv.gen) /\ op' \in OpMaps(context) /\ blocked' \in BOOLEAN /\ shown' \in Counts
    <3>1. 0 \in 0 .. srv.gen /\ 0 \in Counts /\ NLines \in Counts
      BY SessionFacts, ConstantsTyped
    <3>2. [ctrl EXCEPT !.applied = 0, !.gen = 0] \in Ctrls(srv.gen) /\ Goes("calculate", "queue") \in OpMaps(context)
      BY <1>0, <3>1, SessionMoves
    <3> QED
      BY <1>1, <3>1, <3>2 DEF ToTable, SessionInv
  <2>5. awaiting' \in BOOLEAN /\ view' = "table" /\ UNCHANGED <<srv, context, reading, coalesce, faults>>
    BY <1>1 DEF ToTable
  <2> QED
    BY <2>1, <2>2, <2>3, <2>4, <2>5, OpTyped DEF SessionInv
<1>2. CASE ChangeContext
  <2>1. gestures' \in 0 .. MaxGestures /\ gestures' = gestures + 1 /\ context' = context + 1 /\ gestures \in Nat
    BY <1>0, <1>2, GestureCounts DEF ChangeContext
  <2>2. context \in Nat /\ context' \in Nat /\ context <= context' /\ context' <= gestures'
    BY <2>1 DEF SessionInv
  <2>3. srv \in Srvs(context') /\ op \in OpMaps(context')
    <3>1. PICK c \in Nat : c = context'
      BY <2>2
    <3> QED
      BY <2>2, <3>1, LargerBounds DEF SessionInv
  <2>4. coalesce' = [timer |-> TRUE, pending |-> TRUE]
        /\ UNCHANGED <<srv, view, table, ctrl, task, reading, op, faults>>
    BY <1>2 DEF ChangeContext
  <2>5. coalesce' \in [timer : BOOLEAN, pending : BOOLEAN]
    BY <2>4
  <2>6. srv' \in Srvs(context') /\ op' \in OpMaps(context') /\ ctrl' \in Ctrls(srv'.gen) /\ task' \in Tasks(srv'.gen)
    BY <2>3, <2>4 DEF SessionInv
  <2> QED
    BY <2>1, <2>2, <2>4, <2>5, <2>6 DEF SessionInv, table
<1>3. CASE Recalculate
  <2>1. gestures' \in 0 .. MaxGestures /\ gestures <= gestures'
    BY <1>3, GestureCounts DEF Recalculate
  <2>2. /\ ctrl' \in Ctrls(srv.gen) /\ task' \in Tasks(srv.gen) /\ op' \in OpMaps(context)
        /\ coalesce' \in [timer : BOOLEAN, pending : BOOLEAN]
    BY <1>3, BeginRestartTyped DEF Recalculate, SessionInv
  <2> QED
    BY <1>3, <2>1, <2>2, OpTyped DEF Recalculate, SessionInv, ui, table
<1>4. CASE Save
  <2>1. gestures' \in 0 .. MaxGestures /\ gestures <= gestures'
    BY <1>4, GestureCounts DEF Save
  <2>2. op' \in OpMaps(context)
    BY <1>0, <1>4, SessionMoves DEF Save
  <2> QED
    BY <1>4, <2>1, <2>2, OpTyped DEF Save, SessionInv, ui, table
<1>5. CASE Render
  <2>1. gestures' \in 0 .. MaxGestures /\ gestures <= gestures'
    BY <1>5, GestureCounts DEF Render
  <2>2. ctrl' \in Ctrls(srv.gen) /\ task' \in Tasks(srv.gen) /\ reading' \in ReadRecord
    BY <1>5, SynchronizeTyped DEF Render
  <2> QED
    BY <1>5, <2>1, <2>2, OpTyped DEF Render, SessionInv, ui, table
<1>6. CASE GoAway
  <2>1. gestures' \in 0 .. MaxGestures /\ gestures <= gestures'
    BY <1>6, GestureCounts DEF GoAway
  <2> QED
    BY <1>6, <2>1, OpTyped DEF GoAway, SessionInv, table
<1>7. CASE ComeBack
  <2>1. ctrl' \in Ctrls(srv.gen) /\ task' \in Tasks(srv.gen) /\ reading' \in ReadRecord
    BY <1>7, SynchronizeTyped DEF ComeBack
  <2> QED
    BY <1>0, <1>7, <2>1, OpTyped DEF ComeBack, SessionInv, table, bounds
<1>8. CASE ToText
  <2>1. gestures' \in 0 .. MaxGestures /\ gestures <= gestures'
    BY <1>8, GestureCounts DEF ToText
  <2>2. ctrl' \in Ctrls(srv.gen) /\ task' \in Tasks(srv.gen) /\ op' \in OpMaps(context)
    BY <1>0, <1>8, SessionMoves DEF ToText
  <2> QED
    BY <1>8, <2>1, <2>2, OpTyped DEF ToText, SessionInv, ui, table
<1> QED
  BY <1>1, <1>2, <1>3, <1>4, <1>5, <1>6, <1>7, <1>8 DEF UserStep

LEMMA SessionInvImpliesTypeOK == SessionInv => TypeOK
<1> SUFFICES ASSUME SessionInv
             PROVE  TypeOK
  OBVIOUS
<1>1. srv.line \in [Lines -> LineType] /\ line \in [Lines -> LineType]
  BY SessionFacts DEF SessionInv, LineMap
<1>2. srv.gen \in Nat /\ srv.context \in 0 .. context /\ srv.at \in 0 .. context /\ srv.enqueue \in BOOLEAN
  BY SessionFacts DEF SrvRecord
<1>3. view \in {"table", "text", "away"} /\ shown \in 0 .. NLines
  BY DEF SessionInv, Counts
<1>4. {awaiting, blocked, ctrl.stopped, ctrl.applying, coalesce.timer, coalesce.pending} \subseteq BOOLEAN
  BY SessionFacts DEF SessionInv, CtrlRecord
<1>5. ctrl.applied \in 0 .. NLines /\ ctrl.gen \in 0 .. srv.gen /\ ctrl.promise \in Listeners \cup {None}
  BY SessionFacts DEF CtrlRecord, Counts, Waited
<1>6. \A i \in Listeners : task[i].phase \in TaskPhases /\ task[i].batch.applied \in 0 .. NLines
  BY TaskMoves DEF TaskRecord, Counts
<1>7. \A o \in Ops : op[o].phase \in OpPhases /\ op[o].wait \in Listeners \cup {None}
  BY SessionFacts DEF OpRecord, Waited
<1> QED
  BY <1>1, <1>2, <1>3, <1>4, <1>5, <1>6, <1>7 DEF TypeOK

LEMMA SessionInvHolds == Spec => []SessionInv
<1>1. Init => SessionInv
  BY InitTyped
<1>2. SessionInv /\ [Next]_vars => SessionInv'
  <2> SUFFICES ASSUME SessionInv, [Next]_vars
               PROVE  SessionInv'
    OBVIOUS
  <2>1. CASE Next
    BY <2>1, ReadStepTyped, ServerStepTyped, OpStepTyped, UserStepTyped, ListenerStepTyped, StepsAre
  <2>2. CASE UNCHANGED vars
    BY <2>2 DEF SessionInv, vars, ui, table, bounds
  <2> QED
    BY <2>1, <2>2
<1> QED
  BY <1>1, <1>2, PTL DEF Spec

\* For any number of lines, any batch size and whatever fails: the cursor of the batches never
\* passes the last line, neither on the server nor in the browser, no listener is ahead of the
\* server's generation, and every status and price stays what the code writes.
THEOREM SessionTyped == Spec => []TypeOK
BY SessionInvHolds, SessionInvImpliesTypeOK, PTL

-----------------------------------------------------------------------------
(* One listener at a time, when the user restarts nothing.  A restart runs *)
(* a listener beside the one its save has started (RestartStarted).        *)

Owned == \A i, j \in Listeners : task[i].own /\ task[j].own => i = j
Fresh ==
  \A i \in Listeners : task[i].own /\ task[i].phase \in {"fetch", "answer"} => ~task[i].outdated /\ view # "text"
NoRestart == op["restart"].phase = "idle" /\ ~coalesce.timer
CalmInv == Owned /\ Fresh /\ NoRestart

\* What the changes of a task do to who owns the session.
LEMMA TaskShapes ==
  ASSUME SessionInv
  PROVE  /\ task \in [Listeners -> TaskRecord]
         /\ \A i \in Listeners : /\ Disowned(task)[i] = [task[i] EXCEPT !.own = FALSE]
                                 /\ ~Disowned(task)[i].own /\ Disowned(task)[i].phase = task[i].phase
         /\ \A i \in Listeners : Outdated[i].own = task[i].own /\ Outdated[i].phase = task[i].phase
                                 /\ (Outdated[i].outdated <=>
                                       task[i].outdated \/ task[i].phase \in {"fetch", "answer"})
         /\ Looping.phase = "check" /\ Looping.own /\ Finishing.phase = "final" /\ Finishing.own
         /\ NoTask.phase = "idle" /\ ~NoTask.own /\ ~Looping.outdated /\ ~Finishing.outdated
<1>1. task \in [Listeners -> TaskRecord]
  BY DEF SessionInv, Tasks
<1>2. ASSUME NEW i \in Listeners
      PROVE  /\ Disowned(task)[i] = [task[i] EXCEPT !.own = FALSE]
             /\ ~Disowned(task)[i].own /\ Disowned(task)[i].phase = task[i].phase
  BY <1>1 DEF Disowned, TaskRecord
<1>3. ASSUME NEW i \in Listeners
      PROVE  Outdated[i].own = task[i].own /\ Outdated[i].phase = task[i].phase
             /\ (Outdated[i].outdated <=> task[i].outdated \/ task[i].phase \in {"fetch", "answer"})
  <2>1. task[i] \in TaskRecord
    BY <1>1
  <2> DEFINE e == task[i].outdated \/ task[i].phase \in {"fetch", "answer"}
  <2>2. Outdated[i] = [task[i] EXCEPT !.outdated = e]
    BY DEF Outdated
  <2> HIDE DEF e
  <2>3. Outdated[i].own = task[i].own /\ Outdated[i].phase = task[i].phase /\ Outdated[i].outdated = e
    BY <2>1, <2>2 DEF TaskRecord
  <2> QED
    BY <2>3 DEF e
<1>4. /\ Looping.phase = "check" /\ Looping.own /\ Finishing.phase = "final" /\ Finishing.own
      /\ NoTask.phase = "idle" /\ ~NoTask.own /\ ~Looping.outdated /\ ~Finishing.outdated
  BY DEF Looping, Finishing, NoTask
<1> QED
  BY <1>1, <1>2, <1>3, <1>4

\* A listener that is started is the only one of its session.
LEMMA StartedAlone ==
  ASSUME SessionInv, NEW should, StartListener(ctrl, task, should)
  PROVE  \/ task' = task /\ ctrl' = ctrl /\ ~should
         \/ \E i \in Listeners : /\ task[i].phase = "idle"
                                 /\ task' = [Disowned(task) EXCEPT ![i] = Looping]
                                 /\ ctrl' = [Aborted(ctrl) EXCEPT !.stopped = FALSE, !.promise = i]
<1>1. CASE should
  <2> DEFINE free == {i \in Listeners : Disowned(task)[i].phase = "idle"}
  <2>1. Launch(Aborted(ctrl), Disowned(task))
    BY <1>1 DEF StartListener
  <2>2. (CHOOSE i \in free : TRUE) \in free
    BY <2>1 DEF Launch
  <2> QED
    BY <2>1, <2>2, TaskShapes DEF Launch
<1>2. CASE ~should
  BY <1>2 DEF StartListener
<1> QED
  BY <1>1, <1>2

LEMMA CalmStart ==
  ASSUME SessionInv, CalmInv, NEW should, StartListener(ctrl, task, should), view' \in {view, "table"}
  PROVE  Owned' /\ Fresh'
<1>1. CASE task' = task
  BY <1>1 DEF CalmInv, Owned, Fresh
<1>2. ASSUME NEW i \in Listeners, task' = [Disowned(task) EXCEPT ![i] = Looping]
      PROVE  Owned' /\ Fresh'
  <2>1. \A j \in Listeners : task'[j] = IF j = i THEN Looping ELSE Disowned(task)[j]
    BY <1>2 DEF Disowned
  <2>2. \A j \in Listeners : task'[j].own => j = i /\ task'[j].phase = "check"
    BY <2>1, TaskShapes
  <2> QED
    BY <2>2 DEF Owned, Fresh
<1> QED
  BY <1>1, <1>2, StartedAlone

LEMMA CalmAbort ==
  ASSUME SessionInv, Abort \/ task' = Disowned(task)
  PROVE  Owned' /\ Fresh'
<1>1. task' = Disowned(task)
  BY DEF Abort
<1>2. \A j \in Listeners : ~task'[j].own
  BY <1>1, TaskShapes
<1> QED
  BY <1>2 DEF Owned, Fresh

\* One listener goes on: it does not take the session from another.
LEMMA CalmListener ==
  ASSUME SessionInv, CalmInv, NEW i \in Listeners, NEW x, task' = [task EXCEPT ![i] = x], UNCHANGED view,
         x.own => task[i].own,
         x.own /\ x.phase \in {"fetch", "answer"} => ~x.outdated /\ view # "text"
  PROVE  Owned' /\ Fresh'
<1>1. \A j \in Listeners : task'[j] = IF j = i THEN x ELSE task[j]
  BY TaskShapes
<1>2. \A j \in Listeners : task'[j].own => task[j].own
  BY <1>1
<1>3. Owned'
  BY <1>2 DEF CalmInv, Owned
<1>4. Fresh'
  BY <1>1 DEF CalmInv, Fresh
<1> QED
  BY <1>3, <1>4

\* A listener's step, task by task.
LEMMA ListenerMoves ==
  ASSUME SessionInv, NEW i \in Listeners, ListenerStep(i)
  PROVE  \E x : /\ task' = [task EXCEPT ![i] = x]
                /\ x.own => task[i].own
                /\ x.phase = "fetch" => ~x.outdated /\ view = "table" /\ task[i].phase = "check" /\ Current(i)
                /\ x.phase = "answer" => /\ task[i].phase = "fetch" /\ (x.outdated <=> task[i].outdated)
                                         /\ x.own = task[i].own
                /\ task[i].phase = "answer" => \/ UNCHANGED line
                                               \/ Current(i)
<1>0. task \in [Listeners -> TaskRecord] /\ task[i] \in TaskRecord /\ NoTask \in TaskRecord
  BY TaskShapes, ConstantsTyped
<1> DEFINE Goal(x) == /\ task' = [task EXCEPT ![i] = x]
                      /\ x.own => task[i].own
                      /\ x.phase = "fetch" => ~x.outdated /\ view = "table" /\ task[i].phase = "check" /\ Current(i)
                      /\ x.phase = "answer" => /\ task[i].phase = "fetch" /\ (x.outdated <=> task[i].outdated)
                                               /\ x.own = task[i].own
                      /\ task[i].phase = "answer" => UNCHANGED line \/ Current(i)
<1> SUFFICES \E y : Goal(y)
  OBVIOUS
<1>1. ASSUME Leave(i), UNCHANGED line
      PROVE  \E y : Goal(y)
  <2> DEFINE later == [NoTask EXCEPT !.phase = "later", !.own = TRUE]
  <2>1. later.phase = "later" /\ later.own
    BY <1>0 DEF TaskRecord
  <2>2. CASE task' = [task EXCEPT ![i] = later] /\ Current(i)
    <3> HIDE DEF later
    <3>1. Goal(later)
      BY <1>1, <2>1, <2>2 DEF Current
    <3> HIDE DEF Goal
    <3> QED
      BY <3>1
  <2>3. CASE task' = Returned(i)
    <3>1. Goal(NoTask)
      BY <1>1, <2>3, TaskShapes DEF Returned
    <3> HIDE DEF Goal
    <3> QED
      BY <3>1
  <2> HIDE DEF Goal
  <2> QED
    BY <1>1, <2>2, <2>3 DEF Leave
<1>2. ASSUME task' = [task EXCEPT ![i] = Looping] \/ task' = [task EXCEPT ![i] = Finishing], Current(i)
      PROVE  \E y : Goal(y)
  <2>1. Goal(Looping) \/ Goal(Finishing)
    BY <1>2, TaskShapes DEF Current
  <2> HIDE DEF Goal
  <2> QED
    BY <2>1
<1>3. ASSUME task' = Returned(i), UNCHANGED line
      PROVE  \E y : Goal(y)
  <2>1. Goal(NoTask)
    BY <1>3, TaskShapes DEF Returned
  <2> HIDE DEF Goal
  <2> QED
    BY <2>1
<1>4. CASE Check(i)
  <2>1. CASE Leave(i)
    BY <1>1, <1>4, <2>1 DEF Check, table
  <2>2. CASE ~Leave(i)
    <3> DEFINE b == [NoBatch EXCEPT !.applied = ctrl.applied, !.gen = ctrl.gen]
               x == [[[task[i] EXCEPT !.phase = "fetch"] EXCEPT !.outdated = FALSE] EXCEPT !.batch = b]
    <3>1. task' = [task EXCEPT ![i].phase = "fetch", ![i].outdated = FALSE, ![i].batch = b]
          /\ view = "table" /\ task[i].phase = "check" /\ UNCHANGED line /\ Current(i)
      BY <1>4, <2>2 DEF Check, table
    <3> HIDE DEF b
    <3>2. task' = [task EXCEPT ![i] = x]
      BY <1>0, <3>1
    <3>3. x.phase = "fetch" /\ x.outdated = FALSE /\ x.own = task[i].own
      BY <1>0 DEF TaskRecord
    <3> HIDE DEF x
    <3>4. Goal(x)
      BY <3>1, <3>2, <3>3
    <3> HIDE DEF Goal
    <3> QED
      BY <3>4
  <2> QED
    BY <2>1, <2>2
<1>5. CASE AnswerBatch(i)
  <2> DEFINE b == Batch(task[i].batch.applied, task[i].batch.gen)
             x == [[task[i] EXCEPT !.phase = "answer"] EXCEPT !.batch = b]
  <2>1. task' = [task EXCEPT ![i].phase = "answer", ![i].batch = b] /\ task[i].phase = "fetch" /\ UNCHANGED line
    BY <1>5 DEF AnswerBatch, table
  <2> HIDE DEF b
  <2>2. task' = [task EXCEPT ![i] = x]
    BY <1>0, <2>1
  <2>3. x.phase = "answer" /\ x.outdated = task[i].outdated /\ x.own = task[i].own
    BY <1>0 DEF TaskRecord
  <2> HIDE DEF x
  <2>4. Goal(x)
    BY <2>1, <2>2, <2>3
  <2> HIDE DEF Goal
  <2> QED
    BY <2>4
<1>6. CASE FetchAborted(i)
  BY <1>1, <1>6 DEF FetchAborted, table
<1>7. CASE BatchFails(i)
  BY <1>2, <1>7 DEF BatchFails
<1>8. CASE Deliver(i)
  <2> DEFINE x == [[task[i] EXCEPT !.phase = "applying"] EXCEPT !.outdated = FALSE]
  <2>1. Current(i) /\ \/ task' = [task EXCEPT ![i] = Looping] \/ task' = [task EXCEPT ![i] = Finishing]
                      \/ task' = [task EXCEPT ![i] = x]
    <3>1. Current(i) /\ \/ task' = [task EXCEPT ![i] = Looping] \/ task' = [task EXCEPT ![i] = Finishing]
                        \/ task' = [task EXCEPT ![i] = [@ EXCEPT !.phase = "applying", !.outdated = FALSE]]
      BY <1>8 DEF Deliver
    <3> QED
      BY <1>0, <3>1
  <2>2. x.phase = "applying" /\ x.own = task[i].own
    BY <1>0 DEF TaskRecord
  <2> HIDE DEF x
  <2>3. CASE task' = [task EXCEPT ![i] = x]
    <3>1. Goal(x)
      BY <2>1, <2>2, <2>3
    <3> HIDE DEF Goal
    <3> QED
      BY <3>1
  <2> HIDE DEF Goal
  <2> QED
    BY <1>2, <2>1, <2>3
<1>9. CASE Applied(i)
  BY <1>2, <1>3, <1>9 DEF Applied
<1>10. CASE Finalize(i)
  BY <1>1, <1>10 DEF Finalize
<1>11. CASE RunAgain(i)
  BY <1>2, <1>3, <1>11 DEF RunAgain, table
<1> HIDE DEF Goal
<1> QED
  BY <1>4, <1>5, <1>6, <1>7, <1>8, <1>9, <1>10, <1>11 DEF ListenerStep, ListenerTurn

\* What an operation's move does to the phases.
LEMMA OpPhaseMoves ==
  ASSUME SessionInv
  PROVE  /\ \A o, x \in Ops, phase \in OpPhases :
              /\ Goes(o, phase)[x].phase = (IF x = o THEN phase ELSE op[x].phase) /\ Goes(o, phase)[x].wait = op[x].wait
              /\ Waits(o, phase)[x].phase = (IF x = o THEN phase ELSE op[x].phase)
         /\ \A i \in Listeners, x \in Ops : Woken(i)[x].phase = op[x].phase
<1>1. op \in [Ops -> OpRecord] /\ ctrl.promise \in Waited
  BY SessionFacts DEF CtrlRecord
<1>2. ASSUME NEW o \in Ops, NEW x \in Ops, NEW phase \in OpPhases
      PROVE  /\ Goes(o, phase)[x].phase = (IF x = o THEN phase ELSE op[x].phase) /\ Goes(o, phase)[x].wait = op[x].wait
             /\ Waits(o, phase)[x].phase = (IF x = o THEN phase ELSE op[x].phase)
  <2> DEFINE y == [op[o] EXCEPT !.phase = phase]
             z == [y EXCEPT !.wait = ctrl.promise]
  <2>1. y \in OpRecord /\ y.phase = phase /\ y.wait = op[o].wait
    BY <1>1 DEF OpRecord
  <2>2. Goes(o, phase) = [op EXCEPT ![o] = y]
    BY DEF Goes
  <2>3. Waits(o, phase) = [op EXCEPT ![o] = z]
    BY <1>1 DEF Waits
  <2>4. z.phase = phase
    <3> HIDE DEF y
    <3> QED
      BY <2>1 DEF OpRecord
  <2> HIDE DEF y, z
  <2> QED
    BY <1>1, <2>1, <2>2, <2>3, <2>4
<1>3. ASSUME NEW i \in Listeners, NEW x \in Ops
      PROVE  Woken(i)[x].phase = op[x].phase
  <2> DEFINE w == IF op[x].wait = i THEN None ELSE op[x].wait
  <2>1. op[x] \in OpRecord /\ Woken(i)[x] = [op[x] EXCEPT !.wait = w]
    BY <1>1 DEF Woken
  <2> HIDE DEF w
  <2> QED
    BY <2>1 DEF OpRecord
<1> QED
  BY <1>2, <1>3

\* No listener's step moves an operation to another phase.
LEMMA ListenersLeaveOps ==
  ASSUME SessionInv, NEW i \in Listeners, ListenerStep(i)
  PROVE  /\ \A o \in Ops : op'[o].phase = op[o].phase
         /\ UNCHANGED <<srv, context, view, blocked, coalesce, gestures>> /\ ctrl'.stopped = ctrl.stopped
<1>1. op' = Woken(i) \/ op' = op
  BY DEF ListenerStep, ListenerTurn, Check, AnswerBatch, FetchAborted, BatchFails, Deliver, Applied, Finalize, RunAgain, Leave
<1>2. UNCHANGED <<srv, context, view, blocked, coalesce, gestures>>
  BY DEF ListenerStep, ListenerTurn, Check, AnswerBatch, FetchAborted, BatchFails, Deliver, Applied, Finalize, RunAgain,
         ui, table, bounds
<1>3. ctrl'.stopped = ctrl.stopped
  <2>1. ctrl \in CtrlRecord
    BY SessionFacts
  <2>2. ASSUME Leave(i)
        PROVE  ctrl'.stopped = ctrl.stopped
    BY <2>1, <2>2 DEF Leave, Settled, CtrlRecord
  <2>3. CASE Check(i) \/ FetchAborted(i) \/ Finalize(i)
    BY <2>2, <2>3 DEF Check, FetchAborted, Finalize
  <2>4. CASE AnswerBatch(i) \/ BatchFails(i)
    BY <2>4 DEF AnswerBatch, BatchFails
  <2>5. CASE RunAgain(i)
    BY <2>1, <2>5 DEF RunAgain, CtrlRecord
  <2>7. CASE Deliver(i)
    <3>1. \/ \E g : ctrl' = [ctrl EXCEPT !.applied = 0, !.gen = g]
          \/ \E g, a, n : ctrl' = [ctrl EXCEPT !.gen = g, !.applying = a, !.applied = n]
      <4> DEFINE b == task[i].batch
                 a == b.done /\ WithItems(b) = line
                 n == IF (b.done \/ b.items # <<>> \/ b.applied # ctrl.applied) /\ ~a
                      THEN b.applied ELSE ctrl.applied
      <4>1. ctrl' = [ctrl EXCEPT !.applied = 0, !.gen = b.gen]
            \/ ctrl' = [ctrl EXCEPT !.gen = b.gen, !.applying = a, !.applied = n]
        BY <2>7 DEF Deliver
      <4> HIDE DEF a, n, b
      <4> QED
        BY <4>1
    <3> QED
      BY <2>1, <3>1 DEF CtrlRecord
  <2>6. CASE Applied(i)
    <3> DEFINE c == [ctrl EXCEPT !.applying = FALSE, !.applied = task[i].batch.applied]
    <3>1. c.stopped = ctrl.stopped /\ c \in CtrlRecord
      BY <2>1, TaskMoves DEF CtrlRecord
    <3>2. ctrl' = c \/ ctrl' = Settled(i, c)
      BY <2>6 DEF Applied
    <3> HIDE DEF c
    <3> QED
      BY <3>1, <3>2 DEF Settled, CtrlRecord
  <2> QED
    BY <2>3, <2>4, <2>5, <2>6, <2>7 DEF ListenerStep, ListenerTurn
<1> QED
  BY <1>1, <1>2, <1>3, OpPhaseMoves

LEMMA CalmInit == Init => CalmInv
<1> SUFFICES ASSUME Init
             PROVE  CalmInv
  OBVIOUS
<1>1. \A i \in Listeners : ~task[i].own
  BY DEF Init, NoTask
<1>2. NoRestart
  BY DEF Init, NoRestart, NoOp, Ops
<1> QED
  BY <1>1, <1>2 DEF CalmInv, Owned, Fresh

\* A restart that is not under way does not begin, but by the user.
LEMMA RestartsAreTheUsers ==
  ASSUME SessionInv, NoRestart, [Next]_vars, Gestures \cap {"context", "recalculate"} = {}
  PROVE  NoRestart'
<1> USE DEF NoRestart
<1>0. "restart" \in Ops /\ "calculate" \in Ops /\ "save" \in Ops /\ "text" \in Ops
      /\ {"idle", "queue", "send", "start", "started", "cancel", "cancelled"} \subseteq OpPhases
  BY DEF Ops, OpPhases
<1>1. CASE ReadStep \/ ServerStep \/ UNCHANGED vars
  BY <1>1 DEF ReadStep, AnswerStatus, ApplyStatuses, StatusFails, ServerStep, Enqueue, Calculate, vars
<1>2. ASSUME NEW i \in Listeners, ListenerStep(i)
      PROVE  NoRestart'
  BY <1>0, <1>2, ListenersLeaveOps
<1>3. CASE OpStep
  <2>1. ASSUME NEW o \in Ops, BeginPersist(o) \/ SendPut(o) \/ HandlePut(o) \/ PutDone(o) \/ HandleStart(o)
        PROVE  NoRestart'
    <3>1. o # "restart"
      BY <2>1 DEF BeginPersist, SendPut, HandlePut, PutDone, HandleStart
    <3>2. op'["restart"].phase = op["restart"].phase
      <4>1. op \in [Ops -> OpRecord]
        BY SessionFacts
      <4>2. CASE BeginPersist(o)
        BY <1>0, <3>1, <4>2, OpPhaseMoves DEF BeginPersist
      <4>3. CASE SendPut(o) \/ HandlePut(o) \/ PutDone(o)
        BY <1>0, <3>1, <4>1, <4>3 DEF SendPut, HandlePut, PutDone
      <4>4. CASE HandleStart(o)
        BY <1>0, <3>1, <4>4, OpPhaseMoves DEF HandleStart
      <4> QED
        BY <2>1, <4>2, <4>3, <4>4
    <3>3. UNCHANGED coalesce
      BY <2>1 DEF BeginPersist, SendPut, HandlePut, PutDone, HandleStart
    <3> QED
      BY <3>2, <3>3
  <2>2. CASE CalculationStarted \/ CalculationFails
    BY <1>0, <2>2, OpPhaseMoves DEF CalculationStarted, CalculationFails
  <2>3. CASE CancelCalculation \/ ShowText
    BY <1>0, <2>3, OpPhaseMoves DEF CancelCalculation, ShowText
  <2>4. ~(ResetForRestart \/ RestartStarted \/ RestartFails \/ AfterFailure \/ EndRestart \/ TimerFires)
    BY DEF ResetForRestart, RestartStarted, RestartFails, AfterFailure, EndRestart, TimerFires
  <2> QED
    BY <1>3, <2>1, <2>2, <2>3, <2>4 DEF OpStep, OpTurn
<1>4. CASE UserStep
  <2>1. ~(ChangeContext \/ Recalculate)
    BY DEF ChangeContext, Recalculate, Gesture
  <2>2. CASE ToTable
    BY <1>0, <2>2, OpPhaseMoves DEF ToTable
  <2>3. CASE Save \/ ToText
    BY <1>0, <2>3, OpPhaseMoves DEF Save, ToText
  <2>4. CASE Render \/ GoAway \/ ComeBack
    BY <2>4 DEF Render, GoAway, ComeBack
  <2> QED
    BY <1>4, <2>1, <2>2, <2>3, <2>4 DEF UserStep
<1> QED
  BY <1>1, <1>2, <1>3, <1>4, StepsAre

LEMMA CalmStep ==
  ASSUME SessionInv, CalmInv, [Next]_vars, Gestures \cap {"context", "recalculate"} = {}
  PROVE  CalmInv'
<1> SUFFICES Owned' /\ Fresh'
  BY RestartsAreTheUsers DEF CalmInv
<1>0. ASSUME UNCHANGED task, view' \in {view, "table", "away"}
      PROVE  Owned' /\ Fresh'
  BY <1>0 DEF CalmInv, Owned, Fresh
<1>1. CASE ReadStep \/ ServerStep \/ UNCHANGED vars
  BY <1>0, <1>1 DEF ReadStep, AnswerStatus, ApplyStatuses, StatusFails, ServerStep, Enqueue, Calculate, vars, ui
<1>2. ASSUME NEW i \in Listeners, ListenerStep(i)
      PROVE  Owned' /\ Fresh'
  <2>1. PICK x : /\ task' = [task EXCEPT ![i] = x]
                 /\ x.own => task[i].own
                 /\ x.phase = "fetch" => ~x.outdated /\ view = "table" /\ task[i].phase = "check" /\ Current(i)
                 /\ x.phase = "answer" => /\ task[i].phase = "fetch" /\ (x.outdated <=> task[i].outdated)
                                          /\ x.own = task[i].own
    BY <1>2, ListenerMoves
  <2>2. view' = view
    BY <1>2, ListenersLeaveOps
  <2>3. x.own /\ x.phase \in {"fetch", "answer"} => ~x.outdated /\ view # "text"
    BY <2>1 DEF CalmInv, Fresh
  <2> QED
    BY <2>1, <2>2, <2>3, CalmListener
<1>3. CASE OpStep
  <2>1. ASSUME NEW o \in Ops, BeginPersist(o) \/ SendPut(o) \/ HandlePut(o) \/ PutDone(o) \/ HandleStart(o)
        PROVE  Owned' /\ Fresh'
    <3>1. view' = view
      BY <2>1 DEF BeginPersist, SendPut, HandlePut, PutDone, HandleStart, ui
    <3>2. UNCHANGED task \/ Abort \/ StartListener(ctrl, task, ShouldWait)
      BY <2>1 DEF BeginPersist, SendPut, HandlePut, PutDone, HandleStart
    <3> QED
      BY <1>0, <3>1, <3>2, CalmAbort, CalmStart
  <2>2. CASE CalculationStarted \/ CalculationFails
    <3>1. view' = view /\ \E should : StartListener(ctrl, task, should)
      BY <2>2 DEF CalculationStarted, CalculationFails, ui
    <3> QED
      BY <3>1, CalmStart
  <2>3. CASE CancelCalculation
    BY <1>0, <2>3 DEF CancelCalculation, ui
  <2>4. CASE ShowText
    BY <2>4, CalmAbort DEF ShowText
  <2>5. ~(ResetForRestart \/ RestartStarted \/ RestartFails \/ AfterFailure \/ EndRestart \/ TimerFires)
    BY DEF ResetForRestart, RestartStarted, RestartFails, AfterFailure, EndRestart, TimerFires, CalmInv, NoRestart
  <2> QED
    BY <1>3, <2>1, <2>2, <2>3, <2>4, <2>5 DEF OpStep, OpTurn
<1>4. CASE UserStep
  <2>1. ~(ChangeContext \/ Recalculate)
    BY DEF ChangeContext, Recalculate, Gesture
  <2>2. CASE ToTable
    <3>1. task' = Outdated /\ view = "text"
      BY <2>2 DEF ToTable
    <3>2. \A i \in Listeners : task'[i].own = task[i].own /\ task'[i].phase = task[i].phase
      BY <3>1, TaskShapes
    <3>3. Owned'
      BY <3>2 DEF CalmInv, Owned
    <3>4. Fresh'
      BY <3>1, <3>2 DEF CalmInv, Fresh
    <3> QED
      BY <3>3, <3>4
  <2>3. CASE Save \/ GoAway
    BY <1>0, <2>3 DEF Save, GoAway, ui
  <2>4. CASE Render \/ ComeBack
    <3>1. Synchronize /\ view' \in {view, "table"}
      BY <2>4 DEF Render, ComeBack, ui
    <3>2. UNCHANGED task \/ StartListener(ctrl, task, ShouldWait)
      BY <3>1 DEF Synchronize
    <3> QED
      BY <1>0, <3>1, <3>2, CalmStart
  <2>5. CASE ToText
    BY <2>5, CalmAbort DEF ToText
  <2> QED
    BY <1>4, <2>1, <2>2, <2>3, <2>4, <2>5 DEF UserStep
<1> QED
  BY <1>1, <1>2, <1>3, <1>4, StepsAre

\* While the user changes neither the district nor the FGIS set and forces no recalculation, at
\* most one listener of the session asks for batches, whatever saves, renders, switches and
\* failures interleave (startEstimateCalcBatchListener).
THEOREM ListenersAreAlone ==
  ASSUME Gestures \cap {"context", "recalculate"} = {}
  PROVE  Spec => []OneListener
<1>1. Init => CalmInv
  BY CalmInit
<1>2. SessionInv /\ CalmInv /\ [Next]_vars => CalmInv'
  BY CalmStep
<1>3. CalmInv => OneListener
  BY DEF CalmInv, Owned, OneListener, Listening, Current
<1> QED
  BY <1>1, <1>2, <1>3, SessionInvHolds, PTL DEF Spec

\* Under the same condition no batch that was asked for before the lines were reset is applied
\* to them afterwards: the way to text disowns its listener before it empties the results, and
\* only a listener that owns the session applies what it has (applyEstimateCalcBatchResponse).
THEOREM BatchesStay ==
  ASSUME Gestures \cap {"context", "recalculate"} = {}
  PROVE  Spec => BatchesStayInTheirCalculation
<1> DEFINE Stays == \A i \in Listeners :
                      task[i].phase = "answer" /\ task'[i].phase # "answer" /\ line' # line => ~task[i].outdated
<1>1. Init => CalmInv
  BY CalmInit
<1>2. SessionInv /\ CalmInv /\ [Next]_vars => CalmInv'
  BY CalmStep
<1>3. SessionInv /\ CalmInv /\ [Next]_vars => Stays \/ UNCHANGED vars
  <2> SUFFICES ASSUME SessionInv, CalmInv, [Next]_vars,
                      NEW i \in Listeners, task[i].phase = "answer", task'[i].phase # "answer", line' # line
               PROVE  ~task[i].outdated
    OBVIOUS
  <2>1. CASE ReadStep \/ ServerStep \/ UNCHANGED vars
    BY <2>1 DEF ReadStep, AnswerStatus, ApplyStatuses, StatusFails, ServerStep, Enqueue, Calculate, vars
  <2>2. ASSUME NEW j \in Listeners, ListenerStep(j)
        PROVE  ~task[i].outdated
    <3>1. PICK x : task' = [task EXCEPT ![j] = x] /\ (task[j].phase = "answer" => UNCHANGED line \/ Current(j))
      BY <2>2, ListenerMoves
    <3>2. i = j
      BY <3>1, TaskShapes
    <3> QED
      BY <3>1, <3>2 DEF CalmInv, Fresh, Current
  <2>3. CASE OpStep
    <3>1. ~(ResetForRestart \/ RestartStarted \/ RestartFails \/ AfterFailure \/ EndRestart \/ TimerFires)
      BY DEF ResetForRestart, RestartStarted, RestartFails, AfterFailure, EndRestart, TimerFires, CalmInv, NoRestart
    <3>2. UNCHANGED line
      BY <2>3, <3>1 DEF OpStep, OpTurn, BeginPersist, SendPut, HandlePut, PutDone, HandleStart, CalculationStarted,
                        CalculationFails, CancelCalculation, ShowText, table
    <3> QED
      BY <3>2
  <2>4. CASE UserStep
    <3>1. CASE ToTable
      <4>1. task' = Outdated
        BY <3>1 DEF ToTable
      <4> QED
        BY <4>1, TaskShapes
    <3>2. CASE ~ToTable
      BY <2>4, <3>2 DEF UserStep, ChangeContext, Recalculate, Save, Render, GoAway, ComeBack, ToText, table
    <3> QED
      BY <3>1, <3>2
  <2> QED
    BY <2>1, <2>2, <2>3, <2>4, StepsAre
<1>4. Spec => [][Stays]_vars
  <2> HIDE DEF Stays
  <2> QED
    BY <1>1, <1>2, <1>3, SessionInvHolds, PTL DEF Spec
<1> QED
  BY <1>4 DEF BatchesStayInTheirCalculation, Stays

-----------------------------------------------------------------------------
(* A save and the listener.  With a restart, or with a save of another     *)
(* kind under way, a listener may be started while the calculation's PUT   *)
(* is on its way.                                                          *)

SaveInv ==
  /\ NoRestart /\ op["save"].phase = "idle" /\ op["text"].phase \in {"idle", "cancel", "cancelled"}
  /\ op["calculate"].phase \in {"idle", "queue", "send", "put", "saved", "start", "started"}
  /\ op["calculate"].phase \in {"queue", "send", "put", "saved"} => blocked
  /\ op["calculate"].phase \in {"send", "put"} /\ view # "text" => ctrl.stopped

\* Nothing that matters to the save has moved.
LEMMA SaveRests ==
  ASSUME SessionInv, SaveInv, NoRestart', UNCHANGED <<view, blocked>>, ctrl.stopped => ctrl'.stopped,
         \A o \in Ops : op'[o].phase = op[o].phase
  PROVE  SaveInv'
BY DEF SaveInv, Ops

LEMMA SaveStep ==
  ASSUME SessionInv, SaveInv, [Next]_vars, Gestures \cap {"context", "recalculate", "save"} = {}
  PROVE  SaveInv'
<1>0. /\ "restart" \in Ops /\ "calculate" \in Ops /\ "save" \in Ops /\ "text" \in Ops
      /\ {"idle", "queue", "send", "start", "started", "cancel", "cancelled"} \subseteq OpPhases
      /\ op \in [Ops -> OpRecord] /\ ctrl \in CtrlRecord
  BY SessionFacts DEF Ops, OpPhases
<1>1. NoRestart'
  BY RestartsAreTheUsers DEF SaveInv
<1>2. CASE ReadStep \/ ServerStep \/ UNCHANGED vars
  BY <1>1, <1>2, SaveRests DEF ReadStep, AnswerStatus, ApplyStatuses, StatusFails, ServerStep, Enqueue, Calculate, vars,
                               ui, table
<1>3. ASSUME NEW i \in Listeners, ListenerStep(i)
      PROVE  SaveInv'
  BY <1>1, <1>3, SaveRests, ListenersLeaveOps
<1>4. CASE OpStep
  <2>1. ASSUME NEW o \in Ops, BeginPersist(o) \/ SendPut(o) \/ HandlePut(o) \/ PutDone(o) \/ HandleStart(o)
        PROVE  SaveInv'
    <3>1. o = "calculate"
      BY <2>1 DEF BeginPersist, SendPut, HandlePut, PutDone, HandleStart, SaveInv, NoRestart, Ops
    <3>2. CASE BeginPersist(o)
      <4>1. \A x \in Ops : op'[x].phase = IF x = "calculate" THEN "send" ELSE op[x].phase
        BY <1>0, <3>1, <3>2, OpPhaseMoves DEF BeginPersist
      <4>2. view' = view /\ blocked'
        BY <3>1, <3>2 DEF BeginPersist, SaveInv, ui
      <4>3. view # "text" => ctrl'.stopped
        BY <1>0, <3>2 DEF BeginPersist, Abort, Aborted, CtrlRecord
      <4> QED
        BY <1>0, <1>1, <4>1, <4>2, <4>3 DEF SaveInv
    <3>3. CASE SendPut(o) \/ HandlePut(o)
      <4>1. op[o].phase \in {"send", "put"} /\ op'["calculate"].phase \in {"put", "saved"}
            /\ (op'["calculate"].phase = "put" => op["calculate"].phase = "send")
        <5>1. op["calculate"] \in OpRecord /\ op["calculate"].phase \in {"send", "put"}
          BY <1>0, <3>1, <3>3 DEF SendPut, HandlePut
        <5>2. CASE SendPut(o)
          <6>1. op' = [op EXCEPT !["calculate"].phase = "put", !["calculate"].context = context]
                /\ op["calculate"].phase = "send"
            BY <3>1, <5>2 DEF SendPut
          <6>2. op'["calculate"] = [[op["calculate"] EXCEPT !.phase = "put"] EXCEPT !.context = context]
            BY <1>0, <6>1
          <6> QED
            BY <3>1, <5>1, <6>1, <6>2 DEF OpRecord
        <5>3. CASE HandlePut(o)
          <6>1. op' = [op EXCEPT !["calculate"].phase = "saved", !["calculate"].context = 0]
            BY <3>1, <5>3 DEF HandlePut
          <6>2. op'["calculate"] = [[op["calculate"] EXCEPT !.phase = "saved"] EXCEPT !.context = 0]
            BY <1>0, <6>1
          <6> QED
            BY <3>1, <5>1, <6>2 DEF OpRecord
        <5> QED
          BY <3>3, <5>2, <5>3
      <4>2. \A x \in Ops \ {"calculate"} : op'[x].phase = op[x].phase
        BY <1>0, <3>1, <3>3 DEF SendPut, HandlePut
      <4>3. UNCHANGED <<view, blocked, ctrl>>
        BY <3>3 DEF SendPut, HandlePut, ui, table
      <4> QED
        BY <1>0, <1>1, <3>1, <4>1, <4>2, <4>3 DEF SaveInv
    <3>4. CASE PutDone(o) \/ HandleStart(o)
      <4>1. op'["calculate"].phase \in {"start", "started"}
        <5>1. op["calculate"] \in OpRecord
          BY <1>0
        <5>2. op' = [op EXCEPT !["calculate"].phase = "start"] \/ op' = [op EXCEPT !["calculate"].phase = "started"]
          BY <3>1, <3>4 DEF PutDone, HandleStart, Goes
        <5>3. \/ op'["calculate"] = [op["calculate"] EXCEPT !.phase = "start"]
              \/ op'["calculate"] = [op["calculate"] EXCEPT !.phase = "started"]
          BY <1>0, <5>2
        <5> QED
          BY <5>1, <5>3 DEF OpRecord
      <4>2. \A x \in Ops \ {"calculate"} : op'[x].phase = op[x].phase
        BY <1>0, <3>1, <3>4 DEF PutDone, HandleStart, Goes
      <4> QED
        BY <1>0, <1>1, <4>1, <4>2 DEF SaveInv
    <3> QED
      BY <2>1, <3>2, <3>3, <3>4
  <2>2. CASE CalculationStarted \/ CalculationFails
    <3>1. \A x \in Ops : op'[x].phase = IF x = "calculate" THEN "idle" ELSE op[x].phase
      BY <1>0, <2>2, OpPhaseMoves DEF CalculationStarted, CalculationFails
    <3> QED
      BY <1>0, <1>1, <3>1 DEF SaveInv
  <2>3. CASE CancelCalculation \/ ShowText
    <3>1. \A x \in Ops \ {"text"} : op'[x].phase = op[x].phase
      BY <1>0, <2>3, OpPhaseMoves DEF CancelCalculation, ShowText
    <3>2. op'["text"].phase \in {"cancelled", "idle"}
      BY <1>0, <2>3, OpPhaseMoves DEF CancelCalculation, ShowText
    <3>3. blocked' = blocked /\ (view' # "text" => view' = view /\ ctrl' = ctrl)
      BY <2>3 DEF CancelCalculation, ShowText, table, ui
    <3> QED
      BY <1>0, <1>1, <3>1, <3>2, <3>3 DEF SaveInv
  <2>4. ~(ResetForRestart \/ RestartStarted \/ RestartFails \/ AfterFailure \/ EndRestart \/ TimerFires)
    BY DEF ResetForRestart, RestartStarted, RestartFails, AfterFailure, EndRestart, TimerFires, SaveInv, NoRestart
  <2> QED
    BY <1>4, <2>1, <2>2, <2>3, <2>4 DEF OpStep, OpTurn
<1>5. CASE UserStep
  <2>1. ~(ChangeContext \/ Recalculate \/ Save)
    BY DEF ChangeContext, Recalculate, Save, Gesture
  <2>2. CASE ToTable
    <3>1. CASE UNCHANGED <<blocked, ctrl, op>>
      BY <1>1, <2>2, <3>1 DEF ToTable, SaveInv
    <3>2. CASE blocked' = TRUE /\ op' = Goes("calculate", "queue")
      <4>1. \A x \in Ops : op'[x].phase = IF x = "calculate" THEN "queue" ELSE op[x].phase
        BY <1>0, <3>2, OpPhaseMoves
      <4> QED
        BY <1>0, <1>1, <3>2, <4>1 DEF SaveInv
    <3> QED
      BY <2>2, <3>1, <3>2 DEF ToTable
  <2>3. CASE Render \/ ComeBack
    <3>1. op' = op /\ blocked' = blocked /\ view # "text" /\ Synchronize
      BY <2>3 DEF Render, ComeBack, table
    <3>2. blocked => ctrl' = ctrl
      BY <3>1 DEF Synchronize
    <3> QED
      BY <1>1, <3>1, <3>2 DEF SaveInv
  <2>4. CASE GoAway
    BY <1>1, <2>4 DEF GoAway, SaveInv, table
  <2>5. CASE ToText
    <3>1. \A x \in Ops : op'[x].phase = IF x = "text" THEN "cancel" ELSE op[x].phase
      BY <1>0, <2>5, OpPhaseMoves DEF ToText
    <3>2. ctrl'.stopped /\ blocked' = blocked
      BY <1>0, <2>5 DEF ToText, Abort, Aborted, CtrlRecord, table
    <3> QED
      BY <1>0, <1>1, <3>1, <3>2 DEF SaveInv
  <2> QED
    BY <1>5, <2>1, <2>2, <2>3, <2>4, <2>5 DEF UserStep
<1> QED
  BY <1>2, <1>3, <1>4, <1>5, StepsAre

\* While the user restarts nothing and makes no other save, no current listener asks for a batch,
\* or holds one, when the PUT of the calculation is on its way: the save has stopped the session
\* and nothing starts a listener before its answer (persistOpenEstimate).
THEOREM SavesStopListening ==
  ASSUME Gestures \cap {"context", "recalculate", "save"} = {}
  PROVE  Spec => []SaveStopsListening
<1>1. Init => SaveInv
  BY DEF Init, SaveInv, NoRestart, NoOp, Ops
<1>2. SessionInv /\ SaveInv /\ [Next]_vars => SaveInv'
  BY SaveStep
<1>3. SaveInv => SaveStopsListening
  BY DEF SaveInv, NoRestart, SaveStopsListening, Ops, Current
<1> QED
  BY <1>1, <1>2, <1>3, SessionInvHolds, PTL DEF Spec

-----------------------------------------------------------------------------
(* The context that is saved in the end.  A change is owed until a PUT     *)
(* that read the context after it has been handled: by the timer, by the   *)
(* pass that follows the running one, or by a pass not yet at its PUT.     *)

Owed == coalesce.timer \/ (coalesce.pending /\ op["restart"].phase # "idle")
ContextInv ==
  /\ op["text"].phase = "idle" /\ op["restart"].phase # "failed"
  /\ view = "text" => op["restart"].phase = "idle" /\ ~coalesce.timer
  /\ \A o \in {"calculate", "save"} :
       op[o].phase = "put" /\ op[o].context # context => Owed \/ op["restart"].phase \in {"abort", "queue"}
  /\ op["restart"].phase = "put" /\ op["restart"].context # context => Owed
  /\ srv.context # context => Owed \/ op["restart"].phase \in {"abort", "queue", "send", "put"}

LEMMA OpContexts ==
  ASSUME SessionInv
  PROVE  /\ \A o, x \in Ops, phase \in OpPhases :
              Goes(o, phase)[x].context = op[x].context /\ Waits(o, phase)[x].context = op[x].context
         /\ \A i \in Listeners, x \in Ops : Woken(i)[x].context = op[x].context
<1>1. op \in [Ops -> OpRecord] /\ ctrl.promise \in Waited
  BY SessionFacts DEF CtrlRecord
<1>2. ASSUME NEW o \in Ops, NEW x \in Ops, NEW phase \in OpPhases
      PROVE  Goes(o, phase)[x].context = op[x].context /\ Waits(o, phase)[x].context = op[x].context
  <2> DEFINE y == [op[o] EXCEPT !.phase = phase]
             z == [y EXCEPT !.wait = ctrl.promise]
  <2>1. y \in OpRecord /\ y.context = op[o].context
    BY <1>1 DEF OpRecord
  <2>2. Goes(o, phase) = [op EXCEPT ![o] = y]
    BY DEF Goes
  <2>3. Waits(o, phase) = [op EXCEPT ![o] = z]
    BY <1>1 DEF Waits
  <2>4. z.context = op[o].context
    <3> HIDE DEF y
    <3> QED
      BY <2>1 DEF OpRecord
  <2> HIDE DEF y, z
  <2> QED
    BY <1>1, <2>1, <2>2, <2>3, <2>4
<1>3. ASSUME NEW i \in Listeners, NEW x \in Ops
      PROVE  Woken(i)[x].context = op[x].context
  <2> DEFINE w == IF op[x].wait = i THEN None ELSE op[x].wait
  <2>1. op[x] \in OpRecord /\ Woken(i)[x] = [op[x] EXCEPT !.wait = w]
    BY <1>1 DEF Woken
  <2> HIDE DEF w
  <2> QED
    BY <2>1 DEF OpRecord
<1> QED
  BY <1>2, <1>3

\* The server keeps its context but for a PUT.
LEMMA ServerContext ==
  ASSUME SessionInv
  PROVE  /\ Cancelled.context = srv.context
         /\ \A force : Started(force).context = srv.context
         /\ \A c : Saved(c).context = c
<1>1. srv \in SrvRecord
  BY SessionFacts
<1>2. Cancelled.context = srv.context /\ Cancelled \in SrvRecord
  BY <1>1, ServerAnswers DEF Cancelled, SrvRecord, Srvs
<1>3. ASSUME NEW force
      PROVE  Started(force).context = srv.context
  <2>1. CASE Started(force) = [Cancelled EXCEPT !.enqueue = TRUE, !.at = srv.context]
    BY <1>2, <2>1 DEF SrvRecord
  <2>2. CASE Started(force) = [srv EXCEPT !.enqueue = TRUE, !.at = srv.context]
    BY <1>1, <2>2 DEF SrvRecord
  <2> QED
    BY <2>1, <2>2 DEF Started
<1>4. ASSUME NEW c
      PROVE  Saved(c).context = c
  <2> DEFINE e == srv.enqueue \/ \E l \in Lines : srv.line[l].price # None
             ls == [l \in Lines |-> Blank]
  <2>1. Saved(c) = IF c = srv.context THEN srv ELSE [srv EXCEPT !.context = c, !.line = ls, !.enqueue = e]
    BY DEF Saved
  <2> HIDE DEF e, ls
  <2> QED
    BY <1>1, <2>1 DEF SrvRecord
<1> QED
  BY <1>2, <1>3, <1>4

\* A step that leaves contexts, choices and phases alone.
LEMMA ContextRests ==
  ASSUME ContextInv, UNCHANGED <<context, coalesce>>, srv'.context = srv.context, view' \in {view, "table", "away"},
         \A o \in Ops : op'[o].phase = op[o].phase /\ op'[o].context = op[o].context
  PROVE  ContextInv'
BY DEF ContextInv, Owed, Ops

\* A step that moves one operation that is not a restart, and sends nothing.
LEMMA ContextOther ==
  ASSUME SessionInv, ContextInv, UNCHANGED <<context, coalesce>>, srv'.context = srv.context,
         view' \in {view, "table", "away"},
         NEW o \in {"calculate", "save"}, NEW phase \in OpPhases \ {"put"}, \A x \in Ops \ {o} :
           op'[x].phase = op[x].phase /\ op'[x].context = op[x].context,
         op'[o].phase = phase
  PROVE  ContextInv'
BY DEF ContextInv, Owed, Ops

LEMMA ContextListener ==
  ASSUME SessionInv, ContextInv, NEW i \in Listeners, ListenerStep(i)
  PROVE  ContextInv'
<1>1. op' = Woken(i) \/ op' = op
  BY DEF ListenerStep, ListenerTurn, Check, AnswerBatch, FetchAborted, BatchFails, Deliver, Applied, Finalize, RunAgain, Leave
<1>2. \A o \in Ops : op'[o].phase = op[o].phase /\ op'[o].context = op[o].context
  BY <1>1, OpPhaseMoves, OpContexts
<1>3. UNCHANGED <<context, coalesce, srv, view>>
  BY ListenersLeaveOps
<1> QED
  BY <1>2, <1>3, ContextRests

\* The end of a PUT, of a calculation, of a save or of a restart.
LEMMA ContextPersist ==
  ASSUME SessionInv, ContextInv, NEW o \in Ops,
         BeginPersist(o) \/ SendPut(o) \/ HandlePut(o) \/ PutDone(o) \/ HandleStart(o)
  PROVE  ContextInv'
<1>0. /\ Ops = {"calculate", "restart", "save", "text"} /\ op \in [Ops -> OpRecord]
      /\ {"idle", "queue", "send", "saved", "start", "started"} \subseteq OpPhases \ {"put"}
  BY SessionFacts DEF Ops, OpPhases
<1>1. o \in {"calculate", "restart", "save"}
  BY <1>0 DEF BeginPersist, SendPut, HandlePut, PutDone, HandleStart, ContextInv
<1>2. UNCHANGED <<context, view, coalesce>>
  BY DEF BeginPersist, SendPut, HandlePut, PutDone, HandleStart, ui
<1>3. \A x \in Ops \ {o} : op'[x].phase = op[x].phase /\ op'[x].context = op[x].context
  <2>1. CASE BeginPersist(o) \/ HandleStart(o)
    BY <1>0, <2>1, OpPhaseMoves, OpContexts DEF BeginPersist, HandleStart
  <2>2. CASE SendPut(o) \/ HandlePut(o) \/ PutDone(o)
    BY <1>0, <2>2 DEF SendPut, HandlePut, PutDone
  <2> QED
    BY <2>1, <2>2
<1>4. CASE BeginPersist(o)
  <2>1. op'[o].phase = "send" /\ op'[o].context = op[o].context /\ op[o].phase = "queue"
    BY <1>0, <1>4, OpPhaseMoves, OpContexts DEF BeginPersist
  <2>2. \A x \in Ops : op[x].phase # "put"
    BY <1>4 DEF BeginPersist, Persisting
  <2>3. srv' = srv
    BY <1>4 DEF BeginPersist
  <2> QED
    BY <1>0, <1>1, <1>2, <1>3, <2>1, <2>2, <2>3 DEF ContextInv, Owed
<1>5. CASE SendPut(o)
  <2>1. op'[o].phase = "put" /\ op'[o].context = context /\ op[o].phase = "send"
    <3>1. op' = [op EXCEPT ![o].phase = "put", ![o].context = context] /\ op[o] \in OpRecord /\ op[o].phase = "send"
      BY <1>0, <1>5 DEF SendPut
    <3>2. op'[o] = [[op[o] EXCEPT !.phase = "put"] EXCEPT !.context = context]
      BY <1>0, <3>1
    <3> QED
      BY <3>1, <3>2 DEF OpRecord
  <2>2. srv' = srv
    BY <1>5 DEF SendPut
  <2> QED
    BY <1>0, <1>1, <1>2, <1>3, <2>1, <2>2 DEF ContextInv, Owed
<1>6. CASE HandlePut(o)
  <2>1. op'[o].phase = "saved" /\ op[o].phase = "put"
    <3>1. op' = [op EXCEPT ![o].phase = "saved", ![o].context = 0] /\ op[o] \in OpRecord /\ op[o].phase = "put"
      BY <1>0, <1>6 DEF HandlePut
    <3>2. op'[o] = [[op[o] EXCEPT !.phase = "saved"] EXCEPT !.context = 0]
      BY <1>0, <3>1
    <3> QED
      BY <3>1, <3>2 DEF OpRecord
  <2>2. srv'.context = op[o].context
    BY <1>6, ServerContext DEF HandlePut
  <2>3. CASE o = "restart"
    BY <1>0, <1>2, <1>3, <2>1, <2>2, <2>3 DEF ContextInv, Owed
  <2>4. CASE o # "restart"
    BY <1>0, <1>1, <1>2, <1>3, <2>1, <2>2, <2>4 DEF ContextInv, Owed
  <2> QED
    BY <2>3, <2>4
<1>7. CASE PutDone(o)
  <2>1. op'[o].phase \in {"idle", "start"} /\ op[o].phase = "saved" /\ srv' = srv /\ (o # "save" => op'[o].phase = "start")
    <3> DEFINE next == IF o = "save" THEN "idle" ELSE "start"
    <3>1. op' = [op EXCEPT ![o].phase = next] /\ op[o] \in OpRecord /\ op[o].phase = "saved" /\ srv' = srv
      BY <1>0, <1>7 DEF PutDone
    <3> HIDE DEF next
    <3>2. op'[o].phase = next
      BY <1>0, <3>1 DEF OpRecord
    <3> QED
      BY <3>1, <3>2 DEF next
  <2>2. CASE o = "restart"
    BY <1>0, <1>2, <1>3, <2>1, <2>2 DEF ContextInv, Owed
  <2>3. CASE o # "restart"
    BY <1>0, <1>1, <1>2, <1>3, <2>1, <2>3 DEF ContextInv, Owed
  <2> QED
    BY <2>2, <2>3
<1>8. CASE HandleStart(o)
  <2>1. op'[o].phase = "started" /\ op[o].phase = "start" /\ srv'.context = srv.context
    BY <1>0, <1>8, OpPhaseMoves, ServerContext DEF HandleStart
  <2>2. CASE o = "restart"
    BY <1>0, <1>2, <1>3, <2>1, <2>2 DEF ContextInv, Owed
  <2>3. CASE o # "restart"
    BY <1>0, <1>1, <1>2, <1>3, <2>1, <2>3 DEF ContextInv, Owed
  <2> QED
    BY <2>2, <2>3
<1> QED
  BY <1>4, <1>5, <1>6, <1>7, <1>8

LEMMA ContextStep ==
  ASSUME SessionInv, ContextInv, [Next]_vars, "text" \notin Gestures, FaultKinds \cap {"put", "start"} = {}
  PROVE  ContextInv'
<1>0. /\ Ops = {"calculate", "restart", "save", "text"} /\ op \in [Ops -> OpRecord]
      /\ {"idle", "abort", "queue", "status", "started"} \subseteq OpPhases \ {"put"}
      /\ coalesce \in [timer : BOOLEAN, pending : BOOLEAN]
  BY SessionFacts DEF Ops, OpPhases, SessionInv
<1>1. CASE ReadStep \/ UNCHANGED vars
  BY <1>1, ContextRests DEF ReadStep, AnswerStatus, ApplyStatuses, StatusFails, vars, ui
<1>2. CASE ServerStep
  <2>1. srv'.context = srv.context
    <3>1. srv \in SrvRecord
      BY SessionFacts
    <3>2. CASE Enqueue
      <4> DEFINE ls == [l \in Lines |-> IF srv.line[l].status = "done" THEN srv.line[l] ELSE Queued]
      <4>1. srv' = [srv EXCEPT !.enqueue = FALSE, !.line = ls]
        BY <3>2 DEF Enqueue
      <4> HIDE DEF ls
      <4> QED
        BY <3>1, <4>1 DEF SrvRecord
    <3>3. ASSUME NEW l \in Lines, NEW verdict \in Verdicts, Calculate(l, verdict)
          PROVE  srv'.context = srv.context
      BY <3>1, <3>3 DEF Calculate, SrvRecord
    <3> QED
      BY <1>2, <3>2, <3>3 DEF ServerStep
  <2>2. UNCHANGED <<context, view, coalesce, op>>
    BY <1>2 DEF ServerStep, Enqueue, Calculate, ui
  <2> QED
    BY <2>1, <2>2, ContextRests
<1>3. ASSUME NEW i \in Listeners, ListenerStep(i)
      PROVE  ContextInv'
  BY <1>3, ContextListener
<1>4. CASE OpStep
  <2>1. ASSUME NEW o \in Ops, BeginPersist(o) \/ SendPut(o) \/ HandlePut(o) \/ PutDone(o) \/ HandleStart(o)
        PROVE  ContextInv'
    BY <2>1, ContextPersist
  <2>2. CASE CalculationStarted
    <3>1. op' = Goes("calculate", "idle") /\ UNCHANGED <<context, view, coalesce, srv>>
      BY <2>2 DEF CalculationStarted, ui
    <3>2. \A x \in Ops : op'[x].phase = (IF x = "calculate" THEN "idle" ELSE op[x].phase) /\ op'[x].context = op[x].context
      BY <1>0, <3>1, OpPhaseMoves, OpContexts
    <3> QED
      BY <1>0, <3>1, <3>2 DEF ContextInv, Owed
  <2>3. ~CalculationFails /\ ~RestartFails /\ ~AfterFailure /\ ~CancelCalculation /\ ~ShowText
    BY DEF CalculationFails, RestartFails, Fault, AfterFailure, CancelCalculation, ShowText, ContextInv
  <2>4. CASE ResetForRestart
    <3>1. op' = Goes("restart", "queue") /\ UNCHANGED <<context, view, coalesce, srv>> /\ op["restart"].phase = "abort"
      BY <2>4 DEF ResetForRestart, ui
    <3>2. \A x \in Ops : op'[x].phase = (IF x = "restart" THEN "queue" ELSE op[x].phase) /\ op'[x].context = op[x].context
      BY <1>0, <3>1, OpPhaseMoves, OpContexts
    <3> QED
      BY <1>0, <3>1, <3>2 DEF ContextInv, Owed
  <2>5. CASE RestartStarted
    <3>1. op' = Goes("restart", "status") /\ UNCHANGED <<context, view, coalesce, srv>> /\ op["restart"].phase = "started"
      BY <2>5 DEF RestartStarted, ui
    <3>2. \A x \in Ops : op'[x].phase = (IF x = "restart" THEN "status" ELSE op[x].phase) /\ op'[x].context = op[x].context
      BY <1>0, <3>1, OpPhaseMoves, OpContexts
    <3> QED
      BY <1>0, <3>1, <3>2 DEF ContextInv, Owed
  <2>6. ASSUME NEW pending, BeginRestart(pending), view # "text", UNCHANGED <<context, view, srv>>,
               op["restart"].phase \in {"idle", "status"}
        PROVE  ContextInv'
    <3>1. op' = Waits("restart", "abort")
      BY <2>6 DEF BeginRestart
    <3>2. \A x \in Ops : op'[x].phase = (IF x = "restart" THEN "abort" ELSE op[x].phase) /\ op'[x].context = op[x].context
      BY <1>0, <3>1, OpPhaseMoves, OpContexts
    <3> QED
      BY <1>0, <2>6, <3>2 DEF ContextInv, Owed
  <2>7. CASE EndRestart
    <3>1. op["restart"].phase = "status" /\ view # "text" /\ UNCHANGED <<context, view, srv>>
      BY <2>7 DEF EndRestart, ContextInv, ui
    <3>2. CASE coalesce.pending
      BY <2>6, <2>7, <3>1, <3>2 DEF EndRestart
    <3>3. CASE ~coalesce.pending
      <4>1. op' = Goes("restart", "idle") /\ UNCHANGED coalesce
        BY <2>7, <3>3 DEF EndRestart
      <4>2. \A x \in Ops : op'[x].phase = (IF x = "restart" THEN "idle" ELSE op[x].phase) /\ op'[x].context = op[x].context
        BY <1>0, <4>1, OpPhaseMoves, OpContexts
      <4> QED
        BY <1>0, <3>1, <3>3, <4>1, <4>2 DEF ContextInv, Owed
    <3> QED
      BY <3>2, <3>3
  <2>8. CASE TimerFires
    <3>1. coalesce.timer /\ view # "text" /\ UNCHANGED <<context, view, srv>>
      BY <2>8 DEF TimerFires, ContextInv, ui
    <3>2. CASE op["restart"].phase = "idle"
      BY <2>6, <2>8, <3>1, <3>2 DEF TimerFires
    <3>3. CASE op["restart"].phase # "idle"
      <4>1. coalesce' = [timer |-> FALSE, pending |-> TRUE] /\ UNCHANGED op
        BY <2>8, <3>3 DEF TimerFires
      <4> QED
        BY <1>0, <3>1, <3>3, <4>1 DEF ContextInv, Owed
    <3> QED
      BY <3>2, <3>3
  <2> QED
    BY <1>4, <2>1, <2>2, <2>3, <2>4, <2>5, <2>7, <2>8 DEF OpStep, OpTurn
<1>5. CASE UserStep
  <2>1. ~ToText
    BY DEF ToText, Gesture
  <2>2. CASE ToTable
    <3>1. UNCHANGED <<context, coalesce, srv>> /\ view' = "table"
      BY <2>2 DEF ToTable
    <3>2. CASE op' = op
      BY <3>1, <3>2, ContextRests
    <3>3. CASE op' = Goes("calculate", "queue")
      <4>1. \A x \in Ops : op'[x].phase = (IF x = "calculate" THEN "queue" ELSE op[x].phase) /\ op'[x].context = op[x].context
        BY <1>0, <3>3, OpPhaseMoves, OpContexts
      <4> QED
        BY <1>0, <3>1, <4>1 DEF ContextInv, Owed
    <3> QED
      BY <2>2, <3>2, <3>3 DEF ToTable
  <2>3. CASE ChangeContext
    <3>1. coalesce' = [timer |-> TRUE, pending |-> TRUE] /\ UNCHANGED <<op, view>> /\ view # "text"
      BY <2>3 DEF ChangeContext
    <3> QED
      BY <3>1 DEF ContextInv, Owed
  <2>4. CASE Recalculate
    <3>1. /\ view # "text" /\ op["restart"].phase = "idle" /\ op' = Waits("restart", "abort")
          /\ coalesce' = coalesce /\ UNCHANGED <<context, view, srv>>
      BY <2>4 DEF Recalculate, BeginRestart, ui
    <3>2. \A x \in Ops : op'[x].phase = (IF x = "restart" THEN "abort" ELSE op[x].phase) /\ op'[x].context = op[x].context
      BY <1>0, <3>1, OpPhaseMoves, OpContexts
    <3> QED
      BY <1>0, <3>1, <3>2 DEF ContextInv, Owed
  <2>5. CASE Save
    <3>1. op' = Goes("save", "queue") /\ UNCHANGED <<context, view, coalesce, srv>>
      BY <2>5 DEF Save, ui
    <3>2. \A x \in Ops : op'[x].phase = (IF x = "save" THEN "queue" ELSE op[x].phase) /\ op'[x].context = op[x].context
      BY <1>0, <3>1, OpPhaseMoves, OpContexts
    <3> QED
      BY <1>0, <3>1, <3>2 DEF ContextInv, Owed
  <2>6. CASE Render \/ GoAway \/ ComeBack
    BY <2>6, ContextRests DEF Render, GoAway, ComeBack, ui
  <2> QED
    BY <1>5, <2>1, <2>2, <2>3, <2>4, <2>5, <2>6 DEF UserStep
<1> QED
  BY <1>1, <1>2, <1>3, <1>4, <1>5, StepsAre

\* While the requests succeed and the user stays out of the text view, the server has the last
\* choice of district and FGIS set once all is quiet, however many changes, restarts, saves and
\* calculations overlap: a save that sent an older choice is followed by one that sends the
\* newer (coalescedRestartEstimateCalculation).
THEOREM ChoicesAreSaved ==
  ASSUME "text" \notin Gestures, FaultKinds \cap {"put", "start"} = {}
  PROVE  Spec => []ContextSaved
<1>1. Init => ContextInv
  BY DEF Init, ContextInv, Owed, NoOp, Ops
<1>2. SessionInv /\ ContextInv /\ [Next]_vars => ContextInv'
  BY ContextStep
<1>3. ContextInv => ContextSaved
  BY DEF ContextInv, Owed, ContextSaved, Quiet, Ops
<1> QED
  BY <1>1, <1>2, <1>3, SessionInvHolds, PTL DEF Spec

-----------------------------------------------------------------------------
(* Nothing is stranded in the first calculation: as long as the server has *)
(* results to come, a listener of the session asks for them, and when it   *)
(* has none left, a read of all the lines is under way or is the next step *)
(* of the listener that ends.  One request may fail on the way.            *)

AllBlank == \A l \in Lines : srv.line[l] = Blank
AllIdle == \A o \in Ops : op[o].phase = "idle"

\* Before the table is first shown there is nothing to calculate ...
Untouched == view = "text" => op["calculate"].phase = "idle" /\ AllBlank /\ ~srv.enqueue /\ ~blocked
\* ... nor until the calculation has been started.
Unstarted ==
  /\ op["calculate"].phase \in {"queue", "send", "put", "saved", "start"} => AllBlank /\ ~srv.enqueue
  /\ srv.enqueue => AllBlank
Shown == \A l \in Lines : line[l].status \in Terminal => srv.line[l] = line[l]
Answers ==
  \A i \in Listeners : /\ task[i].phase \in {"answer", "applying"} => TrueOf(task[i].batch)
                       /\ task[i].phase = "applying" => task[i].batch.done
ReadNow == reading.phase \in {"answered", "retried"} => reading.statuses = srv.line
Released == blocked => ~AllIdle
Listens(i) == Current(i) /\ task[i].phase \in {"check", "fetch", "answer", "applying", "later"}
Ends(i) == Current(i) /\ task[i].phase = "final"
Watched ==
  view = "table" /\ InFlight(line) /\ AllIdle /\ faults <= 1 =>
    \/ \E i \in Listeners : Listens(i)
    \/ /\ AllTerminal(srv.line)
       /\ \/ reading.phase \in {"sent", "answered"} /\ (faults = 1 \/ \E i \in Listeners : Ends(i))
          \/ reading.phase = "none" /\ faults = 1 /\ \E i \in Listeners : Ends(i)
First == Untouched /\ Unstarted /\ Shown /\ Answers /\ ReadNow /\ Released /\ Watched
Basis ==
  /\ context = 0 /\ srv.gen >= 1
  /\ op["calculate"].phase \in {"idle", "queue", "send", "put", "saved", "start", "started"}
  /\ op["save"].phase \in {"idle", "queue", "send", "put", "saved"}
  /\ op["text"].phase \in {"idle", "cancel", "cancelled"}
  /\ op["text"].phase = "cancelled" => srv.gen >= 2
  /\ NoRestart
StrandInv == Basis /\ (srv.gen = 1 => First)

\* What the steps of a save do to the phases.
LEMMA PersistPhases ==
  ASSUME SessionInv, NEW o \in Ops, BeginPersist(o) \/ SendPut(o) \/ HandlePut(o) \/ PutDone(o) \/ HandleStart(o)
  PROVE  \E phase \in {"idle", "send", "put", "saved", "start", "started"} :
           /\ \A x \in Ops : op'[x].phase = IF x = o THEN phase ELSE op[x].phase
           /\ BeginPersist(o) => phase = "send"
           /\ SendPut(o) => phase = "put"
           /\ HandlePut(o) => phase = "saved"
           /\ PutDone(o) => phase = (IF o = "save" THEN "idle" ELSE "start")
           /\ HandleStart(o) => phase = "started"
           /\ o = "save" /\ ~HandleStart(o) => phase \notin {"start", "started"}
<1>0. op \in [Ops -> OpRecord] /\ {"send", "started"} \subseteq OpPhases
  BY SessionFacts DEF OpPhases
<1>1. /\ BeginPersist(o) => op[o].phase = "queue"
      /\ SendPut(o) => op[o].phase = "send"
      /\ HandlePut(o) => op[o].phase = "put"
      /\ PutDone(o) => op[o].phase = "saved"
      /\ HandleStart(o) => op[o].phase = "start"
  BY DEF BeginPersist, SendPut, HandlePut, PutDone, HandleStart
<1>2. CASE BeginPersist(o)
  <2>1. \A x \in Ops : op'[x].phase = IF x = o THEN "send" ELSE op[x].phase
    BY <1>0, <1>2, OpPhaseMoves DEF BeginPersist
  <2> QED
    BY <1>1, <1>2, <2>1
<1>3. CASE SendPut(o)
  <2>1. op' = [op EXCEPT ![o].phase = "put", ![o].context = context]
    BY <1>3 DEF SendPut
  <2>2. op' = [op EXCEPT ![o] = [[op[o] EXCEPT !.phase = "put"] EXCEPT !.context = context]]
    BY <1>0, <2>1
  <2>3. \A x \in Ops : op'[x].phase = IF x = o THEN "put" ELSE op[x].phase
    BY <1>0, <2>2 DEF OpRecord
  <2> QED
    BY <1>1, <1>3, <2>3
<1>4. CASE HandlePut(o)
  <2>1. op' = [op EXCEPT ![o].phase = "saved", ![o].context = 0]
    BY <1>4 DEF HandlePut
  <2>2. op' = [op EXCEPT ![o] = [[op[o] EXCEPT !.phase = "saved"] EXCEPT !.context = 0]]
    BY <1>0, <2>1
  <2>3. \A x \in Ops : op'[x].phase = IF x = o THEN "saved" ELSE op[x].phase
    BY <1>0, <2>2 DEF OpRecord
  <2> QED
    BY <1>1, <1>4, <2>3
<1>5. CASE PutDone(o)
  <2> DEFINE next == IF o = "save" THEN "idle" ELSE "start"
  <2>1. op' = [op EXCEPT ![o].phase = next]
    BY <1>5 DEF PutDone
  <2>2. next \in {"idle", "start"}
    OBVIOUS
  <2> HIDE DEF next
  <2>3. \A x \in Ops : op'[x].phase = IF x = o THEN next ELSE op[x].phase
    BY <1>0, <2>1 DEF OpRecord
  <2>4. o = "save" => next = "idle"
    BY DEF next
  <2>5. next = IF o = "save" THEN "idle" ELSE "start"
    BY DEF next
  <2> QED
    BY <1>1, <1>5, <2>2, <2>3, <2>4, <2>5
<1>6. CASE HandleStart(o)
  <2>1. \A x \in Ops : op'[x].phase = IF x = o THEN "started" ELSE op[x].phase
    BY <1>0, <1>6, OpPhaseMoves DEF HandleStart
  <2> QED
    BY <1>1, <1>6, <2>1
<1> QED
  BY <1>2, <1>3, <1>4, <1>5, <1>6

LEMMA StutterTyped == SessionInv /\ UNCHANGED vars => SessionInv'
BY DEF SessionInv, vars, ui, table, bounds

LEMMA StrandInit == Init => StrandInv
<1> SUFFICES ASSUME Init
             PROVE  StrandInv
  OBVIOUS
<1>1. Basis
  BY DEF Init, Basis, NoRestart, NoOp, Ops
<1>2. AllBlank /\ ~srv.enqueue /\ ~blocked /\ op["calculate"].phase = "idle" /\ reading.phase = "none" /\ view = "text"
  BY DEF Init, AllBlank, NoOp, Ops, NoReading
<1>3. \A l \in Lines : line[l].status \notin Terminal
  BY DEF Init, Blank, Terminal
<1>4. \A i \in Listeners : task[i].phase = "idle"
  BY DEF Init, NoTask
<1> QED
  BY <1>1, <1>2, <1>3, <1>4 DEF StrandInv, First, Untouched, Unstarted, Shown, Answers, ReadNow, Released, Watched

LEMMA BasisFacts ==
  ASSUME SessionInv, Basis
  PROVE  /\ srv.context = 0 /\ srv.at = 0 /\ \A o \in Ops : op[o].context = 0
         /\ srv \in SrvRecord /\ srv.gen \in Nat /\ srv.line \in LineMap /\ line \in LineMap
         /\ 1 \in Lines /\ (AllTerminal(srv.line) => ~AllBlank)
         /\ \A l \in Lines : srv.line[l].status \in Status /\ line[l].status \in Status
         /\ \A ls \in LineMap : ~InFlight(ls) <=> AllTerminal(ls)
<1>1. /\ srv \in SrvRecord /\ srv.gen \in Nat /\ srv.line \in LineMap /\ srv.context <= 0 /\ srv.at <= 0
      /\ \A o \in Ops : op[o].context \in Nat /\ op[o].context <= 0
  BY SessionFacts DEF Basis
<1>2. srv.context = 0 /\ srv.at = 0 /\ \A o \in Ops : op[o].context = 0
  BY <1>1 DEF SrvRecord
<1>3. 1 \in Lines
  BY SizesAssumption DEF Lines
<1>4. AllTerminal(srv.line) => ~AllBlank
  <2>1. Blank.status \notin Terminal
    BY DEF Blank, Terminal
  <2> QED
    BY <1>3, <2>1 DEF AllTerminal, AllBlank
<1>5. line \in LineMap
  BY DEF SessionInv
<1>6. ASSUME NEW ls \in LineMap
      PROVE  /\ \A l \in Lines : ls[l].status \in Status
             /\ ~InFlight(ls) <=> AllTerminal(ls)
  <2>1. \A l \in Lines : ls[l].status \in Status
    BY DEF LineMap, LineType
  <2> QED
    BY <2>1 DEF InFlight, AllTerminal, Status, Terminal
<1> QED
  BY <1>1, <1>2, <1>3, <1>4, <1>5, <1>6

\* The generation never goes back.
LEMMA GenGrows ==
  ASSUME SessionInv, [Next]_vars
  PROVE  srv.gen <= srv'.gen
<1>1. srv.gen \in Nat /\ srv \in SrvRecord
  BY SessionFacts
<1>2. CASE srv' = srv
  BY <1>1, <1>2
<1>3. CASE ServerStep
  <2>1. CASE Enqueue
    <3> DEFINE ls == [l \in Lines |-> IF srv.line[l].status = "done" THEN srv.line[l] ELSE Queued]
    <3>1. srv' = [srv EXCEPT !.enqueue = FALSE, !.line = ls]
      BY <2>1 DEF Enqueue
    <3> HIDE DEF ls
    <3> QED
      BY <1>1, <3>1 DEF SrvRecord
  <2>2. ASSUME NEW l \in Lines, NEW verdict \in Verdicts, Calculate(l, verdict)
        PROVE  srv.gen <= srv'.gen
    BY <1>1, <2>2 DEF Calculate, SrvRecord
  <2> QED
    BY <1>3, <2>1, <2>2 DEF ServerStep
<1>4. ASSUME NEW o \in Ops, HandlePut(o) \/ HandleStart(o)
      PROVE  srv.gen <= srv'.gen
  <2>1. op[o].context \in Nat /\ op[o].context <= context
    BY SessionFacts
  <2>2. CASE HandlePut(o)
    <3>1. srv' = Saved(op[o].context) /\ Saved(op[o].context).gen = srv.gen
      BY <2>1, <2>2, ServerAnswers DEF HandlePut
    <3> QED
      BY <1>1, <3>1
  <2>3. CASE HandleStart(o)
    <3>1. (o = "restart") \in BOOLEAN /\ srv' = Started(o = "restart")
      BY <2>3 DEF HandleStart
    <3>2. srv.gen <= Started(o = "restart").gen
      BY <3>1, ServerAnswers
    <3> QED
      BY <3>1, <3>2
  <2> QED
    BY <1>4, <2>2, <2>3
<1>5. CASE CancelCalculation
  <2>1. srv' = Cancelled /\ Cancelled.gen = srv.gen + 1
    BY <1>5, ServerAnswers DEF CancelCalculation
  <2> QED
    BY <1>1, <2>1
<1>6. CASE ReadStep \/ UserStep \/ (\E i \in Listeners : ListenerStep(i)) \/ UNCHANGED vars
  BY <1>2, <1>6, ListenersLeaveOps
     DEF ReadStep, AnswerStatus, ApplyStatuses, StatusFails, vars, UserStep, ToTable, ChangeContext,
         Recalculate, Save, Render, GoAway, ComeBack, ToText
<1>7. CASE OpStep
  <2>1. ASSUME NEW o \in Ops, BeginPersist(o) \/ SendPut(o) \/ PutDone(o)
        PROVE  srv' = srv
    BY <2>1 DEF BeginPersist, SendPut, PutDone
  <2>2. ASSUME CalculationStarted \/ CalculationFails \/ ResetForRestart \/ RestartStarted \/ RestartFails
               \/ AfterFailure \/ EndRestart \/ TimerFires \/ ShowText
        PROVE  srv' = srv
    BY <2>2 DEF CalculationStarted, CalculationFails, ResetForRestart, RestartStarted, RestartFails,
                AfterFailure, EndRestart, TimerFires, ShowText
  <2> QED
    BY <1>2, <1>4, <1>5, <1>7, <2>1, <2>2 DEF OpStep, OpTurn
<1> QED
  BY <1>3, <1>6, <1>7, StepsAre

LEMMA BasisStep ==
  ASSUME SessionInv, Basis, [Next]_vars, Gestures \cap {"context", "recalculate"} = {}
  PROVE  Basis'
<1>0. /\ Ops = {"calculate", "restart", "save", "text"} /\ op \in [Ops -> OpRecord]
      /\ {"idle", "queue", "send", "start", "started", "cancel", "cancelled"} \subseteq OpPhases
  BY SessionFacts DEF Ops, OpPhases
<1>1. NoRestart' /\ srv'.gen >= 1 /\ (srv.gen >= 2 => srv'.gen >= 2)
  <2>1. srv'.gen \in Nat \/ srv'.gen \notin Nat
    OBVIOUS
  <2>2. srv.gen \in Nat /\ srv.gen <= srv'.gen /\ srv.gen >= 1
    BY GenGrows, SessionFacts DEF Basis
  <2>3. srv'.gen \in Nat
    <3>1. SessionInv'
      BY ReadStepTyped, ServerStepTyped, OpStepTyped, UserStepTyped, ListenerStepTyped, StutterTyped, StepsAre
    <3> QED
      BY <3>1 DEF SessionInv, Srvs, SrvRecord
  <2> QED
    BY <2>2, <2>3, RestartsAreTheUsers DEF Basis
<1>2. context' = 0
  <2>1. ~ChangeContext
    BY DEF ChangeContext, Gesture
  <2>2. context' = context
    <3>1. CASE OpStep
      BY <3>1 DEF OpStep, OpTurn, BeginPersist, SendPut, HandlePut, PutDone, HandleStart, CalculationStarted,
                  CalculationFails, ResetForRestart, RestartStarted, RestartFails, AfterFailure, EndRestart,
                  TimerFires, CancelCalculation, ShowText, ui
    <3>2. CASE UserStep
      BY <2>1, <3>2 DEF UserStep, ToTable, Recalculate, Save, Render, GoAway, ComeBack, ToText, ui
    <3>3. CASE ReadStep \/ ServerStep \/ UNCHANGED vars
      BY <3>3 DEF ReadStep, AnswerStatus, ApplyStatuses, StatusFails, ServerStep, Enqueue, Calculate, vars, ui
    <3> QED
      BY <3>1, <3>2, <3>3, ListenersLeaveOps, StepsAre
  <2> QED
    BY <2>2 DEF Basis
<1>3. ASSUME \A o \in Ops : op'[o].phase = op[o].phase
      PROVE  Basis'
  BY <1>0, <1>1, <1>2, <1>3 DEF Basis
<1>4. ASSUME NEW o \in {"calculate", "save", "text"}, NEW phase \in OpPhases,
             \A x \in Ops : op'[x].phase = IF x = o THEN phase ELSE op[x].phase,
             o = "calculate" => phase \in {"idle", "queue", "send", "put", "saved", "start", "started"},
             o = "save" => phase \in {"idle", "queue", "send", "put", "saved"},
             o = "text" => phase \in {"idle", "cancel", "cancelled"} /\ (phase = "cancelled" => srv'.gen >= 2)
      PROVE  Basis'
  BY <1>0, <1>1, <1>2, <1>4 DEF Basis
<1>5. CASE ReadStep \/ ServerStep \/ UNCHANGED vars
  BY <1>3, <1>5 DEF ReadStep, AnswerStatus, ApplyStatuses, StatusFails, ServerStep, Enqueue, Calculate, vars
<1>6. ASSUME NEW i \in Listeners, ListenerStep(i)
      PROVE  Basis'
  BY <1>3, <1>6, ListenersLeaveOps
<1>7. CASE OpStep
  <2>1. ASSUME NEW o \in Ops, BeginPersist(o) \/ SendPut(o) \/ HandlePut(o) \/ PutDone(o) \/ HandleStart(o)
        PROVE  Basis'
    <3>1. o \in {"calculate", "save"} /\ (o = "save" => ~HandleStart(o))
      BY <1>0, <2>1 DEF BeginPersist, SendPut, HandlePut, PutDone, HandleStart, Basis, NoRestart
    <3>2. \E phase \in {"idle", "send", "put", "saved", "start", "started"} :
            /\ \A x \in Ops : op'[x].phase = IF x = o THEN phase ELSE op[x].phase
            /\ o = "save" => phase \notin {"start", "started"}
      BY <1>0, <2>1, <3>1, PersistPhases
    <3> QED
      BY <1>4, <3>1, <3>2 DEF OpPhases
  <2>2. CASE CalculationStarted \/ CalculationFails
    <3>1. \A x \in Ops : op'[x].phase = IF x = "calculate" THEN "idle" ELSE op[x].phase
      BY <1>0, <2>2, OpPhaseMoves DEF CalculationStarted, CalculationFails
    <3> QED
      BY <1>0, <1>4, <3>1
  <2>3. CASE CancelCalculation
    <3>1. \A x \in Ops : op'[x].phase = IF x = "text" THEN "cancelled" ELSE op[x].phase
      BY <1>0, <2>3, OpPhaseMoves DEF CancelCalculation
    <3>2. srv'.gen >= 2
      <4>1. srv' = Cancelled /\ Cancelled.gen = srv.gen + 1 /\ srv.gen \in Nat /\ srv.gen >= 1
        BY <2>3, ServerAnswers, SessionFacts DEF CancelCalculation, Basis
      <4>2. srv'.gen = srv.gen + 1
        BY <4>1
      <4> QED
        BY <4>1, <4>2
    <3> QED
      BY <1>0, <1>4, <3>1, <3>2
  <2>4. CASE ShowText
    <3>1. \A x \in Ops : op'[x].phase = IF x = "text" THEN "idle" ELSE op[x].phase
      BY <1>0, <2>4, OpPhaseMoves DEF ShowText
    <3> QED
      BY <1>0, <1>4, <3>1
  <2>5. ~(ResetForRestart \/ RestartStarted \/ RestartFails \/ AfterFailure \/ EndRestart \/ TimerFires)
    BY DEF ResetForRestart, RestartStarted, RestartFails, AfterFailure, EndRestart, TimerFires, Basis, NoRestart
  <2> QED
    BY <1>7, <2>1, <2>2, <2>3, <2>4, <2>5 DEF OpStep, OpTurn
<1>8. CASE UserStep
  <2>1. ~(ChangeContext \/ Recalculate)
    BY DEF ChangeContext, Recalculate, Gesture
  <2>2. CASE op' = op
    BY <1>3, <2>2
  <2>3. ASSUME NEW o \in {"calculate", "save", "text"}, NEW phase \in {"queue", "cancel"},
               o = "text" => phase = "cancel", o # "text" => phase = "queue",
               \A x \in Ops : op'[x].phase = IF x = o THEN phase ELSE op[x].phase
        PROVE  Basis'
    BY <1>0, <1>4, <2>3
  <2>4. CASE op' = Goes("calculate", "queue") \/ op' = Goes("save", "queue") \/ op' = Waits("text", "cancel")
    BY <1>0, <2>3, <2>4, OpPhaseMoves
  <2> QED
    BY <1>8, <2>1, <2>2, <2>4 DEF UserStep, ToTable, Save, Render, GoAway, ComeBack, ToText
<1> QED
  BY <1>5, <1>6, <1>7, <1>8, StepsAre

LEMMA AllProcessed ==
  ASSUME NEW ls, AllTerminal(ls)
  PROVE  Processed(ls) > 0
<1>1. {l \in Lines : ls[l].status \in Terminal} = Lines
  BY DEF AllTerminal
<1>2. Processed(ls) = NLines
  BY <1>1, LinesAreFinite DEF Processed
<1> QED
  BY <1>2, LinesAreFinite

\* A read of the statuses: what it brings is what the server says.
LEMMA StrandRead ==
  ASSUME SessionInv, Basis, srv.gen = 1, First, ReadStep
  PROVE  First'
<1>0. /\ UNCHANGED <<srv, view, context, blocked, ctrl, task, op>>
      /\ reading \in ReadRecord /\ srv.line \in LineMap /\ line \in LineMap
      /\ \A ls \in LineMap : ~InFlight(ls) <=> AllTerminal(ls)
  BY BasisFacts DEF ReadStep, AnswerStatus, ApplyStatuses, StatusFails, ui, table, SessionInv
<1>1. Untouched' /\ Unstarted' /\ Released'
  BY <1>0 DEF First, Untouched, Unstarted, Released, AllBlank, AllIdle
<1>2. Answers'
  BY <1>0 DEF First, Answers, TrueOf, AllTerminal
<1>3. CASE AnswerStatus
  <2>1. /\ UNCHANGED <<line, faults>> /\ reading'.statuses = srv.line
        /\ reading'.phase = (IF reading.phase = "sent" THEN "answered" ELSE "retried")
        /\ reading.phase \in {"sent", "retry"}
    BY <1>0, <1>3 DEF AnswerStatus, table, bounds, ReadRecord
  <2>2. Shown' /\ ReadNow'
    BY <1>0, <2>1 DEF First, Shown, ReadNow
  <2>3. Watched'
    BY <1>0, <2>1 DEF First, Watched, AllIdle, Listens, Ends, Current, InFlight, AllTerminal
  <2> QED
    BY <1>1, <1>2, <2>2, <2>3 DEF First
<1>4. CASE StatusFails
  <2>1. UNCHANGED line /\ reading'.phase = "none" /\ faults' = faults + 1 /\ faults \in Nat
        /\ reading.phase \in {"sent", "retry"}
    BY <1>4 DEF StatusFails, Fault, NoReading, table, SessionInv
  <2>2. Shown' /\ ReadNow'
    BY <1>0, <2>1 DEF First, Shown, ReadNow
  <2>3. Watched'
    <3>1. faults' <= 1 => faults = 0 /\ faults' = 1
      BY <2>1
    <3>2. ASSUME view = "table", InFlight(line), AllIdle, faults = 0
          PROVE  (\E i \in Listeners : Listens(i)) \/ (AllTerminal(srv.line) /\ \E i \in Listeners : Ends(i))
      BY <2>1, <3>2 DEF First, Watched
    <3>3. /\ InFlight(line)' = InFlight(line) /\ AllIdle' = AllIdle /\ AllTerminal(srv.line)' = AllTerminal(srv.line)
          /\ \A i \in Listeners : Listens(i)' = Listens(i) /\ Ends(i)' = Ends(i)
      BY <1>0, <2>1 DEF InFlight, AllIdle, AllTerminal, Listens, Ends, Current
    <3> QED
      BY <1>0, <2>1, <3>1, <3>2, <3>3 DEF Watched
  <2> QED
    BY <1>1, <1>2, <2>2, <2>3 DEF First
<1>5. CASE ApplyStatuses
  <2> DEFINE now == reading.statuses
             first == reading.phase = "answered"
             found == first /\ (now # line \/ (InFlight(line) /\ Processed(now) > 0))
             full == first /\ ~found /\ AllTerminal(srv.line)
  <2>1. reading.phase \in {"answered", "retried"} /\ now = srv.line /\ UNCHANGED faults
    BY <1>5 DEF ApplyStatuses, First, ReadNow, bounds
  <2>2. (found => line' = now) /\ (~found => line' = line)
    BY <1>5 DEF ApplyStatuses
  <2>3. reading'.phase = IF full THEN "retry" ELSE "none"
    BY <1>0, <1>5 DEF ApplyStatuses, NoReading, ReadRecord
  <2>4. AllTerminal(srv.line) => Processed(srv.line) > 0
    BY AllProcessed
  <2> HIDE DEF now
  <2>5. Shown' /\ ReadNow'
    BY <1>0, <2>1, <2>2, <2>3 DEF First, Shown, ReadNow
  <2>6. InFlight(line') => InFlight(line) /\ (first => ~AllTerminal(srv.line))
    <3>1. line \in LineMap /\ line' \in LineMap
      BY <1>0, <2>1, <2>2
    <3>2. CASE found
      <4>1. line' = srv.line
        BY <2>1, <2>2, <3>2
      <4>2. ASSUME AllTerminal(line)
            PROVE  AllTerminal(srv.line)
        BY <4>2 DEF AllTerminal, First, Shown
      <4>3. InFlight(line') => ~AllTerminal(srv.line)
        BY <1>0, <4>1
      <4> QED
        BY <1>0, <4>2, <4>3
    <3>3. CASE ~found
      <4>1. line' = line
        BY <2>2, <3>3
      <4>2. ASSUME InFlight(line), AllTerminal(srv.line), first
            PROVE  FALSE
        BY <2>1, <2>4, <3>3, <4>2
      <4> QED
        BY <4>1, <4>2
    <3> QED
      BY <3>2, <3>3
  <2>7. Watched'
    BY <1>0, <2>1, <2>3, <2>6 DEF First, Watched, AllIdle, Listens, Ends, Current, AllTerminal
  <2> QED
    BY <1>1, <1>2, <2>5, <2>7 DEF First
<1> QED
  BY <1>3, <1>4, <1>5 DEF ReadStep

\* The server queues the lines, or ends one: no line that has been shown changes.
LEMMA StrandServer ==
  ASSUME SessionInv, Basis, srv.gen = 1, First, ServerStep, reading.phase = "none"
  PROVE  First'
<1>01. UNCHANGED <<view, context, line, blocked, ctrl, task, reading, op, faults>>
  BY DEF ServerStep, Enqueue, Calculate, ui, table, bounds
<1>0. /\ UNCHANGED <<view, context, line, blocked, ctrl, task, reading, op, faults>>
      /\ srv \in SrvRecord /\ srv.line \in LineMap /\ (AllTerminal(srv.line) => ~AllBlank)
      /\ task \in [Listeners -> TaskRecord]
  BY <1>01, BasisFacts, TaskShapes
<1>02. Blank.status # "queued"
  BY DEF Blank
<1>1. \A l \in Lines : srv.line[l].status \in Terminal => srv'.line[l] = srv.line[l]
  <2>1. CASE Enqueue
    <3>1. AllBlank
      BY <2>1 DEF First, Unstarted, Enqueue
    <3>2. Blank.status \notin Terminal
      BY DEF Blank, Terminal
    <3> QED
      BY <3>1, <3>2 DEF AllBlank
  <2>2. ASSUME NEW k \in Lines, NEW verdict \in Verdicts, Calculate(k, verdict)
        PROVE  \A l \in Lines : srv.line[l].status \in Terminal => srv'.line[l] = srv.line[l]
    <3> DEFINE x == [status |-> verdict, price |-> IF verdict = "done" THEN srv.context ELSE None]
    <3>1. srv' = [srv EXCEPT !.line[k] = x] /\ srv.line[k].status = "queued"
      BY <2>2 DEF Calculate
    <3> HIDE DEF x
    <3>2. srv'.line = [srv.line EXCEPT ![k] = x]
      BY <1>0, <3>1 DEF SrvRecord
    <3> QED
      BY <1>0, <3>1, <3>2 DEF LineMap, Terminal
  <2> QED
    BY <2>1, <2>2 DEF ServerStep
<1>2. srv'.enqueue => srv.enqueue /\ srv'.line = srv.line
  <2>1. CASE Enqueue
    <3> DEFINE ls == [l \in Lines |-> IF srv.line[l].status = "done" THEN srv.line[l] ELSE Queued]
    <3>1. srv' = [srv EXCEPT !.enqueue = FALSE, !.line = ls]
      BY <2>1 DEF Enqueue
    <3> HIDE DEF ls
    <3>2. srv'.enqueue = FALSE
      BY <1>0, <3>1 DEF SrvRecord
    <3> QED
      BY <3>2
  <2>2. ASSUME NEW k \in Lines, NEW verdict \in Verdicts, Calculate(k, verdict)
        PROVE  srv'.enqueue => FALSE
    <3>1. srv.line[k].status = "queued" /\ ~AllBlank
      BY <1>02, <2>2 DEF Calculate, AllBlank
    <3>2. srv'.enqueue = srv.enqueue
      BY <1>0, <2>2 DEF Calculate, SrvRecord
    <3> QED
      BY <3>1, <3>2 DEF First, Unstarted
  <2> QED
    BY <2>1, <2>2 DEF ServerStep
<1>3. op["calculate"].phase \in {"queue", "send", "put", "saved", "start"} \/ view = "text" => FALSE
  <2>1. CASE Enqueue
    BY <2>1 DEF Enqueue, First, Untouched, Unstarted
  <2>2. ASSUME NEW k \in Lines, NEW verdict \in Verdicts, Calculate(k, verdict)
        PROVE  ~AllBlank
    BY <1>02, <2>2 DEF Calculate, AllBlank
  <2> QED
    BY <2>1, <2>2 DEF ServerStep, First, Untouched, Unstarted
<1>4. Untouched' /\ Unstarted' /\ Released'
  <2>1. Untouched'
    BY <1>0, <1>3 DEF Untouched
  <2>2. Unstarted'
    BY <1>0, <1>2, <1>3 DEF Unstarted, First, AllBlank
  <2>3. Released'
    BY <1>0 DEF Released, First, AllIdle
  <2> QED
    BY <2>1, <2>2, <2>3
<1>5. Shown'
  BY <1>0, <1>1 DEF First, Shown
<1>6. Answers'
  <2>1. AllTerminal(srv.line) => AllTerminal(srv'.line)
    BY <1>1 DEF AllTerminal
  <2>2. ASSUME NEW i \in Listeners, task[i].phase \in {"answer", "applying"}
        PROVE  TrueOf(task[i].batch)'
    <3> DEFINE b == task[i].batch
    <3>1. TrueOf(b) /\ task'[i].batch = b
      BY <1>0, <2>2 DEF First, Answers
    <3>2. \A k \in 1 .. Len(b.items) : b.items[k].id \in Lines
      <4>1. b.items \in Seq(Item)
        BY <1>0 DEF TaskRecord, BatchRecord
      <4> HIDE DEF b
      <4>2. \A k \in 1 .. Len(b.items) : b.items[k] \in Item
        BY <4>1
      <4> QED
        BY <4>2 DEF Item
    <3> HIDE DEF b
    <3>3. \A k \in 1 .. Len(b.items) : b.items[k].now = srv'.line[b.items[k].id] /\ b.items[k].now.status \in Terminal
      BY <1>1, <3>1, <3>2 DEF TrueOf
    <3>4. b.done => AllTerminal(srv'.line)
      BY <2>1, <3>1 DEF TrueOf
    <3>5. task'[i].batch = b /\ task'[i].batch.items = b.items
      BY <3>1
    <3> QED
      BY <3>3, <3>4, <3>5 DEF TrueOf, AllTerminal
  <2> QED
    BY <1>0, <2>2 DEF First, Answers
<1>7. ReadNow'
  BY <1>0 DEF ReadNow
<1>8. Watched'
  <2>1. AllTerminal(srv.line) => AllTerminal(srv'.line)
    BY <1>1 DEF AllTerminal
  <2>2. /\ InFlight(line)' = InFlight(line) /\ AllIdle' = AllIdle
        /\ \A i \in Listeners : Listens(i)' = Listens(i) /\ Ends(i)' = Ends(i)
    BY <1>0 DEF InFlight, AllIdle, Listens, Ends, Current
  <2>3. AllTerminal(srv.line)' = AllTerminal(srv'.line)
    BY DEF AllTerminal
  <2> QED
    BY <1>0, <2>1, <2>2, <2>3 DEF First, Watched
<1> QED
  BY <1>4, <1>5, <1>6, <1>7, <1>8 DEF First

\* A listener of the session that asks, or holds an answer, goes on or ends with a read of the lines.
LEMMA GoesOn ==
  ASSUME SessionInv, Basis, Answers, reading.phase = "none", view = "table", InFlight(line),
         NEW i \in Listeners, Current(i), ListenerStep(i)
  PROVE  \/ task[i].phase # "final" /\ task'[i].own /\ task'[i].phase \in {"check", "fetch", "answer", "applying"}
         \/ /\ task[i].phase \in {"answer", "applying"} /\ task'[i].own /\ task'[i].phase = "final"
            /\ reading'.phase = "sent" /\ AllTerminal(srv.line)
         \/ task[i].phase = "final" /\ reading'.phase = "sent"
<1>0. task \in [Listeners -> TaskRecord] /\ task[i] \in TaskRecord /\ task[i].own /\ ShouldWait
  BY TaskShapes DEF Current, ShouldWait
<1>1. \A caller : Reconcile(caller) => reading'.phase = "sent"
  <2>1. NoReading \in ReadRecord
    BY ConstantsTyped
  <2> QED
    BY <2>1 DEF Reconcile, ReadRecord
<1>2. ASSUME task' = [task EXCEPT ![i] = Looping]
      PROVE  task'[i].own /\ task'[i].phase = "check"
  BY <1>0, <1>2, TaskShapes
<1>3. ASSUME task' = [task EXCEPT ![i] = Finishing]
      PROVE  task'[i].own /\ task'[i].phase = "final"
  BY <1>0, <1>3, TaskShapes
<1>4. CASE Check(i)
  <2> DEFINE b == [NoBatch EXCEPT !.applied = ctrl.applied, !.gen = ctrl.gen]
             x == [[[task[i] EXCEPT !.phase = "fetch"] EXCEPT !.outdated = FALSE] EXCEPT !.batch = b]
  <2>1. task' = [task EXCEPT ![i].phase = "fetch", ![i].outdated = FALSE, ![i].batch = b] /\ task[i].phase = "check"
    BY <1>0, <1>4 DEF Check
  <2> HIDE DEF b
  <2>2. task' = [task EXCEPT ![i] = x]
    BY <1>0, <2>1
  <2>3. x.phase = "fetch" /\ x.own = task[i].own
    BY <1>0 DEF TaskRecord
  <2> HIDE DEF x
  <2> QED
    BY <1>0, <2>1, <2>2, <2>3
<1>5. CASE AnswerBatch(i)
  <2> DEFINE b == Batch(task[i].batch.applied, task[i].batch.gen)
             x == [[task[i] EXCEPT !.phase = "answer"] EXCEPT !.batch = b]
  <2>1. task' = [task EXCEPT ![i].phase = "answer", ![i].batch = b] /\ task[i].phase = "fetch"
    BY <1>5 DEF AnswerBatch
  <2> HIDE DEF b
  <2>2. task' = [task EXCEPT ![i] = x]
    BY <1>0, <2>1
  <2>3. x.phase = "answer" /\ x.own = task[i].own
    BY <1>0 DEF TaskRecord
  <2> HIDE DEF x
  <2> QED
    BY <1>0, <2>1, <2>2, <2>3
<1>6. ~FetchAborted(i)
  BY DEF FetchAborted
<1>7. CASE BatchFails(i)
  BY <1>2, <1>7 DEF BatchFails
<1>8. CASE RunAgain(i)
  BY <1>2, <1>8 DEF RunAgain
<1>9. CASE Deliver(i)
  <2> DEFINE x == [[task[i] EXCEPT !.phase = "applying"] EXCEPT !.outdated = FALSE]
  <2>1. task[i].phase = "answer" /\ TrueOf(task[i].batch)
    BY <1>9 DEF Deliver, Answers
  <2>2. \/ task' = [task EXCEPT ![i] = Looping]
        \/ task' = [task EXCEPT ![i] = Finishing] /\ task[i].batch.done /\ Reconcile(i)
        \/ task' = [task EXCEPT ![i] = x]
    <3>1. \/ task' = [task EXCEPT ![i] = Looping]
          \/ task' = [task EXCEPT ![i] = Finishing] /\ task[i].batch.done /\ Reconcile(i)
          \/ task' = [task EXCEPT ![i] = [@ EXCEPT !.phase = "applying", !.outdated = FALSE]]
      BY <1>9 DEF Deliver
    <3> QED
      BY <1>0, <3>1
  <2>3. x.phase = "applying" /\ x.own = task[i].own
    BY <1>0 DEF TaskRecord
  <2> HIDE DEF x
  <2>4. CASE task' = [task EXCEPT ![i] = Looping]
    BY <1>2, <2>1, <2>4
  <2>5. CASE task' = [task EXCEPT ![i] = Finishing] /\ task[i].batch.done /\ Reconcile(i)
    <3>1. AllTerminal(srv.line)
      BY <2>1, <2>5 DEF TrueOf
    <3> QED
      BY <1>1, <1>3, <2>1, <2>5, <3>1
  <2>6. CASE task' = [task EXCEPT ![i] = x]
    BY <1>0, <2>1, <2>3, <2>6
  <2> QED
    BY <2>2, <2>4, <2>5, <2>6
<1>10. CASE Applied(i)
  <2>1. task[i].phase = "applying" /\ TrueOf(task[i].batch) /\ task[i].batch.done
    BY <1>10 DEF Applied, Answers
  <2>2. AllTerminal(srv.line)
    BY <2>1 DEF TrueOf
  <2>3. task' = [task EXCEPT ![i] = Finishing] /\ Reconcile(i)
    BY <1>10 DEF Applied
  <2> QED
    BY <1>1, <1>3, <2>1, <2>2, <2>3
<1>11. CASE Finalize(i)
  <2>1. task[i].phase = "final" /\ Reconcile(None)
    BY <1>11 DEF Finalize, Leave
  <2> QED
    BY <1>1, <2>1
<1> QED
  BY <1>4, <1>5, <1>6, <1>7, <1>8, <1>9, <1>10, <1>11 DEF ListenerStep, ListenerTurn

\* What a listener holds after its step, and what it shows.
LEMMA ListenerAnswers ==
  ASSUME SessionInv, Answers, NEW i \in Listeners, ListenerStep(i)
  PROVE  /\ \A j \in Listeners \ {i} : task'[j] = task[j]
         /\ task'[i].phase \in {"answer", "applying"} => TrueOf(task'[i].batch)
         /\ task'[i].phase = "applying" => task'[i].batch.done
         /\ \A l \in Lines : line'[l] = line[l] \/ (line'[l] = srv.line[l] /\ srv.line[l].status \in Terminal)
<1>0. task \in [Listeners -> TaskRecord] /\ task[i] \in TaskRecord
  BY TaskShapes
<1>1. \A j \in Listeners \ {i} : task'[j] = task[j]
  <2>1. \E x : task' = [task EXCEPT ![i] = x]
    BY ListenerMoves
  <2> QED
    BY <1>0, <2>1
<1>2. ASSUME task'[i].phase \notin {"answer", "applying"}, UNCHANGED line
      PROVE  /\ task'[i].phase \in {"answer", "applying"} => TrueOf(task'[i].batch)
             /\ task'[i].phase = "applying" => task'[i].batch.done
             /\ \A l \in Lines : line'[l] = line[l] \/ (line'[l] = srv.line[l] /\ srv.line[l].status \in Terminal)
  BY <1>2
<1>3. ASSUME Leave(i)
      PROVE  task'[i].phase \notin {"answer", "applying"}
  <2> DEFINE later == [NoTask EXCEPT !.phase = "later", !.own = TRUE]
  <2>1. task' = [task EXCEPT ![i] = later] \/ task' = [task EXCEPT ![i] = NoTask]
    BY <1>3 DEF Leave, Returned
  <2>2. later.phase = "later" /\ NoTask.phase = "idle"
    BY ConstantsTyped DEF TaskRecord, NoTask
  <2> HIDE DEF later
  <2> QED
    BY <1>0, <2>1, <2>2
<1>4. ASSUME task' = [task EXCEPT ![i] = Looping] \/ task' = [task EXCEPT ![i] = Finishing] \/ task' = Returned(i)
      PROVE  task'[i].phase \notin {"answer", "applying"}
  BY <1>0, <1>4, TaskShapes DEF Returned
<1>5. CASE Check(i)
  <2>1. CASE Leave(i)
    BY <1>1, <1>2, <1>3, <1>5, <2>1 DEF Check, table
  <2>2. CASE ~Leave(i)
    <3> DEFINE b == [NoBatch EXCEPT !.applied = ctrl.applied, !.gen = ctrl.gen]
               x == [[[task[i] EXCEPT !.phase = "fetch"] EXCEPT !.outdated = FALSE] EXCEPT !.batch = b]
    <3>1. task' = [task EXCEPT ![i].phase = "fetch", ![i].outdated = FALSE, ![i].batch = b] /\ UNCHANGED line
      BY <1>5, <2>2 DEF Check, table
    <3> HIDE DEF b
    <3>2. task' = [task EXCEPT ![i] = x]
      BY <1>0, <3>1
    <3>3. x.phase = "fetch"
      BY <1>0 DEF TaskRecord
    <3> HIDE DEF x
    <3>4. task'[i].phase \notin {"answer", "applying"}
      BY <1>0, <3>2, <3>3
    <3> QED
      BY <1>1, <1>2, <3>1, <3>4
  <2> QED
    BY <2>1, <2>2
<1>6. CASE AnswerBatch(i)
  <2> DEFINE b == Batch(task[i].batch.applied, task[i].batch.gen)
             x == [[task[i] EXCEPT !.phase = "answer"] EXCEPT !.batch = b]
  <2>1. task' = [task EXCEPT ![i].phase = "answer", ![i].batch = b] /\ UNCHANGED <<line, srv>>
    BY <1>6 DEF AnswerBatch, table
  <2>2. TrueOf(b)
    BY TaskMoves, BatchAnswers, SessionFacts
  <2> HIDE DEF b
  <2>3. task' = [task EXCEPT ![i] = x]
    BY <1>0, <2>1
  <2>4. x.phase = "answer" /\ x.batch = b
    BY <1>0 DEF TaskRecord
  <2> HIDE DEF x
  <2>5. task'[i] = x
    BY <1>0, <2>3
  <2>6. TrueOf(task'[i].batch)
    BY <2>2, <2>4, <2>5
  <2> QED
    BY <1>1, <2>1, <2>4, <2>5, <2>6
<1>7. CASE FetchAborted(i)
  BY <1>1, <1>2, <1>3, <1>7 DEF FetchAborted, table
<1>8. CASE BatchFails(i)
  BY <1>1, <1>2, <1>4, <1>8 DEF BatchFails, table
<1>9. CASE Deliver(i)
  <2> DEFINE x == [[task[i] EXCEPT !.phase = "applying"] EXCEPT !.outdated = FALSE]
             b == task[i].batch
  <2>1. TrueOf(b) /\ b \in BatchRecord
    BY <1>0, <1>9 DEF Deliver, Answers, TaskRecord
  <2>2. \A l \in Lines : line'[l] = line[l] \/ (line'[l] = srv.line[l] /\ srv.line[l].status \in Terminal)
    <3>1. \A l \in Lines : WithItems(b)[l] = line[l]
                           \/ \E k \in 1 .. Len(b.items) : b.items[k].id = l /\ WithItems(b)[l] = b.items[k].now
      BY <2>1, ItemsApplied DEF SessionInv
    <3>2. line' = WithItems(b) \/ line' = line
      BY <1>9 DEF Deliver
    <3> HIDE DEF b
    <3> QED
      BY <2>1, <3>1, <3>2 DEF TrueOf
  <2>3. \/ task' = [task EXCEPT ![i] = Looping] \/ task' = [task EXCEPT ![i] = Finishing]
        \/ task' = [task EXCEPT ![i] = x] /\ b.done
    <3>1. \/ task' = [task EXCEPT ![i] = Looping] \/ task' = [task EXCEPT ![i] = Finishing]
          \/ task' = [task EXCEPT ![i] = [@ EXCEPT !.phase = "applying", !.outdated = FALSE]] /\ b.done
      BY <1>9 DEF Deliver
    <3> QED
      BY <1>0, <3>1
  <2>4. x.phase = "applying" /\ x.batch = b
    BY <1>0 DEF TaskRecord
  <2> HIDE DEF x, b
  <2>5. CASE task' = [task EXCEPT ![i] = x] /\ b.done
    <3>1. task'[i] = x
      BY <1>0, <2>5
    <3>2. task'[i].batch = b
      BY <2>4, <3>1
    <3> QED
      BY <1>1, <2>1, <2>2, <2>5, <3>2
  <2>6. CASE task' = [task EXCEPT ![i] = Looping] \/ task' = [task EXCEPT ![i] = Finishing]
    BY <1>1, <1>4, <2>2, <2>6
  <2> QED
    BY <2>3, <2>5, <2>6
<1>10. CASE Applied(i)
  BY <1>1, <1>2, <1>4, <1>10 DEF Applied
<1>11. CASE Finalize(i)
  BY <1>1, <1>2, <1>3, <1>11 DEF Finalize
<1>12. CASE RunAgain(i)
  BY <1>1, <1>2, <1>4, <1>12 DEF RunAgain, table
<1> QED
  BY <1>5, <1>6, <1>7, <1>8, <1>9, <1>10, <1>11, <1>12 DEF ListenerStep, ListenerTurn

LEMMA StrandListener ==
  ASSUME SessionInv, Basis, First, reading.phase = "none", NEW i \in Listeners, ListenerStep(i)
  PROVE  First'
<1>0. /\ UNCHANGED <<srv, context, view, blocked>> /\ \A o \in Ops : op'[o].phase = op[o].phase
      /\ ctrl'.stopped = ctrl.stopped /\ "calculate" \in Ops
  BY ListenersLeaveOps DEF Ops
<1>1. /\ \A j \in Listeners \ {i} : task'[j] = task[j]
      /\ task'[i].phase \in {"answer", "applying"} => TrueOf(task'[i].batch)
      /\ task'[i].phase = "applying" => task'[i].batch.done
      /\ \A l \in Lines : line'[l] = line[l] \/ (line'[l] = srv.line[l] /\ srv.line[l].status \in Terminal)
  BY ListenerAnswers DEF First
<1>2. reading'.phase \in {"none", "sent"}
  <2>1. reading' = reading \/ \E caller : Reconcile(caller)
    BY DEF ListenerStep, ListenerTurn, Check, AnswerBatch, FetchAborted, BatchFails, Deliver, Applied, Finalize, RunAgain, Leave
  <2>2. NoReading \in ReadRecord
    BY ConstantsTyped
  <2> QED
    BY <2>1, <2>2 DEF Reconcile, ReadRecord
<1>3. AllIdle' = AllIdle /\ AllBlank' = AllBlank
  BY <1>0 DEF AllIdle, AllBlank
<1>4. Untouched' /\ Unstarted' /\ Released'
  BY <1>0, <1>3 DEF First, Untouched, Unstarted, Released
<1>5. Shown' /\ ReadNow'
  BY <1>0, <1>1, <1>2 DEF First, Shown, ReadNow
<1>6. Answers'
  <2>1. ASSUME NEW j \in Listeners, task'[j].phase \in {"answer", "applying"}
        PROVE  TrueOf(task'[j].batch)
    BY <1>1, <2>1 DEF First, Answers
  <2>2. ASSUME NEW j \in Listeners, task'[j].phase = "applying"
        PROVE  task'[j].batch.done
    BY <1>1, <2>2 DEF First, Answers
  <2>3. ASSUME NEW j \in Listeners, TrueOf(task'[j].batch)
        PROVE  TrueOf(task[j].batch)'
    BY <1>0, <2>3 DEF TrueOf, AllTerminal
  <2> QED
    BY <2>1, <2>2, <2>3 DEF Answers
<1>7. Watched'
  <2> SUFFICES ASSUME view = "table", InFlight(line'), AllIdle, faults' <= 1
               PROVE  \/ \E j \in Listeners : Listens(j)'
                      \/ /\ AllTerminal(srv.line)
                         /\ \/ reading'.phase = "sent" /\ (faults' = 1 \/ \E j \in Listeners : Ends(j)')
                            \/ reading'.phase = "none" /\ faults' = 1 /\ \E j \in Listeners : Ends(j)'
    BY <1>0, <1>3 DEF Watched, InFlight, AllTerminal
  <2>1. InFlight(line)
    <3>1. line \in LineMap /\ (~InFlight(line) <=> AllTerminal(line))
      BY BasisFacts
    <3>2. ASSUME AllTerminal(line)
          PROVE  FALSE
      <4>1. \A l \in Lines : line'[l].status \in Terminal
        BY <1>1, <3>2 DEF AllTerminal
      <4> QED
        BY <4>1 DEF InFlight, Terminal
    <3> QED
      BY <3>1, <3>2
  <2>2. faults \in Nat /\ (faults' = faults \/ faults' = faults + 1)
    BY DEF SessionInv, ListenerStep, ListenerTurn, Check, AnswerBatch, FetchAborted, BatchFails, Deliver, Applied, Finalize,
           RunAgain, Fault, bounds
  <2>3. faults <= 1 /\ (faults = 1 => faults' = 1)
    BY <2>2
  <2>4. (\E j \in Listeners : Listens(j)) \/ (AllTerminal(srv.line) /\ faults = 1 /\ \E j \in Listeners : Ends(j))
    BY <2>1, <2>3 DEF First, Watched
  <2>5. ASSUME NEW j \in Listeners, j # i
        PROVE  (Listens(j) => Listens(j)') /\ (Ends(j) => Ends(j)')
    BY <1>0, <1>1, <2>5 DEF Listens, Ends, Current
  <2>6. CASE Listens(i) \/ Ends(i)
    <3>1. Current(i) /\ task[i].phase \in {"check", "fetch", "answer", "applying", "later", "final"} /\ ~ctrl'.stopped
      BY <1>0, <2>6 DEF Listens, Ends, Current
    <3>2. \/ task[i].phase # "final" /\ task'[i].own /\ task'[i].phase \in {"check", "fetch", "answer", "applying"}
          \/ /\ task[i].phase \in {"answer", "applying"} /\ task'[i].own /\ task'[i].phase = "final"
             /\ reading'.phase = "sent" /\ AllTerminal(srv.line)
          \/ task[i].phase = "final" /\ reading'.phase = "sent"
      BY <2>1, <3>1, GoesOn DEF First
    <3>3. CASE task[i].phase # "final"
      BY <3>1, <3>2, <3>3 DEF Listens, Ends, Current
    <3>4. CASE task[i].phase = "final"
      <4>1. CASE \E j \in Listeners : Listens(j)
        <5>1. PICK j \in Listeners : Listens(j)
          BY <4>1
        <5>2. j # i
          BY <3>4, <5>1 DEF Listens
        <5> QED
          BY <2>5, <5>1, <5>2
      <4>2. CASE AllTerminal(srv.line) /\ faults = 1
        BY <2>3, <3>2, <3>4, <4>2
      <4> QED
        BY <2>4, <4>1, <4>2
    <3> QED
      BY <3>3, <3>4
  <2>7. CASE ~(Listens(i) \/ Ends(i))
    BY <1>2, <2>3, <2>4, <2>5, <2>7
  <2> QED
    BY <2>6, <2>7
<1> QED
  BY <1>4, <1>5, <1>6, <1>7 DEF First

\* Aborts and starts of listeners leave the answers that are held as they are.
LEMMA AnswersKept ==
  ASSUME SessionInv
  PROVE  /\ UNCHANGED task \/ task' = Disowned(task) \/ (\E should : StartListener(ctrl, task, should)) \/ task' = Outdated
            => \A i \in Listeners : task'[i].phase \in {"answer", "applying"} =>
                 task'[i].phase = task[i].phase /\ task'[i].batch = task[i].batch
         /\ \A should : StartListener(ctrl, task, should) /\ should => \E i \in Listeners : Listens(i)'
<1>0. task \in [Listeners -> TaskRecord] /\ ctrl \in CtrlRecord
  BY TaskShapes, SessionFacts
<1>1. ASSUME NEW i \in Listeners
      PROVE  Disowned(task)[i].batch = task[i].batch /\ Outdated[i].batch = task[i].batch
  <2> DEFINE e == task[i].outdated \/ task[i].phase \in {"fetch", "answer"}
  <2>1. task[i] \in TaskRecord /\ Disowned(task)[i] = [task[i] EXCEPT !.own = FALSE]
    BY <1>0 DEF Disowned
  <2>2. Outdated[i] = [task[i] EXCEPT !.outdated = e]
    BY DEF Outdated
  <2> HIDE DEF e
  <2> QED
    BY <2>1, <2>2 DEF TaskRecord
<1>2. ASSUME UNCHANGED task \/ task' = Disowned(task) \/ task' = Outdated
      PROVE  \A i \in Listeners : task'[i].phase \in {"answer", "applying"} =>
               task'[i].phase = task[i].phase /\ task'[i].batch = task[i].batch
  BY <1>1, <1>2, TaskShapes
<1>3. ASSUME NEW should, StartListener(ctrl, task, should)
      PROVE  /\ \A i \in Listeners : task'[i].phase \in {"answer", "applying"} =>
                  task'[i].phase = task[i].phase /\ task'[i].batch = task[i].batch
             /\ should => \E i \in Listeners : Listens(i)'
  <2>1. CASE task' = task /\ ~should
    BY <2>1
  <2>2. ASSUME NEW k \in Listeners, task' = [Disowned(task) EXCEPT ![k] = Looping],
               ctrl' = [Aborted(ctrl) EXCEPT !.stopped = FALSE, !.promise = k]
        PROVE  /\ \A i \in Listeners : task'[i].phase \in {"answer", "applying"} =>
                    task'[i].phase = task[i].phase /\ task'[i].batch = task[i].batch
               /\ \E i \in Listeners : Listens(i)'
    <3>1. \A i \in Listeners : task'[i] = IF i = k THEN Looping ELSE Disowned(task)[i]
      BY <2>2 DEF Disowned
    <3>2. ctrl'.stopped = FALSE
      BY <1>0, <2>2 DEF Aborted, CtrlRecord
    <3>3. Listens(k)'
      BY <3>1, <3>2, TaskShapes DEF Listens, Current
    <3>4. \A i \in Listeners : task'[i].phase \in {"answer", "applying"} =>
            task'[i].phase = task[i].phase /\ task'[i].batch = task[i].batch
      <4>1. Looping.phase \notin {"answer", "applying"}
        BY TaskShapes
      <4>2. ASSUME NEW i \in Listeners, i # k
            PROVE  task'[i].phase = task[i].phase /\ task'[i].batch = task[i].batch
        <5>1. Disowned(task)[i].phase = task[i].phase /\ Disowned(task)[i].batch = task[i].batch
          BY <1>1, TaskShapes
        <5>2. task'[i] = Disowned(task)[i]
          BY <3>1, <4>2
        <5> QED
          BY <5>1, <5>2
      <4> QED
        BY <3>1, <4>1, <4>2
    <3> QED
      BY <3>3, <3>4
  <2> QED
    BY <1>3, <2>1, <2>2, StartedAlone
<1> QED
  BY <1>2, <1>3

\* A step that leaves the lines alone, here and on the server.
LEMMA DataRests ==
  ASSUME SessionInv, First, reading'.phase \in {"none", "sent"}, UNCHANGED line, srv'.line = srv.line,
         \A i \in Listeners : task'[i].phase \in {"answer", "applying"} =>
           task'[i].phase = task[i].phase /\ task'[i].batch = task[i].batch
  PROVE  Shown' /\ Answers' /\ ReadNow'
<1>1. Shown' /\ ReadNow'
  BY DEF First, Shown, ReadNow
<1>2. ASSUME NEW i \in Listeners, task'[i].phase \in {"answer", "applying"}
      PROVE  TrueOf(task[i].batch)' /\ (task'[i].phase = "applying" => task'[i].batch.done)
  <2>1. TrueOf(task[i].batch) /\ task'[i].batch = task[i].batch /\ (task'[i].phase = "applying" => task[i].batch.done)
    BY <1>2 DEF First, Answers
  <2> QED
    BY <2>1 DEF TrueOf, AllTerminal
<1> QED
  BY <1>1, <1>2 DEF Answers

LEMMA ReadingSent ==
  ASSUME reading.phase = "none", UNCHANGED reading \/ \E caller : Reconcile(caller)
  PROVE  reading'.phase \in {"none", "sent"}
<1>1. NoReading \in ReadRecord
  BY ConstantsTyped
<1> QED
  BY <1>1 DEF Reconcile, ReadRecord

LEMMA StrandPersist ==
  ASSUME SessionInv, Basis, srv.gen = 1, First, reading.phase = "none", NEW o \in Ops,
         BeginPersist(o) \/ SendPut(o) \/ HandlePut(o) \/ PutDone(o) \/ HandleStart(o)
  PROVE  First'
<1>0. /\ Ops = {"calculate", "restart", "save", "text"} /\ context = 0 /\ op[o].context = 0
      /\ srv \in SrvRecord /\ srv.context = 0 /\ srv.at = 0
  BY BasisFacts DEF Ops, Basis
<1>1. o \in {"calculate", "save"} /\ (HandleStart(o) => o = "calculate")
  BY <1>0 DEF BeginPersist, SendPut, HandlePut, PutDone, HandleStart, Basis, NoRestart
<1>2. UNCHANGED <<line, view, context, faults>>
  BY DEF BeginPersist, SendPut, HandlePut, PutDone, HandleStart, ui, table, bounds
<1>3. PICK phase \in {"idle", "send", "put", "saved", "start", "started"} :
           /\ \A x \in Ops : op'[x].phase = IF x = o THEN phase ELSE op[x].phase
           /\ BeginPersist(o) => phase = "send"
           /\ SendPut(o) => phase = "put"
           /\ HandlePut(o) => phase = "saved"
           /\ PutDone(o) => phase = (IF o = "save" THEN "idle" ELSE "start")
           /\ HandleStart(o) => phase = "started"
  BY PersistPhases
<1>4. srv'.line = srv.line /\ (~HandleStart(o) => srv' = srv)
  <2>1. CASE HandlePut(o)
    BY <1>0, <2>1 DEF HandlePut, Saved
  <2>2. CASE HandleStart(o)
    <3>1. srv' = [srv EXCEPT !.enqueue = TRUE, !.at = srv.context]
      BY <1>0, <1>1, <2>2 DEF HandleStart, Started
    <3> QED
      BY <1>0, <2>2, <3>1 DEF SrvRecord, HandleStart, HandlePut
  <2>3. CASE BeginPersist(o) \/ SendPut(o) \/ PutDone(o)
    BY <2>3 DEF BeginPersist, SendPut, PutDone
  <2> QED
    BY <2>1, <2>2, <2>3
<1>5. HandleStart(o) => op["calculate"].phase = "start" /\ ~PutDone(o)
  BY <1>1 DEF HandleStart, PutDone
<1>6. Shown' /\ Answers' /\ ReadNow'
  <2>1. reading'.phase \in {"none", "sent"}
    <3>1. UNCHANGED reading \/ \E caller : Reconcile(caller)
      BY DEF BeginPersist, SendPut, HandlePut, PutDone, HandleStart
    <3> QED
      BY <3>1, ReadingSent
  <2>2. UNCHANGED task \/ task' = Disowned(task) \/ (\E should : StartListener(ctrl, task, should))
    BY DEF BeginPersist, SendPut, HandlePut, PutDone, HandleStart, Abort
  <2> QED
    BY <1>2, <1>4, <2>1, <2>2, AnswersKept, DataRests
<1>7. AllBlank' = AllBlank
  BY <1>4 DEF AllBlank
<1>8. (PutDone(o) /\ o = "save") \/ ~AllIdle'
  BY <1>3 DEF AllIdle
<1>9. Untouched'
  <2>1. CASE view = "text"
    <3>1. op["calculate"].phase = "idle" /\ AllBlank /\ ~srv.enqueue /\ ~blocked
      BY <2>1 DEF First, Untouched
    <3>2. o = "save"
      BY <1>1, <3>1 DEF BeginPersist, SendPut, HandlePut, PutDone, HandleStart
    <3>3. ~blocked'
      BY <2>1, <3>1 DEF BeginPersist, SendPut, HandlePut, PutDone, HandleStart, table
    <3> QED
      BY <1>0, <1>1, <1>3, <1>4, <1>7, <3>1, <3>2, <3>3 DEF Untouched
  <2>2. CASE view # "text"
    BY <1>2, <2>2 DEF Untouched
  <2> QED
    BY <2>1, <2>2
<1>10. Unstarted'
  <2>1. CASE HandleStart(o)
    <3>1. op'["calculate"].phase = "started" /\ AllBlank
      BY <1>0, <1>1, <1>3, <1>5, <2>1 DEF First, Unstarted
    <3> QED
      BY <1>7, <3>1 DEF Unstarted
  <2>2. CASE ~HandleStart(o)
    <3>1. op'["calculate"].phase \in {"queue", "send", "put", "saved", "start"}
            => op["calculate"].phase \in {"queue", "send", "put", "saved", "start"}
      BY <1>0, <1>3, <2>2 DEF BeginPersist, SendPut, HandlePut, PutDone
    <3> QED
      BY <1>4, <1>7, <2>2, <3>1 DEF First, Unstarted
  <2> QED
    BY <2>1, <2>2
<1>11. Released'
  <2>1. CASE PutDone(o)
    <3>1. ~blocked'
      BY <2>1 DEF PutDone, First, Untouched
    <3> QED
      BY <3>1 DEF Released
  <2>2. CASE ~PutDone(o)
    BY <1>8, <2>2 DEF Released
  <2> QED
    BY <2>1, <2>2
<1>12. Watched'
  <2>1. CASE PutDone(o) /\ view = "table" /\ InFlight(line)
    <3>1. StartListener(ctrl, task, ShouldWait) /\ ShouldWait
      BY <2>1 DEF PutDone, ShouldWait
    <3> QED
      BY <3>1, AnswersKept DEF Watched
  <2>2. CASE ~(PutDone(o) /\ view = "table" /\ InFlight(line))
    <3>1. InFlight(line)' = InFlight(line)
      BY <1>2 DEF InFlight
    <3> QED
      BY <1>2, <1>8, <2>2, <3>1 DEF Watched
  <2> QED
    BY <2>1, <2>2
<1> QED
  BY <1>6, <1>9, <1>10, <1>11, <1>12 DEF First

LEMMA StrandOp ==
  ASSUME SessionInv, Basis, srv.gen = 1, srv'.gen = 1, First, reading.phase = "none", OpStep
  PROVE  First'
<1>0. Ops = {"calculate", "restart", "save", "text"} /\ "idle" \in OpPhases
  BY DEF Ops, OpPhases
<1>1. ~(ResetForRestart \/ RestartStarted \/ RestartFails \/ AfterFailure \/ EndRestart \/ TimerFires)
  BY DEF ResetForRestart, RestartStarted, RestartFails, AfterFailure, EndRestart, TimerFires, Basis, NoRestart
<1>2. ~CancelCalculation
  <2>1. Cancelled.gen = srv.gen + 1
    BY ServerAnswers
  <2>2. Cancelled.gen # 1
    BY <2>1
  <2> QED
    BY <2>2 DEF CancelCalculation
<1>3. ~ShowText
  BY DEF ShowText, Basis
<1>4. CASE CalculationStarted \/ CalculationFails
  <2>1. /\ UNCHANGED <<line, view, srv, reading>> /\ blocked' = FALSE
        /\ op["calculate"].phase \in {"put", "start", "started"}
        /\ \A x \in Ops : op'[x].phase = IF x = "calculate" THEN "idle" ELSE op[x].phase
    <3>1. op' = Goes("calculate", "idle")
      BY <1>4 DEF CalculationStarted, CalculationFails
    <3>2. \A x \in Ops : op'[x].phase = IF x = "calculate" THEN "idle" ELSE op[x].phase
      BY <1>0, <3>1, OpPhaseMoves
    <3>3. UNCHANGED <<line, view, srv, reading>> /\ blocked' = FALSE /\ op["calculate"].phase \in {"put", "start", "started"}
      BY <1>4 DEF CalculationStarted, CalculationFails, ui, table
    <3> QED
      BY <3>2, <3>3
  <2>2. Shown' /\ Answers' /\ ReadNow'
    <3>1. \E should : StartListener(ctrl, task, should)
      BY <1>4 DEF CalculationStarted, CalculationFails
    <3> QED
      BY <2>1, <3>1, AnswersKept, DataRests
  <2>3. view # "text"
    BY <2>1 DEF First, Untouched
  <2>4. Untouched' /\ Unstarted' /\ Released'
    BY <1>0, <2>1, <2>3 DEF First, Untouched, Unstarted, Released, AllBlank
  <2>5. Watched'
    <3> SUFFICES ASSUME view = "table", InFlight(line), AllIdle'
                 PROVE  \E i \in Listeners : Listens(i)'
      BY <2>1 DEF Watched, InFlight
    <3>1. CASE CalculationStarted
      <4>1. ~Persisting /\ ShouldWait
        BY <1>0, <2>1, <3>1 DEF Persisting, AllIdle, ShouldWait, CalculationStarted
      <4> QED
        BY <3>1, <4>1, AnswersKept DEF CalculationStarted
    <3>2. CASE CalculationFails
      BY <3>2, AnswersKept DEF CalculationFails
    <3> QED
      BY <1>4, <3>1, <3>2
  <2> QED
    BY <2>2, <2>4, <2>5 DEF First
<1> QED
  BY <1>1, <1>2, <1>3, <1>4, StrandPersist DEF OpStep, OpTurn

LEMMA StrandUser ==
  ASSUME SessionInv, Basis, srv.gen = 1, First, reading.phase = "none", UserStep,
         Gestures \cap {"context", "recalculate"} = {}
  PROVE  First'
<1>0. Ops = {"calculate", "restart", "save", "text"} /\ {"queue", "cancel"} \subseteq OpPhases /\ UNCHANGED <<srv, faults>>
  BY DEF Ops, OpPhases, UserStep, ToTable, ChangeContext, Recalculate, Save, Render, GoAway, ComeBack, ToText, bounds
<1>1. ~(ChangeContext \/ Recalculate)
  BY DEF ChangeContext, Recalculate, Gesture
<1>2. AllBlank' = AllBlank /\ AllTerminal(srv.line)' = AllTerminal(srv.line)
  BY <1>0 DEF AllBlank, AllTerminal
<1>3. CASE ToTable
  <2>1. op["calculate"].phase = "idle" /\ AllBlank /\ ~srv.enqueue /\ ~blocked
    BY <1>3 DEF ToTable, First, Untouched
  <2>2. \A l \in Lines : srv.line[l].status = ""
    <3>1. Blank.status = ""
      BY DEF Blank
    <3> QED
      BY <2>1, <3>1 DEF AllBlank
  <2>3. 1 \in Lines
    BY BasisFacts
  <2>4. /\ view' = "table" /\ task' = Outdated /\ UNCHANGED reading /\ op' = Goes("calculate", "queue")
        /\ line' = [l \in Lines |-> Queued]
    <3>1. ~(\A l \in Lines : srv.line[l].status = "done")
      BY <2>2, <2>3
    <3>2. line' = [l \in Lines |-> IF srv.line[l].status = "done" THEN srv.line[l] ELSE Queued]
      BY <1>3 DEF ToTable
    <3>3. line' = [l \in Lines |-> Queued]
      BY <2>2, <3>2
    <3> QED
      BY <1>3, <3>1, <3>3 DEF ToTable
  <2>5. op'["calculate"].phase = "queue"
    BY <1>0, <2>4, OpPhaseMoves
  <2>6. Untouched' /\ Unstarted'
    BY <1>0, <1>2, <2>1, <2>4 DEF Untouched, Unstarted
  <2>7. Released' /\ Watched'
    BY <1>0, <2>5 DEF Released, Watched, AllIdle
  <2>8. Shown'
    BY <2>4 DEF Shown, Queued, Terminal
  <2>9. ReadNow'
    BY <2>4 DEF ReadNow
  <2>10. Answers'
    <3>1. ASSUME NEW i \in Listeners, task'[i].phase \in {"answer", "applying"}
          PROVE  TrueOf(task[i].batch)' /\ (task'[i].phase = "applying" => task'[i].batch.done)
      <4>1. task'[i].phase = task[i].phase /\ task'[i].batch = task[i].batch
        BY <2>4, <3>1, AnswersKept
      <4>2. TrueOf(task[i].batch) /\ (task[i].phase = "applying" => task[i].batch.done)
        BY <3>1, <4>1 DEF First, Answers
      <4> QED
        BY <1>0, <4>1, <4>2 DEF TrueOf, AllTerminal
    <3> QED
      BY <3>1 DEF Answers
  <2> QED
    BY <2>6, <2>7, <2>8, <2>9, <2>10 DEF First
<1>4. ASSUME UNCHANGED <<line, blocked>>, view # "text" \/ view' = view, view' # "text" \/ view' = view,
             UNCHANGED op \/ (~AllIdle' /\ op'["calculate"].phase = op["calculate"].phase),
             UNCHANGED reading \/ \E caller : Reconcile(caller),
             UNCHANGED task \/ task' = Disowned(task) \/ (\E should : StartListener(ctrl, task, should)),
             Watched'
      PROVE  First'
  <2>1. Shown' /\ Answers' /\ ReadNow'
    <3>1. reading'.phase \in {"none", "sent"}
      BY <1>4, ReadingSent
    <3> QED
      BY <1>0, <1>4, <3>1, AnswersKept, DataRests
  <2>2. Untouched' /\ Unstarted' /\ Released'
    BY <1>0, <1>2, <1>4 DEF First, Untouched, Unstarted, Released, AllIdle
  <2> QED
    BY <1>4, <2>1, <2>2 DEF First
<1>5. CASE Save \/ ToText
  <2>1. ~AllIdle' /\ op'["calculate"].phase = op["calculate"].phase
    BY <1>0, <1>5, OpPhaseMoves DEF Save, ToText, AllIdle
  <2>2. Watched'
    BY <2>1 DEF Watched
  <2> QED
    BY <1>4, <1>5, <2>1, <2>2 DEF Save, ToText, Abort, ui, table
<1>6. CASE GoAway
  <2>1. Watched'
    BY <1>6 DEF GoAway, Watched
  <2> QED
    BY <1>4, <1>6, <2>1 DEF GoAway, table
<1>7. CASE Render \/ ComeBack
  <2>1. Synchronize /\ UNCHANGED <<line, blocked, op>> /\ view # "text" /\ view' = "table"
    BY <1>7 DEF Render, ComeBack, ui, table
  <2>2. CASE Persisting \/ blocked
    <3>1. ~AllIdle'
      BY <2>1, <2>2 DEF Persisting, AllIdle, First, Released
    <3>2. Watched'
      BY <3>1 DEF Watched
    <3> QED
      BY <1>4, <2>1, <2>2, <3>2 DEF Synchronize
  <2>3. CASE ~(Persisting \/ blocked)
    <3>1. StartListener(ctrl, task, ShouldWait) /\ (UNCHANGED reading \/ \E caller : Reconcile(caller))
      BY <2>1, <2>3 DEF Synchronize
    <3>2. InFlight(line)' => ShouldWait
      BY <2>1 DEF ShouldWait, InFlight
    <3>3. Watched'
      BY <3>1, <3>2, AnswersKept DEF Watched
    <3> QED
      BY <1>4, <2>1, <3>1, <3>3
  <2> QED
    BY <2>2, <2>3
<1> QED
  BY <1>1, <1>3, <1>5, <1>6, <1>7 DEF UserStep

LEMMA StrandStep ==
  ASSUME SessionInv, StrandInv, [Next]_vars, PromptStatus, Gestures \cap {"context", "recalculate"} = {}
  PROVE  StrandInv'
<1>1. Basis'
  BY BasisStep DEF StrandInv
<1>2. ASSUME srv'.gen = 1
      PROVE  First'
  <2>1. srv.gen = 1
    <3>1. srv.gen <= srv'.gen /\ srv.gen \in Nat /\ srv.gen >= 1
      BY GenGrows, SessionFacts DEF StrandInv, Basis
    <3> QED
      BY <1>2, <3>1
  <2>2. First /\ Basis
    BY <2>1 DEF StrandInv
  <2>3. CASE ReadStep
    BY <2>1, <2>2, <2>3, StrandRead
  <2>4. ASSUME ServerStep, reading.phase = "none"
        PROVE  First'
    BY <2>1, <2>2, <2>4, StrandServer
  <2>5. ASSUME OpStep, reading.phase = "none"
        PROVE  First'
    BY <1>2, <2>1, <2>2, <2>5, StrandOp
  <2>6. ASSUME UserStep, reading.phase = "none"
        PROVE  First'
    BY <2>1, <2>2, <2>6, StrandUser
  <2>7. ASSUME NEW i \in Listeners, ListenerStep(i), reading.phase = "none"
        PROVE  First'
    BY <2>2, <2>7, StrandListener
  <2>8. CASE UNCHANGED vars
    BY <2>2, <2>8 DEF First, Untouched, Unstarted, Shown, Answers, ReadNow, Released, Watched, vars, ui, table, bounds,
                      AllBlank, AllIdle, Listens, Ends, Current, InFlight, AllTerminal, TrueOf
  <2> QED
    BY <2>3, <2>4, <2>5, <2>6, <2>7, <2>8, StepsAre
<1> QED
  BY <1>1, <1>2 DEF StrandInv

\* While the user restarts nothing and every status read is answered before anything else happens:
\* in the first calculation, whichever single request fails, be it a batch, a read of the
\* statuses, the save or the start, and whatever the user saves or opens meanwhile, no line is
\* left in flight in the table once all is quiet and nobody listens.
THEOREM NothingIsStranded ==
  ASSUME PromptStatus, Gestures \cap {"context", "recalculate"} = {}
  PROVE  Spec => []NotStranded
<1>1. Init => StrandInv
  BY StrandInit
<1>2. SessionInv /\ StrandInv /\ [Next]_vars => StrandInv'
  BY StrandStep
<1>3. StrandInv => NotStranded
  BY DEF StrandInv, First, Watched, NotStranded, Quiet, NobodyListens, Alive, AllIdle, Listens, Ends
<1> QED
  BY <1>1, <1>2, <1>3, SessionInvHolds, PTL DEF Spec

-----------------------------------------------------------------------------
(* The prices shown are of the context chosen.  A price of an older one    *)
(* comes from the server, with a batch or a read; while there is such a    *)
(* price in the table or in a batch that may still be applied, a restart   *)
(* is owed or has not yet had its last read.                               *)

Working == op["restart"].phase \in {"abort", "queue", "send", "put", "saved", "start", "started"}
Sending == op["restart"].phase \in {"send", "put", "saved"}
Hearing(i) == task[i].own /\ task[i].phase \in {"fetch", "answer"}
Awaiting(i) == task[i].phase \in {"applying", "final"}

\* From its abort until it runs a listener of its own a restart leaves one task its session;
\* while it saves, that task has something to wait for, so that the end of the save replaces it.
HearInv ==
  /\ Working => Owned
  /\ \A i \in Listeners : Awaiting(i) => task[i].own /\ op["restart"].phase # "status"
  /\ Sending => \A i \in Listeners : Hearing(i) => ShouldWait /\ reading.phase = "none"

\* A step after which nobody asks for batches, holds one or applies one.
LEMMA HearNobody ==
  ASSUME Owned', \A i \in Listeners : ~Hearing(i)' /\ ~Awaiting(i)'
  PROVE  HearInv'
BY DEF HearInv

\* A step that leaves the tasks in their phases.
LEMMA HearRests ==
  ASSUME HearInv, \A i \in Listeners : task'[i].own = task[i].own /\ task'[i].phase = task[i].phase,
         \/ op'["restart"].phase = op["restart"].phase
         \/ Working' /\ Working /\ (Sending' => Sending)
         \/ op'["restart"].phase = "idle",
         Sending' => UNCHANGED <<line, awaiting, reading>>
  PROVE  HearInv'
<1>1. Working' => Owned'
  BY DEF HearInv, Owned, Working
<1>2. \A i \in Listeners : Awaiting(i)' => task'[i].own /\ op'["restart"].phase # "status"
  BY DEF HearInv, Awaiting, Working
<1>3. ASSUME Sending', NEW i \in Listeners, Hearing(i)'
      PROVE  ShouldWait' /\ reading'.phase = "none"
  <2>1. Sending /\ Hearing(i)
    BY <1>3 DEF Hearing, Sending, Working
  <2>2. ShouldWait /\ reading.phase = "none"
    BY <2>1 DEF HearInv
  <2>3. line' = line /\ awaiting' = awaiting /\ reading' = reading
    BY <1>3
  <2> QED
    BY <2>2, <2>3 DEF ShouldWait, InFlight
<1> QED
  BY <1>1, <1>2, <1>3 DEF HearInv

\* Aborts and starts of listeners, when nobody awaits a read.
LEMMA HearStarts ==
  ASSUME SessionInv, \A i \in Listeners : ~Awaiting(i)
  PROVE  /\ task' = Disowned(task) => HearInv'
         /\ \A should : StartListener(ctrl, task, should) => IF should THEN HearInv' ELSE task' = task
<1>0. /\ \A i \in Listeners : ~Disowned(task)[i].own /\ Disowned(task)[i].phase = task[i].phase
      /\ Looping.phase = "check"
  BY TaskShapes
<1>1. ASSUME task' = Disowned(task)
      PROVE  HearInv'
  <2>1. \A i \in Listeners : ~task'[i].own /\ task'[i].phase = task[i].phase
    BY <1>0, <1>1
  <2> QED
    BY <2>1, HearNobody DEF Owned, Hearing, Awaiting
<1>2. ASSUME NEW should, StartListener(ctrl, task, should), should
      PROVE  HearInv'
  <2>1. PICK i \in Listeners : task' = [Disowned(task) EXCEPT ![i] = Looping]
    BY <1>2, StartedAlone
  <2>2. \A j \in Listeners : task'[j] = IF j = i THEN Looping ELSE Disowned(task)[j]
    BY <2>1 DEF Disowned
  <2>3. \A j \in Listeners : /\ task'[j].own => j = i /\ task'[j].phase = "check"
                             /\ j # i => task'[j].phase = task[j].phase
                             /\ j = i => task'[j].phase = "check"
    <3>1. ASSUME NEW j \in Listeners, j = i
          PROVE  task'[j].phase = "check"
      BY <1>0, <2>2, <3>1
    <3>2. ASSUME NEW j \in Listeners, j # i
          PROVE  ~task'[j].own /\ task'[j].phase = task[j].phase
      BY <1>0, <2>2, <3>2
    <3> QED
      BY <3>1, <3>2
  <2> QED
    BY <2>3, HearNobody DEF Owned, Hearing, Awaiting
<1>3. ASSUME NEW should, StartListener(ctrl, task, should), ~should
      PROVE  task' = task
  BY <1>3 DEF StartListener
<1> QED
  BY <1>1, <1>2, <1>3

\* A listener's step as the others see it.
LEMMA HearingMoves ==
  ASSUME SessionInv, HearInv, NEW i \in Listeners, ListenerStep(i),
         op["restart"].phase # "status" \/ Applied(i) \/ Finalize(i)
  PROVE  \E x : /\ task' = [task EXCEPT ![i] = x]
                /\ x.own => task[i].own
                /\ x.phase \in {"applying", "final"} => x.own /\ op["restart"].phase # "status"
                /\ x.phase = "fetch" => ShouldWait /\ UNCHANGED <<line, awaiting, reading>>
                /\ x.phase = "answer" => /\ task[i].phase = "fetch" /\ UNCHANGED <<line, awaiting, reading>>
                                         /\ x.own = task[i].own
                                         /\ x.batch = Batch(task[i].batch.applied, task[i].batch.gen)
                /\ task[i].own \/ UNCHANGED <<line, awaiting, reading>>
                /\ line' # line => task[i].own /\ task[i].phase = "answer" /\ line' = WithItems(task[i].batch)
<1>0. task \in [Listeners -> TaskRecord] /\ task[i] \in TaskRecord /\ NoTask \in TaskRecord
  BY TaskShapes, ConstantsTyped
<1> DEFINE rest == UNCHANGED <<line, awaiting, reading>>
           Goal(x) == /\ task' = [task EXCEPT ![i] = x]
                      /\ x.own => task[i].own
                      /\ x.phase \in {"applying", "final"} => x.own /\ op["restart"].phase # "status"
                      /\ x.phase = "fetch" => ShouldWait /\ rest
                      /\ x.phase = "answer" => /\ task[i].phase = "fetch" /\ rest
                                               /\ x.own = task[i].own
                                               /\ x.batch = Batch(task[i].batch.applied, task[i].batch.gen)
                      /\ task[i].own \/ rest
                      /\ line' # line => task[i].own /\ task[i].phase = "answer" /\ line' = WithItems(task[i].batch)
<1> SUFFICES \E y : Goal(y)
  OBVIOUS
<1>1. ASSUME Leave(i), UNCHANGED line, task[i].own \/ rest
      PROVE  \E y : Goal(y)
  <2> DEFINE later == [NoTask EXCEPT !.phase = "later", !.own = TRUE]
  <2>1. later.phase = "later" /\ later.own
    BY <1>0 DEF TaskRecord
  <2>2. CASE task' = [task EXCEPT ![i] = later] /\ Current(i)
    <3> HIDE DEF later
    <3>1. Goal(later)
      BY <1>1, <2>1, <2>2 DEF Current
    <3> HIDE DEF Goal
    <3> QED
      BY <3>1
  <2>3. CASE task' = Returned(i)
    <3>1. Goal(NoTask)
      BY <1>1, <2>3, TaskShapes DEF Returned
    <3> HIDE DEF Goal
    <3> QED
      BY <3>1
  <2> HIDE DEF Goal
  <2> QED
    BY <1>1, <2>2, <2>3 DEF Leave
<1>2. ASSUME NEW x \in {Looping, Finishing}, task' = [task EXCEPT ![i] = x], Current(i),
             x = Finishing => op["restart"].phase # "status",
             line' # line => task[i].phase = "answer" /\ line' = WithItems(task[i].batch)
      PROVE  \E y : Goal(y)
  <2>1. x.own /\ x.phase \in {"check", "final"} /\ (x.phase = "final" => x = Finishing) /\ task[i].own
    BY <1>2, TaskShapes DEF Current
  <2>2. Goal(x)
    BY <1>2, <2>1
  <2> HIDE DEF Goal
  <2> QED
    BY <2>2
<1>3. ASSUME task' = Returned(i), UNCHANGED line, task[i].own \/ rest
      PROVE  \E y : Goal(y)
  <2>1. Goal(NoTask)
    BY <1>3, TaskShapes DEF Returned
  <2> HIDE DEF Goal
  <2> QED
    BY <2>1
<1>4. CASE Check(i)
  <2>1. CASE Leave(i)
    <3>1. UNCHANGED <<line, awaiting>> /\ task[i].phase = "check"
      BY <1>4 DEF Check, table
    <3>2. UNCHANGED reading
      BY <2>1, <3>1 DEF Leave
    <3> QED
      BY <1>1, <2>1, <3>1, <3>2
  <2>2. CASE ~Leave(i)
    <3> DEFINE b == [NoBatch EXCEPT !.applied = ctrl.applied, !.gen = ctrl.gen]
               x == [[[task[i] EXCEPT !.phase = "fetch"] EXCEPT !.outdated = FALSE] EXCEPT !.batch = b]
    <3>1. task' = [task EXCEPT ![i].phase = "fetch", ![i].outdated = FALSE, ![i].batch = b] /\ rest /\ ShouldWait
      BY <1>4, <2>2 DEF Check, table
    <3> HIDE DEF b
    <3>2. task' = [task EXCEPT ![i] = x]
      BY <1>0, <3>1
    <3>3. x.phase = "fetch" /\ x.own = task[i].own
      BY <1>0 DEF TaskRecord
    <3> HIDE DEF x
    <3>4. Goal(x)
      BY <3>1, <3>2, <3>3
    <3> HIDE DEF Goal
    <3> QED
      BY <3>4
  <2> QED
    BY <2>1, <2>2
<1>5. CASE AnswerBatch(i)
  <2> DEFINE b == Batch(task[i].batch.applied, task[i].batch.gen)
             x == [[task[i] EXCEPT !.phase = "answer"] EXCEPT !.batch = b]
  <2>1. task' = [task EXCEPT ![i].phase = "answer", ![i].batch = b] /\ task[i].phase = "fetch" /\ rest
    BY <1>5 DEF AnswerBatch, table
  <2>4. b = Batch(task[i].batch.applied, task[i].batch.gen)
    OBVIOUS
  <2> HIDE DEF b
  <2>2. task' = [task EXCEPT ![i] = x]
    BY <1>0, <2>1
  <2>3. x.phase = "answer" /\ x.own = task[i].own /\ x.batch = b
    BY <1>0 DEF TaskRecord
  <2> HIDE DEF x
  <2>5. Goal(x)
    BY <2>1, <2>2, <2>3, <2>4
  <2> HIDE DEF Goal
  <2> QED
    BY <2>5
<1>6. CASE FetchAborted(i)
  <2>1. UNCHANGED <<line, awaiting>> /\ task[i].phase \in {"fetch", "answer"} /\ Leave(i)
    BY <1>6 DEF FetchAborted, table
  <2>2. UNCHANGED reading
    BY <2>1 DEF Leave
  <2> QED
    BY <1>1, <2>1, <2>2
<1>7. CASE BatchFails(i)
  <2>1. task' = [task EXCEPT ![i] = Looping] /\ Current(i) /\ line' = line
    BY <1>7 DEF BatchFails, table
  <2>2. Looping # Finishing
    BY TaskShapes
  <2> QED
    BY <1>2, <2>1, <2>2
<1>8. CASE Deliver(i)
  <2> DEFINE x == [[task[i] EXCEPT !.phase = "applying"] EXCEPT !.outdated = FALSE]
  <2>1. /\ Current(i) /\ task[i].phase = "answer" /\ (line' # line => line' = WithItems(task[i].batch))
        /\ \/ task' = [task EXCEPT ![i] = Looping] \/ task' = [task EXCEPT ![i] = Finishing]
           \/ task' = [task EXCEPT ![i] = x]
    <3>1. Current(i) /\ \/ task' = [task EXCEPT ![i] = Looping] \/ task' = [task EXCEPT ![i] = Finishing]
                        \/ task' = [task EXCEPT ![i] = [@ EXCEPT !.phase = "applying", !.outdated = FALSE]]
      BY <1>8 DEF Deliver
    <3>2. task[i].phase = "answer" /\ (line' # line => line' = WithItems(task[i].batch))
      BY <1>8 DEF Deliver
    <3> QED
      BY <1>0, <3>1, <3>2
  <2>2. x.phase = "applying" /\ x.own = task[i].own
    BY <1>0 DEF TaskRecord
  <2>4. op["restart"].phase # "status"
    BY <2>1 DEF Applied, Finalize
  <2> HIDE DEF x
  <2>3. CASE task' = [task EXCEPT ![i] = x]
    <3>1. Goal(x)
      BY <2>1, <2>2, <2>3, <2>4 DEF Current
    <3> HIDE DEF Goal
    <3> QED
      BY <3>1
  <2> HIDE DEF Goal
  <2> QED
    BY <1>2, <2>1, <2>3, <2>4
<1>9. CASE Applied(i)
  <2>1. task[i].own /\ op["restart"].phase # "status" /\ line' = line
    BY <1>9 DEF Applied, HearInv, Awaiting
  <2>2. \/ Current(i) /\ task' = [task EXCEPT ![i] = Finishing]
        \/ task' = Returned(i)
    BY <1>9 DEF Applied
  <2> QED
    BY <1>2, <1>3, <2>1, <2>2
<1>10. CASE Finalize(i)
  <2>1. task[i].own /\ line' = line /\ Leave(i)
    BY <1>10 DEF Finalize, HearInv, Awaiting
  <2> QED
    BY <1>1, <2>1
<1>11. CASE RunAgain(i)
  <2>1. rest /\ ((Current(i) /\ task' = [task EXCEPT ![i] = Looping]) \/ task' = Returned(i))
    BY <1>11 DEF RunAgain, table
  <2>2. Looping # Finishing
    BY TaskShapes
  <2> QED
    BY <1>2, <1>3, <2>1, <2>2
<1> HIDE DEF Goal
<1> QED
  BY <1>4, <1>5, <1>6, <1>7, <1>8, <1>9, <1>10, <1>11 DEF ListenerStep, ListenerTurn

LEMMA HearListener ==
  ASSUME SessionInv, HearInv, reading.phase = "none", NEW i \in Listeners, ListenerStep(i),
         op["restart"].phase # "status" \/ Applied(i) \/ Finalize(i)
  PROVE  HearInv'
<1> DEFINE rest == UNCHANGED <<line, awaiting, reading>>
<1>1. PICK x : /\ task' = [task EXCEPT ![i] = x]
               /\ x.own => task[i].own
               /\ x.phase \in {"applying", "final"} => x.own /\ op["restart"].phase # "status"
               /\ x.phase = "fetch" => ShouldWait /\ rest
               /\ x.phase = "answer" => task[i].phase = "fetch" /\ rest /\ x.own = task[i].own
               /\ task[i].own \/ rest
  BY HearingMoves
<1>2. \A j \in Listeners : task'[j] = IF j = i THEN x ELSE task[j]
  BY <1>1, TaskShapes
<1>3. op'["restart"].phase = op["restart"].phase
  BY ListenersLeaveOps DEF Ops
<1>4. Working' => Owned'
  BY <1>1, <1>2, <1>3 DEF HearInv, Working, Owned
<1>5. \A j \in Listeners : Awaiting(j)' => task'[j].own /\ op'["restart"].phase # "status"
  BY <1>1, <1>2, <1>3 DEF HearInv, Awaiting
<1>6. ASSUME Sending', NEW j \in Listeners, Hearing(j)'
      PROVE  ShouldWait' /\ reading'.phase = "none"
  <2>1. Sending /\ Working
    BY <1>3, <1>6 DEF Sending, Working
  <2>2. ShouldWait /\ rest
    <3>1. CASE j = i
      <4>1. x.own /\ x.phase \in {"fetch", "answer"}
        BY <1>2, <1>6, <3>1 DEF Hearing
      <4>2. CASE x.phase = "fetch"
        BY <1>1, <4>2
      <4>3. CASE x.phase = "answer"
        <5>1. Hearing(i) /\ rest
          BY <1>1, <4>1, <4>3 DEF Hearing
        <5> QED
          BY <2>1, <5>1 DEF HearInv
      <4> QED
        BY <4>1, <4>2, <4>3
    <3>2. CASE j # i
      <4>1. Hearing(j)
        BY <1>2, <1>6, <3>2 DEF Hearing
      <4>2. ~task[i].own
        BY <2>1, <3>2, <4>1 DEF HearInv, Owned, Hearing
      <4> QED
        BY <1>1, <2>1, <4>1, <4>2 DEF HearInv
    <3> QED
      BY <3>1, <3>2
  <2>3. line' = line /\ awaiting' = awaiting /\ reading' = reading
    BY <2>2
  <2>4. ShouldWait
    BY <2>2
  <2> HIDE DEF rest
  <2> QED
    BY <2>3, <2>4 DEF ShouldWait, InFlight
<1> QED
  BY <1>4, <1>5, <1>6 DEF HearInv

\* What is known of the operations when requests succeed and the user stays in the table.
LEMMA Unfailing ==
  ASSUME ContextInv, FaultKinds \subseteq {"batch"}, "text" \notin Gestures
  PROVE  /\ ~CalculationFails /\ ~RestartFails /\ ~AfterFailure /\ ~CancelCalculation /\ ~ShowText /\ ~ToText
         /\ ~StatusFails
         /\ op["restart"].phase # "idle" \/ coalesce.timer => view # "text"
BY DEF CalculationFails, RestartFails, Fault, AfterFailure, CancelCalculation, ShowText, ContextInv, ToText, Gesture,
       StatusFails

\* The steps of a save or of a start: what they do to the restart and to the tasks.
LEMMA HearPersist ==
  ASSUME SessionInv, ContextInv, HearInv, FaultKinds \subseteq {"batch"}, "text" \notin Gestures,
         \A i \in Listeners : ~Awaiting(i), reading.phase = "none", NEW o \in Ops,
         BeginPersist(o) \/ SendPut(o) \/ HandlePut(o) \/ PutDone(o) \/ HandleStart(o)
  PROVE  HearInv'
<1>1. PICK phase \in {"idle", "send", "put", "saved", "start", "started"} :
           /\ \A x \in Ops : op'[x].phase = IF x = o THEN phase ELSE op[x].phase
           /\ BeginPersist(o) => phase = "send"
           /\ SendPut(o) => phase = "put"
           /\ HandlePut(o) => phase = "saved"
           /\ PutDone(o) => phase = (IF o = "save" THEN "idle" ELSE "start")
           /\ HandleStart(o) => phase = "started"
  BY PersistPhases
<1>2. "restart" \in Ops /\ op'["restart"].phase = IF o = "restart" THEN phase ELSE op["restart"].phase
  BY <1>1 DEF Ops
<1>3. UNCHANGED <<line, awaiting>>
  BY DEF BeginPersist, SendPut, HandlePut, PutDone, HandleStart, table
<1>4. CASE BeginPersist(o)
  <2>1. UNCHANGED reading /\ op[o].phase = "queue"
    BY <1>4 DEF BeginPersist
  <2>2. CASE view = "text"
    <3>1. task' = task /\ o # "restart"
      BY <1>4, <2>1, <2>2, Unfailing DEF BeginPersist
    <3> QED
      BY <1>2, <1>3, <2>1, <3>1, HearRests
  <2>3. CASE view # "text"
    BY <1>4, <2>3, HearStarts DEF BeginPersist, Abort
  <2> QED
    BY <2>2, <2>3
<1>5. CASE SendPut(o) \/ HandlePut(o) \/ HandleStart(o)
  <2>1. task' = task /\ UNCHANGED reading
    BY <1>5 DEF SendPut, HandlePut, HandleStart
  <2>2. \/ op'["restart"].phase = op["restart"].phase
        \/ Working' /\ Working /\ (Sending' => Sending)
    <3>1. CASE o # "restart"
      BY <1>2, <3>1
    <3>2. CASE o = "restart"
      BY <1>1, <1>2, <1>5, <3>2 DEF SendPut, HandlePut, HandleStart, Working, Sending
    <3> QED
      BY <3>1, <3>2
  <2> QED
    BY <1>3, <2>1, <2>2, HearRests
<1>6. CASE PutDone(o)
  <2>1. CASE task' = task /\ (view = "text" \/ ~ShouldWait)
    <3>1. UNCHANGED reading
      BY <1>6, <2>1 DEF PutDone, ShouldWait
    <3>2. \/ op'["restart"].phase = op["restart"].phase
          \/ Working' /\ Working /\ (Sending' => Sending)
      BY <1>1, <1>2, <1>6 DEF PutDone, Working, Sending
    <3> QED
      BY <1>3, <2>1, <3>1, <3>2, HearRests
  <2>2. CASE view # "text" /\ ShouldWait
    <3>1. StartListener(ctrl, task, ShouldWait)
      BY <1>6, <2>2 DEF PutDone
    <3> QED
      BY <2>2, <3>1, HearStarts
  <2>3. view # "text" /\ ~ShouldWait => task' = task
    <3>1. view # "text" => StartListener(ctrl, task, ShouldWait)
      BY <1>6 DEF PutDone
    <3> QED
      BY <3>1, HearStarts
  <2>4. view = "text" => task' = task
    BY <1>6 DEF PutDone
  <2> QED
    BY <2>1, <2>2, <2>3, <2>4
<1> QED
  BY <1>4, <1>5, <1>6

LEMMA HearOp ==
  ASSUME SessionInv, ContextInv, HearInv, FaultKinds \subseteq {"batch"}, "text" \notin Gestures,
         \A i \in Listeners : ~Awaiting(i), op["restart"].phase # "status", reading.phase = "none", OpTurn
  PROVE  HearInv'
<1>0. /\ "restart" \in Ops /\ {"idle", "abort", "queue", "status"} \subseteq OpPhases
  BY DEF Ops, OpPhases
<1>1. ASSUME NEW o \in Ops, BeginPersist(o) \/ SendPut(o) \/ HandlePut(o) \/ PutDone(o) \/ HandleStart(o)
      PROVE  HearInv'
  BY <1>1, HearPersist
<1>2. CASE CalculationStarted
  <2>1. /\ StartListener(ctrl, task, ShouldWait /\ ~Persisting)
        /\ op' = Goes("calculate", "idle") /\ UNCHANGED <<line, awaiting, reading>>
    BY <1>2 DEF CalculationStarted
  <2>2. op'["restart"].phase = op["restart"].phase
    BY <1>0, <2>1, OpPhaseMoves DEF Ops
  <2> QED
    BY <2>1, <2>2, HearStarts, HearRests
<1>3. CASE ResetForRestart
  <2>1. task' = Outdated /\ op["restart"].phase = "abort" /\ op' = Goes("restart", "queue")
    BY <1>3 DEF ResetForRestart, ResetLines
  <2>2. op'["restart"].phase = "queue"
    BY <1>0, <2>1, OpPhaseMoves
  <2>3. \A i \in Listeners : task'[i].own = task[i].own /\ task'[i].phase = task[i].phase
    BY <2>1, TaskShapes
  <2> QED
    BY <2>1, <2>2, <2>3, HearRests DEF Working, Sending
<1>4. CASE RestartStarted
  <2>1. op' = Goes("restart", "status")
    BY <1>4 DEF RestartStarted
  <2>2. op'["restart"].phase = "status"
    BY <1>0, <2>1, OpPhaseMoves
  <2>3. PICK i \in Listeners : task' = [task EXCEPT ![i] = Looping]
    BY <1>4 DEF RestartStarted, Launch
  <2>4. \A j \in Listeners : task'[j] = IF j = i THEN Looping ELSE task[j]
    BY <2>3, TaskShapes
  <2>5. \A j \in Listeners : ~Awaiting(j)'
    BY <2>4, TaskShapes DEF Awaiting
  <2> QED
    BY <2>2, <2>5 DEF HearInv, Working, Sending
<1>5. CASE TimerFires
  <2>1. UNCHANGED <<line, awaiting, reading>> /\ coalesce.timer
    BY <1>5 DEF TimerFires, table
  <2>2. CASE op["restart"].phase = "idle"
    <3>1. Abort
      BY <1>5, <2>1, <2>2, Unfailing DEF TimerFires, BeginRestart
    <3> QED
      BY <3>1, HearStarts DEF Abort
  <2>3. CASE op["restart"].phase # "idle"
    <3>1. UNCHANGED <<op, task>>
      BY <1>5, <2>3 DEF TimerFires
    <3> QED
      BY <2>1, <3>1, HearRests
  <2> QED
    BY <2>2, <2>3
<1> QED
  BY <1>1, <1>2, <1>3, <1>4, <1>5, Unfailing DEF OpTurn

LEMMA HearUser ==
  ASSUME SessionInv, ContextInv, HearInv, FaultKinds \subseteq {"batch"}, "text" \notin Gestures,
         \A i \in Listeners : ~Awaiting(i), reading.phase = "none", UserStep
  PROVE  HearInv'
<1>0. /\ "restart" \in Ops /\ {"idle", "abort", "queue"} \subseteq OpPhases
  BY DEF Ops, OpPhases
<1>1. ASSUME Synchronize, UNCHANGED <<line, awaiting, op>>
      PROVE  HearInv'
  <2>1. CASE UNCHANGED <<task, reading>>
    BY <1>1, <2>1, HearRests
  <2>2. CASE StartListener(ctrl, task, ShouldWait) /\ ShouldWait
    BY <2>2, HearStarts
  <2>3. CASE StartListener(ctrl, task, ShouldWait) /\ ~ShouldWait /\ (~InFlight(line) => UNCHANGED reading)
    <3>1. task' = task /\ UNCHANGED reading
      BY <2>3, HearStarts DEF ShouldWait
    <3> QED
      BY <2>1, <3>1
  <2> QED
    BY <1>1, <2>1, <2>2, <2>3 DEF Synchronize
<1>2. CASE ToTable
  <2>1. task' = Outdated /\ view = "text" /\ op' \in {op, Goes("calculate", "queue")}
    BY <1>2 DEF ToTable
  <2>2. op["restart"].phase = "idle" /\ op'["restart"].phase = op["restart"].phase
    BY <1>0, <2>1, OpPhaseMoves, Unfailing DEF Ops
  <2>3. \A i \in Listeners : task'[i].own = task[i].own /\ task'[i].phase = task[i].phase
    BY <2>1, TaskShapes
  <2> QED
    BY <2>2, <2>3, HearRests DEF Sending
<1>3. CASE ChangeContext \/ Save \/ GoAway
  <2>1. task' = task /\ UNCHANGED <<line, awaiting, reading>> /\ op' \in {op, Goes("save", "queue")}
    BY <1>3 DEF ChangeContext, Save, GoAway, table
  <2>2. op'["restart"].phase = op["restart"].phase
    BY <1>0, <2>1, OpPhaseMoves DEF Ops
  <2> QED
    BY <2>1, <2>2, HearRests
<1>4. CASE Recalculate
  <2>1. Abort
    BY <1>4 DEF Recalculate, BeginRestart
  <2> QED
    BY <2>1, HearStarts DEF Abort
<1>5. CASE Render \/ ComeBack
  BY <1>1, <1>5 DEF Render, ComeBack, table
<1> QED
  BY <1>2, <1>3, <1>4, <1>5, Unfailing DEF UserStep

LEMMA HearStep ==
  ASSUME SessionInv, ContextInv, HearInv, [Next]_vars, PromptStatus,
         FaultKinds \subseteq {"batch"}, "text" \notin Gestures
  PROVE  HearInv'
<1>1. CASE UNCHANGED vars
  BY <1>1, HearRests DEF vars, table
<1>2. CASE ReadStep
  <2>1. UNCHANGED <<task, op>> /\ reading.phase # "none"
    BY <1>2 DEF ReadStep, AnswerStatus, ApplyStatuses, StatusFails
  <2>2. Sending => \A i \in Listeners : ~Hearing(i)
    BY <2>1 DEF HearInv
  <2> QED
    BY <2>1, <2>2 DEF HearInv, Sending, Hearing, Working, Owned, Awaiting
<1>3. CASE GoOn /\ reading.phase = "none"
  <2>1. ASSUME NEW i \in Listeners, Applied(i) \/ Finalize(i)
        PROVE  HearInv'
    BY <1>3, <2>1, HearListener DEF ListenerStep
  <2>2. CASE EndRestart
    <3>1. op["restart"].phase = "status" /\ UNCHANGED <<line, awaiting, reading>>
      BY <2>2 DEF EndRestart, table
    <3>2. \A i \in Listeners : ~Awaiting(i)
      BY <3>1 DEF HearInv
    <3>3. CASE coalesce.pending
      <4>1. Abort
        BY <2>2, <3>1, <3>3, Unfailing DEF EndRestart, BeginRestart
      <4> QED
        BY <3>2, <4>1, HearStarts DEF Abort
    <3>4. CASE ~coalesce.pending
      <4>1. task' = task /\ op' = Goes("restart", "idle")
        BY <2>2, <3>4 DEF EndRestart
      <4>2. op'["restart"].phase = "idle"
        BY <4>1, OpPhaseMoves DEF Ops, OpPhases
      <4> QED
        BY <3>1, <4>1, <4>2, HearRests
    <3> QED
      BY <3>3, <3>4
  <2> QED
    BY <1>3, <2>1, <2>2, Unfailing DEF GoOn
<1>4. CASE ~Awaits /\ reading.phase = "none" /\ (ServerStep \/ OpTurn \/ UserStep \/ \E i \in Listeners : ListenerTurn(i))
  <2>1. (\A i \in Listeners : ~Awaiting(i)) /\ op["restart"].phase # "status"
    BY <1>4 DEF Awaits, Awaiting
  <2>2. CASE ServerStep
    BY <2>2, HearRests DEF ServerStep, Enqueue, Calculate, table
  <2>3. ASSUME NEW i \in Listeners, ListenerTurn(i)
        PROVE  HearInv'
    BY <1>4, <2>1, <2>3, HearListener DEF ListenerStep
  <2> QED
    BY <1>4, <2>1, <2>2, <2>3, HearOp, HearUser
<1> QED
  BY <1>1, <1>2, <1>3, <1>4 DEF Next

\* While Held, a batch of an older context is still to be given up; while Settling, the table
\* is still to be read again.
Held == Owed \/ op["restart"].phase \in {"abort", "queue", "send", "put", "saved"}
Settling == Owed \/ Working \/ (op["restart"].phase = "status" /\ reading.phase \in {"sent", "answered"})
PricesAre(ls, c) == \A l \in Lines : ls[l].price \in {None, c}
BatchIsOf(b, c) == \A k \in 1 .. Len(b.items) : b.items[k].now.price \in {None, c}
FreshInv ==
  /\ PricesAre(srv.line, srv.context)
  /\ reading.phase \in {"answered", "retried"} => reading.statuses = srv.line
  /\ Settling \/ PricesAre(line, context)
  /\ Held \/ \A i \in Listeners : task[i].own /\ task[i].phase = "answer" => BatchIsOf(task[i].batch, context)

\* The server's lines have prices of its context only.
LEMMA ServerPrices ==
  ASSUME SessionInv, PricesAre(srv.line, srv.context), ServerStep \/ OpStep \/ UserStep
  PROVE  PricesAre(srv'.line, srv'.context)
<1>0. srv \in SrvRecord /\ Blank.price = None /\ Queued.price = None /\ op \in [Ops -> OpRecord]
  BY SessionFacts DEF Blank, Queued
<1>1. CASE UNCHANGED srv
  BY <1>1
<1>2. ASSUME NEW s \in SrvRecord, s.context = srv.context, s.line = srv.line, NEW ls, NEW e,
             srv' = [s EXCEPT !.enqueue = e, !.line = ls],
             \A l \in Lines : ls[l].price = None \/ ls[l] = srv.line[l]
      PROVE  PricesAre(srv'.line, srv'.context)
  <2>1. srv'.line = ls /\ srv'.context = srv.context
    BY <1>2 DEF SrvRecord
  <2> QED
    BY <1>2, <2>1 DEF PricesAre
<1>3. Cancelled \in SrvRecord /\ Cancelled.context = srv.context /\ PricesAre(Cancelled.line, srv.context)
  <2> DEFINE ls == [l \in Lines |-> Blank]
             g == srv.gen + 1
  <2>1. Cancelled = [srv EXCEPT !.gen = g, !.line = ls, !.enqueue = FALSE]
    BY DEF Cancelled
  <2>2. Cancelled \in SrvRecord
    BY <1>0, ServerAnswers DEF Srvs
  <2>3. \A l \in Lines : ls[l].price = None
    BY <1>0
  <2> HIDE DEF ls, g
  <2>4. Cancelled.line = ls /\ Cancelled.context = srv.context
    BY <1>0, <2>1 DEF SrvRecord
  <2> QED
    BY <2>2, <2>3, <2>4 DEF PricesAre
<1>4. ASSUME NEW force, srv' = Started(force)
      PROVE  PricesAre(srv'.line, srv'.context)
  <2>1. PICK s \in {Cancelled, srv} : srv' = [s EXCEPT !.enqueue = TRUE, !.at = srv.context]
    BY <1>4 DEF Started
  <2>2. s \in SrvRecord /\ s.context = srv.context /\ PricesAre(s.line, srv.context)
    BY <1>0, <1>3
  <2>3. srv'.line = s.line /\ srv'.context = s.context
    BY <2>1, <2>2 DEF SrvRecord
  <2> QED
    BY <2>2, <2>3
<1>5. ASSUME NEW c, srv' = Saved(c)
      PROVE  PricesAre(srv'.line, srv'.context)
  <2> DEFINE ls == [l \in Lines |-> Blank]
             e == srv.enqueue \/ \E l \in Lines : srv.line[l].price # None
  <2>1. srv' = srv \/ srv' = [srv EXCEPT !.context = c, !.line = ls, !.enqueue = e]
    BY <1>5 DEF Saved
  <2>2. \A l \in Lines : ls[l].price = None
    BY <1>0
  <2> HIDE DEF ls, e
  <2>3. srv' = srv \/ srv'.line = ls
    BY <1>0, <2>1 DEF SrvRecord
  <2> QED
    BY <2>2, <2>3 DEF PricesAre
<1>6. CASE Enqueue
  <2> DEFINE ls == [l \in Lines |-> IF srv.line[l].status = "done" THEN srv.line[l] ELSE Queued]
  <2>1. srv' = [srv EXCEPT !.enqueue = FALSE, !.line = ls]
    BY <1>6 DEF Enqueue
  <2>2. \A l \in Lines : ls[l].price = None \/ ls[l] = srv.line[l]
    BY <1>0
  <2> HIDE DEF ls
  <2> QED
    BY <1>0, <1>2, <2>1, <2>2
<1>7. ASSUME NEW k \in Lines, NEW verdict \in Verdicts, Calculate(k, verdict)
      PROVE  PricesAre(srv'.line, srv'.context)
  <2> DEFINE now == [status |-> verdict, price |-> IF verdict = "done" THEN srv.context ELSE None]
             ls == [srv.line EXCEPT ![k] = now]
  <2>1. srv' = [srv EXCEPT !.line = ls]
    BY <1>7 DEF Calculate
  <2>2. now.price \in {None, srv.context}
    OBVIOUS
  <2> HIDE DEF now
  <2>3. \A l \in Lines : ls[l] = IF l = k THEN now ELSE srv.line[l]
    BY <1>0 DEF SrvRecord, LineMap
  <2> HIDE DEF ls
  <2>4. srv'.line = ls /\ srv'.context = srv.context
    BY <1>0, <2>1 DEF SrvRecord
  <2> QED
    BY <2>2, <2>3, <2>4 DEF PricesAre
<1>8. CASE ServerStep
  BY <1>6, <1>7, <1>8 DEF ServerStep
<1>9. CASE OpStep
  <2>1. ASSUME NEW o \in Ops, HandlePut(o) \/ HandleStart(o)
        PROVE  PricesAre(srv'.line, srv'.context)
    BY <1>4, <1>5, <2>1 DEF HandlePut, HandleStart
  <2>2. CASE CancelCalculation
    BY <1>3, <2>2 DEF CancelCalculation
  <2> QED
    BY <1>1, <1>9, <2>1, <2>2 DEF OpStep, OpTurn, BeginPersist, SendPut, PutDone, CalculationStarted, CalculationFails,
       ResetForRestart, RestartStarted, RestartFails, AfterFailure, EndRestart, TimerFires, ShowText
<1>10. CASE UserStep
  BY <1>1, <1>10 DEF UserStep, ToTable, ChangeContext, Recalculate, Save, Render, GoAway, ComeBack, ToText
<1> QED
  BY <1>8, <1>9, <1>10

\* What a batch brings when it is answered has prices of the server's context.
LEMMA AnswersAreOf ==
  ASSUME SessionInv, PricesAre(srv.line, srv.context), NEW i \in Listeners
  PROVE  BatchIsOf(Batch(task[i].batch.applied, task[i].batch.gen), srv.context)
<1>1. srv \in SrvRecord /\ task[i].batch \in BatchRecord
  BY SessionFacts, TaskShapes DEF TaskRecord
<1> DEFINE b == Batch(task[i].batch.applied, task[i].batch.gen)
<1>2. b \in BatchRecord /\ TrueOf(b)
  BY <1>1, BatchAnswers DEF BatchRecord
<1> HIDE DEF b
<1>3. ASSUME NEW k \in 1 .. Len(b.items)
      PROVE  b.items[k].now.price \in {None, srv.context}
  <2>1. b.items \in Seq(Item) /\ b.items[k].now = srv.line[b.items[k].id]
    BY <1>2 DEF BatchRecord, TrueOf
  <2>2. b.items[k] \in Item
    BY <2>1
  <2>3. b.items[k].id \in Lines
    BY <2>2 DEF Item
  <2> QED
    BY <2>1, <2>3 DEF PricesAre
<1>4. BatchIsOf(b, srv.context)
  BY <1>3 DEF BatchIsOf
<1> QED
  BY <1>4 DEF b

\* A batch whose prices are of a context leaves such prices.
LEMMA AppliedPrices ==
  ASSUME SessionInv, NEW i \in Listeners, NEW c, PricesAre(line, c), BatchIsOf(task[i].batch, c)
  PROVE  PricesAre(WithItems(task[i].batch), c)
<1>1. line \in LineMap /\ task[i].batch \in BatchRecord
  BY TaskShapes DEF SessionInv, TaskRecord
<1>2. \A l \in Lines : WithItems(task[i].batch)[l] = line[l]
        \/ \E k \in 1 .. Len(task[i].batch.items) :
             task[i].batch.items[k].id = l /\ WithItems(task[i].batch)[l] = task[i].batch.items[k].now
  BY <1>1, ItemsApplied
<1> QED
  BY <1>2 DEF PricesAre, BatchIsOf

\* Operations and the user change the tasks in a few ways, none of which brings a batch.
LEMMA BatchesKept ==
  ASSUME SessionInv, OpStep \/ UserStep
  PROVE  \A i \in Listeners : task'[i].own /\ task'[i].phase = "answer" =>
           task[i].own /\ task[i].phase = "answer" /\ task'[i].batch = task[i].batch
<1> DEFINE Kept == \A i \in Listeners : task'[i].own /\ task'[i].phase = "answer" =>
                     task[i].own /\ task[i].phase = "answer" /\ task'[i].batch = task[i].batch
<1> SUFFICES Kept
  OBVIOUS
<1>1. UNCHANGED task => Kept
  OBVIOUS
<1>2. task' = Disowned(task) => Kept
  BY TaskShapes
<1>3. ASSUME task' = Outdated
      PROVE  Kept
  <2>1. \A i \in Listeners : task'[i].own = task[i].own
    BY <1>3, TaskShapes
  <2> QED
    BY <1>3, <2>1, AnswersKept
<1>4. ASSUME NEW k \in Listeners, task' = [task EXCEPT ![k] = Looping] \/ task' = [Disowned(task) EXCEPT ![k] = Looping]
      PROVE  Kept
  <2>1. PICK ts \in {task, Disowned(task)} : task' = [ts EXCEPT ![k] = Looping]
    BY <1>4
  <2>2. \A i \in Listeners : task'[i] = IF i = k THEN Looping ELSE ts[i]
    BY <2>1, TaskShapes DEF Disowned
  <2>3. Looping.phase = "check" /\ (ts = task \/ \A i \in Listeners : ~ts[i].own)
    BY TaskShapes
  <2> QED
    BY <2>2, <2>3
<1>5. \A should : StartListener(ctrl, task, should) => Kept
  <2> HIDE DEF Kept
  <2> QED
    BY <1>1, <1>4, StartedAlone
<1>6. \A c : Launch(c, task) => Kept
  <2> HIDE DEF Kept
  <2> QED
    BY <1>4 DEF Launch
<1> HIDE DEF Kept
<1>7. Abort => Kept
  BY <1>2 DEF Abort
<1>8. Synchronize => Kept
  BY <1>1, <1>5 DEF Synchronize
<1>9. CASE OpStep
  <2>1. ASSUME NEW o \in Ops, BeginPersist(o) \/ SendPut(o) \/ HandlePut(o) \/ PutDone(o) \/ HandleStart(o)
        PROVE  Kept
    BY <1>1, <1>5, <1>7, <2>1 DEF BeginPersist, SendPut, HandlePut, PutDone, HandleStart
  <2>2. CASE CalculationStarted \/ CalculationFails
    BY <1>5, <2>2 DEF CalculationStarted, CalculationFails
  <2>3. CASE ResetForRestart
    BY <1>3, <2>3 DEF ResetForRestart, ResetLines
  <2>4. CASE RestartStarted \/ AfterFailure \/ RestartFails
    BY <1>1, <1>5, <1>6, <2>4 DEF RestartStarted, AfterFailure, RestartFails
  <2>5. CASE TimerFires \/ EndRestart
    BY <1>1, <1>7, <2>5 DEF TimerFires, EndRestart, BeginRestart
  <2>6. CASE CancelCalculation \/ ShowText
    BY <1>1, <1>2, <2>6 DEF CancelCalculation, ShowText
  <2> QED
    BY <1>9, <2>1, <2>2, <2>3, <2>4, <2>5, <2>6 DEF OpStep, OpTurn
<1>10. CASE UserStep
  <2>1. CASE ToTable
    BY <1>3, <2>1 DEF ToTable
  <2>2. CASE Render \/ ComeBack
    BY <1>8, <2>2 DEF Render, ComeBack
  <2>3. CASE ChangeContext \/ Save \/ GoAway
    BY <1>1, <2>3 DEF ChangeContext, Save, GoAway
  <2>4. CASE Recalculate \/ ToText
    BY <1>1, <1>7, <2>4 DEF Recalculate, ToText, BeginRestart
  <2> QED
    BY <1>10, <2>1, <2>2, <2>3, <2>4 DEF UserStep
<1> QED
  BY <1>9, <1>10

\* The step of a restart, and of what asks for one, as Held and Settling see it.
LEMMA HeldStays ==
  ASSUME SessionInv, ContextInv, FaultKinds \subseteq {"batch"}, "text" \notin Gestures, reading.phase = "none",
         op["restart"].phase # "status" \/ EndRestart, OpStep \/ UserStep
  PROVE  /\ Held /\ ~PutDone("restart") => Held'
         /\ Settling => Settling'
         /\ context' # context => Held' /\ Settling'
<1>0. /\ "restart" \in Ops /\ {"idle", "abort", "queue", "status"} \subseteq OpPhases
      /\ coalesce \in [timer : BOOLEAN, pending : BOOLEAN]
  BY DEF Ops, OpPhases, SessionInv
<1> DEFINE R == op["restart"].phase
<1>1. Settling => Owed \/ Working
  BY DEF Settling
<1>2. ASSUME UNCHANGED <<coalesce, context>>, op'["restart"].phase = R
      PROVE  (Held => Held') /\ (Settling => Settling') /\ context' = context
  BY <1>1, <1>2 DEF Held, Settling, Owed, Working
<1>3. ASSUME op'["restart"].phase \in {"abort", "queue"}, UNCHANGED context
      PROVE  Held' /\ Settling' /\ context' = context
  BY <1>3 DEF Held, Settling, Working
<1>4. CASE OpStep
  <2>1. ASSUME NEW o \in Ops, BeginPersist(o) \/ SendPut(o) \/ HandlePut(o) \/ PutDone(o) \/ HandleStart(o)
        PROVE  (Held /\ ~PutDone("restart") => Held') /\ (Settling => Settling') /\ context' = context
    <3>1. PICK phase \in {"idle", "send", "put", "saved", "start", "started"} :
           /\ \A x \in Ops : op'[x].phase = IF x = o THEN phase ELSE op[x].phase
           /\ BeginPersist(o) => phase = "send"
           /\ SendPut(o) => phase = "put"
           /\ HandlePut(o) => phase = "saved"
           /\ PutDone(o) => phase = (IF o = "save" THEN "idle" ELSE "start")
           /\ HandleStart(o) => phase = "started"
      BY <2>1, PersistPhases
    <3>2. UNCHANGED <<coalesce, context>>
      BY <2>1 DEF BeginPersist, SendPut, HandlePut, PutDone, HandleStart, ui
    <3>3. CASE o # "restart"
      <4>1. op'["restart"].phase = R
        BY <1>0, <3>1, <3>3
      <4> QED
        BY <1>2, <3>2, <4>1
    <3>4. CASE o = "restart"
      <4>1. op'["restart"].phase = phase /\ phase \in {"send", "put", "saved", "start", "started"}
        BY <1>0, <2>1, <3>1, <3>4
      <4>2. Owed => Owed'
        BY <3>2, <4>1 DEF Owed
      <4>3. Settling'
        BY <4>1 DEF Settling, Working
      <4>4. CASE BeginPersist(o) \/ SendPut(o) \/ HandlePut(o)
        BY <3>1, <3>2, <4>1, <4>3, <4>4 DEF Held
      <4>5. CASE HandleStart(o)
        <5>1. R = "start"
          BY <3>4, <4>5 DEF HandleStart
        <5> QED
          BY <3>2, <4>2, <4>3, <5>1 DEF Held
      <4>6. CASE PutDone(o)
        BY <3>2, <3>4, <4>3, <4>6
      <4> QED
        BY <2>1, <4>4, <4>5, <4>6
    <3> QED
      BY <3>3, <3>4
  <2>2. CASE CalculationStarted
    <3>1. op' = Goes("calculate", "idle") /\ UNCHANGED <<coalesce, context>>
      BY <2>2 DEF CalculationStarted, ui
    <3>2. op'["restart"].phase = R
      BY <1>0, <3>1, OpPhaseMoves DEF Ops
    <3> QED
      BY <1>2, <3>1, <3>2
  <2>3. CASE ResetForRestart
    <3>1. op' = Goes("restart", "queue") /\ UNCHANGED context
      BY <2>3 DEF ResetForRestart, ui
    <3>2. op'["restart"].phase = "queue"
      BY <1>0, <3>1, OpPhaseMoves
    <3> QED
      BY <1>3, <3>1, <3>2
  <2>4. CASE RestartStarted
    <3>1. /\ op' = Goes("restart", "status") /\ UNCHANGED <<coalesce, context>> /\ R = "started"
          /\ reading' = [NoReading EXCEPT !.phase = "sent", !.for = "restart"]
      BY <2>4 DEF RestartStarted, Reconcile, ui
    <3>2. op'["restart"].phase = "status"
      BY <1>0, <3>1, OpPhaseMoves
    <3>3. reading'.phase = "sent"
      BY <3>1, ConstantsTyped DEF ReadRecord
    <3> QED
      BY <3>1, <3>2, <3>3 DEF Held, Settling, Owed
  <2>5. ASSUME NEW pending, BeginRestart(pending), view # "text", UNCHANGED context
        PROVE  Held' /\ Settling' /\ context' = context
    <3>1. op' = Waits("restart", "abort")
      BY <2>5 DEF BeginRestart
    <3>2. op'["restart"].phase = "abort"
      BY <1>0, <3>1, OpPhaseMoves
    <3> QED
      BY <1>3, <2>5, <3>2
  <2>6. CASE TimerFires
    <3>1. coalesce.timer /\ view # "text" /\ UNCHANGED context
      BY <2>6, Unfailing DEF TimerFires, ui
    <3>2. CASE R = "idle"
      BY <2>5, <2>6, <3>1, <3>2 DEF TimerFires
    <3>3. CASE R # "idle"
      <4>1. coalesce' = [timer |-> FALSE, pending |-> TRUE] /\ UNCHANGED op
        BY <2>6, <3>3 DEF TimerFires
      <4> QED
        BY <3>1, <3>3, <4>1 DEF Held, Settling, Owed
    <3> QED
      BY <3>2, <3>3
  <2>7. CASE EndRestart
    <3>1. R = "status" /\ view # "text" /\ UNCHANGED context
      BY <2>7, Unfailing DEF EndRestart, ui
    <3>2. CASE coalesce.pending
      BY <2>5, <2>7, <3>1, <3>2 DEF EndRestart
    <3>3. CASE ~coalesce.pending
      <4>1. UNCHANGED coalesce
        BY <2>7, <3>3 DEF EndRestart
      <4> QED
        BY <1>1, <3>1, <3>3, <4>1 DEF Held, Settling, Owed, Working
    <3> QED
      BY <3>2, <3>3
  <2> QED
    BY <1>4, <2>1, <2>2, <2>3, <2>4, <2>6, <2>7, Unfailing DEF OpStep, OpTurn
<1>5. CASE UserStep
  <2>1. CASE ToTable \/ Save \/ Render \/ GoAway \/ ComeBack
    <3>1. UNCHANGED <<coalesce, context>> /\ op' \in {op, Goes("calculate", "queue"), Goes("save", "queue")}
      BY <2>1 DEF ToTable, Save, Render, GoAway, ComeBack, ui
    <3>2. op'["restart"].phase = R
      BY <1>0, <3>1, OpPhaseMoves DEF Ops
    <3> QED
      BY <1>2, <3>1, <3>2
  <2>2. CASE ChangeContext
    <3>1. coalesce' = [timer |-> TRUE, pending |-> TRUE]
      BY <2>2 DEF ChangeContext
    <3> QED
      BY <3>1 DEF Held, Settling, Owed
  <2>3. CASE Recalculate
    <3>1. op' = Waits("restart", "abort") /\ UNCHANGED context
      BY <2>3 DEF Recalculate, BeginRestart, ui
    <3>2. op'["restart"].phase = "abort"
      BY <1>0, <3>1, OpPhaseMoves
    <3> QED
      BY <1>3, <3>1, <3>2
  <2> QED
    BY <1>5, <2>1, <2>2, <2>3, Unfailing DEF UserStep
<1> QED
  BY <1>4, <1>5

\* The server is behind the choice only while a restart is to save it.
LEMMA ServerIsBehind ==
  ASSUME SessionInv, ContextInv
  PROVE  (srv.context # context => Held) /\ (Held => Settling)
BY DEF ContextInv, Held, Settling, Working

LEMMA FreshRead ==
  ASSUME SessionInv, ContextInv, FreshInv, ReadStep, FaultKinds \subseteq {"batch"}, "text" \notin Gestures
  PROVE  FreshInv'
<1>0. reading \in ReadRecord /\ NoReading \in ReadRecord /\ NoReading.phase = "none"
  BY ConstantsTyped DEF SessionInv, NoReading
<1>1. UNCHANGED <<srv, context, op, coalesce, task>>
  BY DEF ReadStep, AnswerStatus, ApplyStatuses, StatusFails, ui
<1>2. /\ (Held => Held') /\ PricesAre(srv'.line, srv'.context)
      /\ Held' \/ \A i \in Listeners : task'[i].own /\ task'[i].phase = "answer" => BatchIsOf(task'[i].batch, context')
      /\ Owed \/ Working => Settling'
  BY <1>1 DEF FreshInv, Held, Owed, Settling, Working
<1>3. CASE AnswerStatus
  <2> DEFINE next == IF reading.phase = "sent" THEN "answered" ELSE "retried"
  <2>1. /\ reading' = [reading EXCEPT !.phase = next, !.statuses = srv.line] /\ line' = line
        /\ reading.phase \in {"sent", "retry"}
    BY <1>3 DEF AnswerStatus, table
  <2>2. next = "answered" \/ (next = "retried" /\ reading.phase = "retry")
    BY <2>1
  <2> HIDE DEF next
  <2>3. reading'.phase = next /\ reading'.statuses = srv.line
    BY <1>0, <2>1 DEF ReadRecord
  <2>4. Settling => Settling'
    BY <1>1, <1>2, <2>1, <2>2, <2>3 DEF Settling
  <2> QED
    BY <1>1, <1>2, <2>1, <2>3, <2>4 DEF FreshInv
<1>4. CASE ApplyStatuses
  <2>1. reading.phase \in {"answered", "retried"} /\ reading.statuses = srv.line
    BY <1>4 DEF ApplyStatuses, FreshInv
  <2>2. reading'.phase \in {"none", "retry"}
    <3>1. reading' = NoReading \/ reading' = [reading EXCEPT !.phase = "retry"]
      BY <1>4 DEF ApplyStatuses
    <3> QED
      BY <1>0, <3>1 DEF ReadRecord
  <2>3. Settling' \/ PricesAre(line', context)
    <3>1. CASE reading.phase = "answered"
      <4>1. line' = srv.line
        BY <1>4, <2>1, <3>1 DEF ApplyStatuses
      <4>2. PricesAre(line', srv.context)
        BY <4>1 DEF FreshInv
      <4>3. CASE srv.context = context
        BY <4>2, <4>3
      <4>4. CASE srv.context # context
        BY <1>2, <4>4, ServerIsBehind DEF Held, Working
      <4> QED
        BY <4>3, <4>4
    <3>2. CASE reading.phase = "retried"
      <4>1. line' = line
        BY <1>4, <3>2 DEF ApplyStatuses
      <4> QED
        BY <1>2, <3>2, <4>1 DEF FreshInv, Settling
    <3> QED
      BY <2>1, <3>1, <3>2
  <2> QED
    BY <1>1, <1>2, <2>2, <2>3 DEF FreshInv
<1>5. CASE StatusFails
  BY <1>5, Unfailing
<1> QED
  BY <1>3, <1>4, <1>5 DEF ReadStep

LEMMA FreshListener ==
  ASSUME SessionInv, ContextInv, HearInv, FreshInv, reading.phase = "none", NEW i \in Listeners, ListenerStep(i),
         op["restart"].phase # "status" \/ Applied(i) \/ Finalize(i)
  PROVE  FreshInv'
<1>1. PICK x : /\ task' = [task EXCEPT ![i] = x]
               /\ x.own => task[i].own
               /\ x.phase = "answer" => /\ x.own = task[i].own
                                        /\ x.batch = Batch(task[i].batch.applied, task[i].batch.gen)
               /\ line' # line => task[i].own /\ task[i].phase = "answer" /\ line' = WithItems(task[i].batch)
  BY HearingMoves
<1>2. \A j \in Listeners : task'[j] = IF j = i THEN x ELSE task[j]
  BY <1>1, TaskShapes
<1>3. op'["restart"].phase = op["restart"].phase /\ UNCHANGED <<srv, context, coalesce>>
  BY ListenersLeaveOps DEF Ops
<1>4. (Held <=> Held') /\ (Settling => Settling')
  BY <1>3 DEF Held, Settling, Owed, Working
<1>5. reading'.phase \in {"none", "sent"}
  <2>1. UNCHANGED reading \/ \E caller : Reconcile(caller)
    BY DEF ListenerStep, ListenerTurn, Check, AnswerBatch, FetchAborted, BatchFails, Deliver, Applied, Finalize, RunAgain,
           Leave
  <2> QED
    BY <2>1, ReadingSent
<1>6. Settling' \/ PricesAre(line', context')
  <2>1. CASE line' = line
    BY <1>3, <1>4, <2>1 DEF FreshInv
  <2>2. CASE line' # line
    <3>1. Held \/ BatchIsOf(task[i].batch, context)
      BY <1>1, <2>2 DEF FreshInv
    <3> QED
      BY <1>1, <1>3, <1>4, <2>2, <3>1, ServerIsBehind, AppliedPrices DEF FreshInv
  <2> QED
    BY <2>1, <2>2
<1>7. ASSUME ~Held', NEW j \in Listeners, task'[j].own, task'[j].phase = "answer"
      PROVE  BatchIsOf(task'[j].batch, context')
  <2>1. CASE j # i
    BY <1>2, <1>3, <1>4, <1>7, <2>1 DEF FreshInv
  <2>2. CASE j = i
    <3>1. task'[j].batch = Batch(task[i].batch.applied, task[i].batch.gen)
      BY <1>1, <1>2, <1>7, <2>2
    <3>2. srv.context = context
      BY <1>4, <1>7, ServerIsBehind
    <3>3. PricesAre(srv.line, srv.context)
      BY DEF FreshInv
    <3>4. BatchIsOf(Batch(task[i].batch.applied, task[i].batch.gen), srv.context)
      BY <3>3, AnswersAreOf
    <3> QED
      BY <1>3, <3>1, <3>2, <3>4
  <2> QED
    BY <2>1, <2>2
<1> QED
  BY <1>3, <1>5, <1>6, <1>7 DEF FreshInv

\* What operations and the user show comes from the server or was there before.
LEMMA LinesShown ==
  ASSUME SessionInv, ContextInv, FreshInv, FaultKinds \subseteq {"batch"}, "text" \notin Gestures, OpStep \/ UserStep
  PROVE  line' = line \/ PricesAre(line', context)
<1>0. Queued.price = None
  BY DEF Queued
<1>1. CASE ResetForRestart
  <2>1. line' = [l \in Lines |-> IF FALSE /\ line[l].status = "done" THEN line[l] ELSE Queued]
    BY <1>1 DEF ResetForRestart, ResetLines
  <2> QED
    BY <1>0, <2>1 DEF PricesAre
<1>2. CASE ToTable
  <2>1. line' = [l \in Lines |-> IF srv.line[l].status = "done" THEN srv.line[l] ELSE Queued] /\ view = "text"
    BY <1>2 DEF ToTable
  <2>2. srv.context = context
    <3>1. op["restart"].phase = "idle" /\ ~coalesce.timer
      BY <2>1, Unfailing
    <3> QED
      BY <3>1 DEF ContextInv, Owed
  <2>3. PricesAre(srv.line, context)
    BY <2>2 DEF FreshInv
  <2> QED
    BY <1>0, <2>1, <2>3 DEF PricesAre
<1>3. ASSUME NEW o \in Ops, BeginPersist(o) \/ SendPut(o) \/ HandlePut(o) \/ PutDone(o) \/ HandleStart(o)
      PROVE  line' = line
  BY <1>3 DEF BeginPersist, SendPut, HandlePut, PutDone, HandleStart, table
<1>4. CASE CalculationStarted \/ RestartStarted \/ TimerFires \/ EndRestart
  BY <1>4 DEF CalculationStarted, RestartStarted, TimerFires, EndRestart, table
<1>5. CASE ChangeContext \/ Recalculate \/ Save \/ Render \/ GoAway \/ ComeBack
  BY <1>5 DEF ChangeContext, Recalculate, Save, Render, GoAway, ComeBack, table
<1> QED
  BY <1>1, <1>2, <1>3, <1>4, <1>5, Unfailing DEF OpStep, OpTurn, UserStep

\* Nobody holds an old batch beside a restart whose save has ended.
LEMMA NoBatchIsLeft ==
  ASSUME SessionInv, ContextInv, HearInv, FaultKinds \subseteq {"batch"}, "text" \notin Gestures, PutDone("restart")
  PROVE  \A i \in Listeners : ~(task'[i].own /\ task'[i].phase = "answer")
<1>1. view # "text" /\ StartListener(ctrl, task, ShouldWait) /\ Sending
  <2>1. op["restart"].phase = "saved"
    BY DEF PutDone
  <2> QED
    BY <2>1, Unfailing DEF PutDone, Sending
<1>2. CASE ShouldWait
  <2>1. PICK i \in Listeners : task' = [Disowned(task) EXCEPT ![i] = Looping]
    BY <1>1, <1>2, StartedAlone
  <2>2. \A j \in Listeners : task'[j] = IF j = i THEN Looping ELSE Disowned(task)[j]
    BY <2>1 DEF Disowned
  <2> QED
    BY <2>2, TaskShapes
<1>3. CASE ~ShouldWait
  <2>1. task' = task /\ \A i \in Listeners : ~Hearing(i)
    BY <1>1, <1>3 DEF StartListener, HearInv
  <2> QED
    BY <2>1 DEF Hearing
<1> QED
  BY <1>2, <1>3

LEMMA FreshOp ==
  ASSUME SessionInv, ContextInv, HearInv, FreshInv, FaultKinds \subseteq {"batch"}, "text" \notin Gestures,
         reading.phase = "none", op["restart"].phase # "status" \/ EndRestart, OpStep \/ UserStep
  PROVE  FreshInv'
<1>1. /\ Held /\ ~PutDone("restart") => Held'
      /\ Settling => Settling'
      /\ context' # context => Held' /\ Settling'
  BY HeldStays
<1>2. PricesAre(srv'.line, srv'.context)
  BY ServerPrices DEF FreshInv
<1>3. reading'.phase \in {"none", "sent"}
  <2>1. Synchronize => UNCHANGED reading \/ \E caller : Reconcile(caller)
    BY DEF Synchronize
  <2>2. UNCHANGED reading \/ \E caller : Reconcile(caller)
    <3>1. ASSUME NEW o \in Ops, BeginPersist(o) \/ SendPut(o) \/ HandlePut(o) \/ PutDone(o) \/ HandleStart(o)
          PROVE  UNCHANGED reading \/ \E caller : Reconcile(caller)
      BY <3>1 DEF BeginPersist, SendPut, HandlePut, PutDone, HandleStart
    <3>2. CASE CalculationStarted \/ ResetForRestart \/ RestartStarted \/ TimerFires \/ EndRestart
      BY <3>2 DEF CalculationStarted, ResetForRestart, RestartStarted, TimerFires, EndRestart
    <3>3. CASE UserStep
      BY <2>1, <3>3 DEF UserStep, ToTable, ChangeContext, Recalculate, Save, Render, GoAway, ComeBack, ToText
    <3> QED
      BY <3>1, <3>2, <3>3, Unfailing DEF OpStep, OpTurn
  <2> QED
    BY <2>2, ReadingSent
<1>4. Settling' \/ PricesAre(line', context')
  BY <1>1, LinesShown DEF FreshInv
<1>5. ASSUME ~Held', NEW i \in Listeners, task'[i].own, task'[i].phase = "answer"
      PROVE  BatchIsOf(task'[i].batch, context')
  <2>1. ~Held /\ context' = context
    BY <1>1, <1>5, NoBatchIsLeft
  <2>2. task[i].own /\ task[i].phase = "answer" /\ task'[i].batch = task[i].batch
    BY <1>5, BatchesKept
  <2> QED
    BY <2>1, <2>2 DEF FreshInv
<1> QED
  BY <1>2, <1>3, <1>4, <1>5 DEF FreshInv

LEMMA FreshStep ==
  ASSUME SessionInv, ContextInv, HearInv, FreshInv, [Next]_vars, PromptStatus,
         FaultKinds \subseteq {"batch"}, "text" \notin Gestures
  PROVE  FreshInv'
<1>1. CASE UNCHANGED vars
  BY <1>1 DEF vars, ui, table, FreshInv, Held, Settling, Owed, Working
<1>2. CASE ReadStep
  BY <1>2, FreshRead
<1>3. CASE GoOn /\ reading.phase = "none"
  <2>1. ASSUME NEW i \in Listeners, Applied(i) \/ Finalize(i)
        PROVE  FreshInv'
    BY <1>3, <2>1, FreshListener DEF ListenerStep
  <2>2. CASE EndRestart
    BY <1>3, <2>2, FreshOp DEF OpStep
  <2> QED
    BY <1>3, <2>1, <2>2, Unfailing DEF GoOn
<1>4. CASE ~Awaits /\ reading.phase = "none" /\ (ServerStep \/ OpTurn \/ UserStep \/ \E i \in Listeners : ListenerTurn(i))
  <2>1. op["restart"].phase # "status"
    BY <1>4 DEF Awaits
  <2>2. CASE ServerStep
    <3>1. UNCHANGED <<line, context, task, op, coalesce, reading>>
      BY <2>2 DEF ServerStep, Enqueue, Calculate, table, ui
    <3>2. PricesAre(srv'.line, srv'.context)
      BY <2>2, ServerPrices DEF FreshInv
    <3> QED
      BY <1>4, <3>1, <3>2 DEF FreshInv, Held, Settling, Owed, Working
  <2>3. ASSUME NEW i \in Listeners, ListenerTurn(i)
        PROVE  FreshInv'
    BY <1>4, <2>1, <2>3, FreshListener DEF ListenerStep
  <2>4. CASE OpTurn \/ UserStep
    BY <1>4, <2>1, <2>4, FreshOp DEF OpStep
  <2> QED
    BY <1>4, <2>2, <2>3, <2>4
<1> QED
  BY <1>1, <1>2, <1>3, <1>4 DEF Next

\* While saves and starts succeed, status reads are prompt and the user stays out of the text
\* view: once all is quiet no price in the table is of another district or FGIS set than the one
\* chosen, however many changes, restarts, recalculations, saves and redraws overlap and however
\* many requests for batches fail (runFastEstimateCalculationRestart reads the statuses last).
THEOREM PricesAreFresh ==
  ASSUME PromptStatus, FaultKinds \subseteq {"batch"}, "text" \notin Gestures
  PROVE  Spec => []FreshPrices
<1>1. Init => ContextInv /\ HearInv /\ FreshInv
  <2> SUFFICES ASSUME Init
               PROVE  ContextInv /\ HearInv /\ FreshInv
    OBVIOUS
  <2>1. op["restart"].phase = "idle" /\ ~coalesce.timer /\ srv.context = context /\ reading.phase = "none"
    BY DEF Init, NoOp, Ops, NoReading
  <2>2. \A i \in Listeners : task[i].phase = "idle"
    BY DEF Init, NoTask
  <2>3. ContextInv
    BY DEF Init, ContextInv, Owed, NoOp, Ops
  <2>4. HearInv
    BY <2>1, <2>2 DEF HearInv, Working, Sending, Awaiting
  <2>5. PricesAre(srv.line, srv.context) /\ PricesAre(line, context)
    BY DEF Init, PricesAre, Blank
  <2> QED
    BY <2>1, <2>2, <2>3, <2>4, <2>5 DEF FreshInv
<1>2. SessionInv /\ ContextInv /\ HearInv /\ FreshInv /\ [Next]_vars => ContextInv' /\ HearInv' /\ FreshInv'
  BY ContextStep, HearStep, FreshStep
<1>3. FreshInv => FreshPrices
  BY DEF FreshInv, Settling, Owed, Working, PricesAre, FreshPrices, Quiet, Ops
<1> QED
  BY <1>1, <1>2, <1>3, SessionInvHolds, PTL DEF Spec
=============================================================================
