---------------------------- MODULE TablesProofs -----------------------------
(***************************************************************************)
(* Proofs about what web/app.js shows in tables: the rows of an estimate   *)
(* (TableBody), for every number of lines, every threshold, chunk and      *)
(* window; the panels of the base (BasePanels), for all supplements, price *)
(* sets and searches; and the positions added from the base and the buffer *)
(* (PositionBuffer), for all estimates, norms and own positions.  Any      *)
(* number of gestures, calculations, answers and failures.                 *)
(***************************************************************************)
EXTENDS TableBody, BasePanels, PositionBuffer, SequenceTheorems, FiniteSetTheorems, WellFoundedInduction, TLAPS

-----------------------------------------------------------------------------
(* The rows of an estimate: types, and the invariant.                      *)

LineRecord == [id : LineIds, round : Nat]
BodyRecord == [rows : Seq(LineRecord), ready : BOOLEAN, top : Nat]
FrameRecord == [kind : {"step", "refresh", "visible"}, from : Nat, live : BOOLEAN]

BodyTyped ==
  /\ items \in Seq(LineRecord)
  /\ estimate \in [large : BOOLEAN, round : Nat \ {0}]
  /\ body \in BodyRecord
  /\ onScreen \in BOOLEAN
  /\ frames \in Seq(FrameRecord)
  /\ header \in [active : BOOLEAN, timer : BOOLEAN, remount : BOOLEAN]
  /\ saving \in Nat /\ stale \in BOOLEAN

\* The lines have distinct ids.
Distinct(all) == \A j, k \in 1..Len(all) : all[j].id = all[k].id => j = k

\* The drawn rows are those of the first lines.
Begun(rows, all) ==
  /\ Len(rows) <= Len(all)
  /\ \A k \in 1..Len(rows) : rows[k].id = all[k].id

Wanted(fs) == {i \in 1..Len(fs) : fs[i].kind = "step" /\ fs[i].live}
Given(fs, kind) == \E i \in 1..Len(fs) : fs[i].kind = kind
Calculating(all) == \E k \in 1..Len(all) : all[k].round = 0

\* Either the body takes clicks, or one step is still wanted, which goes on where the rows end.
Stepping(b, fs, all) ==
  /\ Distinct(b.rows)
  /\ \A i, j \in Wanted(fs) : i = j
  /\ \A i \in Wanted(fs) :
       ~b.ready /\ fs[i].from = Len(b.rows) /\ Len(b.rows) < Len(all) /\ Begun(b.rows, all)
  /\ b.ready \/ Wanted(fs) # {}

\* A row that does not say what its line says is the row of a line that is done while others are
\* calculated, and if it is in view a callback will draw it again.
Excused(b, fs, all, ids, k) ==
  /\ all[k].round # 0 /\ Calculating(all)
  /\ k \in InView(b) => (Given(fs, "refresh") /\ all[k].id \in ids) \/ Given(fs, "visible")

Faithful(b, fs, all, ids) ==
  /\ Begun(b.rows, all)
  /\ Wanted(fs) = {} => Len(b.rows) = Len(all)
  /\ \A k \in 1..Len(b.rows) : b.rows[k] = all[k] \/ Excused(b, fs, all, ids, k)

\* The table is what the last change made it: no save of a change is awaited, none has failed
\* since, and no drawing is put off.
Current == onScreen /\ ~stale /\ ~header.remount /\ saving = 0

BodyInv ==
  /\ BodyTyped
  /\ Distinct(items)
  /\ onScreen \/ ~header.active
  /\ Stepping(body, frames, items)
  /\ Current => Faithful(body, frames, items, pending)

-----------------------------------------------------------------------------
(* The frames.                                                             *)

LEMMA CancelledIs ==
  ASSUME NEW fs \in Seq(FrameRecord)
  PROVE  /\ Cancelled(fs) \in Seq(FrameRecord) /\ Len(Cancelled(fs)) = Len(fs)
         /\ Wanted(Cancelled(fs)) = {}
<1>1. \A i \in 1..Len(fs) :
        Cancelled(fs)[i] = IF fs[i].kind = "step" THEN [fs[i] EXCEPT !.live = FALSE] ELSE fs[i]
  BY DEF Cancelled
<1>2. \A i \in 1..Len(fs) : fs[i] \in FrameRecord /\ Cancelled(fs)[i] \in FrameRecord
  <2> TAKE i \in 1..Len(fs)
  <2>1. fs[i] \in FrameRecord
    OBVIOUS
  <2>2. fs[i].kind = "step" => [fs[i] EXCEPT !.live = FALSE] \in FrameRecord
    BY <2>1 DEF FrameRecord
  <2> QED
    BY <1>1, <2>1, <2>2
<1>3. Cancelled(fs) \in [1..Len(fs) -> FrameRecord] /\ Len(fs) \in Nat
  BY <1>2 DEF Cancelled
<1>4. Cancelled(fs) \in Seq(FrameRecord) /\ Len(Cancelled(fs)) = Len(fs)
  BY <1>3
<1>5. \A i \in 1..Len(fs) : ~(Cancelled(fs)[i].kind = "step" /\ Cancelled(fs)[i].live)
  <2> TAKE i \in 1..Len(fs)
  <2>1. fs[i] \in FrameRecord
    BY <1>2
  <2>2. [fs[i] EXCEPT !.live = FALSE].live = FALSE
    BY <2>1 DEF FrameRecord
  <2>3. CASE fs[i].kind = "step"
    BY <1>1, <2>2, <2>3
  <2>4. CASE fs[i].kind # "step"
    BY <1>1, <2>4
  <2> QED
    BY <2>3, <2>4
<1> QED
  BY <1>4, <1>5 DEF Wanted

\* A callback that is no step changes nothing of the drawing.
LEMMA FrameAdded ==
  ASSUME NEW fs \in Seq(FrameRecord), NEW kind \in {"refresh", "visible"}
  PROVE  LET more == Append(fs, Frame(kind)) IN
         /\ more \in Seq(FrameRecord) /\ Given(more, kind)
         /\ \A other : Given(fs, other) => Given(more, other)
         /\ \A b, all : Stepping(b, fs, all) => Stepping(b, more, all)
         /\ Wanted(more) = Wanted(fs)
<1> DEFINE more == Append(fs, Frame(kind))
<1>1. /\ Frame(kind) \in FrameRecord /\ Frame(kind).kind = kind /\ kind # "step"
      /\ more \in Seq(FrameRecord) /\ Len(more) = Len(fs) + 1 /\ Len(fs) \in Nat
      /\ more[Len(fs) + 1] = Frame(kind) /\ \A i \in 1..Len(fs) : more[i] = fs[i]
  BY DEF Frame, FrameRecord
<1>2. Wanted(more) = Wanted(fs)
  <2> SUFFICES ASSUME NEW i PROVE i \in Wanted(more) <=> i \in Wanted(fs)
    OBVIOUS
  <2>1. i \in 1..Len(more) <=> i \in 1..Len(fs) \/ i = Len(fs) + 1
    BY <1>1
  <2> HIDE DEF more
  <2> QED
    BY <1>1, <2>1 DEF Wanted
<1>3. \A i \in Wanted(fs) : more[i] = fs[i]
  BY <1>1 DEF Wanted
<1> HIDE DEF more
<1>4. \A b, all : Stepping(b, fs, all) => Stepping(b, more, all)
  BY <1>2, <1>3 DEF Stepping
<1>5. Given(more, kind)
  BY <1>1 DEF Given
<1>6. \A other : Given(fs, other) => Given(more, other)
  BY <1>1 DEF Given
<1> QED
  BY <1>1, <1>2, <1>4, <1>5, <1>6 DEF more

\* What is left when the first callback has run.
LEMMA FrameRun ==
  ASSUME NEW fs \in Seq(FrameRecord), fs # <<>>
  PROVE  /\ Head(fs) \in FrameRecord /\ Tail(fs) \in Seq(FrameRecord)
         /\ \A kind : Given(fs, kind) /\ Head(fs).kind # kind => Given(Tail(fs), kind)
         /\ \A i \in Wanted(Tail(fs)) : i + 1 \in Wanted(fs) /\ Tail(fs)[i] = fs[i + 1]
         /\ \A i \in Wanted(fs) : i # 1 => i - 1 \in Wanted(Tail(fs))
         /\ 1 \in Wanted(fs) <=> Head(fs).kind = "step" /\ Head(fs).live
         /\ 1 \notin Wanted(fs) => (Wanted(fs) = {} <=> Wanted(Tail(fs)) = {})
<1>1. /\ Len(fs) \in Nat \ {0} /\ Head(fs) = fs[1] /\ Head(fs) \in FrameRecord
      /\ Tail(fs) \in Seq(FrameRecord) /\ Len(Tail(fs)) = Len(fs) - 1
      /\ \A i \in 1..Len(Tail(fs)) : Tail(fs)[i] = fs[i + 1]
  BY EmptySeq, HeadTailProperties
<1>2. \A kind : Given(fs, kind) /\ Head(fs).kind # kind => Given(Tail(fs), kind)
  <2> SUFFICES ASSUME NEW kind, NEW i \in 1..Len(fs), fs[i].kind = kind, Head(fs).kind # kind
               PROVE  \E j \in 1..Len(Tail(fs)) : Tail(fs)[j].kind = kind
    BY DEF Given
  <2>1. i # 1
    BY <1>1
  <2>2. i - 1 \in 1..Len(Tail(fs)) /\ (i - 1) + 1 = i
    BY <1>1, <2>1
  <2>3. Tail(fs)[i - 1] = fs[i]
    BY <1>1, <2>2
  <2> QED
    BY <2>2, <2>3
<1>3. \A i \in Wanted(Tail(fs)) : i + 1 \in Wanted(fs) /\ Tail(fs)[i] = fs[i + 1]
  <2> TAKE i \in Wanted(Tail(fs))
  <2>1. i \in 1..Len(Tail(fs)) /\ Tail(fs)[i].kind = "step" /\ Tail(fs)[i].live
    BY DEF Wanted
  <2>2. i + 1 \in 1..Len(fs) /\ Tail(fs)[i] = fs[i + 1]
    BY <1>1, <2>1
  <2> QED
    BY <2>1, <2>2 DEF Wanted
<1>4. \A i \in Wanted(fs) : i # 1 => i - 1 \in Wanted(Tail(fs))
  <2> SUFFICES ASSUME NEW i \in Wanted(fs), i # 1 PROVE i - 1 \in Wanted(Tail(fs))
    OBVIOUS
  <2>1. i \in 1..Len(fs) /\ fs[i].kind = "step" /\ fs[i].live
    BY DEF Wanted
  <2>2. i - 1 \in 1..Len(Tail(fs)) /\ (i - 1) + 1 = i
    BY <1>1, <2>1
  <2>3. Tail(fs)[i - 1] = fs[i]
    BY <1>1, <2>2
  <2> QED
    BY <2>1, <2>2, <2>3 DEF Wanted
<1>5. 1 \in Wanted(fs) <=> Head(fs).kind = "step" /\ Head(fs).live
  BY <1>1 DEF Wanted
<1>6. 1 \notin Wanted(fs) => (Wanted(fs) = {} <=> Wanted(Tail(fs)) = {})
  BY <1>3, <1>4
<1> QED
  BY <1>1, <1>2, <1>3, <1>4, <1>5, <1>6

\* A callback that draws no new row leaves the drawing where it was.
LEMMA StepsStay ==
  ASSUME NEW fs \in Seq(FrameRecord), fs # <<>>, NEW b, NEW all, Stepping(b, fs, all),
         ~(Head(fs).kind = "step" /\ Head(fs).live)
  PROVE  Stepping(b, Tail(fs), all) /\ (Wanted(fs) = {} <=> Wanted(Tail(fs)) = {})
<1>1. 1 \notin Wanted(fs)
  BY FrameRun
<1>2. Wanted(fs) = {} <=> Wanted(Tail(fs)) = {}
  BY <1>1, FrameRun
<1>3. \A i, j \in Wanted(Tail(fs)) : i = j
  <2> TAKE i, j \in Wanted(Tail(fs))
  <2>1. i + 1 \in Wanted(fs) /\ j + 1 \in Wanted(fs) /\ i \in Nat /\ j \in Nat
    BY FrameRun DEF Wanted
  <2>2. i + 1 = j + 1
    BY <2>1 DEF Stepping
  <2> QED
    BY <2>1, <2>2
<1>4. \A i \in Wanted(Tail(fs)) :
        ~b.ready /\ Tail(fs)[i].from = Len(b.rows) /\ Len(b.rows) < Len(all) /\ Begun(b.rows, all)
  <2> TAKE i \in Wanted(Tail(fs))
  <2>1. i + 1 \in Wanted(fs) /\ Tail(fs)[i] = fs[i + 1]
    BY FrameRun
  <2> QED
    BY <2>1 DEF Stepping
<1> QED
  BY <1>2, <1>3, <1>4 DEF Stepping

-----------------------------------------------------------------------------
(* The rows.                                                               *)

LEMMA RowsInView ==
  ASSUME NEW b \in BodyRecord
  PROVE  /\ Len(b.rows) \in Nat /\ b.rows \in Seq(LineRecord)
         /\ \A k \in 1..Len(b.rows) : b.rows[k] \in LineRecord
         /\ InView(b) = {k \in 1..Len(b.rows) : b.top + 1 <= k /\ k <= b.top + Window}
<1>1. Len(b.rows) \in Nat /\ b.rows \in Seq(LineRecord) /\ b.top \in Nat /\ Window \in Nat
  BY ThresholdAssumption DEF BodyRecord
<1>2. \A k \in 1..Len(b.rows) : b.rows[k] \in LineRecord
  BY <1>1
<1> QED
  BY <1>1, <1>2 DEF InView

\* Rows drawn again keep their ids, and say what the line of the same id says.
LEMMA RefreshedIs ==
  ASSUME NEW b \in BodyRecord, NEW all \in Seq(LineRecord), NEW places, Distinct(all)
  PROVE  LET c == Refreshed(b, places, all) IN
         /\ c \in BodyRecord /\ c.ready = b.ready /\ c.top = b.top /\ Len(c.rows) = Len(b.rows)
         /\ InView(c) = InView(b)
         /\ \A k \in 1..Len(b.rows) : c.rows[k].id = b.rows[k].id
         /\ \A k \in 1..Len(b.rows) : k \notin places => c.rows[k] = b.rows[k]
         /\ \A k \in 1..Len(b.rows), j \in 1..Len(all) :
              k \in places /\ all[j].id = b.rows[k].id => c.rows[k] = all[j]
<1> DEFINE c == Refreshed(b, places, all)
           same(k) == {j \in 1..Len(all) : all[j].id = b.rows[k].id}
<1>0. Len(all) \in Nat /\ \A j \in 1..Len(all) : all[j] \in LineRecord
  OBVIOUS
<1>1. /\ Len(b.rows) \in Nat /\ b.rows \in Seq(LineRecord) /\ Len(all) \in Nat
      /\ \A k \in 1..Len(b.rows) : b.rows[k] \in LineRecord
      /\ \A j \in 1..Len(all) : all[j] \in LineRecord
  BY <1>0, RowsInView
<1>2. \A k \in 1..Len(b.rows) : \A j \in same(k) : Max(same(k)) = j
  <2> TAKE k \in 1..Len(b.rows)
  <2> TAKE j \in same(k)
  <2>1. same(k) = {j}
    BY DEF Distinct
  <2>2. j \in Int
    BY <1>1
  <2>3. \A x \in {j} : (\A y \in {j} : x >= y) <=> x = j
    BY <2>2
  <2>4. Max({j}) = j
    BY <2>3 DEF Max
  <2> QED
    BY <2>1, <2>4
<1>3. c = [b EXCEPT !.rows = [k \in 1..Len(b.rows) |->
             IF k \in places /\ same(k) # {} THEN all[Max(same(k))] ELSE b.rows[k]]]
  BY DEF Refreshed
<1>4. c.rows = [k \in 1..Len(b.rows) |->
             IF k \in places /\ same(k) # {} THEN all[Max(same(k))] ELSE b.rows[k]]
      /\ c.ready = b.ready /\ c.top = b.top /\ b.ready \in BOOLEAN /\ b.top \in Nat
  BY <1>3 DEF BodyRecord
<1>5. \A k \in 1..Len(b.rows) : c.rows[k] = IF k \in places /\ same(k) # {} THEN all[Max(same(k))] ELSE b.rows[k]
  BY <1>4
<1>6. \A k \in 1..Len(b.rows) : c.rows[k] \in LineRecord /\ c.rows[k].id = b.rows[k].id
  <2> TAKE k \in 1..Len(b.rows)
  <2>1. CASE k \in places /\ same(k) # {}
    <3>1. PICK j \in same(k) : TRUE
      BY <2>1
    <3>2. c.rows[k] = all[j] /\ j \in 1..Len(all) /\ all[j].id = b.rows[k].id
      BY <1>2, <1>5, <2>1, <3>1
    <3> QED
      BY <1>1, <3>2
  <2>2. CASE ~(k \in places /\ same(k) # {})
    BY <1>1, <1>5, <2>2
  <2> QED
    BY <2>1, <2>2
<1>7. c.rows \in [1..Len(b.rows) -> LineRecord]
  BY <1>4, <1>6
<1>8. c.rows \in Seq(LineRecord) /\ Len(c.rows) = Len(b.rows)
  BY <1>1, <1>7
<1>9. c \in BodyRecord
  <2>1. c = [rows |-> c.rows, ready |-> b.ready, top |-> b.top]
    BY <1>3, <1>4 DEF BodyRecord
  <2> HIDE DEF c
  <2> QED
    BY <1>4, <1>8, <2>1 DEF BodyRecord
<1>10. InView(c) = InView(b)
  BY <1>4, <1>8 DEF InView
<1>11. \A k \in 1..Len(b.rows), j \in 1..Len(all) :
         k \in places /\ all[j].id = b.rows[k].id => c.rows[k] = all[j]
  BY <1>2, <1>5
<1>12. \A k \in 1..Len(b.rows) : k \notin places => c.rows[k] = b.rows[k]
  BY <1>5
<1> HIDE DEF c
<1> QED
  BY <1>4, <1>6, <1>8, <1>9, <1>10, <1>11, <1>12 DEF c

\* Drawing goes on the same way when the rows and the lines keep their ids.
LEMMA SteppingKept ==
  ASSUME NEW b, NEW c, NEW fs, NEW old, NEW new, Stepping(b, fs, old),
         c.ready = b.ready, Len(c.rows) = Len(b.rows), Len(new) = Len(old), Len(b.rows) \in Nat, Len(old) \in Nat,
         \A k \in 1..Len(b.rows) : c.rows[k].id = b.rows[k].id,
         \A k \in 1..Len(old) : new[k].id = old[k].id
  PROVE  Stepping(c, fs, new)
<1>1. Distinct(c.rows)
  BY DEF Stepping, Distinct
<1>2. Begun(b.rows, old) => Begun(c.rows, new)
  BY DEF Begun
<1> QED
  BY <1>1, <1>2 DEF Stepping

-----------------------------------------------------------------------------
(* Mounting.                                                               *)

LEMMA MountIs ==
  ASSUME NEW b \in BodyRecord, NEW fs \in Seq(FrameRecord), NEW all \in Seq(LineRecord), Distinct(all)
  PROVE  /\ Mounted(b, all) \in BodyRecord /\ MountFrames(fs, all) \in Seq(FrameRecord)
         /\ Stepping(Mounted(b, all), MountFrames(fs, all), all)
         /\ \A ids : Faithful(Mounted(b, all), MountFrames(fs, all), all, ids)
<1> DEFINE c == Mounted(b, all)
           gs == MountFrames(fs, all)
<1>1. Len(all) \in Nat /\ Threshold \in Nat /\ \A k \in 1..Len(all) : all[k] \in LineRecord
  BY ThresholdAssumption
<1>2. CASE Len(all) <= Threshold
  <2>1. c = [b EXCEPT !.rows = all, !.ready = TRUE] /\ gs = Cancelled(fs)
    BY <1>2 DEF Mounted, MountFrames
  <2>2. c \in BodyRecord /\ c.rows = all /\ c.ready
    BY <2>1 DEF BodyRecord
  <2>3. gs \in Seq(FrameRecord) /\ Wanted(gs) = {}
    BY <2>1, CancelledIs
  <2> HIDE DEF c, gs
  <2>4. Stepping(c, gs, all)
    BY <2>2, <2>3 DEF Stepping
  <2>5. \A ids : Faithful(c, gs, all, ids)
    BY <1>1, <2>2, <2>3 DEF Faithful, Begun
  <2> QED
    BY <2>2, <2>3, <2>4, <2>5 DEF c, gs
<1>3. CASE ~(Len(all) <= Threshold)
  <2>1. c = [b EXCEPT !.rows = <<>>, !.ready = FALSE, !.top = 0] /\ gs = Append(Cancelled(fs), Step(0))
    BY <1>3 DEF Mounted, MountFrames
  <2>2. c \in BodyRecord /\ c.rows = <<>> /\ ~c.ready /\ Len(c.rows) = 0
    <3>1. c.rows = <<>> /\ c.ready = FALSE /\ c.top = 0
      BY <2>1 DEF BodyRecord
    <3>2. c = [rows |-> <<>>, ready |-> FALSE, top |-> 0]
      BY <2>1 DEF BodyRecord
    <3>3. <<>> \in Seq(LineRecord) /\ Len(<<>>) = 0
      OBVIOUS
    <3> HIDE DEF c
    <3> QED
      BY <3>1, <3>2, <3>3 DEF BodyRecord
  <2>3. /\ Cancelled(fs) \in Seq(FrameRecord) /\ Len(Cancelled(fs)) \in Nat /\ Wanted(Cancelled(fs)) = {}
    BY CancelledIs
  <2>4. /\ Step(0) \in FrameRecord /\ Step(0).kind = "step" /\ Step(0).live /\ Step(0).from = 0
    BY DEF Step, FrameRecord
  <2> DEFINE n == Len(Cancelled(fs)) + 1
  <2>5. /\ gs \in Seq(FrameRecord) /\ Len(gs) = n /\ n \in 1..Len(gs) /\ gs[n] = Step(0)
        /\ \A i \in 1..Len(gs) : i # n => i \in 1..Len(Cancelled(fs)) /\ gs[i] = Cancelled(fs)[i]
    BY <2>1, <2>3, <2>4
  <2> HIDE DEF c, gs, n
  <2>6. Wanted(gs) = {n}
    BY <2>3, <2>4, <2>5 DEF Wanted
  <2>7. Distinct(c.rows) /\ Begun(c.rows, all) /\ Len(c.rows) < Len(all)
    BY <1>1, <1>3, <2>2 DEF Distinct, Begun
  <2>8. Stepping(c, gs, all)
    BY <2>2, <2>4, <2>5, <2>6, <2>7 DEF Stepping
  <2>9. \A ids : Faithful(c, gs, all, ids)
    BY <2>2, <2>6, <2>7 DEF Faithful
  <2> QED
    BY <2>2, <2>5, <2>8, <2>9 DEF c, gs
<1> QED
  BY <1>2, <1>3

\* mountEditorContent draws the table, or leaves it as it is and remembers to.
LEMMA ContentMounted ==
  ASSUME BodyTyped, Distinct(items), MountContent(FALSE)
  PROVE  /\ body' \in BodyRecord /\ frames' \in Seq(FrameRecord) /\ stale' \in BOOLEAN
         /\ header' \in [active : BOOLEAN, timer : BOOLEAN, remount : BOOLEAN]
         /\ Stepping(body, frames, items) => Stepping(body', frames', items)
         /\ header'.remount \/ \A ids : Faithful(body', frames', items, ids)
         /\ header.active => header'.active
         /\ header'.active => header.active
<1> USE DEF BodyTyped
<1>1. CASE header.active
  <2>1. header' = [header EXCEPT !.remount = TRUE] /\ UNCHANGED <<body, frames, stale>>
    BY <1>1 DEF MountContent
  <2> QED
    BY <1>1, <2>1
<1>2. CASE ~header.active
  <2> DEFINE b == [body EXCEPT !.top = 0]
             fs == MountFrames(frames, items)
  <2>1. /\ header' = [header EXCEPT !.remount = FALSE, !.active = FALSE]
        /\ body' = Mounted(b, items) /\ frames' = MountFrames(fs, items) /\ stale' = FALSE
    BY <1>2 DEF MountContent
  <2>2. b \in BodyRecord
    BY DEF BodyRecord
  <2>3. fs \in Seq(FrameRecord)
    BY MountIs
  <2> HIDE DEF b, fs
  <2>4. /\ Mounted(b, items) \in BodyRecord /\ MountFrames(fs, items) \in Seq(FrameRecord)
        /\ Stepping(Mounted(b, items), MountFrames(fs, items), items)
        /\ \A ids : Faithful(Mounted(b, items), MountFrames(fs, items), items, ids)
    BY <2>2, <2>3, MountIs
  <2> QED
    BY <1>2, <2>1, <2>4
<1> QED
  BY <1>1, <1>2

-----------------------------------------------------------------------------
(* The initial states.                                                     *)

LEMMA BodyInvInit == BodyInit => BodyInv
<1> SUFFICES ASSUME BodyInit PROVE BodyInv
  OBVIOUS
<1>1. PICK ids \in OpenedLines :
        /\ items = [k \in 1..Len(ids) |-> [id |-> ids[k], round |-> 0]]
        /\ estimate \in [large : {FALSE, Len(ids) > Threshold}, round : {1}]
        /\ body = Mounted([rows |-> <<>>, ready |-> FALSE, top |-> 0], items)
        /\ frames = MountFrames(<<>>, items)
  BY DEF BodyInit
<1>2. ids \in Seq(LineIds) /\ IsInjective(ids)
  BY OpenedLinesAssumption
<1>3. Len(ids) \in Nat /\ DOMAIN ids = 1..Len(ids) /\ \A k \in 1..Len(ids) : ids[k] \in LineIds
  BY <1>2
<1>4. items \in Seq(LineRecord) /\ Len(items) = Len(ids)
  <2>1. items \in [1..Len(ids) -> LineRecord]
    BY <1>1, <1>3 DEF LineRecord
  <2> QED
    BY <1>1, <1>3, <2>1
<1>5. Distinct(items)
  BY <1>1, <1>2, <1>3, <1>4 DEF Distinct, IsInjective
<1> DEFINE b == [rows |-> <<>>, ready |-> FALSE, top |-> 0]
<1>6. b \in BodyRecord /\ <<>> \in Seq(FrameRecord)
  BY DEF BodyRecord
<1>7. body = Mounted(b, items)
  BY <1>1
<1> HIDE DEF b
<1>8. /\ body \in BodyRecord /\ frames \in Seq(FrameRecord) /\ Stepping(body, frames, items)
      /\ \A waiting : Faithful(body, frames, items, waiting)
  BY <1>1, <1>4, <1>5, <1>6, <1>7, MountIs
<1>9. estimate \in [large : BOOLEAN, round : Nat \ {0}]
  <2> DEFINE long == Len(ids) > Threshold
  <2>1. long \in BOOLEAN
    OBVIOUS
  <2> HIDE DEF long
  <2> DEFINE sizes == {FALSE, long}
  <2>2. estimate \in [large : sizes, round : {1}]
    BY <1>1 DEF long
  <2> HIDE DEF sizes
  <2>3. sizes \subseteq BOOLEAN
    BY <2>1 DEF sizes
  <2> QED
    BY <2>2, <2>3
<1> QED
  BY <1>4, <1>5, <1>8, <1>9 DEF BodyInit, BodyInv, BodyTyped, Current

-----------------------------------------------------------------------------
(* The callbacks.                                                          *)

\* A step that is wanted puts in the next lines as they are now.
LEMMA DrawnOn ==
  ASSUME BodyInv, frames # <<>>, Head(frames).kind = "step", Head(frames).live, Drawn(Head(frames))
  PROVE  /\ body' \in BodyRecord /\ frames' \in Seq(FrameRecord)
         /\ Stepping(body', frames', items)
         /\ Current => Faithful(body', frames', items, pending)
<1> DEFINE f == Head(frames)
           to == Fewer(f.from + Chunk, Len(items))
           html == SubSeq(items, f.from + 1, to)
           rest == Tail(frames)
<1>1. /\ items \in Seq(LineRecord) /\ body \in BodyRecord /\ frames \in Seq(FrameRecord)
      /\ Distinct(items) /\ Stepping(body, frames, items)
      /\ Current => Faithful(body, frames, items, pending)
  BY DEF BodyInv, BodyTyped
<1>2. /\ f = frames[1] /\ 1 \in Wanted(frames) /\ f \in FrameRecord
  BY <1>1, FrameRun, EmptySeq, HeadTailProperties
<1>3. /\ ~body.ready /\ f.from = Len(body.rows) /\ Len(body.rows) < Len(items) /\ Begun(body.rows, items)
  BY <1>1, <1>2 DEF Stepping
<1>4. /\ Len(body.rows) \in Nat /\ body.rows \in Seq(LineRecord) /\ Len(items) \in Nat
      /\ \A k \in 1..Len(items) : items[k] \in LineRecord
      /\ \A k \in 1..Len(body.rows) : body.rows[k] \in LineRecord
  <2>1. Len(items) \in Nat /\ \A k \in 1..Len(items) : items[k] \in LineRecord
    BY <1>1
  <2> QED
    BY <1>1, <2>1, RowsInView
<1>5. Chunk \in Nat \ {0} /\ to \in Nat /\ Len(body.rows) < to /\ to <= Len(items)
  BY <1>3, <1>4, ThresholdAssumption DEF Fewer
<1> DEFINE drawn == IF f.from = 0 THEN html ELSE body.rows \o html
<1>6. /\ html \in Seq(LineRecord) /\ Len(html) = to - Len(body.rows)
      /\ \A k \in 1..Len(html) : html[k] = items[Len(body.rows) + k]
  <2> DEFINE first == f.from + 1
  <2>1. first \in 1..Len(items) /\ to \in first..Len(items) /\ first = Len(body.rows) + 1 /\ first \in Int
    BY <1>3, <1>4, <1>5
  <2> HIDE DEF first, to
  <2> DEFINE part == SubSeq(items, first, to)
  <2>2. /\ part \in Seq(LineRecord) /\ Len(part) = to - first + 1
        /\ \A k \in 1..(to - first + 1) : part[k] = items[first + k - 1]
    <3>1. first \in Int /\ to \in Int /\ first <= to /\ \A k \in first..to : items[k] \in LineRecord
      BY <1>4, <2>1
    <3> QED
      BY <3>1, SubSeqProperties
  <2>3. html = part
    BY DEF first
  <2> HIDE DEF part, html
  <2>4. Len(html) = to - Len(body.rows)
    BY <1>4, <1>5, <2>1, <2>2, <2>3
  <2>5. \A k \in 1..Len(html) : first + k - 1 = Len(body.rows) + k
    BY <1>4, <2>1
  <2>6. Len(html) = to - first + 1
    BY <2>2, <2>3
  <2> QED
    BY <2>2, <2>3, <2>4, <2>5, <2>6
<1>7. /\ drawn \in Seq(LineRecord) /\ Len(drawn) = to
      /\ \A k \in 1..Len(body.rows) : drawn[k] = body.rows[k]
      /\ \A k \in 1..to : k > Len(body.rows) => drawn[k] = items[k]
  <2>1. CASE f.from = 0
    <3>1. drawn = html /\ Len(body.rows) = 0
      BY <1>3, <2>1
    <3> HIDE DEF drawn, html
    <3> QED
      BY <1>4, <1>5, <1>6, <3>1
  <2>2. CASE f.from # 0
    <3>1. /\ drawn \in Seq(LineRecord) /\ Len(drawn) = to
          /\ \A k \in 1..to : drawn[k] = IF k <= Len(body.rows) THEN body.rows[k] ELSE html[k - Len(body.rows)]
      <4>1. drawn = body.rows \o html
        BY <2>2
      <4> HIDE DEF drawn, html, to
      <4>2. body.rows \in Seq(LineRecord) /\ Len(body.rows) \in Nat /\ to \in Nat
        BY <1>4, <1>5
      <4>3. Len(body.rows) + Len(html) = to
        BY <1>6, <4>2
      <4>4. /\ drawn \in Seq(LineRecord) /\ Len(drawn) = Len(body.rows) + Len(html)
            /\ \A k \in 1..(Len(body.rows) + Len(html)) :
                 drawn[k] = IF k <= Len(body.rows) THEN body.rows[k] ELSE html[k - Len(body.rows)]
        BY <1>6, <4>1, <4>2, ConcatProperties
      <4> QED
        BY <4>3, <4>4
    <3>2. \A k \in 1..to : k > Len(body.rows) =>
            k - Len(body.rows) \in 1..Len(html) /\ Len(body.rows) + (k - Len(body.rows)) = k
      BY <1>4, <1>5, <1>6
    <3> HIDE DEF drawn, html
    <3>3. \A k \in 1..to : k > Len(body.rows) => drawn[k] = items[k]
      <4> TAKE k \in 1..to
      <4> SUFFICES ASSUME k > Len(body.rows) PROVE drawn[k] = items[k]
        OBVIOUS
      <4>1. drawn[k] = html[k - Len(body.rows)]
        BY <1>4, <1>5, <3>1
      <4> QED
        BY <1>6, <3>2, <4>1
    <3> QED
      BY <1>4, <1>5, <3>1, <3>3
  <2> QED
    BY <2>1, <2>2
<1> DEFINE over == to >= Len(items)
<1>8. /\ body' = [body EXCEPT !.rows = drawn, !.ready = over]
      /\ frames' = IF to < Len(items) THEN Append(rest, Step(to)) ELSE rest
  BY DEF Drawn
<1>9. rest \in Seq(FrameRecord) /\ Wanted(rest) = {}
  <2>1. rest \in Seq(FrameRecord) /\ Len(rest) \in Nat
    BY <1>1, FrameRun
  <2>2. \A i \in Wanted(rest) : FALSE
    <3> SUFFICES ASSUME NEW i \in Wanted(rest) PROVE FALSE
      OBVIOUS
    <3>1. i + 1 \in Wanted(frames) /\ i \in 1..Len(rest)
      BY <1>1, FrameRun DEF Wanted
    <3>2. i + 1 = 1
      BY <1>1, <1>2, <3>1 DEF Stepping
    <3> QED
      BY <2>1, <3>1, <3>2
  <2> QED
    BY <2>1, <2>2
<1>. over \in BOOLEAN
  OBVIOUS
<1> HIDE DEF f, to, html, drawn, rest, over
<1>10. /\ body' \in BodyRecord /\ body'.rows = drawn /\ body'.top = body.top
       /\ body'.ready <=> to >= Len(items)
  <2>1. body' \in BodyRecord /\ body'.rows = drawn /\ body'.top = body.top /\ body'.ready = over
    BY <1>1, <1>7, <1>8 DEF BodyRecord
  <2> QED
    BY <2>1 DEF over
<1>11. Begun(drawn, items) /\ Distinct(drawn)
  <2>1. Begun(drawn, items)
    BY <1>3, <1>4, <1>5, <1>7 DEF Begun
  <2> QED
    BY <1>1, <1>4, <1>5, <1>7, <2>1 DEF Begun, Distinct
<1>12. /\ frames' \in Seq(FrameRecord) /\ Len(rest) \in Nat
       /\ to < Len(items) =>
            /\ Wanted(frames') = {Len(rest) + 1} /\ frames'[Len(rest) + 1] = Step(to)
       /\ ~(to < Len(items)) => Wanted(frames') = {}
       /\ \A i \in 1..Len(rest) : i \in 1..Len(frames') /\ frames'[i] = rest[i]
  <2>1. Len(rest) \in Nat
    BY <1>9
  <2>2. Step(to) \in FrameRecord /\ Step(to).kind = "step" /\ Step(to).live
    BY <1>5 DEF Step, FrameRecord
  <2>3. CASE to < Len(items)
    <3>1. /\ frames' \in Seq(FrameRecord) /\ Len(frames') = Len(rest) + 1
          /\ frames'[Len(rest) + 1] = Step(to) /\ \A i \in 1..Len(rest) : frames'[i] = rest[i]
      BY <1>8, <1>9, <2>2, <2>3
    <3>2. \A i : i \in 1..Len(frames') <=> i \in 1..Len(rest) \/ i = Len(rest) + 1
      BY <2>1, <3>1
    <3>3. Wanted(frames') = {Len(rest) + 1}
      BY <1>9, <2>1, <2>2, <3>1, <3>2 DEF Wanted
    <3> QED
      BY <2>1, <2>3, <3>1, <3>2, <3>3
  <2>4. CASE ~(to < Len(items))
    BY <1>8, <1>9, <2>1, <2>4
  <2> QED
    BY <2>3, <2>4
<1>13. Stepping(body', frames', items)
  <2>1. Step(to).from = to
    BY DEF Step
  <2>2. CASE to < Len(items)
    <3>1. Wanted(frames') = {Len(rest) + 1} /\ frames'[Len(rest) + 1].from = to /\ ~body'.ready
      BY <1>4, <1>5, <1>10, <1>12, <2>1, <2>2
    <3> QED
      BY <1>7, <1>10, <1>11, <2>2, <3>1 DEF Stepping
  <2>3. CASE ~(to < Len(items))
    <3>1. Wanted(frames') = {} /\ body'.ready
      BY <1>4, <1>5, <1>10, <1>12, <2>3
    <3> QED
      BY <1>10, <1>11, <3>1 DEF Stepping
  <2> QED
    BY <2>2, <2>3
<1>14. ASSUME Current PROVE Faithful(body', frames', items, pending)
  <2>1. /\ \A k \in 1..Len(body.rows) : body.rows[k] = items[k] \/ Excused(body, frames, items, pending, k)
    BY <1>1, <1>14 DEF Faithful
  <2>2. \A kind \in {"refresh", "visible"} : Given(frames, kind) => Given(frames', kind)
    <3> TAKE kind \in {"refresh", "visible"}
    <3> SUFFICES ASSUME Given(frames, kind) PROVE Given(frames', kind)
      OBVIOUS
    <3>1. f.kind # kind
      BY DEF f
    <3>2. Given(rest, kind)
      BY <1>1, <3>1, FrameRun DEF f, rest
    <3> QED
      BY <1>12, <3>2 DEF Given
  <2>3. \A k \in 1..Len(body.rows) : k \in InView(body') => k \in InView(body)
    BY <1>1, <1>10, RowsInView
  <2>4. \A k \in 1..to : drawn[k] = items[k] \/ Excused(body', frames', items, pending, k)
    <3> TAKE k \in 1..to
    <3>1. CASE k > Len(body.rows)
      BY <1>7, <3>1
    <3>2. CASE k \in 1..Len(body.rows)
      <4>1. drawn[k] = body.rows[k]
        BY <1>7, <3>2
      <4>2. Excused(body, frames, items, pending, k) => Excused(body', frames', items, pending, k)
        BY <2>2, <2>3, <3>2 DEF Excused
      <4> QED
        BY <2>1, <3>2, <4>1, <4>2
    <3> QED
      BY <1>4, <1>5, <3>1, <3>2
  <2>5. Wanted(frames') = {} => to = Len(items)
    BY <1>4, <1>5, <1>12
  <2> QED
    BY <1>7, <1>10, <1>11, <2>4, <2>5 DEF Faithful
<1> QED
  BY <1>10, <1>12, <1>13, <1>14

\* Rows drawn again for the lines of now: the callback that has run was for those it draws.
LEMMA RowsRunRefreshed ==
  ASSUME BodyInv, frames # <<>>, NEW places, NEW ids,
         Head(frames).kind # "step", frames' = Tail(frames),
         body' = Refreshed(body, places, items),
         Current => \A k \in InView(body) : k \notin places /\ Excused(body, frames, items, pending, k) =>
           (Given(frames', "refresh") /\ items[k].id \in ids) \/ Given(frames', "visible")
  PROVE  /\ body' \in BodyRecord /\ frames' \in Seq(FrameRecord)
         /\ Stepping(body', frames', items)
         /\ Current => Faithful(body', frames', items, ids)
<1>1. /\ items \in Seq(LineRecord) /\ body \in BodyRecord /\ frames \in Seq(FrameRecord)
      /\ Distinct(items) /\ Stepping(body, frames, items)
      /\ Current => Faithful(body, frames, items, pending)
  BY DEF BodyInv, BodyTyped
<1>2. Len(items) \in Nat /\ Len(body.rows) \in Nat
  BY <1>1, RowsInView
<1>3. frames' \in Seq(FrameRecord) /\ Stepping(body, frames', items) /\ (Wanted(frames) = {} <=> Wanted(frames') = {})
  BY <1>1, FrameRun, StepsStay
<1>4. /\ body' \in BodyRecord /\ body'.ready = body.ready /\ Len(body'.rows) = Len(body.rows)
      /\ InView(body') = InView(body)
      /\ \A k \in 1..Len(body.rows) : body'.rows[k].id = body.rows[k].id
      /\ \A k \in 1..Len(body.rows) : k \notin places => body'.rows[k] = body.rows[k]
      /\ \A k \in 1..Len(body.rows), j \in 1..Len(items) :
           k \in places /\ items[j].id = body.rows[k].id => body'.rows[k] = items[j]
  BY <1>1, RefreshedIs
<1>5. Stepping(body', frames', items)
  BY <1>2, <1>3, <1>4, SteppingKept
<1>6. ASSUME Current PROVE Faithful(body', frames', items, ids)
  <2>1. Begun(body.rows, items) /\ (Wanted(frames) = {} => Len(body.rows) = Len(items))
        /\ \A k \in 1..Len(body.rows) : body.rows[k] = items[k] \/ Excused(body, frames, items, pending, k)
    BY <1>1, <1>6 DEF Faithful
  <2>2. Begun(body'.rows, items)
    BY <1>4, <2>1 DEF Begun
  <2>3. \A k \in 1..Len(body.rows) : body'.rows[k] = items[k] \/ Excused(body', frames', items, ids, k)
    <3> TAKE k \in 1..Len(body.rows)
    <3>1. k \in 1..Len(items) /\ items[k].id = body.rows[k].id
      BY <1>2, <2>1 DEF Begun
    <3>2. CASE k \in places
      BY <1>4, <3>1, <3>2
    <3>3. CASE k \notin places
      <4>1. body'.rows[k] = body.rows[k]
        BY <1>4, <3>3
      <4>2. Excused(body, frames, items, pending, k) => Excused(body', frames', items, ids, k)
        <5> SUFFICES ASSUME Excused(body, frames, items, pending, k) PROVE Excused(body', frames', items, ids, k)
          OBVIOUS
        <5>1. k \in InView(body) => (Given(frames', "refresh") /\ items[k].id \in ids) \/ Given(frames', "visible")
          BY <1>6, <3>3
        <5>2. items[k].round # 0 /\ Calculating(items)
          BY DEF Excused
        <5> QED
          BY <1>4, <5>1, <5>2 DEF Excused
      <4> QED
        BY <2>1, <4>1, <4>2
    <3> QED
      BY <3>2, <3>3
  <2> QED
    BY <1>3, <1>4, <2>1, <2>2, <2>3 DEF Faithful
<1> QED
  BY <1>3, <1>4, <1>5, <1>6

LEMMA FrameStep == BodyInv /\ RunFrame => BodyInv'
<1> SUFFICES ASSUME BodyInv, RunFrame PROVE BodyInv'
  OBVIOUS
<1> DEFINE f == Head(frames)
<1>1. frames # <<>> /\ UNCHANGED <<items, estimate, onScreen, header, saving, stale>>
  BY DEF RunFrame
<1>2. /\ items \in Seq(LineRecord) /\ body \in BodyRecord /\ frames \in Seq(FrameRecord)
      /\ Distinct(items) /\ Stepping(body, frames, items)
      /\ Current => Faithful(body, frames, items, pending)
      /\ f \in FrameRecord /\ Tail(frames) \in Seq(FrameRecord)
  BY <1>1, FrameRun DEF BodyInv, BodyTyped
<1>3. SUFFICES /\ body' \in BodyRecord /\ frames' \in Seq(FrameRecord)
               /\ Stepping(body', frames', items)
               /\ Current => Faithful(body', frames', items, pending')
  BY <1>1 DEF BodyInv, BodyTyped, Current
<1>4. CASE f.kind = "step" /\ f.live
  <2>1. Drawn(f) /\ UNCHANGED pending
    BY <1>4 DEF RunFrame
  <2> QED
    BY <1>1, <1>4, <2>1, DrawnOn
<1>5. CASE f.kind = "step" /\ ~f.live
  <2>1. frames' = Tail(frames) /\ UNCHANGED <<body, pending>>
    BY <1>5 DEF RunFrame, Drawn
  <2>2. Stepping(body, Tail(frames), items) /\ (Wanted(frames) = {} <=> Wanted(Tail(frames)) = {})
    BY <1>1, <1>2, <1>5, StepsStay
  <2>3. \A kind \in {"refresh", "visible"} : Given(frames, kind) => Given(Tail(frames), kind)
    BY <1>1, <1>2, <1>5, FrameRun
  <2>4. \A k : Excused(body, frames, items, pending, k) => Excused(body, Tail(frames), items, pending, k)
    BY <2>3 DEF Excused
  <2> QED
    BY <1>2, <2>1, <2>2, <2>4 DEF Faithful
<1>6. CASE f.kind = "refresh"
  <2> DEFINE places == {k \in InView(body) : body.rows[k].id \in pending}
  <2>1. /\ body' = IF onScreen THEN Refreshed(body, places, items) ELSE body
        /\ pending' = {} /\ frames' = Tail(frames)
    BY <1>6 DEF RunFrame, RefreshedIds
  <2>2. Given(frames, "visible") => Given(Tail(frames), "visible")
    BY <1>1, <1>2, <1>6, FrameRun
  <2>3. CASE onScreen
    <3>1. ASSUME Current, NEW k \in InView(body), k \notin places, Excused(body, frames, items, pending, k)
          PROVE  Given(frames', "visible")
      <4>1. k \in 1..Len(body.rows)
        BY <1>2, RowsInView
      <4>2. items[k].id = body.rows[k].id
        BY <1>2, <3>1, <4>1 DEF Faithful, Begun
      <4> QED
        BY <2>1, <2>2, <3>1, <4>2 DEF Excused
    <3> QED
      BY <1>1, <1>2, <1>6, <2>1, <2>3, <3>1, RowsRunRefreshed, StepsStay
  <2>4. CASE ~onScreen
    <3>1. Stepping(body, Tail(frames), items) /\ ~Current
      BY <1>1, <1>2, <1>6, <2>4, StepsStay DEF Current
    <3> QED
      BY <1>2, <2>1, <2>4, <3>1
  <2> QED
    BY <2>3, <2>4
<1>7. CASE f.kind = "visible"
  <2> DEFINE done == {items[k].id : k \in {j \in 1..Len(items) : items[j].round # 0}}
             places == {k \in InView(body) : body.rows[k].id \in done}
  <2>1. /\ body' = IF onScreen THEN Refreshed(body, places, items) ELSE body
        /\ pending' = pending /\ frames' = Tail(frames)
    BY <1>7 DEF RunFrame, RefreshedVisible
  <2>2. CASE onScreen
    <3>1. ASSUME Current, NEW k \in InView(body), k \notin places, Excused(body, frames, items, pending, k)
          PROVE  FALSE
      <4>1. k \in 1..Len(body.rows)
        BY <1>2, RowsInView
      <4>2. items[k].id = body.rows[k].id /\ k \in 1..Len(items)
        BY <1>2, <3>1, <4>1, RowsInView DEF Faithful, Begun
      <4> QED
        BY <3>1, <4>2 DEF Excused
    <3> QED
      BY <1>1, <1>2, <1>7, <2>1, <2>2, <3>1, RowsRunRefreshed
  <2>3. CASE ~onScreen
    <3>1. Stepping(body, Tail(frames), items) /\ ~Current
      BY <1>1, <1>2, <1>7, <2>3, StepsStay DEF Current
    <3> QED
      BY <1>2, <2>1, <2>3, <3>1
  <2> QED
    BY <2>2, <2>3
<1> QED
  BY <1>2, <1>4, <1>5, <1>6, <1>7 DEF FrameRecord

-----------------------------------------------------------------------------
(* The calculation.                                                        *)

LEMMA ResultsAre ==
  ASSUME BodyInv, NEW ids, items' = WithResults(ids)
  PROVE  /\ items' \in Seq(LineRecord) /\ Len(items') = Len(items) /\ Len(items) \in Nat /\ Distinct(items')
         /\ \A k \in 1..Len(items) : items'[k].id = items[k].id
         /\ \A k \in 1..Len(items) : items[k].id \in ids => items'[k].round # 0
         /\ \A k \in 1..Len(items) : items[k].id \notin ids => items'[k] = items[k]
<1>1. /\ items \in Seq(LineRecord) /\ Len(items) \in Nat /\ Distinct(items)
      /\ estimate.round \in Nat \ {0} /\ \A k \in 1..Len(items) : items[k] \in LineRecord
  BY DEF BodyInv, BodyTyped
<1>2. items' = [k \in 1..Len(items) |->
                  IF items[k].id \in ids THEN [items[k] EXCEPT !.round = estimate.round] ELSE items[k]]
  BY DEF WithResults
<1>3. \A k \in 1..Len(items) :
        /\ items'[k] \in LineRecord /\ items'[k].id = items[k].id
        /\ items[k].id \in ids => items'[k].round # 0
        /\ items[k].id \notin ids => items'[k] = items[k]
  <2> TAKE k \in 1..Len(items)
  <2>1. items[k] \in LineRecord
    BY <1>1
  <2>2. CASE items[k].id \in ids
    <3>1. items'[k] = [items[k] EXCEPT !.round = estimate.round]
      BY <1>2, <2>2
    <3> QED
      BY <1>1, <2>1, <2>2, <3>1 DEF LineRecord
  <2>3. CASE items[k].id \notin ids
    BY <1>2, <2>1, <2>3
  <2> QED
    BY <2>2, <2>3
<1>4. items' \in [1..Len(items) -> LineRecord]
  BY <1>2, <1>3
<1>5. items' \in Seq(LineRecord) /\ Len(items') = Len(items)
  BY <1>1, <1>2, <1>4
<1>6. Distinct(items')
  BY <1>1, <1>3, <1>5 DEF Distinct
<1> QED
  BY <1>1, <1>3, <1>5, <1>6

\* Lines that keep their ids do not disturb the drawing.
LEMMA SteppingOfLines ==
  ASSUME BodyInv, Len(items') = Len(items), \A k \in 1..Len(items) : items'[k].id = items[k].id
  PROVE  Stepping(body, frames, items')
<1>1. Len(items) \in Nat /\ Len(body.rows) \in Nat /\ Stepping(body, frames, items)
  BY RowsInView DEF BodyInv, BodyTyped
<1> QED
  BY <1>1, SteppingKept

\* Every row drawn again for lines that have kept their ids.
LEMMA AllRefreshed ==
  ASSUME BodyInv, items' \in Seq(LineRecord), Distinct(items'), Len(items') = Len(items),
         \A k \in 1..Len(items) : items'[k].id = items[k].id,
         body' = RefreshedAll(body, items')
  PROVE  /\ body' \in BodyRecord /\ Stepping(body', frames, items')
         /\ Current => \A ids : Faithful(body', frames, items', ids)
<1>1. /\ items \in Seq(LineRecord) /\ Len(items) \in Nat /\ body \in BodyRecord /\ Len(body.rows) \in Nat
      /\ Stepping(body, frames, items)
      /\ Current => Faithful(body, frames, items, pending)
  BY RowsInView DEF BodyInv, BodyTyped
<1>2. /\ body' \in BodyRecord /\ body'.ready = body.ready /\ Len(body'.rows) = Len(body.rows)
      /\ \A k \in 1..Len(body.rows) : body'.rows[k].id = body.rows[k].id
      /\ \A k \in 1..Len(body.rows), j \in 1..Len(items') :
           items'[j].id = body.rows[k].id => body'.rows[k] = items'[j]
  BY <1>1, RefreshedIs DEF RefreshedAll
<1>3. Stepping(body', frames, items')
  BY <1>1, <1>2, SteppingKept
<1>4. ASSUME Current PROVE \A ids : Faithful(body', frames, items', ids)
  <2>1. Begun(body.rows, items) /\ (Wanted(frames) = {} => Len(body.rows) = Len(items))
    BY <1>1, <1>4 DEF Faithful
  <2>2. \A k \in 1..Len(body.rows) : k \in 1..Len(items') /\ items'[k].id = body.rows[k].id
    BY <1>1, <2>1 DEF Begun
  <2>3. \A k \in 1..Len(body.rows) : body'.rows[k] = items'[k]
    BY <1>2, <2>2
  <2> QED
    BY <1>2, <2>1, <2>2, <2>3 DEF Faithful, Begun
<1> QED
  BY <1>2, <1>3, <1>4

LEMMA RefreshScheduled ==
  ASSUME frames \in Seq(FrameRecord)
  PROVE  /\ WithRefresh \in Seq(FrameRecord) /\ Given(WithRefresh, "refresh")
         /\ \A other : Given(frames, other) => Given(WithRefresh, other)
         /\ \A b, all : Stepping(b, frames, all) => Stepping(b, WithRefresh, all)
         /\ Wanted(WithRefresh) = Wanted(frames)
<1>1. CASE Scheduled("refresh")
  BY <1>1 DEF WithRefresh, Scheduled, Given
<1>2. CASE ~Scheduled("refresh")
  <2>1. WithRefresh = Append(frames, Frame("refresh"))
    BY <1>2 DEF WithRefresh
  <2> QED
    BY <2>1, FrameAdded
<1> QED
  BY <1>1, <1>2

\* A batch that leaves lines to calculate: its rows in view are drawn, now or in the next frame.
LEMMA BatchGoesOn ==
  ASSUME BodyInv, onScreen, NEW ids \in SUBSET InFlightIds, ids # InFlightIds,
         items' = WithResults(ids), AfterBatch(ids, items')
  PROVE  /\ body' \in BodyRecord /\ frames' \in Seq(FrameRecord)
         /\ Stepping(body', frames', items')
         /\ Current => Faithful(body', frames', items', pending')
<1>1. /\ items \in Seq(LineRecord) /\ Len(items) \in Nat /\ body \in BodyRecord /\ Len(body.rows) \in Nat
      /\ frames \in Seq(FrameRecord)
      /\ Stepping(body, frames, items)
      /\ Current => Faithful(body, frames, items, pending)
  BY RowsInView DEF BodyInv, BodyTyped
<1>2. /\ items' \in Seq(LineRecord) /\ Len(items') = Len(items) /\ Distinct(items')
      /\ \A k \in 1..Len(items) : items'[k].id = items[k].id
      /\ \A k \in 1..Len(items) : items[k].id \in ids => items'[k].round # 0
      /\ \A k \in 1..Len(items) : items[k].id \notin ids => items'[k] = items[k]
  BY ResultsAre
<1>3. Stepping(body, frames, items')
  BY <1>2, SteppingOfLines
<1>4. Calculating(items')
  <2>1. PICK x \in InFlightIds : x \notin ids
    OBVIOUS
  <2>2. PICK k \in 1..Len(items) : items[k].round = 0 /\ items[k].id = x
    BY <2>1 DEF InFlightIds
  <2> QED
    BY <1>2, <2>1, <2>2 DEF Calculating
<1>5. CASE estimate.large
  <2>1. pending' = pending \cup ids /\ frames' = WithRefresh /\ body' = body
    BY <1>5 DEF AfterBatch
  <2>2. /\ frames' \in Seq(FrameRecord) /\ Given(frames', "refresh")
        /\ Given(frames, "visible") => Given(frames', "visible")
        /\ Stepping(body, frames', items') /\ Wanted(frames') = Wanted(frames)
    BY <1>1, <1>3, <2>1, RefreshScheduled
  <2>3. ASSUME Current PROVE Faithful(body, frames', items', pending')
    <3>1. Begun(body.rows, items) /\ (Wanted(frames) = {} => Len(body.rows) = Len(items))
          /\ \A k \in 1..Len(body.rows) : body.rows[k] = items[k] \/ Excused(body, frames, items, pending, k)
      BY <1>1, <2>3 DEF Faithful
    <3>2. Begun(body.rows, items')
      BY <1>1, <1>2, <3>1 DEF Begun
    <3>3. \A k \in 1..Len(body.rows) : body.rows[k] = items'[k] \/ Excused(body, frames', items', pending', k)
      <4> TAKE k \in 1..Len(body.rows)
      <4>1. k \in 1..Len(items)
        BY <1>1, <3>1 DEF Begun
      <4>2. CASE items[k].id \in ids
        BY <1>2, <1>4, <2>1, <2>2, <4>1, <4>2 DEF Excused
      <4>3. CASE items[k].id \notin ids
        <5>1. items'[k] = items[k]
          BY <1>2, <4>1, <4>3
        <5>2. Excused(body, frames, items, pending, k) => Excused(body, frames', items', pending', k)
          BY <1>4, <2>1, <2>2, <5>1 DEF Excused
        <5> QED
          BY <3>1, <5>1, <5>2
      <4> QED
        BY <4>2, <4>3
    <3> QED
      BY <1>2, <2>2, <3>1, <3>2, <3>3 DEF Faithful
  <2> QED
    BY <1>1, <2>1, <2>2, <2>3
<1>6. CASE ~estimate.large
  <2> DEFINE places == {k \in InView(body) : body.rows[k].id \in ids}
  <2>1. body' = Refreshed(body, places, items') /\ frames' = frames /\ pending' = pending
    BY <1>6 DEF AfterBatch, RefreshedIds
  <2>2. /\ body' \in BodyRecord /\ body'.ready = body.ready /\ Len(body'.rows) = Len(body.rows)
        /\ InView(body') = InView(body)
        /\ \A k \in 1..Len(body.rows) : body'.rows[k].id = body.rows[k].id
        /\ \A k \in 1..Len(body.rows) : k \notin places => body'.rows[k] = body.rows[k]
        /\ \A k \in 1..Len(body.rows), j \in 1..Len(items') :
             k \in places /\ items'[j].id = body.rows[k].id => body'.rows[k] = items'[j]
    <3>1. body \in BodyRecord /\ items' \in Seq(LineRecord) /\ Distinct(items')
      BY <1>1, <1>2
    <3>2. body' = Refreshed(body, places, items')
      BY <2>1
    <3> HIDE DEF places
    <3> QED
      BY <3>1, <3>2, RefreshedIs
  <2>3. Stepping(body', frames, items')
    BY <1>1, <1>2, <2>2, SteppingKept
  <2>4. ASSUME Current PROVE Faithful(body', frames, items', pending)
    <3>1. Begun(body.rows, items) /\ (Wanted(frames) = {} => Len(body.rows) = Len(items))
          /\ \A k \in 1..Len(body.rows) : body.rows[k] = items[k] \/ Excused(body, frames, items, pending, k)
      BY <1>1, <2>4 DEF Faithful
    <3>2. Begun(body'.rows, items')
      BY <1>1, <1>2, <2>2, <3>1 DEF Begun
    <3>3. \A k \in 1..Len(body.rows) : body'.rows[k] = items'[k] \/ Excused(body', frames, items', pending, k)
      <4> TAKE k \in 1..Len(body.rows)
      <4>1. k \in 1..Len(items) /\ body.rows[k].id = items[k].id /\ items'[k].id = items[k].id
        BY <1>1, <1>2, <3>1 DEF Begun
      <4>2. CASE k \in places
        BY <1>2, <2>2, <4>1, <4>2
      <4>3. CASE k \notin places /\ items[k].id \in ids
        <5>1. k \notin InView(body')
          BY <2>2, <4>1, <4>3
        <5> QED
          BY <1>2, <1>4, <4>1, <4>3, <5>1 DEF Excused
      <4>4. CASE k \notin places /\ items[k].id \notin ids
        <5>1. items'[k] = items[k] /\ body'.rows[k] = body.rows[k]
          BY <1>2, <2>2, <4>1, <4>4
        <5>2. Excused(body, frames, items, pending, k) => Excused(body', frames, items', pending, k)
          BY <1>4, <2>2, <5>1 DEF Excused
        <5> QED
          BY <3>1, <5>1, <5>2
      <4> QED
        BY <4>2, <4>3, <4>4
    <3> QED
      BY <1>2, <2>2, <3>1, <3>2, <3>3 DEF Faithful
  <2> QED
    BY <1>1, <2>1, <2>2, <2>3, <2>4
<1> QED
  BY <1>5, <1>6

LEMMA BatchStep == ASSUME BodyInv, NEW ids \in SUBSET InFlightIds, DeliverBatch(ids) PROVE BodyInv'
<1>1. items' = WithResults(ids) /\ UNCHANGED <<estimate, onScreen, header, saving>>
  BY DEF DeliverBatch
<1>2. /\ items' \in Seq(LineRecord) /\ Len(items') = Len(items) /\ Distinct(items')
      /\ \A k \in 1..Len(items) : items'[k].id = items[k].id
  BY <1>1, ResultsAre
<1>3. body \in BodyRecord /\ frames \in Seq(FrameRecord) /\ stale \in BOOLEAN
  BY DEF BodyInv, BodyTyped
<1>4. SUFFICES /\ body' \in BodyRecord /\ frames' \in Seq(FrameRecord) /\ stale' \in BOOLEAN
               /\ Stepping(body', frames', items')
               /\ Current' => Faithful(body', frames', items', pending')
  BY <1>1, <1>2 DEF BodyInv, BodyTyped
<1>5. CASE ~onScreen
  <2>1. UNCHANGED <<body, frames, pending, stale>>
    BY <1>5 DEF DeliverBatch
  <2> QED
    BY <1>1, <1>2, <1>3, <1>5, <2>1, SteppingOfLines DEF Current
<1>6. CASE onScreen
  <2>1. PICK done \in {TRUE, InFlightIds = ids} :
          IF ~done THEN AfterBatch(ids, items') /\ UNCHANGED stale
          ELSE /\ body' = Mounted(body, items') /\ stale' = FALSE
               /\ frames' = MountFrames(IF estimate.large THEN WithRefresh ELSE frames, items')
               /\ pending' = IF estimate.large THEN pending \cup ids ELSE pending
    BY <1>6 DEF DeliverBatch
  <2>2. CASE done
    <3> DEFINE fs == IF estimate.large THEN WithRefresh ELSE frames
    <3>1. body' = Mounted(body, items') /\ stale' = FALSE /\ frames' = MountFrames(fs, items')
      BY <2>1, <2>2
    <3>2. fs \in Seq(FrameRecord)
      BY <1>3, RefreshScheduled
    <3> HIDE DEF fs
    <3> QED
      BY <1>2, <1>3, <3>1, <3>2, MountIs
  <2>3. CASE ~done
    <3>1. AfterBatch(ids, items') /\ stale' = stale /\ ids # InFlightIds
      BY <2>1, <2>3
    <3>2. Current' <=> Current
      BY <1>1, <3>1 DEF Current
    <3> QED
      BY <1>1, <1>3, <1>6, <3>1, <3>2, BatchGoesOn
  <2> QED
    BY <2>2, <2>3
<1> QED
  BY <1>5, <1>6

LEMMA ReportStep == ASSUME BodyInv, NEW ids, Report(ids) PROVE BodyInv'
<1>1. items' = WithResults(ids) /\ UNCHANGED <<estimate, onScreen, pending, header, saving>>
  BY DEF Report
<1>2. /\ items' \in Seq(LineRecord) /\ Len(items') = Len(items) /\ Distinct(items')
      /\ \A k \in 1..Len(items) : items'[k].id = items[k].id
  BY <1>1, ResultsAre
<1>3. body \in BodyRecord /\ frames \in Seq(FrameRecord) /\ stale \in BOOLEAN
  BY DEF BodyInv, BodyTyped
<1>4. SUFFICES /\ body' \in BodyRecord /\ frames' \in Seq(FrameRecord) /\ stale' \in BOOLEAN
               /\ Stepping(body', frames', items')
               /\ Current' => Faithful(body', frames', items', pending')
  BY <1>1, <1>2 DEF BodyInv, BodyTyped
<1>5. CASE ~onScreen
  <2>1. UNCHANGED <<body, frames, stale>>
    BY <1>5 DEF Report
  <2> QED
    BY <1>1, <1>2, <1>3, <1>5, <2>1, SteppingOfLines DEF Current
<1>6. CASE onScreen /\ estimate.large
  <2>1. body' = Mounted(body, items') /\ frames' = MountFrames(frames, items') /\ stale' = FALSE
    BY <1>6 DEF Report, Redraw
  <2> QED
    BY <1>2, <1>3, <2>1, MountIs
<1>7. CASE onScreen /\ ~estimate.large
  <2>1. body' = RefreshedAll(body, items') /\ UNCHANGED <<frames, stale>>
    BY <1>7 DEF Report
  <2>2. Current' <=> Current
    BY <1>1, <2>1 DEF Current
  <2> QED
    BY <1>2, <1>3, <2>1, <2>2, AllRefreshed
<1> QED
  BY <1>5, <1>6, <1>7

LEMMA ResetStep == BodyInv /\ Reset => BodyInv'
<1> SUFFICES ASSUME BodyInv, Reset PROVE BodyInv'
  OBVIOUS
<1>1. /\ items' = [k \in 1..Len(items) |-> [items[k] EXCEPT !.round = 0]]
      /\ UNCHANGED <<onScreen, pending, header, saving>>
  BY DEF Reset
<1>2. /\ items \in Seq(LineRecord) /\ Len(items) \in Nat /\ Distinct(items)
      /\ body \in BodyRecord /\ frames \in Seq(FrameRecord) /\ stale \in BOOLEAN /\ estimate.round \in Nat
  BY DEF BodyInv, BodyTyped
<1>3. \A k \in 1..Len(items) : items'[k] \in LineRecord /\ items'[k].id = items[k].id
  <2> TAKE k \in 1..Len(items)
  <2>1. items[k] \in LineRecord /\ items'[k] = [items[k] EXCEPT !.round = 0]
    BY <1>1, <1>2
  <2> QED
    BY <2>1 DEF LineRecord
<1>4. items' \in [1..Len(items) -> LineRecord]
  BY <1>1, <1>3
<1>5. items' \in Seq(LineRecord) /\ Len(items') = Len(items)
  BY <1>1, <1>2, <1>4
<1>6. Distinct(items')
  BY <1>2, <1>3, <1>5 DEF Distinct
<1> DEFINE long == Len(items) > Threshold
<1>7. long \in BOOLEAN
  OBVIOUS
<1>8. PICK large \in {FALSE, long} :
        /\ estimate' = [large |-> large, round |-> estimate.round + 1]
        /\ IF large THEN body' = RefreshedAll(body, items') /\ UNCHANGED <<frames, stale>>
           ELSE Redraw(items')
  BY DEF Reset
<1> HIDE DEF long
<1>9. estimate' \in [large : BOOLEAN, round : Nat \ {0}]
  <2>1. large \in BOOLEAN
    BY <1>7
  <2>2. estimate.round + 1 \in Nat \ {0}
    BY <1>2
  <2> QED
    BY <1>8, <2>1, <2>2
<1>10. SUFFICES /\ body' \in BodyRecord /\ frames' \in Seq(FrameRecord) /\ stale' \in BOOLEAN
                /\ Stepping(body', frames', items')
                /\ Current' => Faithful(body', frames', items', pending')
  BY <1>1, <1>5, <1>6, <1>9 DEF BodyInv, BodyTyped
<1>11. CASE large
  <2>1. body' = RefreshedAll(body, items') /\ UNCHANGED <<frames, stale>>
    BY <1>8, <1>11
  <2>2. Current' <=> Current
    BY <1>1, <2>1 DEF Current
  <2> QED
    BY <1>2, <1>3, <1>5, <1>6, <2>1, <2>2, AllRefreshed
<1>12. CASE ~large
  <2>1. body' = Mounted(body, items') /\ frames' = MountFrames(frames, items') /\ stale' = FALSE
    BY <1>8, <1>12 DEF Redraw
  <2> QED
    BY <1>2, <1>5, <1>6, <2>1, MountIs
<1> QED
  BY <1>11, <1>12

-----------------------------------------------------------------------------
(* The user.                                                               *)

\* What is left of a sequence without one of its elements.
LEMMA ElementRemoved ==
  ASSUME NEW S, NEW s \in Seq(S), NEW j \in 1..Len(s)
  PROVE  /\ RemoveAt(s, j) \in Seq(S) /\ Len(RemoveAt(s, j)) = Len(s) - 1
         /\ \A k \in 1..(Len(s) - 1) : RemoveAt(s, j)[k] = IF k < j THEN s[k] ELSE s[k + 1]
<1> DEFINE rest == RemoveAt(s, j)
           left == SubSeq(s, 1, j - 1)
           right == SubSeq(s, j + 1, Len(s))
<1>1. Len(s) \in Nat /\ j \in Nat /\ j >= 1 /\ j <= Len(s) /\ \A k \in 1..Len(s) : s[k] \in S
  OBVIOUS
<1>2. /\ left \in Seq(S) /\ Len(left) = j - 1
      /\ \A k \in 1..(j - 1) : left[k] = s[k]
  <2>1. \A k \in 1..(j - 1) : s[k] \in S
    BY <1>1
  <2>2. \A k \in 1..((j - 1) - 1 + 1) : left[k] = s[1 + k - 1]
    BY <1>1, <2>1, SubSeqProperties
  <2>3. left \in Seq(S) /\ Len(left) = j - 1
    BY <1>1, <2>1, SubSeqProperties
  <2> QED
    BY <1>1, <2>2, <2>3
<1>3. /\ right \in Seq(S) /\ Len(right) = Len(s) - j
      /\ \A k \in 1..(Len(s) - j) : right[k] = s[j + k]
  <2>1. \A k \in (j + 1)..Len(s) : s[k] \in S
    BY <1>1
  <2>2. \A k \in 1..(Len(s) - (j + 1) + 1) : right[k] = s[(j + 1) + k - 1]
    BY <1>1, <2>1, SubSeqProperties
  <2>3. right \in Seq(S) /\ Len(right) = Len(s) - j
    BY <1>1, <2>1, SubSeqProperties
  <2> QED
    BY <1>1, <2>2, <2>3
<1>4. rest = left \o right
  BY DEF RemoveAt
<1> HIDE DEF rest, left, right
<1>5. rest \in Seq(S) /\ Len(rest) = Len(s) - 1
  <2>1. rest \in Seq(S) /\ Len(rest) = Len(left) + Len(right)
    BY <1>2, <1>3, <1>4, ConcatProperties
  <2> QED
    BY <1>1, <1>2, <1>3, <2>1
<1>6. ASSUME NEW k \in 1..(Len(s) - 1) PROVE rest[k] = IF k < j THEN s[k] ELSE s[k + 1]
  <2>1. CASE k < j
    BY <1>1, <1>2, <1>3, <1>4, <1>5, <2>1
  <2>2. CASE ~(k < j)
    <3>1. k - (j - 1) \in 1..(Len(s) - j) /\ j + (k - (j - 1)) = k + 1
      BY <1>1, <2>2
    <3>2. rest[k] = right[k - (j - 1)]
      BY <1>1, <1>2, <1>3, <1>4, <1>5, <2>2
    <3>3. right[k - (j - 1)] = s[k + 1]
      BY <1>3, <3>1
    <3> QED
      BY <1>1, <2>2, <3>2, <3>3
  <2> QED
    BY <2>1, <2>2
<1> QED
  BY <1>5, <1>6 DEF rest

LEMMA LineRemoved ==
  ASSUME NEW all \in Seq(LineRecord), Distinct(all), NEW j \in 1..Len(all)
  PROVE  RemoveAt(all, j) \in Seq(LineRecord) /\ Distinct(RemoveAt(all, j))
<1> DEFINE rest == RemoveAt(all, j)
           at(k) == IF k < j THEN k ELSE k + 1
<1>1. Len(all) \in Nat /\ j \in Nat /\ j >= 1 /\ j <= Len(all)
  OBVIOUS
<1>6. /\ rest \in Seq(LineRecord) /\ Len(rest) = Len(all) - 1
      /\ \A k \in 1..(Len(all) - 1) : rest[k] = IF k < j THEN all[k] ELSE all[k + 1]
  BY ElementRemoved
<1> HIDE DEF rest
<1>7. \A k \in 1..Len(rest) : at(k) \in 1..Len(all) /\ rest[k] = all[at(k)]
  BY <1>1, <1>6
<1>8. Distinct(rest)
  <2> SUFFICES ASSUME NEW k \in 1..Len(rest), NEW l \in 1..Len(rest), rest[k].id = rest[l].id PROVE k = l
    BY DEF Distinct
  <2>1. at(k) = at(l)
    BY <1>7 DEF Distinct
  <2> QED
    BY <1>1, <2>1
<1> QED
  BY <1>6, <1>8 DEF rest

LEMMA LinesSwapped ==
  ASSUME NEW all \in Seq(LineRecord), Distinct(all), NEW j \in 1..Len(all), j < Len(all)
  PROVE  LET swapped == [all EXCEPT ![j] = all[j + 1], ![j + 1] = all[j]] IN
         swapped \in Seq(LineRecord) /\ Distinct(swapped)
<1> DEFINE swapped == [all EXCEPT ![j] = all[j + 1], ![j + 1] = all[j]]
           at(k) == CASE k = j -> j + 1 [] k = j + 1 -> j [] OTHER -> k
<1>1. Len(all) \in Nat /\ j \in Nat /\ j + 1 \in 1..Len(all) /\ DOMAIN all = 1..Len(all)
  OBVIOUS
<1>2. \A k \in 1..Len(all) : all[k] \in LineRecord
  OBVIOUS
<1>3. \A k \in 1..Len(all) : at(k) \in 1..Len(all) /\ swapped[k] = all[at(k)]
  BY <1>1
<1>4. swapped \in [1..Len(all) -> LineRecord]
  <2>1. DOMAIN swapped = 1..Len(all)
    BY <1>1
  <2>2. swapped = [k \in 1..Len(all) |-> swapped[k]]
    BY <2>1
  <2> HIDE DEF swapped
  <2> QED
    BY <1>2, <1>3, <2>2
<1> HIDE DEF swapped
<1>5. swapped \in Seq(LineRecord) /\ Len(swapped) = Len(all)
  BY <1>1, <1>4
<1>6. Distinct(swapped)
  <2> SUFFICES ASSUME NEW k \in 1..Len(all), NEW l \in 1..Len(all), swapped[k].id = swapped[l].id PROVE k = l
    BY <1>5 DEF Distinct
  <2>1. at(k) = at(l)
    BY <1>3 DEF Distinct
  <2> QED
    BY <1>1, <2>1
<1> QED
  BY <1>5, <1>6 DEF swapped

\* A body that takes clicks has no step that is wanted, so the lines may change.
LEMMA EditStep == BodyInv /\ EditLines => BodyInv'
<1> SUFFICES ASSUME BodyInv, EditLines PROVE BodyInv'
  OBVIOUS
<1>1. /\ items \in Seq(LineRecord) /\ Distinct(items) /\ saving \in Nat /\ Stepping(body, frames, items)
  BY DEF BodyInv, BodyTyped
<1>2. body.ready /\ saving' = saving + 1
      /\ UNCHANGED <<estimate, body, onScreen, frames, pending, header, stale>>
  BY DEF EditLines
<1>3. PICK j \in 1..Len(items) :
        \/ items' = RemoveAt(items, j)
        \/ j < Len(items) /\ items' = [items EXCEPT ![j] = items[j + 1], ![j + 1] = items[j]]
  BY DEF EditLines
<1>4. items' \in Seq(LineRecord) /\ Distinct(items')
  BY <1>1, <1>3, LineRemoved, LinesSwapped
<1>5. Stepping(body, frames, items')
  BY <1>1, <1>2 DEF Stepping
<1>6. saving' \in Nat /\ ~Current'
  BY <1>1, <1>2 DEF Current
<1> QED
  BY <1>2, <1>4, <1>5, <1>6 DEF BodyInv, BodyTyped

\* What ends in mountEditorContent leaves the table as it should be.
LEMMA ContentStep ==
  ASSUME BodyInv, MountContent(FALSE), UNCHANGED <<items, estimate, pending>>,
         onScreen' \in BOOLEAN, onScreen => onScreen', saving' \in Nat
  PROVE  BodyInv'
<1>1. BodyTyped /\ Distinct(items) /\ Stepping(body, frames, items) /\ (onScreen \/ ~header.active)
  BY DEF BodyInv
<1>2. /\ body' \in BodyRecord /\ frames' \in Seq(FrameRecord) /\ stale' \in BOOLEAN
      /\ header' \in [active : BOOLEAN, timer : BOOLEAN, remount : BOOLEAN]
      /\ Stepping(body', frames', items)
      /\ header'.remount \/ Faithful(body', frames', items, pending)
      /\ header'.active => header.active
  BY <1>1, ContentMounted
<1> QED
  BY <1>1, <1>2 DEF BodyInv, BodyTyped, Current

LEMMA ScrollStep == BodyInv /\ Scroll => BodyInv'
<1> SUFFICES ASSUME BodyInv, Scroll PROVE BodyInv'
  OBVIOUS
<1>1. /\ items \in Seq(LineRecord) /\ Len(items) \in Nat /\ Distinct(items)
      /\ body \in BodyRecord /\ Len(body.rows) \in Nat /\ frames \in Seq(FrameRecord)
      /\ Stepping(body, frames, items)
      /\ Current => Faithful(body, frames, items, pending)
  BY RowsInView DEF BodyInv, BodyTyped
<1>2. UNCHANGED <<items, estimate, onScreen, pending, header, saving, stale>>
  BY DEF Scroll
<1> DEFINE again == ~Complete(body)
           drawn == IF again THEN MountFrames(frames, items) ELSE frames
<1>3. PICK top \in 0..Len(body.rows) :
        /\ body' = IF again THEN Mounted([body EXCEPT !.top = top], items)
                   ELSE [[body EXCEPT !.top = top] EXCEPT !.ready = TRUE]
        /\ frames' = IF InProgress /\ ~Scheduled("visible") THEN Append(drawn, Frame("visible")) ELSE drawn
  BY DEF Scroll
<1> DEFINE moved == [body EXCEPT !.top = top]
<1>4. moved \in BodyRecord /\ moved.rows = body.rows /\ moved.top = top
  <2>1. top \in Nat
    BY <1>1
  <2> QED
    BY <1>1, <2>1 DEF BodyRecord
<1>5. SUFFICES /\ body' \in BodyRecord /\ frames' \in Seq(FrameRecord)
               /\ Stepping(body', frames', items)
               /\ Current => Faithful(body', frames', items, pending)
  BY <1>2 DEF BodyInv, BodyTyped, Current
<1>6. ASSUME drawn \in Seq(FrameRecord)
      PROVE  /\ frames' \in Seq(FrameRecord) /\ Wanted(frames') = Wanted(drawn)
             /\ Stepping(body', drawn, items) => Stepping(body', frames', items)
             /\ \A kind : Given(drawn, kind) => Given(frames', kind)
             /\ InProgress /\ ~again => Given(frames', "visible")
  <2> HIDE DEF drawn
  <2>1. CASE InProgress /\ ~Scheduled("visible")
    <3>1. frames' = Append(drawn, Frame("visible"))
      BY <1>3, <2>1
    <3> QED
      BY <1>6, <3>1, FrameAdded
  <2>2. CASE ~(InProgress /\ ~Scheduled("visible"))
    <3>1. frames' = drawn
      BY <1>3, <2>2
    <3>2. InProgress /\ ~again => Given(drawn, "visible")
      BY <2>2 DEF drawn, Scheduled, Given
    <3> QED
      BY <1>6, <3>1, <3>2
  <2> QED
    BY <2>1, <2>2
<1>7. CASE again
  <2>1. body' = Mounted(moved, items) /\ drawn = MountFrames(frames, items)
    BY <1>3, <1>7
  <2> HIDE DEF moved, again, drawn
  <2>2. /\ body' \in BodyRecord /\ drawn \in Seq(FrameRecord) /\ Stepping(body', drawn, items)
        /\ Faithful(body', drawn, items, pending)
    BY <1>1, <1>4, <2>1, MountIs
  <2>3. \A k : Excused(body', drawn, items, pending, k) => Excused(body', frames', items, pending, k)
    BY <1>6, <2>2 DEF Excused
  <2>4. Faithful(body', frames', items, pending)
    BY <1>6, <2>2, <2>3 DEF Faithful
  <2> QED
    BY <1>6, <2>2, <2>4
<1>8. CASE ~again
  <2>1. body' = [moved EXCEPT !.ready = TRUE] /\ drawn = frames
    BY <1>3, <1>8
  <2>2. body' \in BodyRecord /\ body'.rows = body.rows /\ body'.ready
    <3> HIDE DEF moved
    <3> QED
      BY <1>4, <2>1 DEF BodyRecord
  <2>3. Wanted(frames) = {}
    <3>1. Len(body.rows) >= Len(items)
      BY <1>8 DEF Complete
    <3> QED
      BY <1>1, <3>1 DEF Stepping
  <2> HIDE DEF moved, again, drawn
  <2>4. Stepping(body', drawn, items)
    BY <1>1, <2>1, <2>2, <2>3 DEF Stepping
  <2>5. ASSUME Current PROVE Faithful(body', frames', items, pending)
    <3>1. /\ Begun(body.rows, items) /\ (Wanted(frames) = {} => Len(body.rows) = Len(items))
          /\ \A k \in 1..Len(body.rows) : body.rows[k] = items[k] \/ Excused(body, frames, items, pending, k)
      BY <1>1, <2>5 DEF Faithful
    <3>2. Calculating(items) => InProgress
      BY DEF Calculating, InProgress, InFlightIds
    <3>3. \A k : Excused(body, frames, items, pending, k) => Excused(body', frames', items, pending, k)
      BY <1>1, <1>6, <1>8, <2>1, <3>2 DEF Excused
    <3> QED
      BY <2>2, <2>3, <3>1, <3>3 DEF Faithful
  <2> QED
    BY <1>1, <1>6, <2>1, <2>2, <2>4, <2>5
<1> QED
  BY <1>7, <1>8

LEMMA HeaderStep == BodyInv /\ (Focus \/ Blur \/ LeaveTable) => BodyInv'
<1> SUFFICES ASSUME BodyInv, Focus \/ Blur \/ LeaveTable PROVE BodyInv'
  OBVIOUS
<1>1. /\ header \in [active : BOOLEAN, timer : BOOLEAN, remount : BOOLEAN] /\ onScreen \in BOOLEAN
      /\ onScreen \/ ~header.active
  BY DEF BodyInv, BodyTyped
<1>2. UNCHANGED <<items, estimate, body, frames, pending, saving, stale>>
  BY DEF Focus, Blur, LeaveTable
<1>3. /\ header' \in [active : BOOLEAN, timer : BOOLEAN, remount : BOOLEAN] /\ onScreen' \in BOOLEAN
      /\ onScreen' \/ ~header'.active
      /\ header'.remount = header.remount /\ (onScreen' => onScreen)
  BY <1>1 DEF Focus, Blur, LeaveTable
<1> QED
  BY <1>2, <1>3 DEF BodyInv, BodyTyped, Current

LEMMA FlushStep == BodyInv /\ Flush => BodyInv'
<1> SUFFICES ASSUME BodyInv, Flush PROVE BodyInv'
  OBVIOUS
<1>1. /\ items \in Seq(LineRecord) /\ Distinct(items) /\ body \in BodyRecord /\ frames \in Seq(FrameRecord)
      /\ header \in [active : BOOLEAN, timer : BOOLEAN, remount : BOOLEAN] /\ stale \in BOOLEAN
  BY DEF BodyInv, BodyTyped
<1>2. UNCHANGED <<items, estimate, onScreen, pending, saving>>
  BY DEF Flush
<1>3. CASE ~header.remount \/ header.active
  <2>1. header' = [header EXCEPT !.timer = FALSE] /\ UNCHANGED <<body, frames, stale>>
    BY <1>3 DEF Flush
  <2>2. /\ header' \in [active : BOOLEAN, timer : BOOLEAN, remount : BOOLEAN]
        /\ header'.active = header.active /\ header'.remount = header.remount
    BY <1>1, <2>1
  <2> QED
    BY <1>2, <2>1, <2>2 DEF BodyInv, BodyTyped, Current
<1>4. CASE ~(~header.remount \/ header.active)
  <2>1. header' = [header EXCEPT !.timer = FALSE, !.remount = FALSE]
    BY <1>4 DEF Flush
  <2>2. header' \in [active : BOOLEAN, timer : BOOLEAN, remount : BOOLEAN] /\ header'.active = header.active
    BY <1>1, <2>1
  <2>3. CASE onScreen
    <3> DEFINE b == [body EXCEPT !.top = 0]
               fs == MountFrames(frames, items)
    <3>1. body' = Mounted(b, items) /\ frames' = MountFrames(fs, items) /\ stale' = FALSE
      BY <1>4, <2>3 DEF Flush
    <3>2. b \in BodyRecord
      BY <1>1 DEF BodyRecord
    <3>3. fs \in Seq(FrameRecord)
      BY <1>1, MountIs
    <3> HIDE DEF b, fs
    <3>4. /\ body' \in BodyRecord /\ frames' \in Seq(FrameRecord) /\ Stepping(body', frames', items)
          /\ Faithful(body', frames', items, pending)
      BY <1>1, <3>1, <3>2, <3>3, MountIs
    <3> QED
      BY <1>2, <2>2, <2>3, <3>1, <3>4 DEF BodyInv, BodyTyped
  <2>4. CASE ~onScreen
    <3>1. UNCHANGED <<body, frames, stale>>
      BY <1>4, <2>4 DEF Flush
    <3> QED
      BY <1>2, <2>2, <2>4, <3>1 DEF BodyInv, BodyTyped, Current
  <2> QED
    BY <2>3, <2>4
<1> QED
  BY <1>3, <1>4

LEMMA BodyInvNext == BodyInv /\ [BodyNext]_bodyVars => BodyInv'
<1> SUFFICES ASSUME BodyInv, [BodyNext]_bodyVars PROVE BodyInv'
  OBVIOUS
<1>1. saving \in Nat /\ onScreen \in BOOLEAN
  BY DEF BodyInv, BodyTyped
<1>2. CASE RunFrame
  BY <1>2, FrameStep
<1>3. CASE Reset
  BY <1>3, ResetStep
<1>4. CASE \E ids \in (SUBSET InFlightIds) \ {{}} : DeliverBatch(ids) \/ Report(ids)
  BY <1>4, BatchStep, ReportStep
<1>5. CASE EditLines
  BY <1>5, EditStep
<1>6. CASE EditSaved
  <2>1. saving > 0 /\ saving' = saving - 1 /\ MountContent(FALSE) /\ UNCHANGED <<items, estimate, onScreen, pending>>
    BY <1>6 DEF EditSaved
  <2> QED
    BY <1>1, <2>1, ContentStep
<1>7. CASE EditFails
  <2>1. /\ saving' \in Nat /\ stale' = TRUE
        /\ UNCHANGED <<items, estimate, body, onScreen, frames, pending, header>>
    BY <1>1, <1>7 DEF EditFails
  <2> QED
    BY <2>1 DEF BodyInv, BodyTyped, Current
<1>8. CASE Scroll
  BY <1>8, ScrollStep
<1>9. CASE Focus \/ Blur \/ LeaveTable
  BY <1>9, HeaderStep
<1>10. CASE Flush
  BY <1>10, FlushStep
<1>11. CASE Render \/ ComeBack
  <2>1. /\ MountContent(FALSE) /\ UNCHANGED <<items, estimate, pending, saving>>
        /\ onScreen' \in BOOLEAN /\ (onScreen => onScreen')
    BY <1>1, <1>11 DEF Render, ComeBack
  <2> QED
    BY <1>1, <2>1, ContentStep
<1>12. CASE UNCHANGED bodyVars
  BY <1>12 DEF BodyInv, BodyTyped, Current, bodyVars
<1> QED
  BY <1>2, <1>3, <1>4, <1>5, <1>6, <1>7, <1>8, <1>9, <1>10, <1>11, <1>12 DEF BodyNext

LEMMA BodyInvHolds == BodySpec => []BodyInv
<1> QED
  BY BodyInvInit, BodyInvNext, PTL DEF BodySpec

-----------------------------------------------------------------------------
(* What is promised.                                                       *)

\* However drawings are begun again, put off, overtaken by results and by changes of the lines,
\* no line is drawn twice and a body that takes clicks is not being drawn
\* (mountEditorTableBody, cancelEditorTableBodyRender).
THEOREM RowsAreDrawnRight == BodySpec => []RowsAreDrawnOnce
<1>1. ASSUME BodyInv PROVE RowsAreDrawnOnce
  <2>1. body \in BodyRecord /\ Stepping(body, frames, items) /\ Len(body.rows) \in Nat
    BY <1>1, RowsInView DEF BodyInv, BodyTyped
  <2>2. IsInjective(Ids(body.rows))
    BY <2>1 DEF Stepping, Distinct, IsInjective, Ids
  <2>3. body.ready => \A i \in 1..Len(frames) : frames[i].kind = "step" => ~frames[i].live
    BY <2>1 DEF Stepping, Wanted
  <2> QED
    BY <2>2, <2>3 DEF RowsAreDrawnOnce
<1> QED
  BY <1>1, BodyInvHolds, PTL

\* A table at rest shows every line in its place; the rows in view say what the lines say, and
\* all rows do once nothing is calculated, unless the save of a changed table failed
\* (refreshVisibleEstimateTableRows, scheduleEstimateTableRowRefresh, mountEditorContent).
THEOREM RowsAreRight == BodySpec => []RowsSayWhatLinesSay
<1>1. ASSUME BodyInv PROVE RowsSayWhatLinesSay
  <2> SUFFICES ASSUME RowsAtRest
               PROVE  /\ body.ready /\ Ids(body.rows) = Ids(items)
                      /\ \A k \in 1..Len(items) : k \in InView(body) \/ ~InProgress => body.rows[k] = items[k]
    BY DEF RowsSayWhatLinesSay
  <2>1. /\ Len(items) \in Nat /\ body \in BodyRecord /\ Len(body.rows) \in Nat
        /\ Stepping(body, frames, items) /\ Faithful(body, frames, items, pending)
    BY <1>1, RowsInView DEF BodyInv, BodyTyped, RowsAtRest, Current
  <2>2. Wanted(frames) = {} /\ ~Given(frames, "refresh") /\ ~Given(frames, "visible")
    <3>1. frames = <<>> /\ Len(<<>>) = 0
      BY DEF RowsAtRest
    <3> QED
      BY <3>1 DEF Wanted, Given
  <2>3. body.ready /\ Len(body.rows) = Len(items)
    BY <2>1, <2>2 DEF Stepping, Faithful
  <2>4. Ids(body.rows) = Ids(items)
    BY <2>1, <2>3 DEF Faithful, Begun, Ids
  <2>5. \A k \in 1..Len(items) : k \in InView(body) \/ ~InProgress => body.rows[k] = items[k]
    <3> TAKE k \in 1..Len(items)
    <3>1. body.rows[k] = items[k] \/ Excused(body, frames, items, pending, k)
      BY <2>1, <2>3 DEF Faithful
    <3>2. Calculating(items) => InProgress
      BY DEF Calculating, InProgress, InFlightIds
    <3> QED
      BY <2>2, <3>1, <3>2 DEF Excused
  <2> QED
    BY <2>3, <2>4, <2>5
<1> QED
  BY <1>1, BodyInvHolds, PTL

-----------------------------------------------------------------------------
(* The panels of the base: types, and the invariants.                      *)

Chosen == FgisSets \cup ToSet(Supplements) \cup Stored \cup {Nothing}
Queries == [choice : Chosen, word : Searches, offset : Nat]
RowQueries == [choice : FgisSets, word : Searches, offset : Nat]
GsnKinds == {"list", "info", "tree", "branch"}
CallRecord == [kind : GsnKinds \cup {"sets", "rows"}, of : Queries, chain : BOOLEAN, attached : BOOLEAN]
GsnRecord ==
  [supplement : Stored \cup ToSet(Supplements), word : Searches, listed : BOOLEAN, loaded : BOOLEAN,
   infoLoaded : BOOLEAN, info : Chosen, tree : Queries \cup {Nothing}, branches : SUBSET Chosen]
FgisRecord ==
  [set : FgisSets \cup {Nothing}, word : Searches, offset : Nat, sets : {"unread", "read", "none"},
   loadedSet : FgisSets \cup {Nothing}, rows : Queries \cup {Nothing}, count : Nat, total : Nat,
   loading : BOOLEAN, shown : {"nothing", "loading", "table"}]

PanelsTyped ==
  /\ tab \in {"own", "gsn", "fgis"} /\ inBase \in BOOLEAN
  /\ gsn \in GsnRecord /\ fgis \in FgisRecord
  /\ calls \in Seq(CallRecord)

CallsOf(cs, kind) == {i \in 1..Len(cs) : cs[i].kind = kind}

\* The last call of a kind asks for one of some queries.
LastAsks(cs, kind, queries) ==
  \A i \in CallsOf(cs, kind) : (\A j \in CallsOf(cs, kind) : j <= i) => cs[i].of \in queries

\* Rows that are shown are of a set, and their total is the one of their query; while no rows
\* are asked for nothing is loading.
RowsTyped(f, cs) ==
  /\ \A i \in CallsOf(cs, "rows") : cs[i].of \in RowQueries /\ f.set \in FgisSets
  /\ f.loadedSet # Nothing \/ f.rows # Nothing =>
       f.rows \in RowQueries /\ f.total = Hits[f.rows.choice][f.rows.word]
  /\ CallsOf(cs, "rows") = {} => ~f.loading

\* A page of the table that is not behind its last row.
PageThere(f) == f.offset = 0 \/ (f.set \in FgisSets /\ f.offset < Hits[f.set][f.word])

\* The last call for rows is for those selected, or the rows are.
RowsRight(f, cs) ==
  /\ LastAsks(cs, "rows", {OfRows(f)})
  /\ CallsOf(cs, "rows") = {} =>
       /\ f.loadedSet = f.set /\ f.set # Nothing => f.rows = OfRows(f)
       /\ f.shown # "nothing" => f.loadedSet = f.set /\ f.set # Nothing
  /\ PageThere(f)

\* The same of the information on the base ...
InfoRight(g, cs) ==
  /\ LastAsks(cs, "info", {q \in Queries : q.choice = g.supplement})
  /\ CallsOf(cs, "info") = {} /\ g.infoLoaded => g.info = g.supplement

\* ... and of the tree.
TreeRight(g, cs) ==
  /\ LastAsks(cs, "tree", {OfTree(g)})
  /\ CallsOf(cs, "tree") = {} /\ g.loaded => g.tree = OfTree(g)

\* No branch is of another supplement, opened or asked for, ...
BranchesRight(g, cs) ==
  /\ g.branches \subseteq {g.supplement}
  /\ \A i \in CallsOf(cs, "branch") : cs[i].attached => cs[i].of.choice = g.supplement

\* ... or the supplement was replaced, and the tree will be asked for when the information on the
\* base is there, or when the tab is opened again.
Renewed(g, cs, there) ==
  /\ g.listed /\ ~g.loaded /\ CallsOf(cs, "tree") = {}
  /\ (\E i \in CallsOf(cs, "info") : cs[i].chain) \/ (g.infoLoaded /\ there # "gsn")

GsnRight(g, cs, there) ==
  /\ InfoRight(g, cs) /\ TreeRight(g, cs)
  /\ BranchesRight(g, cs) \/ Renewed(g, cs, there)

\* A supplement is selected once the list is there, and when anything of it is asked for.
GsnTyped(g, cs) ==
  g.listed \/ CallsOf(cs, "tree") # {} \/ CallsOf(cs, "info") # {} => g.supplement # Nothing

PanelsInv ==
  /\ PanelsTyped
  /\ RowsTyped(fgis, calls) /\ GsnTyped(gsn, calls)
  /\ "fgis" \notin doubt => RowsRight(fgis, calls)
  /\ "gsn" \notin doubt => GsnRight(gsn, calls, tab)

-----------------------------------------------------------------------------
(* The calls in flight: what is added or taken away leaves the calls of    *)
(* the other kinds as they were.                                           *)

\* The calls of a kind are the same, though their nodes may have left the page.
Keeps(cs, ds, kind) ==
  /\ CallsOf(ds, kind) = {} <=> CallsOf(cs, kind) = {}
  /\ \A j \in CallsOf(ds, kind) : \E i \in CallsOf(cs, kind) : ds[j].of = cs[i].of /\ (ds[j].attached => cs[i].attached)
  /\ \A i \in CallsOf(cs, kind) : \E j \in CallsOf(ds, kind) : ds[j].chain = cs[i].chain
  /\ \A queries : LastAsks(cs, kind, queries) => LastAsks(ds, kind, queries)

\* No node asked for is in the page.
AllDetached(cs) == \A i \in 1..Len(cs) : ~cs[i].attached

\* A call of another kind is added.
LEMMA CallAdded ==
  ASSUME NEW cs \in Seq(CallRecord), NEW c \in CallRecord, NEW kind
  PROVE  /\ Append(cs, c) \in Seq(CallRecord)
         /\ c.kind # kind => Keeps(cs, Append(cs, c), kind)
         /\ c.kind = kind =>
              /\ CallsOf(Append(cs, c), kind) = CallsOf(cs, kind) \cup {Len(cs) + 1}
              /\ \A queries : c.of \in queries => LastAsks(Append(cs, c), kind, queries)
<1> DEFINE ds == Append(cs, c)
           n == Len(cs)
<1>1. /\ n \in Nat /\ Len(ds) = n + 1 /\ ds \in Seq(CallRecord)
      /\ \A i \in 1..n : ds[i] = cs[i]
      /\ ds[n + 1] = c
  OBVIOUS
<1> HIDE DEF ds, n
<1>2. 1..(n + 1) = (1..n) \cup {n + 1} /\ n + 1 \notin 1..n
  BY <1>1
<1>3. ASSUME c.kind # kind PROVE Keeps(cs, ds, kind)
  <2>1. CallsOf(ds, kind) = CallsOf(cs, kind)
    BY <1>1, <1>2, <1>3 DEF CallsOf, n
  <2>2. \A i \in CallsOf(cs, kind) : ds[i] = cs[i]
    BY <1>1 DEF CallsOf, n
  <2> QED
    BY <2>1, <2>2 DEF Keeps, LastAsks
<1>4. ASSUME c.kind = kind
      PROVE  /\ CallsOf(ds, kind) = CallsOf(cs, kind) \cup {n + 1}
             /\ \A queries : c.of \in queries => LastAsks(ds, kind, queries)
  <2>1. CallsOf(ds, kind) = CallsOf(cs, kind) \cup {n + 1}
    BY <1>1, <1>2, <1>4 DEF CallsOf, n
  <2>2. ASSUME NEW queries, c.of \in queries,
               NEW i \in CallsOf(ds, kind), \A j \in CallsOf(ds, kind) : j <= i
        PROVE  ds[i].of \in queries
    <3>1. n + 1 <= i /\ i \in 1..(n + 1)
      BY <1>1, <2>1, <2>2 DEF CallsOf
    <3>2. i = n + 1
      BY <1>1, <3>1
    <3> QED
      BY <1>1, <2>2, <3>2
  <2> QED
    BY <2>1, <2>2 DEF LastAsks
<1> QED
  BY <1>1, <1>3, <1>4 DEF ds, n

\* The tree is emptied: its nodes leave the page.
LEMMA CallsDetached ==
  ASSUME NEW cs \in Seq(CallRecord)
  PROVE  /\ Detached(cs) \in Seq(CallRecord) /\ AllDetached(Detached(cs))
         /\ \A kind : Keeps(cs, Detached(cs), kind)
<1> DEFINE ds == Detached(cs)
           n == Len(cs)
<1>1. n \in Nat /\ \A i \in 1..n : cs[i] \in CallRecord
  OBVIOUS
<1>2. ASSUME NEW i \in 1..n
      PROVE  LET d == [cs[i] EXCEPT !.attached = FALSE] IN
             /\ d \in CallRecord /\ ~d.attached
             /\ d.kind = cs[i].kind /\ d.of = cs[i].of /\ d.chain = cs[i].chain
  <2>1. cs[i] \in CallRecord
    BY <1>1
  <2> QED
    BY <2>1 DEF CallRecord
<1>3. ds = [i \in 1..n |-> [cs[i] EXCEPT !.attached = FALSE]]
  BY DEF Detached
<1>4. ds \in Seq(CallRecord) /\ Len(ds) = n
  BY <1>1, <1>2, <1>3
<1>5. \A i \in 1..n : ~ds[i].attached /\ ds[i].kind = cs[i].kind /\ ds[i].of = cs[i].of /\ ds[i].chain = cs[i].chain
  BY <1>2, <1>3
<1> HIDE DEF ds
<1>6. AllDetached(ds)
  BY <1>4, <1>5 DEF AllDetached
<1>7. ASSUME NEW kind PROVE Keeps(cs, ds, kind)
  <2>1. CallsOf(ds, kind) = CallsOf(cs, kind)
    BY <1>4, <1>5 DEF CallsOf
  <2>2. \A i \in CallsOf(cs, kind) : i \in 1..n
    BY DEF CallsOf
  <2> HIDE DEF n
  <2> QED
    BY <1>5, <2>1, <2>2 DEF Keeps, LastAsks
<1> QED
  BY <1>4, <1>6, <1>7 DEF ds

LEMMA KeepsBoth ==
  ASSUME NEW cs, NEW ds, NEW es, NEW kind, Keeps(cs, ds, kind), Keeps(ds, es, kind)
  PROVE  Keeps(cs, es, kind)
BY DEF Keeps

\* A call is answered: the calls of other kinds are the same, those of its kind are the others.
LEMMA CallTaken ==
  ASSUME NEW cs \in Seq(CallRecord), NEW i \in 1..Len(cs), NEW kind
  PROVE  LET ds == RemoveAt(cs, i) IN
         /\ ds \in Seq(CallRecord)
         /\ cs[i].kind # kind => Keeps(cs, ds, kind)
         /\ \A k \in CallsOf(ds, kind) :
              \E j \in CallsOf(cs, kind) : ds[k].of = cs[j].of /\ (ds[k].attached => cs[j].attached)
         /\ \A j \in CallsOf(cs, kind) : j # i => \E k \in CallsOf(ds, kind) : ds[k].chain = cs[j].chain
<1> DEFINE ds == RemoveAt(cs, i)
           n == Len(cs)
           at(k) == IF k < i THEN k ELSE k + 1
           was(j) == IF j < i THEN j ELSE j - 1
<1>1. /\ n \in Nat /\ i \in Nat /\ i >= 1 /\ i <= n
      /\ ds \in Seq(CallRecord) /\ Len(ds) = n - 1
      /\ \A k \in 1..(n - 1) : ds[k] = IF k < i THEN cs[k] ELSE cs[k + 1]
  BY ElementRemoved
<1> HIDE DEF ds
<1>2. \A k \in 1..Len(ds) : at(k) \in 1..n /\ at(k) # i /\ ds[k] = cs[at(k)]
  BY <1>1
<1>3. \A j \in 1..n : j # i => was(j) \in 1..Len(ds) /\ at(was(j)) = j
  BY <1>1
<1>4. \A k, l \in 1..Len(ds) : k <= l <=> at(k) <= at(l)
  BY <1>1
<1>5. \A k \in CallsOf(ds, kind) : k \in 1..Len(ds) /\ at(k) \in CallsOf(cs, kind) /\ at(k) # i /\ ds[k] = cs[at(k)]
  BY <1>2 DEF CallsOf
<1>6. \A j \in CallsOf(cs, kind) : j # i => was(j) \in CallsOf(ds, kind) /\ at(was(j)) = j /\ ds[was(j)] = cs[j]
  BY <1>2, <1>3 DEF CallsOf
<1> HIDE DEF at, was, n
<1>7. ASSUME cs[i].kind # kind PROVE Keeps(cs, ds, kind)
  <2>1. \A j \in CallsOf(cs, kind) : j # i
    BY <1>7 DEF CallsOf
  <2>2. ASSUME NEW queries, LastAsks(cs, kind, queries),
               NEW k \in CallsOf(ds, kind), \A l \in CallsOf(ds, kind) : l <= k
        PROVE  ds[k].of \in queries
    <3>1. \A j \in CallsOf(cs, kind) : j <= at(k)
      BY <1>4, <1>5, <1>6, <2>1, <2>2
    <3> QED
      BY <1>5, <2>2, <3>1 DEF LastAsks
  <2>3. \A queries : LastAsks(cs, kind, queries) => LastAsks(ds, kind, queries)
    BY <2>2 DEF LastAsks
  <2> QED
    BY <1>5, <1>6, <2>1, <2>3 DEF Keeps
<1> QED
  BY <1>1, <1>5, <1>6, <1>7 DEF ds

\* If the call was the first of its kind, the last one still asks for what it did, unless it was
\* the call answered.
LEMMA TakenInTurn ==
  ASSUME NEW cs \in Seq(CallRecord), NEW i \in 1..Len(cs), \A j \in 1..(i - 1) : cs[j].kind # cs[i].kind,
         NEW queries, LastAsks(cs, cs[i].kind, queries)
  PROVE  /\ LastAsks(RemoveAt(cs, i), cs[i].kind, queries)
         /\ CallsOf(RemoveAt(cs, i), cs[i].kind) = {} => cs[i].of \in queries
<1> DEFINE ds == RemoveAt(cs, i)
           n == Len(cs)
           kind == cs[i].kind
           at(k) == IF k < i THEN k ELSE k + 1
           was(j) == IF j < i THEN j ELSE j - 1
<1>12. n \in Nat /\ i \in Nat /\ i >= 1 /\ i <= n
  OBVIOUS
<1>13. /\ ds \in Seq(CallRecord) /\ Len(ds) = n - 1
       /\ \A k \in 1..(n - 1) : ds[k] = IF k < i THEN cs[k] ELSE cs[k + 1]
  BY ElementRemoved, Zenon
<1>1. /\ n \in Nat /\ i \in Nat /\ i >= 1 /\ i <= n
      /\ ds \in Seq(CallRecord) /\ Len(ds) = n - 1
      /\ \A k \in 1..(n - 1) : ds[k] = IF k < i THEN cs[k] ELSE cs[k + 1]
  BY <1>12, <1>13
<1>7. \A j \in CallsOf(cs, kind) : i <= j
  BY <1>1 DEF CallsOf
<1> HIDE DEF ds
<1>2. \A k \in 1..Len(ds) : at(k) \in 1..n /\ at(k) # i /\ ds[k] = cs[at(k)]
  BY <1>1
<1>3. \A j \in 1..n : j # i => was(j) \in 1..Len(ds) /\ at(was(j)) = j
  BY <1>1
<1>4. \A k, l \in 1..Len(ds) : k <= l <=> at(k) <= at(l)
  BY <1>1
<1>5. \A k \in CallsOf(ds, kind) : k \in 1..Len(ds) /\ at(k) \in CallsOf(cs, kind) /\ at(k) # i /\ ds[k] = cs[at(k)]
  BY <1>2 DEF CallsOf
<1>6. \A j \in CallsOf(cs, kind) : j # i => was(j) \in CallsOf(ds, kind) /\ at(was(j)) = j
  BY <1>2, <1>3 DEF CallsOf
<1> HIDE DEF at, was
<1>8. i \in CallsOf(cs, kind)
  BY DEF CallsOf
<1>10. LastAsks(cs, kind, queries)
  OBVIOUS
<1> HIDE DEF n, kind
<1>9. ASSUME NEW k \in CallsOf(ds, kind), \A l \in CallsOf(ds, kind) : l <= k
      PROVE  ds[k].of \in queries
  <2>1. \A j \in CallsOf(cs, kind) : j <= at(k)
    <3> TAKE j \in CallsOf(cs, kind)
    <3>1. CASE j = i
      BY <1>5, <1>7, <3>1
    <3>2. CASE j # i
      BY <1>4, <1>5, <1>6, <1>9, <3>2
    <3> QED
      BY <3>1, <3>2
  <2> QED
    BY <1>5, <1>10, <2>1 DEF LastAsks
<1>11. ASSUME CallsOf(ds, kind) = {} PROVE cs[i].of \in queries
  <2>1. \A j \in CallsOf(cs, kind) : j <= i
    BY <1>1, <1>6, <1>11
  <2> QED
    BY <1>8, <1>10, <2>1 DEF LastAsks
<1> QED
  BY <1>9, <1>11 DEF LastAsks, ds, kind

LEMMA KeepsSame == ASSUME NEW cs, NEW kind PROVE Keeps(cs, cs, kind)
BY DEF Keeps

LEMMA KeepsTyped ==
  ASSUME NEW f, NEW g, NEW cs, NEW ds
  PROVE  /\ RowsTyped(f, cs) /\ Keeps(cs, ds, "rows") => RowsTyped(f, ds)
         /\ GsnTyped(g, cs) /\ Keeps(cs, ds, "tree") /\ Keeps(cs, ds, "info") => GsnTyped(g, ds)
<1>1. RowsTyped(f, cs) /\ Keeps(cs, ds, "rows") => RowsTyped(f, ds)
  BY DEF RowsTyped, Keeps
<1>2. GsnTyped(g, cs) /\ Keeps(cs, ds, "tree") /\ Keeps(cs, ds, "info") => GsnTyped(g, ds)
  BY DEF GsnTyped, Keeps
<1> QED
  BY <1>1, <1>2

LEMMA KeepsRows ==
  ASSUME NEW f, NEW cs, NEW ds, RowsRight(f, cs), Keeps(cs, ds, "rows")
  PROVE  RowsRight(f, ds)
BY DEF RowsRight, Keeps

LEMMA KeepsTree ==
  ASSUME NEW g, NEW cs, NEW ds, NEW there, NEW then, GsnRight(g, cs, there), there # "gsn" => then # "gsn",
         \A kind \in GsnKinds \ {"list"} : Keeps(cs, ds, kind)
  PROVE  GsnRight(g, ds, then)
<1>1. Keeps(cs, ds, "info") /\ Keeps(cs, ds, "tree") /\ Keeps(cs, ds, "branch")
  BY DEF GsnKinds
<1>2. InfoRight(g, ds) /\ TreeRight(g, ds)
  BY <1>1 DEF GsnRight, InfoRight, TreeRight, Keeps
<1>3. BranchesRight(g, cs) => BranchesRight(g, ds)
  BY <1>1 DEF BranchesRight, Keeps
<1>4. Renewed(g, cs, there) => Renewed(g, ds, then)
  <2> SUFFICES ASSUME Renewed(g, cs, there) PROVE Renewed(g, ds, then)
    OBVIOUS
  <2>1. (\E i \in CallsOf(cs, "info") : cs[i].chain) => \E i \in CallsOf(ds, "info") : ds[i].chain
    BY <1>1 DEF Keeps
  <2>2. CallsOf(ds, "tree") = {}
    BY <1>1 DEF Keeps, Renewed
  <2> QED
    BY <2>1, <2>2 DEF Renewed
<1> QED
  BY <1>2, <1>3, <1>4 DEF GsnRight

-----------------------------------------------------------------------------
(* The table of prices: each operator keeps the invariant.                 *)

FgisAfter(after, cs) ==
  /\ after.panel \in FgisRecord /\ after.calls \in Seq(CallRecord)
  /\ RowsTyped(after.panel, after.calls)
  /\ \A kind \in GsnKinds : Keeps(cs, after.calls, kind)

LEMMA HitsAre == ASSUME NEW set \in FgisSets, NEW word \in Searches PROVE Hits[set][word] \in Nat
BY HitsAssumption

\* The rows asked for are the ones selected (loadFGISRows).
LEMMA RowsLoaded ==
  ASSUME NEW f \in FgisRecord, NEW cs \in Seq(CallRecord), RowsTyped(f, cs), NEW silent \in BOOLEAN
  PROVE  /\ FgisAfter(LoadRows(f, cs, silent), cs)
         /\ PageThere(f) => RowsRight(LoadRows(f, cs, silent).panel, LoadRows(f, cs, silent).calls)
<1> DEFINE after == LoadRows(f, cs, silent)
           c == Call("rows", OfRows(f), FALSE)
<1>1. CASE f.set = Nothing
  <2> DEFINE g == [f EXCEPT !.rows = Nothing, !.count = 0, !.total = 0, !.loadedSet = Nothing, !.shown = "nothing"]
  <2>1. after.panel = g /\ after.calls = cs
    BY <1>1 DEF LoadRows, AfterAnswer, Rendered, FgisRecord
  <2>2. /\ g \in FgisRecord /\ g.set = Nothing /\ g.rows = Nothing /\ g.loadedSet = Nothing /\ g.shown = "nothing"
        /\ g.loading = f.loading /\ g.offset = f.offset /\ g.word = f.word /\ g.set = f.set
    BY <1>1 DEF FgisRecord
  <2>3. Nothing \notin FgisSets
    BY NothingAssumption
  <2>4. CallsOf(cs, "rows") = {}
    BY <1>1, <2>3 DEF RowsTyped
  <2> HIDE DEF g
  <2>5. RowsTyped(g, cs)
    BY <2>2, <2>4 DEF RowsTyped
  <2>6. PageThere(f) => RowsRight(g, cs)
    BY <2>2, <2>4 DEF RowsRight, LastAsks, PageThere
  <2> QED
    BY <2>1, <2>2, <2>5, <2>6, KeepsSame DEF FgisAfter
<1>2. CASE f.set # Nothing
  <2> DEFINE g == [f EXCEPT !.loading = TRUE]
             h == IF silent THEN g ELSE [g EXCEPT !.shown = "loading"]
  <2>1. after.panel = h /\ after.calls = Append(cs, c)
    BY <1>2 DEF LoadRows, AfterAnswer, Rendered, FgisRecord
  <2>2. /\ h \in FgisRecord /\ h.set = f.set /\ h.word = f.word /\ h.offset = f.offset
        /\ h.rows = f.rows /\ h.loadedSet = f.loadedSet /\ h.total = f.total
    BY DEF FgisRecord
  <2>3. /\ OfRows(f) \in RowQueries /\ f.set \in FgisSets /\ c \in CallRecord /\ c.kind = "rows" /\ c.of = OfRows(f)
        /\ OfRows(h) = OfRows(f)
    <3>1. f.set \in FgisSets /\ f.word \in Searches /\ f.offset \in Nat
      BY <1>2 DEF FgisRecord
    <3>2. OfRows(f) \in RowQueries /\ OfRows(f) \in Queries
      BY <3>1 DEF OfRows, Query, RowQueries, Queries, Chosen
    <3>3. OfRows(h) = OfRows(f)
      BY <2>2 DEF OfRows
    <3> QED
      BY <3>1, <3>2, <3>3 DEF Call, CallRecord
  <2> HIDE DEF h, c
  <2>4. \A kind \in GsnKinds : kind # "rows"
    BY DEF GsnKinds
  <2>5. \A kind \in GsnKinds : Keeps(cs, Append(cs, c), kind)
    BY <2>3, <2>4, CallAdded
  <2>6. /\ Append(cs, c) \in Seq(CallRecord)
        /\ CallsOf(Append(cs, c), "rows") = CallsOf(cs, "rows") \cup {Len(cs) + 1}
        /\ LastAsks(Append(cs, c), "rows", {OfRows(h)})
    BY <2>3, CallAdded
  <2>7. \A i \in CallsOf(Append(cs, c), "rows") : Append(cs, c)[i].of \in RowQueries
    <3> TAKE i \in CallsOf(Append(cs, c), "rows")
    <3>1. CASE i \in CallsOf(cs, "rows")
      BY <3>1 DEF CallsOf, RowsTyped
    <3>2. CASE i = Len(cs) + 1
      BY <2>3, <3>2
    <3> QED
      BY <2>6, <3>1, <3>2
  <2>8. RowsTyped(h, Append(cs, c))
    BY <2>2, <2>3, <2>6, <2>7 DEF RowsTyped
  <2>9. PageThere(f) => RowsRight(h, Append(cs, c))
    BY <2>2, <2>6 DEF RowsRight, PageThere
  <2> QED
    BY <2>1, <2>2, <2>5, <2>6, <2>8, <2>9 DEF FgisAfter
<1> QED
  BY <1>1, <1>2

\* The tab of the prices is opened, or its sets are read (loadFGISPricesPanel).
LEMMA FgisLoaded ==
  ASSUME NEW f \in FgisRecord, NEW cs \in Seq(CallRecord), RowsTyped(f, cs), NEW there \in BOOLEAN
  PROVE  /\ FgisAfter(LoadFgisPanel(f, cs, there), cs)
         /\ RowsRight(f, cs) => RowsRight(LoadFgisPanel(f, cs, there).panel, LoadFgisPanel(f, cs, there).calls)
<1> DEFINE after == LoadFgisPanel(f, cs, there)
           g == IF f.set \in FgisSets THEN f ELSE [f EXCEPT !.set = FirstSet, !.offset = 0, !.word = NoWord]
           asks == f.set \notin FgisSets \/ g.loadedSet # g.set \/ (there /\ ~g.loading /\ g.count = 0)
           silent == g.count > 0 /\ g.loadedSet = g.set
<1>1. FirstSet \in FgisSets
  BY NothingAssumption DEF FirstSet
<1>2. g \in FgisRecord /\ RowsTyped(g, cs) /\ (RowsRight(f, cs) => PageThere(g))
  <2>1. CASE f.set \in FgisSets
    BY <2>1 DEF RowsRight
  <2>2. CASE f.set \notin FgisSets
    <3>1. /\ g \in FgisRecord /\ g.set = FirstSet /\ g.offset = 0
          /\ g.rows = f.rows /\ g.loadedSet = f.loadedSet /\ g.total = f.total /\ g.loading = f.loading
      BY <1>1, <2>2 DEF FgisRecord, Searches
    <3> HIDE DEF g
    <3> QED
      BY <1>1, <3>1 DEF RowsTyped, PageThere
  <2> QED
    BY <2>1, <2>2
<1>3. CASE f.sets = "none"
  <2> DEFINE h == [f EXCEPT !.shown = "nothing"]
  <2>1. after.panel = h /\ after.calls = cs
    BY <1>3 DEF LoadFgisPanel, AfterAnswer
  <2>2. /\ h \in FgisRecord /\ h.set = f.set /\ h.word = f.word /\ h.offset = f.offset /\ h.shown = "nothing"
        /\ h.rows = f.rows /\ h.loadedSet = f.loadedSet /\ h.total = f.total /\ h.loading = f.loading
    BY DEF FgisRecord
  <2> HIDE DEF h
  <2>3. RowsTyped(h, cs) /\ (RowsRight(f, cs) => RowsRight(h, cs))
    BY <2>2 DEF RowsTyped, RowsRight, OfRows, PageThere
  <2> QED
    BY <2>1, <2>2, <2>3, KeepsSame DEF FgisAfter
<1>4. CASE f.sets # "none" /\ asks
  <2>1. silent \in BOOLEAN /\ after = LoadRows(g, cs, silent)
    BY <1>4 DEF LoadFgisPanel
  <2> HIDE DEF g, silent, after
  <2> QED
    BY <1>2, <2>1, RowsLoaded DEF after
<1>5. CASE f.sets # "none" /\ ~asks
  <2>1. /\ f.set \in FgisSets /\ f.loadedSet = f.set /\ f.set # Nothing
        /\ after = AfterAnswer(Rendered(f), cs)
    BY <1>5, NothingAssumption DEF LoadFgisPanel
  <2> DEFINE h == Rendered(f)
  <2>2. /\ h \in FgisRecord /\ h.set = f.set /\ h.word = f.word /\ h.offset = f.offset
        /\ h.rows = f.rows /\ h.loadedSet = f.loadedSet /\ h.total = f.total /\ h.loading = f.loading
    BY DEF FgisRecord, Rendered
  <2> HIDE DEF h
  <2>3. RowsTyped(h, cs) /\ (RowsRight(f, cs) => RowsRight(h, cs))
    BY <2>1, <2>2 DEF RowsTyped, RowsRight, OfRows, PageThere
  <2>4. after.panel = h /\ after.calls = cs
    BY <2>1 DEF AfterAnswer, h
  <2> QED
    BY <2>2, <2>3, <2>4, KeepsSame DEF FgisAfter
<1> QED
  BY <1>3, <1>4, <1>5

\* A call for the sets or for rows is answered or fails; in its turn it is for the rows selected,
\* if it is the last.
LEMMA RowsAnswered ==
  ASSUME NEW f \in FgisRecord, NEW cs \in Seq(CallRecord), RowsTyped(f, cs),
         NEW i \in 1..Len(cs), cs[i].kind \in {"sets", "rows"}, NEW ok \in BOOLEAN
  PROVE  LET after == AnswersRows(f, cs[i], ok, RemoveAt(cs, i)) IN
         /\ FgisAfter(after, cs)
         /\ RowsRight(f, cs) /\ (\A j \in 1..(i - 1) : cs[j].kind # cs[i].kind) => RowsRight(after.panel, after.calls)
<1> DEFINE c == cs[i]
           ds == RemoveAt(cs, i)
           after == AnswersRows(f, c, ok, ds)
<1>1. ds \in Seq(CallRecord) /\ \A kind \in GsnKinds : Keeps(cs, ds, kind)
  <2>1. \A kind \in GsnKinds : c.kind # kind
    BY DEF GsnKinds
  <2> QED
    BY <2>1, CallTaken, Zenon
<1>2. CASE c.kind = "sets"
  <2> DEFINE g == [f EXCEPT !.sets = IF ok THEN "read" ELSE "none"]
             there == inBase /\ tab = "fgis"
  <2>0. there \in BOOLEAN
    OBVIOUS
  <2>10. after = LoadFgisPanel(g, ds, there)
    BY <1>2 DEF AnswersRows
  <2>1. there \in BOOLEAN /\ after = LoadFgisPanel(g, ds, there)
    BY <2>0, <2>10
  <2>2. Keeps(cs, ds, "rows")
    BY <1>2, CallTaken
  <2>3. /\ g \in FgisRecord /\ g.set = f.set /\ g.word = f.word /\ g.offset = f.offset /\ g.shown = f.shown
        /\ g.rows = f.rows /\ g.loadedSet = f.loadedSet /\ g.total = f.total /\ g.loading = f.loading
    BY DEF FgisRecord
  <2> HIDE DEF g, there, ds, after
  <2>4. RowsTyped(g, cs) /\ (RowsRight(f, cs) => RowsRight(g, cs))
    BY <2>3 DEF RowsTyped, RowsRight, OfRows, PageThere
  <2>5. RowsTyped(g, ds) /\ (RowsRight(f, cs) => RowsRight(g, ds))
    BY <2>2, <2>4, KeepsTyped, KeepsRows
  <2>6. FgisAfter(after, ds) /\ (RowsRight(f, cs) => RowsRight(after.panel, after.calls))
    BY <1>1, <2>1, <2>3, <2>5, FgisLoaded
  <2>7. FgisAfter(after, cs)
    BY <1>1, <2>6, KeepsBoth DEF FgisAfter
  <2> QED
    BY <2>6, <2>7 DEF after, ds
<1>3. CASE c.kind = "rows"
  <2>1. /\ i \in CallsOf(cs, "rows") /\ c.of \in RowQueries /\ f.set \in FgisSets
        /\ c.of \in Queries /\ c.of.choice \in FgisSets /\ c.of.word \in Searches /\ c.of.offset \in Nat
    BY <1>3 DEF CallsOf, RowsTyped, RowQueries, Queries, Chosen
  <2>2. \A k \in CallsOf(ds, "rows") : ds[k].of \in RowQueries
    <3>1. \A k \in CallsOf(ds, "rows") : \E j \in CallsOf(cs, "rows") : ds[k].of = cs[j].of
      BY CallTaken
    <3> QED
      BY <3>1 DEF RowsTyped
  <2>3. ASSUME RowsRight(f, cs), \A j \in 1..(i - 1) : cs[j].kind # c.kind
        PROVE  LastAsks(ds, "rows", {OfRows(f)}) /\ (CallsOf(ds, "rows") = {} => c.of = OfRows(f))
    <3>1. LastAsks(cs, c.kind, {OfRows(f)})
      BY <1>3, <2>3 DEF RowsRight
    <3> QED
      BY <1>3, <2>3, <3>1, TakenInTurn
  <2>4. CASE ok
    <3> DEFINE total == Hits[c.of.choice][c.of.word]
               g == [f EXCEPT !.rows = c.of, !.total = total, !.loadedSet = f.set, !.loading = FALSE,
                              !.count = Smaller(PageLimit, Larger(0, total - c.of.offset))]
               h == Rendered(g)
    <3>1. after.panel = h /\ after.calls = ds
      BY <1>3, <2>4 DEF AnswersRows, AfterAnswer
    <3>2. total \in Nat /\ Smaller(PageLimit, Larger(0, total - c.of.offset)) \in Nat
      <4>1. total \in Nat
        BY <2>1, HitsAre
      <4> HIDE DEF total
      <4> QED
        BY <2>1, <4>1, PageLimitAssumption DEF Smaller, Larger
    <3> DEFINE count == Smaller(PageLimit, Larger(0, total - c.of.offset))
    <3> HIDE DEF total, count
    <3>3. /\ h \in FgisRecord /\ h.set = f.set /\ h.word = f.word /\ h.offset = f.offset /\ h.loading = FALSE
          /\ h.rows = c.of /\ h.loadedSet = f.set /\ h.total = total
      <4>1. /\ g \in FgisRecord /\ g.set = f.set /\ g.word = f.word /\ g.offset = f.offset /\ g.loading = FALSE
            /\ g.rows = c.of /\ g.loadedSet = f.set /\ g.total = total
        BY <2>1, <3>2 DEF FgisRecord, count
      <4> HIDE DEF g
      <4> QED
        BY <4>1 DEF FgisRecord, Rendered
    <3> HIDE DEF h
    <3>4. f.set # Nothing /\ OfRows(h) = OfRows(f) /\ (PageThere(f) => PageThere(h))
      BY <2>1, <3>3, NothingAssumption DEF OfRows, PageThere
    <3>5. RowsTyped(h, ds)
      BY <2>1, <2>2, <3>3 DEF RowsTyped, total
    <3>6. RowsRight(f, cs) /\ (\A j \in 1..(i - 1) : cs[j].kind # c.kind) => RowsRight(h, ds)
      BY <2>3, <3>3, <3>4 DEF RowsRight
    <3> QED
      BY <1>1, <3>1, <3>3, <3>5, <3>6 DEF FgisAfter
  <2>5. CASE ~ok
    <3> DEFINE h == [f EXCEPT !.rows = Nothing, !.total = 0, !.count = 0, !.loadedSet = Nothing,
                              !.loading = FALSE, !.shown = "nothing"]
    <3>1. after.panel = h /\ after.calls = ds
      BY <1>3, <2>5 DEF AnswersRows, AfterAnswer
    <3>2. /\ h \in FgisRecord /\ h.set = f.set /\ h.word = f.word /\ h.offset = f.offset /\ h.loading = FALSE
          /\ h.rows = Nothing /\ h.loadedSet = Nothing /\ h.shown = "nothing"
      BY DEF FgisRecord
    <3> HIDE DEF h
    <3>3. f.set # Nothing /\ OfRows(h) = OfRows(f) /\ (PageThere(f) => PageThere(h))
      BY <2>1, <3>2, NothingAssumption DEF OfRows, PageThere
    <3>4. RowsTyped(h, ds)
      BY <2>1, <2>2, <3>2 DEF RowsTyped
    <3>5. RowsRight(f, cs) /\ (\A j \in 1..(i - 1) : cs[j].kind # c.kind) => RowsRight(h, ds)
      BY <2>3, <3>2, <3>3 DEF RowsRight
    <3> QED
      BY <1>1, <3>1, <3>2, <3>4, <3>5 DEF FgisAfter
  <2> QED
    BY <2>4, <2>5
<1> QED
  BY <1>2, <1>3

-----------------------------------------------------------------------------
(* The tree of norms: each operator keeps the invariant.                   *)

GsnAfter(after, cs) ==
  /\ after.panel \in GsnRecord /\ after.calls \in Seq(CallRecord)
  /\ GsnTyped(after.panel, after.calls)
  /\ Keeps(cs, after.calls, "rows")

\* What the invariant says of a panel that goes on to load the tree.
GsnNearly(g, cs) ==
  /\ InfoRight(g, cs) /\ TreeRight(g, cs)
  /\ BranchesRight(g, cs) \/ (g.listed /\ ~g.loaded /\ CallsOf(cs, "tree") = {})

LEMMA RightIsNearly == ASSUME NEW g, NEW cs, NEW there, GsnRight(g, cs, there) PROVE GsnNearly(g, cs)
BY DEF GsnRight, GsnNearly, Renewed

LEMMA SupplementsAre ==
  /\ Nothing \notin ToSet(Supplements) /\ Head(Supplements) \in ToSet(Supplements)
<1>1. Supplements \in Seq(ToSet(Supplements)) /\ Supplements # <<>>
  BY SupplementsAssumption
<1>2. Head(Supplements) \in ToSet(Supplements)
  BY <1>1
<1> QED
  BY <1>2, NothingAssumption

\* The query of a call made for the tree.
LEMMA TreeQuery ==
  ASSUME NEW g \in GsnRecord, NEW kind \in {"list", "info", "tree", "branch"}, NEW chain \in BOOLEAN
  PROVE  /\ OfTree(g) \in Queries /\ OfTree(g).choice = g.supplement
         /\ Call(kind, OfTree(g), chain) \in CallRecord
         /\ Call(kind, OfTree(g), chain).kind = kind /\ Call(kind, OfTree(g), chain).of = OfTree(g)
         /\ Call(kind, OfTree(g), chain).chain = chain
<1>1. g.supplement \in Chosen /\ g.word \in Searches
  BY DEF GsnRecord, Chosen
<1>2. OfTree(g) \in Queries /\ OfTree(g).choice = g.supplement
  BY <1>1 DEF OfTree, Query, Queries
<1> QED
  BY <1>2 DEF Call, CallRecord, GsnKinds

\* The tree is asked for, by force or when it is not loaded (loadGSNRoot, loadGSNSearch).
LEMMA TreeLoaded ==
  ASSUME NEW g \in GsnRecord, NEW cs \in Seq(CallRecord), GsnTyped(g, cs), NEW there, NEW force \in BOOLEAN
  PROVE  LET after == LoadTree(g, cs, there, force) IN
         /\ GsnAfter(after, cs)
         /\ there # "gsn" => after.panel = g /\ after.calls = cs
         /\ there = "gsn" /\ GsnNearly(g, cs) => GsnRight(after.panel, after.calls, there)
         /\ there = "gsn" /\ force /\ g.supplement # Nothing /\ InfoRight(g, cs) =>
              GsnRight(after.panel, after.calls, there)
<1> DEFINE after == LoadTree(g, cs, there, force)
           c == Call("tree", OfTree(g), FALSE)
           h == [g EXCEPT !.tree = Nothing, !.branches = {}]
           ds == Detached(cs)
           es == Append(ds, c)
<1>1. CASE there # "gsn" \/ g.supplement = Nothing \/ (g.loaded /\ ~force)
  <2>1. after.panel = g /\ after.calls = cs
    BY <1>1 DEF LoadTree, AfterAnswer
  <2>2. GsnAfter(after, cs)
    BY <2>1, KeepsSame DEF GsnAfter
  <2>3. ASSUME there = "gsn", GsnNearly(g, cs) PROVE GsnRight(g, cs, there)
    BY <1>1, <2>3 DEF GsnNearly, GsnRight, GsnTyped, BranchesRight
  <2>4. ASSUME there = "gsn", force, g.supplement # Nothing, InfoRight(g, cs) PROVE FALSE
    BY <1>1, <2>4
  <2> QED
    BY <2>1, <2>2, <2>3, <2>4
<1>2. CASE ~(there # "gsn" \/ g.supplement = Nothing \/ (g.loaded /\ ~force))
  <2>1. after.panel = h /\ after.calls = es
    BY <1>2 DEF LoadTree, AfterAnswer
  <2>2. /\ h \in GsnRecord /\ h.supplement = g.supplement /\ h.word = g.word /\ h.infoLoaded = g.infoLoaded
        /\ h.info = g.info /\ h.branches = {} /\ h.listed = g.listed
    BY DEF GsnRecord
  <2>3. OfTree(h) = OfTree(g)
    BY <2>2 DEF OfTree
  <2>4. ds \in Seq(CallRecord) /\ AllDetached(ds) /\ \A kind : Keeps(cs, ds, kind)
    BY CallsDetached
  <2>5. c \in CallRecord /\ c.kind = "tree" /\ c.of = OfTree(g)
    BY TreeQuery
  <2> HIDE DEF c, h, ds
  <2>6. /\ es \in Seq(CallRecord)
        /\ Keeps(ds, es, "rows") /\ Keeps(ds, es, "info") /\ Keeps(ds, es, "branch")
        /\ CallsOf(es, "tree") = CallsOf(ds, "tree") \cup {Len(ds) + 1}
        /\ LastAsks(es, "tree", {OfTree(g)})
    <3>1. es \in Seq(CallRecord) /\ \A kind : kind # "tree" => Keeps(ds, es, kind)
      BY <2>4, <2>5, CallAdded
    <3>2. /\ CallsOf(es, "tree") = CallsOf(ds, "tree") \cup {Len(ds) + 1}
          /\ LastAsks(es, "tree", {OfTree(g)})
      BY <2>4, <2>5, CallAdded
    <3> QED
      BY <3>1, <3>2
  <2>7. \A i \in CallsOf(es, "branch") : ~es[i].attached
    <3>1. \A i \in CallsOf(ds, "branch") : ~ds[i].attached
      BY <2>4 DEF AllDetached, CallsOf
    <3> QED
      BY <2>6, <3>1 DEF Keeps
  <2> HIDE DEF es
  <2>8. Keeps(cs, es, "rows") /\ Keeps(cs, es, "info")
    BY <2>4, <2>6, KeepsBoth
  <2>9. GsnTyped(h, es)
    BY <1>2, <2>2 DEF GsnTyped
  <2>10. ASSUME InfoRight(g, cs) PROVE GsnRight(h, es, there)
    <3>1. InfoRight(h, es)
      BY <2>2, <2>8, <2>10 DEF InfoRight, Keeps
    <3>2. TreeRight(h, es)
      BY <2>3, <2>6 DEF TreeRight
    <3>3. BranchesRight(h, es)
      BY <2>2, <2>7 DEF BranchesRight
    <3> QED
      BY <3>1, <3>2, <3>3 DEF GsnRight
  <2> QED
    BY <1>2, <2>1, <2>2, <2>6, <2>8, <2>9, <2>10 DEF GsnAfter, GsnNearly
<1> QED
  BY <1>1, <1>2

\* The information on the base is asked for.
LEMMA InfoAsked ==
  ASSUME NEW g \in GsnRecord, NEW cs \in Seq(CallRecord), g.supplement # Nothing, NEW chain \in BOOLEAN
  PROVE  LET ds == Append(cs, Call("info", OfTree(g), chain)) IN
         /\ ds \in Seq(CallRecord) /\ GsnTyped(g, ds)
         /\ Keeps(cs, ds, "rows") /\ Keeps(cs, ds, "tree") /\ Keeps(cs, ds, "branch")
         /\ ~g.infoLoaded => InfoRight(g, ds)
         /\ chain => \E i \in CallsOf(ds, "info") : ds[i].chain
<1> DEFINE c == Call("info", OfTree(g), chain)
           ds == Append(cs, c)
<1>1. c \in CallRecord /\ c.kind = "info" /\ c.of \in {q \in Queries : q.choice = g.supplement} /\ c.chain = chain
  BY TreeQuery
<1>2. ds[Len(cs) + 1] = c
  BY <1>1
<1> HIDE DEF c
<1>3. ds \in Seq(CallRecord) /\ \A kind : kind # "info" => Keeps(cs, ds, kind)
  BY <1>1, CallAdded
<1>4. /\ CallsOf(ds, "info") = CallsOf(cs, "info") \cup {Len(cs) + 1}
      /\ LastAsks(ds, "info", {q \in Queries : q.choice = g.supplement})
  BY <1>1, CallAdded
<1> HIDE DEF ds
<1>5. chain => \E i \in CallsOf(ds, "info") : ds[i].chain
  BY <1>1, <1>2, <1>4
<1> QED
  BY <1>3, <1>4, <1>5 DEF InfoRight, GsnTyped, ds, c

\* A panel on its way to the tree: the information is asked for first (loadGSNBaseInfo in
\* loadGSNPanel).
LEMMA InfoLoadedFirst ==
  ASSUME NEW g \in GsnRecord, NEW cs \in Seq(CallRecord), GsnTyped(g, cs), NEW there
  PROVE  LET after == LoadInfo(g, cs, there, TRUE) IN
         /\ GsnAfter(after, cs)
         /\ GsnNearly(g, cs) => GsnRight(after.panel, after.calls, there)
<1> DEFINE after == LoadInfo(g, cs, there, TRUE)
           ds == Append(cs, Call("info", OfTree(g), TRUE))
<1>1. CASE g.infoLoaded \/ g.supplement = Nothing
  <2>1. after = LoadTree(g, cs, there, FALSE)
    BY <1>1 DEF LoadInfo
  <2>4. /\ GsnAfter(after, cs)
        /\ there # "gsn" => after.panel = g /\ after.calls = cs
        /\ there = "gsn" /\ GsnNearly(g, cs) => GsnRight(after.panel, after.calls, there)
    <3>1. \A force \in BOOLEAN :
             /\ GsnAfter(LoadTree(g, cs, there, force), cs)
             /\ there # "gsn" => LoadTree(g, cs, there, force).panel = g /\ LoadTree(g, cs, there, force).calls = cs
             /\ there = "gsn" /\ GsnNearly(g, cs) =>
                  GsnRight(LoadTree(g, cs, there, force).panel, LoadTree(g, cs, there, force).calls, there)
      BY TreeLoaded
    <3> HIDE DEF after
    <3> QED
      BY <2>1, <3>1
  <2>2. CASE there = "gsn"
    BY <2>2, <2>4
  <2>3. CASE there # "gsn"
    <3>1. GsnAfter(after, cs) /\ after.panel = g /\ after.calls = cs
      BY <2>3, <2>4
    <3>2. ASSUME GsnNearly(g, cs) PROVE GsnRight(g, cs, there)
      BY <1>1, <2>3, <3>2 DEF GsnNearly, GsnRight, Renewed, GsnTyped
    <3> QED
      BY <3>1, <3>2
  <2> QED
    BY <2>2, <2>3
<1>2. CASE ~(g.infoLoaded \/ g.supplement = Nothing)
  <2>1. after.panel = g /\ after.calls = ds
    BY <1>2 DEF LoadInfo, AfterAnswer
  <2>2. /\ ds \in Seq(CallRecord) /\ GsnTyped(g, ds)
        /\ Keeps(cs, ds, "rows") /\ Keeps(cs, ds, "tree") /\ Keeps(cs, ds, "branch")
        /\ InfoRight(g, ds) /\ \E i \in CallsOf(ds, "info") : ds[i].chain
    BY <1>2, InfoAsked
  <2> HIDE DEF ds, after
  <2>3. ASSUME GsnNearly(g, cs) PROVE GsnRight(g, ds, there)
    <3>1. TreeRight(g, ds)
      BY <2>2, <2>3 DEF GsnNearly, TreeRight, Keeps
    <3>2. BranchesRight(g, cs) => BranchesRight(g, ds)
      BY <2>2 DEF BranchesRight, Keeps
    <3>3. g.listed /\ ~g.loaded /\ CallsOf(cs, "tree") = {} => Renewed(g, ds, there)
      BY <2>2 DEF Renewed, Keeps
    <3> QED
      BY <2>2, <2>3, <3>1, <3>2, <3>3 DEF GsnNearly, GsnRight
  <2>4. GsnAfter(after, cs)
    BY <2>1, <2>2 DEF GsnAfter
  <2> QED
    BY <2>1, <2>3, <2>4 DEF after
<1> QED
  BY <1>1, <1>2

\* What was typed is, with a call fewer.
LEMMA TypedTaken ==
  ASSUME NEW g, NEW cs \in Seq(CallRecord), GsnTyped(g, cs), NEW i \in 1..Len(cs)
  PROVE  GsnTyped(g, RemoveAt(cs, i))
<1>1. \A kind : CallsOf(RemoveAt(cs, i), kind) # {} => CallsOf(cs, kind) # {}
  BY CallTaken
<1> QED
  BY <1>1 DEF GsnTyped

\* The list of the supplements is there, or its reading has failed.
LEMMA ListAnswered ==
  ASSUME gsn \in GsnRecord, calls \in Seq(CallRecord), GsnTyped(gsn, calls),
         NEW i \in 1..Len(calls), calls[i].kind = "list", NEW ok \in BOOLEAN
  PROVE  LET after == Answers(gsn, calls[i], ok, RemoveAt(calls, i)) IN
         /\ GsnAfter(after, calls)
         /\ GsnRight(gsn, calls, tab) /\ ok /\ ~Replaces(calls[i]) => GsnRight(after.panel, after.calls, tab)
<1> DEFINE c == calls[i]
           ds == RemoveAt(calls, i)
           after == Answers(gsn, c, ok, ds)
           old == [gsn EXCEPT !.tree = Nothing, !.branches = {}]
<1>1. /\ ds \in Seq(CallRecord) /\ GsnTyped(gsn, ds)
      /\ \A kind \in (GsnKinds \ {"list"}) \cup {"rows"} : Keeps(calls, ds, kind)
  <2>1. \A kind \in (GsnKinds \ {"list"}) \cup {"rows"} : c.kind # kind
    BY DEF GsnKinds
  <2>2. \A kind \in (GsnKinds \ {"list"}) \cup {"rows"} : Keeps(calls, ds, kind)
    BY <2>1, CallTaken, Zenon
  <2> QED
    BY <2>2, CallTaken, TypedTaken
<1>2. CASE ok
  <2> DEFINE next == Listed(gsn)
  <2>1. /\ next \in GsnRecord /\ next.supplement \in ToSet(Supplements) /\ next.supplement # Nothing
        /\ gsn.supplement \in ToSet(Supplements) => next.supplement = gsn.supplement
        /\ next.listed /\ next.loaded = gsn.loaded /\ next.infoLoaded = gsn.infoLoaded /\ next.info = gsn.info
        /\ next.word = gsn.word /\ next.tree = gsn.tree /\ next.branches = gsn.branches
    BY SupplementsAre DEF GsnRecord, Listed
  <2>2. after = LoadInfo(next, ds, tab, TRUE)
    BY <1>2, <2>1 DEF Answers
  <2>3. GsnTyped(next, ds)
    BY <2>1 DEF GsnTyped
  <2> HIDE DEF next, ds, after
  <2>4. ASSUME GsnRight(gsn, calls, tab), ~Replaces(c) PROVE GsnNearly(next, ds)
    <3>1. CASE gsn.supplement \in ToSet(Supplements)
      <4>1. GsnRight(gsn, ds, tab)
        <5>1. \A kind \in GsnKinds \ {"list"} : Keeps(calls, ds, kind)
          BY <1>1
        <5> QED
          BY <2>4, <5>1, KeepsTree
      <4>2. OfTree(next) = OfTree(gsn)
        BY <2>1, <3>1 DEF OfTree
      <4> QED
        BY <2>1, <3>1, <4>1, <4>2 DEF GsnRight, GsnNearly, InfoRight, TreeRight, BranchesRight, Renewed
    <3>2. CASE gsn.supplement \notin ToSet(Supplements)
      <4>1. ~gsn.loaded /\ ~gsn.infoLoaded /\ CallsOf(calls, "tree") = {} /\ CallsOf(calls, "info") = {}
        BY <2>4, <3>2 DEF Replaces, CallsOf
      <4>2. CallsOf(ds, "tree") = {} /\ CallsOf(ds, "info") = {}
        BY <1>1, <4>1 DEF Keeps, GsnKinds
      <4> QED
        BY <2>1, <4>1, <4>2 DEF GsnNearly, InfoRight, TreeRight, LastAsks
    <3> QED
      BY <3>1, <3>2
  <2>5. GsnAfter(after, ds) /\ (GsnNearly(next, ds) => GsnRight(after.panel, after.calls, tab))
    BY <1>1, <2>1, <2>2, <2>3, InfoLoadedFirst
  <2>6. GsnAfter(after, calls)
    BY <1>1, <2>5, KeepsBoth DEF GsnAfter
  <2> QED
    BY <2>4, <2>5, <2>6 DEF after, ds
<1>3. CASE ~ok
  <2>1. old \in GsnRecord /\ old.supplement = gsn.supplement /\ old.listed = gsn.listed
    BY DEF GsnRecord
  <2>2. GsnTyped(old, ds)
    BY <1>1, <2>1 DEF GsnTyped
  <2>3. after = IF old.supplement = Nothing THEN AfterAnswer(old, ds) ELSE LoadInfo(old, ds, tab, TRUE)
    BY <1>3 DEF Answers
  <2> HIDE DEF old, ds, after
  <2>4. CASE old.supplement = Nothing
    <3>1. after.panel = old /\ after.calls = ds
      BY <2>3, <2>4 DEF AfterAnswer
    <3> QED
      BY <1>1, <1>3, <2>1, <2>2, <3>1 DEF GsnAfter, after, ds
  <2>5. CASE old.supplement # Nothing
    <3>1. GsnAfter(after, ds)
      BY <1>1, <2>1, <2>2, <2>3, <2>5, InfoLoadedFirst
    <3> QED
      BY <1>1, <1>3, <3>1, KeepsBoth DEF GsnAfter, after, ds
  <2> QED
    BY <2>4, <2>5
<1> QED
  BY <1>2, <1>3

\* The information on the base is there, or its reading has failed.
LEMMA InfoAnswered ==
  ASSUME gsn \in GsnRecord, calls \in Seq(CallRecord), GsnTyped(gsn, calls),
         NEW i \in 1..Len(calls), calls[i].kind = "info", NEW ok \in BOOLEAN
  PROVE  LET after == Answers(gsn, calls[i], ok, RemoveAt(calls, i)) IN
         /\ GsnAfter(after, calls)
         /\ GsnRight(gsn, calls, tab) /\ ok /\ (\A j \in 1..(i - 1) : calls[j].kind # calls[i].kind) =>
              GsnRight(after.panel, after.calls, tab)
<1> DEFINE c == calls[i]
           ds == RemoveAt(calls, i)
           after == Answers(gsn, c, ok, ds)
           next == IF ok THEN [gsn EXCEPT !.infoLoaded = TRUE, !.info = c.of.choice]
                   ELSE [gsn EXCEPT !.infoLoaded = FALSE, !.tree = Nothing, !.branches = {}]
<1>1. /\ ds \in Seq(CallRecord) /\ GsnTyped(gsn, ds)
      /\ Keeps(calls, ds, "tree") /\ Keeps(calls, ds, "branch") /\ Keeps(calls, ds, "rows")
  <2>1. \A kind : c.kind # kind => Keeps(calls, ds, kind)
    BY CallTaken, Zenon
  <2> QED
    BY <2>1, CallTaken, TypedTaken
<1>2. c \in CallRecord /\ c.of \in Queries /\ c.of.choice \in Chosen /\ c.chain \in BOOLEAN
  <2>1. c \in CallRecord
    OBVIOUS
  <2> QED
    BY <2>1 DEF CallRecord, Queries
<1>3. /\ next \in GsnRecord /\ next.supplement = gsn.supplement /\ next.listed = gsn.listed /\ next.word = gsn.word
      /\ next.loaded = gsn.loaded
      /\ ok => next.infoLoaded /\ next.info = c.of.choice /\ next.tree = gsn.tree /\ next.branches = gsn.branches
  BY <1>2 DEF GsnRecord
<1>4. after = IF c.chain THEN LoadTree(next, ds, tab, FALSE) ELSE AfterAnswer(next, ds)
  BY DEF Answers
<1>6. i \in CallsOf(calls, "info")
  BY DEF CallsOf
<1>7. ASSUME GsnRight(gsn, calls, tab), ok, \A j \in 1..(i - 1) : calls[j].kind # c.kind
      PROVE  GsnNearly(next, ds) /\ (tab # "gsn" \/ ~c.chain => GsnRight(next, ds, tab))
  <2>1. /\ LastAsks(ds, "info", {q \in Queries : q.choice = gsn.supplement})
        /\ CallsOf(ds, "info") = {} => c.of \in {q \in Queries : q.choice = gsn.supplement}
    BY <1>7, TakenInTurn DEF GsnRight, InfoRight
  <2>2. ~c.chain /\ (\E j \in CallsOf(calls, "info") : calls[j].chain) => \E k \in CallsOf(ds, "info") : ds[k].chain
    <3>1. \A j \in CallsOf(calls, "info") : j # i => \E k \in CallsOf(ds, "info") : ds[k].chain = calls[j].chain
      BY CallTaken
    <3> QED
      BY <3>1
  <2>3. OfTree(next) = OfTree(gsn)
    BY <1>3 DEF OfTree
  <2> HIDE DEF next, ds
  <2>4. InfoRight(next, ds)
    BY <1>3, <1>7, <2>1 DEF InfoRight
  <2>5. TreeRight(next, ds)
    BY <1>1, <1>3, <1>7, <2>3 DEF TreeRight, Keeps, GsnRight
  <2>6. BranchesRight(gsn, calls) => BranchesRight(next, ds)
    BY <1>1, <1>3, <1>7 DEF BranchesRight, Keeps
  <2>7. Renewed(gsn, calls, tab) => next.listed /\ ~next.loaded /\ CallsOf(ds, "tree") = {}
    BY <1>1, <1>3 DEF Renewed, Keeps
  <2>8. Renewed(gsn, calls, tab) /\ (tab # "gsn" \/ ~c.chain) => Renewed(next, ds, tab)
    BY <1>3, <1>7, <2>2, <2>7 DEF Renewed
  <2> QED
    BY <1>7, <2>4, <2>5, <2>6, <2>7, <2>8 DEF GsnRight, GsnNearly
<1>8. GsnTyped(next, ds)
  BY <1>1, <1>3 DEF GsnTyped
<1> HIDE DEF next, ds, after, c
<1>9. CASE c.chain
  <2>1. \A force \in BOOLEAN :
          /\ GsnAfter(LoadTree(next, ds, tab, force), ds)
          /\ tab # "gsn" => LoadTree(next, ds, tab, force).panel = next /\ LoadTree(next, ds, tab, force).calls = ds
          /\ tab = "gsn" /\ GsnNearly(next, ds) =>
               GsnRight(LoadTree(next, ds, tab, force).panel, LoadTree(next, ds, tab, force).calls, tab)
    BY <1>1, <1>3, <1>8, TreeLoaded
  <2>2. /\ GsnAfter(after, ds)
        /\ tab # "gsn" => after.panel = next /\ after.calls = ds
        /\ tab = "gsn" /\ GsnNearly(next, ds) => GsnRight(after.panel, after.calls, tab)
    BY <1>4, <1>9, <2>1
  <2>3. GsnAfter(after, calls)
    BY <1>1, <2>2, KeepsBoth DEF GsnAfter
  <2> QED
    BY <1>7, <2>2, <2>3 DEF after, ds, c
<1>10. CASE ~c.chain
  <2>1. after.panel = next /\ after.calls = ds
    BY <1>4, <1>10 DEF AfterAnswer
  <2> QED
    BY <1>1, <1>3, <1>7, <1>8, <1>10, <2>1 DEF GsnAfter, after, ds, c
<1> QED
  BY <1>9, <1>10

\* The tree is there, or its reading has failed.
LEMMA TreeAnswered ==
  ASSUME gsn \in GsnRecord, calls \in Seq(CallRecord), GsnTyped(gsn, calls),
         NEW i \in 1..Len(calls), calls[i].kind = "tree", NEW ok \in BOOLEAN
  PROVE  LET after == Answers(gsn, calls[i], ok, RemoveAt(calls, i)) IN
         /\ GsnAfter(after, calls)
         /\ GsnRight(gsn, calls, tab) /\ (\A j \in 1..(i - 1) : calls[j].kind # calls[i].kind) =>
              GsnRight(after.panel, after.calls, tab)
<1> DEFINE c == calls[i]
           ds == RemoveAt(calls, i)
           es == Detached(ds)
           after == Answers(gsn, c, ok, ds)
           given == IF ok THEN c.of ELSE Nothing
           next == [gsn EXCEPT !.loaded = ok, !.tree = given, !.branches = {}]
<1>1. /\ ds \in Seq(CallRecord) /\ GsnTyped(gsn, ds)
      /\ Keeps(calls, ds, "info") /\ Keeps(calls, ds, "rows")
  <2>1. \A kind : c.kind # kind => Keeps(calls, ds, kind)
    BY CallTaken, Zenon
  <2> QED
    BY <2>1, CallTaken, TypedTaken
<1>2. c.of \in Queries
  <2>1. c \in CallRecord
    OBVIOUS
  <2> QED
    BY <2>1 DEF CallRecord
<1>3. given \in Queries \cup {Nothing} /\ (ok => given = c.of)
  BY <1>2
<1> HIDE DEF given
<1>4. /\ next \in GsnRecord /\ next.supplement = gsn.supplement /\ next.listed = gsn.listed /\ next.word = gsn.word
      /\ next.loaded = ok /\ next.infoLoaded = gsn.infoLoaded /\ next.info = gsn.info
      /\ next.tree = given /\ next.branches = {}
  BY <1>3 DEF GsnRecord
<1>5. after.panel = next /\ after.calls = es
  BY DEF Answers, AfterAnswer, given
<1>6. es \in Seq(CallRecord) /\ AllDetached(es) /\ \A kind : Keeps(ds, es, kind)
  BY <1>1, CallsDetached
<1>7. Keeps(calls, es, "info") /\ Keeps(calls, es, "rows")
  BY <1>1, <1>6, KeepsBoth
<1>8. GsnTyped(next, es)
  <2>1. GsnTyped(gsn, es)
    BY <1>1, <1>6, KeepsTyped
  <2> QED
    BY <1>4, <2>1 DEF GsnTyped
<1>9. ASSUME GsnRight(gsn, calls, tab), \A j \in 1..(i - 1) : calls[j].kind # c.kind
      PROVE  GsnRight(next, es, tab)
  <2>1. LastAsks(ds, "tree", {OfTree(gsn)}) /\ (CallsOf(ds, "tree") = {} => c.of \in {OfTree(gsn)})
    BY <1>9, TakenInTurn DEF GsnRight, TreeRight
  <2>2. OfTree(next) = OfTree(gsn)
    BY <1>4 DEF OfTree
  <2> HIDE DEF next, es, ds
  <2>3. TreeRight(next, es)
    BY <1>3, <1>4, <1>6, <2>1, <2>2 DEF TreeRight, Keeps
  <2>4. InfoRight(next, es)
    BY <1>4, <1>7, <1>9 DEF InfoRight, Keeps, GsnRight
  <2>5. BranchesRight(next, es)
    BY <1>4, <1>6 DEF BranchesRight, AllDetached, CallsOf
  <2> QED
    BY <2>3, <2>4, <2>5 DEF GsnRight
<1> QED
  BY <1>4, <1>5, <1>6, <1>7, <1>8, <1>9 DEF GsnAfter

\* The children of a node are there, or their reading has failed.
LEMMA BranchAnswered ==
  ASSUME gsn \in GsnRecord, calls \in Seq(CallRecord), GsnTyped(gsn, calls),
         NEW i \in 1..Len(calls), calls[i].kind = "branch", NEW ok \in BOOLEAN
  PROVE  LET after == Answers(gsn, calls[i], ok, RemoveAt(calls, i)) IN
         /\ GsnAfter(after, calls)
         /\ GsnRight(gsn, calls, tab) => GsnRight(after.panel, after.calls, tab)
<1> DEFINE c == calls[i]
           ds == RemoveAt(calls, i)
           after == Answers(gsn, c, ok, ds)
           opened == IF ok /\ c.attached THEN gsn.branches \cup {c.of.choice} ELSE gsn.branches
           next == [gsn EXCEPT !.branches = opened]
<1>1. /\ ds \in Seq(CallRecord) /\ GsnTyped(gsn, ds)
      /\ Keeps(calls, ds, "info") /\ Keeps(calls, ds, "tree") /\ Keeps(calls, ds, "rows")
      /\ \A k \in CallsOf(ds, "branch") :
           \E j \in CallsOf(calls, "branch") : ds[k].of = calls[j].of /\ (ds[k].attached => calls[j].attached)
  <2>1. \A kind : c.kind # kind => Keeps(calls, ds, kind)
    BY CallTaken, Zenon
  <2> QED
    BY <2>1, CallTaken, TypedTaken
<1>2. c.of.choice \in Chosen /\ i \in CallsOf(calls, "branch")
  <2>1. c \in CallRecord
    OBVIOUS
  <2> QED
    BY <2>1 DEF CallRecord, Queries, CallsOf
<1>3. opened \in SUBSET Chosen
  BY <1>2 DEF GsnRecord
<1>4. BranchesRight(gsn, calls) => opened \subseteq {gsn.supplement}
  BY <1>2 DEF BranchesRight
<1>5. after.panel = next /\ after.calls = ds
  BY DEF Answers, AfterAnswer
<1> HIDE DEF opened
<1>6. /\ next \in GsnRecord /\ next.supplement = gsn.supplement /\ next.listed = gsn.listed /\ next.word = gsn.word
      /\ next.loaded = gsn.loaded /\ next.infoLoaded = gsn.infoLoaded /\ next.info = gsn.info
      /\ next.tree = gsn.tree /\ next.branches = opened
  BY <1>3 DEF GsnRecord
<1> HIDE DEF next, ds, after, c
<1>7. GsnTyped(next, ds)
  BY <1>1, <1>6 DEF GsnTyped
<1>8. ASSUME GsnRight(gsn, calls, tab) PROVE GsnRight(next, ds, tab)
  <2>1. OfTree(next) = OfTree(gsn)
    BY <1>6 DEF OfTree
  <2>2. InfoRight(next, ds) /\ TreeRight(next, ds)
    BY <1>1, <1>6, <1>8, <2>1 DEF GsnRight, InfoRight, TreeRight, Keeps
  <2>3. BranchesRight(gsn, calls) => BranchesRight(next, ds)
    BY <1>1, <1>4, <1>6 DEF BranchesRight
  <2>4. Renewed(gsn, calls, tab) => Renewed(next, ds, tab)
    BY <1>1, <1>6 DEF Renewed, Keeps
  <2> QED
    BY <1>8, <2>2, <2>3, <2>4 DEF GsnRight
<1> QED
  BY <1>1, <1>5, <1>6, <1>7, <1>8 DEF GsnAfter, after, ds, c

-----------------------------------------------------------------------------
(* The steps of the panels.                                                *)

LEMMA PanelsInvInit == PanelsInit => PanelsInv
<1> SUFFICES ASSUME PanelsInit PROVE PanelsInv
  OBVIOUS
<1>1. \A kind : CallsOf(<<>>, kind) = {}
  BY DEF CallsOf
<1>2. /\ gsn \in GsnRecord /\ ~gsn.listed /\ ~gsn.loaded /\ ~gsn.infoLoaded /\ gsn.branches = {}
  BY DEF PanelsInit, GsnRecord, Chosen, Searches
<1>3. /\ fgis \in FgisRecord /\ fgis.offset = 0 /\ fgis.loadedSet = Nothing /\ fgis.rows = Nothing
      /\ ~fgis.loading /\ fgis.shown = "nothing"
  <2>1. fgis \in [set : FgisSets \cup {Nothing}, word : {NoWord}, offset : {0}, sets : {"unread"}, loadedSet : {Nothing},
                  rows : {Nothing}, count : {0}, total : {0}, loading : {FALSE}, shown : {"nothing"}]
    BY DEF PanelsInit
  <2>3. /\ {NoWord} \subseteq Searches /\ {0} \subseteq Nat /\ {"unread"} \subseteq {"unread", "read", "none"}
        /\ {Nothing} \subseteq FgisSets \cup {Nothing} /\ {Nothing} \subseteq Queries \cup {Nothing}
        /\ {FALSE} \subseteq BOOLEAN /\ {"nothing"} \subseteq {"nothing", "loading", "table"}
    BY DEF Searches
  <2>2. fgis \in FgisRecord
    BY <2>1, <2>3, Zenon DEF FgisRecord
  <2> QED
    BY <2>1, <2>2
<1>4. calls = <<>> /\ calls \in Seq(CallRecord) /\ tab = "own" /\ inBase = FALSE
  BY DEF PanelsInit
<1>5. RowsTyped(fgis, calls) /\ GsnTyped(gsn, calls) /\ RowsRight(fgis, calls)
  BY <1>1, <1>2, <1>3, <1>4 DEF RowsTyped, GsnTyped, RowsRight, LastAsks, PageThere
<1>6. GsnRight(gsn, calls, tab)
  BY <1>1, <1>2, <1>4 DEF GsnRight, InfoRight, TreeRight, BranchesRight, LastAsks
<1> QED
  BY <1>2, <1>3, <1>4, <1>5, <1>6 DEF PanelsInv, PanelsTyped

\* A step of the tree leaves the table as it should be ...
LEMMA TreeStep ==
  ASSUME PanelsInv, NEW after, GsnAfter(after, calls), PanelBecomes(after), UNCHANGED fgis,
         tab' \in {"own", "gsn", "fgis"}, inBase' \in BOOLEAN,
         "fgis" \in doubt => "fgis" \in doubt',
         "gsn" \notin doubt' => GsnRight(after.panel, after.calls, tab')
  PROVE  PanelsInv'
<1>1. gsn' = after.panel /\ calls' = after.calls /\ fgis' = fgis
  BY DEF PanelBecomes
<1>2. /\ gsn' \in GsnRecord /\ calls' \in Seq(CallRecord) /\ GsnTyped(gsn', calls')
      /\ Keeps(calls, calls', "rows")
  BY <1>1 DEF GsnAfter
<1>3. RowsTyped(fgis', calls')
  BY <1>1, <1>2, KeepsTyped DEF PanelsInv
<1>4. "fgis" \notin doubt' => RowsRight(fgis', calls')
  BY <1>1, <1>2, KeepsRows DEF PanelsInv
<1> QED
  BY <1>1, <1>2, <1>3, <1>4 DEF PanelsInv, PanelsTyped

\* ... and the other way round, unless the tab of the tree is opened.
LEMMA TableStep ==
  ASSUME PanelsInv, NEW after, FgisAfter(after, calls), TableBecomes(after), UNCHANGED gsn,
         tab' \in {"own", "gsn", "fgis"}, inBase' \in BOOLEAN, tab # "gsn" => tab' # "gsn",
         "gsn" \in doubt => "gsn" \in doubt',
         "fgis" \notin doubt' => RowsRight(after.panel, after.calls)
  PROVE  PanelsInv'
<1>1. fgis' = after.panel /\ calls' = after.calls /\ gsn' = gsn
  BY DEF TableBecomes
<1>2. /\ fgis' \in FgisRecord /\ calls' \in Seq(CallRecord) /\ RowsTyped(fgis', calls')
      /\ \A kind \in GsnKinds : Keeps(calls, calls', kind)
  BY <1>1 DEF FgisAfter
<1>3. GsnTyped(gsn', calls')
  <2>1. Keeps(calls, calls', "tree") /\ Keeps(calls, calls', "info")
    BY <1>2 DEF GsnKinds
  <2> QED
    BY <1>1, <2>1, KeepsTyped DEF PanelsInv
<1>4. "gsn" \notin doubt' => GsnRight(gsn', calls', tab')
  <2>1. \A kind \in GsnKinds \ {"list"} : Keeps(calls, calls', kind)
    BY <1>2
  <2> QED
    BY <1>1, <2>1, KeepsTree DEF PanelsInv
<1> QED
  BY <1>1, <1>2, <1>3, <1>4 DEF PanelsInv, PanelsTyped

\* A call of the tree that changes nothing of what is selected.
LEMMA TreeCalls ==
  ASSUME NEW g \in GsnRecord, NEW cs \in Seq(CallRecord), GsnTyped(g, cs), NEW kind \in {"list", "branch"},
         NEW chain \in BOOLEAN
  PROVE  LET ds == Append(cs, Call(kind, OfTree(g), chain)) IN
         /\ GsnAfter(AfterAnswer(g, ds), cs)
         /\ \A there : GsnRight(g, cs, there) => GsnRight(g, ds, there)
<1> DEFINE c == Call(kind, OfTree(g), chain)
           ds == Append(cs, c)
<1>1. c \in CallRecord /\ c.kind = kind /\ c.of = OfTree(g) /\ OfTree(g).choice = g.supplement
  BY TreeQuery
<1>2. Len(cs) \in Nat /\ ds[Len(cs) + 1] = c /\ \A i \in 1..Len(cs) : ds[i] = cs[i]
  BY <1>1
<1> HIDE DEF c
<1>3. /\ ds \in Seq(CallRecord) /\ \A other : other # kind => Keeps(cs, ds, other)
      /\ CallsOf(ds, kind) = CallsOf(cs, kind) \cup {Len(cs) + 1}
  BY <1>1, CallAdded
<1>4. Keeps(cs, ds, "rows") /\ Keeps(cs, ds, "info") /\ Keeps(cs, ds, "tree")
  BY <1>3
<1> HIDE DEF ds
<1>5. GsnTyped(g, ds)
  BY <1>4, KeepsTyped
<1>6. BranchesRight(g, cs) => BranchesRight(g, ds)
  <2>1. CASE kind = "list"
    <3>1. Keeps(cs, ds, "branch")
      BY <1>3, <2>1
    <3> QED
      BY <3>1 DEF BranchesRight, Keeps
  <2>2. CASE kind = "branch"
    <3>1. \A i \in CallsOf(cs, "branch") : i \in 1..Len(cs)
      BY DEF CallsOf
    <3> QED
      BY <1>1, <1>2, <1>3, <2>2, <3>1 DEF BranchesRight
  <2> QED
    BY <2>1, <2>2
<1>7. ASSUME NEW there, GsnRight(g, cs, there) PROVE GsnRight(g, ds, there)
  <2>1. InfoRight(g, ds) /\ TreeRight(g, ds)
    BY <1>4, <1>7 DEF GsnRight, InfoRight, TreeRight, Keeps
  <2>2. Renewed(g, cs, there) => Renewed(g, ds, there)
    BY <1>4 DEF Renewed, Keeps
  <2> QED
    BY <1>6, <1>7, <2>1, <2>2 DEF GsnRight
<1>8. AfterAnswer(g, ds).panel = g /\ AfterAnswer(g, ds).calls = ds
  BY DEF AfterAnswer
<1> QED
  BY <1>3, <1>4, <1>5, <1>7, <1>8 DEF GsnAfter, ds, c

LEMMA VisitGsnStep == PanelsInv /\ VisitGsn => PanelsInv'
<1> SUFFICES ASSUME PanelsInv, VisitGsn PROVE PanelsInv'
  OBVIOUS
<1> DEFINE after == LoadGsnPanel(gsn, calls)
<1>1. /\ gsn \in GsnRecord /\ calls \in Seq(CallRecord) /\ GsnTyped(gsn, calls)
      /\ "gsn" \notin doubt => GsnRight(gsn, calls, tab)
  BY DEF PanelsInv, PanelsTyped
<1>2. GsnAfter(after, calls) /\ (GsnRight(gsn, calls, tab) => GsnRight(after.panel, after.calls, "gsn"))
  <2>1. CASE gsn.listed
    <3>1. after = LoadInfo(gsn, calls, "gsn", TRUE)
      BY <2>1 DEF LoadGsnPanel
    <3> HIDE DEF after
    <3> QED
      BY <1>1, <3>1, InfoLoadedFirst, RightIsNearly
  <2>2. CASE ~gsn.listed
    <3>1. after = AfterAnswer(gsn, Append(calls, Call("list", OfTree(gsn), TRUE)))
      BY <2>2 DEF LoadGsnPanel
    <3>2. GsnRight(gsn, calls, tab) => GsnRight(gsn, calls, "gsn")
      BY <2>2 DEF GsnRight, Renewed
    <3> HIDE DEF after
    <3>3. after.panel = gsn /\ after.calls = Append(calls, Call("list", OfTree(gsn), TRUE))
      BY <3>1 DEF AfterAnswer
    <3> QED
      BY <1>1, <3>1, <3>2, <3>3, TreeCalls
  <2> QED
    BY <2>1, <2>2
<1>3. /\ tab' = "gsn" /\ inBase' = TRUE /\ PanelBecomes(after) /\ UNCHANGED <<fgis, doubt>>
  BY DEF VisitGsn
<1> HIDE DEF after
<1> QED
  BY <1>1, <1>2, <1>3, TreeStep

LEMMA ChangeSupplementStep ==
  ASSUME PanelsInv, NEW s \in ToSet(Supplements), ChangeSupplement(s)
  PROVE  PanelsInv'
<1> DEFINE g == [gsn EXCEPT !.supplement = s, !.loaded = FALSE, !.infoLoaded = FALSE, !.word = NoWord]
           ds == Append(calls, Call("info", OfTree(g), FALSE))
           after == LoadTree(g, ds, tab, TRUE)
<1>1. /\ gsn \in GsnRecord /\ calls \in Seq(CallRecord) /\ tab \in {"own", "gsn", "fgis"} /\ inBase \in BOOLEAN
  BY DEF PanelsInv, PanelsTyped
<1>2. /\ g \in GsnRecord /\ g.supplement = s /\ ~g.infoLoaded /\ ~g.loaded
  BY <1>1 DEF GsnRecord, Searches
<1>3. s # Nothing
  BY SupplementsAre
<1>4. LoadInfo(g, calls, tab, FALSE) = AfterAnswer(g, ds)
  BY <1>2, <1>3 DEF LoadInfo
<1>5. AfterAnswer(g, ds).panel = g /\ AfterAnswer(g, ds).calls = ds
  BY DEF AfterAnswer
<1>11. PanelBecomes(LoadTree(LoadInfo(g, calls, tab, FALSE).panel, LoadInfo(g, calls, tab, FALSE).calls, tab, TRUE))
  BY DEF ChangeSupplement
<1>6. /\ PanelBecomes(after) /\ tab = "gsn"
      /\ UNCHANGED <<tab, inBase, fgis>> /\ ("fgis" \in doubt => "fgis" \in doubt')
  <2>1. PanelBecomes(after)
    BY <1>4, <1>5, <1>11
  <2> QED
    BY <2>1 DEF ChangeSupplement, OnTree
<1> HIDE DEF g
<1>7. ds \in Seq(CallRecord) /\ GsnTyped(g, ds) /\ Keeps(calls, ds, "rows") /\ InfoRight(g, ds)
  BY <1>1, <1>2, <1>3, InfoAsked
<1> HIDE DEF ds
<1>8. \A force \in BOOLEAN :
        /\ GsnAfter(LoadTree(g, ds, tab, force), ds)
        /\ force => GsnRight(LoadTree(g, ds, tab, force).panel, LoadTree(g, ds, tab, force).calls, tab)
  BY <1>2, <1>3, <1>6, <1>7, TreeLoaded
<1>9. GsnAfter(after, ds) /\ GsnRight(after.panel, after.calls, tab)
  BY <1>8
<1> HIDE DEF after
<1>10. GsnAfter(after, calls)
  BY <1>7, <1>9, KeepsBoth DEF GsnAfter
<1> QED
  BY <1>1, <1>6, <1>9, <1>10, TreeStep

LEMMA SearchTreeStep ==
  ASSUME PanelsInv, NEW word \in Searches, SearchTree(word)
  PROVE  PanelsInv'
<1> DEFINE g == [gsn EXCEPT !.word = word, !.loaded = IF word = NoWord THEN FALSE ELSE @]
           after == LoadTree(g, calls, tab, TRUE)
<1>1. /\ gsn \in GsnRecord /\ calls \in Seq(CallRecord) /\ tab \in {"own", "gsn", "fgis"} /\ inBase \in BOOLEAN
      /\ GsnTyped(gsn, calls) /\ ("gsn" \notin doubt => GsnRight(gsn, calls, tab))
  BY DEF PanelsInv, PanelsTyped
<1>2. /\ g \in GsnRecord /\ g.supplement = gsn.supplement /\ g.infoLoaded = gsn.infoLoaded /\ g.info = gsn.info
      /\ g.listed = gsn.listed
  BY <1>1 DEF GsnRecord
<1>3. /\ PanelBecomes(after) /\ tab = "gsn" /\ gsn.supplement # Nothing
      /\ UNCHANGED <<tab, inBase, fgis, doubt>>
  BY DEF SearchTree, OnTree
<1> HIDE DEF g
<1>4. GsnTyped(g, calls) /\ (InfoRight(gsn, calls) => InfoRight(g, calls))
  BY <1>1, <1>2 DEF GsnTyped, InfoRight
<1>5. \A force \in BOOLEAN :
        /\ GsnAfter(LoadTree(g, calls, tab, force), calls)
        /\ force /\ InfoRight(g, calls) =>
             GsnRight(LoadTree(g, calls, tab, force).panel, LoadTree(g, calls, tab, force).calls, tab)
  BY <1>1, <1>2, <1>3, <1>4, TreeLoaded
<1>6. GsnAfter(after, calls) /\ (InfoRight(g, calls) => GsnRight(after.panel, after.calls, tab))
  BY <1>5
<1> HIDE DEF after
<1>7. "gsn" \notin doubt => GsnRight(after.panel, after.calls, tab)
  BY <1>1, <1>4, <1>6 DEF GsnRight
<1> QED
  BY <1>1, <1>3, <1>6, <1>7, TreeStep

LEMMA OpenNodeStep == PanelsInv /\ OpenNode => PanelsInv'
<1> SUFFICES ASSUME PanelsInv, OpenNode PROVE PanelsInv'
  OBVIOUS
<1> DEFINE ds == Append(calls, Call("branch", OfTree(gsn), FALSE))
           after == AfterAnswer(gsn, ds)
<1>1. /\ gsn \in GsnRecord /\ calls \in Seq(CallRecord) /\ tab \in {"own", "gsn", "fgis"} /\ inBase \in BOOLEAN
      /\ GsnTyped(gsn, calls) /\ ("gsn" \notin doubt => GsnRight(gsn, calls, tab))
  BY DEF PanelsInv, PanelsTyped
<1>2. after.panel = gsn /\ after.calls = ds
  BY DEF AfterAnswer
<1>3. PanelBecomes(after) /\ UNCHANGED <<tab, inBase, fgis, doubt>>
  BY <1>2 DEF OpenNode, PanelBecomes
<1>4. GsnAfter(after, calls) /\ (GsnRight(gsn, calls, tab) => GsnRight(gsn, ds, tab))
  BY <1>1, TreeCalls
<1> HIDE DEF after, ds
<1> QED
  BY <1>1, <1>2, <1>3, <1>4, TreeStep

LEMMA EditorChangesStep == PanelsInv /\ EditorChanges => PanelsInv'
<1> SUFFICES ASSUME PanelsInv, EditorChanges PROVE PanelsInv'
  OBVIOUS
<1> DEFINE g == [gsn EXCEPT !.loaded = FALSE]
           after == AfterAnswer(g, calls)
<1>1. /\ gsn \in GsnRecord /\ calls \in Seq(CallRecord) /\ tab \in {"own", "gsn", "fgis"} /\ inBase \in BOOLEAN
      /\ GsnTyped(gsn, calls) /\ ("gsn" \notin doubt => GsnRight(gsn, calls, tab))
  BY DEF PanelsInv, PanelsTyped
<1>2. /\ g \in GsnRecord /\ g.supplement = gsn.supplement /\ g.infoLoaded = gsn.infoLoaded /\ g.info = gsn.info
      /\ g.word = gsn.word /\ g.branches = gsn.branches /\ ~g.loaded /\ g.listed = gsn.listed
  BY <1>1 DEF GsnRecord
<1>3. after.panel = g /\ after.calls = calls
  BY DEF AfterAnswer
<1>4. PanelBecomes(after) /\ UNCHANGED <<tab, inBase, fgis, doubt>>
  BY <1>3 DEF EditorChanges, PanelBecomes
<1> HIDE DEF after, g
<1>5. GsnAfter(after, calls)
  BY <1>1, <1>2, <1>3, KeepsSame DEF GsnAfter, GsnTyped
<1>6. GsnRight(gsn, calls, tab) => GsnRight(g, calls, tab)
  <2>1. OfTree(g) = OfTree(gsn)
    BY <1>2 DEF OfTree
  <2> QED
    BY <1>2, <2>1 DEF GsnRight, InfoRight, TreeRight, BranchesRight, Renewed
<1> QED
  BY <1>1, <1>3, <1>4, <1>5, <1>6, TreeStep

LEMMA VisitFgisStep == PanelsInv /\ VisitFgis => PanelsInv'
<1> SUFFICES ASSUME PanelsInv, VisitFgis PROVE PanelsInv'
  OBVIOUS
<1> DEFINE c == Call("sets", OfRows(fgis), TRUE)
           ds == Append(calls, c)
           after == IF fgis.sets = "unread" THEN AfterAnswer(fgis, ds) ELSE LoadFgisPanel(fgis, calls, TRUE)
<1>1. /\ fgis \in FgisRecord /\ calls \in Seq(CallRecord) /\ RowsTyped(fgis, calls)
      /\ "fgis" \notin doubt => RowsRight(fgis, calls)
  BY DEF PanelsInv, PanelsTyped
<1>2. TableBecomes(after) /\ tab' = "fgis" /\ inBase' = TRUE /\ UNCHANGED <<gsn, doubt>>
  BY DEF VisitFgis
<1>3. FgisAfter(after, calls) /\ (RowsRight(fgis, calls) => RowsRight(after.panel, after.calls))
  <2>1. CASE fgis.sets = "unread"
    <3>1. after.panel = fgis /\ after.calls = ds
      BY <2>1 DEF AfterAnswer
    <3>2. c \in CallRecord /\ c.kind = "sets"
      <4>1. fgis.set \in Chosen /\ fgis.word \in Searches /\ fgis.offset \in Nat
        BY <1>1 DEF FgisRecord, Chosen
      <4> QED
        BY <4>1 DEF Call, CallRecord, OfRows, Query, Queries
    <3> HIDE DEF c
    <3>3. ds \in Seq(CallRecord) /\ \A kind : kind # "sets" => Keeps(calls, ds, kind)
      BY <1>1, <3>2, CallAdded
    <3>4. Keeps(calls, ds, "rows") /\ \A kind \in GsnKinds : Keeps(calls, ds, kind)
      BY <3>3 DEF GsnKinds
    <3> HIDE DEF after, ds
    <3>5. RowsTyped(fgis, ds) /\ (RowsRight(fgis, calls) => RowsRight(fgis, ds))
      BY <1>1, <3>4, KeepsTyped, KeepsRows
    <3> QED
      BY <1>1, <3>1, <3>3, <3>4, <3>5 DEF FgisAfter
  <2>2. CASE fgis.sets # "unread"
    <3>1. \A there \in BOOLEAN :
            /\ FgisAfter(LoadFgisPanel(fgis, calls, there), calls)
            /\ RowsRight(fgis, calls) =>
                 RowsRight(LoadFgisPanel(fgis, calls, there).panel, LoadFgisPanel(fgis, calls, there).calls)
      BY <1>1, FgisLoaded
    <3> QED
      BY <2>2, <3>1
  <2> QED
    BY <2>1, <2>2
<1> HIDE DEF after
<1> QED
  BY <1>1, <1>2, <1>3, TableStep

\* A click in the table of prices that asks for rows.
LEMMA RowsStep ==
  ASSUME PanelsInv, NEW f \in FgisRecord, RowsTyped(f, calls), NEW silent \in BOOLEAN,
         TableBecomes(LoadRows(f, calls, silent)), UNCHANGED <<gsn, tab, inBase>>,
         "gsn" \in doubt => "gsn" \in doubt', "fgis" \notin doubt' => PageThere(f)
  PROVE  PanelsInv'
<1>1. calls \in Seq(CallRecord) /\ tab \in {"own", "gsn", "fgis"} /\ inBase \in BOOLEAN
  BY DEF PanelsInv, PanelsTyped
<1> DEFINE after == LoadRows(f, calls, silent)
<1>2. FgisAfter(after, calls) /\ (PageThere(f) => RowsRight(after.panel, after.calls))
  BY <1>1, RowsLoaded
<1>3. TableBecomes(after)
  OBVIOUS
<1> HIDE DEF after
<1> QED
  BY <1>1, <1>2, <1>3, TableStep

LEMMA ChangeFgisSetStep ==
  ASSUME PanelsInv, NEW set \in FgisSets, ChangeFgisSet(set)
  PROVE  PanelsInv'
<1> DEFINE f == [fgis EXCEPT !.set = set, !.offset = 0, !.word = NoWord]
<1>1. fgis \in FgisRecord /\ RowsTyped(fgis, calls)
  BY DEF PanelsInv, PanelsTyped
<1>2. /\ f \in FgisRecord /\ f.set = set /\ f.offset = 0 /\ f.rows = fgis.rows /\ f.loadedSet = fgis.loadedSet
      /\ f.total = fgis.total /\ f.loading = fgis.loading
  BY <1>1 DEF FgisRecord, Searches
<1>3. /\ TableBecomes(LoadRows(f, calls, FALSE)) /\ UNCHANGED <<gsn, tab, inBase>>
      /\ "gsn" \in doubt => "gsn" \in doubt'
  BY DEF ChangeFgisSet
<1> HIDE DEF f
<1>4. RowsTyped(f, calls) /\ PageThere(f)
  BY <1>1, <1>2 DEF RowsTyped, PageThere
<1>5. FALSE \in BOOLEAN
  OBVIOUS
<1> QED
  BY <1>2, <1>3, <1>4, <1>5, RowsStep

LEMMA SearchRowsStep ==
  ASSUME PanelsInv, NEW word \in Searches, SearchRows(word)
  PROVE  PanelsInv'
<1> DEFINE f == [fgis EXCEPT !.word = word, !.offset = 0]
<1>1. fgis \in FgisRecord /\ RowsTyped(fgis, calls)
  BY DEF PanelsInv, PanelsTyped
<1>2. /\ f \in FgisRecord /\ f.set = fgis.set /\ f.offset = 0 /\ f.rows = fgis.rows /\ f.loadedSet = fgis.loadedSet
      /\ f.total = fgis.total /\ f.loading = fgis.loading
  BY <1>1 DEF FgisRecord
<1>3. /\ TableBecomes(LoadRows(f, calls, FALSE)) /\ UNCHANGED <<gsn, tab, inBase>>
      /\ "gsn" \in doubt => "gsn" \in doubt'
  BY DEF SearchRows
<1> HIDE DEF f
<1>4. RowsTyped(f, calls) /\ PageThere(f)
  BY <1>1, <1>2 DEF RowsTyped, PageThere
<1>5. FALSE \in BOOLEAN
  OBVIOUS
<1> QED
  BY <1>2, <1>3, <1>4, <1>5, RowsStep

LEMMA TurnPageStep == ASSUME PanelsInv, NEW to, TurnPage(to) PROVE PanelsInv'
<1> DEFINE f == [fgis EXCEPT !.offset = to]
<1>1. /\ fgis \in FgisRecord /\ RowsTyped(fgis, calls) /\ ("fgis" \notin doubt => RowsRight(fgis, calls))
      /\ fgis.offset \in Nat /\ fgis.total \in Nat
  BY DEF PanelsInv, PanelsTyped, FgisRecord
<1>2. PageLimit \in Nat
  BY PageLimitAssumption
<1>3. \/ to < fgis.offset /\ to = Larger(0, fgis.offset - PageLimit)
      \/ to = fgis.offset + PageLimit /\ to < fgis.total
  BY DEF TurnPage
<1>4. to \in Nat
  BY <1>1, <1>2, <1>3 DEF Larger
<1>5. /\ f \in FgisRecord /\ f.set = fgis.set /\ f.offset = to /\ f.word = fgis.word /\ f.rows = fgis.rows
      /\ f.loadedSet = fgis.loadedSet /\ f.total = fgis.total /\ f.loading = fgis.loading
  BY <1>1, <1>4 DEF FgisRecord
<1>6. /\ TableBecomes(LoadRows(f, calls, TRUE)) /\ UNCHANGED <<gsn, tab, inBase>>
      /\ "gsn" \in doubt => "gsn" \in doubt'
  BY DEF TurnPage
<1>7. ASSUME "fgis" \notin doubt' PROVE PageThere(f)
  <2>1. /\ "fgis" \notin doubt
        /\ fgis.rows # Nothing /\ fgis.rows.choice = fgis.set /\ fgis.rows.word = fgis.word
    BY <1>7 DEF TurnPage
  <2>2. /\ fgis.rows \in RowQueries /\ fgis.total = Hits[fgis.set][fgis.word]
        /\ fgis.set \in FgisSets /\ fgis.word \in Searches
    BY <1>1, <2>1 DEF RowsTyped, RowQueries
  <2>3. PageThere(fgis)
    BY <1>1, <2>1 DEF RowsRight
  <2>4. Hits[fgis.set][fgis.word] \in Nat
    BY <2>2, HitsAre
  <2> HIDE DEF f
  <2> QED
    BY <1>1, <1>2, <1>3, <1>4, <1>5, <2>2, <2>3, <2>4 DEF PageThere, Larger
<1> HIDE DEF f
<1>8. RowsTyped(f, calls)
  BY <1>1, <1>5 DEF RowsTyped
<1>9. TRUE \in BOOLEAN
  OBVIOUS
<1> QED
  BY <1>5, <1>6, <1>7, <1>8, <1>9, RowsStep

LEMMA LeaveStep == PanelsInv /\ Leave => PanelsInv'
<1> SUFFICES ASSUME PanelsInv, Leave PROVE PanelsInv'
  OBVIOUS
<1>1. /\ gsn' = gsn /\ fgis' = fgis /\ calls' = calls /\ doubt' = doubt
      /\ tab \in {"own", "gsn", "fgis"} /\ inBase \in BOOLEAN
      /\ tab' \in {tab, "own"} /\ inBase' \in BOOLEAN
  BY DEF Leave, PanelsInv, PanelsTyped
<1>2. tab' \in {"own", "gsn", "fgis"} /\ inBase' \in BOOLEAN /\ (tab # "gsn" => tab' # "gsn")
  BY <1>1 DEF Leave
<1>3. GsnRight(gsn, calls, tab) => GsnRight(gsn, calls, tab')
  BY <1>2, KeepsSame, KeepsTree
<1> QED
  BY <1>1, <1>2, <1>3 DEF PanelsInv, PanelsTyped

LEMMA AnswerCallStep ==
  ASSUME PanelsInv, NEW i \in 1..Len(calls), AnswerCall(i)
  PROVE  PanelsInv'
<1> DEFINE c == calls[i]
           ds == RemoveAt(calls, i)
           turn == \A j \in 1..(i - 1) : calls[j].kind # c.kind
<1>1. /\ gsn \in GsnRecord /\ fgis \in FgisRecord /\ calls \in Seq(CallRecord)
      /\ tab \in {"own", "gsn", "fgis"} /\ inBase \in BOOLEAN
      /\ GsnTyped(gsn, calls) /\ ("gsn" \notin doubt => GsnRight(gsn, calls, tab))
      /\ RowsTyped(fgis, calls) /\ ("fgis" \notin doubt => RowsRight(fgis, calls))
  BY DEF PanelsInv, PanelsTyped
<1>2. PICK ok \in BOOLEAN :
        /\ doubt' = doubt \cup (IF ~turn THEN {PanelOf(c.kind)}
                                ELSE IF (~ok /\ c.kind \in {"list", "info"}) \/ Replaces(c) THEN {"gsn"} ELSE {})
        /\ IF PanelOf(c.kind) = "gsn"
           THEN PanelBecomes(Answers(gsn, c, ok, ds)) /\ UNCHANGED fgis
           ELSE TableBecomes(AnswersRows(fgis, c, ok, ds)) /\ UNCHANGED gsn
        /\ UNCHANGED <<tab, inBase>>
  BY DEF AnswerCall
<1>3. c.kind \in GsnKinds \cup {"sets", "rows"}
  <2>1. c \in CallRecord
    BY <1>1
  <2> QED
    BY <2>1 DEF CallRecord
<1>4. CASE c.kind \in {"sets", "rows"}
  <2> DEFINE after == AnswersRows(fgis, c, ok, ds)
  <2>1. TableBecomes(after) /\ UNCHANGED <<gsn, tab, inBase>>
    BY <1>2, <1>4 DEF PanelOf
  <2>2. "fgis" \notin doubt' => "fgis" \notin doubt /\ turn
    BY <1>2, <1>4 DEF PanelOf
  <2>3. FgisAfter(after, calls) /\ (RowsRight(fgis, calls) /\ turn => RowsRight(after.panel, after.calls))
    BY <1>1, <1>4, RowsAnswered
  <2>4. "gsn" \in doubt => "gsn" \in doubt'
    BY <1>2
  <2> HIDE DEF after, turn, c
  <2> QED
    BY <1>1, <2>1, <2>2, <2>3, <2>4, TableStep
<1>5. CASE c.kind \in GsnKinds
  <2> DEFINE after == Answers(gsn, c, ok, ds)
  <2>1. PanelBecomes(after) /\ UNCHANGED <<fgis, tab, inBase>>
    BY <1>2, <1>5 DEF PanelOf, GsnKinds
  <2>2. "gsn" \notin doubt' => "gsn" \notin doubt /\ turn /\ ~(~ok /\ c.kind \in {"list", "info"}) /\ ~Replaces(c)
    BY <1>2, <1>5 DEF PanelOf, GsnKinds
  <2>4. "fgis" \in doubt => "fgis" \in doubt'
    BY <1>2
  <2>3. /\ GsnAfter(after, calls)
        /\ GsnRight(gsn, calls, tab) /\ turn /\ ~(~ok /\ c.kind \in {"list", "info"}) /\ ~Replaces(c) =>
             GsnRight(after.panel, after.calls, tab)
    <3>1. CASE c.kind = "list"
      BY <1>1, <3>1, ListAnswered
    <3>2. CASE c.kind = "info"
      BY <1>1, <3>2, InfoAnswered
    <3>3. CASE c.kind = "tree"
      BY <1>1, <3>3, TreeAnswered
    <3>4. CASE c.kind = "branch"
      BY <1>1, <3>4, BranchAnswered
    <3> QED
      BY <1>5, <3>1, <3>2, <3>3, <3>4 DEF GsnKinds
  <2> HIDE DEF after, turn, c
  <2>5. "gsn" \notin doubt' => GsnRight(after.panel, after.calls, tab')
    BY <1>1, <2>1, <2>2, <2>3
  <2> QED
    BY <1>1, <2>1, <2>3, <2>4, <2>5, TreeStep
<1> QED
  BY <1>3, <1>4, <1>5

LEMMA PanelsInvNext == PanelsInv /\ [PanelsNext]_panelVars => PanelsInv'
<1> SUFFICES ASSUME PanelsInv, [PanelsNext]_panelVars PROVE PanelsInv'
  OBVIOUS
<1>1. CASE UNCHANGED panelVars
  BY <1>1 DEF panelVars, PanelsInv, PanelsTyped
<1>2. CASE PanelsNext
  <2>1. CASE VisitGsn \/ VisitFgis \/ Leave
    BY <2>1, VisitGsnStep, VisitFgisStep, LeaveStep
  <2>2. ASSUME NEW s \in ToSet(Supplements), ChangeSupplement(s) PROVE PanelsInv'
    BY <2>2, ChangeSupplementStep
  <2>3. ASSUME NEW word \in Searches, SearchTree(word) \/ SearchRows(word) PROVE PanelsInv'
    BY <2>3, SearchTreeStep, SearchRowsStep
  <2>4. CASE OpenNode \/ EditorChanges
    BY <2>4, OpenNodeStep, EditorChangesStep
  <2>5. ASSUME NEW set \in FgisSets, ChangeFgisSet(set) PROVE PanelsInv'
    BY <2>5, ChangeFgisSetStep
  <2>6. ASSUME NEW to, TurnPage(to) PROVE PanelsInv'
    BY <2>6, TurnPageStep
  <2>7. ASSUME NEW i \in 1..Len(calls), AnswerCall(i) PROVE PanelsInv'
    BY <2>7, AnswerCallStep
  <2> QED
    BY <1>2, <2>1, <2>2, <2>3, <2>4, <2>5, <2>6, <2>7 DEF PanelsNext
<1> QED
  BY <1>1, <1>2

LEMMA PanelsInvHolds == PanelsSpec => []PanelsInv
<1> QED
  BY PanelsInvInit, PanelsInvNext, PTL DEF PanelsSpec

-----------------------------------------------------------------------------
(* The theorems about the panels.                                          *)

\* Once every call is answered, the table of FGIS prices shows the rows of the set, the search
\* and the page selected (loadFGISRows, changeFGISSet, changeFGISPage), for every price set,
\* every page limit and any number of clicks, calls and lost answers.
THEOREM PricesAreRight == PanelsSpec => []PricesAreOfTheSet
<1>1. ASSUME PanelsInv PROVE PricesAreOfTheSet
  <2> SUFFICES ASSUME calls = <<>>, OnTable, "fgis" \notin doubt
               PROVE  /\ ~fgis.loading /\ fgis.rows = OfRows(fgis) /\ fgis.loadedSet = fgis.set
                      /\ fgis.offset = 0 \/ fgis.offset < fgis.total
    BY DEF PricesAreOfTheSet
  <2>1. CallsOf(calls, "rows") = {} /\ RowsTyped(fgis, calls) /\ RowsRight(fgis, calls)
    BY <1>1 DEF PanelsInv, CallsOf
  <2>2. ~fgis.loading /\ fgis.shown # "nothing"
    BY <2>1 DEF RowsTyped, OnTable
  <2>3. fgis.loadedSet = fgis.set /\ fgis.set # Nothing /\ fgis.rows = OfRows(fgis) /\ PageThere(fgis)
    BY <2>1, <2>2 DEF RowsRight
  <2>4. fgis.rows.choice = fgis.set /\ fgis.rows.word = fgis.word
    BY <2>3 DEF OfRows, Query
  <2>5. fgis.total = Hits[fgis.set][fgis.word]
    BY <2>1, <2>3, <2>4 DEF RowsTyped
  <2> QED
    BY <2>2, <2>3, <2>5 DEF PageThere
<1> QED
  BY <1>1, PanelsInvHolds, PTL

\* Once every call is answered, a tree of norms that counts as loaded is the one of the supplement
\* and the search selected, and so are the information on the base and the branches that were
\* opened (loadGSNPanel, loadGSNBaseInfo, loadGSNRoot), for all supplements and searches.
THEOREM TreeIsRight == PanelsSpec => []TreeIsOfTheSupplement
<1>1. ASSUME PanelsInv PROVE TreeIsOfTheSupplement
  <2> SUFFICES ASSUME calls = <<>>, OnTree, "gsn" \notin doubt
               PROVE  /\ gsn.loaded => gsn.tree = OfTree(gsn)
                      /\ gsn.infoLoaded => gsn.info = gsn.supplement
                      /\ gsn.branches \subseteq {gsn.supplement}
    BY DEF TreeIsOfTheSupplement
  <2>1. \A kind : CallsOf(calls, kind) = {}
    BY DEF CallsOf
  <2>2. GsnRight(gsn, calls, tab) /\ tab = "gsn"
    BY <1>1 DEF PanelsInv, OnTree
  <2>3. ~Renewed(gsn, calls, tab)
    BY <2>1, <2>2 DEF Renewed
  <2> QED
    BY <2>1, <2>2, <2>3 DEF GsnRight, InfoRight, TreeRight, BranchesRight
<1> QED
  BY <1>1, PanelsInvHolds, PTL

-----------------------------------------------------------------------------
(* Positions from the base and the buffer: types, and the invariants.      *)

RowRecord == [of : Things, quantity : Nat]
FetchRecord == [draft : Drafts, left : Seq(RowRecord) \ {<<>>}, pastes : BOOLEAN]

BufferTyped ==
  /\ buffer \in Seq(RowRecord) /\ lines \in [Drafts -> Seq(RowRecord)]
  /\ editor \in [Drafts -> {"new", "open", "closed"}]
  /\ quantities \in [Keys -> Nat]
  /\ steppers \in [{"gsn", "own"} -> Drafts \cup {NoDraft}]
  /\ fetches \in Seq(FetchRecord) /\ \A i \in 1..Len(fetches) : editor[fetches[i].draft] # "new"

\* What is still to be added to an estimate has no row of a thing, ...
Unawaited(fs, d, thing) == \A i \in 1..Len(fs) : fs[i].draft = d => Places(fs[i].left, thing) = {}

\* ... or one, which has the stepper's quantity.
Coming(fs, d, thing, quantity) ==
  \E i \in 1..Len(fs) :
    /\ fs[i].draft = d /\ quantity # 0 /\ Tells(fs[i].left, thing, quantity)
    /\ \A j \in 1..Len(fs) : j # i /\ fs[j].draft = d => Places(fs[j].left, thing) = {}

\* The list has what the stepper tells, or will have it when the record is there.
Told(list, fs, d, thing, quantity) ==
  \/ Tells(list, thing, quantity) /\ Unawaited(fs, d, thing)
  \/ Places(list, thing) = {} /\ Coming(fs, d, thing, quantity)

\* While the buffer is added to an estimate, a stepper that is in step has nothing in it, so that
\* emptying the buffer changes nothing.
SteppersInv ==
  /\ BufferTyped
  /\ \A d \in Drafts : \A thing \in Things :
       <<d, thing>> \notin adrift /\ editor[d] # "closed" =>
         Told(lines[d], fetches, d, thing, quantities[<<d, thing>>])
  /\ \A thing \in Things : <<"buffer", thing>> \notin adrift =>
       Tells(buffer, thing, quantities[<<"buffer", thing>>]) /\ (Pasting => Places(buffer, thing) = {})

Has(list, row) == \E k \in 1..Len(list) : list[k] = row

\* The buffer has one row of a thing, with the quantity its stepper tells, if it tells one.
BufferInOrder ==
  /\ \A thing \in Things : \A i, j \in Places(buffer, thing) : i = j
  /\ \A i \in 1..Len(buffer) : quantities[<<"buffer", buffer[i].of>>] \in {0, buffer[i].quantity}

\* Whatever a list has, another has or will have when what is left is added, but what is excused.
Delivers(has, list, left, excused) ==
  \A k \in 1..Len(has) : has[k].of \in excused \/ Has(list, has[k]) \/ Has(left, has[k])

\* What the buffer has while it is added to an estimate is there, or still to be added.
Due(i) ==
  \/ Things \subseteq contested
  \/ /\ editor[fetches[i].draft] = "open"
     /\ Delivers(buffer, lines[fetches[i].draft], fetches[i].left, contested)

MovesInv ==
  /\ BufferInOrder /\ Drafts # {}
  /\ \A i \in 1..Len(fetches) : fetches[i].pastes => Due(i)

-----------------------------------------------------------------------------
(* Lists of rows.                                                          *)

LEMMA LeastOf ==
  ASSUME NEW T \in SUBSET Nat, T # {}
  PROVE  Min(T) \in T /\ \A y \in T : Min(T) <= y
<1> DEFINE R == {ss \in Nat \X Nat : ss[1] < ss[2]}
<1>1. \A x, y \in Nat : <<x, y>> \in R <=> x < y
  OBVIOUS
<1>2. IsWellFoundedOn(R, Nat)
  BY NatLessThanWellFounded DEF OpToRel
<1> HIDE DEF R
<1>3. PICK x \in T : \A y \in T : ~ (<<y, x>> \in R)
  BY <1>2, WFMin
<1>4. \A y \in T : y \in Nat /\ x \in Nat /\ ~(y < x)
  BY <1>1, <1>3
<1>5. \A y \in T : x <= y
  BY <1>4
<1> QED
  BY <1>3, <1>5 DEF Min

LEMMA GreatestOf ==
  ASSUME NEW n \in Nat, NEW T \in SUBSET (0..n), T # {}
  PROVE  Max(T) \in T /\ \A y \in T : y <= Max(T)
<1> DEFINE U == {n - x : x \in T}
<1>1. \A x \in T : x \in Nat /\ n - x \in Nat
  BY SMT
<1>2. U \in SUBSET Nat /\ U # {}
  BY <1>1
<1>3. Min(U) \in U /\ \A y \in U : Min(U) <= y
  <2> HIDE DEF U
  <2> QED
    BY <1>2, LeastOf
<1>4. PICK z \in T : Min(U) = n - z
  BY <1>3
<1>5. \A y \in T : y <= z
  <2> TAKE y \in T
  <2>1. n - z <= n - y
    BY <1>3, <1>4
  <2>2. y \in Nat /\ z \in Nat
    BY <1>1
  <2> HIDE DEF U
  <2> QED
    BY <2>1, <2>2
<1> QED
  BY <1>5 DEF Max

\* Two lists have the same rows of a thing.
Alike(list, other, thing) ==
  /\ \A quantity : Tells(list, thing, quantity) => Tells(other, thing, quantity)
  /\ Places(list, thing) = {} => Places(other, thing) = {}
  /\ (\A i, j \in Places(list, thing) : i = j) => \A i, j \in Places(other, thing) : i = j
  /\ \A row : row.of = thing => (Has(list, row) <=> Has(other, row))

\* A list is one list followed by another.
Joins(list, first, second) ==
  /\ Len(list) = Len(first) + Len(second)
  /\ \A i \in 1..Len(first) : list[i] = first[i]
  /\ \A i \in 1..Len(second) : list[Len(first) + i] = second[i]

LEMMA JoinedTells ==
  ASSUME NEW list \in Seq(RowRecord), NEW first \in Seq(RowRecord), NEW second \in Seq(RowRecord),
         Joins(list, first, second), NEW thing, NEW quantity
  PROVE  /\ Places(list, thing) = {} <=> Places(first, thing) = {} /\ Places(second, thing) = {}
         /\ Tells(first, thing, quantity) /\ Places(second, thing) = {} => Tells(list, thing, quantity)
         /\ Tells(second, thing, quantity) /\ Places(first, thing) = {} => Tells(list, thing, quantity)
         /\ Tells(list, thing, quantity) =>
              \/ Tells(first, thing, quantity) /\ Places(second, thing) = {}
              \/ Tells(second, thing, quantity) /\ Places(first, thing) = {}
         /\ \A row : Has(list, row) <=> Has(first, row) \/ Has(second, row)
<1> DEFINE m == Len(first)
           n == Len(second)
<1>1. m \in Nat /\ n \in Nat /\ Len(list) = m + n
  BY DEF Joins
<1>2. /\ \A i \in 1..m : i \in 1..Len(list) /\ list[i] = first[i]
      /\ \A i \in 1..n : m + i \in 1..Len(list) /\ list[m + i] = second[i]
  BY <1>1 DEF Joins
<1>3. \A k \in 1..Len(list) : k \in 1..m \/ (k - m \in 1..n /\ m + (k - m) = k)
  BY <1>1
<1> HIDE DEF m, n
<1>4. /\ \A i \in Places(first, thing) : i \in Places(list, thing) /\ i \in 1..m
      /\ \A i \in Places(second, thing) : m + i \in Places(list, thing) /\ i \in 1..n
      /\ \A k \in Places(list, thing) : k \in Places(first, thing) \/ (k - m \in Places(second, thing) /\ m + (k - m) = k)
  <2>1. \A i \in Places(first, thing) : i \in Places(list, thing) /\ i \in 1..m
    BY <1>2 DEF Places, m
  <2>2. \A i \in Places(second, thing) : m + i \in Places(list, thing) /\ i \in 1..n
    BY <1>2 DEF Places, n
  <2>3. ASSUME NEW k \in Places(list, thing)
        PROVE  k \in Places(first, thing) \/ (k - m \in Places(second, thing) /\ m + (k - m) = k)
    <3>1. k \in 1..Len(list) /\ list[k].of = thing
      BY DEF Places
    <3>2. CASE k \in 1..m
      BY <1>2, <3>1, <3>2 DEF Places, m
    <3>3. CASE k - m \in 1..n /\ m + (k - m) = k
      <4>1. list[k] = second[k - m]
        BY <1>2, <3>3
      <4> QED
        BY <3>1, <3>3, <4>1 DEF Places, n
    <3> QED
      BY <1>3, <3>1, <3>2, <3>3
  <2> QED
    BY <2>1, <2>2, <2>3
<1>5. Places(list, thing) = {} <=> Places(first, thing) = {} /\ Places(second, thing) = {}
  BY <1>4
<1>6. ASSUME Tells(first, thing, quantity), Places(second, thing) = {} PROVE Tells(list, thing, quantity)
  <2>1. CASE quantity = 0
    BY <1>5, <1>6, <2>1 DEF Tells
  <2>2. CASE quantity # 0
    <3>1. PICK i \in 1..m : Places(first, thing) = {i} /\ first[i].quantity = quantity
      BY <1>6, <2>2 DEF Tells, m
    <3>2. Places(list, thing) = {i}
      BY <1>4, <1>6, <3>1
    <3> QED
      BY <1>2, <2>2, <3>1, <3>2 DEF Tells
  <2> QED
    BY <2>1, <2>2
<1>7. ASSUME Tells(second, thing, quantity), Places(first, thing) = {} PROVE Tells(list, thing, quantity)
  <2>1. CASE quantity = 0
    BY <1>5, <1>7, <2>1 DEF Tells
  <2>2. CASE quantity # 0
    <3>1. PICK i \in 1..n : Places(second, thing) = {i} /\ second[i].quantity = quantity
      BY <1>7, <2>2 DEF Tells, n
    <3>2. Places(list, thing) = {m + i}
      BY <1>4, <1>7, <3>1
    <3> QED
      BY <1>2, <2>2, <3>1, <3>2 DEF Tells
  <2> QED
    BY <2>1, <2>2
<1>8. ASSUME Tells(list, thing, quantity)
      PROVE  \/ Tells(first, thing, quantity) /\ Places(second, thing) = {}
             \/ Tells(second, thing, quantity) /\ Places(first, thing) = {}
  <2>1. CASE quantity = 0
    BY <1>5, <1>8, <2>1 DEF Tells
  <2>2. CASE quantity # 0
    <3>1. PICK k \in 1..Len(list) : Places(list, thing) = {k} /\ list[k].quantity = quantity
      BY <1>8, <2>2 DEF Tells
    <3>2. CASE k \in Places(first, thing)
      <4>1. k \in 1..m /\ Places(first, thing) = {k}
        BY <1>4, <3>1, <3>2
      <4>2. Places(second, thing) = {}
        <5>1. \A i \in Places(second, thing) : m + i = k /\ i \in 1..n
          BY <1>4, <3>1
        <5> QED
          BY <1>1, <4>1, <5>1
      <4> QED
        BY <1>2, <2>2, <3>1, <4>1, <4>2 DEF Tells, m
    <3>3. CASE k - m \in Places(second, thing) /\ m + (k - m) = k
      <4>1. \A i \in Places(second, thing) : m + i = k /\ i \in 1..n
        BY <1>4, <3>1
      <4>2. k - m \in 1..n /\ Places(second, thing) = {k - m}
        BY <1>1, <3>3, <4>1
      <4>3. Places(first, thing) = {}
        <5>1. \A i \in Places(first, thing) : i = k /\ i \in 1..m
          BY <1>4, <3>1
        <5> QED
          BY <1>1, <4>2, <5>1
      <4>4. second[k - m].quantity = quantity
        BY <1>2, <3>1, <3>3, <4>2
      <4> QED
        BY <2>2, <4>2, <4>3, <4>4 DEF Tells, n
    <3> QED
      BY <1>4, <3>1, <3>2, <3>3
  <2> QED
    BY <2>1, <2>2
<1>9. ASSUME NEW row PROVE Has(list, row) <=> Has(first, row) \/ Has(second, row)
  <2>1. Has(first, row) => Has(list, row)
    BY <1>2 DEF Has, m
  <2>2. Has(second, row) => Has(list, row)
    BY <1>2 DEF Has, n
  <2>3. ASSUME NEW k \in 1..Len(list), list[k] = row PROVE Has(first, row) \/ Has(second, row)
    <3>1. CASE k \in 1..m
      BY <1>2, <2>3, <3>1 DEF Has, m
    <3>2. CASE k - m \in 1..n /\ m + (k - m) = k
      <4>1. second[k - m] = row
        BY <1>2, <2>3, <3>2
      <4> QED
        BY <3>2, <4>1 DEF Has, n
    <3> QED
      BY <1>3, <3>1, <3>2
  <2> QED
    BY <2>1, <2>2, <2>3 DEF Has
<1> QED
  BY <1>5, <1>6, <1>7, <1>8, <1>9

\* What is joined to a list and has nothing of a thing leaves it as it was.
LEMMA JoinedAlike ==
  ASSUME NEW list \in Seq(RowRecord), NEW first \in Seq(RowRecord), NEW second \in Seq(RowRecord),
         Joins(list, first, second), NEW thing, Places(second, thing) = {}
  PROVE  Alike(first, list, thing)
<1>1. /\ \A quantity : Tells(first, thing, quantity) => Tells(list, thing, quantity)
      /\ Places(first, thing) = {} => Places(list, thing) = {}
      /\ \A row : Has(list, row) <=> Has(first, row) \/ Has(second, row)
  BY JoinedTells
<1>2. \A row : row.of = thing => ~Has(second, row)
  BY DEF Has, Places
<1>3. Places(list, thing) \subseteq Places(first, thing)
  <2> SUFFICES ASSUME NEW k \in Places(list, thing) PROVE k \in Places(first, thing)
    OBVIOUS
  <2>1. k \in 1..Len(list) /\ list[k].of = thing /\ Len(first) \in Nat /\ Len(second) \in Nat
    BY DEF Places
  <2>2. k - Len(first) \notin 1..Len(second)
    <3> SUFFICES ASSUME k - Len(first) \in 1..Len(second) PROVE FALSE
      OBVIOUS
    <3>1. list[Len(first) + (k - Len(first))] = second[k - Len(first)] /\ Len(first) + (k - Len(first)) = k
      BY <2>1 DEF Joins
    <3> QED
      BY <2>1, <3>1 DEF Places
  <2>3. k \in 1..Len(first)
    BY <2>1, <2>2 DEF Joins
  <2> QED
    BY <2>1, <2>3 DEF Joins, Places
<1> QED
  BY <1>1, <1>2, <1>3 DEF Alike

LEMMA ListsJoin ==
  ASSUME NEW first \in Seq(RowRecord), NEW second \in Seq(RowRecord)
  PROVE  /\ first \o second \in Seq(RowRecord) /\ Joins(first \o second, first, second)
         /\ \A row \in RowRecord :
              /\ Append(first, row) \in Seq(RowRecord) /\ <<row>> \in Seq(RowRecord)
              /\ Joins(Append(first, row), first, <<row>>)
<1>1. first \o second \in Seq(RowRecord) /\ Joins(first \o second, first, second)
  <2> DEFINE list == first \o second
  <2>1. Len(first) \in Nat /\ Len(second) \in Nat
    OBVIOUS
  <2>2. /\ list \in Seq(RowRecord) /\ Len(list) = Len(first) + Len(second)
        /\ \A i \in 1..(Len(first) + Len(second)) :
             list[i] = IF i <= Len(first) THEN first[i] ELSE second[i - Len(first)]
    BY ConcatProperties
  <2> HIDE DEF list
  <2>3. \A i \in 1..Len(first) : i \in 1..(Len(first) + Len(second)) /\ i <= Len(first)
    BY <2>1
  <2>4. \A i \in 1..Len(second) :
          /\ Len(first) + i \in 1..(Len(first) + Len(second)) /\ ~(Len(first) + i <= Len(first))
          /\ (Len(first) + i) - Len(first) = i
    BY <2>1
  <2>5. Joins(list, first, second)
    BY <2>2, <2>3, <2>4 DEF Joins
  <2> QED
    BY <2>2, <2>5 DEF list
<1>2. ASSUME NEW row \in RowRecord
      PROVE  /\ Append(first, row) \in Seq(RowRecord) /\ <<row>> \in Seq(RowRecord)
             /\ Joins(Append(first, row), first, <<row>>)
  BY DEF Joins
<1> QED
  BY <1>1, <1>2

\* A list is what comes first in it, and the rest.
LEMMA ListSplit ==
  ASSUME NEW list \in Seq(RowRecord), NEW n \in 0..Len(list)
  PROVE  /\ SubSeq(list, 1, n) \in Seq(RowRecord) /\ SubSeq(list, n + 1, Len(list)) \in Seq(RowRecord)
         /\ Len(SubSeq(list, 1, n)) = n /\ Len(SubSeq(list, n + 1, Len(list))) = Len(list) - n
         /\ Joins(list, SubSeq(list, 1, n), SubSeq(list, n + 1, Len(list)))
<1> DEFINE first == SubSeq(list, 1, n)
           second == SubSeq(list, n + 1, Len(list))
<1>1. Len(list) \in Nat /\ n \in Nat /\ n <= Len(list) /\ \A k \in 1..Len(list) : list[k] \in RowRecord
  OBVIOUS
<1>2. first \in Seq(RowRecord) /\ Len(first) = n /\ \A k \in 1..n : first[k] = list[k]
  <2>1. \A k \in 1..n : list[k] \in RowRecord
    BY <1>1
  <2>2. \A k \in 1..(n - 1 + 1) : first[k] = list[1 + k - 1]
    BY <1>1, <2>1, SubSeqProperties
  <2>3. first \in Seq(RowRecord) /\ Len(first) = IF 1 <= n THEN n - 1 + 1 ELSE 0
    BY <1>1, <2>1, SubSeqProperties
  <2> HIDE DEF first
  <2> QED
    BY <1>1, <2>2, <2>3
<1>3. second \in Seq(RowRecord) /\ Len(second) = Len(list) - n /\ \A k \in 1..(Len(list) - n) : second[k] = list[n + k]
  <2>1. \A k \in (n + 1)..Len(list) : list[k] \in RowRecord
    BY <1>1
  <2>2. \A k \in 1..(Len(list) - (n + 1) + 1) : second[k] = list[(n + 1) + k - 1]
    BY <1>1, <2>1, SubSeqProperties
  <2>3. second \in Seq(RowRecord) /\ Len(second) = IF n + 1 <= Len(list) THEN Len(list) - (n + 1) + 1 ELSE 0
    BY <1>1, <2>1, SubSeqProperties
  <2> HIDE DEF second
  <2> QED
    BY <1>1, <2>2, <2>3
<1> HIDE DEF first, second
<1>4. Joins(list, first, second)
  BY <1>1, <1>2, <1>3 DEF Joins
<1> QED
  BY <1>2, <1>3, <1>4 DEF first, second

\* Without one row, the other things are as they were.
LEMMA RowGone ==
  ASSUME NEW list \in Seq(RowRecord), NEW i \in 1..Len(list)
  PROVE  /\ RemoveAt(list, i) \in Seq(RowRecord)
         /\ \A thing : thing # list[i].of => Alike(list, RemoveAt(list, i), thing)
         /\ Places(list, list[i].of) = {i} => Places(RemoveAt(list, i), list[i].of) = {}
         /\ \A row : Has(RemoveAt(list, i), row) => Has(list, row)
         /\ \A thing : (\A j, k \in Places(list, thing) : j = k) => \A j, k \in Places(RemoveAt(list, i), thing) : j = k
<1> DEFINE rest == RemoveAt(list, i)
           n == Len(list)
           at(k) == IF k < i THEN k ELSE k + 1
           was(j) == IF j < i THEN j ELSE j - 1
<1>1. n \in Nat /\ i \in Nat /\ i >= 1 /\ i <= n
  OBVIOUS
<1>2. /\ rest \in Seq(RowRecord) /\ Len(rest) = n - 1
      /\ \A k \in 1..(n - 1) : rest[k] = IF k < i THEN list[k] ELSE list[k + 1]
  BY ElementRemoved
<1> HIDE DEF rest
<1>3. \A k \in 1..Len(rest) : at(k) \in 1..n /\ at(k) # i /\ rest[k] = list[at(k)]
  BY <1>1, <1>2
<1>4. \A j \in 1..n : j # i => was(j) \in 1..Len(rest) /\ at(was(j)) = j
  BY <1>1, <1>2
<1>5. \A k, l \in 1..Len(rest) : at(k) = at(l) => k = l
  BY <1>1, <1>2
<1> HIDE DEF at, was, n
<1>6. \A thing : \A k \in Places(rest, thing) : at(k) \in Places(list, thing) /\ at(k) # i
  BY <1>3 DEF Places, n
<1>7. \A thing : \A j \in Places(list, thing) :
        j # i => was(j) \in Places(rest, thing) /\ at(was(j)) = j /\ rest[was(j)] = list[j]
  BY <1>3, <1>4 DEF Places, n
<1>8. \A thing : (\A j, k \in Places(list, thing) : j = k) => \A j, k \in Places(rest, thing) : j = k
  <2> TAKE thing
  <2> SUFFICES ASSUME \A j, k \in Places(list, thing) : j = k, NEW j \in Places(rest, thing), NEW k \in Places(rest, thing)
               PROVE  j = k
    OBVIOUS
  <2>1. at(j) = at(k)
    BY <1>6
  <2>2. j \in 1..Len(rest) /\ k \in 1..Len(rest)
    BY DEF Places
  <2> QED
    BY <1>5, <2>1, <2>2
<1>9. \A row : Has(rest, row) => Has(list, row)
  BY <1>3 DEF Has, n
<1>10. ASSUME NEW thing, thing # list[i].of PROVE Alike(list, rest, thing)
  <2>1. i \notin Places(list, thing)
    BY <1>10 DEF Places
  <2>2. Places(list, thing) = {} => Places(rest, thing) = {}
    BY <1>6
  <2>3. ASSUME NEW quantity, Tells(list, thing, quantity) PROVE Tells(rest, thing, quantity)
    <3>1. CASE quantity = 0
      BY <2>2, <2>3, <3>1 DEF Tells
    <3>2. CASE quantity # 0
      <4>1. PICK j \in 1..n : Places(list, thing) = {j} /\ list[j].quantity = quantity
        BY <2>3, <3>2 DEF Tells, n
      <4>2. was(j) \in Places(rest, thing) /\ at(was(j)) = j /\ rest[was(j)] = list[j]
        BY <1>7, <2>1, <4>1
      <4>3. \A k \in Places(rest, thing) : k = was(j)
        <5> TAKE k \in Places(rest, thing)
        <5>1. at(k) = j /\ k \in 1..Len(rest) /\ was(j) \in 1..Len(rest)
          BY <1>6, <4>1, <4>2 DEF Places
        <5> QED
          BY <1>5, <4>2, <5>1
      <4>4. was(j) \in 1..Len(rest)
        BY <4>2 DEF Places
      <4> QED
        BY <3>2, <4>1, <4>2, <4>3, <4>4 DEF Tells
    <3> QED
      BY <3>1, <3>2
  <2>4. ASSUME NEW row, row.of = thing, Has(list, row) PROVE Has(rest, row)
    <3>1. PICK j \in 1..n : list[j] = row
      BY <2>4 DEF Has, n
    <3>2. j \in Places(list, thing) /\ j # i
      BY <1>10, <2>4, <3>1 DEF Places, n
    <3>3. was(j) \in Places(rest, thing) /\ rest[was(j)] = row
      BY <1>7, <3>1, <3>2
    <3> QED
      BY <3>3 DEF Has, Places
  <2> QED
    BY <1>8, <1>9, <2>2, <2>3, <2>4 DEF Alike
<1>11. Places(list, list[i].of) = {i} => Places(rest, list[i].of) = {}
  BY <1>6
<1> QED
  BY <1>2, <1>8, <1>9, <1>10, <1>11 DEF rest

\* The rows of a thing are taken out of a list, if there is one at most.
LEMMA RemovedTells ==
  ASSUME NEW list \in Seq(RowRecord), NEW thing
  PROVE  /\ Removed(list, thing) \in Seq(RowRecord)
         /\ (\A i, j \in Places(list, thing) : i = j) => Tells(Removed(list, thing), thing, 0)
         /\ \A other : other # thing => Alike(list, Removed(list, thing), other)
         /\ \A row : Has(Removed(list, thing), row) => Has(list, row)
         /\ \A other : (\A j, k \in Places(list, other) : j = k) => \A j, k \in Places(Removed(list, thing), other) : j = k
<1>1. CASE Places(list, thing) = {}
  <2>1. Removed(list, thing) = list
    BY <1>1 DEF Removed
  <2> QED
    BY <1>1, <2>1 DEF Tells, Alike
<1>2. CASE Places(list, thing) # {}
  <2> DEFINE i == Max(Places(list, thing))
  <2>1. i \in Places(list, thing)
    <3>1. Len(list) \in Nat /\ Places(list, thing) \in SUBSET (0..Len(list))
      BY DEF Places
    <3> QED
      BY <1>2, <3>1, GreatestOf
  <2>2. i \in 1..Len(list) /\ list[i].of = thing
    BY <2>1 DEF Places
  <2>3. Removed(list, thing) = RemoveAt(list, i)
    BY <1>2 DEF Removed
  <2> HIDE DEF i
  <2>4. (\A j, k \in Places(list, thing) : j = k) => Places(list, thing) = {i}
    BY <2>1
  <2>5. /\ RemoveAt(list, i) \in Seq(RowRecord)
        /\ \A other : other # thing => Alike(list, RemoveAt(list, i), other)
        /\ Places(list, thing) = {i} => Places(RemoveAt(list, i), thing) = {}
        /\ \A row : Has(RemoveAt(list, i), row) => Has(list, row)
        /\ \A other : (\A j, k \in Places(list, other) : j = k) =>
                        \A j, k \in Places(RemoveAt(list, i), other) : j = k
    BY <2>2, RowGone
  <2>6. (\A j, k \in Places(list, thing) : j = k) => Tells(RemoveAt(list, i), thing, 0)
    BY <2>4, <2>5 DEF Tells
  <2> QED
    BY <2>3, <2>5, <2>6
<1> QED
  BY <1>1, <1>2

\* A row is put in the place of the first of its thing, or at the end.
LEMMA UpsertedTells ==
  ASSUME NEW list \in Seq(RowRecord), NEW thing \in Things, NEW quantity \in Nat \ {0}
  PROVE  /\ Upserted(list, thing, quantity) \in Seq(RowRecord)
         /\ (\A i, j \in Places(list, thing) : i = j) => Tells(Upserted(list, thing, quantity), thing, quantity)
         /\ \A row : Has(list, row) /\ (row.of = thing => row = Row(thing, quantity)) =>
                     Has(Upserted(list, thing, quantity), row)
         /\ \A other : other # thing => Alike(list, Upserted(list, thing, quantity), other)
         /\ \A row : Has(Upserted(list, thing, quantity), row) => Has(list, row) \/ row = Row(thing, quantity)
<1> DEFINE row == Row(thing, quantity)
           after == Upserted(list, thing, quantity)
<1>1. row \in RowRecord /\ row.of = thing /\ row.quantity = quantity
  BY DEF Row, RowRecord
<1> HIDE DEF row
<1>2. \A other : Places(<<row>>, other) = IF other = thing THEN {1} ELSE {}
  BY <1>1 DEF Places
<1>3. CASE Places(list, thing) = {}
  <2>1. after = Append(list, row)
    BY <1>3 DEF Upserted, row
  <2>2. /\ after \in Seq(RowRecord) /\ <<row>> \in Seq(RowRecord) /\ Joins(after, list, <<row>>)
    BY <1>1, <2>1, ListsJoin
  <2> HIDE DEF after
  <2>3. Tells(<<row>>, thing, quantity)
    BY <1>1, <1>2 DEF Tells
  <2>4. Tells(after, thing, quantity) /\ \A other : Has(after, other) <=> Has(list, other) \/ Has(<<row>>, other)
    BY <1>3, <2>2, <2>3, JoinedTells
  <2>5. \A other : other # thing => Alike(list, after, other)
    BY <1>2, <2>2, JoinedAlike
  <2>6. \A other : Has(<<row>>, other) => other = row
    BY DEF Has
  <2> QED
    BY <2>2, <2>4, <2>5, <2>6 DEF row, after
<1>4. CASE Places(list, thing) # {}
  <2> DEFINE i == Min(Places(list, thing))
  <2>1. i \in Places(list, thing)
    <3>1. Places(list, thing) \in SUBSET Nat
      BY DEF Places
    <3> QED
      BY <1>4, <3>1, LeastOf
  <2>2. i \in 1..Len(list) /\ list[i].of = thing
    BY <2>1 DEF Places
  <2>3. after = [list EXCEPT ![i] = row]
    BY <1>4 DEF Upserted, row
  <2> HIDE DEF i, after
  <2>4. /\ after \in Seq(RowRecord) /\ Len(after) = Len(list) /\ after[i] = row
        /\ \A k \in 1..Len(list) : k # i => after[k] = list[k]
    BY <1>1, <2>2, <2>3
  <2>5. \A other : Places(after, other) = Places(list, other)
    BY <1>1, <2>2, <2>4 DEF Places
  <2>6. (\A j, k \in Places(list, thing) : j = k) => Places(after, thing) = {i}
    BY <2>1, <2>5
  <2>7. (\A j, k \in Places(list, thing) : j = k) => Tells(after, thing, quantity)
    BY <1>1, <2>2, <2>4, <2>6 DEF Tells
  <2>8. ASSUME NEW other, other # thing PROVE Alike(list, after, other)
    <3>1. \A k \in Places(list, other) : k # i /\ after[k] = list[k] /\ k \in 1..Len(after)
      BY <2>2, <2>4, <2>8 DEF Places
    <3>2. \A q : Tells(list, other, q) => Tells(after, other, q)
      BY <2>4, <2>5, <3>1 DEF Tells
    <3>3. \A r : r.of = other => (Has(list, r) <=> Has(after, r))
      BY <1>1, <2>2, <2>4, <2>8 DEF Has
    <3> QED
      BY <2>5, <3>2, <3>3 DEF Alike
  <2>9. \A r : Has(after, r) => Has(list, r) \/ r = row
    BY <2>4 DEF Has
  <2>10. ASSUME NEW r, Has(list, r), r.of = thing => r = row PROVE Has(after, r)
    <3>1. PICK k \in 1..Len(list) : list[k] = r
      BY <2>10 DEF Has
    <3>2. CASE k # i
      BY <2>4, <3>1, <3>2 DEF Has
    <3>3. CASE k = i
      BY <2>2, <2>4, <2>10, <3>1, <3>3 DEF Has
    <3> QED
      BY <3>2, <3>3
  <2> QED
    BY <2>4, <2>7, <2>8, <2>9, <2>10 DEF row, after
<1> QED
  BY <1>3, <1>4

-----------------------------------------------------------------------------
(* Additions that wait for a record.                                       *)

\* What waits for a draft tells the same of a thing.
WaitsAlike(fs, gs, d, thing) ==
  /\ Unawaited(fs, d, thing) => Unawaited(gs, d, thing)
  /\ \A quantity : Coming(fs, d, thing, quantity) => Coming(gs, d, thing, quantity)

LEMMA ToldAlike ==
  ASSUME NEW list, NEW other, NEW fs, NEW gs, NEW d, NEW thing, NEW quantity,
         Alike(list, other, thing), WaitsAlike(fs, gs, d, thing), Told(list, fs, d, thing, quantity)
  PROVE  Told(other, gs, d, thing, quantity)
BY DEF Alike, WaitsAlike, Told

\* Another addition waits, for another draft or of other things.
LEMMA WaitAdded ==
  ASSUME NEW fs \in Seq(FetchRecord), NEW f \in FetchRecord, NEW d, NEW thing,
         f.draft # d \/ Places(f.left, thing) = {}
  PROVE  WaitsAlike(fs, Append(fs, f), d, thing)
<1> DEFINE gs == Append(fs, f)
<1>1. /\ Len(fs) \in Nat /\ Len(gs) = Len(fs) + 1 /\ gs[Len(gs)] = f
      /\ \A i \in 1..Len(fs) : i \in 1..Len(gs) /\ gs[i] = fs[i]
      /\ \A i \in 1..Len(gs) : i \in 1..Len(fs) \/ i = Len(gs)
  OBVIOUS
<1> HIDE DEF gs
<1>2. Unawaited(fs, d, thing) => Unawaited(gs, d, thing)
  BY <1>1 DEF Unawaited
<1>3. ASSUME NEW quantity, Coming(fs, d, thing, quantity) PROVE Coming(gs, d, thing, quantity)
  <2>1. PICK i \in 1..Len(fs) :
          /\ fs[i].draft = d /\ quantity # 0 /\ Tells(fs[i].left, thing, quantity)
          /\ \A j \in 1..Len(fs) : j # i /\ fs[j].draft = d => Places(fs[j].left, thing) = {}
    BY <1>3 DEF Coming
  <2>2. i \in 1..Len(gs) /\ gs[i] = fs[i]
    BY <1>1
  <2>3. ASSUME NEW j \in 1..Len(gs), j # i, gs[j].draft = d PROVE Places(gs[j].left, thing) = {}
    BY <1>1, <2>1, <2>3
  <2> QED
    BY <2>1, <2>2, <2>3 DEF Coming
<1> QED
  BY <1>2, <1>3 DEF WaitsAlike, gs

\* An addition waits no more, for another draft or of other things.
LEMMA WaitGone ==
  ASSUME NEW fs \in Seq(FetchRecord), NEW i \in 1..Len(fs)
  PROVE  /\ RemoveAt(fs, i) \in Seq(FetchRecord)
         /\ \A k \in 1..Len(RemoveAt(fs, i)) : \E j \in 1..Len(fs) : j # i /\ RemoveAt(fs, i)[k] = fs[j]
         /\ \A d, thing : fs[i].draft # d \/ Places(fs[i].left, thing) = {} =>
                            WaitsAlike(fs, RemoveAt(fs, i), d, thing)
<1> DEFINE gs == RemoveAt(fs, i)
           n == Len(fs)
           at(k) == IF k < i THEN k ELSE k + 1
           was(j) == IF j < i THEN j ELSE j - 1
<1>1. n \in Nat /\ i \in Nat /\ i >= 1 /\ i <= n
  OBVIOUS
<1>2. /\ gs \in Seq(FetchRecord) /\ Len(gs) = n - 1
      /\ \A k \in 1..(n - 1) : gs[k] = IF k < i THEN fs[k] ELSE fs[k + 1]
  BY ElementRemoved
<1> HIDE DEF gs
<1>3. \A k \in 1..Len(gs) : at(k) \in 1..n /\ at(k) # i /\ gs[k] = fs[at(k)]
  BY <1>1, <1>2
<1>4. \A j \in 1..n : j # i => was(j) \in 1..Len(gs) /\ at(was(j)) = j
  BY <1>1, <1>2
<1>5. \A k, l \in 1..Len(gs) : at(k) = at(l) => k = l
  BY <1>1, <1>2
<1> HIDE DEF at, was, n
<1>6. ASSUME NEW d, NEW thing, fs[i].draft # d \/ Places(fs[i].left, thing) = {}
      PROVE  WaitsAlike(fs, gs, d, thing)
  <2>1. Unawaited(fs, d, thing) => Unawaited(gs, d, thing)
    BY <1>3 DEF Unawaited, n
  <2>2. ASSUME NEW quantity, Coming(fs, d, thing, quantity) PROVE Coming(gs, d, thing, quantity)
    <3>1. PICK j \in 1..n :
            /\ fs[j].draft = d /\ quantity # 0 /\ Tells(fs[j].left, thing, quantity)
            /\ \A k \in 1..n : k # j /\ fs[k].draft = d => Places(fs[k].left, thing) = {}
      BY <2>2 DEF Coming, n
    <3>2. j # i
      BY <1>6, <3>1 DEF Tells
    <3>3. was(j) \in 1..Len(gs) /\ at(was(j)) = j /\ gs[was(j)] = fs[j]
      BY <1>3, <1>4, <3>2
    <3>4. ASSUME NEW k \in 1..Len(gs), k # was(j), gs[k].draft = d PROVE Places(gs[k].left, thing) = {}
      <4>1. at(k) # j /\ at(k) \in 1..n /\ gs[k] = fs[at(k)]
        BY <1>3, <1>5, <3>3, <3>4
      <4> QED
        BY <3>1, <3>4, <4>1
    <3> QED
      BY <3>1, <3>3, <3>4 DEF Coming
  <2> QED
    BY <2>1, <2>2 DEF WaitsAlike
<1> QED
  BY <1>2, <1>3, <1>6 DEF gs, n

\* One addition is shorter than before.
Shortened(fs, gs, i) ==
  /\ Len(gs) = Len(fs) /\ gs[i].draft = fs[i].draft
  /\ \A j \in 1..Len(fs) : j # i => gs[j] = fs[j]

LEMMA WaitShorter ==
  ASSUME NEW fs, NEW gs, NEW i \in 1..Len(fs), Shortened(fs, gs, i), NEW d, NEW thing,
         fs[i].draft # d \/ Alike(fs[i].left, gs[i].left, thing)
  PROVE  WaitsAlike(fs, gs, d, thing)
<1>1. Unawaited(fs, d, thing) => Unawaited(gs, d, thing)
  BY DEF Unawaited, Shortened, Alike
<1>2. ASSUME NEW quantity, Coming(fs, d, thing, quantity) PROVE Coming(gs, d, thing, quantity)
  <2>1. PICK j \in 1..Len(fs) :
          /\ fs[j].draft = d /\ quantity # 0 /\ Tells(fs[j].left, thing, quantity)
          /\ \A k \in 1..Len(fs) : k # j /\ fs[k].draft = d => Places(fs[k].left, thing) = {}
    BY <1>2 DEF Coming
  <2>2. gs[j].draft = d /\ Tells(gs[j].left, thing, quantity)
    BY <2>1 DEF Shortened, Alike
  <2>3. ASSUME NEW k \in 1..Len(gs), k # j, gs[k].draft = d PROVE Places(gs[k].left, thing) = {}
    BY <2>1, <2>3 DEF Shortened, Alike
  <2> QED
    BY <2>1, <2>2, <2>3 DEF Coming, Shortened
<1> QED
  BY <1>1, <1>2 DEF WaitsAlike

\* What is known of an addition, and the rest of it.
LEMMA KnownInside ==
  ASSUME NEW left \in Seq(RowRecord)
  PROVE  Known(left) \in 0..Len(left)
<1> DEFINE T == {n \in 0..Len(left) : \A i \in 1..n : left[i].of \in OwnPositions}
<1>1. Len(left) \in Nat /\ T \in SUBSET (0..Len(left)) /\ 0 \in T
  OBVIOUS
<1>2. Max(T) \in T
  <2> HIDE DEF T
  <2> QED
    BY <1>1, GreatestOf
<1> QED
  BY <1>2 DEF Known

LEMMA ReadyJoins ==
  ASSUME NEW left \in Seq(RowRecord), left # <<>>, NEW n \in 0..Len(Tail(left))
  PROVE  LET ready == <<Head(left)>> \o SubSeq(Tail(left), 1, n)
             rest == SubSeq(Tail(left), n + 1, Len(Tail(left)))
         IN ready \in Seq(RowRecord) /\ rest \in Seq(RowRecord) /\ Joins(left, ready, rest)
            /\ Len(rest) = Len(Tail(left)) - n
<1> DEFINE tail == Tail(left)
           one == <<Head(left)>>
           first == SubSeq(tail, 1, n)
           rest == SubSeq(tail, n + 1, Len(tail))
           ready == one \o first
<1>1. /\ tail \in Seq(RowRecord) /\ Len(left) \in Nat /\ Len(left) = Len(tail) + 1 /\ Head(left) \in RowRecord
      /\ Len(tail) \in Nat /\ n \in 0..Len(tail) /\ left[1] = Head(left)
      /\ \A i \in 1..Len(tail) : tail[i] = left[i + 1]
  OBVIOUS
<1>2. one \in Seq(RowRecord) /\ Len(one) = 1 /\ one[1] = left[1]
  BY <1>1
<1> HIDE DEF tail, one
<1>3. /\ first \in Seq(RowRecord) /\ rest \in Seq(RowRecord) /\ Len(first) = n /\ Len(rest) = Len(tail) - n
      /\ Joins(tail, first, rest)
  BY <1>1, ListSplit
<1> HIDE DEF first, rest
<1>4. ready \in Seq(RowRecord) /\ Joins(ready, one, first)
  BY <1>2, <1>3, ListsJoin
<1> HIDE DEF ready
<1>5. /\ Len(ready) = 1 + n /\ ready[1] = left[1] /\ \A i \in 1..n : ready[1 + i] = left[i + 1]
      /\ \A i \in 1..Len(rest) : rest[i] = left[n + i + 1]
  <2>1. Len(ready) = 1 + n /\ ready[1] = left[1]
    BY <1>2, <1>3, <1>4 DEF Joins
  <2>2. \A i \in 1..n : ready[1 + i] = left[i + 1]
    <3> TAKE i \in 1..n
    <3>1. ready[1 + i] = first[i] /\ first[i] = tail[i] /\ i \in 1..Len(tail)
      BY <1>1, <1>2, <1>3, <1>4 DEF Joins
    <3> QED
      BY <1>1, <3>1
  <2>3. \A i \in 1..Len(rest) : rest[i] = left[n + i + 1]
    <3> TAKE i \in 1..Len(rest)
    <3>1. rest[i] = tail[n + i] /\ n + i \in 1..Len(tail)
      BY <1>1, <1>3 DEF Joins
    <3> QED
      BY <1>1, <3>1
  <2> QED
    BY <2>1, <2>2, <2>3
<1>6. \A i \in 1..Len(ready) : left[i] = ready[i]
  <2> TAKE i \in 1..Len(ready)
  <2>1. i = 1 \/ (i - 1 \in 1..n /\ 1 + (i - 1) = i /\ (i - 1) + 1 = i)
    BY <1>1, <1>5
  <2> QED
    BY <1>5, <2>1
<1>7. \A i \in 1..Len(rest) : left[Len(ready) + i] = rest[i]
  <2> TAKE i \in 1..Len(rest)
  <2>1. Len(ready) + i = n + i + 1
    BY <1>1, <1>3, <1>5
  <2> QED
    BY <1>5, <2>1
<1>8. Joins(left, ready, rest)
  BY <1>1, <1>3, <1>5, <1>6, <1>7 DEF Joins
<1> QED
  BY <1>3, <1>4, <1>8 DEF ready, rest, first, one, tail

-----------------------------------------------------------------------------
(* What a stepper changes.                                                 *)

SteppersType == [{"gsn", "own"} -> Drafts \cup {NoDraft}]

LEMMA TargetIsOpen ==
  ASSUME NEW aimed, NEW open
  PROVE  TargetOf(aimed, open) \in open \cup {NoDraft}
<1>1. CASE aimed \in open
  BY <1>1 DEF TargetOf
<1>2. CASE aimed \notin open /\ Cardinality(open) = 1
  <2>1. open # {}
    BY <1>2, FS_EmptySet
  <2> QED
    BY <1>2, <2>1 DEF TargetOf
<1>3. CASE aimed \notin open /\ Cardinality(open) # 1
  BY <1>3 DEF TargetOf
<1> QED
  BY <1>1, <1>2, <1>3

LEMMA RedrawnTyped ==
  ASSUME steppers \in SteppersType
  PROVE  Redrawn \in SteppersType
<1>1. Target \in Drafts \cup {NoDraft}
  <2>1. Target \in OpenDrafts \cup {NoDraft}
    BY TargetIsOpen DEF Target
  <2> QED
    BY <2>1 DEF OpenDrafts
<1> QED
  BY <1>1 DEF Redrawn, SteppersType

\* What Change says of a list, a buffer or an estimate, from which nothing is fetched.
LEMMA ListChanged ==
  ASSUME NEW list \in Seq(RowRecord), NEW thing \in Things, NEW quantity \in Nat, NEW after,
         after = IF quantity = 0 THEN Removed(list, thing) ELSE Upserted(list, thing, quantity)
  PROVE  /\ after \in Seq(RowRecord)
         /\ (\A i, j \in Places(list, thing) : i = j) => Tells(after, thing, quantity)
         /\ \A t \in Things : t # thing => Alike(list, after, t)
<1>1. CASE quantity = 0
  BY <1>1, RemovedTells
<1>2. CASE quantity # 0
  <2>1. quantity \in Nat \ {0} /\ after = Upserted(list, thing, quantity)
    BY <1>2
  <2> QED
    BY <2>1, UpsertedTells
<1> QED
  BY <1>1, <1>2

LEMMA AlikeItself ==
  ASSUME NEW list, NEW fs, NEW d, NEW thing
  PROVE  Alike(list, list, thing) /\ WaitsAlike(fs, fs, d, thing)
BY DEF Alike, WaitsAlike

LEMMA NowChanged ==
  ASSUME BufferTyped, NEW place \in Drafts, NEW thing \in Things, NEW quantity \in Nat,
         ChangeNow(place, thing, quantity)
  PROVE  /\ buffer' = buffer /\ fetches' = fetches /\ lines' \in [Drafts -> Seq(RowRecord)] /\ steppers' \in SteppersType
         /\ \A d \in Drafts, t \in Things : <<d, t>> # <<place, thing>> => Alike(lines[d], lines'[d], t)
         /\ (\A i, j \in Places(lines[place], thing) : i = j) => Tells(lines'[place], thing, quantity)
<1> DEFINE after == IF quantity = 0 THEN Removed(lines[place], thing) ELSE Upserted(lines[place], thing, quantity)
<1>1. lines \in [Drafts -> Seq(RowRecord)] /\ lines[place] \in Seq(RowRecord) /\ steppers \in SteppersType
  BY DEF BufferTyped, SteppersType
<1>2. /\ after \in Seq(RowRecord)
      /\ (\A i, j \in Places(lines[place], thing) : i = j) => Tells(after, thing, quantity)
      /\ \A t \in Things : t # thing => Alike(lines[place], after, t)
  BY <1>1, ListChanged
<1>3. buffer' = buffer /\ fetches' = fetches /\ lines' = [lines EXCEPT ![place] = after]
  BY DEF ChangeNow
<1>4. steppers' \in SteppersType
  BY <1>1, RedrawnTyped DEF ChangeNow
<1> HIDE DEF after
<1>5. /\ lines' \in [Drafts -> Seq(RowRecord)] /\ lines'[place] = after
      /\ \A d \in Drafts : d # place => lines'[d] = lines[d]
  BY <1>1, <1>2, <1>3
<1>6. \A d \in Drafts, t \in Things : <<d, t>> # <<place, thing>> => Alike(lines[d], lines'[d], t)
  <2> SUFFICES ASSUME NEW d \in Drafts, NEW t \in Things, <<d, t>> # <<place, thing>>
               PROVE  Alike(lines[d], lines'[d], t)
    OBVIOUS
  <2>1. CASE d # place
    BY <1>5, <2>1, AlikeItself
  <2>2. CASE d = place /\ t # thing
    BY <1>2, <1>5, <2>2
  <2> QED
    BY <2>1, <2>2
<1> QED
  BY <1>2, <1>3, <1>4, <1>5, <1>6

\* Nothing but the thing is changed, and it is there as often as the stepper tells or will be.
LEMMA EstimateChanged ==
  ASSUME BufferTyped, NEW place \in Drafts, editor[place] = "open", NEW thing \in Things, NEW quantity \in Nat,
         ChangeEstimate(place, thing, quantity)
  PROVE  /\ buffer' = buffer /\ lines' \in [Drafts -> Seq(RowRecord)] /\ steppers' \in SteppersType
         /\ fetches' \in Seq(FetchRecord)
         /\ \A i \in 1..Len(fetches') :
              /\ editor[fetches'[i].draft] # "new"
              /\ fetches'[i].pastes => i \in 1..Len(fetches) /\ fetches'[i] = fetches[i]
         /\ \A d \in Drafts, t \in Things : <<d, t>> # <<place, thing>> =>
              Alike(lines[d], lines'[d], t) /\ WaitsAlike(fetches, fetches', d, t)
         /\ (\A i, j \in Places(lines[place], thing) : i = j) /\ ~Awaited(place, thing) =>
              Told(lines'[place], fetches', place, thing, quantity)
<1>0. /\ fetches \in Seq(FetchRecord) /\ \A i \in 1..Len(fetches) : editor[fetches[i].draft] # "new"
      /\ lines \in [Drafts -> Seq(RowRecord)] /\ steppers \in SteppersType
  BY DEF BufferTyped, SteppersType
<1>1. ~Awaited(place, thing) => Unawaited(fetches, place, thing)
  <2> SUFFICES ASSUME ~Awaited(place, thing), NEW i \in 1..Len(fetches), fetches[i].draft = place
               PROVE  Places(fetches[i].left, thing) = {}
    BY DEF Unawaited
  <2>1. fetches[i] \in FetchRecord /\ DOMAIN fetches = 1..Len(fetches)
    BY <1>0
  <2>2. fetches[i].left \in Seq(RowRecord)
    BY <2>1 DEF FetchRecord
  <2>3. DOMAIN fetches[i].left = 1..Len(fetches[i].left)
    BY <2>2
  <2> QED
    BY <2>1, <2>3 DEF Awaited, Places
<1>2. CASE thing \in Norms /\ quantity > 0 /\ Places(lines[place], thing) = {}
  <2> DEFINE row == Row(thing, quantity)
             f == Fetch(place, <<row>>, FALSE)
  <2>1. /\ fetches' = Append(fetches, f) /\ buffer' = buffer /\ lines' = lines /\ steppers' = steppers
    BY <1>2 DEF ChangeEstimate
  <2>2. row \in RowRecord /\ row.of = thing /\ row.quantity = quantity
    BY DEF Row, RowRecord
  <2> HIDE DEF row
  <2>3. f \in FetchRecord /\ f.draft = place /\ f.left = <<row>> /\ f.pastes = FALSE
    <3>1. <<row>> \in Seq(RowRecord) \ {<<>>}
      BY <2>2
    <3> QED
      BY <3>1 DEF Fetch, FetchRecord
  <2> HIDE DEF f
  <2>4. /\ Len(fetches) \in Nat /\ fetches' \in Seq(FetchRecord) /\ Len(fetches') = Len(fetches) + 1
        /\ fetches'[Len(fetches')] = f
        /\ \A i \in 1..Len(fetches) : fetches'[i] = fetches[i]
        /\ \A i \in 1..Len(fetches') : i \in 1..Len(fetches) \/ i = Len(fetches')
    BY <1>0, <2>1, <2>3
  <2>5. \A i \in 1..Len(fetches') :
          /\ editor[fetches'[i].draft] # "new"
          /\ fetches'[i].pastes => i \in 1..Len(fetches) /\ fetches'[i] = fetches[i]
    <3> TAKE i \in 1..Len(fetches')
    <3>1. CASE i \in 1..Len(fetches)
      BY <1>0, <2>4, <3>1
    <3>2. CASE i = Len(fetches')
      BY <2>3, <2>4, <3>2
    <3> QED
      BY <2>4, <3>1, <3>2
  <2>6. \A t : Places(<<row>>, t) = IF t = thing THEN {1} ELSE {}
    BY <2>2 DEF Places
  <2>7. \A d \in Drafts, t \in Things : <<d, t>> # <<place, thing>> =>
          Alike(lines[d], lines'[d], t) /\ WaitsAlike(fetches, fetches', d, t)
    <3> SUFFICES ASSUME NEW d \in Drafts, NEW t \in Things, <<d, t>> # <<place, thing>>
                 PROVE  Alike(lines[d], lines'[d], t) /\ WaitsAlike(fetches, fetches', d, t)
      OBVIOUS
    <3>1. f.draft # d \/ Places(f.left, t) = {}
      BY <2>3, <2>6
    <3> QED
      BY <1>0, <2>1, <2>3, <3>1, WaitAdded, AlikeItself
  <2>8. ASSUME Unawaited(fetches, place, thing) PROVE Told(lines'[place], fetches', place, thing, quantity)
    <3>1. Tells(<<row>>, thing, quantity) /\ quantity # 0
      BY <1>2, <2>2, <2>6 DEF Tells
    <3>2. \A j \in 1..Len(fetches') : j # Len(fetches') /\ fetches'[j].draft = place => Places(fetches'[j].left, thing) = {}
      BY <2>4, <2>8 DEF Unawaited
    <3>3. Coming(fetches', place, thing, quantity)
      <4> DEFINE n == Len(fetches')
      <4>1. n \in 1..n
        BY <2>4
      <4>2. fetches'[n].draft = place /\ Tells(fetches'[n].left, thing, quantity)
        BY <2>3, <2>4, <3>1
      <4> QED
        BY <3>1, <3>2, <4>1, <4>2 DEF Coming
    <3> QED
      BY <1>2, <2>1, <3>3 DEF Told
  <2> QED
    BY <1>0, <1>1, <2>1, <2>4, <2>5, <2>7, <2>8
<1>3. CASE ~(thing \in Norms /\ quantity > 0 /\ Places(lines[place], thing) = {})
  <2>1. ChangeNow(place, thing, quantity)
    BY <1>3 DEF ChangeEstimate
  <2>2. /\ buffer' = buffer /\ fetches' = fetches /\ lines' \in [Drafts -> Seq(RowRecord)] /\ steppers' \in SteppersType
        /\ \A d \in Drafts, t \in Things : <<d, t>> # <<place, thing>> => Alike(lines[d], lines'[d], t)
        /\ (\A i, j \in Places(lines[place], thing) : i = j) => Tells(lines'[place], thing, quantity)
    BY <2>1, NowChanged
  <2> QED
    BY <1>0, <1>1, <2>2, AlikeItself DEF Told
<1> QED
  BY <1>2, <1>3

LEMMA PlaceChanged ==
  ASSUME BufferTyped, NEW place \in Drafts \cup {"buffer", NoDraft}, place \in Drafts => editor[place] = "open",
         NEW thing \in Things, NEW quantity \in Nat, Change(place, thing, quantity)
  PROVE  /\ buffer' \in Seq(RowRecord) /\ lines' \in [Drafts -> Seq(RowRecord)] /\ steppers' \in SteppersType
         /\ fetches' \in Seq(FetchRecord)
         /\ \A i \in 1..Len(fetches') :
              /\ editor[fetches'[i].draft] # "new"
              /\ fetches'[i].pastes => i \in 1..Len(fetches) /\ fetches'[i] = fetches[i]
         /\ \A d \in Drafts, t \in Things : <<d, t>> # <<place, thing>> =>
              Alike(lines[d], lines'[d], t) /\ WaitsAlike(fetches, fetches', d, t)
         /\ \A t \in Things : <<"buffer", t>> # <<place, thing>> => Alike(buffer, buffer', t)
         /\ IF place = "buffer"
            THEN /\ buffer' = IF quantity = 0 THEN Removed(buffer, thing) ELSE Upserted(buffer, thing, quantity)
                 /\ (\A i, j \in Places(buffer, thing) : i = j) => Tells(buffer', thing, quantity)
            ELSE buffer' = buffer
         /\ place \in Drafts /\ (\A i, j \in Places(lines[place], thing) : i = j) /\ ~Awaited(place, thing) =>
              Told(lines'[place], fetches', place, thing, quantity)
<1>0. /\ fetches \in Seq(FetchRecord) /\ \A i \in 1..Len(fetches) : editor[fetches[i].draft] # "new"
      /\ lines \in [Drafts -> Seq(RowRecord)] /\ steppers \in SteppersType /\ buffer \in Seq(RowRecord)
  BY DEF BufferTyped, SteppersType
<1>1. "buffer" \notin Drafts /\ NoDraft \notin Drafts /\ NoDraft # "buffer"
  BY DraftsAssumption DEF NoDraft
<1>2. CASE place = "buffer"
  <2>1. ChangeBuffer(thing, quantity)
    BY <1>1, <1>2 DEF Change
  <2>2. /\ buffer' = IF quantity = 0 THEN Removed(buffer, thing) ELSE Upserted(buffer, thing, quantity)
        /\ lines' = lines /\ fetches' = fetches
    BY <2>1 DEF ChangeBuffer
  <2>3. steppers' \in SteppersType
    BY <1>0, <2>1, RedrawnTyped DEF ChangeBuffer
  <2>4. /\ buffer' \in Seq(RowRecord)
        /\ (\A i, j \in Places(buffer, thing) : i = j) => Tells(buffer', thing, quantity)
        /\ \A t \in Things : t # thing => Alike(buffer, buffer', t)
    BY <1>0, <2>2, ListChanged
  <2>5. \A t \in Things : <<"buffer", t>> # <<place, thing>> => Alike(buffer, buffer', t)
    BY <1>2, <2>4
  <2> QED
    BY <1>0, <1>1, <1>2, <2>2, <2>3, <2>4, <2>5, AlikeItself
<1>3. CASE place \in Drafts
  <2>1. ChangeEstimate(place, thing, quantity)
    BY <1>1, <1>3 DEF Change
  <2>2. place # "buffer" /\ editor[place] = "open"
    BY <1>1, <1>3
  <2> QED
    BY <1>3, <2>1, <2>2, <1>0, EstimateChanged, AlikeItself
<1>4. CASE place = NoDraft
  <2>1. UNCHANGED <<buffer, lines, fetches, steppers>>
    BY <1>1, <1>4 DEF Change
  <2> QED
    BY <1>0, <1>1, <1>4, <2>1, AlikeItself
<1> QED
  BY <1>2, <1>3, <1>4

-----------------------------------------------------------------------------
(* The steppers: one lemma for every step.                                 *)

\* What a stepper of an estimate, and one of the buffer, is about.
DraftInStep(d, thing) ==
  <<d, thing>> \notin adrift /\ editor[d] # "closed" => Told(lines[d], fetches, d, thing, quantities[<<d, thing>>])
BufferInStep(thing) ==
  <<"buffer", thing>> \notin adrift =>
    Tells(buffer, thing, quantities[<<"buffer", thing>>]) /\ (Pasting => Places(buffer, thing) = {})

LEMMA InvInSteps ==
  SteppersInv <=> /\ BufferTyped
                  /\ \A d \in Drafts : \A thing \in Things : DraftInStep(d, thing)
                  /\ \A thing \in Things : BufferInStep(thing)
BY DEF SteppersInv, DraftInStep, BufferInStep

\* Nothing but the drawing, and what is read with it, changes.
LEMMA Undisturbed ==
  ASSUME SteppersInv,
         steppers' \in SteppersType, editor' \in [Drafts -> {"new", "open", "closed"}],
         \A d \in Drafts : /\ editor'[d] # "closed" => editor[d] # "closed"
                           /\ editor'[d] = "new" => editor[d] = "new",
         UNCHANGED <<buffer, lines, quantities, fetches, adrift>>
  PROVE  SteppersInv'
<1>1. BufferTyped /\ BufferTyped'
  <2>1. BufferTyped
    BY DEF SteppersInv
  <2>2. \A i \in 1..Len(fetches) : fetches[i].draft \in Drafts
    <3> TAKE i \in 1..Len(fetches)
    <3>1. fetches[i] \in FetchRecord
      BY <2>1 DEF BufferTyped
    <3> QED
      BY <3>1 DEF FetchRecord
  <2> QED
    BY <2>1, <2>2 DEF BufferTyped, SteppersType
<1>2. Pasting' = Pasting
  BY DEF Pasting
<1>3. \A d \in Drafts : \A thing \in Things : DraftInStep(d, thing)'
  BY InvInSteps DEF DraftInStep
<1>4. \A thing \in Things : BufferInStep(thing)'
  BY <1>2, InvInSteps DEF BufferInStep
<1> QED
  BY <1>1, <1>3, <1>4 DEF SteppersInv, DraftInStep, BufferInStep

LEMMA TouchSteps ==
  ASSUME SteppersInv, NEW thing \in Things, NEW onBuffer \in BOOLEAN, NEW quantity \in Nat,
         Touch(thing, onBuffer, quantity)
  PROVE  SteppersInv'
<1> DEFINE key == <<IF onBuffer THEN "buffer" ELSE steppers[shown], thing>>
           place == IF onBuffer THEN "buffer" ELSE Target
           together == place = key[1] /\ (\A i, j \in Places(ListOf(place), thing) : i = j)
                       /\ ~Awaited(place, thing) /\ ~(onBuffer /\ Pasting)
<1>1. BufferTyped /\ "buffer" \notin Drafts
  BY DraftsAssumption DEF SteppersInv
<1>2. /\ key \in Keys /\ quantities' = [quantities EXCEPT ![key] = quantity]
      /\ Change(place, thing, quantity)
      /\ adrift' = IF together THEN adrift \ {key} ELSE adrift \cup {key, <<place, thing>>}
      /\ editor' = editor
  BY DEF Touch
<1>3. place \in Drafts \cup {"buffer", NoDraft} /\ (place \in Drafts => editor[place] = "open")
  <2>1. Target \in OpenDrafts \cup {NoDraft}
    BY TargetIsOpen DEF Target
  <2> QED
    BY <1>1, <2>1, DraftsAssumption DEF OpenDrafts, NoDraft
<1>4. key[2] = thing /\ (key[1] = "buffer" /\ key[1] = place => onBuffer)
  <2>1. Target # "buffer"
    <3>1. Target \in OpenDrafts \cup {NoDraft}
      BY TargetIsOpen DEF Target
    <3> QED
      BY <1>1, <3>1 DEF OpenDrafts, NoDraft
  <2> QED
    BY <2>1
<1>5. onBuffer => place = "buffer"
  OBVIOUS
<1>6. together => place = key[1] /\ key = <<place, thing>> /\ ~Awaited(place, thing) /\ ~(onBuffer /\ Pasting)
                  /\ \A i, j \in Places(ListOf(place), thing) : i = j
  BY <1>4
<1> HIDE DEF key, place, together
<1>7. /\ buffer' \in Seq(RowRecord) /\ lines' \in [Drafts -> Seq(RowRecord)] /\ steppers' \in SteppersType
      /\ fetches' \in Seq(FetchRecord)
      /\ \A i \in 1..Len(fetches') :
           /\ editor[fetches'[i].draft] # "new"
           /\ fetches'[i].pastes => i \in 1..Len(fetches) /\ fetches'[i] = fetches[i]
  BY <1>1, <1>2, <1>3, PlaceChanged
<1>8. /\ \A d \in Drafts, t \in Things : <<d, t>> # <<place, thing>> =>
           Alike(lines[d], lines'[d], t) /\ WaitsAlike(fetches, fetches', d, t)
      /\ \A t \in Things : <<"buffer", t>> # <<place, thing>> => Alike(buffer, buffer', t)
      /\ place = "buffer" /\ (\A i, j \in Places(buffer, thing) : i = j) => Tells(buffer', thing, quantity)
      /\ place \in Drafts /\ (\A i, j \in Places(lines[place], thing) : i = j) /\ ~Awaited(place, thing) =>
           Told(lines'[place], fetches', place, thing, quantity)
  BY <1>1, <1>2, <1>3, PlaceChanged
<1>9. Pasting' => Pasting
  <2>1. DOMAIN fetches' = 1..Len(fetches') /\ DOMAIN fetches = 1..Len(fetches)
    BY <1>1, <1>7 DEF BufferTyped
  <2> QED
    BY <1>7, <2>1 DEF Pasting
<1>10. quantities \in [Keys -> Nat] /\ quantities' \in [Keys -> Nat] /\ quantities'[key] = quantity
       /\ \A other \in Keys : other # key => quantities'[other] = quantities[other]
  BY <1>1, <1>2 DEF BufferTyped
<1>11. BufferTyped'
  BY <1>1, <1>2, <1>7, <1>10 DEF BufferTyped, SteppersType
<1>12. ASSUME NEW d \in Drafts, NEW t \in Things PROVE DraftInStep(d, t)'
  <2> SUFFICES ASSUME <<d, t>> \notin adrift', editor[d] # "closed"
               PROVE  Told(lines'[d], fetches', d, t, quantities'[<<d, t>>])
    BY <1>2 DEF DraftInStep
  <2>0. <<d, t>> \in Keys
    BY DEF Keys
  <2>1. CASE <<d, t>> = key
    <3>1. together
      BY <1>2, <2>1
    <3>2. place = d /\ t = thing /\ ListOf(place) = lines[place]
      BY <1>1, <1>6, <2>1, <3>1 DEF ListOf
    <3> QED
      BY <1>6, <1>8, <1>10, <2>1, <3>1, <3>2
  <2>2. CASE <<d, t>> # key
    <3>1. <<d, t>> # <<place, thing>> /\ <<d, t>> \notin adrift
      BY <1>2, <1>6, <2>2
    <3>2. Told(lines[d], fetches, d, t, quantities[<<d, t>>])
      BY <3>1, InvInSteps DEF DraftInStep
    <3>3. Told(lines'[d], fetches', d, t, quantities[<<d, t>>])
      BY <1>8, <3>1, <3>2, ToldAlike
    <3> QED
      BY <1>10, <2>0, <2>2, <3>3
  <2> QED
    BY <2>1, <2>2
<1>13. ASSUME NEW t \in Things PROVE BufferInStep(t)'
  <2> SUFFICES ASSUME <<"buffer", t>> \notin adrift'
               PROVE  Tells(buffer', t, quantities'[<<"buffer", t>>]) /\ (Pasting' => Places(buffer', t) = {})
    BY DEF BufferInStep
  <2>0. <<"buffer", t>> \in Keys
    BY DEF Keys
  <2>1. CASE <<"buffer", t>> = key
    <3>1. together
      BY <1>2, <2>1
    <3>2. place = "buffer" /\ t = thing /\ ListOf(place) = buffer /\ onBuffer
      BY <1>4, <1>6, <2>1, <3>1 DEF ListOf
    <3> QED
      BY <1>6, <1>8, <1>9, <1>10, <2>1, <3>1, <3>2
  <2>2. CASE <<"buffer", t>> # key
    <3>1. <<"buffer", t>> # <<place, thing>> /\ <<"buffer", t>> \notin adrift
      BY <1>2, <1>6, <2>2
    <3>2. Tells(buffer, t, quantities[<<"buffer", t>>]) /\ (Pasting => Places(buffer, t) = {})
      BY <3>1, InvInSteps DEF BufferInStep
    <3>3. Tells(buffer', t, quantities[<<"buffer", t>>]) /\ (Pasting => Places(buffer', t) = {})
      BY <1>8, <3>1, <3>2 DEF Alike
    <3> QED
      BY <1>9, <1>10, <2>0, <2>2, <3>3
  <2> QED
    BY <2>1, <2>2
<1> QED
  BY <1>11, <1>12, <1>13 DEF SteppersInv, DraftInStep, BufferInStep

\* A record has come: the first of what is left is added, the rest waits on or is nothing.
Taken(i, ready, rest) ==
  /\ ready \in Seq(RowRecord) /\ rest \in Seq(RowRecord) /\ Joins(fetches[i].left, ready, rest)
  /\ lines' \in [Drafts -> Seq(RowRecord)]
  /\ \A d \in Drafts : IF d = fetches[i].draft /\ editor[d] = "open" THEN Joins(lines'[d], lines[d], ready)
                       ELSE lines'[d] = lines[d]
  /\ \/ rest = <<>> /\ fetches' = RemoveAt(fetches, i)
     \/ /\ rest # <<>> /\ Shortened(fetches, fetches', i)
        /\ fetches'[i].left = rest /\ fetches'[i].pastes = fetches[i].pastes
  /\ buffer' = buffer \/ (buffer' = <<>> /\ fetches[i].pastes /\ rest = <<>>)

LEMMA FetchedTakes ==
  ASSUME BufferTyped, NEW i \in 1..Len(fetches), Fetched(i)
  PROVE  BufferTyped' /\ \E ready, rest : Taken(i, ready, rest)
<1> DEFINE fetch == fetches[i]
           tail == Tail(fetch.left)
           known == Known(tail)
           ready == <<Head(fetch.left)>> \o SubSeq(tail, 1, known)
           rest == SubSeq(tail, known + 1, Len(tail))
           to == Recipient(fetch)
<1>0. /\ fetches \in Seq(FetchRecord) /\ \A j \in 1..Len(fetches) : editor[fetches[j].draft] # "new"
      /\ lines \in [Drafts -> Seq(RowRecord)] /\ steppers \in SteppersType /\ buffer \in Seq(RowRecord)
      /\ editor \in [Drafts -> {"new", "open", "closed"}] /\ quantities \in [Keys -> Nat]
  BY DEF BufferTyped, SteppersType
<1>1. /\ fetch \in FetchRecord /\ fetch.draft \in Drafts /\ fetch.left \in Seq(RowRecord) /\ fetch.left # <<>>
      /\ fetch.pastes \in BOOLEAN
  <2>1. fetch \in FetchRecord
    BY <1>0
  <2> HIDE DEF fetch
  <2> QED
    BY <2>1 DEF FetchRecord
<1>2. tail \in Seq(RowRecord) /\ Len(tail) \in Nat
  <2> HIDE DEF fetch
  <2> QED
    BY <1>1
<1>3. known \in 0..Len(tail)
  <2> HIDE DEF tail
  <2> QED
    BY <1>2, KnownInside
<1>4. ready \in Seq(RowRecord) /\ rest \in Seq(RowRecord) /\ Joins(fetch.left, ready, rest) /\ Len(rest) = Len(tail) - known
  <2> HIDE DEF fetch, known
  <2> QED
    BY <1>1, <1>3, ReadyJoins
<1>5. /\ lines' = IF to = NoDraft THEN lines ELSE [lines EXCEPT ![to] = @ \o ready]
      /\ fetches' = IF known = Len(tail) THEN RemoveAt(fetches, i) ELSE [fetches EXCEPT ![i].left = rest]
      /\ buffer' = IF fetch.pastes THEN (IF known = Len(tail) THEN <<>> ELSE buffer) ELSE buffer
      /\ editor' = editor /\ quantities' = quantities
  BY DEF Fetched, Emptied
<1>6. steppers' \in SteppersType
  BY <1>0, RedrawnTyped DEF Fetched
<1>7. to = IF editor[fetch.draft] = "open" THEN fetch.draft ELSE NoDraft
  <2> HIDE DEF fetch
  <2> QED
    BY <1>1 DEF Recipient, OpenDrafts
<1> HIDE DEF tail, known, ready, rest, to
<1>8. NoDraft \notin Drafts
  BY DraftsAssumption DEF NoDraft
<1>9. known = Len(tail) <=> rest = <<>>
  BY <1>2, <1>3, <1>4
<1>10. lines' \in [Drafts -> Seq(RowRecord)] /\ \A d \in Drafts :
         IF d = fetch.draft /\ editor[d] = "open" THEN Joins(lines'[d], lines[d], ready) ELSE lines'[d] = lines[d]
  <2> HIDE DEF fetch
  <2>1. CASE editor[fetch.draft] = "open"
    <3>1. lines' = [lines EXCEPT ![fetch.draft] = lines[fetch.draft] \o ready]
      BY <1>1, <1>5, <1>7, <1>8, <2>1
    <3>2. lines[fetch.draft] \in Seq(RowRecord)
      BY <1>0, <1>1
    <3>3. lines[fetch.draft] \o ready \in Seq(RowRecord) /\ Joins(lines[fetch.draft] \o ready, lines[fetch.draft], ready)
      BY <1>4, <3>2, ListsJoin
    <3> QED
      BY <1>0, <1>1, <2>1, <3>1, <3>3
  <2>2. CASE editor[fetch.draft] # "open"
    BY <1>0, <1>5, <1>7, <2>2
  <2> QED
    BY <2>1, <2>2
<1>11. /\ fetches' \in Seq(FetchRecord) /\ \A k \in 1..Len(fetches') : editor[fetches'[k].draft] # "new"
       /\ \/ rest = <<>> /\ fetches' = RemoveAt(fetches, i)
          \/ /\ rest # <<>> /\ Shortened(fetches, fetches', i)
             /\ fetches'[i].left = rest /\ fetches'[i].pastes = fetch.pastes
  <2>1. CASE rest = <<>>
    <3>1. fetches' = RemoveAt(fetches, i)
      BY <1>5, <1>9, <2>1
    <3>2. /\ fetches' \in Seq(FetchRecord)
          /\ \A k \in 1..Len(fetches') : \E j \in 1..Len(fetches) : j # i /\ fetches'[k] = fetches[j]
      BY <1>0, <3>1, WaitGone
    <3> QED
      BY <1>0, <2>1, <3>1, <3>2
  <2>2. CASE rest # <<>>
    <3> DEFINE shorter == [fetch EXCEPT !.left = rest]
    <3>1. fetches' = [fetches EXCEPT ![i] = shorter]
      BY <1>5, <1>9, <2>2
    <3>2. shorter \in FetchRecord /\ shorter.draft = fetch.draft /\ shorter.left = rest /\ shorter.pastes = fetch.pastes
      <4> HIDE DEF fetch
      <4> QED
        BY <1>1, <1>4, <2>2 DEF FetchRecord
    <3> HIDE DEF shorter
    <3>3. /\ fetches' \in Seq(FetchRecord) /\ Len(fetches') = Len(fetches) /\ fetches'[i] = shorter
          /\ \A j \in 1..Len(fetches) : j # i => fetches'[j] = fetches[j]
      BY <1>0, <3>1, <3>2
    <3>4. Shortened(fetches, fetches', i)
      BY <3>2, <3>3 DEF Shortened
    <3>5. \A k \in 1..Len(fetches') : editor[fetches'[k].draft] # "new"
      BY <1>0, <3>2, <3>3
    <3> QED
      BY <2>2, <3>2, <3>3, <3>4, <3>5
  <2> QED
    BY <2>1, <2>2
<1>12. buffer' \in Seq(RowRecord) /\ (buffer' = buffer \/ (buffer' = <<>> /\ fetch.pastes /\ rest = <<>>))
  BY <1>0, <1>5, <1>9
<1>13. Taken(i, ready, rest)
  BY <1>4, <1>10, <1>11, <1>12 DEF Taken
<1>14. BufferTyped'
  BY <1>0, <1>5, <1>6, <1>10, <1>11, <1>12 DEF BufferTyped, SteppersType
<1> QED
  BY <1>13, <1>14

LEMMA FetchedSteps ==
  ASSUME SteppersInv, NEW i \in 1..Len(fetches), Fetched(i)
  PROVE  SteppersInv'
<1>1. BufferTyped /\ BufferTyped'
  BY FetchedTakes DEF SteppersInv
<1>2. PICK ready, rest : Taken(i, ready, rest)
  BY <1>1, FetchedTakes
<1>3. UNCHANGED <<editor, quantities, adrift>>
  BY DEF Fetched
<1> DEFINE left == fetches[i].left
<1>4. /\ fetches \in Seq(FetchRecord) /\ fetches' \in Seq(FetchRecord) /\ left \in Seq(RowRecord)
      /\ lines \in [Drafts -> Seq(RowRecord)] /\ lines' \in [Drafts -> Seq(RowRecord)]
      /\ ready \in Seq(RowRecord) /\ rest \in Seq(RowRecord) /\ Joins(left, ready, rest)
      /\ fetches[i].draft \in Drafts /\ editor[fetches[i].draft] # "new"
      /\ editor \in [Drafts -> {"new", "open", "closed"}]
  <2>1. fetches[i] \in FetchRecord
    BY <1>1 DEF BufferTyped
  <2> QED
    BY <1>1, <1>2, <2>1 DEF BufferTyped, FetchRecord, Taken
<1>5. \A thing, quantity :
        /\ Places(left, thing) = {} <=> Places(ready, thing) = {} /\ Places(rest, thing) = {}
        /\ Tells(left, thing, quantity) =>
             \/ Tells(ready, thing, quantity) /\ Places(rest, thing) = {}
             \/ Tells(rest, thing, quantity) /\ Places(ready, thing) = {}
  BY <1>4, JoinedTells
<1> HIDE DEF left
<1>6. \/ rest = <<>> /\ fetches' = RemoveAt(fetches, i)
      \/ rest # <<>> /\ Shortened(fetches, fetches', i) /\ fetches'[i].left = rest
  BY <1>2 DEF Taken
<1>7. \A d, thing : fetches[i].draft # d \/ Places(left, thing) = {} => WaitsAlike(fetches, fetches', d, thing)
  <2> SUFFICES ASSUME NEW d, NEW thing, fetches[i].draft # d \/ Places(left, thing) = {}
               PROVE  WaitsAlike(fetches, fetches', d, thing)
    OBVIOUS
  <2>1. CASE rest = <<>>
    BY <1>4, <1>6, <2>1, WaitGone DEF left
  <2>2. CASE rest # <<>>
    <3>1. Places(left, thing) = {} => Alike(left, rest, thing)
      <4> SUFFICES ASSUME Places(left, thing) = {} PROVE Alike(left, rest, thing)
        OBVIOUS
      <4>1. Places(rest, thing) = {}
        BY <1>5
      <4>2. \A row : row.of = thing => ~Has(left, row) /\ ~Has(rest, row)
        BY <4>1 DEF Has, Places
      <4>3. \A quantity : Tells(left, thing, quantity) => Tells(rest, thing, quantity)
        BY <4>1 DEF Tells
      <4> QED
        BY <4>1, <4>2, <4>3 DEF Alike
    <3> QED
      BY <1>6, <2>2, <3>1, WaitShorter DEF left
  <2> QED
    BY <2>1, <2>2
<1>8. rest = <<>> => \A k \in 1..Len(fetches') : \E l \in 1..Len(fetches) : l # i /\ fetches'[k] = fetches[l]
  <2> SUFFICES ASSUME rest = <<>>
               PROVE  \A k \in 1..Len(fetches') : \E l \in 1..Len(fetches) : l # i /\ fetches'[k] = fetches[l]
    OBVIOUS
  <2>1. fetches' = RemoveAt(fetches, i)
    BY <1>6
  <2>2. \A k \in 1..Len(RemoveAt(fetches, i)) :
          \E l \in 1..Len(fetches) : l # i /\ RemoveAt(fetches, i)[k] = fetches[l]
    BY <1>4, WaitGone
  <2> QED
    BY <2>1, <2>2
<1>9. ASSUME NEW d \in Drafts, NEW thing \in Things PROVE DraftInStep(d, thing)'
  <2> DEFINE q == quantities[<<d, thing>>]
  <2> SUFFICES ASSUME <<d, thing>> \notin adrift, editor[d] # "closed"
               PROVE  Told(lines'[d], fetches', d, thing, q)
    BY <1>3 DEF DraftInStep
  <2>1. Told(lines[d], fetches, d, thing, q)
    BY InvInSteps DEF DraftInStep
  <2> HIDE DEF q
  <2>2. CASE d # fetches[i].draft
    <3>1. lines'[d] = lines[d]
      BY <1>2, <2>2 DEF Taken
    <3> QED
      BY <1>7, <2>1, <2>2, <3>1, AlikeItself, ToldAlike
  <2>3. CASE d = fetches[i].draft
    <3>1. editor[d] = "open" /\ Joins(lines'[d], lines[d], ready) /\ lines[d] \in Seq(RowRecord) /\ lines'[d] \in Seq(RowRecord)
      BY <1>2, <1>4, <2>3 DEF Taken
    <3>2. CASE Places(left, thing) = {}
      <4>1. Alike(lines[d], lines'[d], thing)
        BY <1>4, <1>5, <3>1, <3>2, JoinedAlike
      <4> QED
        BY <1>7, <2>1, <3>2, <4>1, ToldAlike
    <3>3. CASE Places(left, thing) # {}
      <4>1. Places(lines[d], thing) = {} /\ Coming(fetches, d, thing, q)
        BY <2>1, <2>3, <3>3 DEF Told, Unawaited, left
      <4>2. PICK j \in 1..Len(fetches) :
              /\ fetches[j].draft = d /\ q # 0 /\ Tells(fetches[j].left, thing, q)
              /\ \A k \in 1..Len(fetches) : k # j /\ fetches[k].draft = d => Places(fetches[k].left, thing) = {}
        BY <4>1 DEF Coming
      <4>3. j = i /\ Tells(left, thing, q) /\ q # 0
        BY <2>3, <3>3, <4>2 DEF left
      <4>4. CASE Tells(ready, thing, q) /\ Places(rest, thing) = {}
        <5>1. Tells(lines'[d], thing, q)
          BY <1>4, <3>1, <4>1, <4>4, JoinedTells
        <5>2. Unawaited(fetches', d, thing)
          <6>1. CASE rest = <<>>
            BY <4>2, <4>3, <6>1, <1>8 DEF Unawaited
          <6>2. CASE rest # <<>>
            BY <1>6, <4>2, <4>3, <4>4, <6>2 DEF Unawaited, Shortened
          <6> QED
            BY <6>1, <6>2
        <5> QED
          BY <5>1, <5>2 DEF Told
      <4>5. CASE Tells(rest, thing, q) /\ Places(ready, thing) = {}
        <5>1. Places(lines'[d], thing) = {}
          BY <1>4, <3>1, <4>1, <4>5, JoinedTells
        <5>2. rest # <<>>
          BY <4>3, <4>5 DEF Tells
        <5>3. /\ Len(fetches') = Len(fetches) /\ fetches'[i].draft = d /\ Tells(fetches'[i].left, thing, q)
              /\ \A k \in 1..Len(fetches) : k # i => fetches'[k] = fetches[k]
          BY <1>6, <2>3, <4>5, <5>2 DEF Shortened
        <5>4. \A k \in 1..Len(fetches') : k # i /\ fetches'[k].draft = d => Places(fetches'[k].left, thing) = {}
          BY <4>2, <4>3, <5>3
        <5>5. Coming(fetches', d, thing, q)
          BY <4>3, <5>3, <5>4 DEF Coming
        <5> QED
          BY <5>1, <5>5 DEF Told
      <4> QED
        BY <1>5, <4>3, <4>4, <4>5
    <3> QED
      BY <3>2, <3>3
  <2> QED
    BY <2>2, <2>3
<1>10. Pasting' => Pasting
  <2>0. DOMAIN fetches' = 1..Len(fetches') /\ DOMAIN fetches = 1..Len(fetches)
    BY <1>4
  <2>1. CASE rest = <<>>
    BY <1>8, <2>0, <2>1 DEF Pasting
  <2>2. CASE rest # <<>>
    <3>1. Len(fetches') = Len(fetches) /\ \A k \in 1..Len(fetches) : fetches'[k].pastes = fetches[k].pastes
      BY <1>2, <2>2 DEF Taken, Shortened
    <3> QED
      BY <2>0, <3>1 DEF Pasting
  <2> QED
    BY <2>1, <2>2
<1>11. fetches[i].pastes => Pasting
  BY <1>4 DEF Pasting
<1>12. ASSUME NEW thing \in Things PROVE BufferInStep(thing)'
  <2> SUFFICES ASSUME <<"buffer", thing>> \notin adrift
               PROVE  Tells(buffer', thing, quantities[<<"buffer", thing>>]) /\ (Pasting' => Places(buffer', thing) = {})
    BY <1>3 DEF BufferInStep
  <2>1. Tells(buffer, thing, quantities[<<"buffer", thing>>]) /\ (Pasting => Places(buffer, thing) = {})
    BY InvInSteps DEF BufferInStep
  <2>2. CASE buffer' = buffer
    BY <1>10, <2>1, <2>2
  <2>3. CASE buffer' = <<>> /\ fetches[i].pastes
    <3>1. quantities[<<"buffer", thing>>] = 0
      BY <1>11, <2>1, <2>3 DEF Tells
    <3>2. Places(buffer', thing) = {}
      BY <2>3 DEF Places
    <3> QED
      BY <3>1, <3>2 DEF Tells
  <2> QED
    BY <1>2, <2>2, <2>3 DEF Taken
<1> QED
  BY <1>1, <1>9, <1>12 DEF SteppersInv, DraftInStep, BufferInStep

LEMMA FailureTyped ==
  ASSUME BufferTyped, NEW i \in 1..Len(fetches), FetchFails(i)
  PROVE  BufferTyped'
<1>1. fetches \in Seq(FetchRecord) /\ fetches' = RemoveAt(fetches, i)
  BY DEF BufferTyped, FetchFails
<1>2. /\ RemoveAt(fetches, i) \in Seq(FetchRecord)
      /\ \A k \in 1..Len(RemoveAt(fetches, i)) : \E j \in 1..Len(fetches) : j # i /\ RemoveAt(fetches, i)[k] = fetches[j]
  BY <1>1, WaitGone
<1> QED
  BY <1>1, <1>2 DEF BufferTyped, FetchFails

LEMMA FailureSteps ==
  ASSUME SteppersInv, NEW i \in 1..Len(fetches), FetchFails(i)
  PROVE  SteppersInv'
<1> DEFINE fetch == fetches[i]
<1>1. BufferTyped /\ BufferTyped'
  BY FailureTyped DEF SteppersInv
<1>2. /\ fetches' = RemoveAt(fetches, i) /\ UNCHANGED <<buffer, lines, editor, quantities>>
      /\ adrift' = adrift \cup {<<fetch.draft, row.of>> : row \in ToSet(fetch.left)}
  BY DEF FetchFails
<1>3. fetches \in Seq(FetchRecord) /\ fetch.left \in Seq(RowRecord)
  <2>1. fetch \in FetchRecord
    BY <1>1 DEF BufferTyped
  <2> HIDE DEF fetch
  <2> QED
    BY <1>1, <2>1 DEF BufferTyped, FetchRecord
<1>4. /\ \A k \in 1..Len(fetches') : \E j \in 1..Len(fetches) : fetches'[k] = fetches[j]
      /\ \A d, thing : fetch.draft # d \/ Places(fetch.left, thing) = {} => WaitsAlike(fetches, fetches', d, thing)
  <2>1. /\ \A k \in 1..Len(RemoveAt(fetches, i)) : \E j \in 1..Len(fetches) : j # i /\ RemoveAt(fetches, i)[k] = fetches[j]
        /\ \A d, thing : fetches[i].draft # d \/ Places(fetches[i].left, thing) = {} =>
                           WaitsAlike(fetches, RemoveAt(fetches, i), d, thing)
    BY <1>3, WaitGone
  <2> QED
    BY <1>2, <2>1
<1>5. \A thing : Places(fetch.left, thing) = {} \/ <<fetch.draft, thing>> \in adrift'
  <2> SUFFICES ASSUME NEW thing, NEW k \in Places(fetch.left, thing) PROVE <<fetch.draft, thing>> \in adrift'
    OBVIOUS
  <2>1. k \in 1..Len(fetch.left) /\ fetch.left[k].of = thing
    BY DEF Places
  <2>2. fetch.left[k] \in ToSet(fetch.left)
    BY <1>3, <2>1 DEF ToSet
  <2> HIDE DEF fetch
  <2> QED
    BY <1>2, <2>1, <2>2
<1> HIDE DEF fetch
<1>6. Pasting' => Pasting
  <2>1. DOMAIN fetches' = 1..Len(fetches') /\ DOMAIN fetches = 1..Len(fetches)
    BY <1>1 DEF BufferTyped
  <2> QED
    BY <1>4, <2>1 DEF Pasting
<1>7. ASSUME NEW d \in Drafts, NEW thing \in Things PROVE DraftInStep(d, thing)'
  <2> SUFFICES ASSUME <<d, thing>> \notin adrift', editor[d] # "closed"
               PROVE  Told(lines[d], fetches', d, thing, quantities[<<d, thing>>])
    BY <1>2 DEF DraftInStep
  <2>1. Told(lines[d], fetches, d, thing, quantities[<<d, thing>>])
    BY <1>2, InvInSteps DEF DraftInStep
  <2>2. WaitsAlike(fetches, fetches', d, thing)
    BY <1>4, <1>5
  <2> QED
    BY <2>1, <2>2, AlikeItself, ToldAlike
<1>8. ASSUME NEW thing \in Things PROVE BufferInStep(thing)'
  BY <1>2, <1>6, InvInSteps DEF BufferInStep
<1> QED
  BY <1>1, <1>7, <1>8 DEF SteppersInv, DraftInStep, BufferInStep

\* The buffer is added: what is known of it is, the rest waits or is nothing.
Pasted(d, ready, rest) ==
  /\ ready \in Seq(RowRecord) /\ rest \in Seq(RowRecord) /\ Joins(buffer, ready, rest)
  /\ lines' \in [Drafts -> Seq(RowRecord)] /\ Joins(lines'[d], lines[d], ready)
  /\ \A other \in Drafts : other # d => lines'[other] = lines[other]
  /\ \/ rest = <<>> /\ fetches' = fetches /\ buffer' = <<>>
     \/ /\ rest # <<>> /\ buffer' = buffer
        /\ \E f \in FetchRecord : f.draft = d /\ f.left = rest /\ fetches' = Append(fetches, f)

LEMMA PasteTakes ==
  ASSUME BufferTyped, NEW d \in Drafts, PasteBuffer(d)
  PROVE  BufferTyped' /\ \E ready, rest : Pasted(d, ready, rest)
<1> DEFINE known == Known(buffer)
           ready == SubSeq(buffer, 1, known)
           rest == SubSeq(buffer, known + 1, Len(buffer))
           f == Fetch(d, rest, TRUE)
<1>0. /\ fetches \in Seq(FetchRecord) /\ \A j \in 1..Len(fetches) : editor[fetches[j].draft] # "new"
      /\ lines \in [Drafts -> Seq(RowRecord)] /\ buffer \in Seq(RowRecord) /\ lines[d] \in Seq(RowRecord)
  BY DEF BufferTyped
<1>1. known \in 0..Len(buffer) /\ Len(buffer) \in Nat
  <2>1. known \in 0..Len(buffer)
    BY <1>0, KnownInside
  <2> HIDE DEF known
  <2> QED
    BY <1>0, <2>1
<1>2. /\ editor[d] = "open" /\ editor' = editor /\ quantities' = quantities /\ steppers' = steppers
      /\ lines' = [lines EXCEPT ![d] = lines[d] \o ready]
      /\ fetches' = IF known = Len(buffer) THEN fetches ELSE Append(fetches, f)
      /\ buffer' = IF known = Len(buffer) THEN <<>> ELSE buffer
  BY <1>0 DEF PasteBuffer, Emptied, OpenDrafts
<1> HIDE DEF known
<1>3. ready \in Seq(RowRecord) /\ rest \in Seq(RowRecord) /\ Len(rest) = Len(buffer) - known /\ Joins(buffer, ready, rest)
  BY <1>0, <1>1, ListSplit
<1> HIDE DEF ready, rest
<1>4. lines[d] \o ready \in Seq(RowRecord) /\ Joins(lines[d] \o ready, lines[d], ready)
  BY <1>0, <1>3, ListsJoin
<1>5. known = Len(buffer) <=> rest = <<>>
  BY <1>1, <1>3
<1>6. f.draft = d /\ f.left = rest /\ (rest # <<>> => f \in FetchRecord)
  BY <1>3 DEF Fetch, FetchRecord
<1> HIDE DEF f
<1>7. /\ lines' \in [Drafts -> Seq(RowRecord)] /\ Joins(lines'[d], lines[d], ready)
      /\ \A other \in Drafts : other # d => lines'[other] = lines[other]
  BY <1>0, <1>2, <1>4
<1>8. CASE rest = <<>>
  <2>1. fetches' = fetches /\ buffer' = <<>>
    BY <1>2, <1>5, <1>8
  <2>2. Pasted(d, ready, rest)
    BY <1>3, <1>7, <1>8, <2>1 DEF Pasted
  <2>3. BufferTyped'
    BY <1>2, <1>7, <2>1 DEF BufferTyped
  <2> QED
    BY <2>2, <2>3
<1>9. CASE rest # <<>>
  <2>1. fetches' = Append(fetches, f) /\ buffer' = buffer
    BY <1>2, <1>5, <1>9
  <2>2. Pasted(d, ready, rest)
    BY <1>3, <1>6, <1>7, <1>9, <2>1 DEF Pasted
  <2>3. fetches' \in Seq(FetchRecord) /\ \A i \in 1..Len(fetches') : fetches'[i] = f \/ \E j \in 1..Len(fetches) : fetches'[i] = fetches[j]
    BY <1>0, <1>6, <1>9, <2>1
  <2>4. \A i \in 1..Len(fetches') : editor[fetches'[i].draft] # "new"
    BY <1>0, <1>2, <1>6, <2>3
  <2>5. BufferTyped'
    BY <1>2, <1>7, <2>1, <2>3, <2>4 DEF BufferTyped
  <2> QED
    BY <2>2, <2>5
<1> QED
  BY <1>8, <1>9

LEMMA PasteSteps ==
  ASSUME SteppersInv, NEW d \in Drafts, PasteBuffer(d)
  PROVE  SteppersInv'
<1>1. BufferTyped /\ BufferTyped' /\ buffer \in Seq(RowRecord) /\ lines \in [Drafts -> Seq(RowRecord)]
      /\ fetches \in Seq(FetchRecord)
  BY PasteTakes DEF SteppersInv, BufferTyped
<1>2. PICK ready, rest : Pasted(d, ready, rest)
  BY <1>1, PasteTakes
<1>3. /\ UNCHANGED <<editor, quantities>>
      /\ adrift' = adrift \cup {<<place, row.of>> : place \in {"buffer", d}, row \in ToSet(buffer)}
  BY DEF PasteBuffer
<1>4. \A place \in {"buffer", d}, thing \in Things : Places(buffer, thing) = {} \/ <<place, thing>> \in adrift'
  <2> SUFFICES ASSUME NEW place \in {"buffer", d}, NEW thing \in Things, NEW k \in Places(buffer, thing)
               PROVE  <<place, thing>> \in adrift'
    OBVIOUS
  <2>1. k \in 1..Len(buffer) /\ buffer[k].of = thing
    BY DEF Places
  <2>2. buffer[k] \in ToSet(buffer)
    BY <1>1, <2>1 DEF ToSet
  <2> QED
    BY <1>3, <2>1, <2>2
<1>5. ready \in Seq(RowRecord) /\ rest \in Seq(RowRecord) /\ Joins(buffer, ready, rest)
      /\ lines' \in [Drafts -> Seq(RowRecord)] /\ Joins(lines'[d], lines[d], ready)
  BY <1>2 DEF Pasted
<1>6. \A thing : Places(buffer, thing) = {} => Places(ready, thing) = {} /\ Places(rest, thing) = {}
  BY <1>1, <1>5, JoinedTells
<1>7. ASSUME NEW other \in Drafts, NEW thing \in Things PROVE DraftInStep(other, thing)'
  <2> SUFFICES ASSUME <<other, thing>> \notin adrift', editor[other] # "closed"
               PROVE  Told(lines'[other], fetches', other, thing, quantities[<<other, thing>>])
    BY <1>3 DEF DraftInStep
  <2>1. Told(lines[other], fetches, other, thing, quantities[<<other, thing>>])
    BY <1>3, InvInSteps DEF DraftInStep
  <2>2. other # d \/ (Places(ready, thing) = {} /\ Places(rest, thing) = {})
    BY <1>4, <1>6
  <2>3. Alike(lines[other], lines'[other], thing)
    <3>1. CASE other # d
      BY <1>2, <3>1, AlikeItself DEF Pasted
    <3>2. CASE other = d
      <4>1. lines[d] \in Seq(RowRecord) /\ lines'[d] \in Seq(RowRecord)
        BY <1>1, <1>5
      <4> QED
        BY <1>5, <2>2, <3>2, <4>1, JoinedAlike
    <3> QED
      BY <3>1, <3>2
  <2>4. WaitsAlike(fetches, fetches', other, thing)
    <3>1. CASE fetches' = fetches
      BY <3>1, AlikeItself
    <3>2. ASSUME NEW f \in FetchRecord, f.draft = d, f.left = rest, fetches' = Append(fetches, f)
          PROVE  WaitsAlike(fetches, fetches', other, thing)
      <4>1. f.draft # other \/ Places(f.left, thing) = {}
        BY <2>2, <3>2
      <4> QED
        BY <1>1, <3>2, <4>1, WaitAdded
    <3> QED
      BY <1>2, <3>1, <3>2 DEF Pasted
  <2> QED
    BY <2>1, <2>3, <2>4, ToldAlike
<1>8. ASSUME NEW thing \in Things PROVE BufferInStep(thing)'
  <2> SUFFICES ASSUME <<"buffer", thing>> \notin adrift'
               PROVE  Tells(buffer', thing, quantities[<<"buffer", thing>>]) /\ Places(buffer', thing) = {}
    BY <1>3 DEF BufferInStep
  <2>1. Places(buffer, thing) = {} /\ Tells(buffer, thing, quantities[<<"buffer", thing>>])
    BY <1>3, <1>4, InvInSteps DEF BufferInStep
  <2>2. quantities[<<"buffer", thing>>] = 0
    BY <2>1 DEF Tells
  <2>3. Places(buffer', thing) = {}
    BY <1>2, <2>1 DEF Pasted, Places
  <2> QED
    BY <2>2, <2>3 DEF Tells
<1> QED
  BY <1>1, <1>7, <1>8 DEF SteppersInv, DraftInStep, BufferInStep

\* A row is deleted from an estimate.
LEMMA DeletionFacts ==
  ASSUME BufferTyped, NEW d \in Drafts, NEW i \in 1..Len(lines[d]), DeleteRow(d, i)
  PROVE  /\ BufferTyped' /\ lines[d][i].of \in Things
         /\ \A other \in Drafts, thing \in Things :
              <<other, thing>> # <<d, lines[d][i].of>> => Alike(lines[other], lines'[other], thing)
<1>1. lines \in [Drafts -> Seq(RowRecord)] /\ lines[d] \in Seq(RowRecord)
  BY DEF BufferTyped
<1> DEFINE list == lines[d]
<1>2. lines' = [lines EXCEPT ![d] = RemoveAt(list, i)]
  BY <1>1 DEF DeleteRow
<1>3. list \in Seq(RowRecord) /\ i \in 1..Len(list) /\ list[i] \in RowRecord
  BY <1>1
<1> HIDE DEF list
<1>4. RemoveAt(list, i) \in Seq(RowRecord) /\ \A thing : thing # list[i].of => Alike(list, RemoveAt(list, i), thing)
  BY <1>3, RowGone
<1>5. /\ lines' \in [Drafts -> Seq(RowRecord)] /\ lines'[d] = RemoveAt(list, i)
      /\ \A other \in Drafts : other # d => lines'[other] = lines[other]
  BY <1>1, <1>2, <1>4
<1>6. BufferTyped'
  BY <1>5 DEF BufferTyped, DeleteRow
<1>7. list[i].of \in Things
  BY <1>3 DEF RowRecord
<1>8. ASSUME NEW other \in Drafts, NEW thing \in Things, <<other, thing>> # <<d, list[i].of>>
      PROVE  Alike(lines[other], lines'[other], thing)
  <2>1. CASE other # d
    BY <1>5, <2>1, AlikeItself
  <2>2. CASE other = d
    BY <1>4, <1>5, <1>8, <2>2 DEF list
  <2> QED
    BY <2>1, <2>2
<1> QED
  BY <1>6, <1>7, <1>8 DEF list

LEMMA DeletionSteps ==
  ASSUME SteppersInv, NEW d \in Drafts, NEW i \in 1..Len(lines[d]), DeleteRow(d, i)
  PROVE  SteppersInv'
<1>1. BufferTyped /\ BufferTyped'
  BY DeletionFacts DEF SteppersInv
<1>2. /\ UNCHANGED <<buffer, editor, quantities, fetches>> /\ adrift' = adrift \cup {<<d, lines[d][i].of>>}
  BY DEF DeleteRow
<1>3. \A other \in Drafts, thing \in Things :
        <<other, thing>> # <<d, lines[d][i].of>> => Alike(lines[other], lines'[other], thing)
  BY <1>1, DeletionFacts
<1>4. ASSUME NEW other \in Drafts, NEW thing \in Things PROVE DraftInStep(other, thing)'
  <2> SUFFICES ASSUME <<other, thing>> \notin adrift', editor[other] # "closed"
               PROVE  Told(lines'[other], fetches, other, thing, quantities[<<other, thing>>])
    BY <1>2 DEF DraftInStep
  <2>1. Told(lines[other], fetches, other, thing, quantities[<<other, thing>>])
    BY <1>2, InvInSteps DEF DraftInStep
  <2> QED
    BY <1>2, <1>3, <2>1, AlikeItself, ToldAlike
<1>5. ASSUME NEW thing \in Things PROVE BufferInStep(thing)'
  BY <1>2, InvInSteps DEF BufferInStep, Pasting
<1> QED
  BY <1>1, <1>4, <1>5 DEF SteppersInv, DraftInStep, BufferInStep

LEMMA TabDrawn ==
  ASSUME steppers \in SteppersType, NEW to, NEW target \in Drafts \cup {NoDraft}, NEW load \in BOOLEAN,
         ShowsTab(to, target, load)
  PROVE  steppers' \in SteppersType
BY DEF ShowsTab, SteppersType

LEMMA VisitSteps ==
  ASSUME SteppersInv, NEW to, Visit(to)
  PROVE  SteppersInv'
<1>1. steppers \in SteppersType /\ editor \in [Drafts -> {"new", "open", "closed"}]
  BY DEF SteppersInv, BufferTyped, SteppersType
<1>2. Target \in Drafts \cup {NoDraft}
  <2>1. Target \in OpenDrafts \cup {NoDraft}
    BY TargetIsOpen DEF Target
  <2> QED
    BY <2>1 DEF OpenDrafts
<1>3. steppers' \in SteppersType
  BY <1>1, <1>2 DEF Visit, ShowsTab, SteppersType
<1> QED
  BY <1>1, <1>3, Undisturbed DEF Visit

LEMMA AddLineSteps ==
  ASSUME SteppersInv, NEW d \in Drafts, NEW choice, AddLine(d, choice)
  PROVE  SteppersInv'
<1>1. steppers \in SteppersType /\ editor \in [Drafts -> {"new", "open", "closed"}]
  BY DEF SteppersInv, BufferTyped, SteppersType
<1>2. ShowsTab(choice, d, TRUE)
  BY DEF AddLine
<1>3. steppers' \in SteppersType
  BY <1>1, <1>2, TabDrawn
<1> QED
  BY <1>1, <1>3, Undisturbed DEF AddLine

LEMMA OpenSteps ==
  ASSUME SteppersInv, NEW d \in Drafts, OpenEstimate(d)
  PROVE  SteppersInv'
<1>1. steppers \in SteppersType /\ editor \in [Drafts -> {"new", "open", "closed"}]
  BY DEF SteppersInv, BufferTyped, SteppersType
<1> QED
  BY <1>1, Undisturbed DEF OpenEstimate

LEMMA CloseSteps ==
  ASSUME SteppersInv, NEW d \in Drafts, CloseEstimate(d)
  PROVE  SteppersInv'
<1>1. steppers \in SteppersType /\ editor \in [Drafts -> {"new", "open", "closed"}]
  BY DEF SteppersInv, BufferTyped, SteppersType
<1>2. TargetOf(aim, OpenDrafts \ {d}) \in Drafts \cup {NoDraft}
  <2>1. TargetOf(aim, OpenDrafts \ {d}) \in (OpenDrafts \ {d}) \cup {NoDraft}
    BY TargetIsOpen
  <2> QED
    BY <2>1 DEF OpenDrafts
<1>3. steppers' \in SteppersType
  BY <1>1, <1>2 DEF CloseEstimate, SteppersType
<1> QED
  BY <1>1, <1>3, Undisturbed DEF CloseEstimate

LEMMA BufferStarts ==
  ASSUME BufferInit
  PROVE  BufferTyped /\ \A thing \in Things : \A i, j \in Places(buffer, thing) : i = j
<1>1. buffer \in Seq(RowRecord) /\ \A thing \in Things : \A i, j \in Places(buffer, thing) : i = j
  <2>1. CASE buffer = <<>>
    BY <2>1 DEF Places
  <2>2. ASSUME NEW thing \in Things, buffer = <<Row(thing, 1)>>
        PROVE  buffer \in Seq(RowRecord) /\ \A t \in Things : \A i, j \in Places(buffer, t) : i = j
    <3>1. Row(thing, 1) \in RowRecord
      BY DEF Row, RowRecord
    <3> QED
      BY <2>2, <3>1 DEF Places
  <2> QED
    BY <2>1, <2>2 DEF BufferInit
<1>2. lines \in [Drafts -> Seq(RowRecord)] /\ quantities \in [Keys -> Nat]
  BY DEF BufferInit
<1>3. steppers \in [{"gsn", "own"} -> Drafts \cup {NoDraft}]
  BY DEF BufferInit
<1>4. editor \in [Drafts -> {"new", "open", "closed"}]
  BY DEF BufferInit
<1>5. fetches \in Seq(FetchRecord) /\ \A i \in 1..Len(fetches) : editor[fetches[i].draft] # "new"
  BY DEF BufferInit
<1> QED
  BY <1>1, <1>2, <1>3, <1>4, <1>5 DEF BufferTyped

LEMMA SteppersStart ==
  ASSUME BufferInit
  PROVE  SteppersInv
<1>1. BufferTyped /\ buffer \in Seq(RowRecord)
  BY BufferStarts DEF BufferTyped
<1>2. /\ lines = [d \in Drafts |-> <<>>] /\ quantities = [key \in Keys |-> 0] /\ fetches = <<>>
      /\ adrift = {<<"buffer", row.of>> : row \in ToSet(buffer)}
  BY DEF BufferInit
<1>3. \A d \in Drafts : \A thing \in Things : DraftInStep(d, thing)
  <2> SUFFICES ASSUME NEW d \in Drafts, NEW thing \in Things PROVE Told(lines[d], fetches, d, thing, quantities[<<d, thing>>])
    BY DEF DraftInStep
  <2>1. quantities[<<d, thing>>] = 0 /\ lines[d] = <<>>
    BY <1>2 DEF Keys
  <2> QED
    BY <1>2, <2>1 DEF Told, Tells, Unawaited, Places
<1>4. \A thing \in Things : BufferInStep(thing)
  <2> SUFFICES ASSUME NEW thing \in Things, <<"buffer", thing>> \notin adrift
               PROVE  Tells(buffer, thing, quantities[<<"buffer", thing>>]) /\ Places(buffer, thing) = {}
    BY DEF BufferInStep
  <2>1. quantities[<<"buffer", thing>>] = 0
    BY <1>2 DEF Keys
  <2>2. Places(buffer, thing) = {}
    <3> SUFFICES ASSUME NEW k \in Places(buffer, thing) PROVE FALSE
      OBVIOUS
    <3>1. k \in 1..Len(buffer) /\ buffer[k].of = thing
      BY DEF Places
    <3>2. buffer[k] \in ToSet(buffer)
      BY <1>1, <3>1 DEF ToSet
    <3> QED
      BY <1>2, <3>1, <3>2
  <2> QED
    BY <2>1, <2>2 DEF Tells
<1> QED
  BY <1>1, <1>3, <1>4, InvInSteps

LEMMA SteppersStay ==
  SteppersInv /\ [BufferNext]_bufferVars => SteppersInv'
<1> SUFFICES ASSUME SteppersInv, [BufferNext]_bufferVars PROVE SteppersInv'
  OBVIOUS
<1>0. fetches \in Seq(FetchRecord) /\ lines \in [Drafts -> Seq(RowRecord)]
  BY DEF SteppersInv, BufferTyped
<1>1. ASSUME NEW thing \in Things, NEW onBuffer \in BOOLEAN, NEW quantity \in 0..Most, Touch(thing, onBuffer, quantity)
      PROVE  SteppersInv'
  <2>1. quantity \in Nat
    BY MostAssumption
  <2> QED
    BY <1>1, <2>1, TouchSteps
<1>2. ASSUME NEW i \in DOMAIN fetches, Fetched(i) \/ FetchFails(i) PROVE SteppersInv'
  <2>1. i \in 1..Len(fetches)
    BY <1>0
  <2> QED
    BY <1>2, <2>1, FetchedSteps, FailureSteps
<1>3. ASSUME NEW d \in Drafts, PasteBuffer(d) \/ OpenEstimate(d) \/ CloseEstimate(d) PROVE SteppersInv'
  BY <1>3, PasteSteps, OpenSteps, CloseSteps
<1>4. ASSUME NEW d \in Drafts, NEW i \in DOMAIN lines[d], DeleteRow(d, i) PROVE SteppersInv'
  <2>1. i \in 1..Len(lines[d])
    BY <1>0
  <2> QED
    BY <1>4, <2>1, DeletionSteps
<1>5. ASSUME NEW to, Visit(to) PROVE SteppersInv'
  BY <1>5, VisitSteps
<1>6. ASSUME NEW d \in Drafts, NEW choice, AddLine(d, choice) PROVE SteppersInv'
  BY <1>6, AddLineSteps
<1>7. ASSUME UNCHANGED bufferVars PROVE SteppersInv'
  <2>1. steppers \in SteppersType /\ editor \in [Drafts -> {"new", "open", "closed"}]
    BY DEF SteppersInv, BufferTyped, SteppersType
  <2> QED
    BY <1>7, <2>1, Undisturbed DEF bufferVars
<1> QED
  BY <1>1, <1>2, <1>3, <1>4, <1>5, <1>6, <1>7 DEF BufferNext

(* A stepper tells how many of a thing are in the buffer or in an open     *)
(* estimate, when no record is awaited and nothing but steppers drawn for  *)
(* that list has changed it (upsertGSNInEstimate, upsertGSNInBuffer,       *)
(* their siblings and removals; addBufferToEstimate).                      *)
THEOREM SteppersAreRight == BufferSpec => []SteppersTellTheLists
<1>1. BufferInit => SteppersInv
  BY SteppersStart
<1>2. SteppersInv => SteppersTellTheLists
  <2> SUFFICES ASSUME SteppersInv, fetches = <<>>, NEW key \in Keys \ adrift, key[1] \in OpenDrafts \cup {"buffer"}
               PROVE  Tells(ListOf(key[1]), key[2], quantities[key])
    BY DEF SteppersTellTheLists
  <2>1. PICK place \in Drafts \cup {"buffer"}, thing \in Things : key = <<place, thing>>
    BY DEF Keys
  <2>2. key[1] = place /\ key[2] = thing /\ "buffer" \notin Drafts
    BY <2>1, DraftsAssumption
  <2>3. CASE place = "buffer"
    BY <2>1, <2>2, <2>3, InvInSteps DEF BufferInStep, ListOf
  <2>4. CASE place \in Drafts
    <3>1. editor[place] # "closed"
      BY <2>2, <2>4 DEF OpenDrafts
    <3>2. Told(lines[place], fetches, place, thing, quantities[key])
      BY <2>1, <2>4, <3>1, InvInSteps DEF DraftInStep
    <3>3. Len(fetches) = 0
      OBVIOUS
    <3>4. Tells(lines[place], thing, quantities[key])
      BY <3>2, <3>3 DEF Told, Coming
    <3> QED
      BY <2>2, <2>4, <3>4 DEF ListOf
  <2> QED
    BY <2>3, <2>4
<1> QED
  BY <1>1, <1>2, SteppersStay, PTL DEF BufferSpec

-----------------------------------------------------------------------------
(* The buffer is added to an estimate.                                     *)

LEMMA ListHas ==
  ASSUME NEW list \in Seq(RowRecord), NEW row
  PROVE  /\ row \in ToSet(list) <=> Has(list, row)
         /\ Has(list, row) => row \in RowRecord /\ row.of \in Things
<1>1. row \in ToSet(list) <=> Has(list, row)
  BY DEF ToSet, Has
<1>2. Has(list, row) => row \in RowRecord
  BY DEF Has
<1> QED
  BY <1>1, <1>2 DEF RowRecord

LEMMA AlikeHas ==
  ASSUME NEW list, NEW other, NEW row, Alike(list, other, row.of)
  PROVE  Has(list, row) <=> Has(other, row)
BY DEF Alike

LEMMA DeliveredStill ==
  ASSUME NEW has, NEW list, NEW left, NEW excused, Delivers(has, list, left, excused),
         NEW before \in Seq(RowRecord), NEW after, NEW more, excused \subseteq more,
         \A row \in RowRecord : row.of \notin more =>
           /\ Has(before, row) => Has(has, row)
           /\ Has(list, row) => Has(after, row)
  PROVE  Delivers(before, after, left, more)
<1> SUFFICES ASSUME NEW k \in 1..Len(before), before[k].of \notin more
             PROVE  Has(after, before[k]) \/ Has(left, before[k])
  BY DEF Delivers
<1>1. before[k] \in RowRecord /\ Has(before, before[k])
  BY DEF Has
<1>2. PICK l \in 1..Len(has) : has[l] = before[k]
  BY <1>1 DEF Has
<1> QED
  BY <1>1, <1>2 DEF Delivers

\* An addition that waits on is due as before, if nothing it has to deliver comes or goes.
LEMMA DueStill ==
  ASSUME BufferTyped, BufferTyped', contested \subseteq contested',
         NEW j \in 1..Len(fetches), NEW k \in 1..Len(fetches'), fetches'[k] = fetches[j], Due(j),
         editor[fetches[j].draft] = "open" => editor'[fetches[j].draft] = "open" \/ Things \subseteq contested',
         \A row \in RowRecord : row.of \notin contested' =>
           /\ Has(buffer', row) => Has(buffer, row)
           /\ \A d \in Drafts : Has(lines[d], row) => Has(lines'[d], row)
  PROVE  Due(k)'
<1>1. CASE Things \subseteq contested \/ Things \subseteq contested'
  BY <1>1 DEF Due
<1>2. CASE ~(Things \subseteq contested \/ Things \subseteq contested')
  <2> DEFINE d == fetches[j].draft
             left == fetches[j].left
  <2>1. editor[d] = "open" /\ editor'[d] = "open" /\ Delivers(buffer, lines[d], left, contested)
    BY <1>2 DEF Due
  <2>2. d \in Drafts /\ buffer' \in Seq(RowRecord)
    <3>1. fetches[j] \in FetchRecord /\ buffer' \in Seq(RowRecord)
      BY DEF BufferTyped
    <3> QED
      BY <3>1 DEF FetchRecord
  <2> HIDE DEF d, left
  <2>3. Delivers(buffer', lines'[d], left, contested')
    BY <2>1, <2>2, DeliveredStill
  <2>4. fetches'[k].draft = d /\ fetches'[k].left = left
    BY DEF d, left
  <2> QED
    BY <2>1, <2>3, <2>4 DEF Due
<1> QED
  BY <1>1, <1>2

\* Most steps change no more than what the user has a hand on.
LEMMA Delivering ==
  ASSUME BufferTyped, BufferTyped', MovesInv, BufferInOrder', contested \subseteq contested',
         \A k \in 1..Len(fetches') : fetches'[k].pastes => \E j \in 1..Len(fetches) : fetches'[k] = fetches[j],
         \A j \in 1..Len(fetches) : fetches[j].pastes /\ editor[fetches[j].draft] = "open" =>
           editor'[fetches[j].draft] = "open" \/ Things \subseteq contested',
         Pasting => \A row \in RowRecord : row.of \notin contested' =>
           /\ Has(buffer', row) => Has(buffer, row)
           /\ \A d \in Drafts : Has(lines[d], row) => Has(lines'[d], row)
  PROVE  MovesInv'
<1> SUFFICES ASSUME NEW k \in 1..Len(fetches'), fetches'[k].pastes PROVE Due(k)'
  BY DEF MovesInv
<1>1. PICK j \in 1..Len(fetches) : fetches'[k] = fetches[j]
  OBVIOUS
<1>2. DOMAIN fetches = 1..Len(fetches)
  BY DEF BufferTyped
<1>3. fetches[j].pastes /\ Pasting /\ Due(j)
  BY <1>1, <1>2 DEF Pasting, MovesInv
<1> QED
  BY <1>1, <1>3, DueStill

LEMMA OrderKept ==
  ASSUME BufferInOrder, quantities' = quantities, buffer' = buffer \/ buffer' = <<>>
  PROVE  BufferInOrder'
<1>1. CASE buffer' = buffer
  BY <1>1 DEF BufferInOrder
<1>2. CASE buffer' = <<>>
  BY <1>2 DEF BufferInOrder, Places
<1> QED
  BY <1>1, <1>2

\* What a touch does to the buffer, and to its order.
LEMMA TouchFacts ==
  ASSUME BufferTyped, BufferInOrder, NEW thing \in Things, NEW onBuffer \in BOOLEAN, NEW quantity \in Nat,
         Touch(thing, onBuffer, quantity)
  PROVE  /\ BufferInOrder'
         /\ \A row \in RowRecord : row.of # thing =>
              /\ Has(buffer', row) <=> Has(buffer, row)
              /\ \A d \in Drafts : Has(lines[d], row) => Has(lines'[d], row)
         /\ \A k \in 1..Len(fetches') : fetches'[k].pastes => \E j \in 1..Len(fetches) : fetches'[k] = fetches[j]
         /\ quantities' = quantities => \A row : Has(buffer, row) => Has(buffer', row)
<1> DEFINE key == <<IF onBuffer THEN "buffer" ELSE steppers[shown], thing>>
           place == IF onBuffer THEN "buffer" ELSE Target
<1>0. "buffer" \notin Drafts /\ NoDraft \notin Drafts /\ NoDraft # "buffer"
  BY DraftsAssumption DEF NoDraft
<1>1. /\ key \in Keys /\ quantities' = [quantities EXCEPT ![key] = quantity] /\ quantity \in Allowed(quantities[key])
      /\ Change(place, thing, quantity) /\ shown = KindOf(thing)
  BY DEF Touch
<1>2. place \in Drafts \cup {"buffer", NoDraft} /\ (place \in Drafts => editor[place] = "open")
      /\ (place = "buffer" => onBuffer) /\ (onBuffer => place = "buffer" /\ key = <<"buffer", thing>>)
  <2>1. Target \in OpenDrafts \cup {NoDraft}
    BY TargetIsOpen DEF Target
  <2> QED
    BY <1>0, <2>1 DEF OpenDrafts
<1>3. ~onBuffer => key[1] # "buffer"
  <2>1. shown \in {"gsn", "own"} /\ steppers \in [{"gsn", "own"} -> Drafts \cup {NoDraft}]
    BY <1>1 DEF KindOf, BufferTyped
  <2>2. steppers[shown] \in Drafts \cup {NoDraft}
    BY <2>1
  <2> QED
    BY <1>0, <2>2
<1> HIDE DEF key, place
<1>4. /\ buffer \in Seq(RowRecord) /\ buffer' \in Seq(RowRecord)
      /\ \A i \in 1..Len(fetches') : fetches'[i].pastes => i \in 1..Len(fetches) /\ fetches'[i] = fetches[i]
      /\ \A d \in Drafts, t \in Things : <<d, t>> # <<place, thing>> => Alike(lines[d], lines'[d], t)
      /\ \A t \in Things : <<"buffer", t>> # <<place, thing>> => Alike(buffer, buffer', t)
      /\ IF place = "buffer"
         THEN /\ buffer' = IF quantity = 0 THEN Removed(buffer, thing) ELSE Upserted(buffer, thing, quantity)
              /\ (\A i, j \in Places(buffer, thing) : i = j) => Tells(buffer', thing, quantity)
         ELSE buffer' = buffer
  <2>1. buffer \in Seq(RowRecord)
    BY DEF BufferTyped
  <2> QED
    BY <1>1, <1>2, <2>1, PlaceChanged
<1>5. \A row \in RowRecord : row.of # thing =>
        /\ Has(buffer', row) <=> Has(buffer, row)
        /\ \A d \in Drafts : Has(lines[d], row) => Has(lines'[d], row)
  <2> SUFFICES ASSUME NEW row \in RowRecord, row.of # thing
               PROVE  /\ Has(buffer', row) <=> Has(buffer, row)
                      /\ \A d \in Drafts : Has(lines[d], row) => Has(lines'[d], row)
    OBVIOUS
  <2>1. row.of \in Things
    BY DEF RowRecord
  <2>2. Alike(buffer, buffer', row.of) /\ \A d \in Drafts : Alike(lines[d], lines'[d], row.of)
    BY <1>4, <2>1
  <2> QED
    BY <2>2, AlikeHas
<1>6. /\ quantities \in [Keys -> Nat] /\ quantities' \in [Keys -> Nat] /\ quantities'[key] = quantity
      /\ \A other \in Keys : other # key => quantities'[other] = quantities[other]
  BY <1>1 DEF BufferTyped
<1>7. CASE ~onBuffer
  <2>1. buffer' = buffer
    BY <1>2, <1>4, <1>7
  <2>2. \A t \in Things : quantities'[<<"buffer", t>>] = quantities[<<"buffer", t>>]
    BY <1>3, <1>6, <1>7 DEF Keys
  <2>3. \A i \in 1..Len(buffer) : buffer[i].of \in Things
    <3>1. \A i \in 1..Len(buffer) : buffer[i] \in RowRecord
      BY <1>4
    <3> QED
      BY <3>1 DEF RowRecord
  <2>4. BufferInOrder'
    BY <2>1, <2>2, <2>3 DEF BufferInOrder
  <2> QED
    BY <1>4, <1>5, <2>1, <2>4
<1>8. CASE onBuffer
  <2>1. /\ place = "buffer" /\ key = <<"buffer", thing>> /\ Tells(buffer', thing, quantity)
        /\ buffer' = IF quantity = 0 THEN Removed(buffer, thing) ELSE Upserted(buffer, thing, quantity)
    BY <1>2, <1>4, <1>8 DEF BufferInOrder
  <2>2. \A t \in Things : \A i, j \in Places(buffer', t) : i = j
    <3> TAKE t \in Things
    <3>1. CASE t = thing
      BY <2>1, <3>1 DEF Tells
    <3>2. CASE t # thing
      BY <1>4, <3>2 DEF Alike, BufferInOrder
    <3> QED
      BY <3>1, <3>2
  <2>3. \A i \in 1..Len(buffer') : quantities'[<<"buffer", buffer'[i].of>>] \in {0, buffer'[i].quantity}
    <3> TAKE i \in 1..Len(buffer')
    <3> DEFINE row == buffer'[i]
    <3>1. row \in RowRecord /\ Has(buffer', row)
      BY <1>4 DEF Has
    <3>2. CASE row.of = thing
      <4>1. i \in Places(buffer', thing)
        BY <3>2 DEF Places
      <4>2. row.quantity = quantity
        BY <2>1, <4>1 DEF Tells
      <4> QED
        BY <1>6, <2>1, <3>2, <4>2
    <3>3. CASE row.of # thing
      <4>1. Has(buffer, row)
        BY <1>5, <3>1, <3>3
      <4>2. quantities[<<"buffer", row.of>>] \in {0, row.quantity}
        BY <4>1 DEF Has, BufferInOrder
      <4>3. <<"buffer", row.of>> \in Keys
        BY <3>1 DEF RowRecord, Keys
      <4> QED
        BY <1>6, <2>1, <3>3, <4>2, <4>3
    <3> QED
      BY <3>2, <3>3
  <2>4. BufferInOrder'
    BY <2>2, <2>3 DEF BufferInOrder
  <2>5. ASSUME quantities' = quantities, NEW row, Has(buffer, row) PROVE Has(buffer', row)
    <3>1. quantity = quantities[key] /\ quantity # 0
      BY <1>1, <1>6, <2>5 DEF Allowed
    <3>2. quantity \in Nat \ {0} /\ buffer' = Upserted(buffer, thing, quantity)
      BY <2>1, <3>1
    <3>3. row.of = thing => row = Row(thing, quantity)
      <4> SUFFICES ASSUME row.of = thing PROVE row = Row(thing, quantity)
        OBVIOUS
      <4>1. quantity \in {0, row.quantity}
        BY <2>1, <2>5, <3>1 DEF Has, BufferInOrder
      <4>2. row \in RowRecord
        BY <1>4, <2>5, ListHas
      <4> QED
        BY <3>1, <4>1, <4>2 DEF Row, RowRecord
    <3> QED
      BY <1>4, <2>5, <3>2, <3>3, UpsertedTells
  <2> QED
    BY <1>4, <1>5, <2>4, <2>5
<1> QED
  BY <1>7, <1>8

LEMMA TouchMoves ==
  ASSUME BufferTyped, BufferTyped', MovesInv, NEW thing \in Things, NEW onBuffer \in BOOLEAN, NEW quantity \in Nat,
         Touch(thing, onBuffer, quantity)
  PROVE  MovesInv'
<1>1. BufferInOrder /\ BufferInOrder'
  BY TouchFacts DEF MovesInv
<1>2. /\ \A k \in 1..Len(fetches') : fetches'[k].pastes => \E j \in 1..Len(fetches) : fetches'[k] = fetches[j]
      /\ \A row \in RowRecord : row.of # thing =>
           /\ Has(buffer', row) <=> Has(buffer, row)
           /\ \A d \in Drafts : Has(lines[d], row) => Has(lines'[d], row)
  BY <1>1, TouchFacts
<1>3. editor' = editor /\ contested' = IF Pasting THEN contested \cup {thing} ELSE contested
  BY DEF Touch, HandOn
<1>4. Pasting => \A row \in RowRecord : row.of \notin contested' =>
        /\ Has(buffer', row) => Has(buffer, row)
        /\ \A d \in Drafts : Has(lines[d], row) => Has(lines'[d], row)
  BY <1>2, <1>3
<1> QED
  BY <1>1, <1>2, <1>3, <1>4, Delivering

LEMMA DeletionMoves ==
  ASSUME BufferTyped, BufferTyped', MovesInv, NEW d \in Drafts, NEW i \in 1..Len(lines[d]), DeleteRow(d, i)
  PROVE  MovesInv'
<1> DEFINE thing == lines[d][i].of
<1>1. \A other \in Drafts, t \in Things : <<other, t>> # <<d, thing>> => Alike(lines[other], lines'[other], t)
  BY DeletionFacts
<1>2. /\ UNCHANGED <<buffer, quantities, editor, fetches>>
      /\ contested' = IF Pasting THEN contested \cup {thing} ELSE contested
  BY DEF DeleteRow, HandOn
<1> HIDE DEF thing
<1>3. Pasting => \A row \in RowRecord : row.of \notin contested' =>
        /\ Has(buffer', row) => Has(buffer, row)
        /\ \A other \in Drafts : Has(lines[other], row) => Has(lines'[other], row)
  <2> SUFFICES ASSUME Pasting, NEW row \in RowRecord, row.of \notin contested', NEW other \in Drafts, Has(lines[other], row)
               PROVE  Has(lines'[other], row)
    BY <1>2
  <2>1. row.of # thing /\ row.of \in Things
    BY <1>2 DEF RowRecord
  <2>2. Alike(lines[other], lines'[other], row.of)
    BY <1>1, <2>1
  <2> QED
    BY <2>2, AlikeHas
<1>4. BufferInOrder'
  BY <1>2, OrderKept DEF MovesInv
<1> QED
  BY <1>2, <1>3, <1>4, Delivering

LEMMA FailureMoves ==
  ASSUME BufferTyped, BufferTyped', MovesInv, NEW i \in 1..Len(fetches), FetchFails(i)
  PROVE  MovesInv'
<1>1. fetches' = RemoveAt(fetches, i) /\ UNCHANGED <<buffer, lines, quantities, editor, contested>>
  BY DEF FetchFails
<1>2. \A k \in 1..Len(fetches') : \E j \in 1..Len(fetches) : fetches'[k] = fetches[j]
  <2>1. \A k \in 1..Len(RemoveAt(fetches, i)) : \E j \in 1..Len(fetches) : j # i /\ RemoveAt(fetches, i)[k] = fetches[j]
    BY WaitGone DEF BufferTyped
  <2> QED
    BY <1>1, <2>1
<1>3. BufferInOrder'
  BY <1>1, OrderKept DEF MovesInv
<1> QED
  BY <1>1, <1>2, <1>3, Delivering

\* Nothing but the drawing, an estimate that opens, and one that closes.
LEMMA UndisturbedMoves ==
  ASSUME BufferTyped, BufferTyped', MovesInv, contested \subseteq contested',
         \A j \in 1..Len(fetches) : fetches[j].pastes /\ editor[fetches[j].draft] = "open" =>
           editor'[fetches[j].draft] = "open" \/ Things \subseteq contested',
         UNCHANGED <<buffer, lines, quantities, fetches>>
  PROVE  MovesInv'
<1>1. BufferInOrder'
  BY OrderKept DEF MovesInv
<1> QED
  BY <1>1, Delivering

LEMMA CloseMoves ==
  ASSUME BufferTyped, BufferTyped', MovesInv, NEW d \in Drafts, CloseEstimate(d)
  PROVE  MovesInv'
<1>1. DOMAIN fetches = 1..Len(fetches) /\ editor \in [Drafts -> {"new", "open", "closed"}]
  BY DEF BufferTyped
<1>2. /\ editor' = [editor EXCEPT ![d] = "closed"] /\ UNCHANGED <<buffer, lines, quantities, fetches>>
      /\ contested' = IF \E i \in DOMAIN fetches : fetches[i].draft = d THEN contested \cup Things ELSE contested
  BY DEF CloseEstimate
<1>3. \A j \in 1..Len(fetches) : editor[fetches[j].draft] = "open" =>
        editor'[fetches[j].draft] = "open" \/ Things \subseteq contested'
  <2> SUFFICES ASSUME NEW j \in 1..Len(fetches), editor[fetches[j].draft] = "open"
               PROVE  editor'[fetches[j].draft] = "open" \/ Things \subseteq contested'
    OBVIOUS
  <2>1. fetches[j].draft \in Drafts
    <3>1. fetches[j] \in FetchRecord
      BY DEF BufferTyped
    <3> QED
      BY <3>1 DEF FetchRecord
  <2>2. CASE fetches[j].draft = d
    BY <1>1, <1>2, <2>2
  <2>3. CASE fetches[j].draft # d
    BY <1>1, <1>2, <2>1, <2>3
  <2> QED
    BY <2>2, <2>3
<1>4. contested \subseteq contested'
  BY <1>2
<1> QED
  BY <1>2, <1>3, <1>4, UndisturbedMoves

LEMMA OpenMoves ==
  ASSUME BufferTyped, BufferTyped', MovesInv, NEW d \in Drafts, OpenEstimate(d)
  PROVE  MovesInv'
<1>1. /\ editor \in [Drafts -> {"new", "open", "closed"}] /\ editor' = [editor EXCEPT ![d] = "open"]
      /\ UNCHANGED <<buffer, lines, quantities, fetches, contested>>
  BY DEF BufferTyped, OpenEstimate
<1>2. \A j \in 1..Len(fetches) : editor[fetches[j].draft] = "open" => editor'[fetches[j].draft] = "open"
  <2> SUFFICES ASSUME NEW j \in 1..Len(fetches), editor[fetches[j].draft] = "open"
               PROVE  editor'[fetches[j].draft] = "open"
    OBVIOUS
  <2>1. fetches[j].draft \in Drafts
    <3>1. fetches[j] \in FetchRecord
      BY DEF BufferTyped
    <3> QED
      BY <3>1 DEF FetchRecord
  <2> QED
    BY <1>1, <2>1
<1> QED
  BY <1>1, <1>2, UndisturbedMoves

LEMMA PasteMoves ==
  ASSUME BufferTyped, BufferTyped', MovesInv, NEW d \in Drafts, PasteBuffer(d)
  PROVE  MovesInv'
<1>1. PICK ready, rest : Pasted(d, ready, rest)
  BY PasteTakes
<1>2. UNCHANGED <<editor, quantities, contested>> /\ editor[d] = "open"
  BY DEF PasteBuffer, OpenDrafts
<1>3. /\ buffer \in Seq(RowRecord) /\ buffer' \in Seq(RowRecord)
      /\ lines \in [Drafts -> Seq(RowRecord)] /\ lines' \in [Drafts -> Seq(RowRecord)]
      /\ ready \in Seq(RowRecord) /\ rest \in Seq(RowRecord)
      /\ Joins(buffer, ready, rest) /\ Joins(lines'[d], lines[d], ready)
      /\ fetches \in Seq(FetchRecord)
  BY <1>1 DEF BufferTyped, Pasted
<1>4. \A row : /\ Has(buffer, row) => Has(ready, row) \/ Has(rest, row)
               /\ Has(lines[d], row) \/ Has(ready, row) => Has(lines'[d], row)
  <2>1. lines[d] \in Seq(RowRecord) /\ lines'[d] \in Seq(RowRecord)
    BY <1>3
  <2>2. \A row : Has(buffer, row) <=> Has(ready, row) \/ Has(rest, row)
    BY <1>3, JoinedTells
  <2>3. \A row : Has(lines'[d], row) <=> Has(lines[d], row) \/ Has(ready, row)
    BY <1>3, <2>1, JoinedTells
  <2> QED
    BY <2>2, <2>3
<1>5. \A row : /\ Has(buffer', row) => Has(buffer, row)
               /\ \A other \in Drafts : Has(lines[other], row) => Has(lines'[other], row)
  <2>1. \A row : Has(buffer', row) => Has(buffer, row)
    BY <1>1 DEF Pasted, Has
  <2>2. \A row : \A other \in Drafts : Has(lines[other], row) => Has(lines'[other], row)
    BY <1>1, <1>4 DEF Pasted
  <2> QED
    BY <2>1, <2>2
<1>6. BufferInOrder'
  <2>1. buffer' = buffer \/ buffer' = <<>>
    BY <1>1 DEF Pasted
  <2> QED
    BY <1>2, <2>1, OrderKept DEF MovesInv
<1>7. CASE fetches' = fetches
  BY <1>2, <1>5, <1>6, <1>7, Delivering
<1>8. ASSUME buffer' = buffer,
             NEW f \in FetchRecord, f.draft = d, f.left = rest, fetches' = Append(fetches, f)
      PROVE  MovesInv'
  <2> SUFFICES ASSUME NEW k \in 1..Len(fetches'), fetches'[k].pastes PROVE Due(k)'
    BY <1>6 DEF MovesInv
  <2>1. (k \in 1..Len(fetches) /\ fetches'[k] = fetches[k]) \/ fetches'[k] = f
    BY <1>3, <1>8
  <2>2. CASE k \in 1..Len(fetches) /\ fetches'[k] = fetches[k]
    <3>1. Due(k)
      BY <2>2 DEF MovesInv
    <3> QED
      BY <1>2, <1>5, <2>2, <3>1, DueStill
  <2>3. CASE fetches'[k] = f
    <3>1. Delivers(buffer', lines'[d], rest, contested')
      <4>1. \A l \in 1..Len(buffer) : Has(buffer, buffer[l])
        BY DEF Has
      <4>2. \A l \in 1..Len(buffer) : Has(lines'[d], buffer[l]) \/ Has(rest, buffer[l])
        BY <1>4, <4>1
      <4> QED
        BY <1>8, <4>2 DEF Delivers
    <3> QED
      BY <1>2, <1>8, <2>3, <3>1 DEF Due
  <2> QED
    BY <2>1, <2>2, <2>3
<1> QED
  BY <1>1, <1>7, <1>8 DEF Pasted

\* What a record brings is in the estimate, if that is still open, and nothing leaves it.
LEMMA TakenHas ==
  ASSUME BufferTyped, NEW i \in 1..Len(fetches), NEW ready, NEW rest, Taken(i, ready, rest)
  PROVE  /\ fetches[i].draft \in Drafts /\ buffer \in Seq(RowRecord) /\ buffer' \in Seq(RowRecord)
         /\ \A row : Has(fetches[i].left, row) => Has(ready, row) \/ Has(rest, row)
         /\ \A row : \A d \in Drafts : Has(lines[d], row) => Has(lines'[d], row)
         /\ editor[fetches[i].draft] = "open" =>
              \A row : Has(ready, row) => Has(lines'[fetches[i].draft], row)
<1> DEFINE left == fetches[i].left
           at == fetches[i].draft
<1>1. /\ lines \in [Drafts -> Seq(RowRecord)] /\ lines' \in [Drafts -> Seq(RowRecord)]
      /\ ready \in Seq(RowRecord) /\ rest \in Seq(RowRecord) /\ left \in Seq(RowRecord) /\ Joins(left, ready, rest)
      /\ at \in Drafts /\ buffer \in Seq(RowRecord) /\ buffer' \in Seq(RowRecord)
  <2>1. fetches[i] \in FetchRecord
    BY DEF BufferTyped
  <2> QED
    BY <2>1 DEF BufferTyped, FetchRecord, Taken
<1>2. \A d \in Drafts : IF d = at /\ editor[d] = "open" THEN Joins(lines'[d], lines[d], ready) ELSE lines'[d] = lines[d]
  BY DEF Taken
<1> HIDE DEF left, at
<1>3. \A row : Has(left, row) <=> Has(ready, row) \/ Has(rest, row)
  BY <1>1, JoinedTells
<1>4. editor[at] = "open" => \A row : Has(lines'[at], row) <=> Has(lines[at], row) \/ Has(ready, row)
  <2> SUFFICES ASSUME editor[at] = "open" PROVE \A row : Has(lines'[at], row) <=> Has(lines[at], row) \/ Has(ready, row)
    OBVIOUS
  <2>1. lines[at] \in Seq(RowRecord) /\ lines'[at] \in Seq(RowRecord) /\ Joins(lines'[at], lines[at], ready)
    BY <1>1, <1>2
  <2> QED
    BY <1>1, <2>1, JoinedTells
<1>5. \A row : \A d \in Drafts : Has(lines[d], row) => Has(lines'[d], row)
  BY <1>2, <1>4
<1> QED
  BY <1>1, <1>3, <1>4, <1>5 DEF left, at

LEMMA FetchedMoves ==
  ASSUME BufferTyped, BufferTyped', MovesInv, NEW i \in 1..Len(fetches), Fetched(i)
  PROVE  MovesInv'
<1>1. PICK ready, rest : Taken(i, ready, rest)
  BY FetchedTakes
<1>2. UNCHANGED <<editor, quantities, contested>>
  BY DEF Fetched
<1> DEFINE at == fetches[i].draft
<1>3. /\ at \in Drafts /\ buffer \in Seq(RowRecord)
      /\ \A row : Has(fetches[i].left, row) => Has(ready, row) \/ Has(rest, row)
      /\ \A row : \A d \in Drafts : Has(lines[d], row) => Has(lines'[d], row)
      /\ editor[at] = "open" => \A row : Has(ready, row) => Has(lines'[at], row)
  BY <1>1, TakenHas
<1> HIDE DEF at
<1>4. buffer' = buffer \/ buffer' = <<>>
  BY <1>1 DEF Taken
<1>5. BufferInOrder' /\ \A row : Has(buffer', row) => Has(buffer, row)
  BY <1>2, <1>4, OrderKept DEF MovesInv, Has
<1>6. CASE rest = <<>>
  <2>1. fetches' = RemoveAt(fetches, i)
    BY <1>1, <1>6 DEF Taken
  <2>2. \A k \in 1..Len(RemoveAt(fetches, i)) : \E j \in 1..Len(fetches) : j # i /\ RemoveAt(fetches, i)[k] = fetches[j]
    BY WaitGone DEF BufferTyped
  <2>3. \A k \in 1..Len(fetches') : \E j \in 1..Len(fetches) : fetches'[k] = fetches[j]
    BY <2>1, <2>2
  <2> QED
    BY <1>2, <1>3, <1>5, <2>3, Delivering
<1>7. CASE rest # <<>>
  <2>1. /\ Shortened(fetches, fetches', i) /\ fetches'[i].left = rest /\ fetches'[i].pastes = fetches[i].pastes
        /\ buffer' = buffer
    BY <1>1, <1>7 DEF Taken
  <2> SUFFICES ASSUME NEW k \in 1..Len(fetches'), fetches'[k].pastes PROVE Due(k)'
    BY <1>5 DEF MovesInv
  <2>2. k \in 1..Len(fetches)
    BY <2>1 DEF Shortened
  <2>3. CASE k # i
    <3>1. fetches'[k] = fetches[k]
      BY <2>1, <2>2, <2>3 DEF Shortened
    <3>2. Due(k)
      BY <2>2, <3>1 DEF MovesInv
    <3> QED
      BY <1>2, <1>3, <1>5, <2>2, <3>1, <3>2, DueStill
  <2>4. CASE k = i
    <3>1. Due(i)
      BY <2>1, <2>4 DEF MovesInv
    <3>2. CASE Things \subseteq contested
      BY <1>2, <3>2 DEF Due
    <3>3. CASE editor[at] = "open" /\ Delivers(buffer, lines[at], fetches[i].left, contested)
      <4>1. Delivers(buffer, lines'[at], rest, contested)
        BY <1>3, <3>3 DEF Delivers
      <4>2. fetches'[k].draft = at /\ fetches'[k].left = rest
        BY <2>1, <2>4 DEF Shortened, at
      <4> QED
        BY <1>2, <2>1, <3>3, <4>1, <4>2 DEF Due
    <3> QED
      BY <3>1, <3>2, <3>3 DEF Due, at
  <2> QED
    BY <2>3, <2>4
<1> QED
  BY <1>6, <1>7

LEMMA MovesStay ==
  SteppersInv /\ SteppersInv' /\ MovesInv /\ [BufferNext]_bufferVars => MovesInv'
<1> SUFFICES ASSUME SteppersInv, SteppersInv', MovesInv, [BufferNext]_bufferVars PROVE MovesInv'
  OBVIOUS
<1>0. /\ BufferTyped /\ BufferTyped' /\ fetches \in Seq(FetchRecord) /\ lines \in [Drafts -> Seq(RowRecord)]
  BY DEF SteppersInv, BufferTyped
<1>1. ASSUME NEW thing \in Things, NEW onBuffer \in BOOLEAN, NEW quantity \in 0..Most, Touch(thing, onBuffer, quantity)
      PROVE  MovesInv'
  <2>1. quantity \in Nat
    BY MostAssumption
  <2> QED
    BY <1>0, <1>1, <2>1, TouchMoves
<1>2. ASSUME NEW i \in DOMAIN fetches, Fetched(i) \/ FetchFails(i) PROVE MovesInv'
  <2>1. i \in 1..Len(fetches)
    BY <1>0
  <2> QED
    BY <1>0, <1>2, <2>1, FetchedMoves, FailureMoves
<1>3. ASSUME NEW d \in Drafts, PasteBuffer(d) \/ OpenEstimate(d) \/ CloseEstimate(d) PROVE MovesInv'
  BY <1>0, <1>3, PasteMoves, OpenMoves, CloseMoves
<1>4. ASSUME NEW d \in Drafts, NEW i \in DOMAIN lines[d], DeleteRow(d, i) PROVE MovesInv'
  <2>1. i \in 1..Len(lines[d])
    BY <1>0
  <2> QED
    BY <1>0, <1>4, <2>1, DeletionMoves
<1>5. ASSUME NEW to, Visit(to) PROVE MovesInv'
  BY <1>0, <1>5, UndisturbedMoves DEF Visit
<1>6. ASSUME NEW d \in Drafts, NEW choice, AddLine(d, choice) PROVE MovesInv'
  BY <1>0, <1>6, UndisturbedMoves DEF AddLine
<1>7. ASSUME UNCHANGED bufferVars PROVE MovesInv'
  BY <1>0, <1>7, UndisturbedMoves DEF bufferVars
<1> QED
  BY <1>1, <1>2, <1>3, <1>4, <1>5, <1>6, <1>7 DEF BufferNext

\* What leaves the buffer is in an estimate, or the user had a hand on it.
Leaves(d) == \A row \in ToSet(buffer) \ ToSet(buffer') : row.of \in contested \/ row \in ToSet(lines'[d])

LEMMA StepMovesItems ==
  ASSUME BufferTyped, BufferTyped', MovesInv, [BufferNext]_bufferVars, quantities' = quantities
  PROVE  \E d \in Drafts : Leaves(d)
<1>0. /\ buffer \in Seq(RowRecord) /\ buffer' \in Seq(RowRecord) /\ fetches \in Seq(FetchRecord)
      /\ lines' \in [Drafts -> Seq(RowRecord)]
  BY DEF BufferTyped
<1>1. PICK any \in Drafts : TRUE
  BY DEF MovesInv
<1>2. CASE \A row : Has(buffer, row) => Has(buffer', row)
  <2>1. ToSet(buffer) \subseteq ToSet(buffer')
    BY <1>0, <1>2, ListHas
  <2> QED
    BY <1>1, <2>1 DEF Leaves
<1>3. ASSUME NEW thing \in Things, NEW onBuffer \in BOOLEAN, NEW quantity \in 0..Most, Touch(thing, onBuffer, quantity)
      PROVE  \E d \in Drafts : Leaves(d)
  <2>1. quantity \in Nat
    BY MostAssumption
  <2>2. \A row : Has(buffer, row) => Has(buffer', row)
    BY <1>3, <2>1, TouchFacts DEF MovesInv
  <2> QED
    BY <1>2, <2>2
<1>4. ASSUME NEW i \in DOMAIN fetches, Fetched(i) PROVE \E d \in Drafts : Leaves(d)
  <2>1. i \in 1..Len(fetches)
    BY <1>0
  <2>2. PICK ready, rest : Taken(i, ready, rest)
    BY <1>4, <2>1, FetchedTakes
  <2>3. CASE buffer' = buffer
    BY <1>2, <2>3
  <2>4. CASE fetches[i].pastes /\ rest = <<>>
    <3> DEFINE at == fetches[i].draft
    <3>1. at \in Drafts /\ \A row : Has(fetches[i].left, row) => Has(ready, row) \/ Has(rest, row)
      BY <2>1, <2>2, TakenHas
    <3>2. /\ \A row : \A d \in Drafts : Has(lines[d], row) => Has(lines'[d], row)
          /\ editor[at] = "open" => \A row : Has(ready, row) => Has(lines'[at], row)
      BY <2>1, <2>2, TakenHas
    <3>3. \A row : ~Has(rest, row)
      BY <2>4 DEF Has
    <3>4. Due(i)
      BY <2>1, <2>4 DEF MovesInv
    <3> SUFFICES ASSUME NEW row \in ToSet(buffer) PROVE row.of \in contested \/ row \in ToSet(lines'[at])
      BY <3>1 DEF Leaves
    <3>5. Has(buffer, row) /\ row.of \in Things
      BY <1>0, ListHas
    <3>6. CASE Things \subseteq contested
      BY <3>5, <3>6
    <3>7. CASE editor[at] = "open" /\ Delivers(buffer, lines[at], fetches[i].left, contested)
      <4>1. row.of \in contested \/ Has(lines[at], row) \/ Has(fetches[i].left, row)
        BY <3>5, <3>7 DEF Delivers, Has
      <4>2. row.of \in contested \/ Has(lines'[at], row)
        BY <3>1, <3>2, <3>3, <3>7, <4>1
      <4>3. lines'[at] \in Seq(RowRecord)
        BY <1>0, <3>1
      <4> HIDE DEF at
      <4> QED
        BY <4>2, <4>3, ListHas
    <3> QED
      BY <3>4, <3>6, <3>7 DEF Due
  <2> QED
    BY <2>2, <2>3, <2>4 DEF Taken
<1>5. ASSUME NEW d \in Drafts, PasteBuffer(d) PROVE \E other \in Drafts : Leaves(other)
  <2>1. PICK ready, rest : Pasted(d, ready, rest)
    BY <1>5, PasteTakes
  <2>2. CASE buffer' = buffer
    BY <1>2, <2>2
  <2>3. CASE rest = <<>>
    <3>1. /\ ready \in Seq(RowRecord) /\ rest \in Seq(RowRecord) /\ lines[d] \in Seq(RowRecord) /\ lines'[d] \in Seq(RowRecord)
          /\ Joins(buffer, ready, rest) /\ Joins(lines'[d], lines[d], ready)
      BY <2>1 DEF Pasted, BufferTyped
    <3>2. \A row : Has(buffer, row) <=> Has(ready, row) \/ Has(rest, row)
      BY <1>0, <3>1, JoinedTells
    <3>3. \A row : Has(lines'[d], row) <=> Has(lines[d], row) \/ Has(ready, row)
      BY <3>1, JoinedTells
    <3>4. \A row : ~Has(rest, row)
      BY <2>3 DEF Has
    <3>5. ToSet(buffer) \subseteq ToSet(lines'[d])
      BY <1>0, <3>1, <3>2, <3>3, <3>4, ListHas
    <3> QED
      BY <3>5 DEF Leaves
  <2> QED
    BY <2>1, <2>2, <2>3 DEF Pasted
<1>6. CASE buffer' = buffer
  BY <1>2, <1>6
<1>7. \/ buffer' = buffer
      \/ \E thing \in Things, onBuffer \in BOOLEAN, quantity \in 0..Most : Touch(thing, onBuffer, quantity)
      \/ \E i \in DOMAIN fetches : Fetched(i)
      \/ \E d \in Drafts : PasteBuffer(d)
  <2>1. \A i : FetchFails(i) => buffer' = buffer
    BY DEF FetchFails
  <2>2. \A d : OpenEstimate(d) \/ CloseEstimate(d) => buffer' = buffer
    BY DEF OpenEstimate, CloseEstimate
  <2>3. \A d, i : DeleteRow(d, i) => buffer' = buffer
    BY DEF DeleteRow
  <2>4. \A to : Visit(to) => buffer' = buffer
    BY DEF Visit
  <2>5. \A d, choice : AddLine(d, choice) => buffer' = buffer
    BY DEF AddLine
  <2>6. UNCHANGED bufferVars => buffer' = buffer
    BY DEF bufferVars
  <2> QED
    BY <2>1, <2>2, <2>3, <2>4, <2>5, <2>6 DEF BufferNext
<1> QED
  BY <1>3, <1>4, <1>5, <1>6, <1>7

LEMMA MovesStart ==
  ASSUME BufferInit
  PROVE  MovesInv
<1>1. BufferTyped /\ \A thing \in Things : \A i, j \in Places(buffer, thing) : i = j
  BY BufferStarts
<1>2. quantities = [key \in Keys |-> 0] /\ fetches = <<>> /\ Drafts # {}
  BY DEF BufferInit
<1>3. \A i \in 1..Len(buffer) : quantities[<<"buffer", buffer[i].of>>] = 0
  <2> TAKE i \in 1..Len(buffer)
  <2>1. buffer[i] \in RowRecord
    BY <1>1 DEF BufferTyped
  <2>2. <<"buffer", buffer[i].of>> \in Keys
    BY <2>1 DEF RowRecord, Keys
  <2> QED
    BY <1>2, <2>2
<1>4. BufferInOrder
  BY <1>1, <1>3 DEF BufferInOrder
<1> QED
  BY <1>2, <1>4 DEF MovesInv

(* What leaves the buffer other than by its own stepper is in an estimate, *)
(* however many records are awaited, fail or come late, except what the    *)
(* user changed on either side meanwhile (addBufferToEstimate).            *)
THEOREM BufferIsMoved == BufferSpec => BufferMovesItsItems
<1>1. BufferInit => SteppersInv /\ MovesInv
  BY SteppersStart, MovesStart
<1>2. SteppersInv /\ SteppersInv' => BufferTyped /\ BufferTyped'
  BY DEF SteppersInv
<1>3. SteppersInv /\ SteppersInv' /\ MovesInv /\ [BufferNext]_bufferVars =>
        [quantities' = quantities =>
           \E d \in Drafts : \A row \in ToSet(buffer) \ ToSet(buffer') :
             row.of \in contested \/ row \in ToSet(lines'[d])]_bufferVars
  BY <1>2, StepMovesItems DEF Leaves
<1> QED
  BY <1>1, <1>3, SteppersStay, MovesStay, PTL DEF BufferSpec, BufferMovesItsItems
=============================================================================
