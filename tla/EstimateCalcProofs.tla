------------------------- MODULE EstimateCalcProofs -------------------------
(***************************************************************************)
(* Proofs about EstimateCalc for every number of lines, saves, starts,     *)
(* consumers, attempts, cancels and faults, and about CalcJobs for every   *)
(* number of workers beside them.                                          *)
(*                                                                         *)
(* TypeInv, inductive by itself, is the type invariant with what open      *)
(* requests and busy consumers know.  Each safety invariant is proved on   *)
(* top of it: with what open saves have read (DoneInv), with the age of    *)
(* the events (IdsGrow), or alone.                                         *)
(***************************************************************************)
EXTENDS CalcJobs, FiniteSetTheorems, TLAPS

-----------------------------------------------------------------------------
(* The inductive invariant.                                                *)

\* A request that has read the header works with a district and an FGIS set.
RequestsKnowHeader ==
  /\ \A s \in Saves : save[s].phase \notin {"new", "end"} => save[s].env \in Envs
  /\ \A t \in Starts : start[t].phase \notin {"new", "end"} => start[t].env \in Envs

\* A consumer that is not idle works on a message.
BusyConsumersHaveMessage ==
  \A c \in Consumers : cons[c] # Idle => cons[c].msg \in Message

\* The results an open save has read and may put back fit their revision.
SnapshotFits(old) ==
  old # None /\ old.status = "done" =>
    /\ old.rev # None
    /\ old.result = Price(old.rev)

SnapshotsFit ==
  \A s \in Saves : \A l \in Lines : save[s].phase = "open" => SnapshotFits(save[s].old[l])

\* The id of the next event is above the id of every event the publisher knows.
IdsGrow ==
  \A m \in outbox \cup fetched \cup ({sent} \ {None}) : m.id < nextId

TypeInv == TypeOK /\ RequestsKnowHeader /\ BusyConsumersHaveMessage

-----------------------------------------------------------------------------
(* Lemmas about the data.                                                  *)

\* What a document is: a function from some lines to what they ask for.
LEMMA DocumentElim ==
  ASSUME NEW d \in Document
  PROVE  /\ DOMAIN d \subseteq Lines
         /\ d \in [DOMAIN d -> Specs]
         /\ \A l \in DOMAIN d : d[l] \in Specs
BY DEF Document

LEMMA DocumentIntro ==
  ASSUME NEW D \in SUBSET Lines, NEW d \in [D -> Specs]
  PROVE  d \in Document
BY DEF Document

LEMMA NoLinesIsDocument == NoLines \in Document
<1>1. NoLines \in [{} -> Specs]
  BY DEF NoLines
<1> QED
  BY <1>1, DocumentIntro

\* Restricting a document to some of its lines gives a document.
LEMMA DocumentRestrict ==
  ASSUME NEW d \in Document, NEW S \in SUBSET DOMAIN d
  PROVE  /\ [l \in S |-> d[l]] \in Document
         /\ DOMAIN [l \in S |-> d[l]] = S
<1>1. [l \in S |-> d[l]] \in [S -> Specs]
  BY DocumentElim
<1>2. S \in SUBSET Lines
  BY DocumentElim
<1> QED
  BY <1>1, <1>2, DocumentIntro

\* A revision built from a specification, a header and a generation is one.
LEMMA RevisionOfType ==
  ASSUME NEW spec \in Specs, NEW e \in Envs, NEW g \in Nat
  PROVE  /\ RevisionOf(spec, e, g) \in Revision
         /\ RevisionOf(spec, e, g) # None
         /\ RevisionOf(spec, e, g).spec = spec
         /\ RevisionOf(spec, e, g).env = e
         /\ RevisionOf(spec, e, g).gen = g
BY NoneAssumption DEF RevisionOf, Revision

LEMMA PriceType ==
  ASSUME NEW r \in Revision
  PROVE  Price(r) \in Result
BY DEF Price, Result, Revision

\* Counting lines gives a natural number.
LEMMA CountType ==
  ASSUME NEW S \in SUBSET Lines
  PROVE  Cardinality(S) \in Nat
BY LinesAssumption, FS_Subset, FS_CardinalityType

LEMMA NotBelowZeroType ==
  ASSUME NEW n \in Int
  PROVE  NotBelowZero(n) \in Nat
BY DEF NotBelowZero

\* The counters row a transaction locks.
LEMMA LockedType ==
  ASSUME TypeOK
  PROVE  /\ Locked \in CalcState
         /\ Locked.total \in Nat /\ Locked.done \in Nat /\ Locked.errors \in Nat
<1>1. Locked \in CalcState
  BY DEF TypeOK, Locked, EmptyState, CalcState
<1>2. \A st \in CalcState : st.total \in Nat /\ st.done \in Nat /\ st.errors \in Nat
  BY DEF CalcState
<1> QED
  BY <1>1, <1>2

\* Reconciling keeps the counters row a counters row.
LEMMA ReconciledType ==
  ASSUME TypeOK, NEW st, NEW js
  PROVE  Reconciled(st, js) \in CalcState \cup {None}
<1> DEFINE finished == {l \in Existing : st[l] = "done"}
           broken == {l \in Existing : st[l] \in {"failed", "dead"}}
<1>1. /\ Cardinality(Existing) \in Nat
      /\ Cardinality(finished) \in Nat
      /\ Cardinality(broken) \in Nat
  <2>1. /\ Existing \in SUBSET Lines
        /\ finished \in SUBSET Lines
        /\ broken \in SUBSET Lines
    BY DEF Existing
  <2> QED
    BY <2>1, CountType
<1>2. state \in CalcState \cup {None}
  BY DEF TypeOK
<1> HIDE DEF finished, broken
<1>3. Reconciled(st, js) = state \/
      \E v \in {"done", "running"} :
        Reconciled(st, js) = [state EXCEPT !.total = Cardinality(Existing),
                                       !.done = Cardinality(finished),
                                       !.errors = Cardinality(broken), !.status = v]
                         /\ state # None
  BY DEF Reconciled, finished, broken
<1> QED
  BY <1>1, <1>2, <1>3 DEF CalcState

\* Cancelling jobs and asking for revisions keep the job rows well formed.
LEMMA KilledType ==
  ASSUME TypeOK, NEW D
  PROVE  Killed(D) \subseteq Job
<1>1. \A j \in Job : [j EXCEPT !.status = "dead", !.due = FALSE] \in Job
  BY DEF Job
<1> QED
  BY <1>1 DEF Killed, TypeOK

LEMMA RequeuedType ==
  ASSUME TypeOK, NEW S \in SUBSET (Lines \X Revision)
  PROVE  Requeued(S) \subseteq Job
<1>1. \A j \in Job : [j EXCEPT !.status = "queued", !.due = TRUE] \in Job
  BY DEF Job, Live
<1>2. \A k \in S : NewJob(k) \in Job
  BY DEF NewJob, Job, Live, TypeOK
<1> QED
  BY <1>1, <1>2 DEF Requeued, TypeOK

\* Queueing some lines keeps the line rows, the jobs and the events well formed.
LEMMA EnqueueLinesType ==
  ASSUME TypeOK, NEW asked \in Document, NEW e \in Envs, NEW g \in Nat,
         EnqueueLines(asked, e, g)
  PROVE  /\ status' \in [Lines -> LineStatus]
         /\ rev' \in [Lines -> Revision \cup {None}]
         /\ result' \in [Lines -> Result \cup {None}]
         /\ outbox' \subseteq Message
         /\ jobs' \subseteq Job
         /\ nextId' \in Nat
<1>1. \A l \in DOMAIN asked : l \in Lines /\ RevisionOf(asked[l], e, g) \in Revision
  BY DocumentElim, RevisionOfType
<1>2. \A l \in DOMAIN asked :
        [id |-> nextId, line |-> l, rev |-> RevisionOf(asked[l], e, g), attempt |-> 1] \in Message
  BY <1>1 DEF TypeOK, Message
<1>3. status' \in [Lines -> LineStatus]
  BY DEF EnqueueLines, TypeOK, LineStatus
<1>4. rev' \in [Lines -> Revision \cup {None}]
  BY <1>1 DEF EnqueueLines, TypeOK
<1>5. result' \in [Lines -> Result \cup {None}]
  BY DEF EnqueueLines, TypeOK
<1>6. outbox' \subseteq Message
  BY <1>2 DEF EnqueueLines, TypeOK
<1>7. nextId' \in Nat
  BY DEF EnqueueLines, TypeOK
<1>8. jobs' \subseteq Job
  <2> DEFINE S == {<<l, RevisionOf(asked[l], e, g)>> : l \in DOMAIN asked}
  <2>1. S \in SUBSET (Lines \X Revision)
    BY <1>1
  <2>2. jobs' = jobs \/ jobs' = Requeued(S)
    BY DEF EnqueueLines
  <2> HIDE DEF S
  <2> QED
    BY <2>1, <2>2, RequeuedType DEF TypeOK
<1> QED
  BY <1>3, <1>4, <1>5, <1>6, <1>7, <1>8

LEMMA ReceiptsWithoutType ==
  ASSUME TypeOK, NEW S
  PROVE  ReceiptsWithout(S) \subseteq Lines \X Revision
BY DEF ReceiptsWithout, TypeOK

-----------------------------------------------------------------------------
(* Type correctness.                                                       *)

LEMMA TypeInit == Init => TypeInv
<1> SUFFICES ASSUME Init
             PROVE  TypeInv
  OBVIOUS
<1>1. PICK doc \in Document :
        /\ content = [l \in Lines |-> IF l \in DOMAIN doc THEN doc[l] ELSE None]
        /\ rev = [l \in Lines |->
                    IF l \in DOMAIN doc THEN RevisionOf(doc[l], env, 0) ELSE None]
  BY DEF Init
<1>2. content \in [Lines -> Specs \cup {None}]
  BY <1>1, DocumentElim
<1>3. rev \in [Lines -> Revision \cup {None}]
  <2>1. \A l \in DOMAIN doc : RevisionOf(doc[l], env, 0) \in Revision
    BY DocumentElim, RevisionOfType DEF Init
  <2> QED
    BY <1>1, <2>1
<1>4. NewSave \in SaveRecord
  BY NoLinesIsDocument DEF NewSave, SaveRecord
<1>5. NewStart \in StartRecord
  BY NoLinesIsDocument DEF NewStart, StartRecord
<1>6. Idle \in ConsumerRecord
  BY DEF Idle, ConsumerRecord
<1>7. TypeOK
  BY <1>2, <1>3, <1>4, <1>5, <1>6 DEF Init, TypeOK, LineStatus
<1>8. RequestsKnowHeader
  BY DEF Init, RequestsKnowHeader, NewSave, NewStart
<1>9. BusyConsumersHaveMessage
  BY DEF Init, BusyConsumersHaveMessage
<1> QED
  BY <1>7, <1>8, <1>9 DEF TypeInv

\* The steps of a save.
LEMMA TypeSave ==
  ASSUME TypeInv, NEW s \in Saves, SaveStep(s)
  PROVE  TypeInv'
<1> USE DEF header, lineVars, calcVars, events, server, publisher, queues
<1>1. ASSUME NEW doc \in Document, NEW e \in Envs, BeginSave(s, doc, e)
      PROVE  TypeInv'
  <2>1. save'[s] \in SaveRecord
    BY <1>1, NoLinesIsDocument DEF BeginSave, TypeInv, TypeOK, SaveRecord, StoredLine
  <2> QED
    BY <1>1, <2>1 DEF BeginSave, TypeInv, TypeOK, RequestsKnowHeader, BusyConsumersHaveMessage
<1>2. ASSUME CommitSave(s)
      PROVE  TypeInv'
  <2> DEFINE sv == save[s]
  <2>1. /\ sv.phase = "open" /\ sv.doc \in Document /\ sv.env \in Envs /\ sv.gen \in Nat
        /\ sv.old \in [Lines -> StoredLine \cup {None}]
    BY <1>2 DEF CommitSave, TypeInv, TypeOK, SaveRecord, RequestsKnowHeader
  <2>2. content' \in [Lines -> Specs \cup {None}]
    BY <1>2, <2>1, DocumentElim DEF CommitSave
  <2>3. rev' \in [Lines -> Revision \cup {None}]
    <3>1. \A l \in DOMAIN sv.doc : RevisionOf(sv.doc[l], sv.env, sv.gen) \in Revision
      BY <2>1, DocumentElim, RevisionOfType
    <3> QED
      BY <1>2, <3>1 DEF CommitSave
  <2>4. /\ status' \in [Lines -> LineStatus]
        /\ result' \in [Lines -> Result \cup {None}]
    BY <1>2, <2>1 DEF CommitSave, KeepsResult, StoredLine, LineStatus
  <2>5. state' \in CalcState \cup {None}
    <3> DEFINE n == Cardinality({l \in RemovedBy(sv) : <<sv.gen, l>> \in rows})
    <3>1. n \in Nat
      <4>1. {l \in RemovedBy(sv) : <<sv.gen, l>> \in rows} \in SUBSET Lines
        BY DEF RemovedBy
      <4> QED
        BY <4>1, CountType
    <3> HIDE DEF n
    <3>2. Locked \in CalcState /\ Locked.total \in Nat /\ Locked.done \in Nat
      BY LockedType DEF TypeInv
    <3>3. /\ NotBelowZero(Locked.done - n) \in Nat
          /\ NotBelowZero(Locked.total - n) \in Nat
      <4>1. Locked.done - n \in Int /\ Locked.total - n \in Int
        BY <3>1, <3>2
      <4> QED
        BY <4>1, NotBelowZeroType
    <3>4. state' = state \/
          state' = [Locked EXCEPT !.done = NotBelowZero(@ - n), !.total = NotBelowZero(@ - n)]
      BY <1>2 DEF CommitSave, n
    <3> QED
      BY <3>2, <3>3, <3>4 DEF CalcState, TypeInv, TypeOK
  <2>6. receipts' \subseteq Lines \X Revision
    BY <1>2, ReceiptsWithoutType DEF CommitSave, TypeInv
  <2>7. rows' \subseteq Nat \X Lines /\ outbox' \subseteq Message /\ jobs' \subseteq Job
    BY <1>2, KilledType DEF CommitSave, TypeInv, TypeOK
  <2>8. save'[s] \in SaveRecord
    <3>1. EnqueuedBy(sv) \in Document
      <4>1. {k \in DOMAIN sv.doc : ~KeepsResult(sv, k)} \in SUBSET DOMAIN sv.doc
        OBVIOUS
      <4> QED
        BY <2>1, <4>1, DocumentRestrict DEF EnqueuedBy
    <3>2. NewSave.old \in [Lines -> StoredLine \cup {None}]
      BY DEF NewSave
    <3>3. PICK p \in {"end", "check"} :
            save'[s] = [sv EXCEPT !.lines = EnqueuedBy(sv), !.phase = p,
                                  !.old = NewSave.old, !.doc = NoLines]
      BY <1>2 DEF CommitSave, TypeInv, TypeOK, SaveRecord
    <3>4. sv \in SaveRecord
      BY DEF TypeInv, TypeOK
    <3> HIDE DEF sv
    <3> QED
      BY <3>1, <3>2, <3>3, <3>4, NoLinesIsDocument DEF SaveRecord
  <2>9. save' = [save EXCEPT ![s] = save'[s]] /\ save'[s].env = sv.env
    BY <1>2 DEF CommitSave, TypeInv, TypeOK, SaveRecord
  <2>10. TypeOK'
    BY <1>2, <2>1, <2>2, <2>3, <2>4, <2>5, <2>6, <2>7, <2>8, <2>9 DEF CommitSave, TypeInv, TypeOK
  <2>11. RequestsKnowHeader'
    BY <1>2, <2>1, <2>9 DEF CommitSave, TypeInv, TypeOK, RequestsKnowHeader
  <2> QED
    BY <1>2, <2>10, <2>11 DEF CommitSave, TypeInv, BusyConsumersHaveMessage
<1>3. [NewSave EXCEPT !.phase = "end"] \in SaveRecord
  BY NoLinesIsDocument DEF NewSave, SaveRecord
<1>4. ASSUME EndSave(s)
      PROVE  /\ save' \in [Saves -> SaveRecord]
             /\ \A o \in Saves : save'[o].phase \notin {"new", "end"} => save'[o].env \in Envs
  BY <1>3, <1>4 DEF EndSave, TypeInv, TypeOK, RequestsKnowHeader, NewSave
<1>5. ASSUME CheckAfterSave(s)
      PROVE  TypeInv'
  <2>1. /\ save' \in [Saves -> SaveRecord]
        /\ \A o \in Saves : save'[o].phase \notin {"new", "end"} => save'[o].env \in Envs
    <3>1. CASE EndSave(s)
      BY <3>1, <1>4
    <3>2. CASE save' = [save EXCEPT ![s].phase = "enqueue"]
      BY <1>5, <3>2 DEF CheckAfterSave, TypeInv, TypeOK, RequestsKnowHeader, SaveRecord
    <3> QED
      BY <1>5, <3>1, <3>2 DEF CheckAfterSave
  <2> QED
    BY <1>5, <2>1 DEF CheckAfterSave, TypeInv, TypeOK, RequestsKnowHeader, BusyConsumersHaveMessage
<1>6. ASSUME EnqueueAfterSave(s)
      PROVE  TypeInv'
  <2> DEFINE sv == save[s]
  <2>1. /\ sv.lines \in Document /\ sv.env \in Envs /\ sv.gen \in Nat
        /\ EnqueueLines(sv.lines, sv.env, sv.gen)
    BY <1>6 DEF EnqueueAfterSave, TypeInv, TypeOK, SaveRecord, RequestsKnowHeader
  <2>2. state' \in CalcState
    <3>1. Cardinality(DOMAIN sv.lines) \in Nat
      BY <2>1, DocumentElim, CountType
    <3>2. Locked \in CalcState /\ Locked.total \in Nat
      BY LockedType DEF TypeInv
    <3>3. state' = [Locked EXCEPT !.total = Locked.total + Cardinality(DOMAIN sv.lines),
                                  !.status = "running"]
      BY <1>6, <3>2 DEF EnqueueAfterSave, CalcState
    <3>4. Locked.total + Cardinality(DOMAIN sv.lines) \in Nat
      BY <3>1, <3>2
    <3> QED
      BY <3>2, <3>3, <3>4 DEF CalcState
  <2>3. receipts' \subseteq Lines \X Revision
    BY <1>6, ReceiptsWithoutType DEF EnqueueAfterSave, TypeInv
  <2> HIDE DEF sv
  <2>4. TypeOK'
    BY <1>4, <1>6, <2>1, <2>2, <2>3, EnqueueLinesType DEF EnqueueAfterSave, TypeInv, TypeOK
  <2> QED
    BY <1>4, <1>6, <2>4 DEF EnqueueAfterSave, TypeInv, RequestsKnowHeader, BusyConsumersHaveMessage
<1>7. ASSUME AfterSaveFails(s)
      PROVE  TypeInv'
  BY <1>4, <1>7 DEF AfterSaveFails, Fault, TypeInv, TypeOK, RequestsKnowHeader,
     BusyConsumersHaveMessage
<1> QED
  BY <1>1, <1>2, <1>5, <1>6, <1>7 DEF SaveStep

\* The body of a cancel keeps everything but the mark and the requests well typed.
LEMMA TypeCancelTx ==
  ASSUME TypeInv, CancelTx
  PROVE  /\ gen' \in Nat /\ env' = env /\ content' = content /\ rev' = rev
         /\ status' \in [Lines -> LineStatus]
         /\ result' \in [Lines -> Result \cup {None}]
         /\ rows' \subseteq Nat \X Lines
         /\ state' \in CalcState
         /\ receipts' = receipts
         /\ outbox' \subseteq Message /\ jobs' \subseteq Job /\ nextId' = nextId
         /\ marked' \in BOOLEAN
         /\ UNCHANGED <<publisher, queues, cons, faults>>
<1>1. gen + 1 \in Nat /\ env \in Envs
  BY DEF TypeInv, TypeOK
<1>2. state' = [EmptyState EXCEPT !.gen = gen + 1, !.env = env]
  BY DEF CancelTx
<1>3. state' \in CalcState
  BY <1>1, <1>2 DEF EmptyState, CalcState
<1>4. rows' \subseteq Nat \X Lines /\ outbox' \subseteq Message /\ jobs' \subseteq Job
  BY KilledType DEF CancelTx, TypeInv
<1> QED
  BY <1>1, <1>3, <1>4 DEF CancelTx, LineStatus, header, lineVars, calcVars, events, publisher,
     queues

\* The steps of a start.
LEMMA TypeStart ==
  ASSUME TypeInv, NEW t \in Starts, StartStep(t)
  PROVE  TypeInv'
<1> USE DEF header, lineVars, calcVars, events, server, publisher, queues
<1> DEFINE st == start[t]
           StartOK == /\ start' \in [Starts -> StartRecord]
                      /\ \A o \in Starts : start'[o].phase \notin {"new", "end"}
                                             => start'[o].env \in Envs
<1>1. st \in StartRecord /\ (st.phase \notin {"new", "end"} => st.env \in Envs)
  BY DEF TypeInv, TypeOK, RequestsKnowHeader
<1>2. NewStart \in StartRecord
  BY NoLinesIsDocument DEF NewStart, StartRecord
<1>3. ASSUME EndStart(t)
      PROVE  StartOK
  <2>1. [NewStart EXCEPT !.phase = "end"] \in StartRecord
    BY <1>2 DEF StartRecord
  <2> QED
    BY <1>3, <2>1 DEF EndStart, TypeInv, TypeOK, RequestsKnowHeader, NewStart
<1>4. ASSUME NEW r \in StartRecord, r.phase \notin {"new", "end"} => r.env \in Envs,
             start' = [start EXCEPT ![t] = r]
      PROVE  StartOK
  BY <1>4 DEF TypeInv, TypeOK, RequestsKnowHeader
<1>5. ASSUME StartOK, gen' \in Nat, env' \in Envs, save' = save, marked' \in BOOLEAN,
             content' \in [Lines -> Specs \cup {None}], status' \in [Lines -> LineStatus],
             rev' \in [Lines -> Revision \cup {None}], result' \in [Lines -> Result \cup {None}],
             rows' \subseteq Nat \X Lines, state' \in CalcState \cup {None},
             receipts' \subseteq Lines \X Revision, outbox' \subseteq Message, jobs' \subseteq Job,
             nextId' \in Nat, UNCHANGED <<publisher, queues, cons>>, faults' \in Nat
      PROVE  TypeInv'
  BY <1>5 DEF TypeInv, TypeOK, RequestsKnowHeader, BusyConsumersHaveMessage
<1>6. ASSUME StartOK, UNCHANGED <<header, lineVars, calcVars, events, save, publisher, queues, cons>>,
             marked' \in BOOLEAN, faults' \in Nat
      PROVE  TypeInv'
  <2> HIDE DEF StartOK
  <2> QED
    BY <1>5, <1>6 DEF TypeInv, TypeOK
<1> HIDE DEF StartOK
<1>7. ASSUME NEW force \in BOOLEAN, BeginStart(t, force)
      PROVE  TypeInv'
  <2>1. PICK p \in {"cancel", "mark"}, full \in BOOLEAN :
          start' = [start EXCEPT ![t] =
                      [NewStart EXCEPT !.phase = p, !.env = env, !.gen = gen, !.full = full]]
    BY <1>7 DEF BeginStart
  <2> DEFINE r == [NewStart EXCEPT !.phase = p, !.env = env, !.gen = gen, !.full = full]
  <2>2. r \in StartRecord /\ r.env \in Envs
    BY <1>2 DEF StartRecord, TypeInv, TypeOK, NewStart
  <2> HIDE DEF r
  <2>3. StartOK
    BY <1>4, <2>1, <2>2 DEF r
  <2> QED
    BY <1>6, <1>7, <2>3 DEF BeginStart, TypeInv, TypeOK
<1>8. ASSUME CancelForStart(t)
      PROVE  TypeInv'
  <2>1. StartOK
    <3>1. [st EXCEPT !.phase = "reread"] \in StartRecord
      BY <1>1 DEF StartRecord
    <3>2. st.env \in Envs /\ [st EXCEPT !.phase = "reread"].env = st.env
      BY <1>1, <1>8 DEF CancelForStart, StartRecord
    <3>3. start' = [start EXCEPT ![t] = [st EXCEPT !.phase = "reread"]]
      BY <1>8 DEF CancelForStart
    <3> QED
      BY <1>4, <3>1, <3>2, <3>3
  <2> QED
    BY <1>5, <1>8, <2>1, TypeCancelTx DEF CancelForStart, TypeInv, TypeOK
<1>9. ASSUME RereadForStart(t)
      PROVE  TypeInv'
  <2> DEFINE r == [st EXCEPT !.phase = "mark", !.env = env, !.gen = gen]
  <2>1. r \in StartRecord /\ r.env \in Envs
    BY <1>1 DEF StartRecord, TypeInv, TypeOK
  <2>2. start' = [start EXCEPT ![t] = r]
    BY <1>9 DEF RereadForStart
  <2> HIDE DEF r
  <2>3. StartOK
    BY <1>4, <2>1, <2>2
  <2> QED
    BY <1>6, <1>9, <2>3 DEF RereadForStart, TypeInv, TypeOK
<1>10. ASSUME MarkStart(t)
       PROVE  TypeInv'
  <2>1. StartOK
    <3>1. [st EXCEPT !.phase = "read"] \in StartRecord
      BY <1>1 DEF StartRecord
    <3>2. st.env \in Envs /\ [st EXCEPT !.phase = "read"].env = st.env
      BY <1>1, <1>10 DEF MarkStart, StartRecord
    <3>3. start' = [start EXCEPT ![t] = [st EXCEPT !.phase = "read"]]
      BY <1>10 DEF MarkStart
    <3> QED
      BY <1>4, <3>1, <3>2, <3>3
  <2>2. state' \in CalcState
    BY <1>1, <1>10 DEF MarkStart, EmptyState, CalcState, StartRecord
  <2> QED
    BY <1>5, <1>10, <2>1, <2>2 DEF MarkStart, TypeInv, TypeOK
<1>11. ASSUME GiveUpStart(t)
       PROVE  TypeInv'
  BY <1>3, <1>6, <1>11 DEF GiveUpStart, TypeInv, TypeOK
<1>12. ASSUME ReadLines(t)
       PROVE  TypeInv'
  <2> DEFINE todo == [l \in Candidates(st) |-> content[l]]
             n == Cardinality({l \in Existing : status[l] = "done"})
             r == [st EXCEPT !.phase = "prepare", !.todo = todo, !.doneBefore = n]
  <2>1. todo \in Document
    <3>1. Candidates(st) \in SUBSET Lines /\ \A l \in Candidates(st) : content[l] \in Specs
      BY DEF Candidates, Existing, Exists, TypeInv, TypeOK
    <3>2. todo \in [Candidates(st) -> Specs]
      BY <3>1
    <3> QED
      BY <3>1, <3>2, DocumentIntro
  <2>2. n \in Nat
    <3>1. {l \in Existing : status[l] = "done"} \in SUBSET Lines
      BY DEF Existing
    <3> QED
      BY <3>1, CountType
  <2>3. start' = [start EXCEPT ![t] = r]
    BY <1>12 DEF ReadLines
  <2> HIDE DEF todo, n
  <2>4. r \in StartRecord /\ r.env = st.env
    BY <1>1, <2>1, <2>2 DEF StartRecord
  <2>5. st.env \in Envs
    BY <1>1, <1>12 DEF ReadLines
  <2> HIDE DEF r
  <2>6. StartOK
    BY <1>4, <2>3, <2>4, <2>5
  <2> QED
    BY <1>6, <1>12, <2>6 DEF ReadLines, TypeInv, TypeOK
<1>13. ASSUME LeaveStart(t)
       PROVE  StartOK /\ marked' \in BOOLEAN
  BY <1>3, <1>13 DEF LeaveStart
<1>14. ASSUME st.phase \notin {"new", "end"}, start' = [start EXCEPT ![t].phase = "guard"]
       PROVE  StartOK
  <2>1. /\ [st EXCEPT !.phase = "guard"] \in StartRecord
        /\ [st EXCEPT !.phase = "guard"].env = st.env
    BY <1>1 DEF StartRecord
  <2> QED
    BY <1>1, <1>4, <1>14, <2>1
<1>15. Cardinality(DOMAIN st.todo) \in Nat
  <2>1. st.todo \in Document
    BY <1>1 DEF StartRecord
  <2> QED
    BY <2>1, DocumentElim, CountType
<1>16. ASSUME PrepareFull(t)
       PROVE  TypeInv'
  <2>1. StartOK /\ marked' \in BOOLEAN
    BY <1>13, <1>14, <1>16 DEF PrepareFull, TypeInv, TypeOK
  <2>2. state' \in CalcState
    BY <1>1, <1>15, <1>16 DEF PrepareFull, CalcState, StartRecord
  <2> QED
    BY <1>5, <1>16, <2>1, <2>2 DEF PrepareFull, TypeInv, TypeOK
<1>17. ASSUME PrepareResumed(t)
       PROVE  TypeInv'
  <2>1. StartOK
    BY <1>14, <1>17 DEF PrepareResumed
  <2>2. state' \in CalcState
    <3>1. st.doneBefore \in Nat
      BY <1>1 DEF StartRecord
    <3>2. st.doneBefore + Cardinality(DOMAIN st.todo) \in Nat
      BY <1>15, <3>1
    <3>3. [EmptyState EXCEPT !.done = st.doneBefore] \in CalcState
      BY <3>1 DEF EmptyState, CalcState
    <3>4. PICK old \in CalcState, total \in Nat :
            state' = [old EXCEPT !.gen = st.gen, !.env = st.env, !.status = "running",
                                 !.total = total]
      BY <1>17, <3>2, <3>3 DEF PrepareResumed, TypeInv, TypeOK
    <3> QED
      BY <1>1, <3>4 DEF CalcState, StartRecord
  <2> QED
    BY <1>5, <1>17, <2>1, <2>2 DEF PrepareResumed, TypeInv, TypeOK
<1>18. ASSUME NothingToResume(t)
       PROVE  TypeInv'
  <2>1. state' \in CalcState \cup {None}
    BY <1>18 DEF NothingToResume, TypeInv, TypeOK, CalcState
  <2> QED
    BY <1>5, <1>13, <1>18, <2>1 DEF NothingToResume, TypeInv, TypeOK
<1>19. ASSUME CheckGeneration(t)
       PROVE  TypeInv'
  <2>1. CASE start' = [start EXCEPT ![t].phase = "batch"] /\ UNCHANGED marked
    <3>1. /\ [st EXCEPT !.phase = "batch"] \in StartRecord
          /\ [st EXCEPT !.phase = "batch"].env \in Envs
      BY <1>1, <1>19 DEF StartRecord, CheckGeneration
    <3>2. StartOK
      BY <1>4, <2>1, <3>1
    <3> QED
      BY <1>6, <1>19, <2>1, <3>2 DEF CheckGeneration, TypeInv, TypeOK
  <2>2. CASE LeaveStart(t)
    BY <1>6, <1>13, <1>19, <2>2 DEF CheckGeneration, TypeInv, TypeOK
  <2> QED
    BY <1>19, <2>1, <2>2 DEF CheckGeneration
<1>20. ASSUME PostBatch(t)
       PROVE  TypeInv'
  <2>1. PICK batch \in SUBSET DOMAIN st.todo :
          /\ EnqueueLines([l \in batch |-> st.todo[l]], st.env, st.gen)
          /\ receipts' = IF st.first /\ st.full THEN {} ELSE ReceiptsWithout(batch)
          /\ start' = [start EXCEPT ![t].phase = "guard", ![t].first = FALSE,
                         ![t].todo = [l \in DOMAIN st.todo \ batch |-> st.todo[l]]]
    BY <1>20 DEF PostBatch
  <2> DEFINE asked == [l \in batch |-> st.todo[l]]
             rest == [l \in DOMAIN st.todo \ batch |-> st.todo[l]]
             r == [st EXCEPT !.phase = "guard", !.first = FALSE, !.todo = rest]
  <2>2. asked \in Document /\ rest \in Document
    <3>1. st.todo \in Document
      BY <1>1 DEF StartRecord
    <3> QED
      BY <3>1, DocumentRestrict
  <2>3. st.env \in Envs /\ st.gen \in Nat
    BY <1>1, <1>20 DEF PostBatch, StartRecord
  <2>4. start' = [start EXCEPT ![t] = r]
    BY <2>1
  <2> HIDE DEF rest
  <2>5. r \in StartRecord /\ r.env = st.env
    BY <1>1, <2>2 DEF StartRecord
  <2> HIDE DEF asked, r
  <2>6. StartOK
    BY <1>4, <2>3, <2>4, <2>5
  <2>7. receipts' \subseteq Lines \X Revision
    BY <2>1, ReceiptsWithoutType DEF TypeInv
  <2>8. EnqueueLines(asked, st.env, st.gen)
    BY <2>1 DEF asked
  <2> HIDE DEF st
  <2> QED
    BY <1>5, <1>20, <2>2, <2>3, <2>6, <2>7, <2>8, EnqueueLinesType DEF PostBatch, TypeInv, TypeOK
<1>21. ASSUME StartFails(t)
       PROVE  TypeInv'
  BY <1>6, <1>13, <1>21 DEF StartFails, Fault, TypeInv, TypeOK
<1> QED
  BY <1>7, <1>8, <1>9, <1>10, <1>11, <1>12, <1>16, <1>17, <1>18, <1>19, <1>20, <1>21
  DEF StartStep

\* The steps of the server that no request of its own carries.
LEMMA TypeServer ==
  ASSUME TypeInv, Cancel \/ CrashServer \/ Summarize
  PROVE  TypeInv'
<1> USE DEF header, lineVars, calcVars, events, server, publisher, queues
<1>1. CASE Cancel
  BY <1>1, TypeCancelTx DEF Cancel, TypeInv, TypeOK, RequestsKnowHeader, BusyConsumersHaveMessage
<1>2. CASE CrashServer
  <2>1. /\ [NewSave EXCEPT !.phase = "end"] \in SaveRecord
        /\ [NewStart EXCEPT !.phase = "end"] \in StartRecord
    BY NoLinesIsDocument DEF NewSave, NewStart, SaveRecord, StartRecord
  <2>2. TypeOK'
    <3>1. save' \in [Saves -> SaveRecord] /\ start' \in [Starts -> StartRecord]
      BY <1>2, <2>1 DEF CrashServer, TypeInv, TypeOK
    <3>2. faults' \in Nat
      BY <1>2 DEF CrashServer, Fault, TypeInv, TypeOK
    <3> QED
      BY <1>2, <3>1, <3>2 DEF CrashServer, TypeInv, TypeOK
  <2>3. RequestsKnowHeader'
    BY <1>2 DEF CrashServer, TypeInv, RequestsKnowHeader, NewSave, NewStart
  <2> QED
    BY <1>2, <2>2, <2>3 DEF CrashServer, TypeInv, BusyConsumersHaveMessage
<1>3. CASE Summarize
  <2>1. state' \in CalcState \cup {None}
    BY <1>3, ReconciledType DEF Summarize, TypeInv
  <2> QED
    BY <1>3, <2>1 DEF Summarize, TypeInv, TypeOK, RequestsKnowHeader, BusyConsumersHaveMessage
<1> QED
  BY <1>1, <1>2, <1>3

\* The steps of the publisher and of the broker.
LEMMA TypePublisher ==
  ASSUME TypeInv, PublisherStep
  PROVE  TypeInv'
<1> USE DEF header, lineVars, calcVars, events, server, publisher, queues, TypeInv, TypeOK,
            RequestsKnowHeader, BusyConsumersHaveMessage
<1>1. CASE FetchEvents
  BY <1>1 DEF FetchEvents
<1>2. CASE MarkPublished
  BY <1>2 DEF MarkPublished
<1>3. CASE MarkFails
  BY <1>3 DEF MarkFails, Fault
<1>4. ASSUME NEW m \in fetched, PublishEvent(m)
      PROVE  TypeInv'
  BY <1>4 DEF PublishEvent
<1>5. ASSUME NEW m \in fetched, NEW reached \in BOOLEAN, ConfirmLost(m, reached)
      PROVE  TypeInv'
  BY <1>5 DEF ConfirmLost, Fault
<1> QED
  BY <1>1, <1>2, <1>3, <1>4, <1>5 DEF PublisherStep

LEMMA TypeBroker ==
  ASSUME TypeInv, BrokerStep
  PROVE  TypeInv'
<1> USE DEF header, lineVars, calcVars, events, server, publisher, queues, TypeInv, TypeOK,
            RequestsKnowHeader, BusyConsumersHaveMessage
<1>1. ASSUME NEW m \in retry, RetryExpires(m)
      PROVE  TypeInv'
  BY <1>1 DEF RetryExpires
<1>2. ASSUME NEW m \in dlq, ReplayDead(m)
      PROVE  TypeInv'
  <2>1. [m EXCEPT !.attempt = 1] \in Message
    BY DEF Message
  <2> QED
    BY <1>2, <2>1 DEF ReplayDead, Fault
<1> QED
  BY <1>1, <1>2 DEF BrokerStep

\* Failing a job's line keeps statuses and counters well formed.
LEMMA FailTxType ==
  ASSUME TypeOK, NEW m, NEW js, FailTx(m, js)
  PROVE  /\ status' \in [Lines -> LineStatus]
         /\ state' \in CalcState \cup {None}
<1>1. status' \in [Lines -> LineStatus]
  BY DEF FailTx, TypeOK, LineStatus
<1>2. state' \in CalcState \cup {None}
  <2>1. PICK after : state' = Reconciled(after, js) \/ state' = state
    BY DEF FailTx
  <2> QED
    BY <2>1, ReconciledType DEF TypeOK
<1> QED
  BY <1>1, <1>2

\* Recording a result keeps the line, its row, its receipt and the counters well formed.
LEMMA RecordDoneType ==
  ASSUME TypeOK, NEW m, m.line \in Lines, m.rev \in Revision, RecordDone(m)
  PROVE  /\ content' \in [Lines -> Specs \cup {None}]
         /\ status' \in [Lines -> LineStatus]
         /\ result' \in [Lines -> Result \cup {None}]
         /\ rows' \subseteq Nat \X Lines
         /\ state' \in CalcState
         /\ receipts' \subseteq Lines \X Revision
<1>1. m.rev.spec \in Specs /\ m.rev.gen \in Nat /\ Price(m.rev) \in Result
  BY PriceType DEF Revision
<1>2. PICK g \in Nat, add \in {0, 1} :
        /\ rows' = rows \cup {<<g, m.line>>}
        /\ \E v \in {"done", "running"} :
             state' = [Locked EXCEPT !.gen = g, !.done = @ + add, !.status = v]
  BY <1>1 DEF RecordDone, TypeOK
<1>3. Locked \in CalcState /\ Locked.done \in Nat
  BY LockedType
<1>4. PICK v \in {"done", "running"} :
        state' = [Locked EXCEPT !.gen = g, !.done = Locked.done + add, !.status = v]
  BY <1>2, <1>3 DEF CalcState
<1>5. state' \in CalcState
  <2>1. Locked.done + add \in Nat
    BY <1>3
  <2> QED
    BY <1>3, <1>4, <2>1 DEF CalcState
<1>6. /\ content' \in [Lines -> Specs \cup {None}]
      /\ status' \in [Lines -> LineStatus]
      /\ result' \in [Lines -> Result \cup {None}]
      /\ receipts' \subseteq Lines \X Revision
  <2>1. /\ content' = [content EXCEPT ![m.line] = m.rev.spec]
        /\ status' = [status EXCEPT ![m.line] = "done"]
        /\ result' = [result EXCEPT ![m.line] = Price(m.rev)]
        /\ receipts' = receipts \cup {<<m.line, m.rev>>}
    BY DEF RecordDone
  <2>2. "done" \in LineStatus
    BY DEF LineStatus
  <2> QED
    BY <1>1, <2>1, <2>2 DEF TypeOK
<1>7. rows' \subseteq Nat \X Lines
  BY <1>2 DEF TypeOK
<1> QED
  BY <1>5, <1>6, <1>7

\* The steps of a consumer.
LEMMA TypeConsumer ==
  ASSUME TypeInv, NEW c \in Consumers, ConsumerStep(c)
  PROVE  TypeInv'
<1> USE DEF header, lineVars, calcVars, events, server, publisher, queues
<1> DEFINE k == cons[c]
           ConsOK == /\ cons' \in [Consumers -> ConsumerRecord]
                     /\ \A d \in Consumers : cons'[d] # Idle => cons'[d].msg \in Message
<1>1. k \in ConsumerRecord /\ (k # Idle => k.msg \in Message) /\ Idle \in ConsumerRecord
      /\ (k.phase # "idle" => k # Idle) /\ (k.held => k # Idle)
  BY DEF TypeInv, TypeOK, BusyConsumersHaveMessage, Idle, ConsumerRecord
<1>2. ASSUME NEW r \in ConsumerRecord, r # Idle => r.msg \in Message,
             cons' = [cons EXCEPT ![c] = r]
      PROVE  ConsOK
  BY <1>2 DEF TypeInv, TypeOK, BusyConsumersHaveMessage
<1>3. ASSUME cons' = [cons EXCEPT ![c] = Idle]
      PROVE  ConsOK
  BY <1>1, <1>2, <1>3
<1>4. ASSUME NEW p \in {"ack", "failing", "republish"}, NEW f \in BOOLEAN, k # Idle,
             \/ cons' = [cons EXCEPT ![c].phase = p]
             \/ cons' = [cons EXCEPT ![c].phase = p, ![c].fatal = f]
             \/ cons' = [cons EXCEPT ![c].held = FALSE]
      PROVE  ConsOK
  <2>1. PICK r \in {[k EXCEPT !.phase = p], [k EXCEPT !.phase = p, !.fatal = f],
                    [k EXCEPT !.held = FALSE]} : cons' = [cons EXCEPT ![c] = r]
    BY <1>4
  <2>2. r \in ConsumerRecord /\ r.msg = k.msg
    BY <1>1, <2>1 DEF ConsumerRecord
  <2> QED
    BY <1>1, <1>2, <1>4, <2>1, <2>2
<1>5. ASSUME ConsOK, UNCHANGED <<header, events, server, publisher>>,
             content' \in [Lines -> Specs \cup {None}], status' \in [Lines -> LineStatus],
             UNCHANGED rev, result' \in [Lines -> Result \cup {None}],
             rows' \subseteq Nat \X Lines, state' \in CalcState \cup {None},
             receipts' \subseteq Lines \X Revision,
             main' \subseteq Message, retry' \subseteq Message, dlq' \subseteq Message,
             faults' \in Nat
      PROVE  TypeInv'
  BY <1>5 DEF TypeInv, TypeOK, RequestsKnowHeader, BusyConsumersHaveMessage
<1> HIDE DEF ConsOK
<1>6. ASSUME ConsOK, UNCHANGED <<header, lineVars, calcVars, events, server, publisher>>,
             main' \subseteq Message, retry' \subseteq Message, dlq' \subseteq Message,
             faults' \in Nat
      PROVE  TypeInv'
  BY <1>5, <1>6 DEF TypeInv, TypeOK
<1>7. ASSUME NEW m \in main, Deliver(c, m)
      PROVE  TypeInv'
  <2>1. PICK p \in {"stale", "work", "ack"} :
          cons' = [cons EXCEPT ![c] = [Idle EXCEPT !.msg = m, !.held = TRUE, !.phase = p]]
    BY <1>7 DEF Deliver
  <2>2. [Idle EXCEPT !.msg = m, !.held = TRUE, !.phase = p] \in ConsumerRecord
        /\ [Idle EXCEPT !.msg = m, !.held = TRUE, !.phase = p].msg \in Message
    BY <1>1 DEF ConsumerRecord, Idle, TypeInv, TypeOK
  <2>3. ConsOK
    BY <1>2, <2>1, <2>2
  <2> QED
    BY <1>6, <1>7, <2>3 DEF Deliver, TypeInv, TypeOK
<1>18. ASSUME NEW m \in main, LookupFails(c, m)
       PROVE  TypeInv'
  <2>1. PICK p \in {"stale", "work"} :
          cons' = [cons EXCEPT ![c] = [Idle EXCEPT !.msg = m, !.held = TRUE, !.phase = p]]
    BY <1>18 DEF LookupFails
  <2>2. [Idle EXCEPT !.msg = m, !.held = TRUE, !.phase = p] \in ConsumerRecord
        /\ [Idle EXCEPT !.msg = m, !.held = TRUE, !.phase = p].msg \in Message
    BY <1>1 DEF ConsumerRecord, Idle, TypeInv, TypeOK
  <2>3. ConsOK
    BY <1>2, <2>1, <2>2
  <2> QED
    BY <1>6, <1>18, <2>3 DEF LookupFails, Fault, TypeInv, TypeOK
<1>8. CASE FailStale(c)
  BY <1>1, <1>4, <1>5, <1>8, FailTxType DEF FailStale, TypeInv, TypeOK
<1>9. CASE CompleteJob(c)
  <2> DEFINE m == k.msg
  <2>1. m \in Message /\ ConsOK
    BY <1>1, <1>4, <1>9 DEF CompleteJob
  <2>2. CASE RecordStale(m)
    BY <1>5, <1>9, <2>1, <2>2 DEF CompleteJob, RecordStale, TypeInv, TypeOK, LineStatus
  <2>3. CASE RecordDone(m)
    <3>1. m.line \in Lines /\ m.rev \in Revision
      BY <2>1 DEF Message
    <3> HIDE DEF m
    <3> QED
      BY <1>5, <1>9, <2>1, <2>3, <3>1, RecordDoneType DEF CompleteJob, TypeInv, TypeOK
  <2> QED
    BY <1>9, <2>2, <2>3 DEF CompleteJob
<1>10. ASSUME NEW fatal \in BOOLEAN, JobError(c, fatal)
       PROVE  TypeInv'
  BY <1>1, <1>4, <1>6, <1>10 DEF JobError, TypeInv, TypeOK
<1>11. CASE FailJob(c)
  BY <1>1, <1>4, <1>5, <1>11, FailTxType DEF FailJob, TypeInv, TypeOK
<1>12. CASE FailLost(c)
  BY <1>1, <1>4, <1>6, <1>12 DEF FailLost, Fault, TypeInv, TypeOK
<1>13. CASE Republish(c)
  <2>1. k.msg \in Message /\ ConsOK
    BY <1>1, <1>4, <1>13 DEF Republish
  <2>2. [k.msg EXCEPT !.attempt = @ + 1] \in Message
    BY <2>1 DEF Message
  <2> QED
    BY <1>6, <1>13, <2>1, <2>2 DEF Republish, TypeInv, TypeOK
<1>14. CASE RepublishFails(c)
  BY <1>1, <1>3, <1>6, <1>14 DEF RepublishFails, Fault, TypeInv, TypeOK
<1>15. CASE Ack(c)
  BY <1>1, <1>3, <1>6, <1>15 DEF Ack, TypeInv, TypeOK
<1>16. CASE LoseConnection(c)
  BY <1>1, <1>4, <1>6, <1>16 DEF LoseConnection, Fault, TypeInv, TypeOK
<1>17. CASE CrashWorker(c)
  BY <1>1, <1>3, <1>6, <1>17 DEF CrashWorker, Fault, TypeInv, TypeOK
<1> QED
  BY <1>7, <1>8, <1>9, <1>10, <1>11, <1>12, <1>13, <1>14, <1>15, <1>16, <1>17, <1>18
  DEF ConsumerStep

LEMMA TypeNext == TypeInv /\ [Next]_vars => TypeInv'
<1> SUFFICES ASSUME TypeInv, [Next]_vars
             PROVE  TypeInv'
  OBVIOUS
<1>1. CASE UNCHANGED vars
  BY <1>1 DEF TypeInv, TypeOK, RequestsKnowHeader, BusyConsumersHaveMessage, vars, header,
     lineVars, calcVars, events, server, publisher, queues
<1>2. CASE Next
  BY <1>2, TypeSave, TypeStart, TypeServer, TypePublisher, TypeConsumer, TypeBroker DEF Next
<1> QED
  BY <1>1, <1>2

\* Type correctness: every variable keeps its type, which includes that the
\* counters of the progress row never become negative.
THEOREM TypeCorrect == Spec => []TypeOK
<1>1. TypeInv => TypeOK
  BY DEF TypeInv
<1> QED
  BY <1>1, TypeInit, TypeNext, PTL DEF Spec

-----------------------------------------------------------------------------
(* Which steps touch the line rows, the receipts and the jobs.             *)

\* FailEstimateCalcJob changes line statuses only.
FailsLine(c) ==
  /\ FailTx(cons[c].msg, jobs)
  /\ UNCHANGED <<content, rev, result, receipts, jobs>>

\* CompleteEstimateCalcJob changes the line its message names.
CompletesLine(c) ==
  /\ IF rev[cons[c].msg.line] = cons[c].msg.rev
     THEN RecordDone(cons[c].msg) ELSE RecordStale(cons[c].msg)
  /\ cons[c].phase = "work"
  /\ UNCHANGED <<rev, jobs>>

LEMMA LineSteps ==
  ASSUME Next
  PROVE  \/ UNCHANGED <<lineVars, receipts, jobs>>
         \/ \E s \in Saves : CommitSave(s) \/ EnqueueAfterSave(s)
         \/ \E t \in Starts : PostBatch(t)
         \/ CancelTx
         \/ \E c \in Consumers : FailsLine(c) \/ CompletesLine(c)
<1> USE DEF header, lineVars, calcVars, events, server, publisher, queues
<1> DEFINE Quiet == UNCHANGED <<lineVars, receipts, jobs>>
<1>1. ASSUME NEW s \in Saves, SaveStep(s)
      PROVE  Quiet \/ CommitSave(s) \/ EnqueueAfterSave(s)
  BY <1>1 DEF SaveStep, BeginSave, CheckAfterSave, AfterSaveFails
<1>2. ASSUME NEW t \in Starts, StartStep(t)
      PROVE  Quiet \/ PostBatch(t) \/ CancelTx
  BY <1>2 DEF StartStep, BeginStart, CancelForStart, RereadForStart, MarkStart, GiveUpStart,
     ReadLines, PrepareFull, PrepareResumed, NothingToResume, CheckGeneration, StartFails
<1>3. ASSUME Cancel \/ CrashServer \/ Summarize
      PROVE  Quiet \/ CancelTx
  BY <1>3 DEF Cancel, CrashServer, Summarize
<1>4. ASSUME PublisherStep
      PROVE  Quiet
  BY <1>4 DEF PublisherStep, FetchEvents, MarkPublished, MarkFails, PublishEvent, ConfirmLost
<1>5. ASSUME BrokerStep
      PROVE  Quiet
  BY <1>5 DEF BrokerStep, RetryExpires, ReplayDead
<1>6. ASSUME NEW c \in Consumers, ConsumerStep(c)
      PROVE  Quiet \/ FailsLine(c) \/ CompletesLine(c)
  BY <1>6 DEF ConsumerStep, Deliver, LookupFails, FailStale, CompleteJob, JobError, FailJob, FailLost,
     Republish, RepublishFails, Ack, LoseConnection, CrashWorker, FailsLine, CompletesLine
<1> QED
  BY <1>1, <1>2, <1>3, <1>4, <1>5, <1>6 DEF Next

\* What queueing lines does to one line: it is queued at a new revision, or unchanged.
LEMMA EnqueuedLine ==
  ASSUME NEW asked, NEW e, NEW g, EnqueueLines(asked, e, g), NEW l \in Lines
  PROVE  \/ /\ l \in DOMAIN asked \cap Existing
            /\ status'[l] = "queued" /\ rev'[l] = RevisionOf(asked[l], e, g) /\ result'[l] = None
         \/ /\ l \notin DOMAIN asked \cap Existing
            /\ status'[l] = status[l] /\ rev'[l] = rev[l] /\ result'[l] = result[l]
BY DEF EnqueueLines

-----------------------------------------------------------------------------
(* Receipts.                                                               *)

LEMMA ReceiptInit == Init => QueuedLineHasNoReceipt
BY DEF Init, QueuedLineHasNoReceipt

LEMMA ReceiptNext ==
  ASSUME TypeInv, QueuedLineHasNoReceipt, [Next]_vars
  PROVE  QueuedLineHasNoReceipt'
<1> USE DEF header, lineVars, calcVars, events, server, publisher, queues
<1> SUFFICES ASSUME NEW l \in Lines, status'[l] = "queued"
             PROVE  <<l, rev'[l]>> \notin receipts'
  BY DEF QueuedLineHasNoReceipt
<1>1. CASE UNCHANGED <<lineVars, receipts>>
  BY <1>1 DEF QueuedLineHasNoReceipt
<1>2. ASSUME NEW asked, NEW e, NEW g, EnqueueLines(asked, e, g),
             receipts' = {} \/ receipts' = ReceiptsWithout(DOMAIN asked)
      PROVE  <<l, rev'[l]>> \notin receipts'
  <2>1. CASE l \in DOMAIN asked
    BY <1>2, <2>1 DEF ReceiptsWithout
  <2>2. CASE l \notin DOMAIN asked
    BY <1>2, <2>2, EnqueuedLine DEF ReceiptsWithout, QueuedLineHasNoReceipt
  <2> QED
    BY <2>1, <2>2
<1>3. ASSUME NEW s \in Saves, CommitSave(s)
      PROVE  <<l, rev'[l]>> \notin receipts'
  BY <1>3 DEF CommitSave, KeepsResult, Terminal
<1>4. ASSUME NEW s \in Saves, EnqueueAfterSave(s)
      PROVE  <<l, rev'[l]>> \notin receipts'
  BY <1>2, <1>4 DEF EnqueueAfterSave
<1>5. ASSUME NEW t \in Starts, PostBatch(t)
      PROVE  <<l, rev'[l]>> \notin receipts'
  <2>1. PICK batch \in SUBSET DOMAIN start[t].todo :
          /\ EnqueueLines([k \in batch |-> start[t].todo[k]], start[t].env, start[t].gen)
          /\ receipts' = {} \/ receipts' = ReceiptsWithout(batch)
    BY <1>5 DEF PostBatch
  <2>2. DOMAIN [k \in batch |-> start[t].todo[k]] = batch
    OBVIOUS
  <2> QED
    BY <1>2, <2>1, <2>2
<1>6. CASE CancelTx
  BY <1>6 DEF CancelTx
<1>7. ASSUME NEW c \in Consumers, FailsLine(c)
      PROVE  <<l, rev'[l]>> \notin receipts'
  BY <1>7 DEF FailsLine, FailTx, QueuedLineHasNoReceipt
<1>8. ASSUME NEW c \in Consumers, CompletesLine(c)
      PROVE  <<l, rev'[l]>> \notin receipts'
  BY <1>8 DEF CompletesLine, RecordDone, RecordStale, QueuedLineHasNoReceipt, TypeInv, TypeOK
<1>9. CASE UNCHANGED vars
  BY <1>1, <1>9 DEF vars
<1> QED
  BY <1>1, <1>3, <1>4, <1>5, <1>6, <1>7, <1>8, <1>9, LineSteps

\* No queued line has a receipt for its revision: queued work is never taken
\* for a duplicate of work already done.
THEOREM ReceiptsCorrect == Spec => []QueuedLineHasNoReceipt
<1>1. TypeInv /\ QueuedLineHasNoReceipt /\ [Next]_vars => QueuedLineHasNoReceipt'
  BY ReceiptNext
<1> QED
  BY <1>1, TypeInit, TypeNext, ReceiptInit, PTL DEF Spec

-----------------------------------------------------------------------------
(* Results.                                                                *)

DoneInv == DoneMatchesRevision /\ SnapshotsFit

LEMMA DoneInit == Init => DoneInv
<1> SUFFICES ASSUME Init
             PROVE  DoneInv
  OBVIOUS
<1>1. DoneMatchesRevision
  BY DEF Init, DoneMatchesRevision
<1>2. \A s \in Saves : save[s].phase = "new"
  BY DEF Init, NewSave
<1> QED
  BY <1>1, <1>2 DEF DoneInv, SnapshotsFit

\* A finished line keeps the result of its revision.
LEMMA DoneNext ==
  ASSUME TypeInv, DoneInv, [Next]_vars
  PROVE  DoneMatchesRevision'
<1> USE DEF header, lineVars, calcVars, events, server, publisher, queues
<1> SUFFICES ASSUME NEW l \in Lines, status'[l] = "done"
             PROVE  rev'[l] # None /\ content'[l] = rev'[l].spec /\ result'[l] = Price(rev'[l])
  BY DEF DoneMatchesRevision
<1> DEFINE Matches == rev'[l] # None /\ content'[l] = rev'[l].spec /\ result'[l] = Price(rev'[l])
<1>1. CASE UNCHANGED <<lineVars, receipts>>
  BY <1>1 DEF DoneInv, DoneMatchesRevision
<1>2. ASSUME NEW asked, NEW e, NEW g, EnqueueLines(asked, e, g), content' = content
      PROVE  Matches
  BY <1>2, EnqueuedLine DEF DoneInv, DoneMatchesRevision
<1>3. ASSUME NEW s \in Saves, CommitSave(s)
      PROVE  Matches
  <2> DEFINE sv == save[s]
  <2>1. l \in DOMAIN sv.doc /\ KeepsResult(sv, l) /\ sv.old[l].status = "done"
    BY <1>3 DEF CommitSave
  <2>2. sv.phase = "open" /\ sv.doc \in Document /\ sv.env \in Envs /\ sv.gen \in Nat
    BY <1>3 DEF CommitSave, TypeInv, TypeOK, SaveRecord, RequestsKnowHeader
  <2>3. sv.old[l].result = Price(sv.old[l].rev)
    BY <2>1, <2>2 DEF KeepsResult, DoneInv, SnapshotsFit, SnapshotFits
  <2>4. sv.old[l].rev = RevisionOf(sv.doc[l], sv.env, sv.gen)
    BY <2>1 DEF KeepsResult
  <2>5. /\ rev'[l] = RevisionOf(sv.doc[l], sv.env, sv.gen)
        /\ content'[l] = sv.doc[l]
        /\ result'[l] = sv.old[l].result
    BY <1>3, <2>1 DEF CommitSave
  <2>6. sv.doc[l] \in Specs
    BY <2>1, <2>2, DocumentElim
  <2> HIDE DEF sv
  <2> QED
    BY <2>2, <2>3, <2>4, <2>5, <2>6, RevisionOfType
<1>4. ASSUME NEW s \in Saves, EnqueueAfterSave(s)
      PROVE  Matches
  BY <1>2, <1>4 DEF EnqueueAfterSave
<1>5. ASSUME NEW t \in Starts, PostBatch(t)
      PROVE  Matches
  <2>1. PICK asked : EnqueueLines(asked, start[t].env, start[t].gen)
    BY <1>5 DEF PostBatch
  <2> QED
    BY <1>2, <1>5, <2>1 DEF PostBatch
<1>6. CASE CancelTx
  BY <1>6 DEF CancelTx
<1>7. ASSUME NEW c \in Consumers, FailsLine(c)
      PROVE  Matches
  BY <1>7 DEF FailsLine, FailTx, DoneInv, DoneMatchesRevision
<1>8. ASSUME NEW c \in Consumers, CompletesLine(c)
      PROVE  Matches
  <2> DEFINE m == cons[c].msg
  <2>1. m \in Message
    BY <1>8 DEF CompletesLine, TypeInv, BusyConsumersHaveMessage, Idle
  <2>2. m.line \in Lines /\ m.rev \in Revision /\ m.rev # None
    BY <2>1, NoneAssumption DEF Message
  <2>3. CASE rev[m.line] = m.rev /\ RecordDone(m)
    BY <1>8, <2>2, <2>3 DEF CompletesLine, RecordDone, DoneInv, DoneMatchesRevision, TypeInv, TypeOK
  <2>4. CASE RecordStale(m)
    BY <1>8, <2>2, <2>4 DEF CompletesLine, RecordStale, DoneInv, DoneMatchesRevision, TypeInv, TypeOK
  <2> QED
    BY <1>8, <2>3, <2>4 DEF CompletesLine
<1>9. CASE UNCHANGED vars
  BY <1>1, <1>9 DEF vars
<1> QED
  BY <1>1, <1>3, <1>4, <1>5, <1>6, <1>7, <1>8, <1>9, LineSteps

\* A save reads a snapshot once and holds it until its transaction ends.
LEMMA SnapshotNext ==
  ASSUME TypeInv, DoneInv, [Next]_vars
  PROVE  SnapshotsFit'
<1> USE DEF header, lineVars, calcVars, events, server, publisher, queues
<1> SUFFICES ASSUME NEW s \in Saves, NEW l \in Lines, save'[s].phase = "open"
             PROVE  SnapshotFits(save'[s].old[l])
  BY DEF SnapshotsFit, SnapshotFits
<1>1. ASSUME save'[s] = save[s]
      PROVE  SnapshotFits(save'[s].old[l])
  BY <1>1 DEF DoneInv, SnapshotsFit
<1>2. ASSUME NEW o \in Saves, NEW doc \in Document, NEW e \in Envs, BeginSave(o, doc, e)
      PROVE  SnapshotFits(save'[s].old[l])
  <2>1. CASE o = s
    <3>1. save'[s].old[l] = IF Exists(l) THEN [status |-> status[l], rev |-> rev[l],
                                              result |-> result[l]] ELSE None
      BY <1>2, <2>1 DEF BeginSave, TypeInv, TypeOK
    <3> QED
      BY <3>1 DEF SnapshotFits, DoneInv, DoneMatchesRevision
  <2>2. CASE o # s
    BY <1>1, <1>2, <2>2 DEF BeginSave, TypeInv, TypeOK
  <2> QED
    BY <2>1, <2>2
<1>3. ASSUME NEW o \in Saves, CommitSave(o) \/ CheckAfterSave(o) \/ EnqueueAfterSave(o)
                                \/ AfterSaveFails(o)
      PROVE  SnapshotFits(save'[s].old[l])
  <2>1. save \in [Saves -> SaveRecord] /\ save[o] \in SaveRecord
    BY DEF TypeInv, TypeOK
  <2>2. PICK r : save' = [save EXCEPT ![o] = r] /\ r.phase # "open"
    <3>1. CASE CommitSave(o)
      <4> DEFINE p == IF DOMAIN EnqueuedBy(save[o]) = {} THEN "end" ELSE "check"
                 r == [save[o] EXCEPT !.lines = EnqueuedBy(save[o]), !.phase = p,
                                      !.old = NewSave.old, !.doc = NoLines]
      <4>1. save' = [save EXCEPT ![o] = r]
        BY <2>1, <3>1 DEF CommitSave, SaveRecord
      <4>2. r.phase = p /\ p # "open"
        BY <2>1 DEF SaveRecord
      <4> QED
        BY <4>1, <4>2
    <3>2. CASE EndSave(o)
      <4>1. [NewSave EXCEPT !.phase = "end"].phase = "end"
        BY DEF NewSave
      <4> QED
        BY <3>2, <4>1 DEF EndSave
    <3>3. CASE save' = [save EXCEPT ![o].phase = "enqueue"]
      <4>1. [save[o] EXCEPT !.phase = "enqueue"].phase = "enqueue"
        BY <2>1 DEF SaveRecord
      <4> QED
        BY <3>3, <4>1
    <3> QED
      BY <1>3, <3>1, <3>2, <3>3 DEF CheckAfterSave, EnqueueAfterSave, AfterSaveFails
  <2> QED
    BY <1>1, <2>1, <2>2
<1>4. CASE CrashServer
  BY <1>4 DEF CrashServer, NewSave
<1>5. CASE \E o \in Saves : SaveStep(o)
  BY <1>2, <1>3, <1>5 DEF SaveStep
<1>6. CASE \E t \in Starts : StartStep(t)
  BY <1>1, <1>6 DEF StartStep, BeginStart, CancelForStart, RereadForStart, MarkStart,
     GiveUpStart, ReadLines, PrepareFull, PrepareResumed, NothingToResume, CheckGeneration,
     PostBatch, StartFails
<1>7. CASE Cancel \/ Summarize
  BY <1>1, <1>7 DEF Cancel, Summarize
<1>8. CASE PublisherStep
  BY <1>1, <1>8 DEF PublisherStep, FetchEvents, MarkPublished, MarkFails, PublishEvent, ConfirmLost
<1>9. CASE BrokerStep
  BY <1>1, <1>9 DEF BrokerStep, RetryExpires, ReplayDead
<1>10. CASE \E c \in Consumers : ConsumerStep(c)
  BY <1>1, <1>10 DEF ConsumerStep, Deliver, LookupFails, FailStale, CompleteJob, JobError, FailJob, FailLost,
     Republish, RepublishFails, Ack, LoseConnection, CrashWorker
<1>11. CASE UNCHANGED vars
  BY <1>1, <1>11 DEF vars
<1> QED
  BY <1>4, <1>5, <1>6, <1>7, <1>8, <1>9, <1>10, <1>11 DEF Next

\* A line shown as done carries the price of the code, quantity, district and
\* FGIS set its revision was made of, whatever saves and late results crossed.
THEOREM ResultsCorrect == Spec => []DoneMatchesRevision
<1>1. TypeInv /\ DoneInv /\ [Next]_vars => DoneInv'
  BY DoneNext, SnapshotNext DEF DoneInv
<1>2. DoneInv => DoneMatchesRevision
  BY DEF DoneInv
<1> QED
  BY <1>1, <1>2, TypeInit, TypeNext, DoneInit, PTL DEF Spec

-----------------------------------------------------------------------------
(* Messages.                                                               *)

LEMMA IdsInit == Init => IdsGrow
BY DEF Init, IdsGrow

\* Steps that leave the publisher and the events alone.
LEMMA IdsNext ==
  ASSUME TypeInv, IdsGrow, [Next]_vars
  PROVE  IdsGrow'
<1> USE DEF header, lineVars, calcVars, events, server, publisher, queues
<1>1. ASSUME outbox' \subseteq outbox, UNCHANGED nextId,
             fetched' \subseteq fetched \cup outbox, sent' \in fetched \cup {sent, None}
      PROVE  IdsGrow'
  BY <1>1 DEF IdsGrow
<1>2. ASSUME NEW asked, NEW e, NEW g, EnqueueLines(asked, e, g), UNCHANGED publisher
      PROVE  IdsGrow'
  <2>1. \A m \in outbox' : m \in outbox \/ m.id = nextId
    BY <1>2 DEF EnqueueLines
  <2>2. nextId \in Nat /\ nextId' = nextId + 1
    BY <1>2 DEF EnqueueLines, TypeInv, TypeOK
  <2>3. \A m \in outbox \cup fetched \cup ({sent} \ {None}) : m.id \in Nat
    BY DEF TypeInv, TypeOK, Message
  <2> QED
    BY <1>2, <2>1, <2>2, <2>3 DEF IdsGrow
<1>3. ASSUME NEW s \in Saves, SaveStep(s)
      PROVE  IdsGrow'
  <2>1. CASE EnqueueAfterSave(s)
    BY <1>2, <2>1 DEF EnqueueAfterSave
  <2>2. CASE ~EnqueueAfterSave(s)
    BY <1>1, <1>3, <2>2 DEF SaveStep, BeginSave, CommitSave, CheckAfterSave, AfterSaveFails
  <2> QED
    BY <2>1, <2>2
<1>4. ASSUME NEW t \in Starts, StartStep(t)
      PROVE  IdsGrow'
  <2>1. CASE PostBatch(t)
    <3>1. PICK asked : EnqueueLines(asked, start[t].env, start[t].gen)
      BY <2>1 DEF PostBatch
    <3> QED
      BY <1>2, <2>1, <3>1 DEF PostBatch
  <2>2. CASE ~PostBatch(t)
    BY <1>1, <1>4, <2>2 DEF StartStep, BeginStart, CancelForStart, CancelTx, RereadForStart,
       MarkStart, GiveUpStart, ReadLines, PrepareFull, PrepareResumed, NothingToResume,
       CheckGeneration, StartFails
  <2> QED
    BY <2>1, <2>2
<1>5. CASE Cancel \/ CrashServer \/ Summarize
  BY <1>1, <1>5 DEF Cancel, CancelTx, CrashServer, Summarize
<1>6. CASE PublisherStep
  BY <1>1, <1>6 DEF PublisherStep, FetchEvents, MarkPublished, MarkFails, PublishEvent, ConfirmLost
<1>7. CASE BrokerStep
  BY <1>1, <1>7 DEF BrokerStep, RetryExpires, ReplayDead
<1>8. ASSUME NEW c \in Consumers, ConsumerStep(c)
      PROVE  IdsGrow'
  BY <1>1, <1>8 DEF ConsumerStep, Deliver, LookupFails, FailStale, CompleteJob, JobError, FailJob, FailLost,
     Republish, RepublishFails, Ack, LoseConnection, CrashWorker
<1>9. CASE UNCHANGED vars
  BY <1>1, <1>9 DEF vars
<1> QED
  BY <1>3, <1>4, <1>5, <1>6, <1>7, <1>8, <1>9 DEF Next

\* Where a message is safe: not with a consumer that has taken it for stale.
Working == {c \in Consumers : cons[c].held /\ cons[c].phase \in {"work", "failing", "republish"}}
Places == (outbox \ {sent}) \cup main \cup retry \cup dlq \cup {cons[c].msg : c \in Working}

CarriedSafely ==
  \A l \in Lines : status[l] = "queued" => \E m \in Places : m.line = l /\ m.rev = rev[l]

LEMMA SafelyIsCarried == CarriedSafely => QueuedLineIsCarried
<1>1. \A m \in Places : m \in (outbox \ {sent}) \cup main \cup retry \cup dlq
        \cup {cons[c].msg : c \in {k \in Consumers :
                 cons[k].held /\ cons[k].phase \in {"stale", "work", "failing", "republish"}}}
  BY DEF Places, Working
<1> QED
  BY <1>1 DEF CarriedSafely, QueuedLineIsCarried, Carriers

LEMMA CarriedInit == Init => CarriedSafely
BY DEF Init, CarriedSafely

\* A step that queues no line and hands every message that is still needed on,
\* as itself or as a copy for the same line and revision, keeps queued lines carried.
Needed(m) == status'[m.line] = "queued" /\ m.rev = rev[m.line]
HandedOn == \A m \in Places : Needed(m) => \E n \in Places' : n.line = m.line /\ n.rev = m.rev

LEMMA CarriedFrame ==
  ASSUME CarriedSafely, UNCHANGED rev, HandedOn,
         \A l \in Lines : status'[l] = "queued" => status[l] = "queued"
  PROVE  CarriedSafely'
<1> SUFFICES ASSUME NEW l \in Lines, status'[l] = "queued"
             PROVE  \E n \in Places' : n.line = l /\ n.rev = rev'[l]
  BY DEF CarriedSafely
<1>1. PICK m \in Places : m.line = l /\ m.rev = rev[l]
  BY DEF CarriedSafely
<1>2. PICK n \in Places' : n.line = m.line /\ n.rev = m.rev
  BY <1>1 DEF HandedOn, Needed
<1> QED
  BY <1>1, <1>2

\* Steps of the server: nothing moves, or lines are queued with an event each, or
\* no line is queued any more.
LEMMA CarriedServer ==
  ASSUME QueueMode # "db", TypeInv, TypeInv', IdsGrow, CarriedSafely,
         \/ \E s \in Saves : SaveStep(s)
         \/ \E t \in Starts : StartStep(t)
         \/ Cancel \/ CrashServer \/ Summarize
  PROVE  CarriedSafely'
<1> USE DEF header, lineVars, calcVars, events, server, publisher, queues
<1>1. ASSUME UNCHANGED <<status, rev, outbox, sent, queues, cons>>
      PROVE  CarriedSafely'
  <2>1. Places' = Places
    BY <1>1 DEF Places, Working
  <2>2. HandedOn
    BY <2>1 DEF HandedOn
  <2> QED
    BY <1>1, <2>2, CarriedFrame
<1>2. ASSUME NEW asked, NEW e, NEW g, EnqueueLines(asked, e, g), UNCHANGED <<sent, queues, cons>>
      PROVE  CarriedSafely'
  <2> SUFFICES ASSUME NEW l \in Lines, status'[l] = "queued"
               PROVE  \E n \in Places' : n.line = l /\ n.rev = rev'[l]
    BY DEF CarriedSafely
  <2>1. CASE l \in DOMAIN asked \cap Existing
    <3> DEFINE n == [id |-> nextId, line |-> l, rev |-> RevisionOf(asked[l], e, g), attempt |-> 1]
    <3>1. n \in outbox'
      BY <1>2, <2>1 DEF EnqueueLines
    <3>2. n # sent
      <4>1. n # None
        BY <3>1, NoneAssumption DEF TypeInv, TypeOK
      <4>2. n.id = nextId
        OBVIOUS
      <4>3. sent # None => sent.id < nextId /\ nextId \in Nat /\ sent.id \in Nat
        BY DEF IdsGrow, TypeInv, TypeOK, Message
      <4> QED
        BY <4>1, <4>2, <4>3
    <3>3. rev'[l] = RevisionOf(asked[l], e, g)
      BY <1>2, <2>1 DEF EnqueueLines
    <3>4. n.line = l /\ n.rev = rev'[l]
      BY <3>3
    <3> HIDE DEF n
    <3> QED
      BY <1>2, <3>1, <3>2, <3>4 DEF Places
  <2>2. CASE l \notin DOMAIN asked \cap Existing
    <3>1. status[l] = "queued" /\ rev'[l] = rev[l]
      BY <1>2, <2>2, EnqueuedLine
    <3>2. PICK m \in Places : m.line = l /\ m.rev = rev[l]
      BY <3>1 DEF CarriedSafely
    <3>3. outbox \subseteq outbox'
      BY <1>2 DEF EnqueueLines
    <3>4. m \in Places'
      BY <1>2, <3>2, <3>3 DEF Places, Working
    <3> QED
      BY <3>1, <3>2, <3>4
  <2> QED
    BY <2>1, <2>2
<1>3. ASSUME \A l \in Lines : status'[l] # "queued"
      PROVE  CarriedSafely'
  BY <1>3 DEF CarriedSafely
<1>4. ASSUME NEW s \in Saves, SaveStep(s)
      PROVE  CarriedSafely'
  <2>1. CASE CommitSave(s)
    BY <1>3, <2>1 DEF CommitSave, KeepsResult, Terminal
  <2>2. CASE EnqueueAfterSave(s)
    BY <1>2, <2>2 DEF EnqueueAfterSave
  <2>3. CASE ~CommitSave(s) /\ ~EnqueueAfterSave(s)
    BY <1>1, <1>4, <2>3 DEF SaveStep, BeginSave, CheckAfterSave, AfterSaveFails
  <2> QED
    BY <2>1, <2>2, <2>3
<1>5. CASE CancelTx
  BY <1>3, <1>5 DEF CancelTx
<1>6. ASSUME NEW t \in Starts, StartStep(t)
      PROVE  CarriedSafely'
  <2>1. CASE PostBatch(t)
    <3>1. PICK asked : EnqueueLines(asked, start[t].env, start[t].gen)
      BY <2>1 DEF PostBatch
    <3> QED
      BY <1>2, <2>1, <3>1 DEF PostBatch
  <2>2. CASE CancelForStart(t)
    BY <1>5, <2>2 DEF CancelForStart
  <2>3. CASE ~PostBatch(t) /\ ~CancelForStart(t)
    BY <1>1, <1>6, <2>3 DEF StartStep, BeginStart, RereadForStart, MarkStart, GiveUpStart,
       ReadLines, PrepareFull, PrepareResumed, NothingToResume, CheckGeneration, StartFails
  <2> QED
    BY <2>1, <2>2, <2>3
<1>7. CASE CrashServer
  <2>1. outbox \ {sent} \subseteq outbox' \ {sent'}
    BY <1>7, NoneAssumption DEF CrashServer, TypeInv, TypeOK
  <2>2. Places \subseteq Places'
    BY <1>7, <2>1 DEF CrashServer, Places, Working
  <2>3. HandedOn
    BY <2>2 DEF HandedOn
  <2> QED
    BY <1>7, <2>3, CarriedFrame DEF CrashServer
<1> QED
  BY <1>1, <1>4, <1>5, <1>6, <1>7 DEF Cancel, Summarize

\* The publisher marks an event only when the broker has it.
LEMMA CarriedPublisher ==
  ASSUME TypeInv, CarriedSafely, PublisherStep
  PROVE  CarriedSafely'
<1> USE DEF header, lineVars, calcVars, events, server, publisher, queues
<1>1. None \notin outbox
  BY NoneAssumption DEF TypeInv, TypeOK
<1>2. Places \subseteq Places'
  <2>1. CASE FetchEvents
    BY <2>1 DEF FetchEvents, Places, Working
  <2>2. CASE MarkPublished
    <3>1. outbox' \ {sent'} = outbox \ {sent}
      BY <1>1, <2>2 DEF MarkPublished
    <3> QED
      BY <2>2, <3>1 DEF MarkPublished, Places, Working
  <2>3. CASE MarkFails
    BY <1>1, <2>3 DEF MarkFails, Places, Working
  <2>4. ASSUME NEW m \in fetched, PublishEvent(m)
        PROVE  Places \subseteq Places'
    BY <1>1, <2>4 DEF PublishEvent, Places, Working
  <2>5. ASSUME NEW m \in fetched, NEW reached \in BOOLEAN, ConfirmLost(m, reached)
        PROVE  Places \subseteq Places'
    BY <2>5 DEF ConfirmLost, Places, Working
  <2> QED
    BY <2>1, <2>2, <2>3, <2>4, <2>5 DEF PublisherStep
<1>3. HandedOn
  BY <1>2 DEF HandedOn
<1>4. UNCHANGED <<status, rev>>
  BY DEF PublisherStep, FetchEvents, MarkPublished, MarkFails, PublishEvent, ConfirmLost
<1> QED
  BY <1>3, <1>4, CarriedFrame

\* The broker hands a message from queue to queue.
LEMMA CarriedBroker ==
  ASSUME TypeInv, CarriedSafely, BrokerStep
  PROVE  CarriedSafely'
<1> USE DEF header, lineVars, calcVars, events, server, publisher, queues
<1>1. HandedOn
  <2>1. ASSUME NEW m \in retry, RetryExpires(m)
        PROVE  HandedOn
    <3>1. Places \subseteq Places'
      BY <2>1 DEF RetryExpires, Places, Working
    <3> QED
      BY <3>1 DEF HandedOn
  <2>2. ASSUME NEW m \in dlq, ReplayDead(m)
        PROVE  HandedOn
    <3> DEFINE n == [m EXCEPT !.attempt = 1]
    <3>1. n.line = m.line /\ n.rev = m.rev
      BY DEF TypeInv, TypeOK, Message
    <3>2. n \in main'
      BY <2>2 DEF ReplayDead
    <3> HIDE DEF n
    <3>3. n \in Places' /\ Places \ {m} \subseteq Places'
      BY <2>2, <3>2 DEF ReplayDead, Places, Working
    <3> QED
      BY <3>1, <3>3 DEF HandedOn
  <2> QED
    BY <2>1, <2>2 DEF BrokerStep
<1>2. UNCHANGED <<status, rev>>
  BY DEF BrokerStep, RetryExpires, ReplayDead
<1> QED
  BY <1>1, <1>2, CarriedFrame

\* A consumer keeps its message until the line has a verdict or the message is back.
LEMMA CarriedConsumer ==
  ASSUME "lookup" \notin FaultKinds, TypeInv, CarriedSafely, NEW c \in Consumers, ConsumerStep(c)
  PROVE  CarriedSafely'
<1> USE DEF header, lineVars, calcVars, events, server, publisher, queues
<1> DEFINE k == cons[c]
<1>1. /\ cons \in [Consumers -> ConsumerRecord]
      /\ k.phase # "idle" => k.msg \in Message
  BY DEF TypeInv, TypeOK, BusyConsumersHaveMessage, Idle
\* Only this consumer changes, and it goes on working on the same message.
<1>2. ASSUME NEW r, cons' = [cons EXCEPT ![c] = r], r.msg = k.msg, r.held,
             r.phase \in {"work", "failing", "republish"},
             UNCHANGED <<outbox, sent, queues>>
      PROVE  HandedOn
  <2>1. Working \subseteq Working' /\ \A d \in Working : cons'[d].msg = cons[d].msg
    BY <1>1, <1>2 DEF Working
  <2>2. Places \subseteq Places'
    BY <1>2, <2>1 DEF Places
  <2> QED
    BY <2>2 DEF HandedOn
\* Only this consumer changes, and its message is no longer needed or is elsewhere.
<1>3. ASSUME NEW r, cons' = [cons EXCEPT ![c] = r],
             c \in Working /\ Needed(k.msg)
               => \E n \in main' \cup retry' \cup dlq' : n.line = k.msg.line /\ n.rev = k.msg.rev,
             UNCHANGED <<outbox, sent>>,
             main \subseteq main', retry \subseteq retry', dlq \subseteq dlq'
      PROVE  HandedOn
  <2>1. \A d \in Working \ {c} : d \in Working' /\ cons'[d].msg = cons[d].msg
    BY <1>1, <1>3 DEF Working
  <2>2. \A m \in Places : m \in Places' \/ (c \in Working /\ m = k.msg)
    BY <1>3, <2>1 DEF Places
  <2>3. main' \cup retry' \cup dlq' \subseteq Places'
    BY DEF Places
  <2> QED
    BY <1>3, <2>2, <2>3 DEF HandedOn
<1>4. ASSUME UNCHANGED <<status, rev>>, HandedOn
      PROVE  CarriedSafely'
  BY <1>4, CarriedFrame
<1>5. ASSUME NEW m, NEW js, FailTx(m, js)
      PROVE  \A l \in Lines : status'[l] = "queued" => status[l] = "queued"
  BY <1>5 DEF FailTx
<1>6. ASSUME NEW m \in main, Deliver(c, m)
      PROVE  CarriedSafely'
  <2> DEFINE r == cons'[c]
  <2>1. r.msg = m /\ r.held /\ (Needed(m) => r.phase = "work") /\ c \notin Working
    BY <1>1, <1>6 DEF Deliver, Needed, Idle, Working
  <2>2. \A d \in Working : d \in Working' /\ cons'[d].msg = cons[d].msg
    BY <1>1, <1>6, <2>1 DEF Deliver, Working
  <2>3. Needed(m) => m \in Places'
    BY <2>1 DEF Places, Working
  <2>4. \A n \in Places : n \in Places' \/ n = m
    BY <1>6, <2>2 DEF Deliver, Places
  <2>5. HandedOn
    BY <2>3, <2>4 DEF HandedOn
  <2> QED
    BY <1>4, <1>6, <2>5 DEF Deliver
<1>7. CASE FailStale(c)
  <2>1. PICK r : cons' = [cons EXCEPT ![c] = r]
    BY <1>7 DEF FailStale
  <2>2. c \notin Working
    BY <1>7 DEF FailStale, Working
  <2>3. HandedOn
    BY <1>3, <1>7, <2>1, <2>2 DEF FailStale
  <2> QED
    BY <1>5, <1>7, <2>3, CarriedFrame DEF FailStale
<1>8. CASE CompleteJob(c)
  <2> DEFINE m == k.msg
  <2>1. m \in Message
    BY <1>1, <1>8 DEF CompleteJob
  <2>2. ~Needed(m)
    BY <1>8, <2>1 DEF CompleteJob, Needed, RecordDone, Message, TypeInv, TypeOK
  <2>3. \A l \in Lines : status'[l] = "queued" => status[l] = "queued"
    BY <1>8, <2>1 DEF CompleteJob, RecordDone, RecordStale, Message, TypeInv, TypeOK
  <2>4. PICK r : cons' = [cons EXCEPT ![c] = r]
    BY <1>8 DEF CompleteJob
  <2>5. UNCHANGED <<outbox, sent, main, retry, dlq, rev>>
    BY <1>8 DEF CompleteJob
  <2>6. HandedOn
    BY <1>3, <2>2, <2>4, <2>5
  <2> QED
    BY <2>3, <2>5, <2>6, CarriedFrame
<1>9. ASSUME NEW fatal \in BOOLEAN, JobError(c, fatal)
      PROVE  CarriedSafely'
  <2> DEFINE r == [k EXCEPT !.phase = "failing", !.fatal = fatal]
  <2>1. r.msg = k.msg /\ r.held = k.held /\ r.phase = "failing"
    BY <1>1 DEF ConsumerRecord
  <2>2. cons' = [cons EXCEPT ![c] = r] /\ UNCHANGED <<status, rev, outbox, sent, queues>>
    BY <1>9 DEF JobError
  <2> HIDE DEF r
  <2>3. CASE k.held
    BY <1>2, <1>4, <2>1, <2>2, <2>3
  <2>4. CASE ~k.held
    BY <1>3, <1>4, <2>2, <2>4 DEF Working
  <2> QED
    BY <2>3, <2>4
<1>10. ASSUME FailJob(c) \/ FailLost(c), cons' = [cons EXCEPT ![c].phase = "republish"]
       PROVE  HandedOn
  <2> DEFINE r == [k EXCEPT !.phase = "republish"]
  <2>1. r.msg = k.msg /\ r.held = k.held /\ r.phase = "republish"
    BY <1>1 DEF ConsumerRecord
  <2>2. cons' = [cons EXCEPT ![c] = r] /\ UNCHANGED <<outbox, sent, queues>>
    BY <1>10 DEF FailJob, FailLost
  <2> HIDE DEF r
  <2>3. CASE k.held
    BY <1>2, <2>1, <2>2, <2>3
  <2>4. CASE ~k.held
    BY <1>3, <2>2, <2>4 DEF Working
  <2> QED
    BY <2>3, <2>4
<1>11. CASE FailJob(c)
  BY <1>5, <1>10, <1>11, CarriedFrame DEF FailJob
<1>12. CASE FailLost(c)
  <2>1. CASE cons' = [cons EXCEPT ![c].phase = "republish"]
    BY <1>4, <1>10, <1>12, <2>1 DEF FailLost
  <2>2. CASE k.phase = "stale" /\ cons' = [cons EXCEPT ![c].phase = "ack"]
    <3>1. c \notin Working
      BY <2>2 DEF Working
    <3>2. PICK r : cons' = [cons EXCEPT ![c] = r]
      BY <2>2
    <3>3. UNCHANGED <<status, rev, outbox, sent, queues>>
      BY <1>12 DEF FailLost
    <3> QED
      BY <1>3, <1>4, <3>1, <3>2, <3>3
  <2> QED
    BY <1>12, <2>1, <2>2 DEF FailLost
<1>13. CASE Republish(c)
  <2> DEFINE n == [k.msg EXCEPT !.attempt = @ + 1]
  <2>1. n.line = k.msg.line /\ n.rev = k.msg.rev
    BY <1>1, <1>13 DEF Republish, Message
  <2>2. n \in retry' \cup dlq' /\ UNCHANGED <<status, rev, outbox, sent, main>>
        /\ retry \subseteq retry' /\ dlq \subseteq dlq'
    BY <1>13 DEF Republish
  <2>3. PICK r : cons' = [cons EXCEPT ![c] = r]
    BY <1>13 DEF Republish
  <2> HIDE DEF n
  <2> QED
    BY <1>3, <1>4, <2>1, <2>2, <2>3
<1>14. CASE RepublishFails(c) \/ LoseConnection(c) \/ CrashWorker(c)
  <2>1. PICK r : cons' = [cons EXCEPT ![c] = r]
    BY <1>14 DEF RepublishFails, LoseConnection, CrashWorker
  <2>2. c \in Working => k.msg \in main'
    BY <1>14 DEF RepublishFails, LoseConnection, CrashWorker, Working
  <2>3. UNCHANGED <<status, rev, outbox, sent, retry, dlq>> /\ main \subseteq main'
    BY <1>14 DEF RepublishFails, LoseConnection, CrashWorker
  <2> QED
    BY <1>3, <1>4, <2>1, <2>2, <2>3
<1>15. CASE Ack(c)
  <2>1. PICK r : cons' = [cons EXCEPT ![c] = r]
    BY <1>15 DEF Ack
  <2>2. c \notin Working /\ UNCHANGED <<status, rev, outbox, sent, queues>>
    BY <1>15 DEF Ack, Working
  <2> QED
    BY <1>3, <1>4, <2>1, <2>2
<1> QED
  BY <1>6, <1>7, <1>8, <1>9, <1>11, <1>12, <1>13, <1>14, <1>15
  DEF ConsumerStep, LookupFails, Fault

LEMMA CarriedNext ==
  ASSUME QueueMode # "db", "lookup" \notin FaultKinds,
         TypeInv, TypeInv', IdsGrow, CarriedSafely, [Next]_vars
  PROVE  CarriedSafely'
<1>1. CASE UNCHANGED vars
  BY <1>1 DEF vars, header, lineVars, calcVars, events, server, publisher, queues,
     CarriedSafely, Places, Working
<1>2. CASE Next
  BY <1>2, CarriedServer, CarriedPublisher, CarriedBroker, CarriedConsumer DEF Next
<1> QED
  BY <1>1, <1>2

\* No queued line is forgotten: whatever crashed, was lost, repeated or cancelled,
\* a message for its current revision is in the outbox, in a queue or with a
\* consumer.  Mode "db" writes no messages.  The second assumption is needed: the run
\* line_stranded breaks the invariant when a consumer cannot read the line and then
\* cannot mark it.
THEOREM QueuedLinesAreCarried ==
  ASSUME QueueMode # "db", "lookup" \notin FaultKinds
  PROVE  Spec => []QueuedLineIsCarried
<1>1. TypeInv /\ IdsGrow /\ [Next]_vars => IdsGrow'
  BY IdsNext
<1>2. TypeInv /\ TypeInv' /\ IdsGrow /\ CarriedSafely /\ [Next]_vars => CarriedSafely'
  BY CarriedNext
<1> QED
  BY <1>1, <1>2, TypeInit, TypeNext, IdsInit, CarriedInit, SafelyIsCarried, PTL DEF Spec

-----------------------------------------------------------------------------
(* The DB job queue.  The steps of EstimateCalc keep the invariants above; *)
(* what is left is the workers, time and the Manager, and the fact the     *)
(* queue stands on: the job of a queued line is live.                      *)

WorkerRecord == [phase : {"polling", "claimed", "work", "failing"}, job : Job \cup {None}]

\* A worker that is not polling has the job it has read.
WorkersTyped ==
  /\ worker \in [Workers -> WorkerRecord]
  /\ \A w \in Workers : worker[w].phase # "polling" => worker[w].job \in Job

JobsTypeInv == TypeInv /\ WorkersTyped

LEMMA JobsTypeInit == JobsInit => JobsTypeInv
BY TypeInit DEF JobsInit, JobsTypeInv, WorkersTyped, WorkerRecord, Polling

\* Writing a verdict into a job row keeps the rows well formed.
LEMMA JobSetType ==
  ASSUME TypeOK, NEW held, NEW verdict \in {"queued", "done", "failed", "dead"}
  PROVE  JobSet(held, verdict) \subseteq Job
<1>1. \A j \in Job : [j EXCEPT !.status = verdict, !.due = FALSE] \in Job
  BY DEF Job, Live
<1> QED
  BY <1>1 DEF JobSet, TypeOK

\* Going to another phase or back to polling keeps the workers well formed.
LEMMA GoesTyped ==
  ASSUME WorkersTyped, NEW w \in Workers,
         \/ worker[w].phase # "polling" /\ \E p \in {"work", "failing"} : Goes(w, p)
         \/ Returns(w)
  PROVE  WorkersTyped'
<1>1. CASE Returns(w)
  BY <1>1 DEF Returns, Polling, WorkersTyped, WorkerRecord
<1>2. ASSUME worker[w].phase # "polling", NEW p \in {"work", "failing"}, Goes(w, p)
      PROVE  WorkersTyped'
  BY <1>2 DEF Goes, WorkersTyped, WorkerRecord
<1> QED
  BY <1>1, <1>2

\* Nothing of the server, the broker and the consumers changes.
Beside == UNCHANGED <<header, outbox, nextId, server, publisher, queues, cons>>

\* What a step of CalcJobs that is not one of EstimateCalc does.
LEMMA BesideSteps ==
  ASSUME JobsNext, ~(Next /\ UNCHANGED worker)
  PROVE  Beside
BY DEF JobsNext, WorkerStep, Claim, MarkLeased, MarkLeasedFails, CompleteLeased, LeasedError,
   FailLeased, FailLeasedLost, StopWorker, TimePasses, ReleaseStuckLeases, Beside, events, Fault

LEMMA BesideType ==
  ASSUME TypeInv, Beside,
         /\ content' \in [Lines -> Specs \cup {None}]
         /\ status' \in [Lines -> LineStatus]
         /\ rev' \in [Lines -> Revision \cup {None}]
         /\ result' \in [Lines -> Result \cup {None}]
         /\ rows' \subseteq Nat \X Lines
         /\ state' \in CalcState \cup {None}
         /\ receipts' \subseteq Lines \X Revision
         /\ jobs' \subseteq Job
         /\ faults' \in Nat
  PROVE  TypeInv'
<1> USE DEF Beside, header, server, publisher, queues
<1>1. TypeOK'
  BY DEF TypeInv, TypeOK
<1>2. RequestsKnowHeader' /\ BusyConsumersHaveMessage'
  BY DEF TypeInv, RequestsKnowHeader, BusyConsumersHaveMessage
<1> QED
  BY <1>1, <1>2 DEF TypeInv

\* A worker's step keeps the types.
LEMMA TypeWorker ==
  ASSUME JobsTypeInv, NEW w \in Workers, WorkerStep(w), Beside
  PROVE  JobsTypeInv'
<1> USE DEF header, lineVars, calcVars, events, server, publisher, queues
<1> DEFINE job == worker[w].job
<1>1. TypeInv /\ TypeOK /\ WorkersTyped /\ faults \in Nat
  BY DEF JobsTypeInv, TypeInv, TypeOK
<1>2. ASSUME UNCHANGED <<lineVars, calcVars, jobs>>, faults' \in Nat
      PROVE  TypeInv'
  BY <1>1, <1>2, BesideType DEF TypeOK
<1>3. ASSUME NEW kind, Fault(kind)
      PROVE  faults' \in Nat
  BY <1>1, <1>3 DEF Fault
<1>4. ASSUME NEW j \in jobs, Claim(w, j)
      PROVE  JobsTypeInv'
  <2> DEFINE leased == [j EXCEPT !.status = "leased", !.attempt = @ + 1, !.due = FALSE]
  <2>1. leased \in Job
    <3>1. j \in Job
      BY <1>1 DEF TypeOK
    <3>2. j.attempt + 1 \in Nat /\ leased = [j EXCEPT !.status = "leased", !.attempt = j.attempt + 1,
                                                     !.due = FALSE]
      BY <3>1 DEF Job
    <3> QED
      BY <3>1, <3>2 DEF Job, Live
  <2>2. jobs' = (jobs \ {j}) \cup {leased}
        /\ worker' = [worker EXCEPT ![w] = [phase |-> "claimed", job |-> leased]]
        /\ UNCHANGED <<lineVars, calcVars, faults>>
    BY <1>4 DEF Claim
  <2> HIDE DEF leased
  <2>3. WorkersTyped'
    BY <1>1, <2>1, <2>2 DEF WorkersTyped, WorkerRecord
  <2>4. TypeInv'
    BY <1>1, <2>1, <2>2, BesideType DEF TypeOK
  <2> QED
    BY <2>3, <2>4 DEF JobsTypeInv
<1>5. CASE MarkLeased(w)
  <2>1. WorkersTyped'
    BY <1>1, <1>5, GoesTyped DEF MarkLeased
  <2>2. status' \in [Lines -> LineStatus]
    BY <1>1, <1>5 DEF MarkLeased, TypeOK, LineStatus
  <2>3. TypeInv'
    BY <1>1, <1>5, <2>2, BesideType DEF MarkLeased, TypeOK
  <2> QED
    BY <2>1, <2>3 DEF JobsTypeInv
<1>6. CASE MarkLeasedFails(w)
  BY <1>1, <1>2, <1>3, <1>6, GoesTyped DEF MarkLeasedFails, JobsTypeInv
<1>7. CASE CompleteLeased(w)
  <2>1. job \in Job
    BY <1>1, <1>7 DEF CompleteLeased, WorkersTyped
  <2>2. job.line \in Lines /\ job.rev \in Revision
    BY <2>1 DEF Job
  <2>3. WorkersTyped'
    BY <1>1, <1>7, GoesTyped DEF CompleteLeased
  <2>4. jobs' \subseteq Job
    BY <1>1, <1>7, JobSetType DEF CompleteLeased
  <2>5. CASE RecordDone(job)
    <3>1. /\ content' \in [Lines -> Specs \cup {None}]
          /\ status' \in [Lines -> LineStatus]
          /\ result' \in [Lines -> Result \cup {None}]
          /\ rows' \subseteq Nat \X Lines
          /\ state' \in CalcState
          /\ receipts' \subseteq Lines \X Revision
      BY <1>1, <2>2, <2>5, RecordDoneType
    <3>2. rev' \in [Lines -> Revision \cup {None}] /\ faults' \in Nat
      BY <1>1, <1>7 DEF CompleteLeased, TypeOK
    <3>3. TypeInv'
      BY <1>1, <2>4, <3>1, <3>2, BesideType
    <3> QED
      BY <2>3, <3>3 DEF JobsTypeInv
  <2>6. CASE RecordStale(job)
    <3>1. status' \in [Lines -> LineStatus]
      BY <1>1, <2>6 DEF RecordStale, TypeOK, LineStatus
    <3>2. UNCHANGED <<content, rev, result, rows, receipts, state, faults>>
      BY <1>7, <2>6 DEF CompleteLeased, RecordStale
    <3>3. TypeInv'
      BY <1>1, <2>4, <3>1, <3>2, BesideType DEF TypeOK
    <3> QED
      BY <2>3, <3>3 DEF JobsTypeInv
  <2> QED
    BY <1>7, <2>5, <2>6 DEF CompleteLeased
<1>8. CASE LeasedError(w)
  BY <1>1, <1>2, <1>8, GoesTyped DEF LeasedError, JobsTypeInv
<1>9. CASE FailLeased(w)
  <2>1. WorkersTyped'
    BY <1>1, <1>9, GoesTyped DEF FailLeased
  <2>2. jobs' \subseteq Job
    BY <1>1, <1>9, JobSetType DEF FailLeased
  <2>3. status' \in [Lines -> LineStatus] /\ state' \in CalcState \cup {None}
    BY <1>1, <1>9, FailTxType DEF FailLeased
  <2>4. TypeInv'
    BY <1>1, <1>9, <2>2, <2>3, BesideType DEF FailLeased, TypeOK
  <2> QED
    BY <2>1, <2>4 DEF JobsTypeInv
<1>10. CASE FailLeasedLost(w) \/ StopWorker(w)
  BY <1>1, <1>2, <1>3, <1>10, GoesTyped DEF FailLeasedLost, StopWorker, JobsTypeInv
<1> QED
  BY <1>4, <1>5, <1>6, <1>7, <1>8, <1>9, <1>10 DEF WorkerStep

LEMMA JobsTypeNext == JobsTypeInv /\ [JobsNext]_jobsVars => JobsTypeInv'
<1> SUFFICES ASSUME JobsTypeInv, [JobsNext]_jobsVars
             PROVE  JobsTypeInv'
  OBVIOUS
<1>1. CASE [Next]_vars /\ UNCHANGED worker
  BY <1>1, TypeNext DEF JobsTypeInv, WorkersTyped
<1>2. ASSUME NEW w \in Workers, WorkerStep(w), Beside
      PROVE  JobsTypeInv'
  BY <1>2, TypeWorker
<1>3. CASE Beside /\ (ReleaseStuckLeases \/ \E j \in jobs : TimePasses(j))
  <2>1. \A j \in Job : [j EXCEPT !.status = "queued"] \in Job /\ [j EXCEPT !.due = TRUE] \in Job
    BY DEF Job, Live
  <2>2. jobs' \subseteq Job
    <3>1. jobs \subseteq Job
      BY DEF JobsTypeInv, TypeInv, TypeOK
    <3>2. CASE ReleaseStuckLeases
      BY <2>1, <3>1, <3>2 DEF ReleaseStuckLeases
    <3>3. ASSUME NEW j \in jobs, TimePasses(j)
          PROVE  jobs' \subseteq Job
      <4>1. jobs' = (jobs \ {j}) \cup {[j EXCEPT !.due = TRUE]}
        BY <3>3 DEF TimePasses
      <4> QED
        BY <2>1, <3>1, <4>1
    <3> QED
      BY <1>3, <3>2, <3>3
  <2>3. UNCHANGED <<lineVars, calcVars, worker>> /\ faults' \in Nat
    BY <1>3 DEF ReleaseStuckLeases, TimePasses, Fault, JobsTypeInv, TypeInv, TypeOK
  <2>4. TypeInv'
    BY <1>3, <2>2, <2>3, BesideType DEF JobsTypeInv, TypeInv, TypeOK, lineVars, calcVars
  <2> QED
    BY <2>3, <2>4 DEF JobsTypeInv, WorkersTyped
<1> QED
  BY <1>1, <1>2, <1>3, BesideSteps DEF JobsNext, jobsVars
-----------------------------------------------------------------------------
(* Results and receipts.                                                   *)

\* What a step of the workers, of time or of the Manager does to the line rows and the
\* receipts: a line is marked, a job is completed, or a job is failed.
MarksLine(job) ==
  /\ status' = [status EXCEPT ![job.line] = IF rev[job.line] = job.rev THEN "leased" ELSE @]
  /\ UNCHANGED <<content, rev, result, receipts, jobs>>

CompletesHeld(job) ==
  /\ UNCHANGED rev
  /\ \/ rev[job.line] = job.rev /\ RecordDone(job) /\ jobs' = JobSet(job, "done")
     \/ RecordStale(job) /\ jobs' = JobSet(job, "failed")

FailsHeld(job) ==
  /\ FailTx(job, jobs')
  /\ \E verdict \in {"queued", "dead"} : jobs' = JobSet(job, verdict)
  /\ UNCHANGED <<content, rev, result, receipts>>

LEMMA WorkerLineSteps ==
  ASSUME JobsTypeInv, JobsNext, ~(Next /\ UNCHANGED worker)
  PROVE  \/ UNCHANGED <<lineVars, receipts>>
              /\ (\/ UNCHANGED jobs
                  \/ \E w \in Workers, j \in jobs : Claim(w, j)
                  \/ \E j \in jobs : TimePasses(j)
                  \/ ReleaseStuckLeases)
         \/ \E job \in Job : MarksLine(job) \/ CompletesHeld(job) \/ FailsHeld(job)
<1> USE DEF lineVars, calcVars, events
<1>1. ASSUME NEW w \in Workers, WorkerStep(w)
      PROVE  \/ UNCHANGED <<lineVars, receipts>>
                  /\ (UNCHANGED jobs \/ \E j \in jobs : Claim(w, j))
             \/ \E job \in Job : MarksLine(job) \/ CompletesHeld(job) \/ FailsHeld(job)
  <2> DEFINE job == worker[w].job
  <2>1. worker[w].phase # "polling" => job \in Job
    BY DEF JobsTypeInv, WorkersTyped
  <2>2. CASE MarkLeased(w)
    BY <2>1, <2>2 DEF MarkLeased, MarksLine
  <2>3. CASE CompleteLeased(w)
    BY <2>1, <2>3 DEF CompleteLeased, CompletesHeld
  <2>4. CASE FailLeased(w)
    BY <2>1, <2>4 DEF FailLeased, FailsHeld
  <2>5. CASE MarkLeasedFails(w) \/ LeasedError(w) \/ FailLeasedLost(w) \/ StopWorker(w)
    BY <2>5 DEF MarkLeasedFails, LeasedError, FailLeasedLost, StopWorker
  <2>6. CASE \E j \in jobs : Claim(w, j)
    BY <2>6 DEF Claim
  <2> QED
    BY <1>1, <2>2, <2>3, <2>4, <2>5, <2>6 DEF WorkerStep
<1>2. CASE ReleaseStuckLeases \/ \E j \in jobs : TimePasses(j)
  BY <1>2 DEF ReleaseStuckLeases, TimePasses
<1> QED
  BY <1>1, <1>2 DEF JobsNext

LEMMA JobsReceiptNext ==
  ASSUME JobsTypeInv, QueuedLineHasNoReceipt, [JobsNext]_jobsVars
  PROVE  QueuedLineHasNoReceipt'
<1>1. CASE [Next]_vars
  BY <1>1, ReceiptNext DEF JobsTypeInv
<1>2. CASE UNCHANGED <<lineVars, receipts>>
  BY <1>2 DEF QueuedLineHasNoReceipt, lineVars
<1>3. ASSUME NEW job \in Job, MarksLine(job) \/ FailsHeld(job)
      PROVE  QueuedLineHasNoReceipt'
  <2>1. UNCHANGED <<rev, receipts>>
    BY <1>3 DEF MarksLine, FailsHeld
  <2>2. \A l \in Lines : status'[l] = "queued" => status[l] = "queued"
    BY <1>3 DEF MarksLine, FailsHeld, FailTx, JobsTypeInv, TypeInv, TypeOK
  <2> QED
    BY <2>1, <2>2 DEF QueuedLineHasNoReceipt
<1>4. ASSUME NEW job \in Job, CompletesHeld(job)
      PROVE  QueuedLineHasNoReceipt'
  <2>1. \A l \in Lines : status'[l] = "queued" => status[l] = "queued" /\ (RecordDone(job) => l # job.line)
    BY <1>4 DEF CompletesHeld, RecordDone, RecordStale, JobsTypeInv, TypeInv, TypeOK, Job
  <2>2. UNCHANGED rev /\ (RecordDone(job) \/ RecordStale(job))
    BY <1>4 DEF CompletesHeld
  <2>3. CASE RecordDone(job)
    <3>1. receipts' = receipts \cup {<<job.line, job.rev>>}
      BY <2>3 DEF RecordDone
    <3> QED
      BY <2>1, <2>2, <2>3, <3>1 DEF QueuedLineHasNoReceipt
  <2>4. CASE RecordStale(job)
    <3>1. receipts' = receipts
      BY <2>4 DEF RecordStale
    <3> QED
      BY <2>1, <2>2, <3>1 DEF QueuedLineHasNoReceipt
  <2> QED
    BY <2>2, <2>3, <2>4
<1> QED
  BY <1>1, <1>2, <1>3, <1>4, WorkerLineSteps DEF jobsVars

\* The workers of the DB queue keep the promise about receipts as well.
THEOREM JobsReceiptsCorrect == JobsSpec => []QueuedLineHasNoReceipt
<1>1. JobsTypeInv /\ QueuedLineHasNoReceipt /\ [JobsNext]_jobsVars => QueuedLineHasNoReceipt'
  BY JobsReceiptNext
<1>2. JobsInit => QueuedLineHasNoReceipt
  BY ReceiptInit DEF JobsInit
<1> QED
  BY <1>1, <1>2, JobsTypeInit, JobsTypeNext, PTL DEF JobsSpec

LEMMA JobsDoneNext ==
  ASSUME JobsTypeInv, DoneInv, [JobsNext]_jobsVars
  PROVE  DoneInv'
<1>1. CASE [Next]_vars
  BY <1>1, DoneNext, SnapshotNext DEF JobsTypeInv, DoneInv
<1>2. CASE JobsNext /\ ~(Next /\ UNCHANGED worker)
  <2>1. UNCHANGED save
    BY <1>2, BesideSteps DEF Beside, server
  <2>2. SnapshotsFit'
    BY <2>1 DEF DoneInv, SnapshotsFit, SnapshotFits
  <2>3. ASSUME UNCHANGED <<lineVars, receipts>>
        PROVE  DoneMatchesRevision'
    BY <2>3 DEF DoneInv, DoneMatchesRevision, lineVars
  <2>4. ASSUME NEW job \in Job, MarksLine(job) \/ FailsHeld(job)
        PROVE  DoneMatchesRevision'
    <3>1. UNCHANGED <<content, rev, result>>
      BY <2>4 DEF MarksLine, FailsHeld
    <3>2. \A l \in Lines : status'[l] = "done" => status[l] = "done"
      BY <2>4 DEF MarksLine, FailsHeld, FailTx, JobsTypeInv, TypeInv, TypeOK
    <3> QED
      BY <3>1, <3>2 DEF DoneInv, DoneMatchesRevision
  <2>5. ASSUME NEW job \in Job, CompletesHeld(job)
        PROVE  DoneMatchesRevision'
    <3>1. job.line \in Lines /\ job.rev \in Revision /\ job.rev # None
      BY NoneAssumption DEF Job
    <3>2. CASE rev[job.line] = job.rev /\ RecordDone(job) /\ UNCHANGED rev
      BY <3>1, <3>2 DEF RecordDone, DoneInv, DoneMatchesRevision, JobsTypeInv, TypeInv, TypeOK
    <3>3. CASE RecordStale(job) /\ UNCHANGED rev
      BY <3>1, <3>3 DEF RecordStale, DoneInv, DoneMatchesRevision, JobsTypeInv, TypeInv, TypeOK
    <3> QED
      BY <2>5, <3>2, <3>3 DEF CompletesHeld
  <2>6. \/ UNCHANGED <<lineVars, receipts>>
        \/ \E job \in Job : MarksLine(job) \/ CompletesHeld(job) \/ FailsHeld(job)
    BY <1>2, WorkerLineSteps
  <2>7. DoneMatchesRevision'
    BY <2>3, <2>4, <2>5, <2>6
  <2> QED
    BY <2>2, <2>7 DEF DoneInv
<1> QED
  BY <1>1, <1>2 DEF jobsVars

\* A line shown as done carries the price of its revision, whichever queue the job
\* came from and however many workers held it before.
THEOREM JobsResultsCorrect == JobsSpec => []DoneMatchesRevision
<1>1. JobsTypeInv /\ DoneInv /\ [JobsNext]_jobsVars => DoneInv'
  BY JobsDoneNext
<1>2. JobsInit => DoneInv
  BY DoneInit DEF JobsInit
<1>3. DoneInv => DoneMatchesRevision
  BY DEF DoneInv
<1> QED
  BY <1>1, <1>2, <1>3, JobsTypeInit, JobsTypeNext, PTL DEF JobsSpec

-----------------------------------------------------------------------------
(* The job of a queued line is live.                                       *)

\* The inductive invariant adds that a queued line exists: a verdict is written to a
\* line that exists, so it takes the line out of "queued" with its job.
JobsAwaited == \A l \in Lines : status[l] = "queued" => Exists(l) /\ LiveJob(l)

\* A step that queues no line, deletes none and leaves every job of a line that is
\* still queued live keeps the promise.
LEMMA AwaitedFrame ==
  ASSUME JobsAwaited, UNCHANGED rev,
         \A l \in Lines : status'[l] = "queued" =>
            /\ status[l] = "queued"
            /\ Exists(l) => content'[l] # None
            /\ \A j \in jobs : j.line = l /\ j.status \in Live =>
                 \E k \in jobs' : k.line = l /\ k.rev = j.rev /\ k.status \in Live
  PROVE  JobsAwaited'
<1> SUFFICES ASSUME NEW l \in Lines, status'[l] = "queued"
             PROVE  content'[l] # None /\ \E k \in jobs' : k.line = l /\ k.rev = rev'[l] /\ k.status \in Live
  BY DEF JobsAwaited, LiveJob, Exists
<1>1. PICK j \in jobs : j.line = l /\ j.rev = rev[l] /\ j.status \in Live
  BY DEF JobsAwaited, LiveJob
<1> QED
  BY <1>1 DEF JobsAwaited

\* Asking for lines leaves live jobs live and gives every asked line a live job.
LEMMA RequeuedLive ==
  ASSUME NEW asked
  PROVE  /\ \A j \in jobs : j \in Job /\ j.status \in Live =>
              \E k \in Requeued(asked) : k.line = j.line /\ k.rev = j.rev /\ k.status \in Live
         /\ jobs \subseteq Job => \A key \in asked :
              \E k \in Requeued(asked) : k.line = key[1] /\ k.rev = key[2] /\ k.status \in Live
<1> DEFINE kept(j) == IF JobKey(j) \in asked /\ j.status # "leased"
                      THEN [j EXCEPT !.status = "queued", !.due = TRUE] ELSE j
<1>1. \A j \in jobs : kept(j) \in Requeued(asked)
  BY DEF Requeued
<1>2. \A j \in Job : /\ kept(j).line = j.line /\ kept(j).rev = j.rev
                     /\ j.status \in Live \/ JobKey(j) \in asked => kept(j).status \in Live
  BY DEF Job, Live
<1> HIDE DEF kept
<1>3. ASSUME jobs \subseteq Job, NEW key \in asked, key \in {JobKey(j) : j \in jobs}
      PROVE  \E k \in Requeued(asked) : k.line = key[1] /\ k.rev = key[2] /\ k.status \in Live
  <2>1. PICK j \in jobs : JobKey(j) = key
    BY <1>3
  <2>2. j.line = key[1] /\ j.rev = key[2]
    BY <2>1 DEF JobKey
  <2> QED
    BY <1>1, <1>2, <1>3, <2>1, <2>2
<1>4. ASSUME NEW key \in asked, key \notin {JobKey(j) : j \in jobs}
      PROVE  \E k \in Requeued(asked) : k.line = key[1] /\ k.rev = key[2] /\ k.status \in Live
  <2>1. NewJob(key) \in Requeued(asked)
    BY <1>4 DEF Requeued
  <2>2. NewJob(key).line = key[1] /\ NewJob(key).rev = key[2] /\ NewJob(key).status \in Live
    BY DEF NewJob, Live
  <2> QED
    BY <2>1, <2>2
<1> QED
  BY <1>1, <1>2, <1>3, <1>4

\* Steps of EstimateCalc: queueing gives each line a live job; a save and a cancel
\* leave no line queued; a RabbitMQ consumer only takes lines out of the queue.
LEMMA AwaitedNext ==
  ASSUME QueueMode # "rabbit", JobsTypeInv, JobsAwaited, Next
  PROVE  JobsAwaited'
<1> USE DEF header, lineVars, calcVars, events, server, publisher, queues
<1>1. jobs \subseteq Job
  BY DEF JobsTypeInv, TypeInv, TypeOK
<1>2. CASE UNCHANGED <<lineVars, receipts, jobs>>
  BY <1>2 DEF JobsAwaited, Exists, LiveJob
<1>3. ASSUME \A l \in Lines : status'[l] # "queued"
      PROVE  JobsAwaited'
  BY <1>3 DEF JobsAwaited
<1>4. ASSUME NEW asked, NEW e, NEW g, EnqueueLines(asked, e, g), UNCHANGED content
      PROVE  JobsAwaited'
  <2> DEFINE keys == {<<l, RevisionOf(asked[l], e, g)>> : l \in DOMAIN asked}
  <2>1. jobs' = Requeued(keys)
    BY <1>4 DEF EnqueueLines
  <2> SUFFICES ASSUME NEW l \in Lines, status'[l] = "queued"
               PROVE  content'[l] # None
                      /\ \E k \in jobs' : k.line = l /\ k.rev = rev'[l] /\ k.status \in Live
    BY DEF JobsAwaited, Exists, LiveJob
  <2>2. CASE l \in DOMAIN asked \cap Existing
    <3>1. <<l, rev'[l]>> \in keys
      BY <1>4, <2>2, EnqueuedLine
    <3> HIDE DEF keys
    <3>2. \E k \in jobs' : k.line = l /\ k.rev = rev'[l] /\ k.status \in Live
      BY <1>1, <2>1, <3>1, RequeuedLive
    <3> QED
      BY <1>4, <2>2, <3>2 DEF Existing, Exists
  <2>3. CASE l \notin DOMAIN asked \cap Existing
    <3>1. status[l] = "queued" /\ rev'[l] = rev[l]
      BY <1>4, <2>3, EnqueuedLine
    <3>2. PICK j \in jobs : j.line = l /\ j.rev = rev[l] /\ j.status \in Live
      BY <3>1 DEF JobsAwaited, LiveJob
    <3> HIDE DEF keys
    <3>3. \E k \in jobs' : k.line = l /\ k.rev = rev'[l] /\ k.status \in Live
      BY <1>1, <2>1, <3>1, <3>2, RequeuedLive
    <3> QED
      BY <1>4, <3>1, <3>3 DEF JobsAwaited, Exists
  <2> QED
    BY <2>2, <2>3
<1>5. ASSUME NEW s \in Saves, CommitSave(s) \/ EnqueueAfterSave(s)
      PROVE  JobsAwaited'
  BY <1>3, <1>4, <1>5 DEF CommitSave, KeepsResult, Terminal, EnqueueAfterSave
<1>6. ASSUME NEW t \in Starts, PostBatch(t)
      PROVE  JobsAwaited'
  <2>1. PICK asked : EnqueueLines(asked, start[t].env, start[t].gen)
    BY <1>6 DEF PostBatch
  <2> QED
    BY <1>4, <1>6, <2>1 DEF PostBatch
<1>7. CASE CancelTx
  BY <1>3, <1>7 DEF CancelTx
<1>8. ASSUME NEW c \in Consumers, FailsLine(c)
      PROVE  JobsAwaited'
  <2>1. UNCHANGED <<rev, content, jobs>> /\ \A l \in Lines : status'[l] = "queued" => status[l] = "queued"
    BY <1>8 DEF FailsLine, FailTx
  <2> QED
    BY <2>1, AwaitedFrame DEF Exists
<1>9. ASSUME NEW c \in Consumers, CompletesLine(c)
      PROVE  JobsAwaited'
  <2> DEFINE m == cons[c].msg
  <2>1. m.line \in Lines
    BY <1>9 DEF CompletesLine, JobsTypeInv, TypeInv, BusyConsumersHaveMessage, Idle, Message
  <2>2. UNCHANGED <<rev, jobs>>
    BY <1>9 DEF CompletesLine
  <2>3. \A l \in Lines : status'[l] = "queued" => status[l] = "queued" /\ content'[l] = content[l]
    BY <1>9, <2>1 DEF CompletesLine, RecordDone, RecordStale, JobsTypeInv, TypeInv, TypeOK
  <2> QED
    BY <2>2, <2>3, AwaitedFrame DEF Exists
<1> QED
  BY <1>2, <1>5, <1>6, <1>7, <1>8, <1>9, LineSteps

\* A verdict changes only the jobs of the line it takes out of the queue.
LEMMA VerdictAwaited ==
  ASSUME JobsTypeInv, JobsAwaited, NEW job \in Job, NEW verdict, jobs' = JobSet(job, verdict),
         UNCHANGED rev,
         \A l \in Lines : status'[l] = "queued" =>
            status[l] = "queued" /\ content'[l] = content[l] /\ (Exists(l) => l # job.line)
  PROVE  JobsAwaited'
<1>1. \A j \in jobs : j.line # job.line => j \in jobs'
  BY DEF JobSet, SameRow
<1> QED
  BY <1>1, AwaitedFrame DEF JobsAwaited, Exists

LEMMA JobsAwaitedNext ==
  ASSUME QueueMode # "rabbit", JobsTypeInv, JobsAwaited, [JobsNext]_jobsVars
  PROVE  JobsAwaited'
<1>1. jobs \subseteq Job
  BY DEF JobsTypeInv, TypeInv, TypeOK
<1>2. CASE Next
  BY <1>2, AwaitedNext
<1>3. ASSUME UNCHANGED <<content, rev>>,
             \A l \in Lines : status'[l] = "queued" => status[l] = "queued",
             \A j \in jobs : j.status \in Live =>
               \E k \in jobs' : k.line = j.line /\ k.rev = j.rev /\ k.status \in Live
      PROVE  JobsAwaited'
  BY <1>3, AwaitedFrame DEF Exists
<1>4. CASE UNCHANGED <<lineVars, jobs>>
  BY <1>3, <1>4 DEF lineVars
<1>5. ASSUME UNCHANGED lineVars, NEW w \in Workers, NEW j \in jobs, Claim(w, j)
      PROVE  JobsAwaited'
  <2> DEFINE leased == [j EXCEPT !.status = "leased", !.attempt = @ + 1, !.due = FALSE]
  <2>1. jobs' = (jobs \ {j}) \cup {leased}
    BY <1>5 DEF Claim
  <2>2. leased.line = j.line /\ leased.rev = j.rev /\ leased.status \in Live
    BY <1>1 DEF Job, Live
  <2> HIDE DEF leased
  <2> QED
    BY <1>3, <1>5, <2>1, <2>2 DEF lineVars
<1>6. ASSUME UNCHANGED lineVars, NEW j \in jobs, TimePasses(j)
      PROVE  JobsAwaited'
  <2> DEFINE due == [j EXCEPT !.due = TRUE]
  <2>1. jobs' = (jobs \ {j}) \cup {due}
    BY <1>6 DEF TimePasses
  <2>2. due.line = j.line /\ due.rev = j.rev /\ due.status = j.status
    BY <1>1 DEF Job
  <2> HIDE DEF due
  <2> QED
    BY <1>3, <1>6, <2>1, <2>2 DEF lineVars
<1>7. CASE UNCHANGED lineVars /\ ReleaseStuckLeases
  <2> DEFINE freed(j) == IF j.status = "leased" /\ j.due THEN [j EXCEPT !.status = "queued"] ELSE j
  <2>1. \A j \in jobs : freed(j) \in jobs'
    BY <1>7 DEF ReleaseStuckLeases
  <2>2. \A j \in Job : freed(j).line = j.line /\ freed(j).rev = j.rev
                       /\ (j.status \in Live => freed(j).status \in Live)
    BY DEF Job, Live
  <2> HIDE DEF freed
  <2> QED
    BY <1>1, <1>3, <1>7, <2>1, <2>2 DEF lineVars
<1>8. ASSUME NEW job \in Job, MarksLine(job)
      PROVE  JobsAwaited'
  <2>1. UNCHANGED <<content, rev, jobs>>
    BY <1>8 DEF MarksLine
  <2>2. \A l \in Lines : status'[l] = "queued" => status[l] = "queued"
    BY <1>8 DEF MarksLine, JobsTypeInv, TypeInv, TypeOK
  <2> QED
    BY <1>3, <2>1, <2>2
<1>9. ASSUME NEW job \in Job, CompletesHeld(job)
      PROVE  JobsAwaited'
  <2>1. job.line \in Lines
    BY DEF Job
  <2>2. \A l \in Lines : status'[l] = "queued" =>
          status[l] = "queued" /\ content'[l] = content[l] /\ (Exists(l) => l # job.line)
    BY <1>9, <2>1 DEF CompletesHeld, RecordDone, RecordStale, JobsTypeInv, TypeInv, TypeOK
  <2>3. PICK verdict : jobs' = JobSet(job, verdict)
    BY <1>9 DEF CompletesHeld
  <2> QED
    BY <1>9, <2>2, <2>3, VerdictAwaited DEF CompletesHeld
<1>10. ASSUME NEW job \in Job, FailsHeld(job)
       PROVE  JobsAwaited'
  <2>1. \A l \in Lines : status'[l] = "queued" =>
          status[l] = "queued" /\ content'[l] = content[l] /\ (Exists(l) => l # job.line)
    BY <1>10 DEF FailsHeld, FailTx
  <2>2. PICK verdict : jobs' = JobSet(job, verdict)
    BY <1>10 DEF FailsHeld
  <2> QED
    BY <1>10, <2>1, <2>2, VerdictAwaited DEF FailsHeld
<1>11. CASE UNCHANGED jobsVars
  BY <1>4, <1>11 DEF jobsVars, vars, events
<1> QED
  BY <1>2, <1>4, <1>5, <1>6, <1>7, <1>8, <1>9, <1>10, <1>11, WorkerLineSteps

\* No queued line is forgotten by the DB queue: its job is queued or leased, for any
\* number of workers, expired leases, saves and cancels.  Mode "rabbit" keeps no jobs.
THEOREM QueuedLinesHaveLiveJobs ==
  ASSUME QueueMode # "rabbit"
  PROVE  JobsSpec => []QueuedLineHasLiveJob
<1>1. JobsInit => JobsAwaited
  BY DEF JobsInit, Init, JobsAwaited
<1>2. JobsTypeInv /\ JobsAwaited /\ [JobsNext]_jobsVars => JobsAwaited'
  BY JobsAwaitedNext
<1>3. JobsAwaited => QueuedLineHasLiveJob
  BY DEF JobsAwaited, QueuedLineHasLiveJob
<1> QED
  BY <1>1, <1>2, <1>3, JobsTypeInit, JobsTypeNext, PTL DEF JobsSpec
-----------------------------------------------------------------------------
(* One job row for each revision of a line.                                *)

RowsUnique == \A j, k \in jobs : j.line = k.line /\ j.rev = k.rev => j = k

\* Rewriting every row without touching its key keeps the keys unique.
LEMMA UniqueRewritten ==
  ASSUME RowsUnique, NEW f, jobs' = {f[j] : j \in jobs},
         \A j \in jobs : f[j].line = j.line /\ f[j].rev = j.rev
  PROVE  RowsUnique'
BY DEF RowsUnique

\* Replacing one row by one with its key does as well.
LEMMA UniqueReplaced ==
  ASSUME RowsUnique, NEW j \in jobs, NEW n, jobs' = (jobs \ {j}) \cup {n},
         n.line = j.line, n.rev = j.rev
  PROVE  RowsUnique'
BY DEF RowsUnique

\* Asking for lines adds rows for the keys that have none only, one for each.
LEMMA UniqueRequeued ==
  ASSUME RowsUnique, jobs \subseteq Job, NEW asked \in SUBSET (Lines \X Revision),
         jobs' = Requeued(asked)
  PROVE  RowsUnique'
<1> DEFINE f == [j \in jobs |-> IF JobKey(j) \in asked /\ j.status # "leased"
                                THEN [j EXCEPT !.status = "queued", !.due = TRUE] ELSE j]
           fresh == asked \ {JobKey(j) : j \in jobs}
<1>1. \A j \in jobs : f[j].line = j.line /\ f[j].rev = j.rev
  BY DEF Job
<1>2. jobs' = {f[j] : j \in jobs} \cup {NewJob(k) : k \in fresh}
  BY DEF Requeued
<1>3. \A k \in fresh : /\ NewJob(k).line = k[1] /\ NewJob(k).rev = k[2] /\ k = <<k[1], k[2]>>
                       /\ \A j \in jobs : <<j.line, j.rev>> # k
  BY DEF NewJob, JobKey
<1> HIDE DEF f, fresh
<1> SUFFICES ASSUME NEW a \in jobs', NEW b \in jobs', a.line = b.line, a.rev = b.rev
             PROVE  a = b
  BY DEF RowsUnique
<1>4. CASE a \in {f[j] : j \in jobs} /\ b \in {f[j] : j \in jobs}
  BY <1>1, <1>4 DEF RowsUnique
<1>5. CASE a \in {NewJob(k) : k \in fresh} /\ b \in {NewJob(k) : k \in fresh}
  <2>1. PICK k \in fresh, m \in fresh : a = NewJob(k) /\ b = NewJob(m)
    BY <1>5
  <2>2. k = m
    BY <1>3, <2>1
  <2> QED
    BY <2>1, <2>2
<1>6. ASSUME NEW j \in jobs, NEW k \in fresh, f[j].line = NewJob(k).line, f[j].rev = NewJob(k).rev
      PROVE  FALSE
  BY <1>1, <1>3, <1>6
<1> QED
  BY <1>2, <1>4, <1>5, <1>6

LEMMA UniqueNext ==
  ASSUME JobsTypeInv, RowsUnique, [JobsNext]_jobsVars
  PROVE  RowsUnique'
<1> USE DEF header, lineVars, calcVars, events, server, publisher, queues
<1>1. TypeInv /\ TypeOK /\ jobs \subseteq Job
  BY DEF JobsTypeInv, TypeInv, TypeOK
<1>2. ASSUME jobs' = jobs
      PROVE  RowsUnique'
  BY <1>2 DEF RowsUnique
<1>3. ASSUME NEW doomed, jobs' = Killed(doomed)
      PROVE  RowsUnique'
  <2> DEFINE f == [j \in jobs |-> IF j.status \in Live /\ j.line \in doomed
                                  THEN [j EXCEPT !.status = "dead", !.due = FALSE] ELSE j]
  <2>1. jobs' = {f[j] : j \in jobs}
    BY <1>3 DEF Killed
  <2>2. \A j \in jobs : f[j].line = j.line /\ f[j].rev = j.rev
    BY <1>1 DEF Job
  <2> HIDE DEF f
  <2> QED
    BY <2>1, <2>2, UniqueRewritten
<1>4. ASSUME NEW job, NEW verdict, jobs' = JobSet(job, verdict)
      PROVE  RowsUnique'
  <2> DEFINE f == [j \in jobs |-> IF SameRow(j, job)
                                  THEN [j EXCEPT !.status = verdict, !.due = FALSE] ELSE j]
  <2>1. jobs' = {f[j] : j \in jobs}
    BY <1>4 DEF JobSet
  <2>2. \A j \in jobs : f[j].line = j.line /\ f[j].rev = j.rev
    BY <1>1 DEF Job
  <2> HIDE DEF f
  <2> QED
    BY <2>1, <2>2, UniqueRewritten
<1>5. CASE ReleaseStuckLeases
  <2> DEFINE f == [j \in jobs |-> IF j.status = "leased" /\ j.due
                                  THEN [j EXCEPT !.status = "queued"] ELSE j]
  <2>1. jobs' = {f[j] : j \in jobs}
    BY <1>5 DEF ReleaseStuckLeases
  <2>2. \A j \in jobs : f[j].line = j.line /\ f[j].rev = j.rev
    BY <1>1 DEF Job
  <2> HIDE DEF f
  <2> QED
    BY <2>1, <2>2, UniqueRewritten
<1>6. ASSUME NEW w \in Workers, NEW j \in jobs, Claim(w, j)
      PROVE  RowsUnique'
  <2> DEFINE n == [j EXCEPT !.status = "leased", !.attempt = @ + 1, !.due = FALSE]
  <2>1. n.line = j.line /\ n.rev = j.rev
    BY <1>1 DEF Job
  <2>2. jobs' = (jobs \ {j}) \cup {n}
    BY <1>6 DEF Claim
  <2> HIDE DEF n
  <2> QED
    BY <2>1, <2>2, UniqueReplaced
<1>7. ASSUME NEW j \in jobs, TimePasses(j)
      PROVE  RowsUnique'
  <2> DEFINE n == [j EXCEPT !.due = TRUE]
  <2>1. n.line = j.line /\ n.rev = j.rev
    BY <1>1 DEF Job
  <2>2. jobs' = (jobs \ {j}) \cup {n}
    BY <1>7 DEF TimePasses
  <2> HIDE DEF n
  <2> QED
    BY <2>1, <2>2, UniqueReplaced
<1>8. ASSUME NEW asked \in Document, NEW e \in Envs, NEW g \in Nat, EnqueueLines(asked, e, g)
      PROVE  RowsUnique'
  <2> DEFINE keys == {<<l, RevisionOf(asked[l], e, g)>> : l \in DOMAIN asked}
  <2>1. keys \in SUBSET (Lines \X Revision)
    BY DocumentElim, RevisionOfType
  <2>2. jobs' = jobs \/ jobs' = Requeued(keys)
    BY <1>8 DEF EnqueueLines
  <2> HIDE DEF keys
  <2> QED
    BY <1>1, <1>2, <2>1, <2>2, UniqueRequeued
<1>9. ASSUME NEW s \in Saves, EnqueueAfterSave(s)
      PROVE  RowsUnique'
  <2>1. save[s].lines \in Document /\ save[s].env \in Envs /\ save[s].gen \in Nat
    BY <1>1, <1>9 DEF EnqueueAfterSave, TypeInv, TypeOK, SaveRecord, RequestsKnowHeader
  <2> QED
    BY <1>8, <1>9, <2>1 DEF EnqueueAfterSave
<1>10. ASSUME NEW t \in Starts, PostBatch(t)
       PROVE  RowsUnique'
  <2>1. start[t].todo \in Document /\ start[t].env \in Envs /\ start[t].gen \in Nat
    BY <1>1, <1>10 DEF PostBatch, TypeInv, TypeOK, StartRecord, RequestsKnowHeader
  <2>2. PICK batch \in SUBSET DOMAIN start[t].todo :
          EnqueueLines([l \in batch |-> start[t].todo[l]], start[t].env, start[t].gen)
    BY <1>10 DEF PostBatch
  <2>3. [l \in batch |-> start[t].todo[l]] \in Document
    BY <2>1, DocumentRestrict
  <2> QED
    BY <1>8, <2>1, <2>2, <2>3
<1>11. CASE Next
  <2>1. CASE UNCHANGED <<lineVars, receipts, jobs>>
    BY <1>2, <2>1
  <2>2. CASE \E s \in Saves : CommitSave(s) \/ EnqueueAfterSave(s)
    BY <1>3, <1>9, <2>2 DEF CommitSave
  <2>3. CASE CancelTx
    BY <1>3, <2>3 DEF CancelTx
  <2>4. CASE \E c \in Consumers : FailsLine(c) \/ CompletesLine(c)
    BY <1>2, <2>4 DEF FailsLine, CompletesLine
  <2> QED
    BY <1>10, <1>11, <2>1, <2>2, <2>3, <2>4, LineSteps
<1>12. ASSUME NEW job \in Job, MarksLine(job) \/ CompletesHeld(job) \/ FailsHeld(job)
       PROVE  RowsUnique'
  BY <1>2, <1>4, <1>12 DEF MarksLine, CompletesHeld, FailsHeld
<1>13. CASE JobsNext /\ ~(Next /\ UNCHANGED worker)
  <2>1. \/ jobs' = jobs
        \/ \E w \in Workers, j \in jobs : Claim(w, j)
        \/ \E j \in jobs : TimePasses(j)
        \/ ReleaseStuckLeases
        \/ \E job \in Job : MarksLine(job) \/ CompletesHeld(job) \/ FailsHeld(job)
    BY <1>13, WorkerLineSteps
  <2> QED
    BY <1>2, <1>5, <1>6, <1>7, <1>12, <2>1
<1> QED
  BY <1>2, <1>11, <1>13 DEF jobsVars, vars

\* Type correctness of the whole, with the key of estimate_calc_jobs: however often a
\* line is asked for, claimed, cancelled and asked for again, a revision has one row.
THEOREM JobsTypeCorrect == JobsSpec => []JobsTypeOK
<1>1. JobsInit => RowsUnique
  BY DEF JobsInit, Init, RowsUnique
<1>2. JobsTypeInv /\ RowsUnique /\ [JobsNext]_jobsVars => RowsUnique'
  BY UniqueNext
<1>3. JobsTypeInv /\ RowsUnique => JobsTypeOK
  BY DEF JobsTypeInv, TypeInv, RowsUnique, JobsTypeOK, WorkersTyped, WorkerRecord
<1> QED
  BY <1>1, <1>2, <1>3, JobsTypeInit, JobsTypeNext, PTL DEF JobsSpec
=============================================================================
