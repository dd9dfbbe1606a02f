------------------------ MODULE EstimateLocksProofs -------------------------
(***************************************************************************)
(* Proofs about EstimateLocks for every number of users, every time a lock *)
(* lasts and every number of gestures and faults.                          *)
(***************************************************************************)
EXTENDS EstimateLocks, FiniteSetTheorems, TLAPS

-----------------------------------------------------------------------------
(* The lock table implements the lease with one seat.                      *)

LockTyped == lock \in [user : Users \cup {None}, age : Nat]

\* The lease's view of the lock: of its user the ticks since it was renewed.
Silence == [u \in Users |-> IF lock.user = u THEN lock.age ELSE -1]

\* Only these steps touch the lock.
LockStep ==
  \/ \E u \in Users, k \in Kinds : HandleAcquire(u, k)
  \/ \E u \in Users : HandleRelease(u)
  \/ ForceRelease
  \/ lock' = Purged(lock)
  \/ Tick
  \/ UNCHANGED lock

LEMMA EveryStepIsALockStep ==
  ASSUME [Next]_vars
  PROVE  LockStep
<1>1. CASE \E u \in Users : ServerStep(u)
  BY <1>1 DEF ServerStep, HandleSave, LockStep
<1>2. CASE \E u \in Users : AnswerStep(u)
  BY <1>2 DEF AnswerStep, Selected, Saved, Closed, Released, Polled, Beaten, Renewed, LockStep
<1>3. CASE \E u \in Users : TimerStep(u)
  BY <1>3 DEF TimerStep, Timer, LockStep
<1>4. CASE \E u \in Users : UserStep(u)
  BY <1>4 DEF UserStep, Select, Save, Close, Reload, Sleep, Wake, TakeLists, LockStep
<1>5. CASE \E u \in Users : OpeningStep(u)
  BY <1>5 DEF OpeningStep, Open, OpenRefused, OpenAsks, OpenCopy, Opened, DetailFails, LockStep
<1>6. CASE ForceRelease \/ Tick \/ UNCHANGED vars
  BY <1>6 DEF LockStep, vars
<1> QED
  BY <1>1, <1>2, <1>3, <1>4, <1>5, <1>6 DEF Next

LEMMA LockTypedInit == Init => LockTyped
BY DEF Init, LockTyped, NoLock

LEMMA LockTypedNext ==
  ASSUME LockTyped, [Next]_vars
  PROVE  LockTyped'
<1>1. NoLock \in [user : Users \cup {None}, age : Nat]
  BY DEF NoLock
<1>2. Purged(lock) \in [user : Users \cup {None}, age : Nat]
  BY <1>1 DEF Purged, LockTyped
<1>3. CASE \E u \in Users, k \in Kinds : HandleAcquire(u, k)
  BY <1>2, <1>3 DEF HandleAcquire, LockTyped
<1>4. CASE \E u \in Users : HandleRelease(u)
  BY <1>1, <1>4 DEF HandleRelease, LockTyped
<1>5. CASE ForceRelease \/ lock' = Purged(lock) \/ UNCHANGED lock
  BY <1>1, <1>2, <1>5 DEF ForceRelease, LockTyped
<1>6. CASE Tick
  BY <1>6 DEF Tick, LockTyped
<1> QED
  BY <1>3, <1>4, <1>5, <1>6, EveryStepIsALockStep DEF LockStep

LEMMA SilenceIs ==
  ASSUME NEW u \in Users
  PROVE  Silence[u] = IF lock.user = u THEN lock.age ELSE -1
BY DEF Silence

\* The lease counts as FiniteSets does.
LEMMA NoneIsFewerThanOne == Seats!Cardinality({}) < 1
<1>1. Seats!Cardinality({}) = Cardinality({})
  BY DEF Seats!Cardinality, Cardinality
<1> QED
  BY <1>1, FS_EmptySet

\* A seat of the lease is in use exactly while Purged leaves its user the lock.
LEMMA LiveIsHolding ==
  ASSUME LockTyped, NEW u \in Users
  PROVE  Seats!Live(u) <=> lock.user = u /\ lock.age <= TTL
BY TTLAssumption DEF Seats!Live, LockTyped

LEMMA PurgedIsPurge ==
  ASSUME LockTyped, lock' = Purged(lock)
  PROVE  Seats!Purge
<1>1. \A u \in Users : Seats!Live(u) <=> lock.user = u /\ lock.age <= TTL
  BY LiveIsHolding
<1>2. \A u \in Users : (IF lock'.user = u THEN lock'.age ELSE -1) =
                         IF lock.user = u /\ lock.age <= TTL THEN lock.age ELSE -1
  BY TTLAssumption, UsersAssumption DEF Purged, LockTyped, NoLock
<1> QED
  BY <1>1, <1>2 DEF Seats!Purge, Seats!NoSeat

LEMMA AcquireIsGrantOrPurge ==
  ASSUME LockTyped, NEW u \in Users, NEW k \in Kinds, HandleAcquire(u, k)
  PROVE  Seats!Grant(u) \/ Seats!Purge
<1>1. CASE Holder \in {None, u}
  <2>1. lock' = [user |-> u, age |-> 0]
    BY <1>1 DEF HandleAcquire
  <2>2. \A v \in Users : Seats!Live(v) <=> lock.user = v /\ lock.age <= TTL
    BY LiveIsHolding
  <2>3. \A v \in Users : Seats!Live(v) => v = u
    BY <1>1, <2>2, UsersAssumption, TTLAssumption DEF Holder, Purged, LockTyped, NoLock
  <2>4. Seats!Live(u) \/ Seats!Cardinality(Seats!LiveUsers) < 1
    <3>1. CASE ~Seats!Live(u)
      <4>1. Seats!LiveUsers = {}
        BY <2>3, <3>1 DEF Seats!LiveUsers
      <4> QED
        BY <4>1, NoneIsFewerThanOne
    <3> QED
      BY <3>1
  <2>5. Silence' = [v \in Users |-> IF v = u THEN 0 ELSE IF Seats!Live(v) THEN Silence[v] ELSE Seats!NoSeat]
    BY <2>1, <2>3 DEF Silence, Seats!NoSeat
  <2> QED
    BY <2>4, <2>5 DEF Seats!Grant, Silence
<1>2. CASE Holder \notin {None, u}
  BY <1>2, PurgedIsPurge DEF HandleAcquire
<1> QED
  BY <1>1, <1>2

\* The lock is given up by its user or taken from him.
LEMMA NoLockIsDrop ==
  ASSUME LockTyped, NEW u \in Users, lock.user = u, lock' = NoLock
  PROVE  Seats!Drop(u)
<1>1. Silence' = [Silence EXCEPT ![u] = Seats!NoSeat]
  BY UsersAssumption DEF Silence, NoLock, Seats!NoSeat, LockTyped
<1> QED
  BY <1>1 DEF Seats!Drop, Silence

LEMMA TickIsTick ==
  ASSUME LockTyped, Tick
  PROVE  Seats!Tick
<1>1. \A u \in Users : Seats!Live(u) <=> lock.user = u /\ lock.age <= TTL
  BY LiveIsHolding
<1>2. lock' = IF lock.user # None /\ lock.age <= TTL THEN [lock EXCEPT !.age = @ + 1] ELSE lock
  BY DEF Tick
<1>3. \A u \in Users : (IF lock'.user = u THEN lock'.age ELSE -1) =
                         IF lock.user = u /\ lock.age <= TTL THEN lock.age + 1
                         ELSE IF lock.user = u THEN lock.age ELSE -1
  BY <1>2, UsersAssumption DEF LockTyped
<1> QED
  BY <1>1, <1>3 DEF Seats!Tick

LEMMA LockStepIsLeaseStep ==
  ASSUME LockTyped, LockStep
  PROVE  [Seats!Next]_Silence
<1>1. CASE \E u \in Users, k \in Kinds : HandleAcquire(u, k)
  BY <1>1, AcquireIsGrantOrPurge DEF Seats!Next
<1>2. CASE \E u \in Users : HandleRelease(u)
  <2>1. PICK u \in Users : HandleRelease(u)
    BY <1>2
  <2>2. CASE lock.user = u
    BY <2>1, <2>2, NoLockIsDrop DEF HandleRelease, Seats!Next
  <2>3. CASE lock.user # u
    BY <2>1, <2>3 DEF HandleRelease, Silence
  <2> QED
    BY <2>2, <2>3
<1>3. CASE ForceRelease
  <2>1. PICK u \in Users : lock.user = u /\ lock' = NoLock
    BY <1>3 DEF ForceRelease, Holder, Purged, NoLock, LockTyped
  <2> QED
    BY <2>1, NoLockIsDrop DEF Seats!Next
<1>4. CASE lock' = Purged(lock)
  BY <1>4, PurgedIsPurge DEF Seats!Next
<1>5. CASE Tick
  BY <1>5, TickIsTick DEF Seats!Next
<1>6. CASE UNCHANGED lock
  BY <1>6 DEF Silence
<1> QED
  BY <1>1, <1>2, <1>3, <1>4, <1>5, <1>6 DEF LockStep

\* EstimateLocks implements the lease with one seat, for every number of users and every
\* time a lock lasts: acquire, release, list and the administrator's release of
\* presence/locks.go never have two users hold the lock of an estimate.
THEOREM LocksAreALease == Spec => IsLease
<1>1. Init => Seats!Init
  BY UsersAssumption DEF Init, NoLock, Seats!Init, Seats!NoSeat
<1>2. LockTyped /\ [Next]_vars => [Seats!Next]_Silence
  BY EveryStepIsALockStep, LockStepIsLeaseStep
<1>3. LockTyped /\ [Next]_vars => LockTyped'
  BY LockTypedNext
<1>4. Spec => Seats!Spec
  BY <1>1, <1>2, <1>3, LockTypedInit, PTL DEF Spec, Seats!Spec, Silence
<1> QED
  BY <1>4 DEF IsLease

-----------------------------------------------------------------------------
(* Types.                                                                  *)

LEMMA TypeInit == Init => TypeOK
<1> SUFFICES ASSUME Init PROVE TypeOK
  OBVIOUS
<1>1. lock \in LockRecord /\ (lock.user = None => lock = NoLock)
  BY TTLAssumption DEF Init, NoLock, LockRecord
<1>2. Idle \in CallRecord
  BY DEF Idle, CallRecord, Phases
<1>3. call \in [Users -> [Kinds -> CallRecord]]
  BY <1>2 DEF Init
<1>4. tab \in [Users -> TabRecord]
  BY DEF Init, NewTab, TabRecord, Versions
<1>5. due \in [Users -> SUBSET {"poll", "beat"}] /\ lapsed \in [Users -> Lapses]
  BY DEF Init, Lapses
<1>6. lost \in BOOLEAN /\ astray \in [Users -> Nat]
  BY DEF Init
<1>7. gestures \in 0 .. MaxGestures /\ faults \in 0 .. MaxFaults
  BY BoundsAssumption DEF Init
<1> QED
  BY <1>1, <1>3, <1>4, <1>5, <1>6, <1>7 DEF TypeOK

\* The constants the steps put in place have the types of the variables.
LEMMA PartsTyped ==
  ASSUME TypeOK
  PROVE  /\ Idle \in CallRecord
         /\ NoLock \in LockRecord
         /\ Purged(lock) \in LockRecord
         /\ Purged(lock).user = None => Purged(lock) = NoLock
         /\ Holder \in Users \cup {None}
BY TTLAssumption DEF TypeOK, LockRecord, CallRecord, Idle, NoLock, Phases, Purged, Holder

\* Going to a phase, and coming to the end, keep the calls typed.
LEMMA GoesTyped ==
  ASSUME TypeOK, NEW u \in Users, NEW k \in Kinds, NEW phase \in Phases
  PROVE  /\ Goes(u, k, phase) \in [Users -> [Kinds -> CallRecord]]
         /\ Ends(u, k) \in [Users -> [Kinds -> CallRecord]]
<1>1. call \in [Users -> [Kinds -> CallRecord]] /\ Idle \in CallRecord
  BY PartsTyped DEF TypeOK
<1>2. [call[u][k] EXCEPT !.at = phase] \in CallRecord
  BY <1>1 DEF CallRecord
<1>3. Goes(u, k, phase) = [call EXCEPT ![u] = [call[u] EXCEPT ![k] = [call[u][k] EXCEPT !.at = phase]]]
  BY DEF Goes
<1>4. Ends(u, k) = [call EXCEPT ![u] = [call[u] EXCEPT ![k] = Idle]]
  BY DEF Ends
<1> QED
  BY <1>1, <1>2, <1>3, <1>4

\* What a step may make of a tab.
LEMMA TabTyped ==
  ASSUME NEW t \in TabRecord, NEW who \in Users \cup {None}, NEW version \in Versions
  PROVE  /\ [t EXCEPT !.known = who] \in TabRecord
         /\ [t EXCEPT !.awake = TRUE] \in TabRecord /\ [t EXCEPT !.awake = FALSE] \in TabRecord
         /\ [t EXCEPT !.base = version] \in TabRecord
         /\ [t EXCEPT !.copy = version] \in TabRecord
         /\ InEditor(t, version) \in TabRecord
         /\ [NewTab EXCEPT !.open = TRUE, !.base = version] \in TabRecord
         /\ \A w \in Users : Overtaken(t, w) \in TabRecord
         /\ Stored(t) \in TabRecord /\ Answered(t) \in TabRecord /\ Left(t) \in TabRecord
<1>1. /\ [t EXCEPT !.known = who] \in TabRecord
      /\ [t EXCEPT !.awake = TRUE] \in TabRecord /\ [t EXCEPT !.awake = FALSE] \in TabRecord
      /\ [t EXCEPT !.base = version] \in TabRecord
      /\ [t EXCEPT !.copy = version] \in TabRecord
  BY DEF TabRecord
<1>2. InEditor(t, version) \in TabRecord
  BY DEF TabRecord, InEditor
<1>3. [NewTab EXCEPT !.open = TRUE, !.base = version] \in TabRecord
  BY DEF TabRecord, NewTab, Versions
<1>4. {"none", "latest", "old", t.base, t.copy, t.answer} \subseteq Versions
  BY DEF TabRecord, Versions
<1>5. ASSUME NEW w \in Users
      PROVE  Overtaken(t, w) \in TabRecord
  <2>1. {Outdated(t.base, w), Outdated(t.copy, w), Outdated(t.answer, w)} \subseteq Versions
    BY <1>4 DEF Outdated
  <2> QED
    BY <2>1 DEF Overtaken, TabRecord
<1>6. Stored(t) \in TabRecord
  BY <1>4 DEF Stored, TabRecord
<1>7. Answered(t) \in TabRecord
  BY <1>4 DEF Answered, TabRecord
<1>8. Left(t) \in TabRecord
  BY <1>4 DEF Left, TabRecord
<1> QED
  BY <1>1, <1>2, <1>3, <1>5, <1>6, <1>7, <1>8

LEMMA VersionsAre ==
  ASSUME TypeOK, NEW u \in Users
  PROVE  /\ {"none", "latest", "stale", tab[u].base, tab[u].copy} \subseteq Versions
         /\ tab[u] \in TabRecord
BY DEF TypeOK, TabRecord, Versions

LEMMA PutTyped ==
  ASSUME TypeOK, NEW u \in Users, NEW t \in TabRecord
  PROVE  [tab EXCEPT ![u] = t] \in [Users -> TabRecord] /\ tab[u] \in TabRecord
BY DEF TypeOK

LEMMA AcquireTyped ==
  ASSUME TypeOK, NEW u \in Users, NEW k \in Kinds, HandleAcquire(u, k)
  PROVE  TypeOK'
<1>1. lock' \in LockRecord /\ (lock'.user = None => lock' = NoLock)
  BY PartsTyped, TTLAssumption, UsersAssumption DEF HandleAcquire, LockRecord
<1>2. call' \in [Users -> [Kinds -> CallRecord]]
  <2>1. [Idle EXCEPT !.at = "acquired", !.seen = lock'.user] \in CallRecord
    BY <1>1 DEF Idle, Phases, CallRecord, LockRecord
  <2> QED
    BY <2>1 DEF HandleAcquire, TypeOK
<1>3. faults' \in 0 .. MaxFaults
  BY BoundsAssumption DEF HandleAcquire, Fault, TypeOK
<1>4. lapsed' \in [Users -> Lapses] /\ astray' \in [Users -> Nat]
  BY DEF HandleAcquire, TypeOK, Lapses
<1> QED
  BY <1>1, <1>2, <1>3, <1>4 DEF HandleAcquire, TypeOK

LEMMA ServerTyped ==
  ASSUME TypeOK, NEW u \in Users, ServerStep(u)
  PROVE  TypeOK'
<1>1. CASE HandleRelease(u)
  <2>1. call' \in [Users -> [Kinds -> CallRecord]]
    BY <1>1, GoesTyped DEF HandleRelease, Kinds, Phases
  <2>2. lock' \in LockRecord /\ (lock'.user = None => lock' = NoLock)
    BY <1>1, PartsTyped DEF HandleRelease, TypeOK
  <2>3. lapsed' \in [Users -> Lapses]
    BY <1>1 DEF HandleRelease, TypeOK, Lapses
  <2> QED
    BY <1>1, <2>1, <2>2, <2>3 DEF HandleRelease, TypeOK, histories, bounds
<1>2. ASSUME NEW k \in Kinds, HandleSave(u, k)
      PROVE  TypeOK'
  <2>1. call' \in [Users -> [Kinds -> CallRecord]]
    BY <1>2, GoesTyped DEF HandleSave, Phases
  <2>2. tab' \in [Users -> TabRecord]
    <3>1. \A v \in Users : Overtaken(tab[v], u) \in TabRecord /\ Stored(tab[v]) \in TabRecord
      BY TabTyped, VersionsAre
    <3> QED
      BY <1>2, <3>1 DEF HandleSave
  <2>3. lost' \in BOOLEAN
    BY <1>2 DEF HandleSave
  <2> QED
    BY <1>2, <2>1, <2>2, <2>3 DEF HandleSave, TypeOK, bounds
<1> QED
  BY <1>1, <1>2, AcquireTyped DEF ServerStep

\* A browser's step changes at most the user's tab, calls and timers, and forgets an old lock.
BrowserTyped ==
  /\ tab' \in [Users -> TabRecord]
  /\ call' \in [Users -> [Kinds -> CallRecord]]
  /\ due' \in [Users -> SUBSET {"poll", "beat"}]
  /\ lapsed' \in [Users -> Lapses]
  /\ gestures' \in 0 .. MaxGestures /\ faults' \in 0 .. MaxFaults

LEMMA BrowserStepTyped ==
  ASSUME TypeOK, BrowserTyped, lock' \in {lock, Purged(lock)}, UNCHANGED <<lost, astray>>
  PROVE  TypeOK'
BY PartsTyped DEF TypeOK, BrowserTyped

LEMMA InformedTyped ==
  ASSUME TypeOK, NEW u \in Users, NEW seen \in Users \cup {None}
  PROVE  Informed(tab[u], u, seen) \in
           TabRecord
<1>1. tab[u] \in TabRecord
  BY DEF TypeOK
<1>2. Left(tab[u]) \in TabRecord
  BY <1>1, TabTyped, VersionsAre
<1> QED
  BY <1>1, <1>2 DEF Informed, TabRecord

LEMMA AnswerTyped ==
  ASSUME TypeOK, NEW u \in Users, AnswerStep(u)
  PROVE  TypeOK'
<1> USE DEF histories, bounds
<1>0. /\ \A k \in Kinds : call[u][k].seen \in Users \cup {None}
      /\ {"open", "select", "close", "save", "poll", "beat", "release"} \subseteq Kinds
      /\ {"idle", "acquire", "sent", "read"} \subseteq Phases
      /\ tab[u] \in TabRecord
  BY DEF TypeOK, CallRecord, Kinds, Phases
<1>1. CASE Selected(u) \/ Saved(u) \/ Released(u) \/ Renewed(u)
  <2>1. call' \in [Users -> [Kinds -> CallRecord]]
    <3>1. PICK k \in Kinds : call' = Ends(u, k)
      BY <1>0, <1>1 DEF Selected, Saved, Released, Renewed
    <3> QED
      BY <1>0, <3>1, GoesTyped
  <2>2. PICK who \in Users \cup {None} :
          tab' \in {[tab EXCEPT ![u] = [tab[u] EXCEPT !.known = who]], [tab EXCEPT ![u] = Answered(tab[u])]}
    BY <1>0, <1>1 DEF Selected, Saved, Released, Renewed
  <2>3. tab' \in [Users -> TabRecord]
    <3>1. [tab[u] EXCEPT !.known = who] \in TabRecord /\ Answered(tab[u]) \in TabRecord
      BY <1>0, TabTyped, VersionsAre
    <3> QED
      BY <2>2, <3>1, PutTyped
  <2>4. BrowserTyped
    BY <1>1, <2>1, <2>3 DEF Selected, Saved, Released, Renewed, TypeOK, BrowserTyped
  <2> QED
    BY <1>1, <2>4, BrowserStepTyped DEF Selected, Saved, Released, Renewed
<1>3. CASE Closed(u)
  <2>1. call' \in [Users -> [Kinds -> CallRecord]]
    <3>1. [call[u]["release"] EXCEPT !.at = "sent"] \in CallRecord /\ Idle \in CallRecord
      BY <1>0, PartsTyped DEF TypeOK, CallRecord, Kinds
    <3>2. call' = [call EXCEPT ![u] = [call[u] EXCEPT !["close"] = Idle,
                                      !["release"] = [call[u]["release"] EXCEPT !.at = "sent"]]]
      BY <1>0, <1>3 DEF Closed, TypeOK
    <3> QED
      BY <1>0, <3>1, <3>2 DEF TypeOK
  <2>2. tab' \in [Users -> TabRecord]
    <3>1. Left(Answered(tab[u])) \in TabRecord
      BY <1>0, TabTyped, VersionsAre
    <3> QED
      BY <1>3, <3>1, PutTyped DEF Closed
  <2>3. BrowserTyped
    BY <1>3, <2>1, <2>2 DEF Closed, TypeOK, BrowserTyped
  <2> QED
    BY <1>3, <2>3, BrowserStepTyped DEF Closed
<1>4. CASE Polled(u)
  <2> DEFINE next == Informed(tab[u], u, call[u]["poll"].seen)
  <2>1. call' \in [Users -> [Kinds -> CallRecord]]
    BY <1>0, <1>4, GoesTyped DEF Polled
  <2>2. next \in TabRecord
    BY <1>0, InformedTyped
  <2> HIDE DEF next
  <2>3. tab' \in [Users -> TabRecord]
    <3>1. tab' = [tab EXCEPT ![u] = IF tab[u].open /\ ~next.open THEN [next EXCEPT !.known = None] ELSE next]
      BY <1>4 DEF Polled, next
    <3>2. [next EXCEPT !.known = None] \in TabRecord
      BY <2>2, TabTyped, VersionsAre
    <3> QED
      BY <2>2, <3>1, <3>2, PutTyped
  <2>4. due' \in [Users -> SUBSET {"poll", "beat"}]
    BY <1>4 DEF Polled, TypeOK
  <2>5. BrowserTyped
    BY <1>4, <2>1, <2>3, <2>4 DEF Polled, TypeOK, BrowserTyped
  <2> QED
    BY <1>4, <2>5, BrowserStepTyped DEF Polled
<1>5. CASE Beaten(u)
  <2>1. call' \in [Users -> [Kinds -> CallRecord]]
    BY <1>0, <1>5, GoesTyped DEF Beaten
  <2>2. tab' \in [Users -> TabRecord]
    <3>1. Informed(tab[u], u, call[u]["beat"].seen) \in TabRecord
      BY <1>0, InformedTyped
    <3> QED
      BY <1>5, <3>1, PutTyped DEF Beaten, TypeOK
  <2>3. BrowserTyped
    BY <1>5, <2>1, <2>2 DEF Beaten, TypeOK, BrowserTyped
  <2> QED
    BY <1>5, <2>3, BrowserStepTyped DEF Beaten
<1> QED
  BY <1>1, <1>3, <1>4, <1>5 DEF AnswerStep

LEMMA OpeningTyped ==
  ASSUME TypeOK, NEW u \in Users, OpeningStep(u)
  PROVE  TypeOK'
<1> USE DEF histories, bounds
<1>1. PICK phase \in Phases : call' \in {Goes(u, "open", phase), Ends(u, "open")}
  <2>1. {"acquire", "read"} \subseteq Phases
    BY DEF Phases
  <2>2. CASE Open(u) \/ OpenRefused(u) \/ OpenAsks(u)
    BY <2>1, <2>2 DEF Open, OpenRefused, OpenAsks
  <2>3. CASE OpenCopy(u) \/ Opened(u) \/ DetailFails(u)
    BY <2>1, <2>3 DEF OpenCopy, Opened, DetailFails
  <2> QED
    BY <2>2, <2>3 DEF OpeningStep
<1>2. call' \in [Users -> [Kinds -> CallRecord]]
  BY <1>1, GoesTyped DEF Kinds
<1>3. Knowing(u) \in TabRecord
  <2>1. call[u]["open"].seen \in Users \cup {None}
    BY DEF TypeOK, CallRecord, Kinds
  <2> QED
    BY <2>1, TabTyped, VersionsAre DEF Knowing
<1>4. \A version \in Versions :
        /\ [Knowing(u) EXCEPT !.base = version] \in TabRecord /\ [tab[u] EXCEPT !.base = version] \in TabRecord
        /\ InEditor(Knowing(u), version) \in TabRecord
        /\ [InEditor(tab[u], version) EXCEPT !.copy = version] \in TabRecord
  BY <1>3, TabTyped, VersionsAre
<1>5. tab' \in [Users -> TabRecord]
  <2>1. CASE Open(u) \/ OpenRefused(u)
    BY <1>3, <2>1, PutTyped DEF Open, OpenRefused, TypeOK
  <2>2. CASE OpenAsks(u) \/ DetailFails(u)
    BY <1>4, <2>2, PutTyped, VersionsAre DEF OpenAsks, DetailFails
  <2>3. CASE OpenCopy(u)
    BY <1>4, <2>3, PutTyped, VersionsAre DEF OpenCopy
  <2>4. CASE Opened(u)
    BY <1>4, <2>4, PutTyped, VersionsAre DEF Opened
  <2> QED
    BY <2>1, <2>2, <2>3, <2>4 DEF OpeningStep
<1>6. gestures' \in 0 .. MaxGestures /\ faults' \in 0 .. MaxFaults
  BY BoundsAssumption DEF OpeningStep, Open, OpenRefused, OpenAsks, OpenCopy, Opened, DetailFails, Gesture, Fault, TypeOK
<1>7. UNCHANGED <<lock, due, lapsed, lost, astray>>
  BY DEF OpeningStep, Open, OpenRefused, OpenAsks, OpenCopy, Opened, DetailFails
<1>8. BrowserTyped
  BY <1>2, <1>5, <1>6, <1>7 DEF TypeOK, BrowserTyped
<1> QED
  BY <1>7, <1>8, BrowserStepTyped

LEMMA TimerTyped ==
  ASSUME TypeOK, NEW u \in Users, TimerStep(u)
  PROVE  TypeOK'
<1>1. PICK k \in Kinds : Timer(u, k)
  BY DEF TimerStep
<1>2. [Idle EXCEPT !.at = "listed", !.seen = Holder] \in CallRecord
  BY PartsTyped DEF Idle, Phases, CallRecord
<1>3. call' \in [Users -> [Kinds -> CallRecord]]
  BY <1>1, <1>2 DEF Timer, TypeOK
<1>4. due' \in [Users -> SUBSET {"poll", "beat"}]
  BY <1>1 DEF Timer, TypeOK
<1>5. BrowserTyped
  BY <1>1, <1>3, <1>4 DEF Timer, TypeOK, BrowserTyped, bounds
<1> QED
  BY <1>1, <1>5, BrowserStepTyped DEF Timer, histories

LEMMA UserTyped ==
  ASSUME TypeOK, NEW u \in Users, UserStep(u)
  PROVE  TypeOK'
<1> USE DEF histories, bounds
<1>0. /\ {"open", "select", "close", "save"} \subseteq Kinds /\ {"acquire", "put"} \subseteq Phases
      /\ tab[u] \in TabRecord
  BY DEF TypeOK, Kinds, Phases
<1>1. CASE Select(u) \/ Save(u) \/ Close(u)
  <2>1. call' \in [Users -> [Kinds -> CallRecord]]
    <3>1. PICK k \in Kinds, phase \in Phases : call' = Goes(u, k, phase)
      BY <1>0, <1>1 DEF Select, Save, Close
    <3> QED
      BY <3>1, GoesTyped
  <2>2. gestures' \in 0 .. MaxGestures
    BY <1>1, BoundsAssumption DEF Select, Save, Close, Gesture, TypeOK
  <2>3. BrowserTyped
    BY <1>1, <2>1, <2>2 DEF Select, Save, Close, TypeOK, BrowserTyped
  <2> QED
    BY <1>1, <2>3, BrowserStepTyped DEF Select, Save, Close
<1>2. CASE Reload(u)
  <2>1. [k \in Kinds |-> IF k = "release" THEN [Idle EXCEPT !.at = "sent"]
                         ELSE IF k = "select" THEN [Idle EXCEPT !.at = "acquire"] ELSE Idle]
        \in [Kinds -> CallRecord]
    BY DEF Idle, CallRecord, Phases
  <2>2. call' \in [Users -> [Kinds -> CallRecord]]
    BY <1>2, <2>1 DEF Reload, TypeOK
  <2>3. BrowserTyped
    <3>1. tab' \in [Users -> TabRecord]
      <4>1. [NewTab EXCEPT !.open = TRUE, !.base = tab[u].base] \in TabRecord
        BY TabTyped, VersionsAre
      <4> QED
        BY <1>2, <4>1, PutTyped DEF Reload
    <3>2. lapsed' \in [Users -> Lapses] /\ faults' \in 0 .. MaxFaults
      BY <1>2, BoundsAssumption DEF Reload, Fault, TypeOK, Lapses
    <3> QED
      BY <1>2, <2>2, <3>1, <3>2 DEF Reload, TypeOK, BrowserTyped
  <2> QED
    BY <1>2, <2>3, BrowserStepTyped DEF Reload
<1>3. CASE Sleep(u) \/ Wake(u) \/ TakeLists(u)
  <2>1. BrowserTyped
    <3>1. tab' \in [Users -> TabRecord]
      <4>1. PICK t \in {[tab[u] EXCEPT !.awake = TRUE], [tab[u] EXCEPT !.awake = FALSE], [tab[u] EXCEPT !.copy = "none"]} :
              tab' = [tab EXCEPT ![u] = t]
        BY <1>3 DEF Sleep, Wake, TakeLists
      <4>2. t \in TabRecord
        BY <1>0, TabTyped, VersionsAre
      <4> QED
        BY <4>1, <4>2, PutTyped
    <3>2. lapsed' \in [Users -> Lapses] /\ faults' \in 0 .. MaxFaults
      BY <1>3, BoundsAssumption DEF Sleep, Wake, TakeLists, Fault, TypeOK, Lapses
    <3> QED
      BY <1>3, <3>1, <3>2 DEF Sleep, Wake, TakeLists, TypeOK, BrowserTyped
  <2> QED
    BY <1>3, <2>1, BrowserStepTyped DEF Sleep, Wake, TakeLists
<1> QED
  BY <1>1, <1>2, <1>3 DEF UserStep

LEMMA OthersTyped ==
  ASSUME TypeOK, ForceRelease \/ Tick \/ UNCHANGED vars
  PROVE  TypeOK'
<1>1. CASE ForceRelease
  <2>1. NoLock \in LockRecord
    BY PartsTyped
  <2>2. lapsed' \in [Users -> Lapses]
    BY <1>1 DEF ForceRelease, TypeOK, Lapses
  <2>3. faults' \in 0 .. MaxFaults
    BY <1>1, BoundsAssumption DEF ForceRelease, Fault, TypeOK
  <2> QED
    BY <1>1, <2>1, <2>2, <2>3 DEF ForceRelease, TypeOK, histories
<1>2. CASE Tick
  <2>1. lock' \in LockRecord /\ (lock'.user = None => lock' = NoLock)
    <3>1. CASE lock.user # None /\ lock.age <= TTL
      <4>1. lock' = [lock EXCEPT !.age = lock.age + 1]
        BY <1>2, <3>1 DEF Tick
      <4>2. lock.age + 1 \in 0 .. TTL + 1
        BY <3>1, TTLAssumption DEF TypeOK, LockRecord
      <4> QED
        BY <3>1, <4>1, <4>2 DEF TypeOK, LockRecord
    <3>2. CASE ~(lock.user # None /\ lock.age <= TTL)
      BY <1>2, <3>2 DEF Tick, TypeOK
    <3> QED
      BY <3>1, <3>2
  <2>2. lapsed' \in [Users -> Lapses] /\ astray' \in [Users -> Nat]
        /\ due' \in [Users -> SUBSET {"poll", "beat"}]
    BY <1>2 DEF Tick, TypeOK, Lapses
  <2> QED
    BY <1>2, <2>1, <2>2 DEF Tick, TypeOK, bounds
<1>3. CASE UNCHANGED vars
  BY <1>3 DEF vars, histories, bounds, TypeOK
<1> QED
  BY <1>1, <1>2, <1>3

\* The lock, the tabs, the calls and the timers keep their types, and a forgotten lock is at
\* most one tick past its time, for all values of the constants.
THEOREM LocksTyped == Spec => []TypeOK
<1>1. TypeOK /\ [Next]_vars => TypeOK'
  BY ServerTyped, OpeningTyped, AnswerTyped, TimerTyped, UserTyped, OthersTyped DEF Next
<1> QED
  BY <1>1, TypeInit, PTL DEF Spec

-----------------------------------------------------------------------------
(* Whose estimate is open holds the lock.  Inductive because of the clock: *)
(* a lock is renewed in every tick of a tab that is awake, by the opening  *)
(* or by a heartbeat that is due or under way, and the tick waits for it.  *)

\* The estimate is in the user's editor, or will be without asking for the lock again.
In(u) ==
  \/ tab[u].open
  \/ call[u]["open"].at = "read"
  \/ call[u]["open"].at = "acquired" /\ call[u]["open"].seen = u

\* A heartbeat that will renew the lock is under way.
Renewing(u) ==
  \/ call[u]["beat"].at = "acquire"
  \/ call[u]["beat"].at = "listed" /\ call[u]["beat"].seen = u

OpensOnce(u) == call[u]["open"].at # "idle" => ~tab[u].open
CurrentIsAwake(u) == lapsed[u] = "no" => tab[u].awake
Holds(u) == In(u) /\ lapsed[u] # "yes" => lock.user = u /\ lock.age <= TTL
RenewsInTime(u) ==
  In(u) /\ lapsed[u] = "no" => lock.age = 0 \/ (tab[u].open /\ ("beat" \in due[u] \/ Renewing(u)))

EditInv == \A u \in Users : OpensOnce(u) /\ CurrentIsAwake(u) /\ Holds(u) /\ RenewsInTime(u)

\* What Goes and Ends leave of a call.
LEMMA CallsAfter ==
  ASSUME TypeOK, NEW u \in Users, NEW k \in Kinds, NEW phase,
         NEW v \in Users, NEW j \in Kinds
  PROVE  /\ Goes(u, k, phase)[v][j].at = IF v = u /\ j = k THEN phase ELSE call[v][j].at
         /\ Goes(u, k, phase)[v][j].seen = call[v][j].seen
         /\ Ends(u, k)[v][j] = IF v = u /\ j = k THEN Idle ELSE call[v][j]
<1>1. call[u] \in [Kinds -> CallRecord] /\ call[v] \in [Kinds -> CallRecord] /\ call \in [Users -> [Kinds -> CallRecord]]
  BY DEF TypeOK
<1>2. Goes(u, k, phase) = [call EXCEPT ![u] = [call[u] EXCEPT ![k] = [call[u][k] EXCEPT !.at = phase]]]
  BY DEF Goes
<1>3. Ends(u, k) = [call EXCEPT ![u] = [call[u] EXCEPT ![k] = Idle]]
  BY DEF Ends
<1>4. [call[u][k] EXCEPT !.at = phase].at = phase /\ [call[u][k] EXCEPT !.at = phase].seen = call[u][k].seen
  BY <1>1 DEF CallRecord
<1>5. CASE v = u
  BY <1>1, <1>2, <1>3, <1>4, <1>5
<1>6. CASE v # u
  BY <1>1, <1>2, <1>3, <1>6
<1> QED
  BY <1>5, <1>6

LEMMA KindsAre ==
  /\ {"open", "select", "close", "save", "poll", "beat", "release"} = Kinds
  /\ Idle.at = "idle"
BY DEF Kinds, Idle

\* A step that lets the user not in and not to sleep, and keeps his renewal.
Quiet(u) ==
  /\ In(u)' => In(u)
  /\ OpensOnce(u)'
  /\ tab[u].awake => tab'[u].awake
  /\ tab[u].open /\ In(u)' => tab'[u].open
  /\ "beat" \in due[u] => "beat" \in due'[u]
  /\ Renewing(u) /\ tab[u].open /\ In(u)' => Renewing(u)'

AsBefore(u) == tab'[u] = tab[u] /\ call'[u] = call[u] /\ due'[u] = due[u]

LEMMA QuietSteps ==
  ASSUME EditInv, UNCHANGED <<lock, lapsed>>, \A u \in Users : Quiet(u)
  PROVE  EditInv'
BY DEF EditInv, CurrentIsAwake, Holds, RenewsInTime, Quiet

LEMMA AsBeforeIsQuiet ==
  ASSUME NEW u \in Users, OpensOnce(u), AsBefore(u)
  PROVE  Quiet(u)
BY DEF Quiet, AsBefore, In, OpensOnce, Renewing

\* Nobody is let in by a step that opens nothing.
LEMMA OpensNothingIsQuiet ==
  ASSUME NEW u \in Users, OpensOnce(u), call'[u]["open"] = call[u]["open"],
         tab'[u].open => tab[u].open,
         tab[u].awake => tab'[u].awake,
         "beat" \in due[u] => "beat" \in due'[u],
         Renewing(u) /\ tab[u].open /\ tab'[u].open => Renewing(u)'
  PROVE  Quiet(u)
BY KindsAre DEF Quiet, In, OpensOnce

LEMMA EditInit == Init => EditInv
<1> SUFFICES ASSUME Init, NEW u \in Users
             PROVE  OpensOnce(u) /\ CurrentIsAwake(u) /\ Holds(u) /\ RenewsInTime(u)
  BY DEF EditInv
<1>1. call[u]["open"].at = "idle" /\ ~tab[u].open /\ tab[u].awake
  BY KindsAre DEF Init, NewTab
<1> QED
  BY <1>1 DEF In, OpensOnce, CurrentIsAwake, Holds, RenewsInTime

\* Answers, and gestures that do not ask for the lock.
LEMMA AnswersAreQuiet ==
  ASSUME TypeOK, EditInv, NEW u \in Users,
         Select(u) \/ Selected(u) \/ Save(u) \/ Saved(u) \/ Close(u) \/ Released(u) \/ Renewed(u)
  PROVE  EditInv'
<1>1. PICK k \in Kinds \ {"open"}, phase \in {"acquire", "put"} :
        /\ call' \in {Goes(u, k, phase), Ends(u, k)}
        /\ k = "beat" => call[u]["beat"].at = "acquired"
  <2>1. CASE Select(u) \/ Selected(u)
    BY <2>1, KindsAre DEF Select, Selected
  <2>2. CASE Save(u) \/ Saved(u)
    BY <2>2, KindsAre DEF Save, Saved
  <2>3. CASE Close(u)
    BY <2>3, KindsAre DEF Close
  <2>4. CASE Released(u)
    BY <2>4, KindsAre DEF Released
  <2>5. CASE Renewed(u)
    BY <2>5, KindsAre DEF Renewed, At
  <2> QED
    BY <2>1, <2>2, <2>3, <2>4, <2>5
<1>2. UNCHANGED <<lock, lapsed, due>>
  BY DEF Select, Selected, Save, Saved, Close, Released, Renewed
<1>3. \A v \in Users : tab'[v].open = tab[v].open /\ tab'[v].awake = tab[v].awake /\ (v # u => tab'[v] = tab[v])
  <2>1. CASE Saved(u)
    BY <2>1 DEF Saved, Answered, TypeOK, TabRecord
  <2>2. CASE Selected(u) \/ Released(u) \/ Renewed(u)
    BY <2>2 DEF Selected, Released, Renewed, TypeOK, TabRecord
  <2>3. CASE Select(u) \/ Save(u) \/ Close(u)
    BY <2>3 DEF Select, Save, Close
  <2> QED
    BY <2>1, <2>2, <2>3
<1>4. \A v \in Users : v # u => call'[v] = call[v]
  BY <1>1 DEF Goes, Ends, TypeOK
<1>5. call'[u]["open"] = call[u]["open"] /\ (k # "beat" => call'[u]["beat"] = call[u]["beat"])
  BY <1>1, KindsAre DEF Goes, Ends, TypeOK
<1>6. ASSUME NEW v \in Users
      PROVE  Quiet(v)
  <2>1. CASE v = u
    BY <1>1, <1>2, <1>3, <1>5, <2>1, OpensNothingIsQuiet DEF EditInv, Renewing
  <2>2. CASE v # u
    BY <1>2, <1>3, <1>4, <2>2, AsBeforeIsQuiet DEF EditInv, AsBefore
  <2> QED
    BY <2>1, <2>2
<1> QED
  BY <1>2, <1>6, QuietSteps

LEMMA SaveIsQuiet ==
  ASSUME TypeOK, EditInv, NEW u \in Users, NEW k \in Kinds, HandleSave(u, k)
  PROVE  EditInv'
<1>1. \A v \in Users : tab'[v].open = tab[v].open /\ tab'[v].awake = tab[v].awake
  BY DEF HandleSave, Overtaken, Stored, TypeOK, TabRecord
<1>2. \A v \in Users, j \in Kinds : call'[v][j].seen = call[v][j].seen
                                 /\ call'[v][j].at = IF v = u /\ j = k THEN "saved" ELSE call[v][j].at
  BY CallsAfter DEF HandleSave
<1>3. call[u][k].at = "put"
  BY DEF HandleSave
<1>4. ASSUME NEW v \in Users
      PROVE  Quiet(v)
  <2>1. call'[v]["open"].at \in {call[v]["open"].at, "saved"} /\ (call'[v]["open"].at = "saved" => call[v]["open"].at \in {"put", "saved"})
    BY <1>2, <1>3, KindsAre
  <2>2. In(v)' <=> In(v)
    BY <1>1, <1>2, <2>1, KindsAre DEF In
  <2>3. OpensOnce(v)'
    BY <1>1, <2>1 DEF EditInv, OpensOnce
  <2>4. Renewing(v) => Renewing(v)'
    BY <1>2, <1>3, KindsAre DEF Renewing
  <2> QED
    BY <1>1, <2>2, <2>3, <2>4 DEF Quiet, HandleSave
<1> QED
  BY <1>4, QuietSteps DEF HandleSave

\* Steps that put the user out of the editor, or may.
LEMMA ClosingIsQuiet ==
  ASSUME TypeOK, EditInv, NEW u \in Users, Closed(u) \/ Polled(u) \/ Beaten(u) \/ Wake(u) \/ TakeLists(u)
  PROVE  EditInv'
<1>1. UNCHANGED <<lock, lapsed>>
  BY DEF Closed, Polled, Beaten, Wake, TakeLists
<1>2. \A v \in Users : v # u => AsBefore(v)
  BY DEF Closed, Polled, Beaten, Wake, TakeLists, AsBefore, Goes, Ends, TypeOK
<1>3. (tab'[u].open => tab[u].open) /\ (tab[u].awake => tab'[u].awake)
  <2>1. \A seen : /\ Informed(tab[u], u, seen).open => tab[u].open
                  /\ Informed(tab[u], u, seen).awake = tab[u].awake
                  /\ [Informed(tab[u], u, seen) EXCEPT !.known = None].open = Informed(tab[u], u, seen).open
                  /\ [Informed(tab[u], u, seen) EXCEPT !.known = None].awake = Informed(tab[u], u, seen).awake
    BY DEF Informed, Left, TypeOK, TabRecord
  <2>2. CASE Polled(u)
    <3> DEFINE next == Informed(tab[u], u, call[u]["poll"].seen)
    <3>1. tab'[u] \in {next, [next EXCEPT !.known = None]}
      BY <2>2 DEF Polled, TypeOK
    <3> QED
      BY <2>1, <3>1
  <2>3. CASE Beaten(u)
    BY <2>1, <2>3 DEF Beaten, TypeOK
  <2>4. CASE Closed(u)
    <3>1. tab'[u] = Left(Answered(tab[u]))
      BY <2>4 DEF Closed, TypeOK
    <3>2. Left(Answered(tab[u])).open = FALSE /\ Left(Answered(tab[u])).awake = tab[u].awake
      BY DEF Left, Answered, TypeOK, TabRecord
    <3> QED
      BY <3>1, <3>2
  <2>5. CASE Wake(u) \/ TakeLists(u)
    BY <2>5 DEF Wake, TakeLists, TypeOK, TabRecord
  <2> QED
    BY <2>2, <2>3, <2>4, <2>5
<1>5. "beat" \in due[u] => "beat" \in due'[u]
  BY DEF Closed, Polled, Beaten, Wake, TakeLists, TypeOK
<1>6. call'[u]["open"] = call[u]["open"]
  BY KindsAre DEF Closed, Polled, Beaten, Wake, TakeLists, Goes, Ends, TypeOK
<1>7. Renewing(u) /\ tab[u].open /\ tab'[u].open => Renewing(u)'
  <2>1. CASE Closed(u) \/ Polled(u) \/ Wake(u) \/ TakeLists(u)
    <3>1. call'[u]["beat"] = call[u]["beat"]
      BY <2>1, KindsAre DEF Closed, Polled, Wake, TakeLists, Ends, TypeOK
    <3> QED
      BY <3>1 DEF Renewing
  <2>2. CASE Beaten(u)
    <3>1. CASE tab[u].open /\ call[u]["beat"].seen = u
      <4>1. call'[u]["beat"].at = "acquire"
        BY <2>2, <3>1, CallsAfter, KindsAre DEF Beaten
      <4> QED
        BY <4>1 DEF Renewing
    <3>2. CASE ~(tab[u].open /\ call[u]["beat"].seen = u)
      BY <2>2, <3>2 DEF Beaten, At, Renewing
    <3> QED
      BY <3>1, <3>2
  <2> QED
    BY <2>1, <2>2
<1>8. Quiet(u)
  BY <1>3, <1>5, <1>6, <1>7, OpensNothingIsQuiet DEF EditInv
<1> QED
  BY <1>1, <1>2, <1>8, AsBeforeIsQuiet, QuietSteps DEF EditInv

\* An opening wakes nobody, and knows of the lock what its answer said.
LEMMA OpeningKeeps ==
  ASSUME TypeOK, NEW u \in Users, OpeningStep(u)
  PROVE  /\ tab'[u].awake = tab[u].awake
         /\ tab'[u].known \in {tab[u].known, call[u]["open"].seen}
<1>1. tab[u] \in TabRecord /\ tab \in [Users -> TabRecord]
  BY DEF TypeOK
<1>2. CASE Open(u)
  BY <1>2 DEF Open
<1>3. CASE OpenRefused(u) \/ OpenAsks(u)
  BY <1>1, <1>3 DEF OpenRefused, OpenAsks, Knowing, TabRecord
<1>4. CASE OpenCopy(u)
  <2>1. PICK version : tab'[u] = InEditor(Knowing(u), version)
    BY <1>1, <1>4 DEF OpenCopy
  <2> QED
    BY <1>1, <2>1 DEF InEditor, Knowing, TabRecord
<1>5. CASE Opened(u)
  BY <1>1, <1>5 DEF Opened, InEditor, TabRecord
<1>6. CASE DetailFails(u)
  BY <1>1, <1>6 DEF DetailFails, TabRecord
<1> QED
  BY <1>2, <1>3, <1>4, <1>5, <1>6 DEF OpeningStep

LEMMA OpeningIsQuiet ==
  ASSUME TypeOK, EditInv, NEW u \in Users, OpeningStep(u)
  PROVE  EditInv'
<1> USE DEF OpeningStep
<1>1. UNCHANGED <<lock, lapsed, due>>
  BY DEF Open, OpenRefused, OpenAsks, OpenCopy, Opened, DetailFails
<1>2. \A v \in Users : v # u => AsBefore(v)
  BY <1>1 DEF Open, OpenRefused, OpenAsks, OpenCopy, Opened, DetailFails, AsBefore, Goes, Ends, TypeOK
<1>3. tab'[u].awake = tab[u].awake
  BY OpeningKeeps
<1>4. call'[u]["beat"] = call[u]["beat"]
  BY KindsAre DEF Open, OpenRefused, OpenAsks, OpenCopy, Opened, DetailFails, Goes, Ends, TypeOK
<1>5. ~tab[u].open
  BY DEF Open, OpenRefused, OpenAsks, OpenCopy, Opened, DetailFails, Granted, At, EditInv, OpensOnce
<1>6. OpensOnce(u)' /\ (In(u)' => In(u))
  <2>1. CASE Open(u)
    <3>1. call' = Goes(u, "open", "acquire") /\ tab' = tab
      BY <2>1 DEF Open
    <3>2. call'[u]["open"].at = "acquire"
      BY <3>1, CallsAfter, KindsAre
    <3> QED
      BY <1>5, <3>1, <3>2 DEF In, OpensOnce
  <2>2. CASE OpenRefused(u)
    <3>1. tab'[u].open = tab[u].open
      BY <2>2 DEF OpenRefused, Knowing, TypeOK, TabRecord
    <3>2. call'[u]["open"].at = "idle"
      BY <2>2, CallsAfter, KindsAre DEF OpenRefused
    <3> QED
      BY <1>5, <3>1, <3>2 DEF In, OpensOnce
  <2>3. CASE OpenAsks(u)
    <3>1. In(u)
      BY <2>3 DEF OpenAsks, Granted, At, In
    <3>2. tab'[u].open = tab[u].open
      BY <2>3 DEF OpenAsks, Knowing, TypeOK, TabRecord
    <3> QED
      BY <1>5, <3>1, <3>2 DEF OpensOnce
  <2>4. CASE OpenCopy(u) \/ Opened(u) \/ DetailFails(u)
    <3>1. In(u)
      BY <2>4 DEF OpenCopy, Opened, DetailFails, Granted, At, In
    <3>2. call'[u]["open"].at = "idle"
      BY <2>4, CallsAfter, KindsAre DEF OpenCopy, Opened, DetailFails
    <3> QED
      BY <3>1, <3>2 DEF OpensOnce
  <2> QED
    BY <2>1, <2>2, <2>3, <2>4
<1>8. Quiet(u)
  BY <1>1, <1>3, <1>5, <1>6 DEF Quiet
<1> QED
  BY <1>1, <1>2, <1>8, AsBeforeIsQuiet, QuietSteps DEF EditInv

\* Who is in and has not lost the lock still has it when another user asks for it or gives
\* his own up.
LEMMA HolderKeeps ==
  ASSUME TypeOK, EditInv, NEW v \in Users, In(v), lapsed[v] # "yes"
  PROVE  Holder = v /\ Purged(lock) = lock /\ lock.user = v
BY TTLAssumption DEF TypeOK, EditInv, Holds, Holder, Purged, LockRecord

\* Of the others a step of u keeps what it keeps of their tabs, calls and timers.
OthersKept(u) ==
  \A v \in Users : v # u => /\ AsBefore(v) /\ lapsed'[v] = lapsed[v]
                            /\ In(v) /\ lapsed[v] # "yes" => lock' = lock

EditInvOf(u) == OpensOnce(u) /\ CurrentIsAwake(u) /\ Holds(u) /\ RenewsInTime(u)

LEMMA OneUsersStep ==
  ASSUME EditInv, NEW u \in Users, OthersKept(u), EditInvOf(u)'
  PROVE  EditInv'
<1>1. ASSUME NEW v \in Users, v # u
      PROVE  EditInvOf(v)'
  BY <1>1 DEF OthersKept, AsBefore, EditInv, EditInvOf, OpensOnce, CurrentIsAwake, Holds, RenewsInTime, In, Renewing
<1> QED
  BY <1>1 DEF EditInv, EditInvOf

LEMMA AcquireKeepsEditInv ==
  ASSUME TypeOK, EditInv, NEW u \in Users, NEW k \in Kinds, HandleAcquire(u, k)
  PROVE  EditInv'
<1>1. OthersKept(u)
  BY HolderKeeps, UsersAssumption DEF HandleAcquire, OthersKept, AsBefore, TypeOK
<1>2. /\ tab' = tab /\ due' = due
      /\ call'[u][k].at = "acquired" /\ call'[u][k].seen = lock'.user
      /\ \A j \in Kinds : j # k => call'[u][j] = call[u][j]
  <2>1. call' = [call EXCEPT ![u] = [call[u] EXCEPT ![k] = [Idle EXCEPT !.at = "acquired", !.seen = lock'.user]]]
    BY DEF HandleAcquire
  <2>2. [Idle EXCEPT !.at = "acquired", !.seen = lock'.user].at = "acquired"
        /\ [Idle EXCEPT !.at = "acquired", !.seen = lock'.user].seen = lock'.user
    BY DEF Idle
  <2>3. call'[u] = [call[u] EXCEPT ![k] = [Idle EXCEPT !.at = "acquired", !.seen = lock'.user]]
    BY <2>1 DEF TypeOK
  <2> QED
    BY <2>2, <2>3 DEF HandleAcquire, TypeOK
<1>3. Holder \in {None, u} => lock'.user = u /\ lock'.age = 0
  BY DEF HandleAcquire
<1>4. Holder \notin {None, u} => lock'.user = Holder
  BY DEF HandleAcquire, Holder
<1>5. lapsed'[u] = IF k # "open" /\ lapsed[u] # "nap" THEN lapsed[u] ELSE IF tab[u].awake THEN "no" ELSE "nap"
  BY DEF HandleAcquire, TypeOK
<1>6. CASE k = "open"
  <2>1. ~tab[u].open
    BY <1>6 DEF HandleAcquire, EditInv, OpensOnce
  <2>2. In(u)' => lock'.user = u
    BY <1>2, <1>6, <2>1 DEF In
  <2>3. In(u)' => lock'.age = 0
    BY <1>3, <1>4, <2>2
  <2>4. EditInvOf(u)'
    BY <1>2, <1>5, <1>6, <2>1, <2>2, <2>3, TTLAssumption DEF EditInvOf, OpensOnce, CurrentIsAwake, Holds, RenewsInTime
  <2> QED
    BY <1>1, <2>4, OneUsersStep
<1>7. CASE k # "open"
  <2>1. call'[u]["open"] = call[u]["open"]
    BY <1>2, <1>7, KindsAre
  <2>2. In(u)' <=> In(u)
    BY <1>2, <2>1 DEF In
  <2>3. lapsed'[u] # "yes" => lapsed[u] # "yes"
    BY <1>5, <1>7
  <2>4. In(u)' /\ lapsed'[u] # "yes" => lock'.user = u /\ lock'.age = 0
    BY <1>3, <2>2, <2>3, HolderKeeps
  <2>5. EditInvOf(u)'
    BY <1>2, <1>5, <1>7, <2>1, <2>4, TTLAssumption DEF EditInv, EditInvOf, OpensOnce, CurrentIsAwake, Holds, RenewsInTime
  <2> QED
    BY <1>1, <2>5, OneUsersStep
<1> QED
  BY <1>6, <1>7

LEMMA ReleaseKeepsEditInv ==
  ASSUME TypeOK, EditInv, NEW u \in Users, HandleRelease(u)
  PROVE  EditInv'
<1>1. OthersKept(u)
  BY HolderKeeps DEF HandleRelease, OthersKept, AsBefore, Goes, TypeOK
<1>2. tab' = tab /\ call'[u]["open"] = call[u]["open"]
  BY KindsAre DEF HandleRelease, Goes, TypeOK
<1>3. In(u)' => lapsed'[u] = "yes"
  BY <1>2 DEF HandleRelease, In, TypeOK
<1>4. lapsed'[u] = "no" => lapsed[u] = "no"
  BY DEF HandleRelease, TypeOK
<1>5. EditInvOf(u)'
  BY <1>2, <1>3, <1>4 DEF EditInv, EditInvOf, OpensOnce, CurrentIsAwake, Holds, RenewsInTime
<1> QED
  BY <1>1, <1>5, OneUsersStep

LEMMA ForceReleaseKeepsEditInv ==
  ASSUME TypeOK, EditInv, ForceRelease
  PROVE  EditInv'
<1>1. PICK u \in Users : lock.user = u /\ lapsed' = [lapsed EXCEPT ![u] = "yes"]
  BY DEF ForceRelease, Holder, Purged, NoLock, TypeOK, LockRecord
<1>2. OthersKept(u)
  BY <1>1, HolderKeeps DEF ForceRelease, OthersKept, AsBefore, TypeOK
<1>3. EditInvOf(u)'
  BY <1>1 DEF ForceRelease, EditInv, EditInvOf, OpensOnce, CurrentIsAwake, Holds, RenewsInTime, TypeOK
<1> QED
  BY <1>2, <1>3, OneUsersStep

LEMMA TimerKeepsEditInv ==
  ASSUME TypeOK, EditInv, NEW u \in Users, NEW k \in Kinds, Timer(u, k)
  PROVE  EditInv'
<1>1. OthersKept(u)
  BY HolderKeeps DEF Timer, OthersKept, AsBefore, TypeOK
<1>2. k \in {"poll", "beat"} /\ UNCHANGED <<tab, lapsed>>
  BY DEF Timer, Wanted, TypeOK
<1>3. call'[u] = [call[u] EXCEPT ![k] = [Idle EXCEPT !.at = "listed", !.seen = Holder]]
  BY DEF Timer, TypeOK
<1>4. call'[u]["open"] = call[u]["open"]
  BY <1>2, <1>3, KindsAre DEF TypeOK
<1>5. In(u)' <=> In(u)
  BY <1>2, <1>4 DEF In
<1>6. In(u) /\ lapsed[u] # "yes" => lock' = lock /\ Holder = u
  BY HolderKeeps DEF Timer
<1>7. CASE k = "beat"
  <2>1. call'[u]["beat"].at = "listed" /\ call'[u]["beat"].seen = Holder
    BY <1>3, <1>7, KindsAre DEF Idle, TypeOK
  <2>2. EditInvOf(u)'
    BY <1>2, <1>4, <1>5, <1>6, <2>1 DEF EditInv, EditInvOf, OpensOnce, CurrentIsAwake, Holds, RenewsInTime, Renewing
  <2> QED
    BY <1>1, <2>2, OneUsersStep
<1>8. CASE k = "poll"
  <2>1. call'[u]["beat"] = call[u]["beat"] /\ ("beat" \in due[u] => "beat" \in due'[u])
    BY <1>3, <1>8, KindsAre DEF Timer, TypeOK
  <2>2. EditInvOf(u)'
    BY <1>2, <1>4, <1>5, <1>6, <2>1 DEF EditInv, EditInvOf, OpensOnce, CurrentIsAwake, Holds, RenewsInTime, Renewing
  <2> QED
    BY <1>1, <2>2, OneUsersStep
<1> QED
  BY <1>2, <1>7, <1>8

LEMMA NapsKeepEditInv ==
  ASSUME TypeOK, EditInv, NEW u \in Users, Reload(u) \/ Sleep(u)
  PROVE  EditInv'
<1>1. OthersKept(u)
  BY DEF Reload, Sleep, OthersKept, AsBefore, TypeOK
<1>2. CASE Reload(u)
  <2>1. call'[u]["open"].at = "idle" /\ lapsed'[u] = "yes"
    BY <1>2, KindsAre DEF Reload, TypeOK
  <2>2. EditInvOf(u)'
    BY <2>1 DEF EditInvOf, OpensOnce, CurrentIsAwake, Holds, RenewsInTime
  <2> QED
    BY <1>1, <2>2, OneUsersStep
<1>3. CASE Sleep(u)
  <2>1. UNCHANGED <<lock, call>> /\ tab'[u].open = tab[u].open
    BY <1>3 DEF Sleep, TypeOK, TabRecord
  <2>2. lapsed'[u] = IF lapsed[u] = "no" THEN "nap" ELSE lapsed[u]
    BY <1>3 DEF Sleep, TypeOK
  <2>3. EditInvOf(u)'
    BY <2>1, <2>2 DEF EditInv, EditInvOf, OpensOnce, CurrentIsAwake, Holds, RenewsInTime, In
  <2> QED
    BY <1>1, <2>3, OneUsersStep
<1> QED
  BY <1>2, <1>3

\* The only step that ages the lock: it waits for the heartbeats of every tab that is awake.
LEMMA TickKeepsEditInv ==
  ASSUME TypeOK, EditInv, Tick
  PROVE  EditInv'
<1> SUFFICES ASSUME NEW u \in Users
             PROVE  EditInvOf(u)'
  BY DEF EditInv, EditInvOf
<1>1. UNCHANGED <<tab, call>> /\ "beat" \in due'[u]
  BY DEF Tick
<1>2. In(u)' <=> In(u)
  BY <1>1 DEF In
<1>3. /\ lapsed[u] # "nap" => lapsed'[u] = lapsed[u]
      /\ lapsed[u] = "nap" => lapsed'[u] = IF lock'.user = u /\ lock'.age > TTL THEN "yes" ELSE "nap"
  BY DEF Tick
<1>4. OpensOnce(u)' /\ CurrentIsAwake(u)'
  BY <1>1, <1>3 DEF EditInv, OpensOnce, CurrentIsAwake
<1>5. In(u) /\ lapsed[u] # "yes" => lock'.user = u /\ lock'.age = lock.age + 1
  BY UsersAssumption DEF Tick, EditInv, Holds, TypeOK, LockRecord
<1>6. In(u) /\ lapsed[u] = "no" => lock.age = 0 /\ tab[u].open
  <2> SUFFICES ASSUME In(u), lapsed[u] = "no"
               PROVE  lock.age = 0 /\ tab[u].open
    OBVIOUS
  <2>1. Wanted(u) = {} /\ \A k \in Kinds : call[u][k].at = "idle"
    BY DEF Tick, EditInv, CurrentIsAwake
  <2>2. call[u]["open"].at = "idle" /\ ~Renewing(u)
    BY <2>1, KindsAre DEF Renewing
  <2>3. tab[u].open
    BY <2>2 DEF In
  <2>4. "beat" \notin due[u]
    BY <2>1, <2>3 DEF Wanted
  <2> QED
    BY <2>2, <2>3, <2>4 DEF EditInv, RenewsInTime
<1>7. lapsed'[u] = "no" => lapsed[u] = "no"
  BY <1>3
<1>8. Holds(u)'
  <2>1. CASE lapsed[u] = "no"
    BY <1>2, <1>5, <1>6, <2>1, TTLAssumption DEF Holds
  <2>2. CASE lapsed[u] = "nap"
    BY <1>2, <1>3, <1>5, <2>2, TTLAssumption DEF Holds, TypeOK, LockRecord
  <2>3. CASE lapsed[u] = "yes"
    BY <1>3, <2>3 DEF Holds
  <2> QED
    BY <2>1, <2>2, <2>3 DEF TypeOK, Lapses
<1>9. RenewsInTime(u)'
  BY <1>1, <1>2, <1>6, <1>7 DEF RenewsInTime
<1> QED
  BY <1>4, <1>8, <1>9 DEF EditInvOf

LEMMA EditInvNext ==
  ASSUME TypeOK, EditInv, [Next]_vars
  PROVE  EditInv'
<1>1. ASSUME NEW u \in Users, ServerStep(u)
      PROVE  EditInv'
  BY <1>1, AcquireKeepsEditInv, SaveIsQuiet, ReleaseKeepsEditInv DEF ServerStep
<1>2. ASSUME NEW u \in Users, AnswerStep(u)
      PROVE  EditInv'
  BY <1>2, AnswersAreQuiet, ClosingIsQuiet DEF AnswerStep
<1>3. ASSUME NEW u \in Users, TimerStep(u)
      PROVE  EditInv'
  BY <1>3, TimerKeepsEditInv DEF TimerStep
<1>4. ASSUME NEW u \in Users, UserStep(u)
      PROVE  EditInv'
  BY <1>4, AnswersAreQuiet, ClosingIsQuiet, NapsKeepEditInv DEF UserStep
<1>5. CASE UNCHANGED vars
  BY <1>5 DEF vars, EditInv, OpensOnce, CurrentIsAwake, Holds, RenewsInTime, In, Renewing
<1> QED
  BY <1>1, <1>2, <1>3, <1>4, <1>5, OpeningIsQuiet, ForceReleaseKeepsEditInv, TickKeepsEditInv DEF Next

\* A user whose estimate is open holds the lock, unless he slept through its time, an
\* administrator took it, he reloaded his tab or his own late release took it: for every
\* number of users, every time a lock lasts and any number of faults, the heartbeat of
\* refreshOwnedEstimateLocks renews in time and Acquire lets nobody else in.
THEOREM EditorsHold == Spec => []EditorsHoldTheLock
<1>1. TypeOK /\ EditInv => EditorsHoldTheLock
  BY HolderKeeps DEF EditorsHoldTheLock, In
<1>2. TypeOK /\ EditInv /\ [Next]_vars => EditInv'
  BY EditInvNext
<1> QED
  BY <1>1, <1>2, EditInit, LocksTyped, PTL DEF Spec

-----------------------------------------------------------------------------
(* Saves.  Only a user who has lost the lock can have an estimate that its  *)
(* holder has saved since: no other user is in while one holds the lock.    *)

\* A document that has grown old in the editor, or on its way there, is an accident's.
Read(u) == /\ tab[u].base = "old" => lapsed[u] = "yes"
           /\ tab[u].base # "none" => tab[u].open \/ call[u]["open"].at = "read"

SavesInv == ~lost /\ \A u \in Users : Read(u)

LEMMA OthersReadOn ==
  ASSUME SavesInv, lost' = lost, NEW u \in Users, Read(u)',
         \A v \in Users : v # u => tab'[v] = tab[v] /\ call'[v] = call[v] /\ (lapsed[v] = "yes" => lapsed'[v] = "yes")
  PROVE  SavesInv'
<1>1. ASSUME NEW v \in Users, v # u
      PROVE  Read(v)'
  BY <1>1 DEF SavesInv, Read
<1> QED
  BY <1>1 DEF SavesInv

LEMMA SavesInit == Init => SavesInv
BY DEF Init, NewTab, SavesInv, Read

LEMMA SaveKeepsSaves ==
  ASSUME TypeOK, EditInv, SavesInv, NEW u \in Users, NEW k \in Kinds, HandleSave(u, k)
  PROVE  SavesInv'
<1>1. ~lost'
  BY DEF HandleSave, SavesInv, Read
<1>2. ASSUME NEW v \in Users
      PROVE  Read(v)'
  <2>1. tab[v] \in TabRecord /\ lapsed' = lapsed /\ Read(v)
    BY DEF TypeOK, HandleSave, SavesInv
  <2>2. call[v]["open"].at = "read" => call'[v]["open"].at = "read"
    BY CallsAfter, KindsAre DEF HandleSave
  <2>3. CASE v = u
    <3>1. tab'[u] = Stored(tab[u])
      BY DEF HandleSave
    <3>2. tab'[u].base = (IF tab[u].base = "none" THEN "none" ELSE "latest") /\ tab'[u].open = tab[u].open
      BY <2>1, <2>3, <3>1 DEF Stored, TabRecord
    <3> QED
      BY <2>1, <2>2, <2>3, <3>2 DEF Read
  <2>4. CASE v # u
    <3>1. tab'[v] = Overtaken(tab[v], u)
      BY <2>4 DEF HandleSave
    <3>2. tab'[v].base = Outdated(tab[v].base, u) /\ tab'[v].open = tab[v].open
      BY <2>1, <3>1 DEF Overtaken, TabRecord
    <3>3. CASE tab[v].base = "latest" /\ Holder = u
      <4>1. In(v)
        BY <2>1, <3>3 DEF Read, In
      <4>2. lapsed[v] = "yes"
        BY <2>4, <3>3, <4>1, HolderKeeps
      <4> QED
        BY <2>1, <2>2, <3>2, <3>3, <4>2 DEF Read
    <3>4. CASE ~(tab[v].base = "latest" /\ Holder = u)
      BY <2>1, <2>2, <3>2, <3>4 DEF Read, Outdated
    <3> QED
      BY <3>3, <3>4
  <2> QED
    BY <2>3, <2>4
<1> QED
  BY <1>1, <1>2 DEF SavesInv

LEMMA AcquireKeepsSaves ==
  ASSUME TypeOK, EditInv, SavesInv, NEW u \in Users, NEW k \in Kinds, HandleAcquire(u, k)
  PROVE  SavesInv'
<1>1. call'[u] = [call[u] EXCEPT ![k] = [Idle EXCEPT !.at = "acquired", !.seen = lock'.user]]
  BY DEF HandleAcquire, TypeOK
<1>2. tab' = tab /\ lost' = lost
  BY DEF HandleAcquire
<1>3. lapsed'[u] = IF k # "open" /\ lapsed[u] # "nap" THEN lapsed[u] ELSE IF tab[u].awake THEN "no" ELSE "nap"
  BY DEF HandleAcquire, TypeOK
<1>4. \A v \in Users : v # u => call'[v] = call[v] /\ lapsed'[v] = lapsed[v]
  BY DEF HandleAcquire, TypeOK
<1>5. Read(u)
  BY DEF SavesInv
<1>6. Read(u)'
  <2>1. CASE k = "open"
    <3>1. ~tab[u].open /\ call[u]["open"].at # "read"
      BY <2>1 DEF HandleAcquire, EditInv, OpensOnce
    <3> QED
      BY <1>2, <1>5, <3>1 DEF Read
  <2>2. CASE k # "open"
    <3>1. call'[u]["open"] = call[u]["open"]
      BY <1>1, <2>2, KindsAre DEF TypeOK
    <3> QED
      BY <1>2, <1>3, <1>5, <2>2, <3>1 DEF Read
  <2> QED
    BY <2>1, <2>2
<1>7. \A v \in Users : v # u => tab'[v] = tab[v] /\ call'[v] = call[v] /\ (lapsed[v] = "yes" => lapsed'[v] = "yes")
  BY <1>2, <1>4
<1> QED
  BY <1>2, <1>6, <1>7, OthersReadOn

LEMMA BrowserKeepsSaves ==
  ASSUME TypeOK, EditInv, SavesInv, NEW u \in Users,
         OpeningStep(u) \/ AnswerStep(u) \/ TimerStep(u) \/ UserStep(u) \/ HandleRelease(u)
  PROVE  SavesInv'
<1> DEFINE Aside == /\ lost' = lost
                    /\ lapsed[u] = "yes" => lapsed'[u] = "yes"
                    /\ \A v \in Users : v # u => tab'[v] = tab[v] /\ call'[v] = call[v] /\ lapsed'[v] = lapsed[v]
<1>1. tab[u] \in TabRecord /\ call[u] \in [Kinds -> CallRecord] /\ Read(u)
  BY DEF TypeOK, SavesInv
<1>2. ASSUME Aside, Read(u)' PROVE SavesInv'
  BY <1>2, OthersReadOn
<1>3. ASSUME Aside, tab'[u].base = tab[u].base, tab'[u].open = tab[u].open,
             call[u]["open"].at = "read" => call'[u]["open"].at = "read"
      PROVE  SavesInv'
  BY <1>1, <1>2, <1>3 DEF Read
<1>4. ASSUME Aside, tab'[u].base = "none" PROVE SavesInv'
  BY <1>2, <1>4 DEF Read
<1>5. CASE Select(u) \/ Selected(u) \/ Save(u) \/ Saved(u)
  <2>1. Aside /\ call'[u]["open"] = call[u]["open"]
    BY <1>5, KindsAre DEF Select, Selected, Save, Saved, Goes, Ends, TypeOK, histories
  <2>2. tab'[u].base = tab[u].base /\ tab'[u].open = tab[u].open
    <3>1. CASE Saved(u)
      BY <1>1, <3>1 DEF Saved, Answered, TypeOK, TabRecord
    <3>2. CASE Select(u) \/ Selected(u) \/ Save(u)
      BY <1>1, <3>2 DEF Select, Selected, Save, TypeOK, TabRecord
    <3> QED
      BY <1>5, <3>1, <3>2
  <2> QED
    BY <1>3, <2>1, <2>2
<1>6. CASE Close(u) \/ Released(u) \/ Renewed(u) \/ HandleRelease(u)
  <2>1. Aside /\ call'[u]["open"] = call[u]["open"]
    BY <1>6, KindsAre DEF Close, Released, Renewed, HandleRelease, Goes, Ends, TypeOK, histories
  <2>2. tab'[u].base = tab[u].base /\ tab'[u].open = tab[u].open
    BY <1>6, <1>1 DEF Close, Released, Renewed, HandleRelease, TypeOK, TabRecord
  <2> QED
    BY <1>3, <2>1, <2>2
<1>7. CASE Open(u) \/ OpenRefused(u)
  <2>1. Aside /\ tab'[u].base = tab[u].base /\ tab'[u].open = tab[u].open
    BY <1>1, <1>7 DEF Open, OpenRefused, Knowing, Goes, Ends, TypeOK, TabRecord, histories
  <2>2. call[u]["open"].at # "read"
    BY <1>7 DEF Open, OpenRefused, At
  <2> QED
    BY <1>3, <2>1, <2>2
<1>8. CASE OpenAsks(u)
  <2>1. Aside /\ tab'[u].base = "latest"
    BY <1>1, <1>8 DEF OpenAsks, Knowing, Goes, TypeOK, TabRecord, histories
  <2>2. call'[u]["open"].at = "read"
    BY <1>8, CallsAfter, KindsAre DEF OpenAsks
  <2> QED
    BY <1>2, <2>1, <2>2 DEF Read
<1>9. CASE Opened(u)
  <2>1. Aside /\ tab'[u].base = tab[u].base /\ tab'[u].open = TRUE
    BY <1>1, <1>9 DEF Opened, InEditor, Ends, TypeOK, TabRecord, histories
  <2> QED
    BY <1>1, <1>2, <2>1 DEF Read
<1>10. CASE OpenCopy(u)
  <2>1. Aside /\ tab'[u].open = TRUE /\ tab'[u].base # "old"
    BY <1>1, <1>10 DEF OpenCopy, InEditor, Knowing, Ends, TypeOK, TabRecord, histories
  <2> QED
    BY <1>2, <2>1 DEF Read
<1>11. CASE DetailFails(u)
  <2>1. Aside /\ tab'[u].base = "none"
    BY <1>1, <1>11 DEF DetailFails, Ends, TypeOK, TabRecord, histories
  <2> QED
    BY <1>4, <2>1
<1>12. CASE Closed(u)
  <2>1. Aside /\ tab'[u] = Left(Answered(tab[u])) /\ call'[u]["open"] = call[u]["open"]
    BY <1>12, KindsAre DEF Closed, TypeOK, histories
  <2>2. \/ tab'[u].base = "none"
        \/ tab'[u].base = tab[u].base /\ tab'[u].open = tab[u].open
    BY <1>1, <2>1 DEF Left, Answered, TabRecord
  <2> QED
    BY <1>3, <1>4, <2>1, <2>2
<1>13. CASE Polled(u) \/ Beaten(u)
  <2>1. Aside /\ call'[u]["open"] = call[u]["open"]
    BY <1>13, KindsAre DEF Polled, Beaten, Goes, Ends, TypeOK, histories
  <2>2. \A seen : \/ Informed(tab[u], u, seen).base = "none"
                  \/ /\ Informed(tab[u], u, seen).base = tab[u].base
                     /\ Informed(tab[u], u, seen).open = tab[u].open
    BY <1>1 DEF Informed, Left, TabRecord
  <2>3. PICK seen : \/ tab'[u] = Informed(tab[u], u, seen)
                    \/ tab'[u] = [Informed(tab[u], u, seen) EXCEPT !.known = None]
                    \/ tab'[u] = tab[u]
    <3>1. CASE Polled(u)
      BY <3>1 DEF Polled, TypeOK
    <3>2. CASE Beaten(u)
      BY <3>2 DEF Beaten, TypeOK
    <3> QED
      BY <1>13, <3>1, <3>2
  <2>4. /\ [Informed(tab[u], u, seen) EXCEPT !.known = None].base = Informed(tab[u], u, seen).base
        /\ [Informed(tab[u], u, seen) EXCEPT !.known = None].open = Informed(tab[u], u, seen).open
    BY <1>1 DEF Informed, Left, TabRecord
  <2> QED
    BY <1>3, <1>4, <2>1, <2>2, <2>3, <2>4
<1>14. CASE TimerStep(u)
  <2>1. PICK k \in {"poll", "beat"} : Timer(u, k)
    BY <1>14 DEF TimerStep, Timer, Wanted, TypeOK
  <2>2. Aside /\ tab' = tab
    BY <2>1 DEF Timer, TypeOK, histories
  <2>3. call'[u]["open"] = call[u]["open"]
    BY <2>1, KindsAre DEF Timer, TypeOK
  <2> QED
    BY <1>3, <2>2, <2>3
<1>15. CASE Reload(u)
  <2>1. Aside /\ call[u]["open"].at = "idle"
    BY <1>15 DEF Reload, EditInv, OpensOnce, TypeOK, histories
  <2>2. tab'[u].base = tab[u].base /\ tab'[u].open = tab[u].open
    BY <1>15 DEF Reload, NewTab, TypeOK
  <2> QED
    BY <1>3, <2>1, <2>2
<1>16. CASE Sleep(u) \/ Wake(u) \/ TakeLists(u)
  <2>1. Aside /\ call' = call
    BY <1>16 DEF Sleep, Wake, TakeLists, TypeOK, histories
  <2>2. tab'[u].base = tab[u].base /\ tab'[u].open = tab[u].open
    BY <1>1, <1>16 DEF Sleep, Wake, TakeLists, TypeOK, TabRecord
  <2> QED
    BY <1>3, <2>1, <2>2
<1> QED
  BY <1>5, <1>6, <1>7, <1>8, <1>9, <1>10, <1>11, <1>12, <1>13, <1>14, <1>15, <1>16
     DEF AnswerStep, OpeningStep, UserStep

LEMMA SavesNext ==
  ASSUME TypeOK, EditInv, SavesInv, [Next]_vars
  PROVE  SavesInv'
<1>1. ASSUME UNCHANGED <<tab, call, lost>>, \A v \in Users : lapsed[v] = "yes" => lapsed'[v] = "yes"
      PROVE  SavesInv'
  BY <1>1 DEF SavesInv, Read
<1>2. CASE ForceRelease
  BY <1>1, <1>2 DEF ForceRelease, TypeOK, histories
<1>3. CASE Tick
  BY <1>1, <1>3 DEF Tick
<1>4. CASE UNCHANGED vars
  BY <1>1, <1>4 DEF vars, histories
<1> QED
  BY <1>2, <1>3, <1>4, AcquireKeepsSaves, SaveKeepsSaves, BrowserKeepsSaves DEF Next, ServerStep

\* A save of a user who keeps the lock never replaces a version that another user saved, with
\* the lock, since the document was put in the editor: for every number of users and any number
\* of accidents, though PUT /api/estimates/{id} asks for no lock. A document that the page's
\* copy of the estimate (state.estimates) made outdated from the beginning is not covered:
\* CopiesSeeTheLatest does not hold.
THEOREM SavesSee == Spec => []SavesSeeTheLatest
<1>1. SavesInv => SavesSeeTheLatest
  BY DEF SavesInv, SavesSeeTheLatest
<1>2. TypeOK /\ EditInv /\ [Next]_vars => EditInv'
  BY EditInvNext
<1>3. TypeOK /\ EditInv /\ SavesInv /\ [Next]_vars => SavesInv'
  BY SavesNext
<1> QED
  BY <1>1, <1>2, <1>3, EditInit, SavesInit, LocksTyped, PTL DEF Spec

-----------------------------------------------------------------------------
(* Losers.  Of a user who works without the lock and believes he has it,   *)
(* no request can tell him that he has: the poll of this tick tells him    *)
(* otherwise, if nothing did before.                                       *)

IdleIsForgotten(u) == \A k \in Kinds : call[u][k].at = "idle" => call[u][k].seen = None

Told(u) == astray[u] > 0 =>
  /\ astray[u] = 1
  /\ Holder # u
  /\ \A k \in Kinds : call[u][k].seen # u
  /\ call[u]["beat"].at \notin {"acquire", "acquired"}
  /\ "poll" \in due[u] \/ call[u]["poll"].at = "listed" \/ tab[u].known # u

LosersInv == \A u \in Users : IdleIsForgotten(u) /\ Told(u)

LEMMA LosersInit == Init => LosersInv
BY DEF Init, LosersInv, IdleIsForgotten, Told, Idle

\* Nobody gets the lock but by asking for it.
Unseated(u) == Holder # u => Holder' # u

LEMMA KeptLockSeatsNobody ==
  ASSUME NEW u \in Users, lock' \in {lock, NoLock, Purged(lock)}
  PROVE  Unseated(u)
BY UsersAssumption, TTLAssumption DEF Unseated, Holder, Purged, NoLock

LEMMA TickSeatsNobody ==
  ASSUME TypeOK, NEW u \in Users, Tick
  PROVE  Unseated(u)
BY UsersAssumption, TTLAssumption DEF Unseated, Tick, Holder, Purged, NoLock, TypeOK, LockRecord

LEMMA OthersAcquireSeatsNobody ==
  ASSUME NEW u \in Users, NEW v \in Users, v # u, NEW k \in Kinds, HandleAcquire(v, k)
  PROVE  Unseated(u)
<1>1. lock' = [user |-> v, age |-> 0] \/ lock' = Purged(lock)
  BY DEF HandleAcquire
<1>2. CASE lock' = [user |-> v, age |-> 0]
  BY <1>2, UsersAssumption DEF Unseated, Holder, Purged, NoLock
<1> QED
  BY <1>1, <1>2, KeptLockSeatsNobody

\* What a step of the user's browser, a save or a release leaves of the lock and of the others.
LEMMA BrowsersSeatNobody ==
  ASSUME TypeOK, NEW u \in Users,
         \/ OpeningStep(u) \/ AnswerStep(u) \/ TimerStep(u) \/ UserStep(u)
         \/ HandleRelease(u) \/ \E k \in Kinds : HandleSave(u, k)
  PROVE  /\ \A v \in Users : Unseated(v)
         /\ astray' = astray
         /\ \A v \in Users : v # u => call'[v] = call[v] /\ due'[v] = due[v] /\ tab'[v].known = tab[v].known
<1> USE DEF histories
<1>1. lock' \in {lock, NoLock, Purged(lock)} /\ astray' = astray
  <2>1. CASE AnswerStep(u)
    BY <2>1 DEF AnswerStep, Selected, Saved, Closed, Released, Polled, Beaten, Renewed
  <2>2. CASE TimerStep(u)
    BY <2>2 DEF TimerStep, Timer
  <2>3. CASE UserStep(u)
    BY <2>3 DEF UserStep, Select, Save, Close, Reload, Sleep, Wake, TakeLists
  <2>4. CASE OpeningStep(u)
    BY <2>4 DEF OpeningStep, Open, OpenRefused, OpenAsks, OpenCopy, Opened, DetailFails
  <2> QED
    BY <2>1, <2>2, <2>3, <2>4 DEF HandleRelease, HandleSave
<1>2. ASSUME NEW v \in Users, v # u
      PROVE  call'[v] = call[v] /\ due'[v] = due[v] /\ tab'[v].known = tab[v].known
  <2>1. CASE AnswerStep(u)
    BY <1>2, <2>1 DEF AnswerStep, Selected, Saved, Closed, Released, Polled, Beaten, Renewed, Goes, Ends, TypeOK
  <2>2. CASE TimerStep(u)
    BY <1>2, <2>2 DEF TimerStep, Timer, TypeOK
  <2>3. CASE UserStep(u)
    BY <1>2, <2>3 DEF UserStep, Select, Save, Close, Reload, Sleep, Wake, TakeLists, Goes, Ends, TypeOK
  <2>4. CASE HandleRelease(u)
    BY <1>2, <2>4 DEF HandleRelease, Goes, TypeOK
  <2>5. ASSUME NEW k \in Kinds, HandleSave(u, k)
        PROVE  call'[v] = call[v] /\ due'[v] = due[v] /\ tab'[v].known = tab[v].known
    <3>1. tab[v] \in TabRecord
      BY DEF TypeOK
    <3>2. tab'[v] = Overtaken(tab[v], u)
      BY <1>2, <2>5 DEF HandleSave
    <3>3. tab'[v].known = tab[v].known
      BY <3>1, <3>2 DEF Overtaken, TabRecord
    <3> QED
      BY <1>2, <2>5, <3>3 DEF HandleSave, Goes, TypeOK
  <2>6. CASE OpeningStep(u)
    BY <1>2, <2>6 DEF OpeningStep, Open, OpenRefused, OpenAsks, OpenCopy, Opened, DetailFails, Goes, Ends, TypeOK
  <2> QED
    BY <2>1, <2>2, <2>3, <2>4, <2>5, <2>6
<1> QED
  BY <1>1, <1>2, KeptLockSeatsNobody

\* One request of his goes on, and what it has seen is somebody else.
LEMMA OneCallOn ==
  ASSUME NEW u \in Users, IdleIsForgotten(u), Told(u), NEW k \in Kinds,
         astray'[u] = astray[u], Unseated(u),
         \A j \in Kinds : j # k => call'[u][j] = call[u][j],
         call'[u][k].at = "idle" => call'[u][k].seen = None,
         astray[u] > 0 =>
           /\ call'[u][k].seen # u
           /\ k = "beat" => call'[u][k].at \notin {"acquire", "acquired"}
           /\ \/ tab'[u].known # u
              \/ tab'[u].known = tab[u].known /\ due'[u] = due[u] /\ (k = "poll" => call[u][k].at # "listed")
              \/ k = "poll" /\ call'[u][k].at = "listed"
  PROVE  IdleIsForgotten(u)' /\ Told(u)'
<1>1. IdleIsForgotten(u)'
  BY DEF IdleIsForgotten
<1>2. ASSUME astray[u] > 0
      PROVE  /\ \A j \in Kinds : call'[u][j].seen # u
             /\ call'[u]["beat"].at \notin {"acquire", "acquired"}
             /\ "poll" \in due'[u] \/ call'[u]["poll"].at = "listed" \/ tab'[u].known # u
  <2>1. \A j \in Kinds : call'[u][j].seen # u
    BY <1>2 DEF Told
  <2>2. call'[u]["beat"].at \notin {"acquire", "acquired"}
    BY <1>2, KindsAre DEF Told
  <2>3. "poll" \in due'[u] \/ call'[u]["poll"].at = "listed" \/ tab'[u].known # u
    BY <1>2, KindsAre DEF Told
  <2> QED
    BY <2>1, <2>2, <2>3
<1>3. Told(u)'
  BY <1>2 DEF Told, Unseated
<1> QED
  BY <1>1, <1>3

LEMMA OthersStayTold ==
  ASSUME LosersInv, NEW u \in Users, Unseated(u),
         astray'[u] = astray[u], call'[u] = call[u], due'[u] = due[u], tab'[u].known = tab[u].known
  PROVE  IdleIsForgotten(u)' /\ Told(u)'
BY DEF LosersInv, IdleIsForgotten, Told, Unseated

LEMMA AcquireTells ==
  ASSUME TypeOK, LosersInv, NEW u \in Users, NEW k \in Kinds, HandleAcquire(u, k)
  PROVE  IdleIsForgotten(u)' /\ Told(u)'
<1>1. call'[u] = [call[u] EXCEPT ![k] = [Idle EXCEPT !.at = "acquired", !.seen = lock'.user]]
  BY DEF HandleAcquire, TypeOK
<1>2. /\ call'[u][k].at = "acquired" /\ call'[u][k].seen = lock'.user
      /\ \A j \in Kinds : j # k => call'[u][j] = call[u][j]
  BY <1>1 DEF TypeOK, Idle
<1>3. tab' = tab /\ due' = due /\ call[u][k].at = "acquire"
  BY DEF HandleAcquire
<1>4. IdleIsForgotten(u) /\ Told(u)
  BY DEF LosersInv
<1>5. CASE lock'.user = u
  <2>1. astray'[u] = 0
    BY <1>5 DEF HandleAcquire, TypeOK
  <2> QED
    BY <1>2, <1>4, <2>1 DEF IdleIsForgotten, Told
<1>6. CASE lock'.user # u
  <2>1. astray'[u] = astray[u]
    BY <1>6 DEF HandleAcquire
  <2>2. Unseated(u)
    BY <1>6, UsersAssumption DEF Unseated, Holder, Purged, NoLock
  <2>3. astray[u] > 0 => k # "beat"
    BY <1>3, <1>4 DEF Told
  <2> QED
    BY <1>2, <1>3, <1>4, <1>6, <2>1, <2>2, <2>3, OneCallOn
<1> QED
  BY <1>5, <1>6

LEMMA AnswersTell ==
  ASSUME TypeOK, LosersInv, NEW u \in Users, AnswerStep(u)
  PROVE  IdleIsForgotten(u)' /\ Told(u)'
<1>1. IdleIsForgotten(u) /\ Told(u) /\ tab[u] \in TabRecord /\ call[u] \in [Kinds -> CallRecord]
  BY DEF LosersInv, TypeOK
<1>2. Unseated(u) /\ astray'[u] = astray[u]
  BY BrowsersSeatNobody
<1>3. Idle.at = "idle" /\ Idle.seen = None /\ None # u
  BY UsersAssumption DEF Idle
<1> DEFINE Other(k) == \A j \in Kinds : j # k => call'[u][j] = call[u][j]
           Same == tab'[u].known = tab[u].known /\ due'[u] = due[u]
<1>4. ASSUME NEW k \in Kinds, k # "poll", Other(k), call'[u][k] = Idle, Same \/ tab'[u].known # u
      PROVE  IdleIsForgotten(u)' /\ Told(u)'
  BY <1>1, <1>2, <1>3, <1>4, OneCallOn
<1>5. CASE Selected(u)
  <2>1. tab'[u].known = call[u]["select"].seen /\ due' = due
    BY <1>1, <1>5 DEF Selected, TypeOK, TabRecord
  <2>2. Other("select") /\ call'[u]["select"] = Idle
    BY <1>5, KindsAre DEF Selected, Ends, TypeOK
  <2>3. astray[u] > 0 => call[u]["select"].seen # u
    BY <1>1, KindsAre DEF Told
  <2> QED
    BY <1>1, <1>2, <1>3, <2>1, <2>2, <2>3, KindsAre, OneCallOn
<1>6. CASE Saved(u) \/ Released(u)
  <2>1. PICK k \in {"save", "release"} : call' = Ends(u, k)
    BY <1>6 DEF Saved, Released
  <2>2. k \in Kinds /\ k # "poll" /\ Other(k) /\ call'[u][k] = Idle
    BY <2>1, KindsAre DEF Ends, TypeOK
  <2>3. Same \/ tab'[u].known # u
    <3>1. CASE Saved(u)
      BY <1>1, <3>1 DEF Saved, Answered, TypeOK, TabRecord
    <3>2. CASE Released(u)
      BY <1>1, <1>3, <3>2 DEF Released, TypeOK, TabRecord
    <3> QED
      BY <1>6, <3>1, <3>2
  <2> QED
    BY <1>4, <2>2, <2>3
<1>7. CASE Closed(u)
  <2>1. /\ call'[u] = [call[u] EXCEPT !["close"] = Idle, !["release"] = [call[u]["release"] EXCEPT !.at = "sent"]]
        /\ due' = due /\ tab'[u] = Left(Answered(tab[u])) /\ call[u]["release"].at = "idle"
    BY <1>7, KindsAre DEF Closed, TypeOK
  <2>2. /\ call'[u]["close"] = Idle
        /\ call'[u]["release"].at = "sent" /\ call'[u]["release"].seen = call[u]["release"].seen
        /\ \A j \in Kinds \ {"close", "release"} : call'[u][j] = call[u][j]
    BY <1>1, <2>1, KindsAre DEF CallRecord
  <2>3. tab'[u].known = tab[u].known
    BY <1>1, <2>1 DEF Left, Answered, TabRecord
  <2>4. IdleIsForgotten(u)'
    BY <1>1, <1>3, <2>2 DEF IdleIsForgotten
  <2>5. \A k \in Kinds : call'[u][k].seen = call[u][k].seen \/ call'[u][k].seen = None
    BY <1>3, <2>2
  <2>6. call'[u]["beat"] = call[u]["beat"] /\ call'[u]["poll"] = call[u]["poll"]
    BY <2>2, KindsAre
  <2> QED
    BY <1>1, <1>2, <1>3, <2>1, <2>3, <2>4, <2>5, <2>6 DEF Told, Unseated
<1>8. CASE Polled(u)
  <2>1. Other("poll") /\ call'[u]["poll"] = Idle
    BY <1>8, KindsAre DEF Polled, Ends, TypeOK
  <2>2. astray[u] > 0 => call[u]["poll"].seen # u
    BY <1>1, KindsAre DEF Told
  <2>3. tab'[u].known \in {None, call[u]["poll"].seen}
    BY <1>1, <1>8 DEF Polled, TypeOK, TabRecord, Informed, Left
  <2> QED
    BY <1>1, <1>2, <1>3, <2>1, <2>2, <2>3, KindsAre, OneCallOn
<1>9. CASE Beaten(u)
  <2>1. Other("beat")
    BY <1>9 DEF Beaten, Goes, Ends, TypeOK
  <2>2. astray[u] > 0 => call[u]["beat"].seen # u
    BY <1>1, KindsAre DEF Told
  <2>3. CASE tab[u].open /\ call[u]["beat"].seen = u
    <3>1. call'[u]["beat"].at = "acquire"
      BY <1>9, <2>3, KindsAre, CallsAfter DEF Beaten
    <3> QED
      BY <1>1, <1>2, <2>1, <2>2, <2>3, <3>1, KindsAre, OneCallOn
  <2>4. CASE ~(tab[u].open /\ call[u]["beat"].seen = u)
    <3>1. call'[u]["beat"] = Idle
      BY <1>9, <2>4, KindsAre DEF Beaten, Ends, TypeOK
    <3>2. tab'[u].known = call[u]["beat"].seen
      BY <1>1, <1>9, <2>4 DEF Beaten, TypeOK, TabRecord, Informed, Left
    <3> QED
      BY <1>1, <1>2, <1>3, <2>1, <2>2, <3>1, <3>2, KindsAre, OneCallOn
  <2> QED
    BY <2>3, <2>4
<1>10. CASE Renewed(u)
  <2>1. Other("beat") /\ call'[u]["beat"] = Idle
    BY <1>10, KindsAre DEF Renewed, Ends, TypeOK
  <2>2. ~(astray[u] > 0)
    BY <1>1, <1>10 DEF Told, Renewed, At
  <2> QED
    BY <1>1, <1>2, <1>3, <2>1, <2>2, KindsAre, OneCallOn
<1> QED
  BY <1>5, <1>6, <1>7, <1>8, <1>9, <1>10 DEF AnswerStep

\* A request is sent, or the server has done with a save or a release.
LEMMA GoingTells ==
  ASSUME TypeOK, LosersInv, NEW u \in Users, NEW k \in Kinds, NEW phase,
         Unseated(u), astray'[u] = astray[u], call' = Goes(u, k, phase), phase # "idle",
         k \notin {"poll", "beat"}, tab'[u].known = tab[u].known, due'[u] = due[u]
  PROVE  IdleIsForgotten(u)' /\ Told(u)'
<1>1. IdleIsForgotten(u) /\ Told(u)
  BY DEF LosersInv
<1>2. /\ call'[u][k].at = phase /\ call'[u][k].seen = call[u][k].seen
  BY CallsAfter
<1>3. \A j \in Kinds : j # k => call'[u][j] = call[u][j]
  BY DEF Goes, TypeOK
<1>4. astray[u] > 0 => call'[u][k].seen # u
  BY <1>1, <1>2 DEF Told
<1> QED
  BY <1>1, <1>2, <1>3, <1>4, OneCallOn

LEMMA ServerTells ==
  ASSUME TypeOK, LosersInv, NEW u \in Users,
         HandleRelease(u) \/ \E k \in Kinds : HandleSave(u, k)
  PROVE  IdleIsForgotten(u)' /\ Told(u)'
<1>1. Unseated(u) /\ astray'[u] = astray[u]
  BY BrowsersSeatNobody
<1>2. CASE HandleRelease(u)
  BY <1>1, <1>2, KindsAre, GoingTells DEF HandleRelease
<1>3. ASSUME NEW k \in Kinds, HandleSave(u, k)
      PROVE  IdleIsForgotten(u)' /\ Told(u)'
  <2>1. tab'[u].known = tab[u].known /\ due' = due /\ call' = Goes(u, k, "saved") /\ call[u][k].at = "put"
    BY <1>3 DEF HandleSave, Stored, TypeOK, TabRecord
  <2>2. /\ call'[u][k].at = "saved" /\ call'[u][k].seen = call[u][k].seen
    BY <2>1, CallsAfter
  <2>3. \A j \in Kinds : j # k => call'[u][j] = call[u][j]
    BY <2>1 DEF Goes, TypeOK
  <2>4. IdleIsForgotten(u) /\ Told(u)
    BY DEF LosersInv
  <2>5. astray[u] > 0 => call'[u][k].seen # u
    BY <2>2, <2>4 DEF Told
  <2> QED
    BY <1>1, <2>1, <2>2, <2>3, <2>4, <2>5, OneCallOn
<1> QED
  BY <1>2, <1>3

LEMMA TimersTell ==
  ASSUME TypeOK, LosersInv, NEW u \in Users, TimerStep(u)
  PROVE  IdleIsForgotten(u)' /\ Told(u)'
<1>1. Unseated(u) /\ astray'[u] = astray[u]
  BY BrowsersSeatNobody
<1>2. IdleIsForgotten(u) /\ Told(u)
  BY DEF LosersInv
<1>3. PICK k \in {"poll", "beat"} : Timer(u, k)
  BY DEF TimerStep, Timer, Wanted, TypeOK
<1>4. /\ call'[u][k] = [Idle EXCEPT !.at = "listed", !.seen = Holder]
      /\ \A j \in Kinds : j # k => call'[u][j] = call[u][j]
      /\ tab' = tab /\ due'[u] = due[u] \ {k}
  BY <1>3, KindsAre DEF Timer, TypeOK
<1>5. call'[u][k].at = "listed" /\ call'[u][k].seen = Holder
  BY <1>4 DEF Idle
<1>6. astray[u] > 0 => Holder # u
  BY <1>2 DEF Told
<1>7. CASE k = "poll"
  BY <1>1, <1>2, <1>4, <1>5, <1>6, <1>7, KindsAre, OneCallOn
<1>8. CASE k = "beat"
  <2>1. IdleIsForgotten(u)'
    BY <1>2, <1>4, <1>5 DEF IdleIsForgotten
  <2>2. \A j \in Kinds : astray[u] > 0 => call'[u][j].seen # u
    BY <1>2, <1>4, <1>5, <1>6 DEF Told
  <2>3. call'[u]["poll"] = call[u]["poll"] /\ call'[u]["beat"].at = "listed"
    BY <1>4, <1>5, <1>8, KindsAre
  <2>4. "poll" \in due[u] => "poll" \in due'[u]
    BY <1>4, <1>8
  <2> QED
    BY <1>1, <1>2, <1>4, <2>1, <2>2, <2>3, <2>4 DEF Told, Unseated
<1> QED
  BY <1>7, <1>8

\* An opening goes by what the lock's answer said, and the answer was not that he has it.
LEMMA OpeningTells ==
  ASSUME TypeOK, LosersInv, NEW u \in Users, OpeningStep(u)
  PROVE  IdleIsForgotten(u)' /\ Told(u)'
<1>1. Unseated(u) /\ astray'[u] = astray[u]
  BY BrowsersSeatNobody
<1>2. IdleIsForgotten(u) /\ Told(u) /\ tab[u] \in TabRecord
  BY DEF LosersInv, TypeOK
<1>3. astray[u] > 0 => call[u]["open"].seen # u
  BY <1>2, KindsAre DEF Told
<1>4. Idle.at = "idle" /\ Idle.seen = None /\ None # u
  BY UsersAssumption DEF Idle
<1>5. CASE Open(u)
  BY <1>1, <1>5, KindsAre, GoingTells DEF Open
<1>6. CASE OpenAsks(u)
  <2>1. ~(astray[u] > 0) /\ call' = Goes(u, "open", "read")
    BY <1>3, <1>6 DEF OpenAsks, Granted
  <2>2. call'[u]["open"].at = "read" /\ \A j \in Kinds : j # "open" => call'[u][j] = call[u][j]
    <3>1. call'[u]["open"].at = "read"
      BY <2>1, CallsAfter, KindsAre
    <3> QED
      BY <2>1, <3>1 DEF Goes, TypeOK
  <2> QED
    BY <1>1, <1>2, <2>1, <2>2, KindsAre, OneCallOn
<1>7. CASE OpenRefused(u) \/ OpenCopy(u) \/ Opened(u) \/ DetailFails(u)
  <2>1. call' = Ends(u, "open") /\ due' = due
    BY <1>7 DEF OpenRefused, OpenCopy, Opened, DetailFails
  <2>2. call'[u]["open"] = Idle /\ \A j \in Kinds : j # "open" => call'[u][j] = call[u][j]
    BY <2>1, CallsAfter, KindsAre
  <2>3. tab'[u].known \in {tab[u].known, call[u]["open"].seen}
    BY OpeningKeeps
  <2> QED
    BY <1>1, <1>2, <1>3, <1>4, <2>1, <2>2, <2>3, KindsAre, OneCallOn
<1> QED
  BY <1>5, <1>6, <1>7 DEF OpeningStep

LEMMA GesturesTell ==
  ASSUME TypeOK, LosersInv, NEW u \in Users, UserStep(u)
  PROVE  IdleIsForgotten(u)' /\ Told(u)'
<1>1. Unseated(u) /\ astray'[u] = astray[u] /\ astray' = astray
  BY BrowsersSeatNobody
<1>2. IdleIsForgotten(u) /\ Told(u) /\ tab[u] \in TabRecord
  BY DEF LosersInv, TypeOK
<1>3. CASE Select(u) \/ Save(u) \/ Close(u)
  <2>1. PICK k \in {"select", "save", "close"}, phase \in {"acquire", "put"} : call' = Goes(u, k, phase)
    BY <1>3 DEF Select, Save, Close
  <2>2. tab' = tab /\ due' = due
    BY <1>3 DEF Select, Save, Close
  <2> QED
    BY <1>1, <2>1, <2>2, KindsAre, GoingTells
<1>4. CASE Reload(u)
  <2>1. call'[u] = [k \in Kinds |-> IF k = "release" THEN [Idle EXCEPT !.at = "sent"]
                                    ELSE IF k = "select" THEN [Idle EXCEPT !.at = "acquire"] ELSE Idle]
    BY <1>4 DEF Reload, TypeOK
  <2>2. \A k \in Kinds : call'[u][k].seen = None
    BY <2>1 DEF Idle
  <2>3. call'[u]["beat"].at = "idle"
    BY <2>1, KindsAre
  <2>4. tab'[u].known = None
    BY <1>2, <1>4 DEF Reload, NewTab, TypeOK, TabRecord
  <2> QED
    BY <1>1, <1>2, <2>2, <2>3, <2>4, UsersAssumption DEF IdleIsForgotten, Told, Unseated
<1>5. CASE Sleep(u) \/ Wake(u) \/ TakeLists(u)
  <2>1. tab'[u].known = tab[u].known /\ call' = call /\ due' = due
    BY <1>2, <1>5 DEF Sleep, Wake, TakeLists, TypeOK, TabRecord
  <2> QED
    BY <1>1, <2>1, OthersStayTold
<1> QED
  BY <1>3, <1>4, <1>5 DEF UserStep

\* A whole tick later the poll has come, and it has not been told that he has the lock.
LEMMA TickTells ==
  ASSUME TypeOK, LosersInv, Tick
  PROVE  LosersInv'
<1> SUFFICES ASSUME NEW u \in Users
             PROVE  IdleIsForgotten(u)' /\ Told(u)'
  BY DEF LosersInv
<1>1. IdleIsForgotten(u) /\ Told(u) /\ astray[u] \in Nat /\ Unseated(u)
  BY TickSeatsNobody DEF LosersInv, TypeOK
<1>2. call' = call /\ tab' = tab /\ due'[u] = {"poll", "beat"}
  BY DEF Tick
<1>3. IdleIsForgotten(u)'
  BY <1>1, <1>2 DEF IdleIsForgotten
<1>4. ASSUME tab[u].awake, tab[u].open, tab[u].known = u, Holder # u
      PROVE  Told(u)'
  <2>1. Wanted(u) = {} /\ \A k \in Kinds : call[u][k].at = "idle"
    BY <1>4 DEF Tick
  <2>2. "poll" \notin due[u] /\ call[u]["poll"].at = "idle" /\ call[u]["beat"].at = "idle"
    BY <2>1, KindsAre DEF Wanted
  <2>3. ~(astray[u] > 0)
    BY <1>1, <1>4, <2>2 DEF Told
  <2>4. astray'[u] = 1
    BY <1>1, <1>4, <2>3 DEF Tick
  <2>5. \A k \in Kinds : call[u][k].seen # u
    BY <1>1, <2>1, UsersAssumption DEF IdleIsForgotten
  <2> QED
    BY <1>1, <1>2, <1>4, <2>2, <2>4, <2>5 DEF Told, Unseated
<1>5. ASSUME ~(tab[u].awake /\ tab[u].open /\ tab[u].known = u /\ Holder # u)
      PROVE  Told(u)'
  <2>1. astray'[u] = 0
    BY <1>5 DEF Tick
  <2> QED
    BY <2>1 DEF Told
<1> QED
  BY <1>3, <1>4, <1>5

LEMMA LosersNext ==
  ASSUME TypeOK, LosersInv, [Next]_vars
  PROVE  LosersInv'
<1>1. ASSUME NEW u \in Users,
             \/ OpeningStep(u) \/ AnswerStep(u) \/ TimerStep(u) \/ UserStep(u)
             \/ HandleRelease(u) \/ \E k \in Kinds : HandleSave(u, k)
      PROVE  LosersInv'
  <2>1. IdleIsForgotten(u)' /\ Told(u)'
    BY <1>1, OpeningTells, AnswersTell, TimersTell, GesturesTell, ServerTells
  <2>2. ASSUME NEW v \in Users, v # u
        PROVE  IdleIsForgotten(v)' /\ Told(v)'
    BY <1>1, <2>2, BrowsersSeatNobody, OthersStayTold
  <2> QED
    BY <2>1, <2>2 DEF LosersInv
<1>2. ASSUME NEW u \in Users, NEW k \in Kinds, HandleAcquire(u, k)
      PROVE  LosersInv'
  <2>1. IdleIsForgotten(u)' /\ Told(u)'
    BY <1>2, AcquireTells
  <2>2. ASSUME NEW v \in Users, v # u
        PROVE  IdleIsForgotten(v)' /\ Told(v)'
    <3>1. call'[v] = call[v] /\ due' = due /\ tab' = tab /\ astray'[v] = astray[v]
      BY <1>2, <2>2 DEF HandleAcquire, TypeOK
    <3> QED
      BY <1>2, <2>2, <3>1, OthersAcquireSeatsNobody, OthersStayTold
  <2> QED
    BY <2>1, <2>2 DEF LosersInv
<1>3. CASE ForceRelease \/ UNCHANGED vars
  <2>1. lock' \in {lock, NoLock} /\ UNCHANGED <<tab, call, due, astray>>
    BY <1>3 DEF ForceRelease, vars, histories
  <2> QED
    BY <2>1, KeptLockSeatsNobody, OthersStayTold DEF LosersInv
<1> QED
  BY <1>1, <1>2, <1>3, TickTells DEF Next, ServerStep

\* Whoever has lost the lock he thinks he has is out of the editor before two ticks have
\* passed, whoever took it and whatever is on its way: the list of every poll, and the one
\* refreshOwnedEstimateLocks reads before it renews, close the estimate of a user who is not in it.
THEOREM LosersAreOut == Spec => []LosersLeave
<1>1. TypeOK /\ LosersInv => LosersLeave
  BY DEF TypeOK, LosersInv, Told, LosersLeave
<1>2. TypeOK /\ LosersInv /\ [Next]_vars => LosersInv'
  BY LosersNext
<1> QED
  BY <1>1, <1>2, LosersInit, LocksTyped, PTL DEF Spec
=============================================================================
