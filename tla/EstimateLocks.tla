---------------------------- MODULE EstimateLocks ----------------------------
(***************************************************************************)
(* The edit lock of one estimate: presence/locks.go on the server, and in  *)
(* every user's browser the polls, heartbeats, openings, closings and      *)
(* saves of web/app.js, and the copy of the estimate his page keeps.  The  *)
(* server does not ask for the lock when it saves; only the clients'       *)
(* discipline keeps two of them apart.                                     *)
(***************************************************************************)
EXTENDS Integers, FiniteSets

CONSTANTS
  Users,        \* editors of one company, one tab each
  TTL,          \* lockTTL in ticks; a tick is ESTIMATE_LOCK_HEARTBEAT_MS
  MaxGestures,  \* bound: openings, selections, and saves that close nothing
  FaultKinds,   \* what may go wrong
  MaxFaults,    \* bound: how often
  None

ASSUME TTLAssumption == TTL \in Nat \ {0}
ASSUME UsersAssumption == IsFiniteSet(Users) /\ None \notin Users
ASSUME FaultKindsAssumption == FaultKinds \subseteq {"sleep", "admin", "reload", "overtake", "detail"}
ASSUME BoundsAssumption == MaxGestures \in Nat /\ MaxFaults \in Nat

VARIABLES
  lock,     \* of the estimate: user and ticks since it was renewed
  tab,      \* of every user: the estimate in his editor, the page's copy of it, and what he knows of the lock
  call,     \* his requests: opening, closing, saving, poll, heartbeat, release
  due,      \* the timers that have not fired since the last tick
  lapsed,   \* history: "yes" if he lost the lock by accident, "nap" if he slept since the last renewal
  lost,     \* history: a save with the lock replaced a version another user saved since the opening
  astray,   \* history: the ticks a user has been editing without the lock he thinks he has
  gestures, faults

bounds == <<gestures, faults>>
histories == <<lost, astray>>
vars == <<lock, tab, call, due, lapsed, histories, bounds>>

Kinds == {"open", "select", "close", "save", "poll", "beat", "release"}
Idle == [at |-> "idle", seen |-> None]
NoLock == [user |-> None, age |-> 0]

\* A page after bootstrapAppData. base: the document in the editor against the stored one;
\* copy: the entry of state.estimates, "none" without lines; answer: of a save, unread.
NewTab ==
  [open |-> FALSE, known |-> None, awake |-> TRUE, base |-> "none", copy |-> "none", answer |-> "none"]

Init ==
  /\ lock = NoLock
  /\ tab = [u \in Users |-> NewTab]
  /\ call = [u \in Users |-> [k \in Kinds |-> Idle]]
  /\ due = [u \in Users |-> {"poll", "beat"}]
  /\ lapsed = [u \in Users |-> "no"] /\ lost = FALSE
  /\ astray = [u \in Users |-> 0]
  /\ gestures = 0 /\ faults = 0

Fault(kind) == kind \in FaultKinds /\ faults < MaxFaults /\ faults' = faults + 1
Gesture == gestures < MaxGestures /\ gestures' = gestures + 1

\* Seeded fault: the lock is over at the TTL and not after it.
PurgedAtTTL(l) == IF l.age >= TTL THEN NoLock ELSE l

\* purgeExpiredLocked: the lock as every access but a release sees it.
Purged(l) == IF l.age > TTL THEN NoLock ELSE l
Holder == Purged(lock).user

At(u, k, phase) == tab[u].awake /\ call[u][k].at = phase
Goes(u, k, phase) == [call EXCEPT ![u][k].at = phase]
Ends(u, k) == [call EXCEPT ![u][k] = Idle]

-----------------------------------------------------------------------------
(* The server.                                                             *)

\* EstimateLocks.Acquire for an opening, a heartbeat or a restored tab. It may come before
\* a release that the browser sent earlier.
HandleAcquire(u, k) ==
  /\ call[u][k].at = "acquire"
  /\ IF k \in {"open", "select"} /\ call[u]["release"].at = "sent" THEN Fault("overtake") ELSE UNCHANGED faults
  /\ lock' = IF Holder \in {None, u} THEN [user |-> u, age |-> 0] ELSE Purged(lock)
  /\ call' = [call EXCEPT ![u][k] = [Idle EXCEPT !.at = "acquired", !.seen = lock'.user]]
  /\ lapsed' = [lapsed EXCEPT ![u] = IF k # "open" /\ @ # "nap" THEN @ ELSE IF tab[u].awake THEN "no" ELSE "nap"]
  /\ astray' = IF lock'.user = u THEN [astray EXCEPT ![u] = 0] ELSE astray
  /\ UNCHANGED <<tab, due, lost, gestures>>

\* Seeded fault: the user is struck out and the entry kept.
HandleReleaseOfUser(u) ==
  LET overtaken == tab[u].open \/ call[u]["open"].at \in {"acquired", "read"} IN
  /\ call[u]["release"].at = "sent"
  /\ lock' = IF lock.user = u THEN [lock EXCEPT !.user = None] ELSE lock
  /\ lapsed' = [lapsed EXCEPT ![u] = IF overtaken THEN "yes" ELSE @]
  /\ call' = Goes(u, "release", "released")
  /\ UNCHANGED <<tab, due, histories, bounds>>

\* EstimateLocks.Release.
HandleRelease(u) ==
  LET overtaken == tab[u].open \/ call[u]["open"].at \in {"acquired", "read"} IN
  /\ call[u]["release"].at = "sent"
  /\ lock' = IF lock.user = u THEN NoLock ELSE lock
  /\ lapsed' = [lapsed EXCEPT ![u] = IF overtaken THEN "yes" ELSE @]
  /\ call' = Goes(u, "release", "released")
  /\ UNCHANGED <<tab, due, histories, bounds>>

\* What a save of w leaves of a version that was read or saved before it.
Outdated(version, w) == IF version = "latest" /\ Holder = w THEN "old" ELSE version

Overtaken(t, w) ==
  [t EXCEPT !.base = Outdated(@, w), !.copy = Outdated(@, w), !.answer = Outdated(@, w)]

Stored(t) == [t EXCEPT !.base = IF @ = "none" THEN @ ELSE "latest", !.answer = "latest"]

\* PUT /api/estimates/{id}: whoever asks, whatever the stored version is.
HandleSave(u, k) ==
  /\ call[u][k].at = "put"
  /\ lost' = (lost \/ (tab[u].base = "old" /\ lapsed[u] # "yes"))
  /\ tab' = [v \in Users |-> IF v = u THEN Stored(tab[u]) ELSE Overtaken(tab[v], u)]
  /\ call' = Goes(u, k, "saved")
  /\ UNCHANGED <<lock, due, lapsed, astray, bounds>>

\* handleAdminEstimateLockByID
ForceRelease ==
  /\ Holder # None
  /\ Fault("admin")
  /\ lock' = NoLock
  /\ lapsed' = [lapsed EXCEPT ![lock.user] = "yes"]
  /\ UNCHANGED <<tab, call, due, histories, gestures>>

-----------------------------------------------------------------------------
(* The browser.                                                            *)

\* refreshConstructionData: the lists carry no lines, and replace whatever state.estimates
\* held. They are asked for on the way to the tree, which is shown, and opens what is
\* clicked, before they are answered or when they fail. Nobody reads the copy but an
\* opening, so this is where it matters whether they came.
TakeLists(u) ==
  /\ At(u, "open", "acquired") /\ tab[u].copy # "none"
  /\ tab' = [tab EXCEPT ![u].copy = "none"]
  /\ UNCHANGED <<lock, call, due, lapsed, histories, bounds>>

\* openEstimateInEditor, and for an estimate that is open already.
Open(u) ==
  /\ At(u, "open", "idle") /\ ~tab[u].open /\ tab[u].known \in {None, u}
  /\ Gesture
  /\ call' = Goes(u, "open", "acquire")
  /\ UNCHANGED <<lock, tab, due, lapsed, histories, faults>>

Select(u) ==
  /\ At(u, "select", "idle") /\ tab[u].open /\ tab[u].known \in {None, u}
  /\ Gesture
  /\ call' = Goes(u, "select", "acquire")
  /\ UNCHANGED <<lock, tab, due, lapsed, histories, faults>>

Selected(u) ==
  /\ At(u, "select", "acquired")
  /\ tab' = [tab EXCEPT ![u].known = call[u]["select"].seen]
  /\ call' = Ends(u, "select")
  /\ UNCHANGED <<lock, due, lapsed, histories, bounds>>

\* Seeded fault: the refusal of the lock is not looked at.
GrantedOrNot(u) == At(u, "open", "acquired")

Granted(u) == At(u, "open", "acquired") /\ call[u]["open"].seen = u

Knowing(u) == [tab[u] EXCEPT !.known = call[u]["open"].seen]

InEditor(t, version) == [t EXCEPT !.open = TRUE, !.base = version]

OpenRefused(u) ==
  /\ At(u, "open", "acquired") /\ ~Granted(u)
  /\ tab' = [tab EXCEPT ![u] = Knowing(u)]
  /\ call' = Ends(u, "open")
  /\ UNCHANGED <<lock, due, lapsed, histories, bounds>>

\* fetchEstimateDetail, when the lock was granted, asks the server only if the page has no
\* copy with lines; the step is the moment the server reads the estimate ...
OpenAsks(u) ==
  /\ Granted(u) /\ tab[u].copy = "none"
  /\ tab' = [tab EXCEPT ![u] = [Knowing(u) EXCEPT !.base = "latest"]]
  /\ call' = Goes(u, "open", "read")
  /\ UNCHANGED <<lock, due, lapsed, histories, bounds>>

\* ... keeps the answer as its copy ...
Opened(u) ==
  /\ At(u, "open", "read")
  /\ tab' = [tab EXCEPT ![u] = [InEditor(@, @.base) EXCEPT !.copy = tab[u].base]]
  /\ call' = Ends(u, "open")
  /\ UNCHANGED <<lock, due, lapsed, histories, bounds>>

\* ... and otherwise opens the copy, however old it is.
OpenCopy(u) ==
  /\ Granted(u) /\ tab[u].copy # "none"
  /\ tab' = [tab EXCEPT ![u] = InEditor(Knowing(u), IF @.copy = "old" THEN "stale" ELSE @.copy)]
  /\ call' = Ends(u, "open")
  /\ UNCHANGED <<lock, due, lapsed, histories, bounds>>

\* A message; the lock stays with the user until its time is over.
DetailFails(u) ==
  /\ At(u, "open", "read")
  /\ Fault("detail")
  /\ tab' = [tab EXCEPT ![u].base = "none"]
  /\ call' = Ends(u, "open")
  /\ UNCHANGED <<lock, due, lapsed, histories, gestures>>

\* persistOpenEstimate, after an edit or before a closing: one save at a time.
Save(u) ==
  /\ At(u, "save", "idle") /\ At(u, "close", "idle") /\ tab[u].open
  /\ Gesture
  /\ call' = Goes(u, "save", "put")
  /\ UNCHANGED <<lock, tab, due, lapsed, histories, faults>>

\* The answer of a save becomes the page's copy, in the editor or out of it.
Answered(t) == [t EXCEPT !.copy = t.answer, !.answer = "none"]

Saved(u) ==
  /\ At(u, "save", "saved")
  /\ tab' = [tab EXCEPT ![u] = Answered(@)]
  /\ call' = Ends(u, "save")
  /\ UNCHANGED <<lock, due, lapsed, histories, bounds>>

\* openEstimates without the estimate; the page's copy stays.
Left(t) == IF t.open THEN [t EXCEPT !.open = FALSE, !.base = "none"] ELSE t

\* closeEstimateFromEditor: the save is awaited, the release is not.
Close(u) ==
  /\ At(u, "close", "idle") /\ At(u, "save", "idle") /\ tab[u].open
  /\ call' = Goes(u, "close", "put")
  /\ UNCHANGED <<lock, tab, due, lapsed, histories, bounds>>

Closed(u) ==
  /\ At(u, "close", "saved") /\ call[u]["release"].at = "idle"
  /\ tab' = [tab EXCEPT ![u] = Left(Answered(@))]
  /\ call' = [call EXCEPT ![u]["close"] = Idle, ![u]["release"].at = "sent"]
  /\ UNCHANGED <<lock, due, lapsed, histories, bounds>>

\* releaseEstimateLock forgets the lock when the answer comes.
Released(u) ==
  /\ At(u, "release", "released")
  /\ tab' = [tab EXCEPT ![u].known = None]
  /\ call' = Ends(u, "release")
  /\ UNCHANGED <<lock, due, lapsed, histories, bounds>>

\* The heartbeat of a tab with nothing open is one poll more, and left out.
Wanted(u) == {k \in due[u] : k = "poll" \/ tab[u].open}

\* The intervals of startEstimateLockSync, each once a tick, and EstimateLocks.List,
\* which answers them at a moment nobody chooses.
Timer(u, k) ==
  /\ k \in Wanted(u) /\ At(u, k, "idle")
  /\ due' = [due EXCEPT ![u] = @ \ {k}]
  /\ lock' = Purged(lock)
  /\ call' = [call EXCEPT ![u][k] = [Idle EXCEPT !.at = "listed", !.seen = Holder]]
  /\ UNCHANGED <<tab, lapsed, histories, bounds>>

\* Seeded fault: a lock missing from the list is left as it was known.
InformedOfOthers(t, u, seen) ==
  IF seen = None THEN t ELSE [(IF t.known = u /\ seen # u THEN Left(t) ELSE t) EXCEPT !.known = seen]

\* A lock that was ours and is not any more closes the estimate: kickEstimateFromEditor.
Informed(t, u, seen) == [(IF t.known = u /\ seen # u THEN Left(t) ELSE t) EXCEPT !.known = seen]

\* refreshEstimateLocks. When it puts the user out it asks for the list once more.
Polled(u) ==
  LET next == Informed(tab[u], u, call[u]["poll"].seen)
      kicked == tab[u].open /\ ~next.open
  IN
  /\ At(u, "poll", "listed")
  /\ tab' = [tab EXCEPT ![u] = IF kicked THEN [next EXCEPT !.known = None] ELSE next]
  /\ call' = Ends(u, "poll")
  /\ due' = IF kicked THEN [due EXCEPT ![u] = @ \cup {"poll"}] ELSE due
  /\ UNCHANGED <<lock, lapsed, histories, bounds>>

\* Seeded fault: the heartbeat only looks.
BeatenLooking(u) ==
  /\ At(u, "beat", "listed")
  /\ tab' = [tab EXCEPT ![u] = Informed(@, u, call[u]["beat"].seen)]
  /\ call' = Ends(u, "beat")
  /\ UNCHANGED <<lock, due, lapsed, histories, bounds>>

\* refreshOwnedEstimateLocks: the list first, then a renewal of what is ours in it.
Beaten(u) ==
  /\ At(u, "beat", "listed")
  /\ IF tab[u].open /\ call[u]["beat"].seen = u
     THEN call' = Goes(u, "beat", "acquire") /\ UNCHANGED tab
     ELSE tab' = [tab EXCEPT ![u] = Informed(@, u, call[u]["beat"].seen)] /\ call' = Ends(u, "beat")
  /\ UNCHANGED <<lock, due, lapsed, histories, bounds>>

\* Whatever the renewal said, the list from before it is kept.
Renewed(u) ==
  /\ At(u, "beat", "acquired")
  /\ tab' = [tab EXCEPT ![u].known = u]
  /\ call' = Ends(u, "beat")
  /\ UNCHANGED <<lock, due, lapsed, histories, bounds>>

\* beforeunload releases; the page reads its lists anew, and restoreOpenEstimateLocks asks
\* again and keeps the estimate open whatever the answer is.
Reload(u) ==
  /\ tab[u].awake /\ tab[u].open /\ call[u]["release"].at = "idle"
  /\ Fault("reload")
  /\ call' = [call EXCEPT ![u] = [k \in Kinds |->
                IF k = "release" THEN [Idle EXCEPT !.at = "sent"]
                ELSE IF k = "select" THEN [Idle EXCEPT !.at = "acquire"] ELSE Idle]]
  /\ tab' = [tab EXCEPT ![u] = [NewTab EXCEPT !.open = TRUE, !.base = tab[u].base]]
  /\ lapsed' = [lapsed EXCEPT ![u] = "yes"]
  /\ UNCHANGED <<lock, due, histories, gestures>>

\* The machine sleeps: no timer fires and no answer is read.
Sleep(u) ==
  /\ tab[u].awake
  /\ Fault("sleep")
  /\ tab' = [tab EXCEPT ![u].awake = FALSE]
  /\ lapsed' = [lapsed EXCEPT ![u] = IF @ = "no" THEN "nap" ELSE @]
  /\ UNCHANGED <<lock, call, due, histories, gestures>>

Wake(u) ==
  /\ ~tab[u].awake
  /\ tab' = [tab EXCEPT ![u].awake = TRUE]
  /\ UNCHANGED <<lock, call, due, lapsed, histories, bounds>>

-----------------------------------------------------------------------------
\* 30 s pass: the timers of every tab that is awake have fired, and requests are
\* answered within this time.
Tick ==
  /\ \A u \in Users : /\ \A k \in Kinds : call[u][k].at \notin {"acquire", "sent", "put"}
                      /\ tab[u].awake => Wanted(u) = {} /\ \A k \in Kinds : call[u][k].at = "idle"
  /\ lock' = IF lock.user # None /\ lock.age <= TTL THEN [lock EXCEPT !.age = @ + 1] ELSE lock
  /\ lapsed' = [u \in Users |-> IF lapsed[u] = "nap" /\ lock'.user = u /\ lock'.age > TTL THEN "yes" ELSE lapsed[u]]
  /\ astray' = [u \in Users |-> IF tab[u].awake /\ tab[u].open /\ tab[u].known = u /\ Holder # u THEN astray[u] + 1 ELSE 0]
  /\ due' = [u \in Users |-> {"poll", "beat"}]
  /\ UNCHANGED <<tab, call, lost, bounds>>

ServerStep(u) ==
  \/ \E k \in Kinds : HandleAcquire(u, k) \/ HandleSave(u, k)
  \/ HandleRelease(u)

OpeningStep(u) == Open(u) \/ OpenRefused(u) \/ OpenAsks(u) \/ OpenCopy(u) \/ Opened(u) \/ DetailFails(u)

AnswerStep(u) ==
  Selected(u) \/ Saved(u) \/ Closed(u) \/ Released(u) \/ Polled(u) \/ Beaten(u) \/ Renewed(u)

TimerStep(u) == \E k \in Kinds : Timer(u, k)

UserStep(u) == Select(u) \/ Save(u) \/ Close(u) \/ Reload(u) \/ Sleep(u) \/ Wake(u) \/ TakeLists(u)

Next ==
  \/ ForceRelease \/ Tick
  \/ \E u \in Users : ServerStep(u) \/ OpeningStep(u) \/ AnswerStep(u) \/ TimerStep(u) \/ UserStep(u)

Spec == Init /\ [][Next]_vars

-----------------------------------------------------------------------------
(* Properties.                                                             *)

Phases == {"idle", "acquire", "acquired", "read", "put", "saved", "sent", "released", "listed"}

\* latest: no save that another user made with the lock is missing; stale: one was missing
\* when the document was opened.
Versions == {"none", "latest", "old", "stale"}

LockRecord == [user : Users \cup {None}, age : 0 .. TTL + 1]
TabRecord ==
  [open : BOOLEAN, known : Users \cup {None}, awake : BOOLEAN,
   base : Versions, copy : Versions, answer : Versions]
CallRecord == [at : Phases, seen : Users \cup {None}]
Lapses == {"no", "nap", "yes"}

\* Types; nobody's lock has no age, and a forgotten one is at most one tick past its time.
TypeOK ==
  /\ lock \in LockRecord
  /\ lock.user = None => lock = NoLock
  /\ tab \in [Users -> TabRecord]
  /\ call \in [Users -> [Kinds -> CallRecord]]
  /\ due \in [Users -> SUBSET {"poll", "beat"}]
  /\ lapsed \in [Users -> Lapses]
  /\ lost \in BOOLEAN /\ astray \in [Users -> Nat]
  /\ gestures \in 0 .. MaxGestures /\ faults \in 0 .. MaxFaults

\* A user whose estimate is open holds the lock, unless he slept through its time, an
\* administrator took it, his tab was reloaded or his own late release took it: the
\* heartbeat comes in time and nobody else is let in.
EditorsHoldTheLock == \A u \in Users : tab[u].open /\ lapsed[u] # "yes" => Holder = u

\* A save of a user who keeps the lock never replaces another user's version that was saved,
\* with the lock, since the document was put in the editor: it is put there after the lock is
\* granted and saved before the lock is released. What the document lacked already when it
\* was opened from the page's copy is not part of it.
SavesSeeTheLatest == ~lost

\* Not so: that a document opened from the page's copy lacks nothing. No run checks it; TLC
\* refutes it without an accident.
CopiesSeeTheLatest == \A u \in Users, k \in Kinds : call[u][k].at = "put" => tab[u].base # "stale"

Seats == INSTANCE Lease WITH Capacity <- 1,
           silence <- [u \in Users |-> IF lock.user = u THEN lock.age ELSE -1]

\* The lock table is a lease with one seat.
IsLease == Seats!Spec

\* Whoever has lost the lock he thinks he has is out of the editor a tick later: the poll
\* tells him, and the list the heartbeat reads before it renews.
LosersLeave == \A u \in Users : astray[u] <= 1
=============================================================================
