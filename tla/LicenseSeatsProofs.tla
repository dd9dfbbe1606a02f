------------------------- MODULE LicenseSeatsProofs --------------------------
(***************************************************************************)
(* Proofs about LicenseSeats for every number of users, pages, subsections *)
(* and licences, every time a seat lasts and any number of accidents.      *)
(***************************************************************************)
EXTENDS LicenseSeats, FiniteSetTheorems, SequenceTheorems, TLAPS

-----------------------------------------------------------------------------
(* The sessions of a subsection implement the lease.                       *)

SeatsTyped ==
  /\ seats \in [Accounts -> [Subsections -> NoSeat .. SeatTTL + 1]]
  /\ owner \in [Pages -> Accounts]

\* Only these steps touch the sessions.
SeatsStep ==
  \/ \E u \in Accounts : seats' = ReleasedAll(u) \/ \E want : seats' = Synced(u, want)
  \/ seats' = [u \in Accounts |-> [s \in Subsections |-> IF Active(u, s) THEN seats[u][s] + 1 ELSE seats[u][s]]]
  \/ UNCHANGED seats

LEMMA EveryStepIsASeatsStep ==
  ASSUME SeatsTyped, [SeatsNext]_seatVars
  PROVE  SeatsStep /\ owner' = owner
<1>1. CASE SeatTick
  BY <1>1 DEF SeatTick, SeatsStep
<1>2. ASSUME NEW p \in Pages, NEW i \in 1..Len(asks[p]), HandleAsk(p, i)
      PROVE  SeatsStep /\ owner' = owner
  <2>1. owner[p] \in Accounts
    BY DEF SeatsTyped
  <2>2. seats' = ReleasedAll(owner[p]) \/ seats' = Synced(owner[p], asks[p][i].want)
    BY <1>2 DEF HandleAsk
  <2> QED
    BY <1>2, <2>1, <2>2 DEF HandleAsk, SeatsStep
<1>3. ASSUME NEW p \in Pages, NEW i \in 1..Len(asks[p]), LoseAsk(p, i) \/ SeatsAnswered(p, i)
      PROVE  SeatsStep /\ owner' = owner
  BY <1>3 DEF LoseAsk, SeatsAnswered, SeatsStep
<1>4. ASSUME NEW p \in Pages, NEW tab, Go(p, tab)
      PROVE  SeatsStep /\ owner' = owner
  BY <1>4 DEF Go, SeatsStep
<1>5. ASSUME NEW p \in Pages, NEW set, ChangePriceSet(p, set)
      PROVE  SeatsStep /\ owner' = owner
  BY <1>5 DEF ChangePriceSet, SeatsStep
<1>6. ASSUME NEW p \in Pages, ToLicensedTable(p) \/ BackToText(p) \/ RecalculateTable(p) \/ Beat(p) \/ Reload(p)
      PROVE  SeatsStep /\ owner' = owner
  BY <1>6 DEF ToLicensedTable, BackToText, RecalculateTable, Beat, Reload, SeatsStep
<1>7. CASE UNCHANGED seatVars
  BY <1>7 DEF seatVars, SeatsStep
<1> QED
  BY <1>1, <1>2, <1>3, <1>4, <1>5, <1>6, <1>7 DEF SeatsNext

LEMMA SeatsTypedInit == SeatsInit => SeatsTyped
BY OwnersAssumption, SeatTTLAssumption DEF SeatsInit, SeatsTyped, NoSeat

LEMMA SeatsTypedNext ==
  ASSUME SeatsTyped, [SeatsNext]_seatVars
  PROVE  SeatsTyped'
<1>1. SeatsStep /\ owner' = owner
  BY EveryStepIsASeatsStep
<1>2. \A u \in Accounts, s \in Subsections :
        /\ seats[u][s] \in NoSeat .. SeatTTL + 1
        /\ NoSeat \in NoSeat .. SeatTTL + 1 /\ 0 \in NoSeat .. SeatTTL + 1
        /\ Purged(u, s) \in NoSeat .. SeatTTL + 1
        /\ Active(u, s) => seats[u][s] + 1 \in NoSeat .. SeatTTL + 1
  BY SeatTTLAssumption DEF SeatsTyped, NoSeat, Purged, Active
<1>3. seats' \in [Accounts -> [Subsections -> NoSeat .. SeatTTL + 1]]
  <2>1. ASSUME NEW u \in Accounts, seats' = ReleasedAll(u)
        PROVE  seats' \in [Accounts -> [Subsections -> NoSeat .. SeatTTL + 1]]
    <3>1. [s \in Subsections |-> NoSeat] \in [Subsections -> NoSeat .. SeatTTL + 1]
      BY SeatTTLAssumption DEF NoSeat
    <3> QED
      BY <2>1, <3>1 DEF ReleasedAll, SeatsTyped
  <2>2. ASSUME NEW u \in Accounts, NEW want, seats' = Synced(u, want)
        PROVE  seats' \in [Accounts -> [Subsections -> NoSeat .. SeatTTL + 1]]
    BY <1>2, <2>2 DEF Synced
  <2> QED
    BY <1>1, <1>2, <2>1, <2>2 DEF SeatsStep, SeatsTyped
<1> QED
  BY <1>1, <1>3 DEF SeatsTyped

\* A seat of the lease is in use exactly while the session is active.
LEMMA LiveIsActive ==
  ASSUME NEW s \in Subsections, NEW u \in Accounts
  PROVE  Seat(s)!Live(u) <=> Active(u, s)
BY DEF Seat!Live, Active, SilenceFor

\* The lease counts the seats in use as the sessions count their holders.
LEMMA LiveUsersAreHolders ==
  ASSUME NEW s \in Subsections
  PROVE  Seat(s)!Cardinality(Seat(s)!LiveUsers) = Cardinality(Holders(s))
<1>1. Seat(s)!LiveUsers = Holders(s)
  BY LiveIsActive DEF Seat!LiveUsers, Holders
<1>2. Seat(s)!Cardinality(Holders(s)) = Cardinality(Holders(s))
  BY DEF Seat!Cardinality, Cardinality
<1> QED
  BY <1>1, <1>2

LEMMA HoldersAreFinite ==
  ASSUME NEW s
  PROVE  IsFiniteSet(Holders(s))
BY AccountsAssumption, FS_Subset DEF Holders

LEMMA ReleaseIsDrop ==
  ASSUME SeatsTyped, NEW u \in Accounts, seats' = ReleasedAll(u), NEW s \in Subsections
  PROVE  Seat(s)!Next
<1>1. SilenceFor(s)' = [SilenceFor(s) EXCEPT ![u] = Seat(s)!NoSeat]
  BY DEF ReleasedAll, SilenceFor, SeatsTyped, Seat!NoSeat, NoSeat
<1> QED
  BY <1>1 DEF Seat!Next, Seat!Drop

\* A call that is not answered for want of a licence renews nothing; of one that is, what is
\* wanted is granted and the rest given up.
LEMMA SyncIsALeaseStep ==
  ASSUME SeatsTyped, NEW u \in Accounts, NEW want, seats' = Synced(u, want), NEW s \in Subsections
  PROVE  Seat(s)!Next
<1>1. \A v \in Accounts : Seat(s)!Live(v) <=> Active(v, s)
  BY LiveIsActive
<1>2. \A v \in Accounts : SilenceFor(s)[v] = seats[v][s] /\ SilenceFor(s)'[v] = seats'[v][s]
  BY DEF SilenceFor
<1>3. CASE Blocked(u, want) # {}
  <2>1. SilenceFor(s)' = [v \in Accounts |-> IF Seat(s)!Live(v) THEN SilenceFor(s)[v] ELSE Seat(s)!NoSeat]
    BY <1>1, <1>2, <1>3 DEF Synced, Purged, SilenceFor, NoSeat, Seat!NoSeat
  <2> QED
    BY <2>1 DEF Seat!Purge, Seat!Next
<1>4. CASE Blocked(u, want) = {} /\ s \in want
  <2>1. Active(u, s) \/ ~(Cardinality(Holders(s)) >= Available[s])
    BY <1>4 DEF Blocked
  <2>2. Seat(s)!Live(u) \/ Seat(s)!Cardinality(Seat(s)!LiveUsers) < Available[s]
    <3>1. CASE Active(u, s)
      BY <1>1, <3>1
    <3>2. CASE ~Active(u, s)
      <4>1. Cardinality(Holders(s)) \in Nat /\ Available[s] \in Nat
        BY HoldersAreFinite, FS_CardinalityType, AvailableAssumption DEF Subsections
      <4> QED
        BY <2>1, <3>2, <4>1, LiveUsersAreHolders
    <3> QED
      BY <3>1, <3>2
  <2>3. SilenceFor(s)' = [v \in Accounts |-> IF v = u THEN 0 ELSE IF Seat(s)!Live(v) THEN SilenceFor(s)[v] ELSE Seat(s)!NoSeat]
    BY <1>1, <1>2, <1>4 DEF Synced, Purged, SilenceFor, NoSeat, Seat!NoSeat
  <2> QED
    BY <2>2, <2>3 DEF Seat!Grant, Seat!Next
<1>5. CASE Blocked(u, want) = {} /\ s \notin want
  <2>1. SilenceFor(s)' = [v \in Accounts |-> IF v # u /\ Seat(s)!Live(v) THEN SilenceFor(s)[v] ELSE Seat(s)!NoSeat]
    BY <1>1, <1>2, <1>5 DEF Synced, Purged, SilenceFor, NoSeat, Seat!NoSeat
  <2> QED
    BY <2>1 DEF Seat!Drop, Seat!Next
<1> QED
  BY <1>3, <1>4, <1>5

LEMMA SeatsStepIsALeaseStep ==
  ASSUME SeatsTyped, SeatsStep, NEW s \in Subsections
  PROVE  UNCHANGED SilenceFor(s) \/ Seat(s)!Next
<1>1. CASE UNCHANGED seats
  BY <1>1 DEF SilenceFor
<1>2. CASE seats' = [u \in Accounts |-> [r \in Subsections |-> IF Active(u, r) THEN seats[u][r] + 1 ELSE seats[u][r]]]
  <2>1. SilenceFor(s)' = [u \in Accounts |-> IF Seat(s)!Live(u) THEN SilenceFor(s)[u] + 1 ELSE SilenceFor(s)[u]]
    BY <1>2, LiveIsActive DEF SilenceFor
  <2> QED
    BY <2>1 DEF Seat!Tick, Seat!Next
<1> QED
  BY <1>1, <1>2, ReleaseIsDrop, SyncIsALeaseStep DEF SeatsStep

\* LicenseSeats implements the lease for every subsection with as many seats as the company has
\* licences for it, for every number of users, pages and licences: LicenseSessions.Sync and
\* ReleaseAll of presence/license_sessions.go seat nobody past the last licence and put out
\* nobody who keeps in touch.
THEOREM SessionsImplementLeases == SeatsSpec => SessionsAreLeases
<1>1. SeatsInit => \A s \in Subsections : Seat(s)!Init
  BY DEF SeatsInit, Seat!Init, Seat!NoSeat, NoSeat, SilenceFor
<1>2. SeatsTyped /\ [SeatsNext]_seatVars =>
        [\A s \in Subsections : UNCHANGED SilenceFor(s) \/ Seat(s)!Next]_seats
  BY EveryStepIsASeatsStep, SeatsStepIsALeaseStep
<1>3. SeatsTyped /\ [SeatsNext]_seatVars => SeatsTyped'
  BY SeatsTypedNext
<1> QED
  BY <1>1, <1>2, <1>3, SeatsTypedInit, PTL DEF SeatsSpec, SessionsAreLeases

-----------------------------------------------------------------------------
(* Types.                                                                  *)

PageRecord ==
  [tab : Subsections \cup {"own", "none", "editor"}, view : {"text", "table"}, set : PriceSets,
   hidden : SUBSET {"base", "editor"}, beats : BOOLEAN]

AskRecord ==
  [by : {"gate", "free", "table", "again", "set", "beat", "leave", "gone"}, want : SUBSET Subsections,
   current : BOOLEAN, at : {"sent", "answered"}, granted : BOOLEAN]

\* A call is granted by its answer, and one that gives the seats up always is.
SoundAsk ==
  {a \in AskRecord : /\ a.at = "sent" => ~a.granted
                     /\ a.at = "answered" /\ a.want = {} => a.granted
                     /\ a.by = "free" => a.want = {}}

Current(a) == a.by = "gate" /\ a.current
Queued(p) == 1..Len(asks[p])
OneGate(p) == \A i, j \in Queued(p) : Current(asks[p][i]) /\ Current(asks[p][j]) => i = j

PagesTyped ==
  /\ page \in [Pages -> PageRecord]
  /\ asks \in [Pages -> Seq(SoundAsk)]
  /\ pulse \subseteq Pages

TypeInv == SeatsTyped /\ PagesTyped /\ \A p \in Pages : OneGate(p)

LEMMA NeedsTyped ==
  ASSUME NEW pg \in PageRecord
  PROVE  Needs(pg) \subseteq Subsections
BY DEF Needs, Where, PageRecord, Subsections

LEMMA AskTyped ==
  ASSUME NEW by \in {"gate", "table", "again", "set", "beat", "leave", "gone"}, NEW want \in SUBSET Subsections
  PROVE  Ask(by, want) \in SoundAsk /\ Ask("free", {}) \in SoundAsk
BY DEF Ask, SoundAsk, AskRecord

\* What is made of a call in flight.
LEMMA AskStaysTyped ==
  ASSUME NEW a \in SoundAsk
  PROVE  /\ [a EXCEPT !.current = FALSE] \in SoundAsk
         /\ [a EXCEPT !.by = "gone"] \in SoundAsk
         /\ a.want # {} => [a EXCEPT !.at = "answered", !.granted = FALSE] \in SoundAsk
         /\ \A granted \in BOOLEAN : (a.want = {} => granted)
              => [a EXCEPT !.at = "answered", !.granted = granted] \in SoundAsk
BY DEF SoundAsk, AskRecord

\* One of the calls of a queue is changed, or every one of them.
LEMMA QueueTyped ==
  ASSUME NEW S, NEW q \in Seq(S), NEW r, DOMAIN r = 1..Len(q), r \in [1..Len(q) -> S]
  PROVE  r \in Seq(S) /\ Len(r) = Len(q)
<1>1. Len(q) \in Nat
  BY LenProperties
<1>2. r \in Seq(S)
  BY <1>1, SeqDef
<1>3. DOMAIN r = 1..Len(r) /\ Len(r) \in Nat
  BY <1>2, LenProperties
<1> QED
  BY <1>1, <1>2, <1>3

LEMMA RemoveAtIs ==
  ASSUME NEW S, NEW q \in Seq(S), NEW i \in 1..Len(q)
  PROVE  /\ RemoveAt(q, i) \in Seq(S) /\ Len(RemoveAt(q, i)) = Len(q) - 1
         /\ \A j \in 1..Len(q) - 1 : RemoveAt(q, i)[j] = IF j < i THEN q[j] ELSE q[j + 1]
<1>1. Len(q) \in Nat /\ \A j \in 1..Len(q) : q[j] \in S
  BY LenProperties, ElementOfSeq
<1>2. /\ SubSeq(q, 1, i - 1) \in Seq(S) /\ Len(SubSeq(q, 1, i - 1)) = i - 1
      /\ \A j \in 1..i - 1 : SubSeq(q, 1, i - 1)[j] = q[j]
  <2>1. \A j \in 1..i - 1 : q[j] \in S
    BY <1>1
  <2>2. /\ SubSeq(q, 1, i - 1) \in Seq(S)
        /\ Len(SubSeq(q, 1, i - 1)) = IF 1 <= i - 1 THEN (i - 1) - 1 + 1 ELSE 0
        /\ \A j \in 1..(i - 1) - 1 + 1 : SubSeq(q, 1, i - 1)[j] = q[1 + j - 1]
    BY <2>1, <1>1, SubSeqProperties
  <2> QED
    BY <2>2, <1>1
<1>3. /\ SubSeq(q, i + 1, Len(q)) \in Seq(S) /\ Len(SubSeq(q, i + 1, Len(q))) = Len(q) - i
      /\ \A j \in 1..Len(q) - i : SubSeq(q, i + 1, Len(q))[j] = q[i + j]
  <2>1. \A j \in i + 1..Len(q) : q[j] \in S
    BY <1>1
  <2>2. /\ SubSeq(q, i + 1, Len(q)) \in Seq(S)
        /\ Len(SubSeq(q, i + 1, Len(q))) = IF i + 1 <= Len(q) THEN Len(q) - (i + 1) + 1 ELSE 0
        /\ \A j \in 1..Len(q) - (i + 1) + 1 : SubSeq(q, i + 1, Len(q))[j] = q[i + 1 + j - 1]
    BY <2>1, <1>1, SubSeqProperties
  <2> QED
    BY <2>2, <1>1
<1>4. /\ RemoveAt(q, i) \in Seq(S) /\ Len(RemoveAt(q, i)) = (i - 1) + (Len(q) - i)
      /\ \A j \in 1..(i - 1) + (Len(q) - i) :
           RemoveAt(q, i)[j] = IF j <= i - 1 THEN SubSeq(q, 1, i - 1)[j] ELSE SubSeq(q, i + 1, Len(q))[j - (i - 1)]
  <2> DEFINE before == SubSeq(q, 1, i - 1)
             after == SubSeq(q, i + 1, Len(q))
  <2>1. RemoveAt(q, i) = before \o after
    BY DEF RemoveAt
  <2>2. before \in Seq(S) /\ after \in Seq(S) /\ Len(before) = i - 1 /\ Len(after) = Len(q) - i
    BY <1>2, <1>3
  <2> HIDE DEF before, after
  <2>3. /\ before \o after \in Seq(S) /\ Len(before \o after) = Len(before) + Len(after)
        /\ \A j \in 1..Len(before) + Len(after) :
             (before \o after)[j] = IF j <= Len(before) THEN before[j] ELSE after[j - Len(before)]
    BY <2>2, ConcatProperties
  <2> QED
    BY <2>1, <2>2, <2>3 DEF before, after
<1> QED
  BY <1>1, <1>2, <1>3, <1>4

LEMMA HandledTyped ==
  ASSUME TypeInv, NEW p \in Pages, NEW i \in Queued(p), NEW granted \in BOOLEAN,
         asks[p][i].want = {} => granted,
         asks' = [asks EXCEPT ![p][i].at = "answered", ![p][i].granted = granted]
  PROVE  /\ asks' \in [Pages -> Seq(SoundAsk)]
         /\ asks'[p] \in Seq(SoundAsk) /\ Len(asks'[p]) = Len(asks[p])
         /\ asks'[p] = [asks[p] EXCEPT ![i] = [asks[p][i] EXCEPT !.at = "answered", !.granted = granted]]
<1> DEFINE a == [asks[p][i] EXCEPT !.at = "answered", !.granted = granted]
<1>1. asks[p] \in Seq(SoundAsk)
  BY DEF TypeInv, PagesTyped
<1>2. asks[p][i] \in SoundAsk
  BY <1>1, ElementOfSeq DEF Queued
<1>3. a \in SoundAsk
  BY <1>2, AskStaysTyped
<1>4. asks' = [asks EXCEPT ![p] = [asks[p] EXCEPT ![i] = a]]
  BY DEF TypeInv, PagesTyped
<1>5. [asks[p] EXCEPT ![i] = a] \in Seq(SoundAsk) /\ Len([asks[p] EXCEPT ![i] = a]) = Len(asks[p])
  BY <1>1, <1>3, ExceptSeq DEF Queued
<1> QED
  BY <1>4, <1>5 DEF TypeInv, PagesTyped

\* A call is added at the end of the queue of p, whose other calls become those of q.
LEMMA AddedTyped ==
  ASSUME TypeInv, NEW p \in Pages, NEW a \in SoundAsk, NEW q \in [Queued(p) -> SoundAsk],
         asks' = [asks EXCEPT ![p] = Append(q, a)]
  PROVE  /\ asks' \in [Pages -> Seq(SoundAsk)]
         /\ Len(asks[p]) \in Nat /\ Len(asks'[p]) = Len(asks[p]) + 1
         /\ \A i \in Queued(p) : asks'[p][i] = q[i]
         /\ asks'[p][Len(asks[p]) + 1] = a
<1>1. asks[p] \in Seq(SoundAsk)
  BY DEF TypeInv, PagesTyped
<1>2. q \in Seq(SoundAsk) /\ Len(q) = Len(asks[p])
  BY <1>1, QueueTyped DEF Queued
<1>3. asks'[p] = Append(q, a)
  BY DEF TypeInv, PagesTyped
<1> QED
  BY <1>2, <1>3, LenProperties DEF TypeInv, PagesTyped, Queued

LEMMA AskedTyped ==
  ASSUME TypeInv, NEW p \in Pages, NEW by \in {"table", "again", "set", "beat", "leave"},
         NEW want \in SUBSET Subsections, Asks(p, by, want)
  PROVE  /\ asks' \in [Pages -> Seq(SoundAsk)]
         /\ Len(asks[p]) \in Nat /\ Len(asks'[p]) = Len(asks[p]) + 1
         /\ \A i \in Queued(p) : asks'[p][i] = asks[p][i]
         /\ asks'[p][Len(asks[p]) + 1] = Ask(by, want)
<1>1. asks[p] \in Seq(SoundAsk)
  BY DEF TypeInv, PagesTyped
<1>2. asks[p] \in [Queued(p) -> SoundAsk]
  BY <1>1, LenProperties DEF Queued
<1>3. asks' = [asks EXCEPT ![p] = Append(asks[p], Ask(by, want))]
  BY DEF Asks
<1>4. Ask(by, want) \in SoundAsk
  BY AskTyped
<1> QED
  BY <1>2, <1>3, <1>4, AddedTyped

Marked(p, field) == [i \in Queued(p) |-> IF field = "by" THEN [asks[p][i] EXCEPT !.by = "gone"]
                                         ELSE [asks[p][i] EXCEPT !.current = FALSE]]

LEMMA MarkedTyped ==
  ASSUME TypeInv, NEW p \in Pages, NEW field
  PROVE  Marked(p, field) \in [Queued(p) -> SoundAsk]
<1>1. \A i \in Queued(p) : asks[p][i] \in SoundAsk
  BY ElementOfSeq DEF TypeInv, PagesTyped, Queued
<1> QED
  BY <1>1, AskStaysTyped DEF Marked

LEMMA GatedTyped ==
  ASSUME TypeInv, NEW p \in Pages, NEW there \in PageRecord, Gate(p, there)
  PROVE  /\ asks' \in [Pages -> Seq(SoundAsk)]
         /\ Len(asks[p]) \in Nat /\ Len(asks'[p]) = Len(asks[p]) + 1
         /\ \A i \in Queued(p) : asks'[p][i] = [asks[p][i] EXCEPT !.current = FALSE]
         /\ asks'[p][Len(asks[p]) + 1] = Ask(IF Needs(there) = {} THEN "free" ELSE "gate", Needs(there))
<1>1. Marked(p, "current") = [i \in 1..Len(asks[p]) |-> [asks[p][i] EXCEPT !.current = FALSE]]
  BY DEF Marked, Queued
<1>2. asks' = [asks EXCEPT ![p] = Append(Marked(p, "current"),
                                         Ask(IF Needs(there) = {} THEN "free" ELSE "gate", Needs(there)))]
  BY <1>1 DEF Gate
<1>3. Needs(there) \in SUBSET Subsections
  BY NeedsTyped
<1>4. \A i \in Queued(p) : Marked(p, "current")[i] = [asks[p][i] EXCEPT !.current = FALSE]
  BY DEF Marked
<1>5. Ask(IF Needs(there) = {} THEN "free" ELSE "gate", Needs(there)) \in SoundAsk
  BY <1>3, AskTyped
<1> QED
  BY <1>2, <1>4, <1>5, MarkedTyped, AddedTyped

LEMMA ReloadedTyped ==
  ASSUME TypeInv, NEW p \in Pages, Reload(p)
  PROVE  /\ asks' \in [Pages -> Seq(SoundAsk)]
         /\ Len(asks[p]) \in Nat /\ Len(asks'[p]) = Len(asks[p]) + 1
         /\ \A i \in Queued(p) : asks'[p][i] = [asks[p][i] EXCEPT !.by = "gone"]
         /\ asks'[p][Len(asks[p]) + 1] = Ask("gone", {})
<1>1. Marked(p, "by") = [i \in 1..Len(asks[p]) |-> [asks[p][i] EXCEPT !.by = "gone"]]
  BY DEF Marked, Queued
<1>2. asks' = [asks EXCEPT ![p] = Append(Marked(p, "by"), Ask("gone", {}))]
  BY <1>1 DEF Reload
<1>3. \A i \in Queued(p) : Marked(p, "by")[i] = [asks[p][i] EXCEPT !.by = "gone"]
  BY DEF Marked
<1>4. Ask("gone", {}) \in SoundAsk /\ Marked(p, "by") \in [Queued(p) -> SoundAsk]
  BY AskTyped, MarkedTyped
<1>5. PICK q \in [Queued(p) -> SoundAsk], a \in SoundAsk : q = Marked(p, "by") /\ a = Ask("gone", {})
  BY <1>4
<1>6. asks' = [asks EXCEPT ![p] = Append(q, a)]
  BY <1>2, <1>5
<1>7. /\ asks' \in [Pages -> Seq(SoundAsk)]
      /\ Len(asks[p]) \in Nat /\ Len(asks'[p]) = Len(asks[p]) + 1
      /\ \A i \in Queued(p) : asks'[p][i] = q[i]
      /\ asks'[p][Len(asks[p]) + 1] = a
  BY <1>6, AddedTyped
<1>8. \A i \in Queued(p) : asks'[p][i] = [asks[p][i] EXCEPT !.by = "gone"]
  BY <1>3, <1>5, <1>7
<1> QED
  BY <1>5, <1>7, <1>8

LEMMA AnsweredTyped ==
  ASSUME TypeInv, NEW p \in Pages, NEW i \in Queued(p), asks' = [asks EXCEPT ![p] = RemoveAt(asks[p], i)]
  PROVE  /\ asks' \in [Pages -> Seq(SoundAsk)]
         /\ Len(asks[p]) \in Nat /\ Len(asks'[p]) = Len(asks[p]) - 1
         /\ \A j \in 1..Len(asks[p]) - 1 : asks'[p][j] = IF j < i THEN asks[p][j] ELSE asks[p][j + 1]
<1>1. asks[p] \in Seq(SoundAsk) /\ asks'[p] = RemoveAt(asks[p], i)
  BY DEF TypeInv, PagesTyped
<1> QED
  BY <1>1, RemoveAtIs, LenProperties DEF TypeInv, PagesTyped, Queued

\* What is made of a page.
LEMMA PageTyped ==
  ASSUME NEW pg \in PageRecord
  PROVE  /\ \A on \in BOOLEAN : Beating(pg, on) \in PageRecord
         /\ \A section : Shows(pg, section) \in PageRecord
         /\ Hides(pg, "editor") \in PageRecord /\ Hides(pg, Section(Where(pg))) \in PageRecord
BY DEF PageRecord, Beating, Shows, Hides, Section

LEMMA AfterTyped ==
  ASSUME NEW pg \in PageRecord, NEW a \in SoundAsk
  PROVE  After(pg, a) \in PageRecord
<1>1. Passed(pg, a) \in PageRecord
  BY PageTyped DEF Passed
<1>2. [pg EXCEPT !.view = "text"] \in PageRecord
  BY DEF PageRecord
<1>3. Beating(Shows(pg, "editor"), TRUE) \in PageRecord
  BY PageTyped
<1> QED
  BY <1>1, <1>2, <1>3, PageTyped DEF After

LEMMA TypeInit == SeatsInit => TypeInv
<1> SUFFICES ASSUME SeatsInit PROVE TypeInv
  OBVIOUS
<1>1. page \in [Pages -> PageRecord]
  BY DEF SeatsInit, PageRecord
<1>2. asks \in [Pages -> Seq(SoundAsk)] /\ \A p \in Pages : Len(asks[p]) = 0
  BY EmptySeq DEF SeatsInit
<1>3. pulse \subseteq Pages
  BY DEF SeatsInit
<1>4. \A p \in Pages : OneGate(p)
  BY <1>2 DEF OneGate, Queued
<1> QED
  BY <1>1, <1>2, <1>3, <1>4, SeatsTypedInit DEF TypeInv, PagesTyped

\* A step of one page leaves the others and their calls as they are.
OthersUntouched(p) == \A q \in Pages : q # p => page'[q] = page[q] /\ asks'[q] = asks[q]

PagesTypedAfter(p) ==
  /\ page' \in [Pages -> PageRecord] /\ asks' \in [Pages -> Seq(SoundAsk)] /\ pulse' \subseteq Pages
  /\ OneGate(p)'
  /\ OthersUntouched(p)

LEMMA CallStepTyped ==
  ASSUME TypeInv, NEW p \in Pages, NEW i \in Queued(p), HandleAsk(p, i) \/ LoseAsk(p, i) \/ SeatsAnswered(p, i)
  PROVE  PagesTypedAfter(p)
<1>1. asks[p] \in Seq(SoundAsk) /\ asks[p][i] \in SoundAsk /\ page[p] \in PageRecord
  BY ElementOfSeq DEF TypeInv, PagesTyped, Queued
<1>2. ASSUME NEW granted \in BOOLEAN, asks[p][i].want = {} => granted, UNCHANGED <<page, pulse>>,
             asks' = [asks EXCEPT ![p][i].at = "answered", ![p][i].granted = granted]
      PROVE  PagesTypedAfter(p)
  <2>1. /\ asks' \in [Pages -> Seq(SoundAsk)] /\ Len(asks'[p]) = Len(asks[p])
        /\ asks'[p] = [asks[p] EXCEPT ![i] = [asks[p][i] EXCEPT !.at = "answered", !.granted = granted]]
    BY <1>2, HandledTyped
  <2>2. asks[p] \in [Queued(p) -> SoundAsk] /\ Queued(p)' = Queued(p)
    BY <1>1, <2>1, LenProperties DEF Queued
  <2>3. \A j \in Queued(p) : Current(asks'[p][j]) => Current(asks[p][j])
    BY <1>1, <2>1, <2>2 DEF Current, SoundAsk, AskRecord
  <2>4. OneGate(p)'
    BY <2>2, <2>3 DEF OneGate, TypeInv
  <2> QED
    BY <1>2, <2>1, <2>4 DEF PagesTypedAfter, OthersUntouched, TypeInv, PagesTyped
<1>3. CASE HandleAsk(p, i)
  <2>1. (Blocked(owner[p], asks[p][i].want) = {}) \in BOOLEAN
    OBVIOUS
  <2>2. asks[p][i].want = {} => Blocked(owner[p], asks[p][i].want) = {}
    BY DEF Blocked
  <2> QED
    BY <1>2, <1>3, <2>1, <2>2 DEF HandleAsk
<1>4. CASE LoseAsk(p, i)
  BY <1>2, <1>4 DEF LoseAsk
<1>5. CASE SeatsAnswered(p, i)
  <2>1. asks' = [asks EXCEPT ![p] = RemoveAt(asks[p], i)]
    BY <1>5 DEF SeatsAnswered
  <2>2. /\ asks' \in [Pages -> Seq(SoundAsk)]
        /\ Len(asks[p]) \in Nat /\ Len(asks'[p]) = Len(asks[p]) - 1
        /\ \A j \in 1..Len(asks[p]) - 1 : asks'[p][j] = IF j < i THEN asks[p][j] ELSE asks[p][j + 1]
    BY <2>1, AnsweredTyped
  <2>3. OneGate(p)'
    <3> DEFINE at(j) == IF j < i THEN j ELSE j + 1
    <3>1. \A j \in Queued(p)' : at(j) \in Queued(p) /\ asks'[p][j] = asks[p][at(j)]
      BY <2>2 DEF Queued
    <3>2. \A j, k \in Queued(p)' : at(j) = at(k) => j = k
      BY <2>2 DEF Queued
    <3> HIDE DEF at
    <3> QED
      BY <3>1, <3>2 DEF OneGate, TypeInv
  <2>4. page' \in [Pages -> PageRecord]
    <3>1. After(page[p], asks[p][i]) \in PageRecord
      BY <1>1, AfterTyped
    <3> QED
      BY <1>5, <3>1 DEF SeatsAnswered, TypeInv, PagesTyped
  <2> QED
    BY <1>5, <2>2, <2>3, <2>4 DEF SeatsAnswered, PagesTypedAfter, OthersUntouched, TypeInv, PagesTyped
<1> QED
  BY <1>3, <1>4, <1>5

\* Of the calls there were none becomes the current gate.
LEMMA OneGateAfter ==
  ASSUME TypeInv, NEW p \in Pages, Len(asks[p]) \in Nat, Len(asks'[p]) = Len(asks[p]) + 1,
         \/ \A i \in Queued(p) : ~Current(asks'[p][i])
         \/ ~Current(asks'[p][Len(asks[p]) + 1]) /\ \A i \in Queued(p) : Current(asks'[p][i]) => Current(asks[p][i])
  PROVE  OneGate(p)'
<1>1. \A i \in Queued(p)' : i \in Queued(p) \/ i = Len(asks[p]) + 1
  BY DEF Queued
<1> QED
  BY <1>1 DEF OneGate, TypeInv

LEMMA GateTyped ==
  ASSUME TypeInv, NEW p \in Pages, NEW there \in PageRecord, Gate(p, there), pulse' = pulse
  PROVE  PagesTypedAfter(p)
<1>1. /\ asks' \in [Pages -> Seq(SoundAsk)]
      /\ Len(asks[p]) \in Nat /\ Len(asks'[p]) = Len(asks[p]) + 1
      /\ \A i \in Queued(p) : asks'[p][i] = [asks[p][i] EXCEPT !.current = FALSE]
  BY GatedTyped
<1>2. \A i \in Queued(p) : asks[p][i] \in SoundAsk
  BY ElementOfSeq DEF TypeInv, PagesTyped, Queued
<1>3. \A i \in Queued(p) : ~Current(asks'[p][i])
  BY <1>1, <1>2 DEF Current, SoundAsk, AskRecord
<1>4. OneGate(p)'
  BY <1>1, <1>3, OneGateAfter
<1>5. page' \in [Pages -> PageRecord]
  BY PageTyped DEF Gate, TypeInv, PagesTyped
<1> QED
  BY <1>1, <1>4, <1>5 DEF PagesTypedAfter, OthersUntouched, Gate, TypeInv, PagesTyped

LEMMA AskingTyped ==
  ASSUME TypeInv, NEW p \in Pages, NEW by \in {"table", "again", "set", "beat", "leave"},
         NEW want \in SUBSET Subsections, Asks(p, by, want),
         NEW there \in PageRecord, page' = [page EXCEPT ![p] = there], pulse' \subseteq pulse
  PROVE  PagesTypedAfter(p)
<1>1. /\ asks' \in [Pages -> Seq(SoundAsk)]
      /\ Len(asks[p]) \in Nat /\ Len(asks'[p]) = Len(asks[p]) + 1
      /\ \A i \in Queued(p) : asks'[p][i] = asks[p][i]
      /\ asks'[p][Len(asks[p]) + 1] = Ask(by, want)
  BY AskedTyped
<1>2. OneGate(p)'
  BY <1>1, OneGateAfter DEF Current, Ask
<1> QED
  BY <1>1, <1>2 DEF PagesTypedAfter, OthersUntouched, TypeInv, PagesTyped, Asks

\* Every step of a page but the answers, and where it leaves the page.
LEMMA UserStepTyped ==
  ASSUME TypeInv, NEW p \in Pages,
         \/ \E tab \in Subsections \cup {"own", "none", "editor"} : Go(p, tab)
         \/ ToLicensedTable(p) \/ BackToText(p) \/ RecalculateTable(p) \/ Beat(p) \/ Reload(p)
         \/ \E set \in PriceSets : ChangePriceSet(p, set)
  PROVE  PagesTypedAfter(p)
<1>1. page[p] \in PageRecord /\ Needs(page[p]) \subseteq Subsections /\ page[p].set \in PriceSets
      /\ page = [page EXCEPT ![p] = page[p]] /\ pulse \ {p} \subseteq pulse
  BY NeedsTyped DEF TypeInv, PagesTyped, PageRecord
<1>2. \A set \in PriceSets : {"gsn", set} \in SUBSET Subsections
  BY DEF Subsections
<1>3. ASSUME NEW tab \in Subsections \cup {"own", "none", "editor"}, Go(p, tab)
      PROVE  PagesTypedAfter(p)
  <2>1. [page[p] EXCEPT !.tab = tab] \in PageRecord
    BY <1>1 DEF PageRecord
  <2> QED
    BY <1>3, <2>1, GateTyped DEF Go
<1>4. CASE ToLicensedTable(p)
  <2>1. [page[p] EXCEPT !.view = "table"] \in PageRecord
    BY <1>1 DEF PageRecord
  <2>2. page' = [page EXCEPT ![p] = [page[p] EXCEPT !.view = "table"]] /\ pulse' = pulse
    BY <1>4 DEF ToLicensedTable
  <2>3. CASE Asks(p, "table", {"gsn", page[p].set})
    BY <1>1, <1>2, <2>1, <2>2, <2>3, AskingTyped
  <2>4. CASE UNCHANGED asks
    BY <2>1, <2>2, <2>4 DEF PagesTypedAfter, OthersUntouched, TypeInv, PagesTyped, OneGate, Queued
  <2> QED
    BY <1>4, <2>3, <2>4 DEF ToLicensedTable
<1>5. CASE BackToText(p)
  <2> DEFINE there == Beating(Shows([page[p] EXCEPT !.view = "text"], "editor"), FALSE)
  <2>1. there \in PageRecord
    <3>1. [page[p] EXCEPT !.view = "text"] \in PageRecord
      BY <1>1 DEF PageRecord
    <3> QED
      BY <3>1, PageTyped
  <2>2. page' = [page EXCEPT ![p] = there] /\ pulse' = pulse /\ Asks(p, "leave", {})
    BY <1>5 DEF BackToText
  <2>3. {} \in SUBSET Subsections /\ pulse' \subseteq pulse
    BY <2>2
  <2> HIDE DEF there
  <2> QED
    BY <2>1, <2>2, <2>3, AskingTyped
<1>6. CASE RecalculateTable(p)
  BY <1>1, <1>6, AskingTyped DEF RecalculateTable
<1>7. CASE Beat(p)
  BY <1>1, <1>7, AskingTyped DEF Beat
<1>8. CASE Reload(p)
  <2>1. /\ asks' \in [Pages -> Seq(SoundAsk)]
        /\ Len(asks[p]) \in Nat /\ Len(asks'[p]) = Len(asks[p]) + 1
        /\ \A i \in Queued(p) : asks'[p][i] = [asks[p][i] EXCEPT !.by = "gone"]
    BY <1>8, ReloadedTyped
  <2>2. \A i \in Queued(p) : asks[p][i] \in SoundAsk
    BY ElementOfSeq DEF TypeInv, PagesTyped, Queued
  <2>3. \A i \in Queued(p) : ~Current(asks'[p][i])
    BY <2>1, <2>2 DEF Current, SoundAsk, AskRecord
  <2>4. OneGate(p)'
    BY <2>1, <2>3, OneGateAfter
  <2>5. [page[p] EXCEPT !.tab = "none", !.view = "text", !.hidden = {}, !.beats = FALSE] \in PageRecord
    BY <1>1 DEF PageRecord
  <2> QED
    BY <1>8, <2>1, <2>4, <2>5 DEF PagesTypedAfter, OthersUntouched, Reload, TypeInv, PagesTyped
<1>9. ASSUME NEW set \in PriceSets, ChangePriceSet(p, set)
      PROVE  PagesTypedAfter(p)
  <2>1. [page[p] EXCEPT !.set = set] \in PageRecord
    BY <1>1 DEF PageRecord
  <2>2. page' = [page EXCEPT ![p] = [page[p] EXCEPT !.set = set]] /\ pulse' = pulse
    BY <1>9 DEF ChangePriceSet
  <2> QED
    BY <1>2, <1>9, <2>1, <2>2, AskingTyped DEF ChangePriceSet
<1> QED
  BY <1>3, <1>4, <1>5, <1>6, <1>7, <1>8, <1>9

LEMMA TypeNext ==
  ASSUME TypeInv, [SeatsNext]_seatVars
  PROVE  TypeInv'
<1>1. SeatsTyped'
  BY SeatsTypedNext DEF TypeInv
<1>2. ASSUME NEW p \in Pages, PagesTypedAfter(p)
      PROVE  TypeInv'
  <2>1. \A q \in Pages : q # p => OneGate(q)'
    BY <1>2 DEF PagesTypedAfter, OthersUntouched, OneGate, Queued, TypeInv
  <2> QED
    BY <1>1, <1>2, <2>1 DEF PagesTypedAfter, TypeInv, PagesTyped
<1>3. CASE SeatTick
  BY <1>1, <1>3 DEF SeatTick, TypeInv, PagesTyped, OneGate, Queued
<1>4. CASE UNCHANGED seatVars
  BY <1>1, <1>4 DEF seatVars, TypeInv, PagesTyped, OneGate, Queued
<1> QED
  BY <1>2, <1>3, <1>4, CallStepTyped, UserStepTyped DEF SeatsNext, Queued

\* Seats, pages and calls have their types, and of the gates a page waits for only the last one
\* counts, however often applyLicenseGate is called before the first of them is answered.
THEOREM LicenseTyped == SeatsSpec => []LicenseTypeOK
<1>1. TypeInv => LicenseTypeOK
  <2> SUFFICES ASSUME TypeInv, NEW p \in Pages
               PROVE  Cardinality({i \in 1..Len(asks[p]) : asks[p][i].by = "gate" /\ asks[p][i].current}) <= 1
    BY DEF LicenseTypeOK, TypeInv, SeatsTyped, PagesTyped, PageRecord
  <2> DEFINE gates == {i \in 1..Len(asks[p]) : asks[p][i].by = "gate" /\ asks[p][i].current}
  <2>1. gates = {i \in Queued(p) : Current(asks[p][i])} /\ \A i, j \in gates : i = j
    BY DEF TypeInv, OneGate, Queued, Current
  <2>2. CASE gates = {}
    BY <2>2, FS_EmptySet
  <2>3. ASSUME NEW i \in gates
        PROVE  Cardinality(gates) <= 1
    <3>1. gates = {i}
      BY <2>1, <2>3
    <3>2. Cardinality({i}) = 1
      BY FS_Singleton
    <3> HIDE DEF gates
    <3> QED
      BY <3>1, <3>2
  <2> QED
    BY <2>2, <2>3
<1> QED
  BY <1>1, TypeInit, TypeNext, PTL DEF SeatsSpec

-----------------------------------------------------------------------------
(* Whoever is shown a licensed section has the seats it needs.              *)

Hidden(p) == Section(Where(page[p])) \in page[p].hidden

\* A call whose answer leaves the page with what it needs, or without what it may not show.
Settler(p, k) ==
  /\ Needs(page[p]) \subseteq asks[p][k].want
  /\ Current(asks[p][k]) \/ (asks[p][k].by \in {"table", "set"} /\ page[p].tab = "editor")

\* A call whose answer starts the heartbeat.
Starter(p, k) ==
  /\ asks[p][k].granted
  /\ Current(asks[p][k]) \/ asks[p][k].by \in {"table", "set", "again"}

\* The server answers the calls in the order they were made.
Orderly(p) ==
  \A i, j \in Queued(p) : i < j /\ asks[p][j].at = "answered" => asks[p][i].at = "answered"

\* A call that would give up what is needed is followed by one that asks for it.
Covered(p) ==
  \A i \in Queued(p) :
    Needs(page[p]) \subseteq asks[p][i].want \/ \E k \in Queued(p) : i < k /\ Settler(p, k)

\* A page that shows a licensed section beats, or will.
KeptUp(p) ==
  ~Hidden(p) => page[p].beats \/ \E k \in Queued(p) : Settler(p, k) \/ Starter(p, k)

Renewing(p) ==
  p \in pulse \/ \E i \in Queued(p) : asks[p][i].at = "sent" /\ asks[p][i].want = Needs(page[p])

\* The page's seats are new, or a tick old and about to be renewed.
Secure(p) ==
  \A s \in Needs(page[p]) :
    seats[owner[p]][s] = 0 \/ (seats[owner[p]][s] = 1 /\ Renewing(p))

\* A page has its seats, or a call not granted yet decides, or it shows nothing.
Seated(p) ==
  \/ Secure(p)
  \/ \E k \in Queued(p) : Settler(p, k) /\ \A j \in Queued(p) : k <= j => ~asks[p][j].granted
  \/ Hidden(p) /\ \A j \in Queued(p) : ~asks[p][j].granted

PageInv(p) == Orderly(p) /\ (Needs(page[p]) # {} => Covered(p) /\ KeptUp(p) /\ Seated(p))

SeatsInv == \A p \in Pages \ excused : PageInv(p)

LEMMA CallsAre ==
  ASSUME TypeInv, NEW p \in Pages
  PROVE  /\ Len(asks[p]) \in Nat /\ page[p] \in PageRecord
         /\ \A i \in Queued(p) : asks[p][i] \in SoundAsk
BY ElementOfSeq, LenProperties DEF TypeInv, PagesTyped, Queued

\* A page that a step leaves alone keeps its seats, unless it becomes excused.
LEMMA LeftAlone ==
  ASSUME NEW p \in Pages, PageInv(p), page'[p] = page[p], asks'[p] = asks[p],
         owner' = owner, p \in pulse => p \in pulse',
         \A s \in Needs(page[p]) : seats[owner[p]][s] \in {0, 1}
                                     => seats'[owner[p]][s] \in {0, seats[owner[p]][s]}
  PROVE  PageInv(p)'
<1>1. Queued(p)' = Queued(p) /\ (Hidden(p)' <=> Hidden(p))
  BY DEF Queued, Hidden
<1>2. \A k : (Settler(p, k)' <=> Settler(p, k)) /\ (Starter(p, k)' <=> Starter(p, k))
  BY DEF Settler, Starter, Current
<1>3. Renewing(p) => Renewing(p)'
  BY <1>1 DEF Renewing
<1>4. Secure(p) => Secure(p)'
  BY <1>3 DEF Secure
<1>5. Orderly(p)'
  BY <1>1 DEF PageInv, Orderly
<1>6. Needs(page[p]) # {} => Covered(p)' /\ KeptUp(p)'
  BY <1>1, <1>2 DEF PageInv, Covered, KeptUp
<1>7. Needs(page[p]) # {} => Seated(p)'
  BY <1>1, <1>2, <1>4 DEF PageInv, Seated
<1> QED
  BY <1>5, <1>6, <1>7 DEF PageInv

-----------------------------------------------------------------------------
(* A page makes a call.                                                     *)

\* One call more, not answered yet.
OneMore(p) ==
  /\ Len(asks'[p]) = Len(asks[p]) + 1
  /\ \A i \in Queued(p) : asks'[p][i].at = asks[p][i].at
  /\ asks'[p][Len(asks[p]) + 1].at = "sent" /\ ~asks'[p][Len(asks[p]) + 1].granted

LEMMA OneMoreQueued ==
  ASSUME TypeInv, NEW p \in Pages, OneMore(p)
  PROVE  /\ Queued(p)' = Queued(p) \cup {Len(asks[p]) + 1}
         /\ \A i \in Queued(p) : i < Len(asks[p]) + 1
BY CallsAre DEF OneMore, Queued

LEMMA OneMoreIsOrderly ==
  ASSUME TypeInv, NEW p \in Pages, Orderly(p), OneMore(p)
  PROVE  Orderly(p)'
<1>1. \A i, j \in Queued(p)' : i < j /\ asks'[p][j].at = "answered" => j \in Queued(p) /\ i \in Queued(p)
  BY OneMoreQueued, CallsAre DEF OneMore, Queued
<1> QED
  BY <1>1 DEF Orderly, OneMore

\* The new call decides.
LEMMA SettlerAdded ==
  ASSUME TypeInv, NEW p \in Pages, Orderly(p), OneMore(p),
         NEW last, last = Len(asks[p]) + 1, Settler(p, last)'
  PROVE  PageInv(p)'
<1>1. last \in Queued(p)' /\ \A i \in Queued(p)' : i \in Queued(p) \/ i = last
  BY OneMoreQueued
<1>2. \A i \in Queued(p) : i < last /\ ~(last <= i)
  BY CallsAre DEF Queued
<1>3. Needs(page[p])' \subseteq asks'[p][last].want /\ ~asks'[p][last].granted /\ Settler(p, last)'
  BY DEF Settler, OneMore
<1>4. Covered(p)'
  BY <1>1, <1>2, <1>3 DEF Covered
<1>5. KeptUp(p)'
  BY <1>1, <1>3 DEF KeptUp
<1>6. Seated(p)'
  BY <1>1, <1>2, <1>3 DEF Seated
<1> QED
  BY <1>4, <1>5, <1>6, OneMoreIsOrderly DEF PageInv

\* A call for what the page needs.
LEMMA NeedsAsked ==
  ASSUME TypeInv, NEW p \in Pages, PageInv(p), OneMore(p), page' = page, UNCHANGED <<owner, seats>>,
         \A i \in Queued(p) : asks'[p][i] = asks[p][i],
         NEW last, last = Len(asks[p]) + 1, asks'[p][last].want = Needs(page[p])
  PROVE  PageInv(p)'
<1>1. Queued(p)' = Queued(p) \cup {last} /\ \A i \in Queued(p) : i < last
  BY OneMoreQueued
<1>2. asks'[p][last].at = "sent" /\ asks'[p][last].want = Needs(page[p]) /\ ~asks'[p][last].granted
  BY DEF OneMore
<1>3. \A k \in Queued(p) : (Settler(p, k)' <=> Settler(p, k)) /\ (Starter(p, k)' <=> Starter(p, k))
  BY DEF Settler, Starter, Current
<1>4. Secure(p) => Secure(p)'
  <2>1. Renewing(p)'
    BY <1>1, <1>2 DEF Renewing
  <2> QED
    BY <2>1 DEF Secure
<1>5. Hidden(p)' <=> Hidden(p)
  BY DEF Hidden
<1>6. Needs(page[p]) # {} => Covered(p)'
  BY <1>1, <1>2, <1>3 DEF PageInv, Covered
<1>7. Needs(page[p]) # {} => KeptUp(p)'
  BY <1>1, <1>3, <1>5 DEF PageInv, KeptUp
<1>8. Needs(page[p]) # {} => Seated(p)'
  BY <1>1, <1>2, <1>3, <1>4, <1>5 DEF PageInv, Seated
<1> QED
  BY <1>6, <1>7, <1>8, OneMoreIsOrderly DEF PageInv

\* A page that needs no seats has only its calls to keep in order.
LEMMA NothingNeeded ==
  ASSUME TypeInv, NEW p \in Pages, Orderly(p), OneMore(p), Needs(page[p])' = {}
  PROVE  PageInv(p)'
BY OneMoreIsOrderly DEF PageInv

LEMMA GoKeeps ==
  ASSUME TypeInv, NEW p \in Pages, PageInv(p), NEW tab \in Subsections \cup {"own", "none", "editor"}, Go(p, tab)
  PROVE  PageInv(p)'
<1> DEFINE there == [page[p] EXCEPT !.tab = tab]
<1>1. there \in PageRecord /\ Gate(p, there)
  BY CallsAre DEF Go, PageRecord
<1> HIDE DEF there
<1>2. PICK last : last = Len(asks[p]) + 1
  OBVIOUS
<1>3. /\ Len(asks'[p]) = Len(asks[p]) + 1
      /\ \A i \in Queued(p) : asks'[p][i] = [asks[p][i] EXCEPT !.current = FALSE]
      /\ asks'[p][last] = Ask(IF Needs(there) = {} THEN "free" ELSE "gate", Needs(there))
  BY <1>1, <1>2, GatedTyped
<1>4. \A i \in Queued(p) : asks'[p][i].at = asks[p][i].at
  BY <1>3, CallsAre DEF SoundAsk, AskRecord
<1>5. OneMore(p)
  BY <1>2, <1>3, <1>4 DEF OneMore, Ask
<1>6. page'[p] = IF Needs(there) = {} THEN Beating(there, FALSE) ELSE there
  BY <1>1 DEF Gate, TypeInv, PagesTyped
<1>7. CASE Needs(there) = {}
  <2>1. Needs(Beating(there, FALSE)) = {}
    BY <1>1, <1>7 DEF Needs, Where, Beating, PageRecord
  <2> QED
    BY <1>5, <1>6, <1>7, <2>1, NothingNeeded DEF PageInv
<1>8. CASE Needs(there) # {}
  <2>1. page'[p] = there /\ asks'[p][last] = Ask("gate", Needs(there))
    BY <1>3, <1>6, <1>8
  <2>2. Current(Ask("gate", Needs(there))) /\ Ask("gate", Needs(there)).want = Needs(there)
    BY DEF Current, Ask
  <2>3. Settler(p, last)'
    BY <2>1, <2>2 DEF Settler
  <2> QED
    BY <1>2, <1>5, <2>3, SettlerAdded DEF PageInv
<1> QED
  BY <1>7, <1>8

LEMMA AskedIsOneMore ==
  ASSUME TypeInv, NEW p \in Pages, NEW by \in {"table", "again", "set", "beat", "leave"},
         NEW want \in SUBSET Subsections, Asks(p, by, want), NEW last, last = Len(asks[p]) + 1
  PROVE  /\ OneMore(p)
         /\ \A i \in Queued(p) : asks'[p][i] = asks[p][i]
         /\ asks'[p][last] = Ask(by, want)
BY AskedTyped DEF OneMore, Ask

LEMMA UserStepKeepsPage ==
  ASSUME TypeInv, NEW p \in Pages, PageInv(p), p \notin excused',
         \/ \E tab \in Subsections \cup {"own", "none", "editor"} : Go(p, tab)
         \/ ToLicensedTable(p) \/ BackToText(p) \/ RecalculateTable(p) \/ Beat(p) \/ Reload(p)
         \/ \E set \in PriceSets : ChangePriceSet(p, set)
  PROVE  PageInv(p)'
<1>1. /\ page[p] \in PageRecord /\ page[p].set \in PriceSets /\ Needs(page[p]) \in SUBSET Subsections
      /\ \A set \in PriceSets : {"gsn", set} \in SUBSET Subsections
  BY CallsAre, NeedsTyped DEF PageRecord, Subsections
<1>2. PICK last : last = Len(asks[p]) + 1
  OBVIOUS
<1>3. CASE ToLicensedTable(p)
  <2>1. Asks(p, "table", {"gsn", page[p].set})
    BY <1>3 DEF ToLicensedTable
  <2>2. OneMore(p) /\ asks'[p][last] = Ask("table", {"gsn", page[p].set})
    BY <1>1, <1>2, <2>1, AskedIsOneMore
  <2>3. page'[p] = [page[p] EXCEPT !.view = "table"]
    BY <1>3 DEF ToLicensedTable, TypeInv, PagesTyped
  <2>4. page[p].tab = "editor"
    BY <1>1, <1>3, PriceSetsAssumption DEF ToLicensedTable, InEditor, Where, PageRecord, Subsections
  <2>5. Needs(page'[p]) = {"gsn", page[p].set} /\ page'[p].tab = "editor"
    BY <1>1, <2>3, <2>4, PriceSetsAssumption DEF Needs, Where, PageRecord, Subsections
  <2>6. Settler(p, last)'
    BY <2>2, <2>5 DEF Settler, Ask
  <2> QED
    BY <1>2, <2>2, <2>6, SettlerAdded DEF PageInv
<1>4. CASE BackToText(p)
  <2>1. OneMore(p)
    BY <1>2, <1>4, AskedIsOneMore DEF BackToText
  <2>2. page'[p] = Beating(Shows([page[p] EXCEPT !.view = "text"], "editor"), FALSE)
    BY <1>4 DEF BackToText, TypeInv, PagesTyped
  <2>3. page[p].tab = "editor"
    BY <1>1, <1>4, PriceSetsAssumption DEF BackToText, InEditor, Where, PageRecord, Subsections
  <2>4. Needs(page'[p]) = {}
    BY <1>1, <2>2, <2>3, PriceSetsAssumption DEF Beating, Shows, Needs, Where, PageRecord, Subsections
  <2> QED
    BY <2>1, <2>4, NothingNeeded DEF PageInv
<1>5. ASSUME NEW by \in {"again", "beat"}, Asks(p, by, Needs(page[p])), UNCHANGED <<owner, seats, page>>
      PROVE  PageInv(p)'
  <2>1. /\ OneMore(p) /\ \A i \in Queued(p) : asks'[p][i] = asks[p][i]
        /\ asks'[p][last] = Ask(by, Needs(page[p]))
    BY <1>1, <1>2, <1>5, AskedIsOneMore
  <2>2. asks'[p][last].want = Needs(page[p])
    BY <2>1 DEF Ask
  <2> QED
    BY <1>2, <1>5, <2>1, <2>2, NeedsAsked
<1>6. CASE RecalculateTable(p) \/ Beat(p)
  BY <1>5, <1>6 DEF RecalculateTable, Beat
<1>7. CASE Reload(p)
  <2>1. /\ Len(asks'[p]) = Len(asks[p]) + 1
        /\ \A i \in Queued(p) : asks'[p][i] = [asks[p][i] EXCEPT !.by = "gone"]
        /\ asks'[p][last] = Ask("gone", {})
    BY <1>2, <1>7, ReloadedTyped
  <2>2. ASSUME NEW i \in Queued(p)
        PROVE  asks'[p][i].at = asks[p][i].at
    <3>1. asks[p][i] \in SoundAsk
      BY CallsAre
    <3>2. [asks[p][i] EXCEPT !.by = "gone"].at = asks[p][i].at
      BY <3>1 DEF SoundAsk, AskRecord
    <3> QED
      BY <2>1, <3>2
  <2>3. OneMore(p)
    BY <1>2, <2>1, <2>2 DEF OneMore, Ask
  <2>4. page'[p].tab = "none"
    BY <1>1, <1>7 DEF Reload, PageRecord, TypeInv, PagesTyped
  <2>5. Needs(page'[p]) = {}
    BY <2>4, PriceSetsAssumption DEF Needs, Where, Subsections
  <2> QED
    BY <2>3, <2>5, NothingNeeded DEF PageInv
<1>8. ASSUME NEW set \in PriceSets, ChangePriceSet(p, set)
      PROVE  PageInv(p)'
  <2>1. OneMore(p) /\ asks'[p][last] = Ask("set", {"gsn", set})
    BY <1>1, <1>2, <1>8, AskedIsOneMore DEF ChangePriceSet
  <2>2. page'[p] = [page[p] EXCEPT !.set = set]
    BY <1>8 DEF ChangePriceSet, TypeInv, PagesTyped
  <2>3. page[p].tab = "editor"
    BY <1>1, <1>8, PriceSetsAssumption DEF ChangePriceSet, InEditor, Where, PageRecord, Subsections
  <2>4. Needs(page'[p]) \subseteq {"gsn", set} /\ page'[p].tab = "editor"
    BY <1>1, <2>2, <2>3, PriceSetsAssumption DEF Needs, Where, PageRecord, Subsections
  <2>5. Settler(p, last)'
    BY <2>1, <2>4 DEF Settler, Ask
  <2> QED
    BY <1>2, <2>1, <2>5, SettlerAdded DEF PageInv
<1> QED
  BY <1>3, <1>4, <1>6, <1>7, <1>8, GoKeeps

-----------------------------------------------------------------------------
(* A page has the answer to its first call.                                 *)

\* What an answer can make of a page that needs seats.
LEMMA AfterIs ==
  ASSUME NEW pg \in PageRecord, NEW a \in SoundAsk, Needs(After(pg, a)) # {}
  PROVE  /\ Needs(After(pg, a)) = Needs(pg) /\ Where(After(pg, a)) = Where(pg)
         /\ After(pg, a).tab = pg.tab
         /\ Section(Where(pg)) \in {"base", "editor"} /\ (Section(Where(pg)) = "editor" => pg.tab = "editor")
<1>1. /\ After(pg, a).tab = pg.tab /\ After(pg, a).set = pg.set
      /\ After(pg, a).view = pg.view \/ After(pg, a).view = "text"
  BY DEF After, Passed, Shows, Hides, Beating, PageRecord
<1>2. CASE pg.tab = "editor"
  <2>1. After(pg, a).view = "table" /\ pg.view = "table"
    BY <1>1, <1>2, PriceSetsAssumption DEF Needs, Where, PageRecord, Subsections
  <2> QED
    BY <1>1, <1>2, <2>1, PriceSetsAssumption DEF Needs, Where, Section
<1>3. CASE pg.tab # "editor"
  BY <1>1, <1>3, PriceSetsAssumption DEF Needs, Where, Section, PageRecord, Subsections
<1> QED
  BY <1>2, <1>3

\* A section is shown only by a call that is granted or needs nothing ...
LEMMA AfterShows ==
  ASSUME NEW pg \in PageRecord, NEW a \in SoundAsk, a.at = "answered", ~a.granted,
         NEW section \in {"base", "editor"}, section \in pg.hidden
  PROVE  section \in After(pg, a).hidden
<1>1. a.by # "free"
  BY DEF SoundAsk
<1> QED
  BY <1>1 DEF After, Passed, Shows, Hides, Beating, PageRecord

\* ... and is hidden by a call that decides and is not granted.
LEMMA AfterHides ==
  ASSUME NEW pg \in PageRecord, NEW a \in SoundAsk, Needs(After(pg, a)) # {}, ~a.granted,
         Current(a) \/ (a.by \in {"table", "set"} /\ pg.tab = "editor")
  PROVE  Section(Where(pg)) \in After(pg, a).hidden
<1>1. CASE Current(a)
  <2>1. After(pg, a) = Beating(Hides(pg, Section(Where(pg))), FALSE)
    BY <1>1 DEF Current, After, Passed
  <2> QED
    BY <2>1, AfterIs DEF Beating, Hides, PageRecord
<1>2. CASE a.by = "set" /\ pg.tab = "editor"
  <2>1. After(pg, a) = Hides(pg, "editor")
    BY <1>2 DEF After
  <2>2. Section(Where(pg)) = "editor"
    BY <1>2, PriceSetsAssumption DEF Section, Where, PageRecord, Subsections
  <2> QED
    BY <2>1, <2>2 DEF Hides, PageRecord
<1>3. CASE a.by = "table" /\ pg.tab = "editor"
  <2>1. After(pg, a) = [pg EXCEPT !.view = "text"]
    BY <1>3 DEF After
  <2>2. Needs(After(pg, a)) = {}
    BY <1>3, <2>1, PriceSetsAssumption DEF Needs, Where, PageRecord, Subsections
  <2> QED
    BY <2>2
<1> QED
  BY <1>1, <1>2, <1>3

\* The heartbeat is stopped only where the section is hidden, and started by a granted call.
LEMMA AfterBeats ==
  ASSUME NEW pg \in PageRecord, NEW a \in SoundAsk, Needs(After(pg, a)) # {}
  PROVE  /\ Section(Where(pg)) \notin After(pg, a).hidden /\ pg.beats => After(pg, a).beats
         /\ a.granted /\ (Current(a) \/ a.by \in {"table", "set", "again"}) => After(pg, a).beats
         /\ After(pg, a).beats => pg.beats \/ (a.granted /\ (Current(a) \/ a.by \in {"table", "set", "again"}))
<1>1. CASE Current(a) /\ ~a.granted
  <2>1. After(pg, a) = Beating(Hides(pg, Section(Where(pg))), FALSE)
    BY <1>1 DEF Current, After, Passed
  <2>2. After(pg, a).beats = FALSE /\ Section(Where(pg)) \in After(pg, a).hidden
    BY <2>1, AfterIs DEF Beating, Hides, PageRecord
  <2> QED
    BY <1>1, <2>2
<1>2. CASE a.granted /\ (Current(a) \/ a.by \in {"table", "set", "again"})
  <2>1. After(pg, a).beats = TRUE
    BY <1>2 DEF Current, After, Passed, Shows, Beating, PageRecord
  <2> QED
    BY <1>2, <2>1
<1>3. CASE ~(Current(a) /\ ~a.granted) /\ ~(a.granted /\ (Current(a) \/ a.by \in {"table", "set", "again"}))
  <2>1. After(pg, a).beats = pg.beats
    BY <1>3 DEF Current, After, Passed, Shows, Hides, PageRecord, SoundAsk, AskRecord
  <2> QED
    BY <1>3, <2>1
<1> QED
  BY <1>1, <1>2, <1>3

LEMMA AnswerKeepsPage ==
  ASSUME TypeInv, NEW p \in Pages, PageInv(p), p \notin excused',
         NEW i \in Queued(p), SeatsAnswered(p, i)
  PROVE  PageInv(p)'
<1>1. i = 1 /\ asks[p][1].at = "answered" /\ UNCHANGED <<owner, seats, pulse>>
  BY CallsAre DEF SeatsAnswered, Queued
<1>2. 1 \in Queued(p) /\ asks[p][1] \in SoundAsk /\ page[p] \in PageRecord /\ Len(asks[p]) \in Nat
  BY <1>1, CallsAre
<1>3. Len(asks'[p]) = Len(asks[p]) - 1 /\ \A j \in 1..Len(asks[p]) - 1 : asks'[p][j] = asks[p][j + 1]
  <2>1. asks' = [asks EXCEPT ![p] = RemoveAt(asks[p], 1)]
    BY <1>1 DEF SeatsAnswered
  <2>2. \A j \in 1..Len(asks[p]) - 1 : asks'[p][j] = IF j < 1 THEN asks[p][j] ELSE asks[p][j + 1]
    BY <1>2, <2>1, AnsweredTyped
  <2>3. Len(asks'[p]) = Len(asks[p]) - 1
    BY <1>2, <2>1, AnsweredTyped
  <2>4. \A j \in 1..Len(asks[p]) - 1 : ~(j < 1)
    OBVIOUS
  <2> QED
    BY <2>2, <2>3, <2>4
<1>4. /\ \A j \in Queued(p)' : j + 1 \in Queued(p) /\ asks'[p][j] = asks[p][j + 1] /\ j \in Int
      /\ \A j \in Queued(p) : j # 1 => j - 1 \in Queued(p)' /\ asks'[p][j - 1] = asks[p][j] /\ j \in Int
  BY <1>2, <1>3 DEF Queued
<1>5. page'[p] = After(page[p], asks[p][1])
  BY <1>1 DEF SeatsAnswered, TypeInv, PagesTyped
<1>6. Orderly(p)'
  BY <1>4 DEF PageInv, Orderly
<1>7. CASE Needs(page[p])' = {}
  BY <1>6, <1>7 DEF PageInv
<1>8. CASE Needs(page[p])' # {}
  <2>1. /\ Needs(page'[p]) = Needs(page[p]) /\ page'[p].tab = page[p].tab
        /\ Where(page'[p]) = Where(page[p]) /\ Section(Where(page[p])) \in {"base", "editor"}
    BY <1>2, <1>5, <1>8, AfterIs
  <2>2. \A k \in Queued(p) : k # 1 => /\ Settler(p, k) => Settler(p, k - 1)'
                                      /\ Starter(p, k) => Starter(p, k - 1)'
    BY <1>4, <2>1 DEF Settler, Starter
  <2>3. Secure(p) => Secure(p)'
    <3>1. Renewing(p) => Renewing(p)'
      BY <1>1, <1>4, <2>1 DEF Renewing
    <3> QED
      BY <1>1, <2>1, <3>1 DEF Secure
  <2>4. Covered(p)'
    <3> SUFFICES ASSUME NEW j \in Queued(p)', ~(Needs(page[p])' \subseteq asks'[p][j].want)
                 PROVE  \E k \in Queued(p)' : j < k /\ Settler(p, k)'
      BY DEF Covered
    <3>1. PICK k \in Queued(p) : j + 1 < k /\ Settler(p, k)
      BY <1>4, <1>8, <2>1 DEF PageInv, Covered
    <3>2. k # 1 /\ k - 1 \in Queued(p)' /\ j < k - 1
      BY <1>4, <3>1 DEF Queued
    <3> QED
      BY <2>2, <3>1, <3>2
  <2>5. KeptUp(p)'
    <3> SUFFICES ASSUME Section(Where(page[p])) \notin page'[p].hidden, ~page'[p].beats
                 PROVE  \E k \in Queued(p)' : Settler(p, k)' \/ Starter(p, k)'
      BY <2>1 DEF KeptUp, Hidden
    <3>1. ~page[p].beats /\ ~Starter(p, 1)
      BY <1>2, <1>5, <1>8, AfterBeats DEF Starter
    <3>2. ~Settler(p, 1)
      <4>1. SUFFICES ASSUME Settler(p, 1), ~asks[p][1].granted
                     PROVE  FALSE
        BY <3>1 DEF Settler, Starter
      <4> QED
        BY <1>2, <1>5, <1>8, <4>1, AfterHides DEF Settler
    <3>3. PICK k \in Queued(p) : k # 1 /\ (Settler(p, k) \/ Starter(p, k))
      <4>1. CASE ~Hidden(p)
        BY <1>8, <2>1, <3>1, <3>2, <4>1 DEF PageInv, KeptUp
      <4>2. CASE Hidden(p)
        <5>1. asks[p][1].granted \/ asks[p][1].by = "free"
          BY <1>1, <1>2, <1>5, <2>1, <4>2, AfterShows DEF Hidden
        <5>2. ~(Needs(page[p]) \subseteq asks[p][1].want)
          <6>1. CASE asks[p][1].by = "free"
            BY <1>2, <1>8, <2>1, <6>1 DEF SoundAsk
          <6>2. CASE asks[p][1].by # "free"
            <7>1. Section(Where(page[p])) \in page'[p].hidden
              BY <1>2, <1>5, <3>1, <4>2, <6>2
                 DEF Hidden, Starter, After, Passed, Current, Hides, Shows, Beating, PageRecord, SoundAsk, AskRecord
            <7> QED
              BY <7>1
          <6> QED
            BY <6>1, <6>2
        <5>3. PICK k \in Queued(p) : 1 < k /\ Settler(p, k)
          BY <1>2, <1>8, <2>1, <5>2 DEF PageInv, Covered
        <5> QED
          BY <5>3
      <4> QED
        BY <4>1, <4>2
    <3> QED
      BY <1>4, <2>2, <3>3
  <2>6. Seated(p)'
    <3>1. CASE Secure(p)
      BY <2>3, <3>1 DEF Seated
    <3>2. ASSUME NEW k \in Queued(p), Settler(p, k), \A j \in Queued(p) : k <= j => ~asks[p][j].granted
          PROVE  Seated(p)'
      <4>1. CASE k = 1
        <5>1. \A j \in Queued(p) : ~asks[p][j].granted
          BY <3>2, <4>1 DEF Queued
        <5>2. Hidden(p)'
          BY <1>2, <1>5, <1>8, <2>1, <3>2, <4>1, <5>1, AfterHides DEF Hidden, Settler
        <5> QED
          BY <1>4, <5>1, <5>2 DEF Seated
      <4>2. CASE k # 1
        <5>1. Settler(p, k - 1)' /\ k - 1 \in Queued(p)'
          BY <1>4, <2>2, <3>2, <4>2
        <5>2. ASSUME NEW j \in Queued(p)', k - 1 <= j
              PROVE  ~asks'[p][j].granted
          <6>1. k <= j + 1
            BY <1>4, <5>2
          <6> QED
            BY <1>4, <3>2, <6>1
        <5> QED
          BY <5>1, <5>2 DEF Seated
      <4> QED
        BY <4>1, <4>2
    <3>3. CASE Hidden(p) /\ \A j \in Queued(p) : ~asks[p][j].granted
      <4>1. Hidden(p)'
        BY <1>1, <1>2, <1>5, <2>1, <3>3, AfterShows DEF Hidden
      <4> QED
        BY <1>4, <3>3, <4>1 DEF Seated
    <3> QED
      BY <1>8, <2>1, <3>1, <3>2, <3>3 DEF PageInv, Seated
  <2> QED
    BY <1>6, <2>4, <2>5, <2>6 DEF PageInv
<1> QED
  BY <1>7, <1>8

-----------------------------------------------------------------------------
(* The server handles a call, and time passes.                              *)

\* What a call makes of the seats of its user and of the others.
LEMMA HandledSeats ==
  ASSUME TypeInv, NEW p \in Pages, NEW i \in Queued(p), HandleAsk(p, i)
  PROVE  /\ Blocked(owner[p], asks[p][i].want) = {} =>
              \A s \in Subsections : s \in asks[p][i].want => seats'[owner[p]][s] = 0
         /\ Blocked(owner[p], asks[p][i].want) # {} =>
              \A v \in Accounts, s \in Subsections : seats[v][s] \in {0, 1} => seats'[v][s] = seats[v][s]
         /\ \A v \in Accounts, s \in Subsections :
              v # owner[p] /\ seats[v][s] \in {0, 1} => seats'[v][s] = seats[v][s]
<1>1. owner[p] \in Accounts /\ asks[p][i].want \subseteq Subsections
  BY CallsAre DEF TypeInv, SeatsTyped, SoundAsk, AskRecord
<1>2. \A v \in Accounts, s \in Subsections : seats[v][s] \in {0, 1} => Purged(v, s) = seats[v][s]
  BY SeatTTLAssumption DEF Purged, Active
<1>3. CASE asks[p][i].want = {}
  <2>1. seats' = ReleasedAll(owner[p]) /\ Blocked(owner[p], asks[p][i].want) = {}
    BY <1>3 DEF HandleAsk, Blocked
  <2> QED
    BY <1>1, <1>3, <2>1 DEF ReleasedAll, TypeInv, SeatsTyped
<1>4. CASE asks[p][i].want # {}
  <2>1. seats' = Synced(owner[p], asks[p][i].want)
    BY <1>4 DEF HandleAsk
  <2> QED
    BY <1>1, <1>2, <2>1 DEF Synced
<1> QED
  BY <1>3, <1>4

\* The calls of the page before and after one of them is handled.
LEMMA HandledCalls ==
  ASSUME TypeInv, NEW p \in Pages, NEW i \in Queued(p), HandleAsk(p, i)
  PROVE  /\ Queued(p)' = Queued(p) /\ UNCHANGED <<owner, page, pulse>>
         /\ asks[p][i].at = "sent" /\ ~asks[p][i].granted
         /\ \A j \in Queued(p) : /\ j # i => asks'[p][j] = asks[p][j]
                                 /\ asks'[p][j].by = asks[p][j].by /\ asks'[p][j].want = asks[p][j].want
                                 /\ asks'[p][j].current = asks[p][j].current
         /\ asks'[p][i].at = "answered"
         /\ asks'[p][i].granted = (Blocked(owner[p], asks[p][i].want) = {})
<1> DEFINE granted == Blocked(owner[p], asks[p][i].want) = {}
<1>1. granted \in BOOLEAN /\ (asks[p][i].want = {} => granted)
  BY DEF Blocked
<1>2. asks' = [asks EXCEPT ![p][i].at = "answered", ![p][i].granted = granted] /\ asks[p][i].at = "sent"
  BY DEF HandleAsk
<1> HIDE DEF granted
<1>3. /\ Len(asks'[p]) = Len(asks[p])
      /\ asks'[p] = [asks[p] EXCEPT ![i] = [asks[p][i] EXCEPT !.at = "answered", !.granted = granted]]
  BY <1>1, <1>2, HandledTyped
<1>4. asks[p][i] \in SoundAsk /\ asks[p] \in [Queued(p) -> SoundAsk]
  BY CallsAre, LenProperties DEF TypeInv, PagesTyped, Queued
<1>5. /\ \A j \in Queued(p) : j # i => asks'[p][j] = asks[p][j]
      /\ asks'[p][i] = [asks[p][i] EXCEPT !.at = "answered", !.granted = granted]
  BY <1>3, <1>4
<1>6. /\ asks'[p][i].at = "answered" /\ asks'[p][i].granted = granted
      /\ asks'[p][i].by = asks[p][i].by /\ asks'[p][i].want = asks[p][i].want
      /\ asks'[p][i].current = asks[p][i].current
  BY <1>4, <1>5 DEF SoundAsk, AskRecord
<1>7. UNCHANGED <<owner, page, pulse>> /\ ~asks[p][i].granted
  BY <1>2, <1>4 DEF HandleAsk, SoundAsk
<1> QED
  BY <1>2, <1>3, <1>5, <1>6, <1>7 DEF Queued, granted

LEMMA HandleKeepsPage ==
  ASSUME TypeInv, NEW p \in Pages, NEW i \in Queued(p), HandleAsk(p, i),
         p \notin excused => PageInv(p), p \notin excused'
  PROVE  PageInv(p)'
<1> DEFINE granted == Blocked(owner[p], asks[p][i].want) = {}
<1>1. /\ Queued(p)' = Queued(p) /\ UNCHANGED <<owner, page, pulse>>
      /\ asks[p][i].at = "sent" /\ ~asks[p][i].granted
      /\ \A j \in Queued(p) : /\ j # i => asks'[p][j] = asks[p][j]
                              /\ asks'[p][j].by = asks[p][j].by /\ asks'[p][j].want = asks[p][j].want
                              /\ asks'[p][j].current = asks[p][j].current
      /\ asks'[p][i].at = "answered" /\ asks'[p][i].granted = granted
  BY HandledCalls
<1>2. /\ granted => \A s \in Subsections : s \in asks[p][i].want => seats'[owner[p]][s] = 0
      /\ ~granted => \A v \in Accounts, s \in Subsections : seats[v][s] \in {0, 1} => seats'[v][s] = seats[v][s]
  BY HandledSeats
<1>3. /\ Needs(page[p]) \subseteq Subsections /\ owner[p] \in Accounts
      /\ Len(asks[p]) \in Nat /\ page[p] \in PageRecord
      /\ \A j \in Queued(p) : asks[p][j] \in SoundAsk /\ j \in Int /\ 1 <= j /\ j <= Len(asks[p])
  BY CallsAre, NeedsTyped DEF TypeInv, SeatsTyped, Queued
<1>4. p \notin excused \/ (granted /\ Settled(p, asks[p][i]))
  BY DEF HandleAsk
<1>5. \A j \in 1..(i - 1) : asks[p][j].at # "sent"
  BY DEF HandleAsk
<1> HIDE DEF granted
<1>6. \A k \in Queued(p) : (Settler(p, k)' <=> Settler(p, k)) /\ (Starter(p, k) => Starter(p, k)')
  BY <1>1 DEF Settler, Starter, Current
<1>7. granted /\ Needs(page[p]) \subseteq asks[p][i].want => Secure(p)'
  BY <1>1, <1>2, <1>3 DEF Secure
<1>8. CASE p \notin excused
  <2>1. \A j \in Queued(p) : i <= j => asks[p][j].at = "sent" /\ ~asks[p][j].granted
    BY <1>1, <1>3, <1>8 DEF PageInv, Orderly, SoundAsk, AskRecord
  <2>2. \A j \in Queued(p) : j < i => asks[p][j].at = "answered"
    BY <1>3, <1>5 DEF SoundAsk, AskRecord
  <2>3. Orderly(p)'
    <3> SUFFICES ASSUME NEW j \in Queued(p), NEW k \in Queued(p), j < k, asks'[p][k].at = "answered"
                 PROVE  asks'[p][j].at = "answered"
      BY <1>1 DEF Orderly
    <3>1. k <= i
      BY <1>1, <1>3, <2>1
    <3> QED
      BY <1>1, <1>3, <2>2, <3>1
  <2>4. CASE Needs(page[p]) = {}
    BY <1>1, <2>3, <2>4 DEF PageInv
  <2>5. CASE Needs(page[p]) # {}
    <3>0. Covered(p) /\ KeptUp(p) /\ Seated(p)
      BY <1>8, <2>5 DEF PageInv
    <3>1. Covered(p)'
      BY <1>1, <1>6, <3>0 DEF Covered
    <3>2. KeptUp(p)'
      BY <1>1, <1>6, <3>0 DEF KeptUp, Hidden
    <3>3. Seated(p)'
      <4>1. CASE granted
        <5>1. CASE Needs(page[p]) \subseteq asks[p][i].want
          BY <1>7, <4>1, <5>1 DEF Seated
        <5>2. CASE ~(Needs(page[p]) \subseteq asks[p][i].want)
          <6>1. PICK k \in Queued(p) : i < k /\ Settler(p, k)
            BY <3>0, <5>2 DEF Covered
          <6>2. \A j \in Queued(p) : k <= j => j # i /\ i <= j
            BY <1>3, <6>1
          <6>3. \A j \in Queued(p)' : k <= j => ~asks'[p][j].granted
            BY <1>1, <2>1, <6>2
          <6> QED
            BY <1>1, <1>6, <6>1, <6>3 DEF Seated
        <5> QED
          BY <5>1, <5>2
      <4>2. CASE ~granted
        <5>1. \A j \in Queued(p) : asks'[p][j].granted <=> asks[p][j].granted
          BY <1>1, <4>2
        <5>2. CASE Secure(p)
          <6>1. ASSUME NEW s \in Needs(page[p]), seats[owner[p]][s] # 0
                PROVE  Renewing(p)'
            <7>1. Renewing(p)
              BY <5>2, <6>1 DEF Secure
            <7>2. asks[p][i].want # Needs(page[p])
              <8>1. \A r \in Needs(page[p]) : Active(owner[p], r)
                BY <5>2, SeatTTLAssumption DEF Secure, Active
              <8>2. Blocked(owner[p], Needs(page[p])) = {}
                BY <8>1 DEF Blocked
              <8> QED
                BY <4>2, <8>2 DEF granted
            <7> QED
              BY <1>1, <7>1, <7>2 DEF Renewing
          <6>2. \A s \in Needs(page[p]) : seats'[owner[p]][s] = seats[owner[p]][s]
            BY <1>2, <1>3, <4>2, <5>2 DEF Secure
          <6>3. Secure(p)'
            BY <1>1, <5>2, <6>1, <6>2 DEF Secure
          <6> QED
            BY <6>3 DEF Seated
        <5>3. CASE ~Secure(p)
          BY <1>1, <1>6, <3>0, <5>1, <5>3 DEF Seated, Hidden
        <5> QED
          BY <5>2, <5>3
      <4> QED
        BY <4>1, <4>2
    <3> QED
      BY <2>3, <3>1, <3>2, <3>3 DEF PageInv
  <2> QED
    BY <2>4, <2>5
<1>9. CASE p \in excused
  <2>1. granted /\ Len(asks[p]) = 1 /\ Needs(page[p]) \subseteq asks[p][i].want
    BY <1>4, <1>9 DEF Settled
  <2>2. i = 1 /\ Queued(p) = {1}
    BY <1>3, <2>1 DEF Queued
  <2>3. Orderly(p)'
    BY <1>1, <2>2 DEF Orderly
  <2>4. Covered(p)' /\ Seated(p)'
    BY <1>1, <1>7, <2>1, <2>2 DEF Covered, Seated
  <2>5. Needs(page[p]) # {} => KeptUp(p)'
    <3> SUFFICES ASSUME Needs(page[p]) # {}, ~page[p].beats
                 PROVE  Starter(p, 1)'
      BY <1>1, <2>2 DEF KeptUp
    <3> DEFINE a == [asks[p][i] EXCEPT !.granted = TRUE]
    <3>1. After(page[p], a).beats
      BY <1>4, <1>9 DEF Settled
    <3>2. /\ a.by = asks[p][i].by /\ a.current = asks[p][i].current /\ a.granted = TRUE
          /\ a.by \in {"gate", "free", "table", "again", "set", "beat", "leave", "gone"}
      BY <1>3 DEF SoundAsk, AskRecord
    <3> HIDE DEF a
    <3>3. Current(a) \/ a.by \in {"table", "set", "again"}
      <4> SUFFICES ASSUME ~Current(a), a.by \notin {"table", "set", "again"}
                   PROVE  ~After(page[p], a).beats
        BY <3>1
      <4>1. After(page[p], a).beats = page[p].beats
        BY <1>3, <3>2 DEF Current, After, Passed, Shows, PageRecord
      <4> QED
        BY <4>1
    <3> QED
      BY <1>1, <2>1, <2>2, <3>2, <3>3 DEF Starter, Current
  <2> QED
    BY <1>1, <2>3, <2>4, <2>5 DEF PageInv
<1> QED
  BY <1>8, <1>9

LEMMA TickKeepsPage ==
  ASSUME TypeInv, NEW p \in Pages, PageInv(p), SeatTick, p \notin excused'
  PROVE  PageInv(p)'
<1>1. /\ asks[p] = <<>> /\ UNCHANGED <<owner, page, asks>>
      /\ p \in pulse' <=> page[p].beats
      /\ p \notin pulse \/ ~page[p].beats
  BY DEF SeatTick
<1>2. Queued(p) = {} /\ Queued(p)' = {}
  BY <1>1, EmptySeq DEF Queued
<1>3. Orderly(p)' /\ Covered(p)'
  BY <1>2 DEF Orderly, Covered
<1>4. CASE Needs(page[p]) = {}
  BY <1>1, <1>3, <1>4 DEF PageInv
<1>5. CASE Needs(page[p]) # {} /\ Hidden(p)
  BY <1>1, <1>2, <1>3, <1>5 DEF PageInv, KeptUp, Seated, Hidden
<1>6. CASE Needs(page[p]) # {} /\ ~Hidden(p)
  <2>1. page[p].beats /\ Secure(p)
    BY <1>2, <1>6 DEF PageInv, KeptUp, Seated
  <2>2. \A s \in Needs(page[p]) : seats[owner[p]][s] = 0
    BY <1>1, <1>2, <2>1 DEF Secure, Renewing
  <2>3. owner[p] \in Accounts /\ Needs(page[p]) \subseteq Subsections
    BY CallsAre, NeedsTyped DEF TypeInv, SeatsTyped
  <2>4. \A s \in Needs(page[p]) : seats'[owner[p]][s] = 1
    BY <2>2, <2>3, SeatTTLAssumption DEF SeatTick, Active
  <2>5. Secure(p)' /\ KeptUp(p)'
    BY <1>1, <2>1, <2>4 DEF Secure, Renewing, KeptUp
  <2> QED
    BY <1>3, <2>5 DEF PageInv, Seated
<1> QED
  BY <1>4, <1>5, <1>6

LEMMA SeatsInvInit == SeatsInit => SeatsInv
<1> SUFFICES ASSUME SeatsInit, NEW p \in Pages PROVE PageInv(p)
  BY DEF SeatsInv
<1>1. Queued(p) = {}
  BY EmptySeq DEF SeatsInit, Queued
<1>2. page[p].tab = "none"
  BY DEF SeatsInit
<1>3. Needs(page[p]) = {}
  BY <1>2, PriceSetsAssumption DEF Needs, Where, Subsections
<1> QED
  BY <1>1, <1>3 DEF PageInv, Orderly

LEMMA SeatsInvNext ==
  ASSUME TypeInv, SeatsInv, [SeatsNext]_seatVars
  PROVE  SeatsInv'
<1> SUFFICES ASSUME NEW q \in Pages, q \notin excused'
             PROVE  PageInv(q)'
  BY DEF SeatsInv
<1>1. ASSUME NEW p \in Pages, NEW i \in Queued(p), HandleAsk(p, i)
      PROVE  PageInv(q)'
  <2>1. CASE q = p
    BY <1>1, <2>1, HandleKeepsPage DEF SeatsInv
  <2>2. CASE q # p
    <3>1. q \notin excused /\ page'[q] = page[q] /\ asks'[q] = asks[q] /\ owner' = owner /\ pulse' = pulse
      BY <1>1, <2>2 DEF HandleAsk, TypeInv, PagesTyped
    <3>2. owner[q] = owner[p] /\ Blocked(owner[p], asks[p][i].want) = {} => Needs(page[q]) \subseteq asks[p][i].want
      BY <1>1, <2>2 DEF HandleAsk, Others
    <3>3. Needs(page[q]) \subseteq Subsections /\ owner[q] \in Accounts
      BY CallsAre, NeedsTyped DEF TypeInv, SeatsTyped
    <3>4. \A s \in Needs(page[q]) : seats[owner[q]][s] \in {0, 1}
                                      => seats'[owner[q]][s] \in {0, seats[owner[q]][s]}
      BY <1>1, <3>2, <3>3, HandledSeats
    <3> QED
      BY <3>1, <3>4, LeftAlone DEF SeatsInv
  <2> QED
    BY <2>1, <2>2
<1>2. ASSUME NEW p \in Pages, PagesTypedAfter(p), UNCHANGED <<owner, seats>>, pulse \ {p} \subseteq pulse',
             excused \subseteq excused', p \notin excused' => PageInv(p)'
      PROVE  PageInv(q)'
  <2>1. CASE q = p
    BY <1>2, <2>1
  <2>2. CASE q # p
    <3>1. q \notin excused /\ page'[q] = page[q] /\ asks'[q] = asks[q] /\ (q \in pulse => q \in pulse')
      BY <1>2, <2>2 DEF PagesTypedAfter, OthersUntouched
    <3> QED
      BY <1>2, <3>1, LeftAlone DEF SeatsInv
  <2> QED
    BY <2>1, <2>2
<1>3. ASSUME NEW p \in Pages, NEW i \in Queued(p), LoseAsk(p, i)
      PROVE  PageInv(q)'
  BY <1>2, <1>3, CallStepTyped DEF LoseAsk
<1>4. ASSUME NEW p \in Pages, NEW i \in Queued(p), SeatsAnswered(p, i)
      PROVE  PageInv(q)'
  <2>1. excused \subseteq excused' /\ UNCHANGED <<owner, seats, pulse>>
    BY <1>4 DEF SeatsAnswered
  <2>2. p \notin excused' => PageInv(p)'
    BY <1>4, <2>1, AnswerKeepsPage DEF SeatsInv
  <2> QED
    BY <1>2, <1>4, <2>1, <2>2, CallStepTyped
<1>5. ASSUME NEW p \in Pages,
             \/ \E tab \in Subsections \cup {"own", "none", "editor"} : Go(p, tab)
             \/ ToLicensedTable(p) \/ BackToText(p) \/ RecalculateTable(p) \/ Beat(p) \/ Reload(p)
             \/ \E set \in PriceSets : ChangePriceSet(p, set)
      PROVE  PageInv(q)'
  <2>1. excused \subseteq excused' /\ UNCHANGED <<owner, seats>> /\ pulse \ {p} \subseteq pulse'
    BY <1>5 DEF Go, ToLicensedTable, BackToText, RecalculateTable, Beat, Reload, ChangePriceSet
  <2>2. p \notin excused' => PageInv(p)'
    BY <1>5, <2>1, UserStepKeepsPage DEF SeatsInv
  <2> QED
    BY <1>2, <1>5, <2>1, <2>2, UserStepTyped
<1>6. CASE SeatTick
  <2>1. q \notin excused
    BY <1>6 DEF SeatTick
  <2> QED
    BY <1>6, <2>1, TickKeepsPage DEF SeatsInv
<1>7. CASE UNCHANGED seatVars
  BY <1>7, LeftAlone DEF seatVars, SeatsInv
<1> QED
  BY <1>1, <1>3, <1>4, <1>5, <1>6, <1>7 DEF SeatsNext, Queued

\* Whoever is shown a licensed section and waits for no answer has the seats it needs, but for
\* the accidents the statement names: for every number of users, tabs, licences and calls in
\* flight, applyLicenseGate, the heartbeat and the calls beside the gate keep the seats of
\* license_sessions.go up with what the page shows.
THEOREM ViewersAreSeated == SeatsSpec => []ViewersHaveSeats
<1>1. TypeInv /\ SeatsInv => ViewersHaveSeats
  <2> SUFFICES ASSUME TypeInv, SeatsInv, NEW p \in Pages \ excused, asks[p] = <<>>, ~Hidden(p),
                      NEW s \in Needs(page[p])
               PROVE  Active(owner[p], s)
    BY DEF ViewersHaveSeats, Hidden
  <2>1. Queued(p) = {}
    BY EmptySeq DEF Queued
  <2>2. Secure(p)
    BY <2>1 DEF SeatsInv, PageInv, Seated
  <2> QED
    BY <2>2, SeatTTLAssumption DEF Secure, Active
<1> QED
  BY <1>1, TypeInit, TypeNext, SeatsInvInit, SeatsInvNext, PTL DEF SeatsSpec
=============================================================================
