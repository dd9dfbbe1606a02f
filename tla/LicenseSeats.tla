---------------------------- MODULE LicenseSeats ----------------------------
(***************************************************************************)
(* The licences of a company for the licensed subsections of the base:     *)
(* presence/license_sessions.go on the server, and in every page of        *)
(* web/app.js the gate a change of section goes through, the heartbeat and *)
(* the calls the editor makes beside the gate.                             *)
(***************************************************************************)
EXTENDS Integers, FiniteSetsExt, SequencesExt

CONSTANTS
  Accounts,     \* users of one company
  Pages,        \* browser tabs; a user may have several
  Owners,       \* who may be logged in where
  PriceSets,    \* the subsections of the price sets an estimate can have
  Available,    \* how many licences there are for a subsection
  SeatTTL,      \* licenseSessionTTL in ticks; a tick is LICENSE_SESSION_HEARTBEAT_MS
  MaxMoves,     \* bound: what the users do
  Accidents,    \* what may go wrong
  MaxAccidents  \* bound: how often

ASSUME PriceSetsAssumption == PriceSets \cap {"gsn", "own", "none", "editor", "text", "table"} = {}
ASSUME AccountsAssumption == IsFiniteSet(Accounts)
ASSUME SeatTTLAssumption == SeatTTL \in Nat \ {0}
ASSUME AvailableAssumption == Available \in [PriceSets \cup {"gsn"} -> Nat]
ASSUME OwnersAssumption == Owners \subseteq [Pages -> Accounts]
ASSUME AccidentsAssumption == Accidents \subseteq {"nap", "lost", "overtake", "reload"}

VARIABLES
  owner,    \* who is logged in on a page
  seats,    \* of every user and subsection: ticks since the seat was renewed
  page,     \* where the user is, what is hidden from him, whether the heartbeat is on
  asks,     \* the calls of a page in flight, in the order they were made
  pulse,    \* the heartbeats that have not come since the last tick
  excused,  \* history: pages that lost their seats by accident and have none granted since
  moves, accidents

seatVars == <<owner, seats, page, asks, pulse, excused, moves, accidents>>

Subsections == PriceSets \cup {"gsn"}
Section(where) == CASE where \in PriceSets \cup {"gsn", "own"} -> "base"
                    [] where \in {"text", "table"} -> "editor"
                    [] OTHER -> "none"

Where(pg) == IF pg.tab = "editor" THEN pg.view ELSE pg.tab

\* getRequiredLicenseSubsectionIds
Needs(pg) == CASE Where(pg) \in Subsections -> {Where(pg)}
               [] Where(pg) = "table" -> {"gsn", pg.set}
               [] OTHER -> {}

NoSeat == -1
Active(u, s) == seats[u][s] \in 0 .. SeatTTL

SeatsInit ==
  /\ owner \in Owners
  /\ seats = [u \in Accounts |-> [s \in Subsections |-> NoSeat]]
  /\ page \in [Pages -> [tab : {"none"}, view : {"text"}, set : PriceSets, hidden : {{}}, beats : {FALSE}]]
  /\ asks = [p \in Pages |-> <<>>]
  /\ pulse = {} /\ excused = {} /\ moves = 0 /\ accidents = 0

UserMove == moves < MaxMoves /\ moves' = moves + 1
Accident(kind) == kind \in Accidents /\ accidents < MaxAccidents /\ accidents' = accidents + 1

\* A call names the subsections wanted; one that wants none gives all up.
Ask(by, want) == [by |-> by, want |-> want, current |-> TRUE, at |-> "sent", granted |-> FALSE]
Asks(p, by, want) == asks' = [asks EXCEPT ![p] = Append(@, Ask(by, want))]

Shows(pg, section) == [pg EXCEPT !.hidden = @ \ {section}]
Hides(pg, section) == [pg EXCEPT !.hidden = @ \cup ({section} \ {"none"})]
Beating(pg, on) == [pg EXCEPT !.beats = on]

-----------------------------------------------------------------------------
(* What an answer makes of a page.                                         *)

\* Seeded fault: the heartbeat is not started again.
PassedSilently(pg, a) ==
  IF ~a.current THEN pg
  ELSE IF a.granted THEN Shows(pg, Section(Where(pg)))
  ELSE Beating(Hides(pg, Section(Where(pg))), FALSE)

\* applyLicenseGate once it has its answer; only the last change of section counts.
Passed(pg, a) ==
  IF ~a.current THEN pg
  ELSE IF a.granted THEN Beating(Shows(pg, Section(Where(pg))), TRUE)
  ELSE Beating(Hides(pg, Section(Where(pg))), FALSE)

\* What becomes of a page when the first of its calls is answered. The gate of a section that
\* needs no licence shows the editor, if that is where the user is by now, and never the base;
\* a heartbeat is not looked at; a calculation started by a change to the table goes back to
\* the text; a change of the price set hides the editor, whatever its view.
After(pg, a) ==
  CASE a.by = "gate"  -> Passed(pg, a)
    [] a.by = "free"  -> IF pg.tab = "editor" THEN Shows(pg, "editor") ELSE pg
    [] a.by = "table" -> IF a.granted THEN Beating(Shows(pg, "editor"), TRUE) ELSE [pg EXCEPT !.view = "text"]
    [] a.by = "again" -> IF a.granted THEN Beating(Shows(pg, "editor"), TRUE) ELSE pg
    [] a.by = "set"   -> IF a.granted THEN Beating(Shows(pg, "editor"), TRUE) ELSE Hides(pg, "editor")
    [] OTHER          -> pg

-----------------------------------------------------------------------------
(* The server.                                                             *)

Purged(u, s) == IF Active(u, s) THEN seats[u][s] ELSE NoSeat
Holders(s) == {u \in Accounts : Active(u, s)}

\* Seeded fault: a seat too many is given.
BlockedPastTheLast(u, want) ==
  {s \in want : ~Active(u, s) /\ Cardinality(Holders(s)) > Available[s]}

\* The wanted subsections there is no seat for.
Blocked(u, want) ==
  {s \in want : ~Active(u, s) /\ Cardinality(Holders(s)) >= Available[s]}

\* LicenseSessions.Sync: all that is wanted and nothing else, or what there was, not renewed.
Synced(u, want) ==
  [v \in Accounts |-> [s \in Subsections |->
     IF v # u \/ Blocked(u, want) # {} THEN Purged(v, s) ELSE IF s \in want THEN 0 ELSE NoSeat]]

\* LicenseSessions.ReleaseAll
ReleasedAll(u) == [seats EXCEPT ![u] = [s \in Subsections |-> NoSeat]]

Others(p) == {q \in Pages : q # p /\ owner[q] = owner[p]}

\* History: the page has what it needs by the one call it waits for, and keeps it up.
Settled(p, a) ==
  /\ Len(asks[p]) = 1 /\ Needs(page[p]) \subseteq a.want
  /\ Needs(page[p]) = {} \/ After(page[p], [a EXCEPT !.granted = TRUE]).beats

\* handleLicenseSessions. The seats are the user's: what one page gives up another page of his
\* may still need.
HandleAsk(p, i) ==
  LET a == asks[p][i]
      u == owner[p]
      overtakes == \E j \in 1..(i - 1) : asks[p][j].at = "sent"
      granted == Blocked(u, a.want) = {}
      unseated == IF granted THEN {q \in Others(p) : ~(Needs(page[q]) \subseteq a.want)} ELSE {}
  IN
  /\ a.at = "sent"
  /\ IF overtakes THEN Accident("overtake") ELSE UNCHANGED accidents
  /\ seats' = IF a.want = {} THEN ReleasedAll(u) ELSE Synced(u, a.want)
  /\ asks' = [asks EXCEPT ![p][i].at = "answered", ![p][i].granted = granted]
  /\ excused' = (excused \ (IF granted /\ Settled(p, a) THEN {p} ELSE {}))
                  \cup unseated \cup (IF overtakes THEN {p} ELSE {})
  /\ UNCHANGED <<owner, page, pulse, moves>>

\* The call fails, before or after the server has seen it.
LoseAsk(p, i) ==
  /\ Accident("lost")
  /\ asks[p][i].want # {}
  /\ asks[p][i].at = "sent" \/ asks[p][i].granted
  /\ asks' = [asks EXCEPT ![p][i].at = "answered", ![p][i].granted = FALSE]
  /\ excused' = excused \cup {p}
  /\ UNCHANGED <<owner, seats, page, pulse, moves>>

-----------------------------------------------------------------------------
(* The page.                                                               *)

SeatsAnswered(p, i) ==
  /\ asks[p][i].at = "answered"
  /\ IF i > 1 THEN Accident("overtake") /\ excused' = excused \cup {p} ELSE UNCHANGED <<accidents, excused>>
  /\ page' = [page EXCEPT ![p] = After(@, asks[p][i])]
  /\ asks' = [asks EXCEPT ![p] = RemoveAt(@, i)]
  /\ UNCHANGED <<owner, seats, pulse, moves>>

\* Seeded fault: the gates before this one still count.
GateBeside(p, there) ==
  LET needs == Needs(there)
  IN /\ page' = [page EXCEPT ![p] = IF needs = {} THEN Beating(there, FALSE) ELSE there]
     /\ asks' = [asks EXCEPT ![p] = Append(@, Ask(IF needs = {} THEN "free" ELSE "gate", needs))]

\* renderSections and applyLicenseGate: the gates before this one count no more.
Gate(p, there) ==
  LET outdated == [i \in 1..Len(asks[p]) |-> [asks[p][i] EXCEPT !.current = FALSE]]
      needs == Needs(there)
  IN /\ page' = [page EXCEPT ![p] = IF needs = {} THEN Beating(there, FALSE) ELSE there]
     /\ asks' = [asks EXCEPT ![p] = Append(outdated, Ask(IF needs = {} THEN "free" ELSE "gate", needs))]

\* A click in the navigation.
Go(p, tab) ==
  /\ tab # page[p].tab /\ UserMove
  /\ Gate(p, [page[p] EXCEPT !.tab = tab])
  /\ UNCHANGED <<owner, seats, pulse, excused, accidents>>

InEditor(p, view) == Where(page[p]) = view /\ "editor" \notin page[p].hidden

\* setEstimateViewMode("table"): a licence is asked for only if a line is to be calculated.
ToLicensedTable(p) ==
  /\ InEditor(p, "text") /\ UserMove
  /\ page' = [page EXCEPT ![p].view = "table"]
  /\ \/ Asks(p, "table", {"gsn", page[p].set}) /\ UNCHANGED excused
     \/ UNCHANGED asks /\ excused' = excused \cup {p}
  /\ UNCHANGED <<owner, seats, pulse, accidents>>

\* setEstimateViewMode("text"), once the calculation is cancelled.
BackToText(p) ==
  /\ InEditor(p, "table") /\ UserMove
  /\ page' = [page EXCEPT ![p] = Beating(Shows([@ EXCEPT !.view = "text"], "editor"), FALSE)]
  /\ Asks(p, "leave", {})
  /\ UNCHANGED <<owner, seats, pulse, excused, accidents>>

\* runEstimateTableCalculation of a table that is shown already.
RecalculateTable(p) ==
  /\ InEditor(p, "table") /\ UserMove
  /\ Asks(p, "again", Needs(page[p]))
  /\ UNCHANGED <<owner, seats, page, pulse, excused, accidents>>

\* updateEstimateFgisSet
ChangePriceSet(p, set) ==
  /\ InEditor(p, page[p].view) /\ set # page[p].set /\ UserMove
  /\ page' = [page EXCEPT ![p].set = set]
  /\ Asks(p, "set", {"gsn", set})
  /\ UNCHANGED <<owner, seats, pulse, excused, accidents>>

\* startLicenseSessionSync: the heartbeat asks for what the page needs by now.
Beat(p) ==
  /\ p \in pulse /\ page[p].beats
  /\ Asks(p, "beat", Needs(page[p]))
  /\ pulse' = pulse \ {p}
  /\ UNCHANGED <<owner, seats, page, excused, moves, accidents>>

\* beforeunload gives the seats up, and the page starts anew; nobody waits for its calls.
Reload(p) ==
  /\ Accident("reload")
  /\ page' = [page EXCEPT ![p] = [@ EXCEPT !.tab = "none", !.view = "text", !.hidden = {}, !.beats = FALSE]]
  /\ asks' = [asks EXCEPT ![p] = Append([i \in 1..Len(@) |-> [@[i] EXCEPT !.by = "gone"]], Ask("gone", {}))]
  /\ pulse' = pulse \ {p}
  /\ UNCHANGED <<owner, seats, excused, moves>>

\* A tick passes when every call is answered and every heartbeat has come, but for a page
\* that naps.
SeatTick ==
  LET napping == {p \in pulse : page[p].beats} IN
  /\ \A p \in Pages : asks[p] = <<>>
  /\ IF napping = {} THEN UNCHANGED <<accidents, excused>> ELSE Accident("nap") /\ excused' = excused \cup napping
  /\ seats' = [u \in Accounts |-> [s \in Subsections |-> IF Active(u, s) THEN seats[u][s] + 1 ELSE seats[u][s]]]
  /\ pulse' = {p \in Pages : page[p].beats}
  /\ seats' # seats \/ pulse' # pulse
  /\ UNCHANGED <<owner, page, asks, moves>>

SeatsNext ==
  \/ SeatTick
  \/ \E p \in Pages :
       \/ \E i \in 1..Len(asks[p]) : HandleAsk(p, i) \/ LoseAsk(p, i) \/ SeatsAnswered(p, i)
       \/ \E tab \in Subsections \cup {"own", "none", "editor"} : Go(p, tab)
       \/ ToLicensedTable(p) \/ BackToText(p) \/ RecalculateTable(p)
       \/ \E set \in PriceSets : ChangePriceSet(p, set)
       \/ Beat(p) \/ Reload(p)

SeatsSpec == SeatsInit /\ [][SeatsNext]_seatVars

-----------------------------------------------------------------------------
(* Properties.                                                             *)

\* Types; of the gates a page is waiting at the last one counts.
LicenseTypeOK ==
  /\ seats \in [Accounts -> [Subsections -> NoSeat .. SeatTTL + 1]]
  /\ \A p \in Pages :
       /\ page[p].tab \in Subsections \cup {"own", "none", "editor"}
       /\ page[p].view \in {"text", "table"} /\ page[p].set \in PriceSets
       /\ page[p].hidden \subseteq {"base", "editor"} /\ page[p].beats \in BOOLEAN
       /\ Cardinality({i \in 1..Len(asks[p]) : asks[p][i].by = "gate" /\ asks[p][i].current}) <= 1

SilenceFor(s) == [u \in Accounts |-> seats[u][s]]
Seat(s) == INSTANCE Lease WITH Users <- Accounts, Capacity <- Available[s], TTL <- SeatTTL, silence <- SilenceFor(s)

\* The sessions of each subsection are a lease with as many seats as there are licences: no
\* more users than licences, and nobody who keeps in touch is put out.
SessionsAreLeases ==
  /\ \A s \in Subsections : Seat(s)!Init
  /\ [][\A s \in Subsections : UNCHANGED SilenceFor(s) \/ Seat(s)!Next]_seats

\* Whoever is shown a licensed section and waits for no answer has the seats it needs, but for
\* a page that napped, whose call was lost or overtaken, whose twin gave the seats up, or that
\* shows a table in which nothing was to be calculated.
ViewersHaveSeats ==
  \A p \in Pages \ excused :
    asks[p] = <<>> /\ Section(Where(page[p])) \notin page[p].hidden
      => \A s \in Needs(page[p]) : Active(owner[p], s)
=============================================================================
