----------------------------- MODULE BasePanels -----------------------------
(***************************************************************************)
(* The two panels of the base in web/app.js that read from the server: the *)
(* tree of GSN norms, for a supplement and a search, and the table of FGIS *)
(* prices, for a price set, a search and a page of the table.  A click     *)
(* changes what is selected and asks; an answer is shown whenever it       *)
(* comes, whatever is selected by then.                                    *)
(***************************************************************************)
EXTENDS Integers, FiniteSets, SequencesExt

CONSTANTS
  Supplements,   \* of the GSN, in the server's order
  Stored,        \* what localStorage may hold: a supplement, one that is gone, or Nothing
  Words,         \* what is searched for; NoWord is the empty search
  NoWord,
  Hits,          \* how many rows of a price set match a word
  PageLimit,     \* fgisLimit
  MaxClicks,     \* bound: what the user does
  Troubles,      \* what may go wrong
  MaxTroubles,   \* bound: how often
  Nothing

Searches == Words \cup {NoWord}
FgisSets == DOMAIN Hits

ASSUME SupplementsAssumption == Supplements \in Seq(ToSet(Supplements)) /\ Supplements # <<>>
ASSUME NothingAssumption == Nothing \notin ToSet(Supplements) /\ Nothing \notin FgisSets /\ FgisSets # {}
ASSUME PageLimitAssumption == PageLimit \in Nat \ {0}
ASSUME HitsAssumption == \A set \in FgisSets : Hits[set] \in [Searches -> Nat]
ASSUME TroublesAssumption == Troubles \subseteq {"late", "lost"}

VARIABLES
  tab,      \* baseTab
  inBase,   \* whether the base is the section shown
  gsn,      \* the tree: what is selected, what is loaded, what is shown
  fgis,     \* the table: what is selected, what is loaded, what is shown
  calls,    \* the requests in flight, in the order they were made
  doubt,    \* history: panels with an answer lost or late since they were last set
  clicks, troubles

panelVars == <<tab, inBase, gsn, fgis, calls, doubt, clicks, troubles>>

Click == clicks < MaxClicks /\ clicks' = clicks + 1
Trouble(kind) == kind \in Troubles /\ troubles < MaxTroubles /\ troubles' = troubles + 1

\* "chain": the panel goes on loading when the answer is there; "attached": the node of the
\* tree that was opened is still in the page.
Call(kind, of, chain) == [kind |-> kind, of |-> of, chain |-> chain, attached |-> TRUE]
Query(choice, word, offset) == [choice |-> choice, word |-> word, offset |-> offset]
Detached(cs) == [i \in 1..Len(cs) |-> [cs[i] EXCEPT !.attached = FALSE]]

PanelsInit ==
  /\ tab = "own" /\ inBase = FALSE
  /\ gsn \in [supplement : Stored, word : {NoWord}, listed : {FALSE}, loaded : {FALSE},
              infoLoaded : {FALSE}, info : {Nothing}, tree : {Nothing}, branches : {{}}]
  /\ fgis \in [set : FgisSets \cup {Nothing}, word : {NoWord}, offset : {0}, sets : {"unread"},
               loadedSet : {Nothing}, rows : {Nothing}, count : {0}, total : {0}, loading : {FALSE}, shown : {"nothing"}]
  /\ calls = <<>> /\ doubt = {} /\ clicks = 0 /\ troubles = 0

-----------------------------------------------------------------------------
(* The tree of norms. Every operator gives the panel and the calls after it. *)

AfterAnswer(panel, cs) == [panel |-> panel, calls |-> cs]
OfTree(g) == Query(g.supplement, g.word, 0)

\* loadGSNRoot, or loadGSNSearch when there is a search: the tree is emptied and asked for.
LoadTree(g, cs, there, force) ==
  IF there # "gsn" \/ g.supplement = Nothing \/ (g.loaded /\ ~force) THEN AfterAnswer(g, cs)
  ELSE AfterAnswer([g EXCEPT !.tree = Nothing, !.branches = {}],
             Append(Detached(cs), Call("tree", OfTree(g), FALSE)))

\* Seeded fault: the information on the base is asked for once only.
LoadInfoOnce(g, cs, there, chain) ==
  IF g.infoLoaded \/ g.info # Nothing \/ g.supplement = Nothing
  THEN IF chain THEN LoadTree(g, cs, there, FALSE) ELSE AfterAnswer(g, cs)
  ELSE AfterAnswer(g, Append(cs, Call("info", OfTree(g), chain)))

\* loadGSNBaseInfo, and the rest of loadGSNPanel if it was called from there.
LoadInfo(g, cs, there, chain) ==
  IF g.infoLoaded \/ g.supplement = Nothing
  THEN IF chain THEN LoadTree(g, cs, there, FALSE) ELSE AfterAnswer(g, cs)
  ELSE AfterAnswer(g, Append(cs, Call("info", OfTree(g), chain)))

\* loadGSNPanel, from loadGSNSupplements on.
LoadGsnPanel(g, cs) ==
  IF g.listed THEN LoadInfo(g, cs, "gsn", TRUE) ELSE AfterAnswer(g, Append(cs, Call("list", OfTree(g), TRUE)))

PanelBecomes(after) == gsn' = after.panel /\ calls' = after.calls

VisitGsn ==
  /\ Click
  /\ tab' = "gsn" /\ inBase' = TRUE
  /\ PanelBecomes(LoadGsnPanel(gsn, calls))
  /\ UNCHANGED <<fgis, doubt, troubles>>

OnTree == tab = "gsn" /\ inBase

\* The select of the supplements: both the information and the tree are asked for anew.
ChangeSupplement(s) ==
  LET g == [gsn EXCEPT !.supplement = s, !.loaded = FALSE, !.infoLoaded = FALSE, !.word = NoWord]
      asked == LoadInfo(g, calls, tab, FALSE)
  IN
  /\ OnTree /\ gsn.listed /\ s # gsn.supplement /\ Click
  /\ PanelBecomes(LoadTree(asked.panel, asked.calls, tab, TRUE))
  /\ doubt' = IF calls = <<>> THEN doubt \ {"gsn"} ELSE doubt
  /\ UNCHANGED <<tab, inBase, fgis, troubles>>

\* The search form, and its reset.
SearchTree(word) ==
  /\ OnTree /\ gsn.supplement # Nothing /\ Click
  /\ PanelBecomes(LoadTree([gsn EXCEPT !.word = word, !.loaded = IF word = NoWord THEN FALSE ELSE @], calls, tab, TRUE))
  /\ UNCHANGED <<tab, inBase, fgis, doubt, troubles>>

\* A node that has not been loaded: its children are asked for by the supplement of the day.
OpenNode ==
  /\ OnTree /\ gsn.tree # Nothing /\ Click
  /\ calls' = Append(calls, Call("branch", OfTree(gsn), FALSE))
  /\ UNCHANGED <<tab, inBase, gsn, fgis, doubt, troubles>>

\* A change of the open estimates: the tree, which has their counters, is to be read anew.
EditorChanges ==
  /\ gsn.loaded /\ Click
  /\ gsn' = [gsn EXCEPT !.loaded = FALSE]
  /\ UNCHANGED <<tab, inBase, fgis, calls, doubt, troubles>>

\* What the answer of a call makes of the tree. An error of the information wipes the tree out.
Listed(g) ==
  [g EXCEPT !.listed = TRUE, !.supplement = IF @ \in ToSet(Supplements) THEN @ ELSE Head(Supplements)]

Answers(g, c, ok, cs) ==
  CASE c.kind = "list" ->
         LET next == IF ok THEN Listed(g) ELSE [g EXCEPT !.tree = Nothing, !.branches = {}]
         IN IF next.supplement = Nothing THEN AfterAnswer(next, cs) ELSE LoadInfo(next, cs, tab, TRUE)
    [] c.kind = "info" ->
         LET next == IF ok THEN [g EXCEPT !.infoLoaded = TRUE, !.info = c.of.choice]
                     ELSE [g EXCEPT !.infoLoaded = FALSE, !.tree = Nothing, !.branches = {}]
         IN IF c.chain THEN LoadTree(next, cs, tab, FALSE) ELSE AfterAnswer(next, cs)
    [] c.kind = "tree" ->
         AfterAnswer([g EXCEPT !.loaded = ok, !.tree = IF ok THEN c.of ELSE Nothing, !.branches = {}], Detached(cs))
    [] OTHER ->
         AfterAnswer([g EXCEPT !.branches = IF ok /\ c.attached THEN @ \cup {c.of.choice} ELSE @], cs)

-----------------------------------------------------------------------------
(* The table of prices.                                                    *)

OfRows(f) == Query(f.set, f.word, f.offset)
Smaller(m, n) == IF m < n THEN m ELSE n
Larger(m, n) == IF m > n THEN m ELSE n

\* renderFGISPricesPanelContent
Rendered(f) ==
  [f EXCEPT !.shown = IF f.set = Nothing THEN "nothing" ELSE IF f.loading THEN "loading" ELSE "table"]

\* loadFGISRows
LoadRows(f, cs, silent) ==
  IF f.set = Nothing
  THEN AfterAnswer(Rendered([f EXCEPT !.rows = Nothing, !.count = 0, !.total = 0, !.loadedSet = Nothing]), cs)
  ELSE LET asking == [f EXCEPT !.loading = TRUE]
       IN AfterAnswer(IF silent THEN asking ELSE Rendered(asking), Append(cs, Call("rows", OfRows(f), FALSE)))

FirstSet == CHOOSE set \in FgisSets : TRUE

\* loadFGISPricesPanel once the sets are there: a set that is gone gives way to the first.
LoadFgisPanel(f, cs, there) ==
  LET known == f.set \in FgisSets
      g == IF known THEN f ELSE [f EXCEPT !.set = FirstSet, !.offset = 0, !.word = NoWord]
  IN IF f.sets = "none" THEN AfterAnswer([f EXCEPT !.shown = "nothing"], cs)
     ELSE IF ~known \/ g.loadedSet # g.set \/ (there /\ ~g.loading /\ g.count = 0)
     THEN LoadRows(g, cs, g.count > 0 /\ g.loadedSet = g.set)
     ELSE AfterAnswer(Rendered(g), cs)

TableBecomes(after) == fgis' = after.panel /\ calls' = after.calls

VisitFgis ==
  /\ Click
  /\ tab' = "fgis" /\ inBase' = TRUE
  /\ TableBecomes(IF fgis.sets = "unread" THEN AfterAnswer(fgis, Append(calls, Call("sets", OfRows(fgis), TRUE)))
                  ELSE LoadFgisPanel(fgis, calls, TRUE))
  /\ UNCHANGED <<gsn, doubt, troubles>>

OnTable == tab = "fgis" /\ inBase /\ fgis.shown \in {"table", "loading"}

\* changeFGISSet
ChangeFgisSet(set) ==
  /\ OnTable /\ set # fgis.set /\ Click
  /\ TableBecomes(LoadRows([fgis EXCEPT !.set = set, !.offset = 0, !.word = NoWord], calls, FALSE))
  /\ doubt' = IF calls = <<>> THEN doubt \ {"fgis"} ELSE doubt
  /\ UNCHANGED <<tab, inBase, gsn, troubles>>

\* Seeded fault: a search stays on the page of the table it was made on.
SearchRowsHere(word) ==
  /\ OnTable /\ Click
  /\ TableBecomes(LoadRows([fgis EXCEPT !.word = word], calls, FALSE))
  /\ UNCHANGED <<tab, inBase, gsn, doubt, troubles>>

\* The search form and its reset begin at the first page.
SearchRows(word) ==
  /\ OnTable /\ Click
  /\ TableBecomes(LoadRows([fgis EXCEPT !.word = word, !.offset = 0], calls, FALSE))
  /\ UNCHANGED <<tab, inBase, gsn, doubt, troubles>>

\* changeFGISPage: the table stays while the page is read. "total" may be that of another
\* search, as long as the answer to this one is not there.
TurnPage(to) ==
  /\ OnTable /\ fgis.shown = "table" /\ Click
  /\ \/ to < fgis.offset /\ to = Larger(0, fgis.offset - PageLimit)
     \/ to = fgis.offset + PageLimit /\ to < fgis.total
  /\ TableBecomes(LoadRows([fgis EXCEPT !.offset = to], calls, TRUE))
  /\ doubt' = IF fgis.rows # Nothing /\ fgis.rows.choice = fgis.set /\ fgis.rows.word = fgis.word THEN doubt
              ELSE doubt \cup {"fgis"}
  /\ UNCHANGED <<tab, inBase, gsn, troubles>>

\* What the answer of a call makes of the table: the rows asked for are taken to be of the set
\* selected by now.
AnswersRows(f, c, ok, cs) ==
  CASE c.kind = "sets" ->
         LoadFgisPanel([f EXCEPT !.sets = IF ok THEN "read" ELSE "none"], cs, inBase /\ tab = "fgis")
    [] c.kind = "rows" /\ ok ->
         LET total == Hits[c.of.choice][c.of.word]
         IN AfterAnswer(Rendered([f EXCEPT !.rows = c.of, !.total = total, !.loadedSet = f.set, !.loading = FALSE,
                                     !.count = Smaller(PageLimit, Larger(0, total - c.of.offset))]), cs)
    [] OTHER ->
         AfterAnswer([f EXCEPT !.rows = Nothing, !.total = 0, !.count = 0, !.loadedSet = Nothing,
                         !.loading = FALSE, !.shown = "nothing"], cs)

-----------------------------------------------------------------------------
\* Another section or tab; what was asked for is still answered.
Leave ==
  /\ inBase /\ Click
  /\ \/ inBase' = FALSE /\ UNCHANGED tab
     \/ tab' = "own" /\ tab' # tab /\ UNCHANGED inBase
  /\ UNCHANGED <<gsn, fgis, calls, doubt, troubles>>

PanelOf(kind) == IF kind \in {"rows", "sets"} THEN "fgis" ELSE "gsn"

\* The list replaces a stored supplement that is gone, of which something was read before.
Replaces(c) ==
  /\ c.kind = "list" /\ gsn.supplement \notin ToSet(Supplements)
  /\ gsn.loaded \/ gsn.infoLoaded \/ \E j \in 1..Len(calls) : calls[j].kind \in {"tree", "info"}

\* A call is answered, in its turn among those of its kind or late, or fails.
AnswerCall(i) ==
  LET c == calls[i]
      rest == RemoveAt(calls, i)
      turn == \A j \in 1..(i - 1) : calls[j].kind # c.kind
  IN
  \E ok \in BOOLEAN :
    /\ CASE ok /\ turn  -> UNCHANGED troubles
         [] ok /\ ~turn -> Trouble("late")
         [] OTHER       -> turn /\ Trouble("lost")
    /\ doubt' = doubt \cup (IF ~turn THEN {PanelOf(c.kind)}
                            ELSE IF (~ok /\ c.kind \in {"list", "info"}) \/ Replaces(c) THEN {"gsn"} ELSE {})
    /\ IF PanelOf(c.kind) = "gsn"
       THEN PanelBecomes(Answers(gsn, c, ok, rest)) /\ UNCHANGED fgis
       ELSE TableBecomes(AnswersRows(fgis, c, ok, rest)) /\ UNCHANGED gsn
    /\ UNCHANGED <<tab, inBase, clicks>>

PanelsNext ==
  \/ VisitGsn \/ VisitFgis \/ Leave
  \/ \E s \in ToSet(Supplements) : ChangeSupplement(s)
  \/ \E word \in Searches : SearchTree(word) \/ SearchRows(word)
  \/ OpenNode \/ EditorChanges
  \/ \E set \in FgisSets : ChangeFgisSet(set)
  \/ \E to \in {Larger(0, fgis.offset - PageLimit), fgis.offset + PageLimit} : TurnPage(to)
  \/ \E i \in 1..Len(calls) : AnswerCall(i)

PanelsSpec == PanelsInit /\ [][PanelsNext]_panelVars

-----------------------------------------------------------------------------
(* Properties.                                                             *)

\* Once every call is answered, a tree that counts as loaded is the one of the supplement and
\* the search selected, the information is of that supplement, and no branch was opened from
\* another one -- unless an answer came late, one on the base was lost, or the tree was read
\* before the list of supplements, and no other supplement has been chosen since.
TreeIsOfTheSupplement ==
  (calls = <<>> /\ OnTree /\ "gsn" \notin doubt) =>
    /\ gsn.loaded => gsn.tree = OfTree(gsn)
    /\ gsn.infoLoaded => gsn.info = gsn.supplement
    /\ gsn.branches \subseteq {gsn.supplement}

\* Once every call is answered, the table shows the rows of the set, the search and the page
\* selected, or the error of the last call, and never a page behind the last -- unless an
\* answer came late, or the page was turned before the answer to a search was there.
PricesAreOfTheSet ==
  (calls = <<>> /\ OnTable /\ "fgis" \notin doubt) =>
    /\ ~fgis.loading /\ fgis.rows = OfRows(fgis) /\ fgis.loadedSet = fgis.set
    /\ fgis.offset = 0 \/ fgis.offset < fgis.total
=============================================================================
