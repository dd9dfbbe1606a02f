---------------------------- MODULE EstimateText ----------------------------
(***************************************************************************)
(* One estimate in the editor of web/app.js, as a text to type and as a    *)
(* table of rows, and the lines the server stores for it.  The text has no *)
(* line ids: each change to the table, each read and each save finds the   *)
(* rows and the stored lines again by text, by place or by code, and the   *)
(* results of the calculation come back by line id.  Only lines that are   *)
(* calculated (GSN positions) are here; how the calculation and the long   *)
(* poll run is left to EstimateCalc and CalcSession.                       *)
(***************************************************************************)
EXTENDS Integers, FiniteSetsExt, SequencesExt

CONSTANTS
  Codes, Volumes,  \* what a line says: a cipher and a volume
  Opened,          \* the lines an estimate may have when it is opened
  TextEdits,       \* the ways to change the text
  MaxLines,        \* bound: lines of the text
  MaxEdits,        \* bound: changes of the text and of the table
  MaxSwitches,     \* bound: changes of the view
  Cases,           \* what may happen beside
  None

\* Answers out of order; a user who does not wait for them; lines that say the same; an
\* estimate that is opened with the results of an earlier session.
ASSUME CasesAssumption == Cases \subseteq {"overtake", "hurry", "twins", "results"}

VARIABLES
  rows,    \* openEstimates[i].items: id, text, calculation and what its result is of
  draft,   \* the text area
  mode,    \* estimateViewMode
  switch,  \* a change of the view that waits for the server
  cache,   \* the lines of the estimate in state.estimates, if they are there
  stored,  \* app_estimate_lines
  calc,    \* whether the server calculates the estimate, and is being asked to
  saves,   \* saves that are about to send their PUT, and that wait for the one before
  puts,    \* the PUTs in flight
  report,  \* the answer to the status request of a save
  typed,   \* history: the lines as the user last left them
  shared,  \* history: two rows have had one id
  counts   \* bounds, and the server's fresh ids

textVars == <<rows, draft, mode, switch, cache, stored, calc, saves, puts, report, typed, shared, counts>>

LineTexts == [code : Codes, volume : Volumes, full : BOOLEAN]
Content(text) == [code |-> text.code, volume |-> text.volume]
Results == {Content(t) : t \in LineTexts} \cup {None}
Contents(lines) == [k \in 1..Len(lines) |-> Content(lines[k].text)]
Texts(lines) == [k \in 1..Len(lines) |-> lines[k].text]
Uncalculated == [calc |-> "none", of |-> None, orig |-> FALSE]
Line(id, text, result) ==
  [id |-> id, text |-> text, calc |-> result.calc, of |-> result.of, orig |-> result.orig]
NoLine == Line(0, None, Uncalculated)
Cleared(lines) == [k \in 1..Len(lines) |-> Line(lines[k].id, lines[k].text, Uncalculated)]

\* The names, units and totals of a calculated line are written into its text, and an
\* estimate keeps what was written (serializeEstimateToText).
Written(lines) == [k \in 1..Len(lines) |-> [lines[k] EXCEPT !.text.full = @ \/ lines[k].calc = "done"]]

Calculated(text) == [calc |-> "done", of |-> Content(text), orig |-> TRUE]
ASSUME ResultAssumption == None \notin {Content(t) : t \in LineTexts}
ASSUME BoundsAssumption == MaxLines \in Nat /\ MaxEdits \in Nat /\ MaxSwitches \in Nat
ASSUME OpenedAssumption ==
  \A lines \in Opened :
    /\ lines \in Seq([id : 1..MaxLines, text : LineTexts, calc : {"none", "done"},
                      of : Results, orig : BOOLEAN])
    /\ Len(lines) <= MaxLines
    /\ IsInjective([k \in 1..Len(lines) |-> lines[k].id])
    /\ \/ \A k \in 1..Len(lines) : lines[k] = Line(lines[k].id, lines[k].text, Uncalculated)
       \/ /\ "results" \in Cases
          /\ \A k \in 1..Len(lines) : lines[k] = Line(lines[k].id, lines[k].text, Calculated(lines[k].text))

\* How often the line's own value of f occurs up to its place.
Occurrence(seq, k, f(_)) == Cardinality({j \in 1..k : f(seq[j]) = f(seq[k])})

\* The n-th of the lines in these places, if there are so many.
Nth(lines, places, n, other) ==
  LET at == {j \in places : Cardinality({i \in places : i <= j}) = n} IN IF at = {} THEN other ELSE lines[Min(at)]

-----------------------------------------------------------------------------
(* Finding the lines again.                                                *)

CodeOf(text) == text.code

\* The line a line of the text was: the first with the same text, else the n-th with its code.
Existing(lines, text, k) ==
  LET same == {j \in 1..Len(lines) : lines[j].text = text[k]}
      sameCode == {j \in 1..Len(lines) : lines[j].text.code = text[k].code}
  IN IF same # {} THEN lines[Min(same)] ELSE Nth(lines, sameCode, Occurrence(text, k, CodeOf), NoLine)

\* applySourceDataTextToEstimate. A new line is called by its place in the text.
Parsed(lines, text) ==
  [k \in 1..Len(text) |->
     LET x == Existing(lines, text, k) IN
     Line(IF x = NoLine THEN k ELSE x.id, text[k], IF x # NoLine /\ x.text = text[k] THEN x ELSE Uncalculated)]

\* estimateLineSyncKey: the text and whether the result has named the original code.
SyncKey(line) == <<line.text, line.orig>>
Alike(lines, x) == {j \in 1..Len(lines) : SyncKey(lines[j]) = SyncKey(x)}

\* What stands for a line in a list that may have changed: the next with its key, else the
\* one in its place.
Counterpart(lines, saved, k, n) ==
  Nth(saved, Alike(saved, lines[k]), n, IF k \in 1..Len(saved) THEN saved[k] ELSE NoLine)

\* syncEstimateLineIdsFromSaved
SyncedIds(lines, saved) ==
  [k \in 1..Len(lines) |->
     LET s == Counterpart(lines, saved, k, Occurrence(lines, k, SyncKey))
     IN IF s = NoLine THEN lines[k] ELSE [lines[k] EXCEPT !.id = s.id]]

Named(lines, id) == {j \in 1..Len(lines) : lines[j].id = id}
\* The lines up to a place that are like the one there and have no namesake.
Nameless(lines, k, others) ==
  {j \in 1..k : Named(others, lines[j].id) = {} /\ SyncKey(lines[j]) = SyncKey(lines[k])}

\* mergeEstimateCalcStateFromSaved: the results the server has are shown, all others dropped.
Merged(lines, saved) ==
  [k \in 1..Len(lines) |->
     LET named == Named(saved, lines[k].id)
         s == IF named # {} THEN saved[Max(named)]
              ELSE Counterpart(lines, saved, k, Cardinality(Nameless(lines, k, saved)))
     IN IF s.calc = "done" THEN Line(s.id, lines[k].text, [s EXCEPT !.orig = TRUE])
        ELSE Line(lines[k].id, lines[k].text, Uncalculated)]

\* estimateNeedsTableCalculation
NeedsCalculation(lines) ==
  /\ \E k \in 1..Len(lines) : lines[k].calc = "none"
  /\ \A k \in 1..Len(lines) : lines[k].calc # "queued"

\* prepareEstimateTableCalculationState with preserveDone
Queued(lines) == [k \in 1..Len(lines) |-> IF lines[k].calc = "done" THEN lines[k]
                                          ELSE Line(lines[k].id, lines[k].text, [Uncalculated EXCEPT !.calc = "queued"])]

\* Seeded fault: the statuses go to the rows in their order.
AddresseeInOrder(lines, s, used) ==
  LET free == {j \in 1..Len(lines) : lines[j].id \notin used} IN IF free = {} THEN 0 ELSE Min(free)

\* The row a status goes to: by line id the last row of that id, else the first row of that
\* content; no id is used twice (matchCalcStatusesToItems).
Addressee(lines, s, used) ==
  LET byId == {j \in 1..Len(lines) : lines[j].id = s.id /\ s.id \notin used}
      alike == {j \in 1..Len(lines) : lines[j].id \notin used /\ Content(lines[j].text) = Content(s.text)}
  IN IF byId # {} THEN Max(byId) ELSE IF alike # {} THEN Min(alike) ELSE 0

\* The row a status goes to takes its result, and its id is used.
Application(was, s) ==
  LET to == Addressee(was.lines, s, was.used) IN
  IF to = 0 THEN was
  ELSE [lines |-> [was.lines EXCEPT ![to] = Line(@.id, @.text, [s EXCEPT !.orig = s.calc = "done"])],
        used |-> was.used \cup {was.lines[to].id}]

\* applyEstimateCalcStatusPairs: the statuses in some places of a list, one after another.
Applications(lines, statuses, places) ==
  LET after[i \in 0 .. Len(statuses)] ==
        IF i = 0 THEN [lines |-> lines, used |-> {}]
        ELSE IF i \in places THEN Application(after[i - 1], statuses[i]) ELSE after[i - 1]
  IN after
Applied(lines, statuses, places) == Applications(lines, statuses, places)[Len(statuses)].lines
Done(lines) == {k \in 1..Len(lines) : lines[k].calc = "done"}

-----------------------------------------------------------------------------
Shown == [at |-> "shown", parsed |-> <<>>, saved |-> <<>>]
NoReport == [at |-> "none", lines |-> <<>>]

\* openEstimateInEditor: the stored lines, shown as a text. An estimate with results has
\* the lines that a save changes calculated (enqueueEstimateLinesAfterSave).
TextInit ==
  /\ stored \in Opened
  /\ cache = stored
  /\ rows = Written(stored) /\ draft = Texts(rows) /\ mode = "text" /\ switch = Shown
  /\ calc = [running |-> Done(stored) # {}, asked |-> FALSE]
  /\ saves = [ready |-> 0, waiting |-> 0, start |-> FALSE] /\ puts = <<>> /\ report = NoReport
  /\ typed = Contents(stored) /\ shared = FALSE
  /\ counts = [edits |-> 0, switches |-> 0, fresh |-> MaxLines]

AtRest ==
  /\ switch = Shown /\ puts = <<>> /\ report = NoReport /\ ~calc.asked
  /\ saves.ready = 0 /\ saves.waiting = 0

Gesture == AtRest \/ "hurry" \in Cases
Edit == Gesture /\ counts.edits < MaxEdits /\ counts' = [counts EXCEPT !.edits = @ + 1]
Switch == Gesture /\ counts.switches < MaxSwitches /\ counts' = [counts EXCEPT !.switches = @ + 1]

\* A save waits for the PUT in flight.
Asked == IF puts = <<>> THEN [saves EXCEPT !.ready = @ + 1] ELSE [saves EXCEPT !.waiting = @ + 1]

-----------------------------------------------------------------------------
(* The text.                                                               *)

Shortened(text) == {RemoveAt(text, k) : k \in 1..Len(text)}
Swapped(text) == {[text EXCEPT ![k] = text[k + 1], ![k + 1] = text[k]] : k \in 1..(Len(text) - 1)}
Remeasured(text) == {[text EXCEPT ![k].volume = v] : k \in 1..Len(text), v \in Volumes}
Extended(text) ==
  IF Len(text) = MaxLines THEN {} ELSE {Append(text, new) : new \in {t \in LineTexts : ~t.full}}

Rewritten(text) ==
  UNION { IF "remove" \in TextEdits THEN Shortened(text) ELSE {},
          IF "swap" \in TextEdits THEN Swapped(text) ELSE {},
          IF "volume" \in TextEdits THEN Remeasured(text) ELSE {},
          IF "add" \in TextEdits THEN Extended(text) ELSE {} }

\* The user types. What he types while the table is being prepared is dropped with the draft.
Type ==
  /\ mode = "text" /\ Edit
  /\ draft' \in Rewritten(draft) \ {draft, <<>>}
  /\ "twins" \in Cases \/ IsInjective([k \in 1..Len(draft') |-> Content(draft'[k])])
  /\ typed' = IF switch = Shown THEN [k \in 1..Len(draft') |-> Content(draft'[k])] ELSE typed
  /\ UNCHANGED <<rows, mode, switch, cache, stored, calc, saves, puts, report>>

\* setEstimateViewMode("table"): the text is parsed into a copy of the estimate ...
ToTable ==
  /\ mode = "text" /\ switch = Shown /\ Switch
  /\ switch' = [at |-> IF cache = <<>> THEN "detail" ELSE "read", parsed |-> Parsed(rows, draft), saved |-> cache]
  /\ UNCHANGED <<rows, draft, mode, cache, stored, calc, saves, puts, report, typed>>

\* ... the saved lines are those the page has or, if it has none, those the server is asked
\* for (fetchEstimateDetail) ...
ReadDetail ==
  /\ switch.at = "detail"
  /\ switch' = [switch EXCEPT !.at = "read", !.saved = stored] /\ cache' = stored
  /\ UNCHANGED <<rows, draft, mode, stored, calc, saves, puts, report, typed, counts>>

\* refreshConstructionData, when the user looks at the constructions: the list that is loaded
\* has the estimates without their lines.
Refresh ==
  /\ Gesture
  /\ cache # <<>> /\ cache' = <<>>
  /\ UNCHANGED <<rows, draft, mode, switch, stored, calc, saves, puts, report, typed, counts>>

\* ... and the copy takes the place of the estimate: what is still to come for the old one
\* is for nobody. If a line is to be calculated the estimate is saved and the calculation
\* started.
ShowTable ==
  /\ switch.at = "read"
  /\ LET table == Merged(SyncedIds(switch.parsed, switch.saved), switch.saved)
         needed == NeedsCalculation(table)
     IN /\ rows' = IF needed THEN Queued(table) ELSE table
        /\ saves' = IF needed THEN [Asked EXCEPT !.start = TRUE] ELSE saves
  /\ mode' = "table" /\ switch' = Shown /\ draft' = <<>>
  /\ puts' = [i \in 1..Len(puts) |-> [puts[i] EXCEPT !.own = FALSE]]
  /\ report' = NoReport
  /\ UNCHANGED <<cache, stored, calc, typed, counts>>

-----------------------------------------------------------------------------
(* The table.                                                              *)

Changed(table, intended) ==
  /\ rows' = table /\ typed' = intended /\ draft' = <<>>
  /\ saves' = Asked
  /\ UNCHANGED <<mode, switch, cache, stored, calc, puts, report>>

\* The first row that has the id of the row the user points at.
Found(k) == Min({j \in 1..Len(rows) : rows[j].id = rows[k].id})

\* deleteEstimateLine
Delete ==
  /\ mode = "table" /\ Edit
  /\ \E k \in 1..Len(rows) : Changed(RemoveAt(rows, Found(k)), RemoveAt(Contents(rows), k))

\* moveEstimateLine
Move ==
  /\ mode = "table" /\ Edit
  /\ \E k \in 1..(Len(rows) - 1) :
       LET Moved(seq, j) == IF j = Len(seq) THEN seq ELSE [seq EXCEPT ![j] = seq[j + 1], ![j + 1] = seq[j]]
       IN Changed(Moved(rows, Found(k)), Moved(Contents(rows), k))

\* setEstimateViewMode("text"): the rows are written out and the calculation is cancelled;
\* the table stays until the answer.
ToText ==
  /\ mode = "table" /\ switch = Shown /\ Switch
  /\ rows' = Written(rows) /\ draft' = Texts(rows')
  /\ switch' = [Shown EXCEPT !.at = "cancel"]
  /\ UNCHANGED <<mode, cache, stored, calc, saves, puts, report, typed>>

\* Seeded fault: a cancelled calculation keeps its results.
HandleCancelKeeping ==
  /\ switch.at = "cancel"
  /\ switch' = [switch EXCEPT !.at = "cancelled"]
  /\ calc' = [calc EXCEPT !.running = FALSE]
  /\ UNCHANGED <<rows, draft, mode, cache, stored, saves, puts, report, typed, counts>>

\* CancelEstimateCalc: every line of the estimate loses its result.
HandleCancel ==
  /\ switch.at = "cancel"
  /\ stored' = Cleared(stored) /\ switch' = [switch EXCEPT !.at = "cancelled"]
  /\ calc' = [calc EXCEPT !.running = FALSE]
  /\ UNCHANGED <<rows, draft, mode, cache, saves, puts, report, typed, counts>>

ShowText ==
  /\ switch.at = "cancelled"
  /\ mode' = "text" /\ switch' = Shown
  /\ IF draft = <<>> THEN rows' = Written(rows) /\ draft' = Texts(rows') ELSE UNCHANGED <<rows, draft>>
  /\ UNCHANGED <<cache, stored, calc, saves, puts, report, typed, counts>>

-----------------------------------------------------------------------------
(* Saving.                                                                 *)

\* A save that needs no change of the lines: of the district, the prices, the header.
Save ==
  /\ Edit
  /\ saves' = Asked
  /\ UNCHANGED <<rows, draft, mode, switch, cache, stored, calc, puts, report, typed>>

\* persistOpenEstimate: in the text view the text is parsed first; then the PUT is sent.
SendPut ==
  /\ saves.ready > 0
  /\ LET sent == IF mode = "text" THEN Parsed(rows, draft) ELSE rows IN
     /\ rows' = sent
     /\ puts' = Append(puts, [lines |-> sent, at |-> "sent", own |-> TRUE, start |-> saves.start])
  /\ saves' = [saves EXCEPT !.ready = @ - 1, !.start = FALSE]
  /\ UNCHANGED <<draft, mode, switch, cache, stored, calc, report, typed, counts>>

Repeats(lines, k) == \E j \in 1..(k - 1) : lines[j].id = lines[k].id
Repeating(lines) == {k \in 1..Len(lines) : Repeats(lines, k)}

\* Seeded fault: the lines keep the ids they were sent with.
UniqueAsSent(lines, fresh) == lines

\* ensureUniqueEstimateLineIDs: a line that repeats an id is stored under a fresh one.
Unique(lines, fresh) ==
  [k \in 1..Len(lines) |-> IF Repeats(lines, k)
     THEN [lines[k] EXCEPT !.id = fresh + Cardinality({j \in Repeating(lines) : j <= k})] ELSE lines[k]]

\* prepareEstimateLineForStorage: the result of a line is kept if its id and its content are.
Kept(lines, old) ==
  [k \in 1..Len(lines) |->
     LET same == {j \in Done(old) : old[j].id = lines[k].id /\ Content(old[j].text) = Content(lines[k].text)}
     IN Line(lines[k].id, lines[k].text,
             IF same = {} THEN Uncalculated ELSE [old[Min(same)] EXCEPT !.orig = FALSE])]

\* UpdateEstimate. No lines at all are taken for lines left out. The answer has the lines as
\* they were sent, without results.
HandlePut ==
  \E i \in 1..Len(puts) :
    /\ puts[i].at = "sent" /\ ("overtake" \in Cases \/ \A j \in 1..(i - 1) : puts[j].at # "sent")
    /\ LET lines == IF puts[i].lines = <<>> THEN stored ELSE puts[i].lines IN
       /\ stored' = Kept(Unique(lines, counts.fresh), stored)
       /\ puts' = [puts EXCEPT ![i].at = "stored", ![i].lines = Cleared(lines)]
       /\ counts' = [counts EXCEPT !.fresh = @ + Cardinality(Repeating(lines))]
    /\ UNCHANGED <<rows, draft, mode, switch, cache, calc, saves, report, typed>>

\* The rows of a text view after a save: the lines of the answer, with the results of the rows
\* they were.
Answered(lines, saved) ==
  [k \in 1..Len(saved) |->
     LET named == Named(lines, saved[k].id)
         local == IF named # {} THEN lines[Max(named)]
                  ELSE Nth(lines, Alike(lines, saved[k]), Cardinality(Nameless(saved, k, lines)), NoLine)
     IN Line(saved[k].id, saved[k].text, local)]

\* The answer of a PUT. In the table the rows take the ids of the answer, and the server is
\* asked how far the lines are that wait; the text view is written anew, but for what was
\* typed since. A save that waited may go.
PutDone ==
  \E i \in 1..Len(puts) :
    LET saved == puts[i].lines
        text == IF mode = "text" THEN Answered(rows, saved) ELSE SyncedIds(rows, saved)
        asks == mode = "table" /\ \E k \in 1..Len(rows) : rows[k].calc = "queued"
    IN
    /\ puts[i].at = "stored" /\ ("overtake" \in Cases \/ (i = 1 /\ report = NoReport))
    /\ IF ~puts[i].own \/ (mode = "table" /\ saved = <<>>) THEN UNCHANGED <<rows, draft, report>>
       ELSE /\ rows' = IF mode = "text" THEN Written(text) ELSE text
            /\ draft' = IF mode = "text" /\ draft = Texts(saved) THEN Texts(rows') ELSE draft
            /\ report' = IF asks /\ report = NoReport THEN [NoReport EXCEPT !.at = "asked"] ELSE report
    /\ calc' = IF puts[i].start THEN [calc EXCEPT !.asked = TRUE] ELSE calc
    /\ puts' = RemoveAt(puts, i) /\ cache' = saved
    /\ saves' = IF i = Len(puts) THEN [saves EXCEPT !.ready = @ + saves.waiting, !.waiting = 0] ELSE saves
    /\ UNCHANGED <<mode, switch, stored, typed, counts>>

-----------------------------------------------------------------------------
(* The calculation.                                                        *)

\* POST /api/estimates/{id}/calc
HandleStart ==
  /\ calc.asked
  /\ calc' = [running |-> TRUE, asked |-> FALSE]
  /\ UNCHANGED <<rows, draft, mode, switch, cache, stored, saves, puts, report, typed, counts>>

Calculate ==
  /\ calc.running
  /\ \E k \in 1..Len(stored) :
       /\ stored[k].calc # "done"
       /\ stored' = [stored EXCEPT ![k] = Line(@.id, @.text, [calc |-> "done", of |-> Content(@.text), orig |-> TRUE])]
  /\ UNCHANGED <<rows, draft, mode, switch, cache, calc, saves, puts, report, typed, counts>>

\* An answer of the long poll, which does not run during a save: some of the finished lines.
Deliver ==
  /\ mode = "table" /\ switch = Shown /\ puts = <<>> /\ ~calc.asked
  /\ \E some \in SUBSET Done(stored) : rows' = Applied(rows, stored, some)
  /\ rows' # rows
  /\ UNCHANGED <<draft, mode, switch, cache, stored, calc, saves, puts, report, typed, counts>>

\* listEstimateCalcLineStatuses: what is not done is queued while the server calculates.
Statuses == IF calc.running THEN Queued(stored) ELSE stored

\* reconcileEstimateCalcStatusesFromServer ...
HandleReport ==
  /\ report.at = "asked"
  /\ report' = [at |-> "answered", lines |-> Statuses]
  /\ UNCHANGED <<rows, draft, mode, switch, cache, stored, calc, saves, puts, typed, counts>>

\* ... and a row takes every status that is meant for it, whatever it has.
ReportDone ==
  /\ report.at = "answered"
  /\ rows' = Applied(rows, report.lines, 1..Len(report.lines))
  /\ report' = NoReport
  /\ UNCHANGED <<draft, mode, switch, cache, stored, calc, saves, puts, typed, counts>>

DistinctIds == IsInjective([k \in 1..Len(rows) |-> rows[k].id])

TextNext ==
  /\ \/ Type \/ ToTable \/ ReadDetail \/ Refresh \/ ShowTable
     \/ Delete \/ Move \/ ToText \/ HandleCancel \/ ShowText
     \/ Save \/ SendPut \/ HandlePut \/ PutDone
     \/ HandleStart \/ Calculate \/ Deliver \/ HandleReport \/ ReportDone
  /\ shared' = (shared \/ ~DistinctIds')

TextSpec == TextInit /\ [][TextNext]_textVars

-----------------------------------------------------------------------------
IsLine(x) ==
  /\ x.id \in Nat /\ x.text \in LineTexts /\ x.of \in Results /\ x.orig \in BOOLEAN
  /\ x.calc \in {"none", "queued", "done"} /\ (x.of # None <=> x.calc = "done")

\* The rows and what is stored are lines, and a result is always the result of something; the
\* stored lines have distinct ids, the primary key of app_estimate_lines.
TextTypeOK ==
  /\ \A k \in 1..Len(rows) : IsLine(rows[k])
  /\ \A k \in 1..Len(stored) : IsLine(stored[k]) /\ stored[k].calc # "queued"
  /\ IsInjective([k \in 1..Len(stored) |-> stored[k].id])
  /\ mode \in {"text", "table"} /\ switch.at \in {"shown", "detail", "read", "cancel", "cancelled"}
  /\ \A k \in 1..Len(draft) : draft[k] \in LineTexts
  /\ saves \in [ready : Nat, waiting : Nat, start : BOOLEAN]
  /\ calc \in [running : BOOLEAN, asked : BOOLEAN] /\ shared \in BOOLEAN

Settled ==
  /\ AtRest /\ mode = "table" /\ rows # <<>> /\ Applied(rows, stored, 1..Len(stored)) = rows
  /\ \A k \in 1..Len(stored) : stored[k].calc = "done"

\* Once everything is answered the server has the lines the table shows, in their order ...
TableIsStored == (AtRest /\ mode = "table" /\ rows # <<>>) => Contents(rows) = Contents(stored)

\* ... and as long as no two rows have had one id, these are the lines the user left, under the
\* same ids, each done in the end, and no row of the table ever shows the result of another line.
DistinctRowsAreRight ==
  ~shared =>
    /\ Settled =>
         /\ Contents(rows) = typed
         /\ \A k \in 1..Len(rows) : rows[k].id = stored[k].id /\ rows[k].calc = "done"
    /\ mode = "table" => \A k \in 1..Len(rows) : rows[k].of \in {None, Content(rows[k].text)}

\* A settled table shows for every row the result of what it says.  The code does
\* not keep this when two rows share a code: results go to the first row of an id.
RowsShowTheirOwnResult == Settled => \A k \in 1..Len(rows) : rows[k].calc = "done" => rows[k].of = Content(rows[k].text)
=============================================================================
