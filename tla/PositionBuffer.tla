--------------------------- MODULE PositionBuffer ---------------------------
(***************************************************************************)
(* Adding positions to an estimate from the base: the steppers "В буфер"   *)
(* and "В смету" beside every norm and every position of the user, the     *)
(* buffer, and "Добавить позиции из буфера" (add-primitives and buffer of  *)
(* web/app.js), in the table view.  A norm is added when its record has    *)
(* come from the server, a position of the user at once.                   *)
(***************************************************************************)
EXTENDS Integers, FiniteSetsExt, SequencesExt

CONSTANTS
  Drafts,        \* estimates that are opened in the editor
  Norms,         \* leaves of the GSN tree
  OwnPositions,  \* positions of the user
  Most,          \* bound: quantities
  MaxTouches,    \* bound: what the user does
  MaxMisses    \* bound: records that cannot be fetched

ASSUME DraftsAssumption == {"buffer", "none"} \cap Drafts = {}
ASSUME MostAssumption == Most \in Nat \ {0}
ASSUME KindsAreApart == Norms \cap OwnPositions = {}

VARIABLES
  buffer,      \* state.buffer
  lines,       \* the lines of every estimate that come from the base
  editor,      \* which estimates are opened: "new", "open" or "closed" again
  quantities,  \* state.addPrimitiveQuantities, 0 where there is none
  aim,         \* state.addLineTargetEstimateId
  steppers,    \* the estimate whose steppers a tab of the base has drawn
  loaded,      \* state.gsnLoaded
  shown,       \* "gsn" and "own" in the base, "editor" for every other section
  fetches,     \* additions that wait for a record: what is left of them, in no order
  adrift,      \* history: the lists changed by another hand than the stepper's
  contested,   \* history: what the user had a hand on while the buffer was added
  touches, misses

bufferVars == <<buffer, lines, editor, quantities, aim, steppers, loaded, shown, fetches, adrift, contested,
                touches, misses>>

Things == Norms \cup OwnPositions
Keys == (Drafts \cup {"buffer"}) \X Things
NoDraft == "none"
KindOf(thing) == IF thing \in Norms THEN "gsn" ELSE "own"

OpenDrafts == {d \in Drafts : editor[d] = "open"}
\* getAddLineTargetEstimate
TargetOf(aimed, open) == CASE aimed \in open -> aimed
                           [] aimed \notin open /\ Cardinality(open) = 1 -> CHOOSE d \in open : TRUE
                           [] OTHER -> NoDraft
Target == TargetOf(aim, OpenDrafts)

Row(thing, quantity) == [of |-> thing, quantity |-> quantity]
Places(list, thing) == {i \in 1..Len(list) : list[i].of = thing}
Upserted(list, thing, quantity) ==
  IF Places(list, thing) = {} THEN Append(list, Row(thing, quantity))
  ELSE [list EXCEPT ![Min(Places(list, thing))] = Row(thing, quantity)]
Removed(list, thing) == IF Places(list, thing) = {} THEN list ELSE RemoveAt(list, Max(Places(list, thing)))
ListOf(place) == IF place = "buffer" THEN buffer ELSE lines[place]

\* The loop adds own positions until the next norm, whose record it awaits.
Known(left) == Max({n \in 0..Len(left) : \A i \in 1..n : left[i].of \in OwnPositions})
Fetch(draft, left, pastes) == [draft |-> draft, left |-> left, pastes |-> pastes]
Awaited(place, thing) ==
  \E i \in DOMAIN fetches : fetches[i].draft = place /\ \E k \in DOMAIN fetches[i].left : fetches[i].left[k].of = thing
Pasting == \E i \in DOMAIN fetches : fetches[i].pastes
HandOn(things) == contested' = IF Pasting THEN contested \cup things ELSE contested

\* saveEditorState draws the steppers of the visible tab for the target of now.
Redrawn == IF shown = "editor" THEN steppers ELSE [steppers EXCEPT ![shown] = Target]

BufferInit ==
  /\ buffer \in {<<>>} \cup {<<Row(thing, 1)>> : thing \in Things}   \* restored by a reload
  /\ lines = [d \in Drafts |-> <<>>]
  /\ editor \in {e \in [Drafts -> {"new", "open"}] : \E d \in Drafts : e[d] = "open"}
  /\ quantities = [key \in Keys |-> 0]
  /\ aim = NoDraft
  /\ steppers = [gsn |-> NoDraft, own |-> NoDraft] /\ loaded = FALSE
  /\ shown = "editor"
  /\ fetches = <<>>
  /\ adrift = {<<"buffer", row.of>> : row \in ToSet(buffer)}
  /\ contested = {} /\ touches = 0 /\ misses = 0

Does == touches < MaxTouches /\ touches' = touches + 1

\* upsertGSNInBuffer, upsertUserPositionInBuffer and their removals
ChangeBuffer(thing, quantity) ==
  /\ buffer' = IF quantity = 0 THEN Removed(buffer, thing) ELSE Upserted(buffer, thing, quantity)
  /\ steppers' = IF quantity > 0 \/ buffer' # buffer THEN Redrawn ELSE steppers
  /\ UNCHANGED <<lines, fetches>>

\* upsertUserPositionInEstimate, removeUserPositionFromEstimate
ChangeNow(d, thing, quantity) ==
  /\ lines' = [lines EXCEPT ![d] = IF quantity = 0 THEN Removed(@, thing) ELSE Upserted(@, thing, quantity)]
  /\ steppers' = IF quantity > 0 \/ lines' # lines THEN Redrawn ELSE steppers
  /\ UNCHANGED <<buffer, fetches>>

\* upsertGSNInEstimate, removeGSNFromEstimate: a norm that is not in the estimate yet is fetched.
ChangeEstimate(d, thing, quantity) ==
  IF thing \in Norms /\ quantity > 0 /\ Places(lines[d], thing) = {}
  THEN /\ fetches' = Append(fetches, Fetch(d, <<Row(thing, quantity)>>, FALSE))
       /\ UNCHANGED <<buffer, lines, steppers>>
  ELSE ChangeNow(d, thing, quantity)

Change(place, thing, quantity) ==
  CASE place = "buffer" -> ChangeBuffer(thing, quantity)
    [] place \in Drafts -> ChangeEstimate(place, thing, quantity)
    [] OTHER -> UNCHANGED <<buffer, lines, fetches, steppers>>

\* The first click, plus, minus, a number typed or left as it is.
Allowed(current) == CASE current = 0 -> {1}
                      [] current = 1 -> 0..Most
                      [] OTHER -> 1..Most

\* A change goes to the target of now, the stepper may be of the estimate aimed at before.  It puts
\* the list and the stepper in step when it is carried out at once and has one row to change.
Touch(thing, onBuffer, quantity) ==
  LET key == <<IF onBuffer THEN "buffer" ELSE steppers[shown], thing>>
      place == IF onBuffer THEN "buffer" ELSE Target
      together == place = key[1] /\ (\A i, j \in Places(ListOf(place), thing) : i = j)
                  /\ ~Awaited(place, thing) /\ ~(onBuffer /\ Pasting)
  IN /\ Does
     /\ shown = KindOf(thing) /\ key \in Keys
     /\ quantity \in Allowed(quantities[key])
     /\ quantities' = [quantities EXCEPT ![key] = quantity]
     /\ Change(place, thing, quantity)
     /\ adrift' = IF together THEN adrift \ {key} ELSE adrift \cup {key, <<place, thing>>}
     /\ HandOn({thing})
     /\ UNCHANGED <<editor, aim, loaded, shown, misses>>

\* Whose lines an answer is added to: an estimate closed meanwhile is in no list any more.
RecipientNow(fetch) == Target
Recipient(fetch) == IF fetch.draft \in OpenDrafts THEN fetch.draft ELSE NoDraft

\* What addBufferToEstimate leaves in the buffer.
EmptiedFirst(over) == <<>>
Emptied(over) == IF over THEN <<>> ELSE buffer

\* fetchGSNHierarchyRecords answers: the item, and the own positions after it.
Fetched(i) ==
  LET fetch == fetches[i]
      rest == Tail(fetch.left)
      known == Known(rest)
      ready == <<Head(fetch.left)>> \o SubSeq(rest, 1, known)
      to == Recipient(fetch)
      over == known = Len(rest)
  IN /\ lines' = IF to = NoDraft THEN lines ELSE [lines EXCEPT ![to] = @ \o ready]
     /\ fetches' = IF over THEN RemoveAt(fetches, i)
                   ELSE [fetches EXCEPT ![i].left = SubSeq(rest, known + 1, Len(rest))]
     /\ buffer' = IF fetch.pastes THEN Emptied(over) ELSE buffer
     /\ steppers' = IF over THEN Redrawn ELSE steppers
     /\ UNCHANGED <<editor, quantities, aim, loaded, shown, adrift, contested, touches, misses>>

\* What is added stays, what is left is given up, and the buffer keeps everything.
FetchFails(i) ==
  /\ misses < MaxMisses /\ misses' = misses + 1
  /\ fetches' = RemoveAt(fetches, i)
  /\ adrift' = adrift \cup {<<fetches[i].draft, row.of>> : row \in ToSet(fetches[i].left)}
  /\ UNCHANGED <<buffer, lines, editor, quantities, aim, steppers, loaded, shown, contested, touches>>

\* addBufferToEstimate, up to the first record it awaits.  No stepper follows the buffer's lines.
PasteBuffer(d) ==
  LET known == Known(buffer)
      over == known = Len(buffer)
  IN /\ Does
     /\ shown = "editor" /\ d \in OpenDrafts /\ buffer # <<>>
     /\ lines' = [lines EXCEPT ![d] = @ \o SubSeq(buffer, 1, known)]
     /\ fetches' = IF over THEN fetches ELSE Append(fetches, Fetch(d, SubSeq(buffer, known + 1, Len(buffer)), TRUE))
     /\ buffer' = Emptied(over)
     /\ adrift' = adrift \cup {<<place, row.of>> : place \in {"buffer", d}, row \in ToSet(buffer)}
     /\ UNCHANGED <<editor, quantities, aim, steppers, loaded, shown, contested, misses>>

\* deleteEstimateLine
DeleteRow(d, i) ==
  /\ Does
  /\ shown = "editor" /\ d \in OpenDrafts
  /\ lines' = [lines EXCEPT ![d] = RemoveAt(@, i)]
  /\ adrift' = adrift \cup {<<d, lines[d][i].of>>}
  /\ HandOn({lines[d][i].of})
  /\ UNCHANGED <<buffer, editor, quantities, aim, steppers, loaded, shown, fetches, misses>>

\* A tab of the base: the own positions are drawn anew, the tree when it is not loaded.
ShowsTab(tab, target, load) ==
  /\ shown' = tab
  /\ steppers' = IF tab = "own" \/ (tab = "gsn" /\ load) THEN [steppers EXCEPT ![tab] = target] ELSE steppers
  /\ loaded' = (loaded \/ tab = "gsn")
Visit(tab) ==
  /\ tab # shown
  /\ ShowsTab(tab, Target, ~loaded)
  /\ UNCHANGED <<buffer, lines, editor, quantities, aim, fetches, adrift, contested, touches, misses>>

\* openEstimateAddLineDialog, and then navigateToBaseForAddLine unless the dialog is cancelled.
AddLine(d, choice) ==
  /\ Does
  /\ shown = "editor" /\ d \in OpenDrafts
  /\ aim' = d
  /\ ShowsTab(choice, d, TRUE)
  /\ UNCHANGED <<buffer, lines, editor, quantities, fetches, adrift, contested, misses>>

OpenEstimate(d) ==
  /\ Does
  /\ editor[d] = "new"
  /\ editor' = [editor EXCEPT ![d] = "open"]
  /\ shown' = "editor"
  /\ UNCHANGED <<buffer, lines, quantities, aim, steppers, loaded, fetches, adrift, contested, misses>>

\* closeEstimateFromEditor, and kickEstimateFromEditor, which may find the user in the base.
CloseEstimate(d) ==
  /\ Does
  /\ d \in OpenDrafts
  /\ editor' = [editor EXCEPT ![d] = "closed"]
  /\ steppers' = IF shown = "editor" THEN steppers
                 ELSE [steppers EXCEPT ![shown] = TargetOf(aim, OpenDrafts \ {d})]
  /\ loaded' = FALSE
  /\ contested' = IF \E i \in DOMAIN fetches : fetches[i].draft = d THEN contested \cup Things ELSE contested
  /\ UNCHANGED <<buffer, lines, quantities, aim, shown, fetches, adrift, misses>>

BufferNext ==
  \/ \E thing \in Things, onBuffer \in BOOLEAN, quantity \in 0..Most : Touch(thing, onBuffer, quantity)
  \/ \E i \in DOMAIN fetches : Fetched(i) \/ FetchFails(i)
  \/ \E d \in Drafts : PasteBuffer(d) \/ OpenEstimate(d) \/ CloseEstimate(d)
                       \/ \E i \in DOMAIN lines[d] : DeleteRow(d, i)
  \/ \E tab \in {"gsn", "own", "editor"} : Visit(tab)
  \/ \E d \in Drafts, choice \in {"gsn", "own", "editor"} : AddLine(d, choice)

BufferSpec == BufferInit /\ [][BufferNext]_bufferVars

-----------------------------------------------------------------------------
(* Properties.                                                             *)

\* A list has one row of a thing, with the quantity, or none if that is 0.
Tells(list, thing, quantity) ==
  IF quantity = 0 THEN Places(list, thing) = {}
  ELSE \E i \in 1..Len(list) : Places(list, thing) = {i} /\ list[i].quantity = quantity

(* A stepper tells how many of a thing are in the buffer or in the         *)
(* estimate: when no record is awaited, the list has one row of it with    *)
(* the stepper's quantity, or none where there is no stepper.  Left out    *)
(* are the lists changed by another hand, by a call in flight, or through  *)
(* a stepper that was drawn for the estimate aimed at before.              *)
SteppersTellTheLists ==
  fetches = <<>> =>
    \A key \in Keys \ adrift : key[1] \in OpenDrafts \cup {"buffer"} =>
      Tells(ListOf(key[1]), key[2], quantities[key])

(* What leaves the buffer other than by its own stepper is in an estimate, *)
(* however many records had to be fetched, fail or come late; except what  *)
(* the user changed on either side meanwhile.                              *)
BufferMovesItsItems ==
  [][quantities' = quantities =>
       \E d \in Drafts : \A row \in ToSet(buffer) \ ToSet(buffer') :
         row.of \in contested \/ row \in ToSet(lines'[d])]_bufferVars
=============================================================================
