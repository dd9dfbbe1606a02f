------------------------------- MODULE MCTable -------------------------------
(* Instances of the estimate table for TLC: its lines, its rows on the     *)
(* screen, and what is added to it from the base.  They share no variable: *)
(* one runs and the others stay as they are.                               *)
EXTENDS EstimateText, TableBody, PositionBuffer

CONSTANT Parts
VARIABLE part

Plain(code, volume) == [code |-> code, volume |-> volume, full |-> FALSE]
Fresh(texts) == [k \in 1..Len(texts) |-> Line(k, texts[k], Uncalculated)]
\* Two lines of one code and one of another; all others come from them by an edit or two.
FewLines == {Fresh(<<Plain("a", 1), Plain("a", 2), Plain("b", 1)>>)}

\* An estimate that was calculated, closed and is opened again.
Finished(texts) == [k \in 1..Len(texts) |-> Line(k, texts[k], Calculated(texts[k]))]
Reopened == {Finished(<<Plain("a", 1), Plain("b", 1)>>)}

SmallAndLarge == {<<"a", "b">>, <<"a", "b", "c">>}

Init ==
  /\ part \in Parts
  /\ TextInit /\ (part # "text" => stored = CHOOSE first \in Opened : TRUE)
  /\ BodyInit /\ (part # "body" => Ids(items) = (CHOOSE ids \in OpenedLines : TRUE) /\ ~estimate.large)
  /\ BufferInit /\ (part # "buffer" => buffer = <<>> /\ OpenDrafts = Drafts)

Next ==
  \/ part = "text" /\ TextNext /\ UNCHANGED <<part, bodyVars, bufferVars>>
  \/ part = "body" /\ BodyNext /\ UNCHANGED <<part, textVars, bufferVars>>
  \/ part = "buffer" /\ BufferNext /\ UNCHANGED <<part, textVars, bodyVars>>

Spec == Init /\ [][Next]_<<part, textVars, bodyVars, bufferVars>>
=============================================================================
