------------------------------- MODULE MCPage --------------------------------
(* Instances of the page's sections for TLC: licences, base and tree.  They *)
(* share no variable: one runs and the others stay as they are.             *)
EXTENDS LicenseSeats, BasePanels, ConstructionTree

CONSTANT Parts
VARIABLE part

OneSeatEach == [s \in Subsections |-> 1]
LoggedIn == {[p \in Pages |-> IF p = "p1" THEN "u1" ELSE "u2"], [p \in Pages |-> "u1"]}

TwoSupplements == <<"s1", "s2">>
MaybeObsolete == {"s1", "s9", Nothing}
HitsPerSet == [set \in {"f1", "f2"} |-> [word \in {"w", "none"} |->
                 IF word = "w" THEN 1 ELSE IF set = "f1" THEN 3 ELSE 2]]

TwoObjects == [o1 |-> "c", o2 |-> "c", e1 |-> "o1", e2 |-> "o2"]
OneOrTwoEstimates == {{"c", "o1", "e1"}, {"c", "o1", "o2", "e1", "e2"}}

Init ==
  /\ part \in Parts
  /\ SeatsInit /\ (part # "seats" =>
       /\ owner = CHOOSE who \in Owners : TRUE
       /\ \A p \in Pages : page[p].set = CHOOSE set \in PriceSets : TRUE)
  /\ PanelsInit /\ (part # "panels" => gsn.supplement = Nothing /\ fgis.set = Nothing)
  /\ TreeInit /\ (part # "tree" => nodesStored = (CHOOSE nodes \in Trees : TRUE) /\ opened = {})

Next ==
  \/ part = "seats" /\ SeatsNext /\ UNCHANGED <<part, panelVars, treeVars>>
  \/ part = "panels" /\ PanelsNext /\ UNCHANGED <<part, seatVars, treeVars>>
  \/ part = "tree" /\ TreeNext /\ UNCHANGED <<part, seatVars, panelVars>>

Spec == Init /\ [][Next]_<<part, seatVars, panelVars, treeVars>>
=============================================================================
