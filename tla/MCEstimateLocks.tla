--------------------------- MODULE MCEstimateLocks ---------------------------
(* Instances of EstimateLocks for TLC; users are interchangeable.            *)
EXTENDS EstimateLocks, TLC

Symmetry == Permutations(Users)

Resting(v) == ~tab[v].open /\ \A k \in Kinds : call[v][k].at = "idle"

(* The last gesture is an opening, without accidents and while the others    *)
(* rest: enough to open an estimate again that another user has saved.       *)
LastIsAnOpening ==
  gestures = MaxGestures =>
    /\ faults = 0
    /\ \E u \in Users : /\ \A v \in Users \ {u} : Resting(v)
                        /\ call[u]["select"].at = "idle" /\ call[u]["save"].at = "idle"

(* What an accident has left behind is followed while somebody is in the    *)
(* editor or may come in, nobody stays there beside the holder he knows of,  *)
(* and no closed page has a copy outdated by another user, which no gesture  *)
(* is left to open.                                                          *)
MayEdit(u) == tab[u].open \/ call[u]["open"].at # "idle"

AccidentGoesOn ==
  faults > 0 =>
    /\ gestures >= MaxGestures - 1 => \E u \in Users : MayEdit(u)
    /\ \A u \in Users : tab[u].open => tab[u].known \in {None, u}
    /\ \A u \in Users : MayEdit(u) \/ tab[u].copy # "old"

(* TLC checks every state it reaches and goes on only from these.            *)
Interesting == LastIsAnOpening /\ AccidentGoesOn
=============================================================================
