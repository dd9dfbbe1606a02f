-------------------------------- MODULE Lease --------------------------------
(***************************************************************************)
(* What the in-memory tables of package presence promise: a seat is given  *)
(* while there is room, and it is taken away from a user who keeps in      *)
(* touch only if he or an administrator gives it up.                       *)
(***************************************************************************)
EXTENDS Integers, FiniteSets

CONSTANTS
  Users,
  Capacity,  \* seats: 1 for an edit lock, the number of licences for a subsection
  TTL        \* how many ticks of silence a seat survives

NoSeat == -1

VARIABLE silence  \* of every user: ticks since the last renewal of his seat

Live(u) == silence[u] \in 0 .. TTL
LiveUsers == {u \in Users : Live(u)}

Init == silence = [u \in Users |-> NoSeat]

\* A new seat, or a renewal; seats whose time is over are forgotten.
Grant(u) ==
  /\ Live(u) \/ Cardinality(LiveUsers) < Capacity
  /\ silence' = [v \in Users |-> IF v = u THEN 0 ELSE IF Live(v) THEN silence[v] ELSE NoSeat]

\* A seat is given up; seats whose time is over may be forgotten with it.
Drop(u) ==
  \/ silence' = [silence EXCEPT ![u] = NoSeat]
  \/ silence' = [v \in Users |-> IF v # u /\ Live(v) THEN silence[v] ELSE NoSeat]

Purge == silence' = [v \in Users |-> IF Live(v) THEN silence[v] ELSE NoSeat]

Tick ==
  silence' = [v \in Users |-> IF Live(v) THEN silence[v] + 1 ELSE silence[v]]

Next == Purge \/ Tick \/ \E u \in Users : Grant(u) \/ Drop(u)

Spec == Init /\ [][Next]_silence

\* Never more users with a live seat than there are seats.
SeatsLimited == Cardinality(LiveUsers) <= Capacity
=============================================================================
