---------------------------- MODULE LeaseProofs -----------------------------
(***************************************************************************)
(* A lease never has more users than seats, however many there are.        *)
(***************************************************************************)
EXTENDS Lease, FiniteSetTheorems, TLAPS

\* Ages are whole numbers, and the seats in use are limited.
LeaseInv ==
  /\ silence \in [Users -> Int]
  /\ SeatsLimited

\* Granting a seat to u leaves in use only the seats in use before, and u's.
LEMMA GrantAddsOne ==
  ASSUME NEW u \in Users, silence \in [Users -> Int], Grant(u)
  PROVE  LiveUsers' \subseteq LiveUsers \cup {u}
BY DEF Grant, LiveUsers, Live, NoSeat

\* No other step puts a seat in use.
LEMMA OthersAddNone ==
  ASSUME silence \in [Users -> Int],
         Purge \/ Tick \/ (\E u \in Users : Drop(u)) \/ UNCHANGED silence
  PROVE  LiveUsers' \subseteq LiveUsers
BY DEF Purge, Tick, Drop, LiveUsers, Live, NoSeat

\* Every step keeps the ages whole.
LEMMA AgesStayWhole ==
  ASSUME silence \in [Users -> Int], [Next]_silence
  PROVE  silence' \in [Users -> Int]
BY DEF Next, Purge, Tick, Grant, Drop, Live, NoSeat

\* Never more users with a live seat than there are seats, for every number of users and of
\* seats (presence/locks.go with one, presence/license_sessions.go with the licences).
THEOREM LeaseLimits ==
  ASSUME IsFiniteSet(Users), Capacity \in Nat
  PROVE  Spec => []SeatsLimited
<1>1. Init => LeaseInv
  <2> SUFFICES ASSUME Init PROVE LeaseInv
    OBVIOUS
  <2>1. silence \in [Users -> Int] /\ LiveUsers = {}
    BY DEF Init, LiveUsers, Live, NoSeat
  <2> QED
    BY <2>1, FS_EmptySet DEF LeaseInv, SeatsLimited
<1>2. LeaseInv /\ [Next]_silence => LeaseInv'
  <2> SUFFICES ASSUME LeaseInv, [Next]_silence PROVE LeaseInv'
    OBVIOUS
  <2>1. IsFiniteSet(LiveUsers)
    BY FS_Subset DEF LiveUsers
  <2>2. SeatsLimited'
    <3>1. CASE \E u \in Users : Grant(u)
      <4>1. PICK u \in Users : Grant(u)
        BY <3>1
      <4>2. LiveUsers' \subseteq LiveUsers \cup {u}
        BY <4>1, GrantAddsOne DEF LeaseInv
      <4>3. Cardinality(LiveUsers \cup {u}) <= Capacity /\ IsFiniteSet(LiveUsers \cup {u})
        <5>1. IsFiniteSet(LiveUsers \cup {u})
              /\ Cardinality(LiveUsers \cup {u}) =
                   IF u \in LiveUsers THEN Cardinality(LiveUsers) ELSE Cardinality(LiveUsers) + 1
          BY <2>1, FS_AddElement
        <5>2. u \in LiveUsers \/ Cardinality(LiveUsers) < Capacity
          BY <4>1 DEF Grant, LiveUsers
        <5>3. Cardinality(LiveUsers) \in Nat
          BY <2>1, FS_CardinalityType
        <5> QED
          BY <5>1, <5>2, <5>3 DEF LeaseInv, SeatsLimited
      <4>4. IsFiniteSet(LiveUsers') /\ Cardinality(LiveUsers') <= Cardinality(LiveUsers \cup {u})
        BY <4>2, <4>3, FS_Subset
      <4>5. Cardinality(LiveUsers') \in Nat /\ Cardinality(LiveUsers \cup {u}) \in Nat
        BY <4>3, <4>4, FS_CardinalityType
      <4> QED
        BY <4>3, <4>4, <4>5 DEF SeatsLimited
    <3>2. CASE ~ \E u \in Users : Grant(u)
      <4>1. LiveUsers' \subseteq LiveUsers
        BY <3>2, OthersAddNone DEF LeaseInv, Next
      <4>2. IsFiniteSet(LiveUsers') /\ Cardinality(LiveUsers') <= Cardinality(LiveUsers)
        BY <2>1, <4>1, FS_Subset
      <4>3. Cardinality(LiveUsers') \in Nat /\ Cardinality(LiveUsers) \in Nat
        BY <2>1, <4>2, FS_CardinalityType
      <4> QED
        BY <4>2, <4>3 DEF LeaseInv, SeatsLimited
    <3> QED
      BY <3>1, <3>2
  <2> QED
    BY <2>2, AgesStayWhole DEF LeaseInv
<1> QED
  BY <1>1, <1>2, PTL DEF Spec, LeaseInv
=============================================================================
