---------------------------- MODULE MCCrossings ----------------------------
(* EstimateCalc for TLC in one run of two parts: everybody crosses everybody *)
(* else while nothing has failed and nothing is tried again; or things fail  *)
(* and are tried again beside one start and one consumer.                    *)
EXTENDS MCEstimateCalc

Messages == main \cup retry \cup dlq \cup {cons[c].msg : c \in {k \in Consumers : cons[k].msg # None}}

Calm ==
  /\ faults = 0
  /\ retry = {}
  /\ \A m \in Messages : m.attempt = 1

Alone ==
  /\ Cardinality({t \in Starts : start[t] # NewStart}) <= 1
  /\ Cardinality({c \in Consumers : cons[c] # Idle}) <= 1

(* TLC checks every state it reaches and goes on only from these. *)
CalmOrAlone == Calm \/ Alone
=============================================================================
