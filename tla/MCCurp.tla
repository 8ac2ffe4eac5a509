-------------------------------- MODULE MCCurp --------------------------------
(* Instances of CurpClient for TLC. *)
EXTENDS CurpClient

CONSTANTS r1, r2, c1, c2, k1

\* All commands conflict.
SameKey == [c \in Commands |-> k1]

\* The second replica is the proxy of every client.
WitnessAnswers == [c \in Commands |-> r2]
===============================================================================
