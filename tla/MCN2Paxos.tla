------------------------------ MODULE MCN2Paxos ------------------------------
(* Instances of N2Paxos for TLC. *)
EXTENDS N2Paxos

CONSTANTS r1, r2, c1, c2

\* The leader r1 answers every client.
LeaderAnswers == [c \in Commands |-> r1]
===============================================================================
