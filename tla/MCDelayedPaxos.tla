---------------------------- MODULE MCDelayedPaxos ----------------------------
(* Instances of DelayedPaxos for TLC. *)
EXTENDS DelayedPaxos

CONSTANTS c1, c2, c3

\* All commands come over the delayed connection.
NoClients == [r \in Replicas |-> {}]
InTurn    == [i \in CommandIds |-> CASE i = 0 -> c1 [] i = 1 -> c2 [] i = 2 -> c3]
===============================================================================
