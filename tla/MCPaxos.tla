------------------------------- MODULE MCPaxos -------------------------------
(* Instances of Paxos for TLC. *)
EXTENDS Paxos, TLC

CONSTANTS c1, c2, c3

\* The clients of the only leader, replica 0.
LeaderClients == [r \in Replicas |-> IF r = 0 THEN Commands ELSE {}]

\* Each of replicas 0 and 1 has a client of its own.
TwoClients == [r \in Replicas |-> IF r = 0 THEN {c1} ELSE IF r = 1 THEN {c2} ELSE {}]

\* Replica 0 has two clients and replica 1 has one, or the other way round.
ThreeClients == [r \in Replicas |-> IF r = 0 THEN {c1, c2} ELSE IF r = 1 THEN {c3} ELSE {}]

CommandSymmetry == Permutations(Commands)

\* The two commands of the same client of ThreeClients.
PairSymmetry == Permutations({c1, c2})
===============================================================================
