------------------------------- MODULE MCEPaxos -------------------------------
(* Instances of EPaxos for TLC. *)
EXTENDS EPaxos

CONSTANTS c1, c2, c3, k1

\* All commands are on one key, and so is the Noop.
SameKey == [c \in Commands \cup {Noop} |-> k1]

\* The next replicas are the nearest.
InOrder == [r \in Replicas |-> [i \in 1 .. N - 1 |-> (r + i) % N]]

\* Each of replicas 0 and 1 has a client.
TwoClients == [r \in Replicas |-> IF r = 0 THEN {c1} ELSE IF r = 1 THEN {c2} ELSE {}]

\* Replica 0 has two clients and replica 1 one.
PairAndOne == [r \in Replicas |-> IF r = 0 THEN {c1, c2} ELSE IF r = 1 THEN {c3} ELSE {}]

\* Who may recover what: nobody, or everybody everything.
NoRecovery == {}
ByEach     == Replicas \X InstanceIds
===============================================================================
