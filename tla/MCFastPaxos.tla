----------------------------- MODULE MCFastPaxos -----------------------------
(* Instances of FastPaxos for TLC. *)
EXTENDS FastPaxos, TLC

CONSTANTS c1, c2

\* Bound: replicas 0 and 1 are the only ones that hear of the votes of others; the
\* votes on their way to the other replicas stay there.
OnlyTwoHear == \A r \in Replicas \ {0, 1} : \A m \in handled[r] : m.rep = r

\* Commands are interchangeable: nothing orders them.
CommandSymmetry == Permutations(Commands)
===============================================================================
