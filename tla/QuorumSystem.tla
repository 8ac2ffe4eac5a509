----------------------------- MODULE QuorumSystem -----------------------------
(***************************************************************************)
(* replica/quorum.go and the ballots of replica/replica.go: a ballot names *)
(* a leader (the ballot modulo the number of replicas) and one of the      *)
(* majorities that contain it.  subsets enumerates the majorities in       *)
(* lexicographic order, and each replica numbers those it belongs to.      *)
(***************************************************************************)
EXTENDS Integers, FiniteSets, FiniteSetsExt

CONSTANT N   \* the number of replicas, numbered from 0

ASSUME NAssumption == N \in Nat \ {0}

Replicas == 0 .. N - 1

\* The size of NewMajorityOf, whose quorums are any replicas.
MajoritySize == N \div 2 + 1

\* Leader of replica.go: the replica that owns a ballot.
Leader(ballot) == ballot % N

\* NextBallotOf of replica.go: the next ballot that r owns.
NextBallotOf(r, oldBallot) == (oldBallot \div N + 1) * N + r

\* The quorums of leader l: all sets of the given size it belongs to.
QuorumsOfLeader(l) == {Q \in kSubset(MajoritySize, Replicas) : l \in Q}

\* subsets visits P before Q: at the first replica they differ in, P has it.
VisitedBefore(P, Q) == P # Q /\ Min((P \cup Q) \ (P \cap Q)) \in P

\* The index of quorum Q among those of leader l.
QuorumId(l, Q) == Cardinality({P \in QuorumsOfLeader(l) : VisitedBefore(P, Q)})

\* AQ: the quorum a ballot stands for.
AQ(ballot) ==
  LET l   == Leader(ballot)
      qid == (ballot \div N) % Cardinality(QuorumsOfLeader(l))
  IN  CHOOSE Q \in QuorumsOfLeader(l) : QuorumId(l, Q) = qid
===============================================================================
