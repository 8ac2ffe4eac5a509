--------------------------- MODULE FastPaxosProofs ---------------------------
(***************************************************************************)
(* Theorems about FastPaxos, for every set of replicas, commands and       *)
(* instances.  The type invariant holds for any fast quorum; the safety    *)
(* theorems are for the fixed fast quorum of a quorum file (FixedQuorum),  *)
(* the case the comments of the code reason about.                         *)
(***************************************************************************)
EXTENDS FastPaxos, FiniteSetTheorems, TLAPS

\* defaultFastQuorum is a Quorum, whose Size is its number of members.
FixedQuorum == QSize = Cardinality(QMembers)
-------------------------------------------------------------------------------
\* Each step keeps every variable in its type, whatever the fast quorum: the
\* fields of the instances, the votes and the history.
LEMMA TypeStep == TypeOK /\ [Next]_vars => TypeOK'
<1> SUFFICES ASSUME TypeOK, [Next]_vars PROVE TypeOK'
  OBVIOUS
<1> USE BoundAssumption, QuorumAssumption, ReplicasAssumption
<1>1. ASSUME NEW r \in Replicas, NEW c \in Commands, HandleProposal(r, c)
      PROVE TypeOK'
  <2> USE <1>1 DEF HandleProposal
  <2>1. next[r] \in Instances
    BY DEF TypeOK, Instances
  <2>2. sent' \subseteq M2B
    BY <2>1 DEF TypeOK, Broadcast, M2B
  <2>3. next' \in [Replicas -> 0 .. INST_NUM]
    BY DEF TypeOK
  <2>4. cmds' \in [Replicas -> SUBSET Commands]
    BY DEF TypeOK
  <2>5. value' \in [Replicas -> [Instances -> Commands \cup {NoCommand}]]
    BY <2>1 DEF TypeOK
  <2> QED
    BY <2>2, <2>3, <2>4, <2>5 DEF TypeOK
<1>2. ASSUME NEW r \in Replicas, NEW m \in sent, Adds(r, m)
      PROVE  /\ m \in M2B
             /\ m2bSets' \in [Replicas -> SUBSET M2B]
             /\ handled' \in [Replicas -> SUBSET M2B]
             /\ Gathered(r, m) \subseteq M2B
  BY <1>2 DEF Adds, Receives, WithVote, Gathered, VotesOf, TypeOK
<1>3. ASSUME NEW r \in Replicas, NEW m \in sent, GatherM2B(r, m)
      PROVE TypeOK'
  BY <1>2, <1>3 DEF GatherM2B, TypeOK
<1>4. ASSUME NEW r \in Replicas, NEW m \in sent, CommitM2B(r, m)
      PROVE TypeOK'
  <2> USE <1>4 DEF CommitM2B
  <2>1. m \in M2B /\ m.inst \in Instances /\ m.cmd \in Commands
    BY <1>2 DEF M2B
  <2>2. value' \in [Replicas -> [Instances -> Commands \cup {NoCommand}]]
    BY <2>1 DEF TypeOK
  <2>3. committed' \in [Replicas -> [Instances -> BOOLEAN]]
    BY <2>1 DEF TypeOK
  <2>4. commits' \in [Replicas -> SUBSET (Instances \X Commands)]
    BY <2>1 DEF TypeOK
  <2>5. panicked' \in [Replicas -> BOOLEAN]
    BY DEF TypeOK, Execute
  <2>6. ran' \in [Replicas -> [Instances -> Commands \cup {NoCommand}]]
    BY <2>2 DEF TypeOK, Execute
  <2>7. lastExecuted' \in [Replicas -> -1 .. INST_NUM - 1]
    BY DEF TypeOK, Execute
  <2> QED
    BY <1>2, <2>2, <2>3, <2>4, <2>5, <2>6, <2>7 DEF TypeOK
<1>5. ASSUME NEW r \in Replicas, NEW m \in sent, RecoverM2B(r, m)
      PROVE TypeOK'
  <2> USE <1>5 DEF RecoverM2B, Collision
  <2>1. m \in M2B /\ m.inst \in Instances /\ m.ballot + 1 \in Nat
    BY <1>2 DEF M2B
  <2>2. PICK v \in Gathered(r, m) :
          /\ value' = [value EXCEPT ![r][m.inst] = v.cmd]
          /\ Broadcast(r, m.inst, v.cmd, m.ballot + 1, m.ballot + 1)
    OBVIOUS
  <2>3. v.cmd \in Commands
    BY <1>2, <2>2 DEF M2B
  <2>4. value' \in [Replicas -> [Instances -> Commands \cup {NoCommand}]]
    BY <2>1, <2>2, <2>3 DEF TypeOK
  <2>5. sent' \subseteq M2B
    BY <2>1, <2>2, <2>3 DEF TypeOK, Broadcast, M2B
  <2>6. ballot' \in [Replicas -> [Instances -> Nat]]
    BY <2>1 DEF TypeOK
  <2>7. cballot' \in [Replicas -> [Instances -> Nat]]
    BY <2>1 DEF TypeOK
  <2> QED
    BY <1>2, <2>4, <2>5, <2>6, <2>7 DEF TypeOK
<1>6. ASSUME NEW r \in Replicas, NEW m \in sent, StaleCollision(r, m)
      PROVE TypeOK'
  BY <1>2, <1>6 DEF StaleCollision, Collision, TypeOK
<1>7. CASE UNCHANGED vars
  BY <1>7 DEF vars, TypeOK
<1> QED
  BY <1>1, <1>3, <1>4, <1>5, <1>6, <1>7 DEF Next, Step, HandleM2B

\* Type correctness of the whole replica state, for any fast quorum.
THEOREM TypeCorrect == Spec => []TypeOK
<1>1. Init => TypeOK
  BY BoundAssumption DEF Init, TypeOK, Instances
<1> QED
  BY <1>1, TypeStep, PTL DEF Spec
-------------------------------------------------------------------------------
\* A vote m that r adds was sent by a member, and so were those it keeps already.
LEMMA CastVotes ==
  ASSUME TypeOK, CastInv, NEW r \in Replicas, NEW m \in sent, Adds(r, m)
  PROVE  /\ m \in M2B /\ m.inst \in Instances /\ m.ballot \in 0 .. MaxBallot
         /\ m2bSets' \in [Replicas -> SUBSET M2B]
         /\ \A q \in Replicas : \A x \in m2bSets'[q] : x \in sent /\ x.rep \in QMembers
         /\ \A x \in Gathered(r, m) : x \in VotesOf(sent, m.inst, m.ballot) /\ x.rep \in QMembers
<1>1. m \in M2B
  BY DEF TypeOK
<1>2. m.inst \in Instances /\ m.ballot \in 0 .. MaxBallot
  BY <1>1, BoundAssumption DEF CastInv, M2B
<1>3. \A x \in WithVote(m2bSets[r], m) : x \in M2B /\ x \in sent /\ x.rep \in QMembers
  BY <1>1 DEF WithVote, Adds, Receives, CastInv, TypeOK
<1>4. m2bSets' = [m2bSets EXCEPT ![r] = WithVote(@, m)]
  BY DEF Adds
<1> HIDE DEF WithVote
<1>5. /\ m2bSets' \in [Replicas -> SUBSET M2B]
      /\ \A q \in Replicas : \A x \in m2bSets'[q] : x \in sent /\ x.rep \in QMembers
  BY <1>3, <1>4 DEF TypeOK, CastInv
<1> QED
  BY <1>1, <1>2, <1>3, <1>5 DEF Gathered, VotesOf

\* The voters a full and unanimous MsgSet has heard of are a fast quorum for its command.
LEMMA FullHasQuorum ==
  ASSUME TypeOK, CastInv, NEW r \in Replicas, NEW m \in sent,
         Adds(r, m), IsFull(r, m), IsUnanimous(r, m)
  PROVE  Cardinality(VotedFor(m.inst, m.cmd, m.ballot)) >= QSize
<1> DEFINE V == Voters(WithVote(m2bSets[r], m), m.inst, m.ballot)
           Q == VotedFor(m.inst, m.cmd, m.ballot)
<1>1. V = {x.rep : x \in Gathered(r, m)}
  BY DEF Voters, Gathered
<1>2. V \subseteq Q
  BY <1>1, CastVotes DEF IsUnanimous, VotedFor
<1>3. IsFiniteSet(Q)
  <2>1. Q \subseteq Replicas
    BY QuorumAssumption DEF VotedFor
  <2> HIDE DEF Q
  <2> QED
    BY <2>1, ReplicasAssumption, FS_Subset
<1>4. Cardinality(V) >= QSize
  BY DEF IsFull
<1> HIDE DEF V, Q
<1>5. /\ Cardinality(V) \in Nat /\ Cardinality(Q) \in Nat
      /\ Cardinality(V) <= Cardinality(Q)
  BY <1>2, <1>3, FS_Subset, FS_CardinalityType
<1>6. Cardinality(Q) >= QSize
  BY <1>4, <1>5, QuorumAssumption
<1> QED
  BY <1>6 DEF Q

\* A fast quorum of sent votes remains one when votes are added.
LEMMA FastQuorumStays ==
  ASSUME sent \subseteq sent', NEW i, NEW c, NEW b, Cardinality(VotedFor(i, c, b)) >= QSize
  PROVE  Cardinality(VotedFor(i, c, b)') >= QSize
<1> DEFINE P == VotedFor(i, c, b)
           Q == VotedFor(i, c, b)'
<1>1. P \subseteq Q /\ Q \subseteq Replicas
  BY QuorumAssumption DEF VotedFor, VotesOf
<1>2. Cardinality(P) >= QSize
  OBVIOUS
<1> HIDE DEF P, Q
<1>3. IsFiniteSet(Q)
  BY <1>1, ReplicasAssumption, FS_Subset
<1>4. /\ Cardinality(P) \in Nat /\ Cardinality(Q) \in Nat
      /\ Cardinality(P) <= Cardinality(Q)
  BY <1>1, <1>3, FS_Subset, FS_CardinalityType
<1>5. Cardinality(Q) >= QSize
  BY <1>2, <1>4, QuorumAssumption
<1> QED
  BY <1>5 DEF Q

\* A commit has the votes of a whole fast quorum at one ballot, for every fast quorum, a
\* fixed one or one of any members.
THEOREM CommitHasFastQuorumHolds == Spec => []CommitHasFastQuorum
<1>1. Init => CastInv
  BY BoundAssumption DEF Init, CastInv, CommitHasFastQuorum
<1>2. ASSUME TypeOK, CastInv, sent \subseteq sent', \A m \in sent' : m.ballot <= MaxBallot,
             \A r \in Replicas : \A i \in Instances : ballot'[r][i] <= MaxBallot,
             \A r \in Replicas : \A m \in m2bSets'[r] : m \in sent /\ m.rep \in QMembers,
             \A r \in Replicas : \A d \in commits'[r] : d \in commits[r] \/ \E b \in 0 .. MaxBallot :
               Cardinality(VotedFor(d[1], d[2], b)) >= QSize
      PROVE  CastInv'
  <2>1. ASSUME NEW r \in Replicas, NEW d \in commits'[r]
        PROVE  \E b \in 0 .. MaxBallot : Cardinality(VotedFor(d[1], d[2], b)') >= QSize
    <3>1. PICK b \in 0 .. MaxBallot : Cardinality(VotedFor(d[1], d[2], b)) >= QSize
      BY <1>2, <2>1 DEF CastInv, CommitHasFastQuorum
    <3>2. Cardinality(VotedFor(d[1], d[2], b)') >= QSize
      BY <1>2, <3>1, FastQuorumStays
    <3> QED
      BY <3>2
  <2>2. CommitHasFastQuorum'
    BY <2>1 DEF CommitHasFastQuorum
  <2> QED
    BY <1>2, <2>2 DEF CastInv
<1>3. ASSUME TypeOK, CastInv, NEW r \in Replicas, NEW c \in Commands, HandleProposal(r, c)
      PROVE  CastInv'
  <2>1. next[r] \in Instances /\ UNCHANGED <<ballot, m2bSets, commits>>
    BY <1>3, BoundAssumption DEF HandleProposal, TypeOK, Instances
  <2>2. sent' = sent \cup {[cmd |-> c, ballot |-> ballot[r][next[r]],
                            cballot |-> cballot[r][next[r]], rep |-> r, inst |-> next[r]]}
    BY <1>3 DEF HandleProposal, Broadcast
  <2>3. ballot[r][next[r]] <= MaxBallot
    BY <1>3, <2>1 DEF CastInv
  <2> QED
    BY <1>2, <1>3, <2>1, <2>2, <2>3 DEF CastInv
<1>4. ASSUME TypeOK, CastInv, NEW r \in Replicas, NEW m \in sent, HandleM2B(r, m)
      PROVE  CastInv'
  <2>1. Adds(r, m)
    BY <1>4 DEF HandleM2B, GatherM2B, CommitM2B, RecoverM2B, StaleCollision, Collision
  <2>2. CASE UNCHANGED <<ballot, sent, commits>>
    BY <1>2, <1>4, <2>1, <2>2, CastVotes DEF CastInv
  <2>3. CASE CommitM2B(r, m)
    <3>1. /\ UNCHANGED <<ballot, sent>>
          /\ commits' = [commits EXCEPT ![r] = @ \cup {<<m.inst, m.cmd>>}]
      BY <2>3 DEF CommitM2B
    <3>2. /\ m.ballot \in 0 .. MaxBallot
          /\ Cardinality(VotedFor(m.inst, m.cmd, m.ballot)) >= QSize
      BY <1>4, <2>1, <2>3, CastVotes, FullHasQuorum DEF CommitM2B
    <3>3. ASSUME NEW q \in Replicas, NEW d \in commits'[q]
          PROVE  d \in commits[q] \/ \E b \in 0 .. MaxBallot : Cardinality(VotedFor(d[1], d[2], b)) >= QSize
      <4>1. d \in commits[q] \/ d = <<m.inst, m.cmd>>
        BY <1>4, <3>1, <3>3 DEF TypeOK
      <4>2. d = <<m.inst, m.cmd>> => d[1] = m.inst /\ d[2] = m.cmd
        OBVIOUS
      <4> QED
        BY <3>2, <4>1, <4>2
    <3> QED
      BY <1>2, <1>4, <2>1, <3>1, <3>3, CastVotes DEF CastInv
  <2>4. CASE RecoverM2B(r, m)
    <3>1. /\ m.ballot < MaxBallot /\ commits' = commits
          /\ ballot' = [ballot EXCEPT ![r][m.inst] = m.ballot + 1]
      BY <2>4 DEF RecoverM2B
    <3>2. PICK v \in Gathered(r, m) : Broadcast(r, m.inst, v.cmd, m.ballot + 1, m.ballot + 1)
      BY <2>4 DEF RecoverM2B
    <3>3. m.ballot + 1 <= MaxBallot
      BY <1>4, <2>1, <3>1, CastVotes, BoundAssumption
    <3>4. \A q \in Replicas : \A i \in Instances : ballot'[q][i] <= MaxBallot
      BY <1>4, <3>1, <3>3 DEF CastInv, TypeOK
    <3>5. sent \subseteq sent' /\ \A x \in sent' : x.ballot <= MaxBallot
      BY <1>4, <3>2, <3>3 DEF CastInv, Broadcast
    <3> QED
      BY <1>2, <1>4, <2>1, <3>1, <3>4, <3>5, CastVotes DEF CastInv
  <2> QED
    BY <1>4, <2>2, <2>3, <2>4 DEF HandleM2B, GatherM2B, StaleCollision
<1>5. ASSUME TypeOK, CastInv, [Next]_vars PROVE CastInv'
  <2>1. CASE UNCHANGED vars
    BY <1>5, <2>1 DEF vars, CastInv, CommitHasFastQuorum, VotedFor, VotesOf
  <2> QED
    BY <1>3, <1>4, <1>5, <2>1 DEF Next, Step
<1>6. TypeOK /\ CastInv /\ [Next]_vars => CastInv'
  BY <1>5
<1>7. CastInv => CommitHasFastQuorum
  BY DEF CastInv
<1> QED
  BY <1>1, <1>6, <1>7, TypeCorrect, PTL DEF Spec
-------------------------------------------------------------------------------
\* What r keeps after adding m are its old votes and m.
LEMMA AddedVotes ==
  ASSUME TypeOK, QuorumInv, NEW r \in Replicas, NEW m \in sent, Adds(r, m)
  PROVE  /\ m \in M2B /\ m.rep \in QMembers /\ m \notin handled[r]
         /\ WithVote(m2bSets[r], m) \subseteq sent
         /\ m \in Gathered(r, m)
         /\ \A x \in Gathered(r, m) : /\ x \in sent
                                      /\ x \in M2B
                                      /\ x.rep \in QMembers
                                      /\ x.inst = m.inst
                                      /\ x.ballot = m.ballot
         /\ m2bSets' = [m2bSets EXCEPT ![r] = WithVote(@, m)]
         /\ handled' = [handled EXCEPT ![r] = @ \cup {m}]
BY DEF TypeOK, QuorumInv, GatheredInv, Adds, Receives, Gathered, VotesOf, WithVote

\* Adding a vote loses none of the replicas already heard of.
LEMMA VotersGrow ==
  ASSUME NEW s, NEW m, NEW i, NEW b
  PROVE  Voters(s, i, b) \subseteq Voters(WithVote(s, m), i, b)
<1> SUFFICES ASSUME NEW x \in s, x.inst = i, x.ballot = b
             PROVE  x.rep \in Voters(WithVote(s, m), i, b)
  BY DEF Voters, VotesOf
<1>1. CASE x.inst = m.inst /\ x.ballot = m.ballot /\ x.rep = m.rep
  BY <1>1 DEF Voters, VotesOf, WithVote
<1>2. CASE ~(x.inst = m.inst /\ x.ballot = m.ballot /\ x.rep = m.rep)
  BY <1>2 DEF Voters, VotesOf, WithVote
<1> QED
  BY <1>1, <1>2

\* A full MsgSet over a fixed fast quorum has heard of every member of it.
LEMMA FullIsQuorum ==
  ASSUME FixedQuorum, TypeOK, QuorumInv,
         NEW r \in Replicas, NEW m \in sent, Adds(r, m), IsFull(r, m)
  PROVE  \A q \in QMembers : \E x \in Gathered(r, m) : x.rep = q
<1> DEFINE V == Voters(WithVote(m2bSets[r], m), m.inst, m.ballot)
<1>1. V \subseteq QMembers
  BY AddedVotes DEF Voters, Gathered
<1>2. IsFiniteSet(QMembers)
  BY ReplicasAssumption, QuorumAssumption, FS_Subset
<1>3. IsFiniteSet(V) /\ Cardinality(V) <= Cardinality(QMembers)
  BY <1>1, <1>2, FS_Subset
<1>4. Cardinality(V) >= Cardinality(QMembers)
  BY DEF FixedQuorum, IsFull
<1>5. V = QMembers
  BY <1>1, <1>2, <1>3, <1>4, FS_Subset, FS_CardinalityType
<1> QED
  BY <1>5 DEF Voters, Gathered

\* Replicas are numbered: the fast quorum has at most one top member.
LEMMA TopIsUnique ==
  ASSUME NEW p, NEW q, IsTop(p), IsTop(q)
  PROVE  p = q
<1>1. p \in Nat /\ q \in Nat
  BY ReplicasAssumption, QuorumAssumption DEF IsTop
<1>2. p <= q /\ q <= p
  BY DEF IsTop
<1> QED
  BY <1>1, <1>2

\* Only votes of ballot 0 collide, at a replica that is still at ballot 0: the
\* votes of ballot 1 all carry what the top member proposed.
LEMMA CollisionAtZero ==
  ASSUME FixedQuorum, TypeOK, QuorumInv,
         NEW r \in Replicas, NEW m \in sent, Collision(r, m)
  PROVE  m.ballot = 0 /\ ballot[r][m.inst] = 0
<1>1. Adds(r, m)
  BY DEF Collision
<1>2. PICK x \in Gathered(r, m) : x.cmd # m.cmd
  BY DEF Collision, IsUnanimous
<1>3. m.ballot \in {0, 1}
  BY <1>1, AddedVotes DEF QuorumInv, VotesInv
<1>4. m.ballot # 1
  <2> SUFFICES ASSUME m.ballot = 1 PROVE FALSE
    OBVIOUS
  <2>1. PICK q \in QMembers : IsTop(q) /\ Proposed(q, m.inst, m.cmd)
    BY <1>1, AddedVotes DEF QuorumInv, VotesInv
  <2>2. PICK p \in QMembers : IsTop(p) /\ Proposed(p, m.inst, x.cmd)
    BY <1>1, <1>2, AddedVotes DEF QuorumInv, VotesInv
  <2>3. p = q
    BY <2>1, <2>2, TopIsUnique
  <2> QED
    BY <1>2, <2>1, <2>2, <2>3 DEF Proposed, QuorumInv, VotesInv
<1>5. ballot[r][m.inst] # 1
  <2> SUFFICES ASSUME ballot[r][m.inst] = 1 PROVE FALSE
    OBVIOUS
  <2>1. m.inst \in Instances
    BY <1>1, AddedVotes DEF M2B
  <2>2. m.rep \in Voters(m2bSets[r], m.inst, 0)
    BY <1>1, <2>1, AddedVotes DEF QuorumInv, GatheredInv
  <2>3. PICK y \in m2bSets[r] : y.rep = m.rep /\ y.inst = m.inst /\ y.ballot = 0
    BY <2>2 DEF Voters, VotesOf
  <2>4. y \in handled[r] /\ y \in sent
    BY <2>3 DEF QuorumInv, GatheredInv
  <2>5. y = m
    BY <1>1, <1>3, <1>4, <2>3, <2>4, AddedVotes DEF QuorumInv, VotesInv
  <2> QED
    BY <1>1, <2>4, <2>5, AddedVotes
<1>6. m.inst \in Instances
  BY <1>1, AddedVotes DEF M2B
<1> QED
  BY <1>3, <1>4, <1>5, <1>6 DEF QuorumInv, GatheredInv

\* What is settled stays settled, as votes are only added.
LEMMA SettledStable ==
  ASSUME sent \subseteq sent', NEW i, NEW c, Settled(i, c)
  PROVE  Settled(i, c)'
BY DEF Settled, Proposed

\* Adding a vote keeps GatheredInv at a replica that stays at its ballots.
LEMMA AddKeepsGathered ==
  ASSUME TypeOK, QuorumInv, NEW r \in Replicas, NEW m \in sent, Adds(r, m),
         UNCHANGED <<ballot, cballot, sent>>
  PROVE  GatheredInv'
<1> SUFFICES ASSUME NEW s \in Replicas
             PROVE  /\ m2bSets'[s] \subseteq handled'[s]
                    /\ handled'[s] \subseteq sent'
                    /\ \A x \in m2bSets'[s] : x.rep \in QMembers
                    /\ \A i \in Instances :
                         /\ cballot'[s][i] = ballot'[s][i]
                         /\ ballot'[s][i] \in {0, 1}
                         /\ ballot'[s][i] = 1 => QMembers \subseteq Voters(m2bSets'[s], i, 0)
  BY DEF GatheredInv, Voters, VotesOf
<1>1. CASE s = r
  <2>1. m2bSets'[r] = WithVote(m2bSets[r], m) /\ handled'[r] = handled[r] \cup {m}
    BY AddedVotes DEF TypeOK
  <2>2. m2bSets'[r] \subseteq handled'[r] /\ handled'[r] \subseteq sent'
    BY <2>1 DEF WithVote, QuorumInv, GatheredInv
  <2>3. \A x \in m2bSets'[r] : x.rep \in QMembers
    BY <2>1, AddedVotes DEF WithVote, QuorumInv, GatheredInv
  <2>4. \A i \in Instances : Voters(m2bSets[r], i, 0) \subseteq Voters(m2bSets'[r], i, 0)
    BY <2>1, VotersGrow
  <2> QED
    BY <1>1, <2>2, <2>3, <2>4 DEF QuorumInv, GatheredInv
<1>2. CASE s # r
  BY <1>2, AddedVotes DEF TypeOK, QuorumInv, GatheredInv
<1> QED
  BY <1>1, <1>2

\* A proposal is voted for in an instance where its replica, if a member of the
\* quorum, has no vote yet: hence at ballot 0.
LEMMA ProposalAtZero ==
  ASSUME TypeOK, QuorumInv, NEW r \in QMembers, next[r] \in Instances
  PROVE  /\ ballot[r][next[r]] = 0
         /\ \A m \in sent : m.rep = r => m.inst # next[r]
<1>1. r \in Replicas /\ next[r] \in Int
  BY QuorumAssumption, BoundAssumption DEF TypeOK, Instances
<1>2. \A m \in sent : m.rep = r => m.inst < next[r] /\ m.inst \in Int
  BY BoundAssumption DEF QuorumInv, VotesInv, TypeOK, M2B, Instances
<1>3. \A m \in sent : m.rep = r => m.inst # next[r]
  BY <1>1, <1>2
<1>4. ballot[r][next[r]] # 1
  BY <1>1, <1>3 DEF QuorumInv, GatheredInv, Voters, VotesOf
<1> QED
  BY <1>1, <1>3, <1>4 DEF QuorumInv, GatheredInv

\* handleProposal keeps the invariant: the new vote is for a command its replica
\* had not voted for, in an instance it had not voted in.
LEMMA ProposalStep ==
  ASSUME TypeOK, QuorumInv, NEW r \in Replicas, NEW c \in Commands, HandleProposal(r, c)
  PROVE  QuorumInv'
<1> DEFINE n == [cmd |-> c, ballot |-> ballot[r][next[r]],
                 cballot |-> cballot[r][next[r]], rep |-> r, inst |-> next[r]]
<1>1. sent' = sent \cup {n} /\ UNCHANGED <<ballot, cballot, m2bSets, handled, commits>>
  BY DEF HandleProposal, Broadcast
<1>2. next[r] \in Instances /\ next[r] \in Nat
  BY BoundAssumption DEF HandleProposal, TypeOK, Instances
<1>3. next' = [next EXCEPT ![r] = @ + 1] /\ cmds' = [cmds EXCEPT ![r] = @ \cup {c}]
      /\ c \notin cmds[r]
  BY DEF HandleProposal
<1>4. \A q \in Replicas : cmds[q] \subseteq cmds'[q] /\ next[q] <= next'[q]
  BY <1>3, BoundAssumption DEF TypeOK
<1>5. \A i, d : Settled(i, d) => Settled(i, d)'
  BY <1>1, SettledStable
<1>6. \A q, i, d : Proposed(q, i, d) => Proposed(q, i, d)'
  BY <1>1 DEF Proposed
<1>7. CommitsInv'
  BY <1>1, <1>5 DEF QuorumInv, CommitsInv
<1>8. GatheredInv'
  BY <1>1 DEF QuorumInv, GatheredInv, Voters, VotesOf
<1>9. ASSUME NEW m \in sent, m.rep \in QMembers
      PROVE  /\ m.inst < next'[m.rep]
             /\ m.cballot = m.ballot
             /\ m.ballot \in {0, 1}
             /\ m.ballot = 0 => m.cmd \in cmds'[m.rep]
             /\ m.ballot = 1 => /\ ballot'[m.rep][m.inst] = 1
                                /\ \E q \in QMembers : IsTop(q) /\ Proposed(q, m.inst, m.cmd)'
  <2> m \in M2B
    BY DEF TypeOK
  <2>1. m.rep \in Replicas /\ m.inst \in Int
    BY DEF M2B, Instances
  <2>2. next[m.rep] <= next'[m.rep] /\ next[m.rep] \in Int /\ next'[m.rep] \in Int
    BY <2>1, <1>2, <1>3, <1>4, BoundAssumption DEF TypeOK
  <2>3. m.inst < next'[m.rep]
    BY <1>9, <2>1, <2>2 DEF QuorumInv, VotesInv
  <2> QED
    BY <1>1, <1>4, <1>6, <1>9, <2>1, <2>3 DEF QuorumInv, VotesInv
<1>10. ASSUME r \in QMembers
       PROVE  /\ n.inst < next'[r]
              /\ n.cballot = 0 /\ n.ballot = 0
              /\ n.cmd \in cmds'[r]
              /\ \A m \in sent : m.rep = r => m.inst # n.inst
              /\ \A m \in sent : (m.rep = r /\ m.ballot = 0) => m.cmd # n.cmd
  <2>1. n.ballot = 0 /\ \A m \in sent : m.rep = r => m.inst # n.inst
    BY <1>2, <1>10, ProposalAtZero
  <2>2. n.cballot = 0
    BY <1>2, <2>1 DEF QuorumInv, GatheredInv
  <2>3. n.inst < next'[r] /\ n.cmd \in cmds'[r]
    BY <1>2, <1>3 DEF TypeOK
  <2>4. \A m \in sent : (m.rep = r /\ m.ballot = 0) => m.cmd # n.cmd
    BY <1>3, <1>10 DEF QuorumInv, VotesInv
  <2> QED
    BY <2>1, <2>2, <2>3, <2>4
<1>11. ASSUME NEW m \in sent', m.rep \in QMembers,
              NEW x \in sent', x.rep = m.rep, x.ballot = m.ballot
       PROVE  /\ x.inst = m.inst => x = m
              /\ (m.ballot = 0 /\ x.cmd = m.cmd) => x = m
  <2>1. CASE m \in sent /\ x \in sent
    BY <1>11, <2>1 DEF QuorumInv, VotesInv
  <2>2. CASE m = n \/ x = n
    BY <1>1, <1>10, <1>11, <2>2
  <2> QED
    BY <1>1, <2>1, <2>2
<1>12. VotesInv'
  <2> SUFFICES ASSUME NEW m \in sent', m.rep \in QMembers
               PROVE  /\ m.inst < next'[m.rep]
                      /\ m.cballot = m.ballot
                      /\ m.ballot \in {0, 1}
                      /\ m.ballot = 0 => m.cmd \in cmds'[m.rep]
                      /\ m.ballot = 1 =>
                           /\ ballot'[m.rep][m.inst] = 1
                           /\ \E q \in QMembers : IsTop(q) /\ Proposed(q, m.inst, m.cmd)'
    BY <1>11 DEF VotesInv, IsTop
  <2>1. CASE m \in sent
    BY <1>9, <2>1
  <2>2. CASE m = n
    BY <1>10, <2>2
  <2> QED
    BY <1>1, <2>1, <2>2
<1> QED
  BY <1>7, <1>8, <1>12 DEF QuorumInv

\* The votes are as they were when no vote is sent and no ballot moves.
LEMMA VotesUnchanged ==
  ASSUME QuorumInv, UNCHANGED <<sent, next, cmds, ballot>>
  PROVE  VotesInv'
BY DEF QuorumInv, VotesInv, Proposed, IsTop

\* A unanimous quorum settles its command: at ballot 0 because all proposed it,
\* at ballot 1 because they voted for the top member's proposal.
LEMMA CommitSettled ==
  ASSUME FixedQuorum, TypeOK, QuorumInv, NEW r \in Replicas, NEW m \in sent,
         Adds(r, m), IsFull(r, m), IsUnanimous(r, m)
  PROVE  Settled(m.inst, m.cmd)
<1>1. m.ballot \in {0, 1}
  BY AddedVotes DEF QuorumInv, VotesInv
<1>2. CASE m.ballot = 0
  <2>1. \A q \in QMembers : Proposed(q, m.inst, m.cmd)
    BY <1>2, FullIsQuorum, AddedVotes DEF IsUnanimous, Proposed
  <2> QED
    BY <2>1 DEF Settled
<1>3. CASE m.ballot = 1
  BY <1>3, AddedVotes DEF QuorumInv, VotesInv, Settled
<1> QED
  BY <1>1, <1>2, <1>3

\* commit keeps the invariant.
LEMMA CommitStep ==
  ASSUME FixedQuorum, TypeOK, QuorumInv,
         NEW r \in Replicas, NEW m \in sent, CommitM2B(r, m)
  PROVE  QuorumInv'
<1>1. Adds(r, m) /\ UNCHANGED <<next, cmds, ballot, cballot, sent>>
  BY DEF CommitM2B
<1>2. VotesInv'
  BY <1>1, VotesUnchanged
<1>3. GatheredInv'
  BY <1>1, AddKeepsGathered
<1>4. Settled(m.inst, m.cmd)
  BY CommitSettled DEF CommitM2B
<1>5. \A i, c : Settled(i, c) => Settled(i, c)'
  BY <1>1, SettledStable
<1>6. commits' = [commits EXCEPT ![r] = @ \cup {<<m.inst, m.cmd>>}]
  BY DEF CommitM2B
<1>7. CommitsInv'
  <2> SUFFICES ASSUME NEW s \in Replicas, NEW d \in commits'[s]
               PROVE  Settled(d[1], d[2])'
    BY DEF CommitsInv
  <2>1. CASE d \in commits[s]
    BY <1>5, <2>1 DEF QuorumInv, CommitsInv
  <2>2. CASE d \notin commits[s]
    BY <1>4, <1>5, <1>6, <2>2 DEF TypeOK
  <2> QED
    BY <2>1, <2>2
<1> QED
  BY <1>2, <1>3, <1>7 DEF QuorumInv

\* The vote picked in a collision is the proposal of the top member, because the
\* votes that collide are those of the whole quorum.
LEMMA MaxVoteIsTop ==
  ASSUME FixedQuorum, TypeOK, QuorumInv,
         NEW r \in Replicas, NEW m \in sent, Collision(r, m),
         NEW v \in Gathered(r, m), IsMaxVote(v, Gathered(r, m))
  PROVE  IsTop(v.rep) /\ Proposed(v.rep, m.inst, v.cmd)
<1>1. Adds(r, m) /\ IsFull(r, m)
  BY DEF Collision
<1>2. m.ballot = 0
  BY CollisionAtZero
<1>3. \A x \in Gathered(r, m) : x.cballot = 0
  BY <1>1, <1>2, AddedVotes DEF QuorumInv, VotesInv
<1>4. \A x \in Gathered(r, m) : x.rep <= v.rep
  BY <1>3 DEF IsMaxVote
<1>5. \A q \in QMembers : q <= v.rep
  BY <1>1, <1>4, FullIsQuorum
<1> QED
  BY <1>1, <1>2, <1>5, AddedVotes DEF IsTop, Proposed

\* Collision recovery keeps the invariant.
LEMMA RecoverStep ==
  ASSUME FixedQuorum, TypeOK, QuorumInv,
         NEW r \in Replicas, NEW m \in sent, RecoverM2B(r, m)
  PROVE  QuorumInv'
<1>1. /\ Collision(r, m) /\ Adds(r, m) /\ IsFull(r, m)
      /\ ballot' = [ballot EXCEPT ![r][m.inst] = m.ballot + 1]
      /\ cballot' = [cballot EXCEPT ![r][m.inst] = m.ballot + 1]
      /\ UNCHANGED <<next, cmds, commits>>
  BY DEF RecoverM2B, Collision
<1>2. m.ballot = 0 /\ ballot[r][m.inst] = 0
  BY <1>1, CollisionAtZero
<1>3. PICK v \in Gathered(r, m) :
        /\ IsMaxVote(v, Gathered(r, m))
        /\ Broadcast(r, m.inst, v.cmd, m.ballot + 1, m.ballot + 1)
  BY DEF RecoverM2B
<1> DEFINE n == [cmd |-> v.cmd, ballot |-> 1, cballot |-> 1, rep |-> r, inst |-> m.inst]
<1>4. sent' = sent \cup {n}
  BY <1>2, <1>3 DEF Broadcast
<1>5. IsTop(v.rep) /\ Proposed(v.rep, m.inst, v.cmd)
  BY <1>1, <1>3, MaxVoteIsTop
<1>6. m \in M2B /\ m.inst \in Instances
  BY <1>1, AddedVotes DEF M2B
<1>7. \A q, i, d : Proposed(q, i, d) => Proposed(q, i, d)'
  BY <1>4 DEF Proposed
<1>8. CommitsInv'
  BY <1>1, <1>4, SettledStable DEF QuorumInv, CommitsInv
<1>9. \A s \in Replicas, i \in Instances :
        /\ ballot'[s][i] = IF s = r /\ i = m.inst THEN 1 ELSE ballot[s][i]
        /\ cballot'[s][i] = IF s = r /\ i = m.inst THEN 1 ELSE cballot[s][i]
  BY <1>1, <1>2, <1>6 DEF TypeOK
<1>10. GatheredInv'
  <2> SUFFICES ASSUME NEW s \in Replicas
               PROVE  /\ m2bSets'[s] \subseteq handled'[s]
                      /\ handled'[s] \subseteq sent'
                      /\ \A x \in m2bSets'[s] : x.rep \in QMembers
                      /\ \A i \in Instances :
                           /\ cballot'[s][i] = ballot'[s][i]
                           /\ ballot'[s][i] \in {0, 1}
                           /\ ballot'[s][i] = 1 => QMembers \subseteq Voters(m2bSets'[s], i, 0)
    BY DEF GatheredInv, Voters, VotesOf
  <2>1. CASE s = r
    <3>1. m2bSets'[r] = WithVote(m2bSets[r], m) /\ handled'[r] = handled[r] \cup {m}
      BY <1>1, AddedVotes DEF TypeOK
    <3>2. m2bSets'[r] \subseteq handled'[r] /\ handled'[r] \subseteq sent'
      BY <1>4, <3>1 DEF WithVote, QuorumInv, GatheredInv
    <3>3. \A x \in m2bSets'[r] : x.rep \in QMembers
      BY <1>1, <3>1, AddedVotes DEF WithVote, QuorumInv, GatheredInv
    <3>4. \A i \in Instances : Voters(m2bSets[r], i, 0) \subseteq Voters(m2bSets'[r], i, 0)
      BY <3>1, VotersGrow
    <3>5. QMembers \subseteq Voters(m2bSets'[r], m.inst, 0)
      BY <1>1, <1>2, <3>1, FullIsQuorum DEF Gathered, Voters
    <3> QED
      BY <1>9, <2>1, <3>2, <3>3, <3>4, <3>5 DEF QuorumInv, GatheredInv
  <2>2. CASE s # r
    BY <1>1, <1>4, <1>9, <2>2, AddedVotes DEF TypeOK, QuorumInv, GatheredInv
  <2> QED
    BY <2>1, <2>2
<1>11. ASSUME r \in QMembers
       PROVE  /\ m.inst < next[r]
              /\ \A x \in sent : (x.rep = r /\ x.ballot = 1) => x.inst # m.inst
  <2>1. PICK y \in Gathered(r, m) : y.rep = r
    BY <1>1, <1>11, FullIsQuorum
  <2>2. m.inst < next[r]
    BY <1>1, <1>11, <2>1, AddedVotes DEF QuorumInv, VotesInv
  <2> QED
    BY <1>2, <1>11, <2>2 DEF QuorumInv, VotesInv
<1>12. ASSUME NEW x \in sent', x.rep \in QMembers,
              NEW y \in sent', y.rep = x.rep, y.ballot = x.ballot
       PROVE  /\ y.inst = x.inst => y = x
              /\ (x.ballot = 0 /\ y.cmd = x.cmd) => y = x
  <2>1. CASE x \in sent /\ y \in sent
    BY <1>12, <2>1 DEF QuorumInv, VotesInv
  <2>2. CASE x = n \/ y = n
    BY <1>4, <1>11, <1>12, <2>2
  <2> QED
    BY <1>4, <2>1, <2>2
<1>13. ASSUME NEW x \in sent, x.rep \in QMembers
       PROVE  /\ x.inst < next'[x.rep]
              /\ x.cballot = x.ballot
              /\ x.ballot \in {0, 1}
              /\ x.ballot = 0 => x.cmd \in cmds'[x.rep]
              /\ x.ballot = 1 => /\ ballot'[x.rep][x.inst] = 1
                                 /\ \E q \in QMembers : IsTop(q) /\ Proposed(q, x.inst, x.cmd)'
  <2> x \in M2B
    BY DEF TypeOK
  <2>1. x.rep \in Replicas /\ x.inst \in Instances
    BY DEF M2B
  <2> QED
    BY <1>1, <1>7, <1>9, <1>13, <2>1 DEF QuorumInv, VotesInv
<1>14. VotesInv'
  <2> SUFFICES ASSUME NEW x \in sent', x.rep \in QMembers
               PROVE  /\ x.inst < next'[x.rep]
                      /\ x.cballot = x.ballot
                      /\ x.ballot \in {0, 1}
                      /\ x.ballot = 0 => x.cmd \in cmds'[x.rep]
                      /\ x.ballot = 1 =>
                           /\ ballot'[x.rep][x.inst] = 1
                           /\ \E q \in QMembers : IsTop(q) /\ Proposed(q, x.inst, x.cmd)'
    BY <1>12 DEF VotesInv, IsTop
  <2>1. CASE x \in sent
    BY <1>13, <2>1
  <2>2. CASE x = n
    BY <1>1, <1>5, <1>6, <1>7, <1>9, <1>11, <2>2 DEF IsTop
  <2> QED
    BY <1>4, <2>1, <2>2
<1> QED
  BY <1>8, <1>10, <1>14 DEF QuorumInv

\* Every step keeps the inductive invariant.
LEMMA QuorumStep ==
  ASSUME FixedQuorum, TypeOK, QuorumInv, [Next]_vars
  PROVE  QuorumInv'
<1>1. ASSUME NEW r \in Replicas, NEW c \in Commands, HandleProposal(r, c)
      PROVE  QuorumInv'
  BY <1>1, ProposalStep
<1>2. ASSUME NEW r \in Replicas, NEW m \in sent, Adds(r, m),
             UNCHANGED <<next, cmds, ballot, cballot, sent, commits>>
      PROVE  QuorumInv'
  <2>1. CommitsInv'
    BY <1>2, SettledStable DEF QuorumInv, CommitsInv
  <2> QED
    BY <1>2, <2>1, AddKeepsGathered, VotesUnchanged DEF QuorumInv
<1>3. ASSUME NEW r \in Replicas, NEW m \in sent, GatherM2B(r, m)
      PROVE  QuorumInv'
  BY <1>2, <1>3 DEF GatherM2B
<1>4. ASSUME NEW r \in Replicas, NEW m \in sent, CommitM2B(r, m)
      PROVE  QuorumInv'
  BY <1>4, CommitStep
<1>5. ASSUME NEW r \in Replicas, NEW m \in sent, RecoverM2B(r, m)
      PROVE  QuorumInv'
  BY <1>5, RecoverStep
<1>6. ASSUME NEW r \in Replicas, NEW m \in sent, StaleCollision(r, m)
      PROVE  QuorumInv'
  BY <1>2, <1>6 DEF StaleCollision, Collision
<1>7. CASE UNCHANGED vars
  BY <1>7 DEF vars, QuorumInv, VotesInv, GatheredInv, CommitsInv, Settled,
              Proposed, IsTop, Voters, VotesOf
<1> QED
  BY <1>1, <1>3, <1>4, <1>5, <1>6, <1>7 DEF Next, Step, HandleM2B

\* The inductive invariant holds for every fixed fast quorum.
THEOREM QuorumInvariant ==
  ASSUME FixedQuorum PROVE Spec => []QuorumInv
<1>1. Init => QuorumInv
  BY DEF Init, QuorumInv, VotesInv, GatheredInv, CommitsInv
<1>2. TypeOK /\ QuorumInv /\ [Next]_vars => QuorumInv'
  BY QuorumStep
<1> QED
  BY <1>1, <1>2, TypeCorrect, PTL DEF Spec
-------------------------------------------------------------------------------
\* Two settled commands of an instance are one, and a settled command has one
\* instance: two quorums, or a quorum and the top member, share a vote.
LEMMA SettledOnce ==
  ASSUME QuorumInv, NEW i, NEW c, NEW j, NEW d, Settled(i, c), Settled(j, d)
  PROVE  /\ i = j => c = d
         /\ c = d => i = j
<1>1. PICK q \in QMembers : Proposed(q, i, c) /\ Proposed(q, j, d)
  <2>1. CASE \A q \in QMembers : Proposed(q, i, c)
    BY <2>1, QuorumAssumption DEF Settled
  <2>2. CASE \A q \in QMembers : Proposed(q, j, d)
    BY <2>2, QuorumAssumption DEF Settled
  <2>3. CASE /\ \E q \in QMembers : IsTop(q) /\ Proposed(q, i, c)
             /\ \E q \in QMembers : IsTop(q) /\ Proposed(q, j, d)
    BY <2>3, TopIsUnique
  <2> QED
    BY <2>1, <2>2, <2>3 DEF Settled
<1> QED
  BY <1>1 DEF QuorumInv, VotesInv, Proposed

\* No instance is committed with two commands, at any two replicas.
THEOREM AgreementHolds ==
  ASSUME FixedQuorum PROVE Spec => []Agreement
<1>1. QuorumInv => Agreement
  BY SettledOnce DEF QuorumInv, CommitsInv, Agreement
<1> QED
  BY <1>1, QuorumInvariant, PTL

\* No command is committed at two instances: the claim of the comment in commit.
THEOREM NoDuplicateCommitHolds ==
  ASSUME FixedQuorum PROVE Spec => []NoDuplicateCommit
<1>1. QuorumInv => NoDuplicateCommit
  BY SettledOnce DEF QuorumInv, CommitsInv, NoDuplicateCommit
<1> QED
  BY <1>1, QuorumInvariant, PTL

\* The branch of handleM2Bs that the code calls unreachable is unreachable.
THEOREM NoStaleCollisionHolds ==
  ASSUME FixedQuorum PROVE Spec => NoStaleCollision
<1>1. ASSUME TypeOK, QuorumInv, NEW r \in Replicas, NEW m, StaleCollision(r, m)
      PROVE  FALSE
  <2>1. m \in sent /\ Collision(r, m)
    BY <1>1 DEF StaleCollision, Collision, Adds, Receives
  <2> QED
    BY <1>1, <2>1, CollisionAtZero DEF StaleCollision
<1>2. TypeOK /\ QuorumInv =>
        \A r \in Replicas : \A m \in handled'[r] \ handled[r] : ~StaleCollision(r, m)
  BY <1>1
<1> QED
  BY <1>2, TypeCorrect, QuorumInvariant, PTL DEF NoStaleCollision

\* A recovery that follows the commit of its instance votes for the committed
\* command.
THEOREM RecoveryKeepsCommitHolds ==
  ASSUME FixedQuorum PROVE Spec => RecoveryKeepsCommit
<1>1. ASSUME TypeOK, QuorumInv, [Next]_vars,
             NEW r \in Replicas, NEW d \in commits[r], ballot'[r][d[1]] # ballot[r][d[1]]
      PROVE  value'[r][d[1]] = d[2]
  <2>1. PICK s \in Replicas, m \in sent : RecoverM2B(s, m)
    BY <1>1 DEF Next, Step, HandleM2B, HandleProposal, GatherM2B, CommitM2B,
                StaleCollision, vars
  <2>2. PICK v \in Gathered(s, m) :
          /\ IsMaxVote(v, Gathered(s, m))
          /\ value' = [value EXCEPT ![s][m.inst] = v.cmd]
    BY <2>1 DEF RecoverM2B
  <2>3. Collision(s, m) /\ ballot' = [ballot EXCEPT ![s][m.inst] = m.ballot + 1]
    BY <2>1 DEF RecoverM2B
  <2>4. d \in Instances \X Commands /\ m.inst \in Instances
    BY <1>1, <2>3, AddedVotes DEF TypeOK, Collision, M2B
  <2>5. s = r /\ m.inst = d[1]
    BY <1>1, <2>3, <2>4 DEF TypeOK
  <2>6. Settled(m.inst, v.cmd)
    BY <1>1, <2>2, <2>3, MaxVoteIsTop DEF Settled, IsTop
  <2>7. v.cmd = d[2]
    BY <1>1, <2>5, <2>6, SettledOnce DEF QuorumInv, CommitsInv
  <2> QED
    BY <1>1, <2>2, <2>4, <2>5, <2>7 DEF TypeOK
<1>2. TypeOK /\ QuorumInv /\ [Next]_vars =>
        \A r \in Replicas : \A d \in commits[r] :
          ballot'[r][d[1]] # ballot[r][d[1]] => value'[r][d[1]] = d[2]
  BY <1>1
<1> QED
  BY <1>2, TypeCorrect, QuorumInvariant, PTL DEF RecoveryKeepsCommit, Spec

\* handleProposal keeps MembersInv: a member's next instance is past all it has committed.
LEMMA ProposalKeepsMembers ==
  ASSUME TypeOK, MembersInv, NEW r \in Replicas, NEW c \in Commands, HandleProposal(r, c)
  PROVE  MembersInv'
<1> SUFFICES ASSUME NEW q \in QMembers, NEW i \in Instances
             PROVE  /\ committed'[q][i] => i < next'[q] /\ <<i, value'[q][i]>> \in commits'[q]
                    /\ i <= lastExecuted'[q] => <<i, ran'[q][i]>> \in commits'[q]
  BY DEF MembersInv
<1>1. q \in Replicas /\ i \in Int /\ next[q] \in Int /\ next[r] \in Instances
  BY QuorumAssumption, BoundAssumption DEF TypeOK, HandleProposal, Instances
<1>2. /\ next'[q] = IF q = r THEN next[q] + 1 ELSE next[q]
      /\ UNCHANGED <<committed, lastExecuted, ran, commits>>
  BY <1>1 DEF HandleProposal, TypeOK
<1>3. q # r \/ i # next[r] => value'[q][i] = value[q][i]
  BY <1>1 DEF HandleProposal, TypeOK
<1>4. ASSUME committed'[q][i]
      PROVE  i < next'[q] /\ <<i, value'[q][i]>> \in commits'[q]
  <2>1. committed[q][i]
    BY <1>2, <1>4
  <2>2. i < next[q] /\ <<i, value[q][i]>> \in commits[q]
    BY <2>1 DEF MembersInv
  <2>3. i < next'[q] /\ value'[q][i] = value[q][i]
    BY <1>1, <1>2, <1>3, <2>2
  <2> QED
    BY <1>2, <2>2, <2>3
<1>5. i <= lastExecuted'[q] => <<i, ran'[q][i]>> \in commits'[q]
  BY <1>2 DEF MembersInv
<1> QED
  BY <1>4, <1>5

\* A recovery at a member votes for what the member has committed, if it has.
LEMMA RecoverKeepsMembers ==
  ASSUME FixedQuorum, TypeOK, QuorumInv, MembersInv,
         NEW r \in Replicas, NEW m \in sent, RecoverM2B(r, m)
  PROVE  MembersInv'
<1> SUFFICES ASSUME NEW q \in QMembers, NEW i \in Instances
             PROVE  /\ committed'[q][i] => i < next'[q] /\ <<i, value'[q][i]>> \in commits'[q]
                    /\ i <= lastExecuted'[q] => <<i, ran'[q][i]>> \in commits'[q]
  BY DEF MembersInv
<1>1. q \in Replicas
  BY QuorumAssumption
<1>2. /\ Collision(r, m) /\ Adds(r, m)
      /\ UNCHANGED <<next, committed, lastExecuted, ran, commits>>
  BY DEF RecoverM2B, Collision
<1>3. PICK v \in Gathered(r, m) :
        /\ IsMaxVote(v, Gathered(r, m))
        /\ value' = [value EXCEPT ![r][m.inst] = v.cmd]
  BY DEF RecoverM2B
<1>4. m.inst \in Instances
  BY <1>2, AddedVotes DEF M2B
<1>5. Settled(m.inst, v.cmd)
  BY <1>2, <1>3, MaxVoteIsTop DEF Settled, IsTop
<1>6. ASSUME q = r, i = m.inst, committed[q][i] PROVE value[q][i] = v.cmd
  <2> DEFINE d == <<i, value[q][i]>>
  <2>1. d \in commits[q] /\ d[1] = i /\ d[2] = value[q][i]
    BY <1>6 DEF MembersInv
  <2>2. Settled(d[1], d[2])
    <3> HIDE DEF d
    <3> QED
      BY <1>1, <2>1 DEF QuorumInv, CommitsInv
  <2> QED
    BY <1>5, <1>6, <2>1, <2>2, SettledOnce
<1>7. committed[q][i] => value'[q][i] = value[q][i]
  BY <1>1, <1>3, <1>4, <1>6 DEF TypeOK
<1> QED
  BY <1>2, <1>7 DEF MembersInv

\* commit keeps MembersInv: the member has a vote of its own in the instance, and what it
\* runs are committed instances.
LEMMA CommitKeepsMembers ==
  ASSUME FixedQuorum, TypeOK, QuorumInv, MembersInv,
         NEW r \in Replicas, NEW m \in sent, CommitM2B(r, m)
  PROVE  MembersInv'
<1> SUFFICES ASSUME NEW q \in QMembers, NEW i \in Instances
             PROVE  /\ committed'[q][i] => i < next'[q] /\ <<i, value'[q][i]>> \in commits'[q]
                    /\ i <= lastExecuted'[q] => <<i, ran'[q][i]>> \in commits'[q]
  BY DEF MembersInv
<1>1. q \in Replicas
  BY QuorumAssumption
<1>2. /\ Adds(r, m) /\ IsFull(r, m) /\ next' = next
      /\ value' = [value EXCEPT ![r][m.inst] = m.cmd]
      /\ committed' = [committed EXCEPT ![r][m.inst] = TRUE]
      /\ commits' = [commits EXCEPT ![r] = @ \cup {<<m.inst, m.cmd>>}]
  BY DEF CommitM2B
<1>3. m.inst \in Instances
  BY <1>2, AddedVotes DEF M2B
<1>4. committed'[q][i] => i < next'[q] /\ <<i, value'[q][i]>> \in commits'[q]
  <2>1. CASE q = r /\ i = m.inst
    <3>1. PICK x \in Gathered(r, m) : x.rep = r
      BY <1>2, <2>1, FullIsQuorum
    <3>2. m.inst < next[r]
      BY <1>2, <2>1, <3>1, AddedVotes DEF QuorumInv, VotesInv
    <3>3. value'[q][i] = m.cmd /\ <<m.inst, m.cmd>> \in commits'[q]
      BY <1>1, <1>2, <1>3, <2>1 DEF TypeOK
    <3> QED
      BY <1>2, <2>1, <3>2, <3>3
  <2>2. CASE q # r \/ i # m.inst
    <3>1. committed'[q][i] = committed[q][i] /\ value'[q][i] = value[q][i]
      BY <1>1, <1>2, <1>3, <2>2 DEF TypeOK
    <3>2. commits[q] \subseteq commits'[q]
      BY <1>1, <1>2 DEF TypeOK
    <3> QED
      BY <1>2, <3>1, <3>2 DEF MembersInv
  <2> QED
    BY <2>1, <2>2
<1>5. i <= lastExecuted'[q] => <<i, ran'[q][i]>> \in commits'[q]
  <2>1. CASE q = r
    <3> DEFINE ready   == ReadyInstances(r)
               missing == {j \in ready : value'[r][j] \notin cmds[r]}
               done    == {j \in ready : \A k \in missing : j < k}
    <3>1. /\ ran' = [ran EXCEPT ![r] =
                      [j \in Instances |-> IF j \in done THEN value'[r][j] ELSE @[j]]]
          /\ \E last \in lastExecuted[r] .. INST_NUM - 1 :
               /\ done = lastExecuted[r] + 1 .. last
               /\ lastExecuted' = [lastExecuted EXCEPT ![r] = last]
      BY DEF CommitM2B, Execute
    <3>2. \A j \in done : j \in Instances /\ committed'[r][j]
      <4>1. \A j \in ready : j \in Instances /\ j \in lastExecuted[r] + 1 .. j
        BY BoundAssumption DEF ReadyInstances, TypeOK, Instances
      <4> QED
        BY <4>1 DEF ReadyInstances
    <3>3. ran'[r][i] = IF i \in done THEN value'[r][i] ELSE ran[r][i]
      BY <3>1 DEF TypeOK
    <3> HIDE DEF done
    <3>4. i <= lastExecuted'[r] => i <= lastExecuted[r] \/ i \in done
      BY <3>1, BoundAssumption DEF TypeOK, Instances
    <3>5. commits[r] \subseteq commits'[r]
      BY <1>2 DEF TypeOK
    <3> QED
      BY <1>4, <2>1, <3>2, <3>3, <3>4, <3>5 DEF MembersInv
  <2>2. CASE q # r
    <3>1. ran'[q] = ran[q] /\ lastExecuted'[q] = lastExecuted[q] /\ commits'[q] = commits[q]
      BY <1>1, <1>2, <2>2 DEF CommitM2B, Execute, TypeOK
    <3> QED
      BY <3>1 DEF MembersInv
  <2> QED
    BY <2>1, <2>2
<1> QED
  BY <1>4, <1>5

\* Members of the fast quorum run the same command at the same instance: each runs what it
\* has committed.
THEOREM MembersExecuteAlikeHolds ==
  ASSUME FixedQuorum PROVE Spec => []MembersExecuteAlike
<1>1. Init => MembersInv
  BY QuorumAssumption DEF Init, MembersInv, Instances
<1>2. ASSUME TypeOK, QuorumInv, MembersInv, [Next]_vars PROVE MembersInv'
  <2>1. ASSUME NEW r \in Replicas, NEW c \in Commands, HandleProposal(r, c) PROVE MembersInv'
    BY <1>2, <2>1, ProposalKeepsMembers
  <2>2. ASSUME NEW r \in Replicas, NEW m \in sent, HandleM2B(r, m) PROVE MembersInv'
    <3>1. CASE UNCHANGED <<next, value, committed, lastExecuted, ran, commits>>
      BY <1>2, <3>1 DEF MembersInv
    <3> QED
      BY <1>2, <2>2, <3>1, RecoverKeepsMembers, CommitKeepsMembers
         DEF HandleM2B, GatherM2B, StaleCollision
  <2>3. CASE UNCHANGED vars
    BY <1>2, <2>3 DEF vars, MembersInv
  <2> QED
    BY <1>2, <2>1, <2>2, <2>3 DEF Next, Step
<1>3. TypeOK /\ QuorumInv /\ MembersInv /\ [Next]_vars => MembersInv'
  BY <1>2
<1>4. ASSUME QuorumInv, MembersInv PROVE MembersExecuteAlike
  <2> SUFFICES ASSUME NEW r \in QMembers, NEW s \in QMembers, NEW i \in Instances,
                      i <= lastExecuted[r], i <= lastExecuted[s]
               PROVE  ran[r][i] = ran[s][i]
    BY DEF MembersExecuteAlike
  <2> DEFINE d == <<i, ran[r][i]>>
             e == <<i, ran[s][i]>>
  <2>1. d \in commits[r] /\ e \in commits[s]
    BY <1>4 DEF MembersInv
  <2>2. Settled(d[1], d[2]) /\ Settled(e[1], e[2])
    <3> HIDE DEF d, e
    <3> QED
      BY <1>4, <2>1, QuorumAssumption DEF QuorumInv, CommitsInv
  <2> QED
    BY <1>4, <2>2, SettledOnce
<1>5. QuorumInv /\ MembersInv => MembersExecuteAlike
  BY <1>4
<1> QED
  BY <1>1, <1>3, <1>5, TypeCorrect, QuorumInvariant, PTL DEF Spec

\* The commits of all the replicas implement one replicated log.
THEOREM Refinement ==
  ASSUME FixedQuorum PROVE Spec => ImplementsConsensus
<1>1. Init => Abstract!Init
  BY DEF Init, Abstract!Init
<1>2. ASSUME TypeOK, QuorumInv, [Next]_vars
      PROVE  [Abstract!Next]_commits
  <2>1. ASSUME NEW r \in Replicas, NEW m \in sent, CommitM2B(r, m)
        PROVE  Abstract!Next
    <3>1. commits' = [commits EXCEPT ![r] = @ \cup {<<m.inst, m.cmd>>}]
      BY <2>1 DEF CommitM2B
    <3>2. m.inst \in Instances /\ m.cmd \in Commands
      BY <1>2, <2>1, AddedVotes DEF CommitM2B, M2B
    <3>3. Settled(m.inst, m.cmd)
      BY <1>2, <2>1, CommitSettled DEF CommitM2B
    <3>4. \A s \in Replicas : \A d \in commits[s] :
            (d[1] = m.inst => d[2] = m.cmd) /\ (d[2] = m.cmd => d[1] = m.inst)
      BY <1>2, <3>3, SettledOnce DEF QuorumInv, CommitsInv
    <3>5. Abstract!Learn(r, m.inst, m.cmd)
      BY <3>1, <3>4 DEF Abstract!Learn, Abstract!Decided
    <3> QED
      BY <3>2, <3>5 DEF Abstract!Next
  <2>2. CASE UNCHANGED commits
    BY <2>2
  <2> QED
    BY <1>2, <2>1, <2>2 DEF Next, Step, HandleM2B, HandleProposal, GatherM2B,
                         RecoverM2B, StaleCollision, vars
<1>3. TypeOK /\ QuorumInv /\ [Next]_vars => [Abstract!Next]_commits
  BY <1>2
<1> QED
  BY <1>1, <1>3, TypeCorrect, QuorumInvariant, PTL
     DEF Spec, ImplementsConsensus, Abstract!Spec
===============================================================================
