-------------------------- MODULE PaxosLeaderProofs --------------------------
(***************************************************************************)
(* Theorems about Paxos under one leader and at most one replica that may  *)
(* fail: StableInv is an invariant, and the replicated log follows from    *)
(* it.  Each handler is taken in turn; what the handlers of the other      *)
(* replicas have in common is in OthersKeep.                               *)
(***************************************************************************)
EXTENDS PaxosProofs


\* What a step of the one leader, or of the others, never takes back.
Grows(l) ==
  \A i \in Instances :
    /\ lb[l][i] # NoLB => lb'[l][i] # NoLB /\ Batch(l, i)' = Batch(l, i)
    /\ Proposed(l, i) => Proposed(l, i)'
    /\ lb[l][i] # NoLB /\ Backed(l, i) => Backed(l, i)'

LEMMA MessageKept ==
  ASSUME NEW l \in Replicas, TypeOK, MessageInv(l), Grows(l),
         \A n \in DOMAIN network' \ DOMAIN network : Expected(l, n)'
  PROVE  MessageInv(l)'
<1> SUFFICES ASSUME NEW n \in DOMAIN network' PROVE Expected(l, n)'
  BY DEF MessageInv
<1>1. CASE n \in DOMAIN network
  <2>1. Expected(l, n) /\ n.inst \in Instances
    BY <1>1, MessageFields DEF MessageInv, TypeOK
  <2> QED
    BY <2>1 DEF Expected, Grows
<1> QED
  BY <1>1

LEMMA BackedKept ==
  ASSUME NEW l \in Replicas, TypeOK, MessageInv(l), ProposalInv(l), BackedInv(l), Grows(l),
         \A n \in DOMAIN network' \ DOMAIN network :
           n.type \in {"AcceptReply", "CommitShort"} => Backed(l, n.inst)',
         \A i \in Instances : lb'[l][i] # NoLB /\ lb'[l][i].acceptOKs > 0 =>
           (lb[l][i] # NoLB /\ lb[l][i].acceptOKs > 0) \/ Backed(l, i)',
         \A r \in Replicas, i \in Instances : Committed(r, i)' =>
           (lb[l][i] # NoLB /\ Committed(r, i)) \/ Backed(l, i)'
  PROVE  BackedInv(l)'
<1>1. ASSUME NEW n \in DOMAIN network', n.type \in {"AcceptReply", "CommitShort"}
      PROVE  Backed(l, n.inst)'
  <2>1. CASE n \in DOMAIN network
    <3>1. n.inst \in Instances /\ lb[l][n.inst] # NoLB /\ Backed(l, n.inst)
      BY <1>1, <2>1, MessageFields DEF MessageInv, Expected, TypeOK, BackedInv
    <3> QED
      BY <3>1 DEF Grows
  <2> QED
    BY <1>1, <2>1
<1>2. ASSUME NEW i \in Instances, lb'[l][i] # NoLB, lb'[l][i].acceptOKs > 0
      PROVE  Backed(l, i)'
  BY <1>2 DEF BackedInv, Grows
<1>3. ASSUME NEW r \in Replicas, NEW i \in Instances, Committed(r, i)'
      PROVE  Backed(l, i)'
  BY <1>3 DEF BackedInv, Grows
<1> QED
  BY <1>1, <1>2, <1>3 DEF BackedInv

LEMMA LogKept ==
  ASSUME NEW l \in Replicas, LogInv(l), Grows(l), log' = log
  PROVE  LogInv(l)'
BY DEF LogInv, Grows

LEMMA AnswersKept ==
  ASSUME AnsweredIsExecuted, UNCHANGED <<log, replied>>
  PROVE  AnsweredIsExecuted'
BY DEF AnsweredIsExecuted

\* The promises that are asked for, or carried: whether a step changes them.
SamePrepares ==
  \A n : IsPrepare(n) => /\ n \in DOMAIN network' <=> n \in DOMAIN network
                         /\ n \in DOMAIN network => network'[n] = network[n]

LEMMA WaitingKept ==
  ASSUME SamePrepares
  PROVE  /\ \A i \in Instances : Waiting(i)' = Waiting(i)
         /\ AskedOnceInv => AskedOnceInv'
<1>1. ASSUME NEW i \in Instances PROVE Waiting(i)' = Waiting(i)
  BY DEF SamePrepares, Waiting
<1>2. AskedOnceInv => AskedOnceInv'
  BY DEF SamePrepares, AskedOnceInv
<1> QED
  BY <1>1, <1>2

\* The copies of the messages that a handler leaves, consumes and sends.
LEMMA RepliesCounts ==
  ASSUME NEW m \in DOMAIN network, NEW ms, IsABag(network), Replies(m, ms)
  PROVE  /\ \A n : n # m /\ n \notin ms =>
              /\ n \in DOMAIN network' <=> n \in DOMAIN network
              /\ n \in DOMAIN network => network'[n] = network[n]
         /\ m \notin ms /\ network[m] = 1 => m \notin DOMAIN network'
         /\ \A n \in ms \ DOMAIN network : n \in DOMAIN network' /\ network'[n] = 1
<1> DEFINE rest == network (-) SetToBag({m})
<1>1. /\ DOMAIN rest = {n \in DOMAIN network : n # m \/ network[n] > 1}
      /\ \A n \in DOMAIN rest : rest[n] = IF n = m THEN network[n] - 1 ELSE network[n]
      /\ \A n \in DOMAIN network : network[n] \in Nat
  BY DEF IsABag, SetToBag, (-)
<1>2. network' = rest (+) SetToBag(ms)
  BY DEF Replies
<1> HIDE DEF rest
<1>3. network' = [e \in DOMAIN rest \cup ms |->
                    (IF e \in DOMAIN rest THEN rest[e] ELSE 0)
                    + (IF e \in ms THEN SetToBag(ms)[e] ELSE 0)]
  BY <1>2 DEF SetToBag, (+)
<1>4. \A e \in ms : SetToBag(ms)[e] = 1
  BY DEF SetToBag
<1> QED
  BY <1>1, <1>3, <1>4

LEMMA SendsCounts ==
  ASSUME NEW ms, IsABag(network), Sends(ms)
  PROVE  /\ \A n : n \notin ms => /\ n \in DOMAIN network' <=> n \in DOMAIN network
                                  /\ n \in DOMAIN network => network'[n] = network[n]
         /\ \A n \in ms \ DOMAIN network : n \in DOMAIN network' /\ network'[n] = 1
<1>1. network' = [e \in DOMAIN network \cup ms |->
                    (IF e \in DOMAIN network THEN network[e] ELSE 0)
                    + (IF e \in ms THEN SetToBag(ms)[e] ELSE 0)]
  BY DEF Sends, SetToBag, (+)
<1>2. \A e \in ms : SetToBag(ms)[e] = 1
  BY DEF SetToBag
<1>3. \A n \in DOMAIN network : network[n] \in Nat
  BY DEF IsABag
<1> QED
  BY <1>1, <1>2, <1>3

\* Neither an Accept, nor its answer, nor a commit is a promise.
LEMMA OtherMessages ==
  ASSUME NEW m \in DOMAIN network, NEW ms, IsABag(network), Replies(m, ms),
         ~IsPrepare(m), \A n \in ms : ~IsPrepare(n)
  PROVE  SamePrepares
BY RepliesCounts DEF SamePrepares

LEMMA SmallF ==
  ASSUME NEW l, OneLeader(l)
  PROVE  /\ l \in Replicas /\ l \in Nat /\ l # -1
         /\ N \in Nat \ {0} /\ F \in 0 .. 1
<1>1. N \in Nat \ {0} /\ l \in 0 .. N - 1
  BY SizeAssumption DEF OneLeader, Replicas
<1>2. (N - 1) \div 2 \in Nat
  BY <1>1
<1> QED
  BY <1>1, <1>2 DEF OneLeader, Replicas, F

\* The replicas that have not promised are finitely many.
LEMMA WaitingFinite ==
  ASSUME NEW i
  PROVE  IsFiniteSet(Waiting(i)) /\ Waiting(i) \subseteq Replicas /\ Cardinality(Waiting(i)) \in Nat
<1>1. IsFiniteSet(Replicas)
  BY SizeAssumption, FS_Interval DEF Replicas
<1>2. Waiting(i) \subseteq Replicas
  BY DEF Waiting
<1> QED
  BY <1>1, <1>2, FS_Subset, FS_CardinalityType
-------------------------------------------------------------------------------
(***************************************************************************)
(* The handlers of the other replicas.                                     *)
(***************************************************************************)

\* What a handler of q, not the leader, may do to its instance i.
Obeys(l, q, i) ==
  /\ Follows(l, q, i)'
  /\ instanceSpace'[q][i] # NoInstance =>
       {instanceSpace'[q][i].bal, instanceSpace'[q][i].vbal} \subseteq {-1, l}
  /\ lb[l][i] # NoLB /\ Holds(q, i, Batch(l, i)) => Holds(q, i, Batch(l, i))'
  /\ Committed(q, i)' =>
       \/ Committed(q, i)
       \/ Backed(l, i)' /\ (Committed(l, i) \/ Waiting(i)' = {})

\* What it may send.
Answers(l, m) ==
  /\ Expected(l, m)'
  /\ m.type # "CommitShort"
  /\ m.type = "AcceptReply" => Backed(l, m.inst)'
  /\ m.type = "Commit" => Committed(l, m.inst) /\ Waiting(m.inst)' = {}

\* A step that leaves the leader's books and instances alone.
OthersStep(l) ==
  /\ UNCHANGED <<lb, log, replied, panicked, toRecover, isLeader, smallestDefaultBallot>>
  /\ \A s \in Replicas : maxRecvBallot'[s] \in {-1, l}
  /\ \A s, q \in Replicas : defaultBallot'[s][q] \in {-1, l}
  /\ \A j \in Instances : instanceSpace'[l][j] = instanceSpace[l][j]
  /\ \A q \in Replicas \ {l}, j \in Instances :
       instanceSpace'[q][j] = instanceSpace[q][j] \/ Obeys(l, q, j)
  /\ \A j \in Instances : Waiting(j)' \subseteq Waiting(j)
  /\ AskedOnceInv'
  /\ \A n \in DOMAIN network' \ DOMAIN network : Answers(l, n)

LEMMA OthersKeep ==
  ASSUME NEW l, OneLeader(l), TypeOK, TypeOK', StableInv(l), PlacedOnce', OthersStep(l)
  PROVE  StableInv(l)'
<1>0. l \in Replicas
  BY DEF OneLeader
<1>1. /\ lb' = lb /\ UNCHANGED <<log, replied, panicked>>
      /\ \A j \in Instances : instanceSpace'[l][j] = instanceSpace[l][j]
  BY DEF OthersStep
<1>2. \A j \in Instances : /\ Proposed(l, j)' <=> Proposed(l, j)
                           /\ Committed(l, j)' <=> Committed(l, j)
                           /\ Batch(l, j)' = Batch(l, j)
  BY <1>1 DEF Proposed, Committed, Batch
<1>3. \A q \in Replicas, j \in Instances : \A c : instanceSpace'[q][j] = instanceSpace[q][j] =>
        /\ Holds(q, j, c)' <=> Holds(q, j, c)
        /\ Committed(q, j)' <=> Committed(q, j)
  BY DEF Holds, Committed
<1>4. Grows(l)
  <2>1. ASSUME NEW j \in Instances, lb[l][j] # NoLB, Backed(l, j) PROVE Backed(l, j)'
    <3>1. PICK q \in Replicas \ {l} : Holds(q, j, Batch(l, j))
      BY <2>1 DEF Backed
    <3>2. Holds(q, j, Batch(l, j))'
      BY <1>2, <1>3, <2>1, <3>1 DEF OthersStep, Obeys
    <3> QED
      BY <3>2 DEF Backed
  <2> QED
    BY <1>1, <1>2, <2>1 DEF Grows
<1>5. OneBallotInv(l)'
  <2>1. ASSUME NEW r \in Replicas, NEW i \in Instances, instanceSpace'[r][i] # NoInstance
        PROVE  {instanceSpace'[r][i].bal, instanceSpace'[r][i].vbal} \subseteq {-1, l}
    BY <2>1 DEF OthersStep, Obeys, StableInv, OneBallotInv
  <2>2. ASSUME NEW r \in Replicas
        PROVE  /\ toRecover'[r] = <<>>
               /\ isLeader'[r] => r = l
               /\ {maxRecvBallot'[r], smallestDefaultBallot'[r]} \subseteq {-1, l}
               /\ \A q \in Replicas : defaultBallot'[r][q] \in {-1, l}
               /\ \A i \in Instances : lb'[r][i] # NoLB => r = l
    BY <2>2 DEF OthersStep, StableInv, OneBallotInv
  <2> QED
    BY <2>1, <2>2 DEF OneBallotInv
<1>6. ProposalInv(l)'
  <2>1. ProposalInv(l)
    BY DEF StableInv
  <2> QED
    BY <1>1, <1>2, <2>1 DEF ProposalInv
<1>7. MessageInv(l)'
  BY <1>0, <1>4, MessageKept DEF OthersStep, Answers, StableInv
<1>8. AcceptorInv(l)'
  <2>1. ASSUME NEW q \in Replicas \ {l}, NEW i \in Instances PROVE Follows(l, q, i)'
    <3>1. CASE instanceSpace'[q][i] = instanceSpace[q][i]
      <4>1. Follows(l, q, i)
        BY DEF StableInv, AcceptorInv
      <4> QED
        BY <1>1, <1>2, <3>1, <4>1 DEF Follows, Proposed, Committed
    <3> QED
      BY <3>1 DEF OthersStep, Obeys
  <2> QED
    BY <2>1 DEF AcceptorInv
<1>9. CountInv(l)'
  <2>1. ASSUME NEW i \in Instances, lb'[l][i] # NoLB
        PROVE  /\ Cardinality(Waiting(i)') + lb'[l][i].prepareOKs <= N - 1
               /\ Proposed(l, i)' => Cardinality(Waiting(i)') <= F
    <3>1. Cardinality(Waiting(i)') <= Cardinality(Waiting(i)) /\ Cardinality(Waiting(i)') \in Nat
      <4>1. Waiting(i)' \subseteq Waiting(i) /\ IsFiniteSet(Waiting(i))
        BY WaitingFinite DEF OthersStep
      <4> QED
        BY <4>1, FS_Subset, FS_CardinalityType
    <3>2. lb[l][i] \in LeaderBookkeeping /\ lb'[l][i] = lb[l][i]
      BY <1>0, <1>1, <2>1 DEF TypeOK
    <3>3. /\ Cardinality(Waiting(i)) + lb[l][i].prepareOKs <= N - 1
          /\ Proposed(l, i) => Cardinality(Waiting(i)) <= F
      BY <1>1, <2>1 DEF StableInv, CountInv
    <3>4. Cardinality(Waiting(i)) \in Nat /\ lb[l][i].prepareOKs \in Nat /\ N \in Nat /\ F \in Nat
      BY <3>2, WaitingFinite, SmallF DEF LeaderBookkeeping
    <3> QED
      BY <1>2, <3>1, <3>2, <3>3, <3>4
  <2> QED
    BY <2>1 DEF CountInv
<1>10. LateInv(l)'
  <2>1. ASSUME NEW n \in DOMAIN network'
        PROVE  /\ n.type = "Commit" => Committed(l, n.inst)' /\ Waiting(n.inst)' = {}
               /\ n.type = "CommitShort" => Committed(l, n.inst)' \/ Waiting(n.inst)' = {}
    <3>1. n.inst \in Instances
      BY MessageFields DEF TypeOK
    <3>2. Waiting(n.inst)' \subseteq Waiting(n.inst)
      BY <3>1 DEF OthersStep
    <3> QED
      BY <1>2, <3>1, <3>2 DEF OthersStep, Answers, StableInv, LateInv
  <2>2. ASSUME NEW q \in Replicas \ {l}, NEW i \in Instances, Committed(q, i)'
        PROVE  Committed(l, i)' \/ Waiting(i)' = {}
    <3>1. Waiting(i)' \subseteq Waiting(i)
      BY DEF OthersStep
    <3>2. Committed(q, i) => Committed(l, i) \/ Waiting(i) = {}
      BY DEF StableInv, LateInv
    <3>3. Committed(q, i) \/ Committed(l, i) \/ Waiting(i)' = {}
      BY <1>3, <2>2 DEF OthersStep, Obeys
    <3> QED
      BY <1>2, <3>1, <3>2, <3>3
  <2> QED
    BY <2>1, <2>2 DEF LateInv
<1>11. BackedInv(l)'
  <2>1. \A i \in Instances : lb'[l][i] # NoLB /\ lb'[l][i].acceptOKs > 0 =>
          (lb[l][i] # NoLB /\ lb[l][i].acceptOKs > 0) \/ Backed(l, i)'
    BY <1>1
  <2>2. ASSUME NEW r \in Replicas, NEW i \in Instances, Committed(r, i)'
        PROVE  (lb[l][i] # NoLB /\ Committed(r, i)) \/ Backed(l, i)'
    <3>1. CASE Committed(r, i)
      <4>1. lb[l][i] # NoLB
        <5>1. CASE r = l
          BY <3>1, <5>1 DEF StableInv, ProposalInv, Committed
        <5>2. CASE r # l
          <6>1. Follows(l, r, i)
            BY <5>2 DEF StableInv, AcceptorInv
          <6> QED
            BY <3>1, <6>1 DEF Follows, Proposed, Committed
        <5> QED
          BY <5>1, <5>2
      <4> QED
        BY <3>1, <4>1
    <3>2. CASE ~Committed(r, i)
      <4>1. r # l
        BY <1>2, <2>2, <3>2
      <4>2. instanceSpace'[r][i] # instanceSpace[r][i]
        BY <1>3, <2>2, <3>2
      <4>3. Obeys(l, r, i)
        BY <4>1, <4>2 DEF OthersStep
      <4> QED
        BY <2>2, <3>2, <4>3 DEF Obeys
    <3> QED
      BY <3>1, <3>2
  <2>3. \A n \in DOMAIN network' \ DOMAIN network :
          n.type \in {"AcceptReply", "CommitShort"} => Backed(l, n.inst)'
    BY DEF OthersStep, Answers
  <2>4. MessageInv(l) /\ ProposalInv(l) /\ BackedInv(l)
    BY DEF StableInv
  <2> QED
    BY <1>0, <1>4, <2>1, <2>2, <2>3, <2>4, BackedKept
<1>12. LogInv(l)' /\ AnsweredIsExecuted'
  <2>1. LogInv(l) /\ AnsweredIsExecuted
    BY DEF StableInv
  <2> QED
    BY <1>0, <1>1, <1>4, <2>1, LogKept, AnswersKept
<1> QED
  BY <1>5, <1>6, <1>7, <1>8, <1>9, <1>10, <1>11, <1>12 DEF StableInv, OthersStep

\* A promise that is consumed, and no other asked for.
LEMMA PromiseConsumed ==
  ASSUME NEW m \in DOMAIN network, NEW ms, IsABag(network), Replies(m, ms),
         AskedOnceInv, IsPrepare(m), \A n \in ms : ~IsPrepare(n)
  PROVE  /\ AskedOnceInv'
         /\ \A i \in Instances :
              Waiting(i)' = IF i = m.inst THEN Waiting(i) \ {Asked(m)} ELSE Waiting(i)
<1>1. \A n : IsPrepare(n) =>
        /\ n \in DOMAIN network' <=> n \in DOMAIN network /\ n # m
        /\ n \in DOMAIN network' => network'[n] = network[n]
  <2>1. network[m] = 1 /\ m \notin ms
    BY DEF AskedOnceInv
  <2> QED
    BY <2>1, RepliesCounts
<1>2. AskedOnceInv'
  BY <1>1 DEF AskedOnceInv
<1>3. ASSUME NEW i \in Instances
      PROVE  Waiting(i)' = IF i = m.inst THEN Waiting(i) \ {Asked(m)} ELSE Waiting(i)
  <2>1. ASSUME NEW q \in Replicas
        PROVE  q \in Waiting(i)' <=> q \in Waiting(i) /\ ~(i = m.inst /\ q = Asked(m))
    <3>1. q \in Waiting(i)' <=>
            \E n \in DOMAIN network : n # m /\ IsPrepare(n) /\ n.inst = i /\ Asked(n) = q
      BY <1>1 DEF Waiting
    <3>2. q \in Waiting(i) <=>
            \E n \in DOMAIN network : IsPrepare(n) /\ n.inst = i /\ Asked(n) = q
      BY DEF Waiting
    <3>3. \A n \in DOMAIN network :
            IsPrepare(n) /\ n.inst = m.inst /\ Asked(n) = Asked(m) => n = m
      BY DEF AskedOnceInv
    <3> QED
      BY <3>1, <3>2, <3>3
  <2>2. Waiting(i) \subseteq Replicas /\ Waiting(i)' \subseteq Replicas
    BY DEF Waiting
  <2> QED
    BY <2>1, <2>2
<1> QED
  BY <1>2, <1>3

\* A Prepare that is answered with the promise it asks for.
LEMMA PrepareAnswered ==
  ASSUME NEW m \in DOMAIN network, NEW reply, IsABag(network), Replies(m, {reply}),
         AskedOnceInv, IsPrepare(m), IsPrepare(reply), reply # m,
         reply.inst = m.inst, Asked(reply) = Asked(m)
  PROVE  /\ AskedOnceInv'
         /\ \A i \in Instances : Waiting(i)' = Waiting(i)
<1>1. reply \notin DOMAIN network /\ network[m] = 1
  BY DEF AskedOnceInv
<1>2. \A n : IsPrepare(n) =>
        /\ n \in DOMAIN network' <=> (n \in DOMAIN network /\ n # m) \/ n = reply
        /\ n \in DOMAIN network' => network'[n] = 1
  <2>1. m \notin DOMAIN network' /\ reply \in DOMAIN network' /\ network'[reply] = 1
    BY <1>1, RepliesCounts
  <2>2. \A n : n # m /\ n # reply =>
          /\ n \in DOMAIN network' <=> n \in DOMAIN network
          /\ n \in DOMAIN network => network'[n] = network[n]
    BY RepliesCounts
  <2> QED
    BY <2>1, <2>2 DEF AskedOnceInv
<1>3. AskedOnceInv'
  BY <1>2 DEF AskedOnceInv
<1>4. ASSUME NEW i \in Instances PROVE Waiting(i)' = Waiting(i)
  BY <1>2 DEF Waiting
<1> QED
  BY <1>3, <1>4

\* What a message in transit says of its instance.
LEMMA StableMessage ==
  ASSUME NEW l, OneLeader(l), TypeOK, StableInv(l), NEW m \in DOMAIN network
  PROVE  /\ m \in Message /\ m.inst \in Instances /\ Expected(l, m)
         /\ lb[l][m.inst] \in LeaderBookkeeping
         /\ m.type # "Commit" => m.bal = l
<1>1. m \in Message /\ m.inst \in Instances
  BY MessageFields DEF TypeOK
<1>2. Expected(l, m)
  BY DEF StableInv, MessageInv
<1>3. lb[l][m.inst] \in LeaderBookkeeping
  BY <1>1, <1>2, SmallF DEF Expected, TypeOK
<1> QED
  BY <1>1, <1>2, <1>3 DEF Expected

\* Learning of the ballot of the leader teaches nothing else.
LEMMA StableBallot ==
  ASSUME NEW l, OneLeader(l), TypeOK, StableInv(l), NEW r \in Replicas, LearnsBallot(r, l)
  PROVE  \A s \in Replicas : maxRecvBallot'[s] \in {-1, l}
<1>1. \A s \in Replicas : maxRecvBallot[s] \in {-1, l}
  BY DEF StableInv, OneBallotInv
<1> QED
  BY <1>1, SmallF DEF LearnsBallot, MaxOf, TypeOK

\* A step that changes no instance and sends nothing.
LEMMA QuietKeeps ==
  ASSUME NEW l, OneLeader(l), TypeOK, StableInv(l),
         UNCHANGED <<lb, log, replied, panicked, toRecover, isLeader, smallestDefaultBallot,
                     instanceSpace, defaultBallot>>,
         \A s \in Replicas : maxRecvBallot'[s] \in {-1, l},
         \/ network' = network
         \/ \E m \in DOMAIN network : ~IsPrepare(m) /\ Replies(m, {})
  PROVE  OthersStep(l)
<1>1. SamePrepares /\ DOMAIN network' \subseteq DOMAIN network
  <2>1. CASE network' = network
    BY <2>1 DEF SamePrepares
  <2>2. ASSUME NEW m \in DOMAIN network, ~IsPrepare(m), Replies(m, {})
        PROVE  SamePrepares /\ DOMAIN network' \subseteq DOMAIN network
    BY <2>2, OtherMessages, NothingSent DEF TypeOK
  <2> QED
    BY <2>1, <2>2
<1>2. AskedOnceInv' /\ \A i \in Instances : Waiting(i)' = Waiting(i)
  BY <1>1, WaitingKept DEF StableInv
<1>3. \A s, q \in Replicas : defaultBallot'[s][q] \in {-1, l}
  BY DEF StableInv, OneBallotInv
<1> QED
  BY <1>1, <1>2, <1>3 DEF OthersStep

\* Once the leader has committed at most one promise is missing.
LEMMA LastPromise ==
  ASSUME NEW l, OneLeader(l), StableInv(l), NEW i \in Instances,
         lb[l][i] # NoLB, Committed(l, i), NEW r \in Waiting(i)
  PROVE  Waiting(i) = {r}
<1>1. Cardinality(Waiting(i)) <= 1
  <2>1. Cardinality(Waiting(i)) <= F
    BY DEF StableInv, CountInv, Proposed, Committed
  <2> QED
    BY <2>1, SmallF, WaitingFinite
<1>2. ASSUME NEW q \in Waiting(i), q # r PROVE FALSE
  <2>1. {q, r} \subseteq Waiting(i) /\ IsFiniteSet(Waiting(i))
    BY WaitingFinite
  <2>2. Cardinality({q, r}) = 2
    <3>1. IsFiniteSet({r}) /\ Cardinality({r}) = 1
      BY FS_Singleton
    <3>2. Cardinality({r} \cup {q}) = 2
      <4>1. q \notin {r}
        BY <1>2
      <4>2. Cardinality({r} \cup {q}) = Cardinality({r}) + 1
        BY <3>1, <4>1, FS_AddElement
      <4> QED
        BY <3>1, <4>2
    <3>3. {q, r} = {r} \cup {q}
      OBVIOUS
    <3> QED
      BY <3>2, <3>3
  <2>3. 2 <= Cardinality(Waiting(i))
    BY <2>1, <2>2, FS_Subset
  <2> QED
    BY <1>1, <2>3, WaitingFinite
<1> QED
  BY <1>2

LEMMA HandlePrepareCommittedStable ==
  ASSUME NEW l, OneLeader(l), TypeOK, StableInv(l), NEW r \in Replicas,
         NEW m \in DOMAIN network, HandlePrepareCommitted(r, m)
  PROVE  OthersStep(l)
<1> DEFINE x == Found(r, m.inst)
           reply == [type |-> "Commit", to |-> m.leader, leader |-> m.leader,
                     inst |-> m.inst, bal |-> x.vbal, cmds |-> OnWire(x.cmds)]
           i == m.inst
<1>1. /\ m.type = "Prepare" /\ m.to = r /\ x.status = "COMMITTED" /\ Replies(m, {reply})
      /\ LearnsBallot(r, m.bal)
      /\ UNCHANGED <<leaderVars, defaultBallot, execVars, lifeVars, instanceSpace, lb, crtInstance>>
  BY DEF HandlePrepareCommitted, Receives
<1>2. i \in Instances /\ Expected(l, m) /\ m.bal = l /\ lb[l][i] # NoLB /\ r # l /\ m.leader = l
  BY <1>1, StableMessage DEF Expected
<1>3. Committed(r, i)
  BY <1>1 DEF Found, FreshInstance, Committed
<1>4. r \in Waiting(i)
  BY <1>1 DEF Waiting, IsPrepare, Asked
<1>5. Committed(l, i)
  <2>1. Committed(l, i) \/ Waiting(i) = {}
    BY <1>2, <1>3 DEF StableInv, LateInv
  <2> QED
    BY <1>4, <2>1
<1>6. Waiting(i) = {r}
  BY <1>2, <1>4, <1>5, LastPromise
<1>7. /\ AskedOnceInv' /\ Waiting(i)' = {}
      /\ \A j \in Instances : Waiting(j)' \subseteq Waiting(j)
  <2>1. IsPrepare(m) /\ ~IsPrepare(reply) /\ Asked(m) = r
    BY <1>1 DEF IsPrepare, Asked
  <2>2. /\ AskedOnceInv'
        /\ \A j \in Instances :
             Waiting(j)' = IF j = m.inst THEN Waiting(j) \ {Asked(m)} ELSE Waiting(j)
    BY <1>1, <2>1, PromiseConsumed DEF StableInv, TypeOK
  <2> QED
    BY <1>2, <1>6, <2>1, <2>2
<1>8. DOMAIN network' \subseteq DOMAIN network \cup {reply}
  BY <1>1, RepliesBag DEF TypeOK
<1>9. ASSUME NEW n \in DOMAIN network' \ DOMAIN network PROVE Answers(l, n)
  <2>1. n.type = "Commit" /\ n.to = l /\ n.leader = l /\ n.inst = i
    BY <1>2, <1>8, <1>9
  <2>2. Expected(l, n)'
    BY <1>1, <1>2, <1>5, <2>1 DEF Expected, Proposed, Committed
  <2> QED
    BY <1>5, <1>7, <2>1, <2>2 DEF Answers
<1> HIDE DEF reply
<1>10. \A s \in Replicas : maxRecvBallot'[s] \in {-1, l}
  BY <1>1, <1>2, StableBallot
<1>11. \A s, q \in Replicas : defaultBallot'[s][q] \in {-1, l}
  BY <1>1 DEF StableInv, OneBallotInv
<1> QED
  BY <1>1, <1>7, <1>9, <1>10, <1>11 DEF OthersStep, leaderVars, execVars, lifeVars

\* What the instance of another replica holds, or the one it creates.
LEMMA StableInstance ==
  ASSUME NEW l, OneLeader(l), TypeOK, StableInv(l), NEW r \in Replicas \ {l}, NEW i \in Instances
  PROVE  /\ Found(r, i) \in Instance
         /\ {Found(r, i).bal, Found(r, i).vbal} \subseteq {-1, l}
         /\ Found(r, i).status \in {"ACCEPTED", "COMMITTED"} =>
              /\ instanceSpace[r][i] = Found(r, i) /\ instanceSpace[r][i] # NoInstance
              /\ lb[l][i] # NoLB /\ Proposed(l, i)
              /\ Found(r, i).bal = l
              /\ Found(r, i).cmds = Batch(l, i)
                   \/ (Found(r, i).cmds = Nil /\ Found(r, i).status = "COMMITTED")
         /\ Found(r, i).status \notin {"ACCEPTED", "COMMITTED"} => Found(r, i).cmds = Nil
<1>1. Found(r, i) \in Instance
  BY FoundType
<1>2. CASE instanceSpace[r][i] = NoInstance
  <2>1. defaultBallot[r][r] \in {-1, l}
    BY DEF StableInv, OneBallotInv
  <2> QED
    BY <1>1, <1>2, <2>1 DEF Found, FreshInstance
<1>3. CASE instanceSpace[r][i] # NoInstance
  <2>1. Found(r, i) = instanceSpace[r][i]
    BY <1>3 DEF Found
  <2>2. Follows(l, r, i)
    BY DEF StableInv, AcceptorInv
  <2>3. {instanceSpace[r][i].bal, instanceSpace[r][i].vbal} \subseteq {-1, l}
    BY <1>3 DEF StableInv, OneBallotInv
  <2> QED
    BY <1>1, <1>3, <2>1, <2>2, <2>3 DEF Follows, Proposed, Committed
<1> QED
  BY <1>2, <1>3

LEMMA HandlePrepareStable ==
  ASSUME NEW l, OneLeader(l), TypeOK, StableInv(l), NEW r \in Replicas,
         NEW m \in DOMAIN network, HandlePrepare(r, m)
  PROVE  OthersStep(l)
<1> DEFINE i == m.inst
           x == Found(r, i)
           promises == x.bal < m.bal
           y == IF promises THEN [x EXCEPT !.bal = m.bal, !.status = "PREPARED"] ELSE x
           reply == [type |-> "PrepareReply", to |-> m.leader, inst |-> m.inst,
                     bal |-> y.bal, vbal |-> y.vbal, defaultBal |-> defaultBallot'[r][r],
                     acceptor |-> r, cmds |-> OnWire(y.cmds)]
<1>1. /\ m.type = "Prepare" /\ m.to = r /\ x.status # "COMMITTED" /\ Replies(m, {reply})
      /\ LearnsBallot(r, m.bal)
      /\ instanceSpace' = [instanceSpace EXCEPT ![r][i] = y]
      /\ UNCHANGED <<leaderVars, execVars, lifeVars, lb>>
  BY DEF HandlePrepare, Receives, SetInstance
<1>2. i \in Instances /\ Expected(l, m) /\ m.bal = l /\ lb[l][i] # NoLB /\ r # l /\ m.leader = l
  BY <1>1, StableMessage DEF Expected
<1>3. \A s, q \in Replicas : defaultBallot'[s][q] \in {-1, l}
  <2>1. /\ defaultBallot \in [Replicas -> [Replicas -> Ballots]]
        /\ \A s, q \in Replicas : defaultBallot[s][q] \in {-1, l}
    BY DEF StableInv, OneBallotInv, TypeOK
  <2> DEFINE d == IF promises /\ crtInstance'[r] = i THEN m.bal ELSE defaultBallot[r][r]
  <2>2. defaultBallot' = [defaultBallot EXCEPT ![r][r] = d] /\ d \in {-1, l}
    BY <1>2, <2>1 DEF HandlePrepare
  <2> HIDE DEF d
  <2> QED
    BY <2>1, <2>2
<1>4. /\ x \in Instance /\ {x.bal, x.vbal} \subseteq {-1, l}
      /\ x.status = "ACCEPTED" => /\ instanceSpace[r][i] = x /\ x.bal = l
      /\ x.status # "ACCEPTED" => x.cmds = Nil
      /\ instanceSpace[r][i] # NoInstance => instanceSpace[r][i] = x
  BY <1>1, <1>2, StableInstance DEF Found
<1>5. /\ y \in Instance /\ y.bal = l /\ y.vbal \in {-1, l} /\ y.status # "COMMITTED"
      /\ y.status = "ACCEPTED" => y = x /\ x.status = "ACCEPTED"
      /\ y.status # "ACCEPTED" => y.cmds = Nil
  <2>0. m.bal \in Ballots
    BY MessageFields DEF TypeOK
  <2> HIDE DEF x
  <2>1. CASE promises
    <3>1. x.status # "ACCEPTED" /\ x.cmds = Nil
      BY <1>2, <1>4, <2>1, SmallF
    <3>2. y = [x EXCEPT !.bal = m.bal, !.status = "PREPARED"]
      BY <2>1
    <3> QED
      BY <1>2, <1>4, <2>0, <3>1, <3>2 DEF Instance, Statuses
  <2>2. CASE ~promises
    BY <1>1, <1>2, <1>4, <2>2, SmallF
  <2> QED
    BY <2>1, <2>2
<1>6. /\ reply.type = "PrepareReply" /\ reply.to = l /\ reply.inst = i /\ reply.bal = l
      /\ reply.vbal \in {-1, l} /\ reply.defaultBal \in {-1, l} /\ reply.acceptor = r
  BY <1>2, <1>3, <1>5
<1> HIDE DEF x, y, reply
<1>7. /\ AskedOnceInv' /\ \A j \in Instances : Waiting(j)' = Waiting(j)
  <2>1. IsPrepare(m) /\ IsPrepare(reply) /\ Asked(m) = Asked(reply) /\ reply # m
    BY <1>1, <1>6 DEF IsPrepare, Asked
  <2> QED
    BY <1>1, <1>6, <2>1, PrepareAnswered DEF StableInv, TypeOK
<1>8. DOMAIN network' \subseteq DOMAIN network \cup {reply}
  BY <1>1, RepliesBag DEF TypeOK
<1>9. ASSUME NEW n \in DOMAIN network' \ DOMAIN network PROVE Answers(l, n)
  <2>1. n = reply /\ lb' = lb
    BY <1>1, <1>8, <1>9
  <2> QED
    BY <1>2, <1>6, <2>1 DEF Answers, Expected
<1>10. \A s \in Replicas : maxRecvBallot'[s] \in {-1, l}
  BY <1>1, <1>2, StableBallot
<1>11. \A q \in Replicas, j \in Instances :
         instanceSpace'[q][j] = IF q = r /\ j = i THEN y ELSE instanceSpace[q][j]
  BY <1>1, <1>2 DEF TypeOK
<1>12. Obeys(l, r, i)
  <2>1. instanceSpace'[r][i] = y
    BY <1>2, <1>11
  <2>2. Follows(l, r, i)'
    <3>1. CASE y.status = "ACCEPTED"
      <4>1. y = instanceSpace[r][i] /\ Follows(l, r, i)
        BY <1>2, <1>4, <1>5, <3>1 DEF StableInv, AcceptorInv
      <4>2. instanceSpace'[l][i] = instanceSpace[l][i] /\ lb' = lb
        BY <1>1, <1>2, <1>11, SmallF
      <4> QED
        BY <2>1, <4>1, <4>2 DEF Follows, Proposed, Committed, Batch
    <3>2. CASE y.status # "ACCEPTED"
      BY <1>5, <2>1, <3>2 DEF Follows, Proposed, Committed
    <3> QED
      BY <3>1, <3>2
  <2>3. Holds(r, i, Batch(l, i)) => Holds(r, i, Batch(l, i))'
    <3>1. ASSUME Holds(r, i, Batch(l, i)) PROVE y = x /\ instanceSpace[r][i] = x
      <4>1. x.status = "ACCEPTED" /\ instanceSpace[r][i] = x
        BY <1>1, <1>4, <3>1 DEF Holds
      <4> QED
        BY <1>2, <1>4, <4>1, SmallF DEF y
    <3>2. lb' = lb
      BY <1>1
    <3> QED
      BY <2>1, <3>1, <3>2 DEF Holds, Batch
  <2>4. ~Committed(r, i)'
    BY <1>5, <2>1 DEF Committed
  <2> QED
    BY <1>5, <2>1, <2>2, <2>3, <2>4 DEF Obeys
<1> QED
  BY <1>1, <1>2, <1>3, <1>7, <1>9, <1>10, <1>11, <1>12, SmallF
  DEF OthersStep, leaderVars, execVars, lifeVars

LEMMA HandleAcceptStable ==
  ASSUME NEW l, OneLeader(l), TypeOK, StableInv(l), NEW r \in Replicas,
         NEW m \in DOMAIN network, HandleAccept(r, m)
  PROVE  OthersStep(l)
<1> DEFINE i == m.inst
           x == instanceSpace[r][i]
           takes == x = NoInstance \/ (m.bal >= x.bal /\ x.status # "COMMITTED")
           y == IF takes THEN [cmds |-> m.cmds, bal |-> m.bal, vbal |-> m.bal,
                               status |-> "ACCEPTED"]
                ELSE x
           reply == [type |-> "AcceptReply", to |-> m.leader, inst |-> m.inst, bal |-> y.bal]
<1>1. /\ m.type = "Accept" /\ m.to = r /\ Replies(m, {reply})
      /\ LearnsBallot(r, m.bal)
      /\ instanceSpace' = [instanceSpace EXCEPT ![r][i] = y]
      /\ UNCHANGED <<leaderVars, defaultBallot, execVars, lifeVars, lb>>
  BY DEF HandleAccept, Receives, SetInstance
<1>2. /\ i \in Instances /\ m.bal = l /\ lb[l][i] # NoLB /\ r # l /\ m.leader = l
      /\ Proposed(l, i) /\ m.cmds = Batch(l, i)
  BY <1>1, StableMessage DEF Expected
<1>3. /\ x # NoInstance => x.bal \in {-1, l}
      /\ ~takes => Committed(r, i) /\ x.bal = l
  <2>1. x # NoInstance => x.bal \in {-1, l}
    BY <1>2 DEF StableInv, OneBallotInv
  <2>2. ~takes => Committed(r, i)
    BY <1>2, <2>1, SmallF DEF Committed
  <2>3. Committed(r, i) => x.bal = l
    BY <1>2 DEF StableInv, AcceptorInv, Follows, Proposed, Committed
  <2> QED
    BY <2>1, <2>2, <2>3
<1>4. y.bal = l
  BY <1>2, <1>3
<1>5. reply.type = "AcceptReply" /\ reply.to = l /\ reply.inst = i /\ reply.bal = l
  BY <1>2, <1>4
<1>6. takes => /\ y # NoInstance /\ y.bal = l /\ y.vbal = l
               /\ y.status = "ACCEPTED" /\ y.cmds = Batch(l, i)
  <2>1. l \in Ballots /\ m.cmds \in Slices
    BY <1>1, <1>2, MessageFields DEF TypeOK
  <2>2. [cmds |-> m.cmds, bal |-> m.bal, vbal |-> m.bal, status |-> "ACCEPTED"] \in Instance
    BY <1>2, <2>1 DEF Instance, Statuses
  <2> QED
    BY <1>2, <2>2, NothingAssumption
<1>7. ~takes => y = x
  OBVIOUS
<1> HIDE DEF takes, x, y, reply
<1>8. \A q \in Replicas, j \in Instances :
         instanceSpace'[q][j] = IF q = r /\ j = i THEN y ELSE instanceSpace[q][j]
  BY <1>1, <1>2 DEF TypeOK
<1>9. instanceSpace'[l][i] = instanceSpace[l][i] /\ instanceSpace'[r][i] = y /\ lb' = lb
  BY <1>1, <1>2, <1>8, SmallF
<1>10. Backed(l, i)'
  <2>1. CASE takes
    <3>1. Holds(r, i, Batch(l, i))'
      BY <1>6, <1>9, <2>1 DEF Holds, Batch
    <3> QED
      BY <1>2, <3>1 DEF Backed
  <2>2. CASE ~takes
    <3>1. Backed(l, i)
      BY <1>2, <1>3, <2>2 DEF StableInv, BackedInv
    <3>2. \A q \in Replicas : instanceSpace'[q][i] = instanceSpace[q][i]
      BY <1>2, <1>7, <1>8, <2>2 DEF x
    <3> QED
      BY <1>9, <3>1, <3>2 DEF Backed, Holds, Batch
  <2> QED
    BY <2>1, <2>2
<1>11. takes => Obeys(l, r, i)
  <2> SUFFICES ASSUME takes PROVE Obeys(l, r, i)
    OBVIOUS
  <2>1. Holds(r, i, Batch(l, i))'
    BY <1>6, <1>9 DEF Holds, Batch
  <2>2. Follows(l, r, i)'
    BY <1>2, <1>6, <1>9 DEF Follows, Proposed, Committed, Batch
  <2>3. ~Committed(r, i)'
    BY <1>6, <1>9 DEF Committed
  <2> QED
    BY <1>6, <1>9, <2>1, <2>2, <2>3 DEF Obeys
<1>12. /\ AskedOnceInv' /\ \A j \in Instances : Waiting(j)' = Waiting(j)
  <2>1. ~IsPrepare(m) /\ ~IsPrepare(reply)
    BY <1>1, <1>5 DEF IsPrepare
  <2> QED
    BY <1>1, <2>1, OtherMessages, WaitingKept DEF StableInv, TypeOK
<1>13. DOMAIN network' \subseteq DOMAIN network \cup {reply}
  BY <1>1, RepliesBag DEF TypeOK
<1>14. ASSUME NEW n \in DOMAIN network' \ DOMAIN network PROVE Answers(l, n)
  <2>1. n = reply
    BY <1>13, <1>14
  <2>2. Proposed(l, i)'
    BY <1>2, <1>9 DEF Proposed
  <2>3. Expected(l, n)'
    BY <1>2, <1>5, <1>9, <2>1, <2>2 DEF Expected
  <2> QED
    BY <1>5, <1>10, <2>1, <2>3 DEF Answers
<1>15. \A s \in Replicas : maxRecvBallot'[s] \in {-1, l}
  BY <1>1, <1>2, StableBallot
<1>16. \A s, q \in Replicas : defaultBallot'[s][q] \in {-1, l}
  BY <1>1 DEF StableInv, OneBallotInv
<1>17. \A q \in Replicas \ {l}, j \in Instances :
         instanceSpace'[q][j] = instanceSpace[q][j] \/ Obeys(l, q, j)
  BY <1>7, <1>8, <1>11 DEF x
<1> QED
  BY <1>1, <1>2, <1>8, <1>12, <1>14, <1>15, <1>16, <1>17, SmallF
  DEF OthersStep, leaderVars, execVars, lifeVars

LEMMA HandleCommitShortStable ==
  ASSUME NEW l, OneLeader(l), TypeOK, StableInv(l), NEW r \in Replicas,
         NEW m \in DOMAIN network, HandleCommitShort(r, m)
  PROVE  OthersStep(l)
<1> DEFINE i == m.inst
           x == instanceSpace[r][i]
           ignored == x = NoInstance \/ x.status = "COMMITTED" \/ m.bal < x.bal
           y == IF ignored THEN x ELSE [x EXCEPT !.status = "COMMITTED", !.bal = m.bal]
<1>1. /\ m.type = "CommitShort" /\ m.to = r /\ Replies(m, {})
      /\ instanceSpace' = [instanceSpace EXCEPT ![r][i] = y]
      /\ UNCHANGED <<leaderVars, ballotVars, execVars, lifeVars, lb, crtInstance>>
  BY DEF HandleCommitShort, Receives, SetInstance
<1>2. i \in Instances /\ m.bal = l /\ lb[l][i] # NoLB /\ r # l /\ Proposed(l, i)
  BY <1>1, StableMessage DEF Expected
<1>3. Backed(l, i) /\ (Committed(l, i) \/ Waiting(i) = {})
  BY <1>1 DEF StableInv, BackedInv, LateInv
<1>4. ~IsPrepare(m)
  BY <1>1 DEF IsPrepare
<1>5. /\ AskedOnceInv' /\ \A j \in Instances : Waiting(j)' = Waiting(j)
      /\ DOMAIN network' \subseteq DOMAIN network
  BY <1>1, <1>4, OtherMessages, WaitingKept, NothingSent DEF StableInv, TypeOK
<1>6. \A q \in Replicas, j \in Instances :
         instanceSpace'[q][j] = IF q = r /\ j = i THEN y ELSE instanceSpace[q][j]
  BY <1>1, <1>2 DEF TypeOK
<1>7. lb' = lb
  BY <1>1
<1>8. ~ignored => Obeys(l, r, i)
  <2> SUFFICES ASSUME ~ignored PROVE Obeys(l, r, i)
    OBVIOUS
  <2>1. /\ x \in Instance /\ x.vbal \in {-1, l}
        /\ x.cmds = Batch(l, i) \/ x.cmds = Nil
    <3>1. x \in Instance
      BY <1>2 DEF TypeOK
    <3>2. x.vbal \in {-1, l}
      BY <1>2 DEF StableInv, OneBallotInv
    <3>3. Follows(l, r, i)
      BY <1>2 DEF StableInv, AcceptorInv
    <3> QED
      BY <3>1, <3>2, <3>3 DEF Follows
  <2>2. /\ y.status = "COMMITTED" /\ y.bal = l /\ y.vbal = x.vbal /\ y.cmds = x.cmds
        /\ instanceSpace'[r][i] = y /\ instanceSpace'[l][i] = instanceSpace[l][i]
        /\ y # NoInstance
    <3>1. l \in Ballots
      BY <1>2, MessageFields DEF TypeOK
    <3>2. y = [x EXCEPT !.status = "COMMITTED", !.bal = l]
      BY <1>2
    <3>3. y \in Instance
      BY <2>1, <3>1, <3>2 DEF Instance, Statuses
    <3>4. y.status = "COMMITTED" /\ y.bal = l /\ y.vbal = x.vbal /\ y.cmds = x.cmds
      <4> HIDE DEF y, ignored
      <4> QED
        BY <2>1, <3>2 DEF Instance
    <3>5. y # NoInstance
      BY <3>3, NothingAssumption
    <3>6. instanceSpace'[r][i] = y /\ instanceSpace'[l][i] = instanceSpace[l][i]
      BY <1>2, <1>6, SmallF
    <3> QED
      BY <3>4, <3>5, <3>6
  <2> HIDE DEF y
  <2>3. Follows(l, r, i)'
    BY <1>2, <1>7, <2>1, <2>2 DEF Follows, Proposed, Committed, Batch
  <2>4. Holds(r, i, Batch(l, i)) => Holds(r, i, Batch(l, i))'
    BY <1>7, <2>2 DEF Holds, Batch
  <2>5. Backed(l, i)'
    <3>1. PICK q \in Replicas \ {l} : Holds(q, i, Batch(l, i))
      BY <1>3 DEF Backed
    <3>2. CASE q = r
      BY <2>4, <3>1, <3>2 DEF Backed
    <3>3. CASE q # r
      BY <1>2, <1>6, <1>7, <3>1, <3>3 DEF Backed, Holds, Batch
    <3> QED
      BY <3>2, <3>3
  <2>6. Committed(l, i) \/ Waiting(i)' = {}
    BY <1>2, <1>3, <1>5
  <2> QED
    BY <2>1, <2>2, <2>3, <2>4, <2>5, <2>6 DEF Obeys
<1>9. \A q \in Replicas \ {l}, j \in Instances :
        instanceSpace'[q][j] = instanceSpace[q][j] \/ Obeys(l, q, j)
  BY <1>6, <1>8
<1>10. /\ \A s \in Replicas : maxRecvBallot'[s] \in {-1, l}
       /\ \A s, q \in Replicas : defaultBallot'[s][q] \in {-1, l}
  BY <1>1 DEF StableInv, OneBallotInv, ballotVars
<1> HIDE DEF y
<1> QED
  BY <1>1, <1>2, <1>5, <1>6, <1>9, <1>10, SmallF
  DEF OthersStep, leaderVars, execVars, lifeVars

\* The commits that reach the leader come after its own.
LEMMA HandleCommitStable ==
  ASSUME NEW l, OneLeader(l), TypeOK, StableInv(l), NEW r \in Replicas,
         NEW m \in DOMAIN network, HandleCommit(r, m)
  PROVE  OthersStep(l)
<1> DEFINE i == m.inst
<1>1. m.type = "Commit" /\ m.to = r /\ Replies(m, {})
  BY DEF HandleCommit, Receives
<1>2. i \in Instances /\ r = l /\ Committed(l, i)
  BY <1>1, StableMessage DEF Expected, StableInv, LateInv
<1>3. Found(r, i) = instanceSpace[r][i] /\ Found(r, i).status = "COMMITTED"
  BY <1>2 DEF Found, Committed
<1>4. /\ instanceSpace' = [instanceSpace EXCEPT ![r][i] = Found(r, i)]
      /\ lb' = [lb EXCEPT ![r][i] = lb[r][i]]
      /\ UNCHANGED <<isLeader, refused, smallestDefaultBallot, ballotVars, execVars, lifeVars>>
  BY <1>3 DEF HandleCommit, SetInstance
<1>5. instanceSpace' = instanceSpace /\ lb' = lb
  BY <1>2, <1>3, <1>4 DEF TypeOK
<1>6. /\ \A s \in Replicas : maxRecvBallot'[s] \in {-1, l}
  BY <1>4 DEF StableInv, OneBallotInv, ballotVars
<1>7. ~IsPrepare(m)
  BY <1>1 DEF IsPrepare
<1> QED
  BY <1>1, <1>4, <1>5, <1>6, <1>7, QuietKeeps DEF execVars, lifeVars, ballotVars

LEMMA IgnoreAcceptReplyStable ==
  ASSUME NEW l, OneLeader(l), TypeOK, StableInv(l), NEW r \in Replicas,
         NEW m \in DOMAIN network, IgnoreAcceptReply(r, m)
  PROVE  OthersStep(l)
<1>1. /\ m.type = "AcceptReply" /\ Replies(m, {}) /\ LearnsBallot(r, m.bal)
      /\ UNCHANGED <<leaderVars, defaultBallot, execVars, lifeVars, instanceSpace, lb, crtInstance>>
  BY DEF IgnoreAcceptReply, Receives
<1>2. \A s \in Replicas : maxRecvBallot'[s] \in {-1, l}
  <2>1. m.bal = l
    BY <1>1, StableMessage
  <2> QED
    BY <1>1, <2>1, StableBallot
<1>3. ~IsPrepare(m)
  BY <1>1 DEF IsPrepare
<1> QED
  BY <1>1, <1>2, <1>3, QuietKeeps DEF leaderVars, execVars, lifeVars

LEMMA QuietStable ==
  ASSUME NEW l, OneLeader(l), TypeOK, StableInv(l), NEW r \in Replicas,
         (\E c \in proposeChan[r] : RefusePropose(r, c)) \/ Stop(r)
  PROVE  OthersStep(l)
<1>1. UNCHANGED <<lb, log, replied, panicked, toRecover, isLeader, smallestDefaultBallot,
                  instanceSpace, defaultBallot, maxRecvBallot, network>>
  BY DEF RefusePropose, Stop, leaderVars, ballotVars, execVars, lifeVars
<1>2. \A s \in Replicas : maxRecvBallot'[s] \in {-1, l}
  BY <1>1 DEF StableInv, OneBallotInv
<1> QED
  BY <1>1, <1>2, QuietKeeps

\* Under one leader nobody recovers, no timer fires, nobody else is made leader, no ballot
\* is refused, and the leader answers for as many commands as it executes.
LEMMA NeverHappens ==
  ASSUME NEW l, OneLeader(l), TypeOK, BookInv, StableInv(l), NEW r \in Replicas
  PROVE  /\ ~Recover(r) /\ ~GracePeriodExpires(r) /\ ~BeTheLeader(r) /\ ~PanicExecute(r)
         /\ \A m \in DOMAIN network :
              /\ ~IgnorePrepareReply(r, m) /\ ~RefusedPrepare(r, m)
              /\ ~RefusedAccept(r, m) /\ ~RetryAccept(r, m) /\ ~PanicAccept(r, m)
<1>1. ~Recover(r)
  BY DEF StableInv, OneBallotInv, Recover
<1>2. ~GracePeriodExpires(r)
  <2>1. timeouts[r] \in 0 .. MaxTimeouts /\ MaxTimeouts = 0
    BY DEF TypeOK, OneLeader
  <2> QED
    BY <2>1 DEF GracePeriodExpires
<1>3. ~BeTheLeader(r)
  BY DEF OneLeader, BeTheLeader
<1>4. ~PanicExecute(r)
  <2> SUFFICES ASSUME PanicExecute(r) PROVE FALSE
    OBVIOUS
  <2> DEFINE i == NextToExecute(r)
  <2>0. PICK k : k = i
    OBVIOUS
  <2>1. /\ HasProposals(r, k) /\ instanceSpace[r][k] # NoInstance
        /\ instanceSpace[r][k].status = "COMMITTED"
        /\ Cardinality(instanceSpace[r][k].cmds) > Cardinality(lb[r][k].clientProposals)
        /\ k <= crtInstance[r]
    BY <2>0 DEF PanicExecute, IsExecutable
  <2>2. k \in Instances
    <3>1. k \in Nat
      BY <2>0 DEF NextToExecute, TypeOK
    <3>2. crtInstance[r] \in -1 .. MaxInstance
      BY DEF TypeOK
    <3> QED
      BY <2>1, <3>1, <3>2, BoundAssumption DEF Instances
  <2>3. r = l /\ lb[l][k] # NoLB
    BY <2>1, <2>2 DEF HasProposals, StableInv, OneBallotInv
  <2>4. instanceSpace[l][k].cmds = Batch(l, k)
    BY <2>1, <2>2, <2>3 DEF StableInv, ProposalInv, Proposed
  <2>5. Cardinality(Batch(l, k)) \in Nat
    <3>1. Batch(l, k) \in SUBSET Commands
      BY <2>2, <2>3 DEF StableInv, ProposalInv
    <3> QED
      BY <3>1, ValueAssumption, FS_Subset, FS_CardinalityType
  <2> QED
    BY <2>1, <2>3, <2>4, <2>5 DEF Batch
<1>5. ASSUME NEW m \in DOMAIN network, m.type \in {"PrepareReply", "AcceptReply"}, m.to = r
      PROVE  r = l /\ m.bal = lb[r][m.inst].lastTriedBallot /\ m.bal \in Int
  <2>1. r = l /\ m.bal = l /\ lb[l][m.inst] # NoLB /\ m.inst \in Instances
    BY <1>5, StableMessage DEF Expected
  <2>2. lb[l][m.inst].lastTriedBallot = l
    BY <2>1 DEF StableInv, ProposalInv
  <2> QED
    BY <2>1, <2>2, SmallF
<1>6. ASSUME NEW m \in DOMAIN network
      PROVE  /\ ~IgnorePrepareReply(r, m) /\ ~RefusedPrepare(r, m)
             /\ ~RefusedAccept(r, m) /\ ~RetryAccept(r, m) /\ ~PanicAccept(r, m)
  BY <1>5 DEF IgnorePrepareReply, RefusedPrepare, RefusedAccept, RetryAccept, PanicAccept,
              AcceptAnswered, Receives
<1> QED
  BY <1>1, <1>2, <1>3, <1>4, <1>6
-------------------------------------------------------------------------------
(***************************************************************************)
(* The handlers of the leader.                                             *)
(***************************************************************************)

\* The leader touches its instance i only, and keeps to its batch.
LeaderStep(l, i) ==
  /\ UNCHANGED <<log, replied, panicked, toRecover, isLeader>>
  /\ \A s \in Replicas : {maxRecvBallot'[s], smallestDefaultBallot'[s]} \subseteq {-1, l}
  /\ \A s, q \in Replicas : defaultBallot'[s][q] \in {-1, l}
  /\ \A s \in Replicas, j \in Instances : ~(s = l /\ j = i) =>
       lb'[s][j] = lb[s][j] /\ instanceSpace'[s][j] = instanceSpace[s][j]
  /\ instanceSpace'[l][i] # NoInstance /\ lb'[l][i] # NoLB
  /\ {instanceSpace'[l][i].bal, instanceSpace'[l][i].vbal} \subseteq {-1, l}
  /\ lb'[l][i].lastTriedBallot = l
  /\ Batch(l, i)' \in (SUBSET Commands) \ {{}}
  /\ ~Proposed(l, i)' => instanceSpace'[l][i].cmds = Nil
  /\ Proposed(l, i)' => instanceSpace'[l][i].bal = l /\ instanceSpace'[l][i].cmds = Batch(l, i)'
  /\ lb[l][i] # NoLB => Batch(l, i)' = Batch(l, i)
  /\ Proposed(l, i) => Proposed(l, i)'
  /\ lb'[l][i].acceptOKs > 0 => lb[l][i] # NoLB /\ (lb[l][i].acceptOKs > 0 \/ Backed(l, i))
  /\ Committed(l, i)' => lb[l][i] # NoLB /\ (Committed(l, i) \/ Backed(l, i))
  /\ \A n \in DOMAIN network' \ DOMAIN network :
       /\ Expected(l, n)' /\ n.inst = i /\ n.type # "AcceptReply"
       /\ n.type = "CommitShort" => lb[l][i] # NoLB /\ Backed(l, i)

LEMMA LeaderKeeps ==
  ASSUME NEW l, OneLeader(l), TypeOK, StableInv(l), NEW i \in Instances, LeaderStep(l, i)
  PROVE  /\ OneBallotInv(l)' /\ ProposalInv(l)' /\ MessageInv(l)' /\ AcceptorInv(l)'
         /\ BackedInv(l)' /\ LogInv(l)' /\ AnsweredIsExecuted'
<1>0. l \in Replicas
  BY DEF OneLeader
<1>1. \A s \in Replicas, j \in Instances : ~(s = l /\ j = i) =>
        lb'[s][j] = lb[s][j] /\ instanceSpace'[s][j] = instanceSpace[s][j]
  BY DEF LeaderStep
<1>2. \A j \in Instances : j # i => /\ Proposed(l, j)' <=> Proposed(l, j)
                                    /\ Batch(l, j)' = Batch(l, j)
  BY <1>0, <1>1 DEF Proposed, Batch
<1>3. \A q \in Replicas \ {l}, j \in Instances : \A c :
        /\ Holds(q, j, c)' <=> Holds(q, j, c)
        /\ Committed(q, j)' <=> Committed(q, j)
        /\ Proposed(q, j)' <=> Proposed(q, j)
  BY <1>1 DEF Holds, Committed, Proposed
<1>4. Grows(l)
  <2>1. ASSUME NEW j \in Instances
        PROVE  /\ lb[l][j] # NoLB => lb'[l][j] # NoLB /\ Batch(l, j)' = Batch(l, j)
               /\ Proposed(l, j) => Proposed(l, j)'
    BY <1>0, <1>1, <1>2 DEF LeaderStep
  <2>2. ASSUME NEW j \in Instances, lb[l][j] # NoLB, Backed(l, j) PROVE Backed(l, j)'
    <3>1. PICK q \in Replicas \ {l} : Holds(q, j, Batch(l, j))
      BY <2>2 DEF Backed
    <3>2. Holds(q, j, Batch(l, j))'
      BY <1>3, <2>1, <2>2, <3>1
    <3> QED
      BY <3>2 DEF Backed
  <2> QED
    BY <2>1, <2>2 DEF Grows
<1>5. OneBallotInv(l)'
  <2>1. ASSUME NEW s \in Replicas
        PROVE  /\ toRecover'[s] = <<>>
               /\ isLeader'[s] => s = l
               /\ {maxRecvBallot'[s], smallestDefaultBallot'[s]} \subseteq {-1, l}
               /\ \A q \in Replicas : defaultBallot'[s][q] \in {-1, l}
    BY DEF LeaderStep, StableInv, OneBallotInv
  <2>2. ASSUME NEW s \in Replicas, NEW j \in Instances
        PROVE  /\ instanceSpace'[s][j] # NoInstance =>
                    {instanceSpace'[s][j].bal, instanceSpace'[s][j].vbal} \subseteq {-1, l}
               /\ lb'[s][j] # NoLB => s = l
    <3>1. /\ instanceSpace[s][j] # NoInstance =>
               {instanceSpace[s][j].bal, instanceSpace[s][j].vbal} \subseteq {-1, l}
          /\ lb[s][j] # NoLB => s = l
      BY DEF StableInv, OneBallotInv
    <3> QED
      BY <1>1, <3>1 DEF LeaderStep
  <2> QED
    BY <2>1, <2>2 DEF OneBallotInv
<1>6. ProposalInv(l)'
  <2>1. ASSUME NEW j \in Instances
        PROVE  /\ instanceSpace'[l][j] # NoInstance => lb'[l][j] # NoLB
               /\ lb'[l][j] # NoLB =>
                    /\ lb'[l][j].lastTriedBallot = l
                    /\ Batch(l, j)' \in (SUBSET Commands) \ {{}}
                    /\ ~Proposed(l, j)' => instanceSpace'[l][j].cmds = Nil
                    /\ Proposed(l, j)' => /\ instanceSpace'[l][j].bal = l
                                          /\ instanceSpace'[l][j].cmds = Batch(l, j)'
    <3>1. CASE j = i
      BY <3>1 DEF LeaderStep
    <3>2. CASE j # i
      <4>1. /\ instanceSpace[l][j] # NoInstance => lb[l][j] # NoLB
            /\ lb[l][j] # NoLB =>
                 /\ lb[l][j].lastTriedBallot = l
                 /\ Batch(l, j) \in (SUBSET Commands) \ {{}}
                 /\ ~Proposed(l, j) => instanceSpace[l][j].cmds = Nil
                 /\ Proposed(l, j) => /\ instanceSpace[l][j].bal = l
                                      /\ instanceSpace[l][j].cmds = Batch(l, j)
        BY DEF StableInv, ProposalInv
      <4> QED
        BY <1>0, <1>1, <1>2, <3>2, <4>1
    <3> QED
      BY <3>1, <3>2
  <2> QED
    BY <2>1 DEF ProposalInv
<1>7. MessageInv(l)'
  BY <1>0, <1>4, MessageKept DEF LeaderStep, StableInv
<1>8. AcceptorInv(l)'
  <2>1. ASSUME NEW q \in Replicas \ {l}, NEW j \in Instances PROVE Follows(l, q, j)'
    <3>1. instanceSpace'[q][j] = instanceSpace[q][j] /\ Follows(l, q, j)
      BY <1>1 DEF StableInv, AcceptorInv
    <3>2. Proposed(q, j)' <=> Proposed(q, j)
      BY <1>3
    <3> QED
      BY <1>3, <1>4, <3>1, <3>2 DEF Follows, Grows
  <2> QED
    BY <2>1 DEF AcceptorInv
<1>9. BackedInv(l)'
  <2>1. \A n \in DOMAIN network' \ DOMAIN network :
          n.type \in {"AcceptReply", "CommitShort"} => Backed(l, n.inst)'
    BY <1>4 DEF LeaderStep, Grows
  <2>2. \A j \in Instances : lb'[l][j] # NoLB /\ lb'[l][j].acceptOKs > 0 =>
          (lb[l][j] # NoLB /\ lb[l][j].acceptOKs > 0) \/ Backed(l, j)'
    <3>1. ASSUME NEW j \in Instances, lb'[l][j] # NoLB, lb'[l][j].acceptOKs > 0
          PROVE  (lb[l][j] # NoLB /\ lb[l][j].acceptOKs > 0) \/ Backed(l, j)'
      <4>1. CASE j = i
        BY <1>4, <3>1, <4>1 DEF LeaderStep, Grows
      <4>2. CASE j # i
        BY <1>0, <1>1, <3>1, <4>2
      <4> QED
        BY <4>1, <4>2
    <3> QED
      BY <3>1
  <2>3. ASSUME NEW s \in Replicas, NEW j \in Instances, Committed(s, j)'
        PROVE  (lb[l][j] # NoLB /\ Committed(s, j)) \/ Backed(l, j)'
    <3>1. CASE s = l /\ j = i
      BY <1>4, <2>3, <3>1 DEF LeaderStep, Grows
    <3>2. CASE ~(s = l /\ j = i)
      <4>1. Committed(s, j)
        BY <1>1, <2>3, <3>2 DEF Committed
      <4>2. lb[l][j] # NoLB
        <5>1. CASE s = l
          BY <4>1, <5>1 DEF StableInv, ProposalInv, Committed
        <5>2. CASE s # l
          <6>1. Follows(l, s, j)
            BY <5>2 DEF StableInv, AcceptorInv
          <6> QED
            BY <4>1, <6>1 DEF Follows, Proposed, Committed
        <5> QED
          BY <5>1, <5>2
      <4> QED
        BY <4>1, <4>2
    <3> QED
      BY <3>1, <3>2
  <2>4. MessageInv(l) /\ ProposalInv(l) /\ BackedInv(l)
    BY DEF StableInv
  <2> QED
    BY <1>0, <1>4, <2>1, <2>2, <2>3, <2>4, BackedKept
<1>10. LogInv(l)' /\ AnsweredIsExecuted'
  <2>1. LogInv(l) /\ AnsweredIsExecuted
    BY DEF StableInv
  <2>2. UNCHANGED <<log, replied, panicked>>
    BY DEF LeaderStep
  <2> QED
    BY <1>0, <1>4, <2>1, <2>2, LogKept, AnswersKept
<1> QED
  BY <1>5, <1>6, <1>7, <1>8, <1>9, <1>10

\* One promise per replica asked: a fresh instance has the others to wait for.
LEMMA FreshPrepares ==
  ASSUME NEW l \in Replicas, NEW i \in Instances, NEW b, IsABag(network), AskedOnceInv,
         \A n \in DOMAIN network : n.inst # i, Sends(Prepares(l, i, b))
  PROVE  /\ AskedOnceInv'
         /\ Waiting(i)' = Others(l)
         /\ \A j \in Instances \ {i} : Waiting(j)' = Waiting(j)
<1> DEFINE ms == Prepares(l, i, b)
           ask(q) == [type |-> "Prepare", to |-> q, leader |-> l, inst |-> i, bal |-> b]
<1>1. \A n \in ms : /\ n.inst = i /\ IsPrepare(n) /\ n = ask(Asked(n)) /\ Asked(n) \in Others(l)
                    /\ n \notin DOMAIN network
  BY DEF Prepares, IsPrepare, Asked
<1>2. \A q \in Others(l) : ask(q) \in ms /\ Asked(ask(q)) = q
  BY DEF Prepares, Asked
<1> HIDE DEF ms
<1>3. /\ DOMAIN network' = DOMAIN network \cup ms
      /\ \A n \in DOMAIN network : network'[n] = network[n]
      /\ \A n \in ms : network'[n] = 1
  <2>1. Sends(ms)
    BY DEF ms
  <2>2. DOMAIN network' = DOMAIN network \cup ms
    BY <2>1, SendsBag
  <2>3. \A n \in DOMAIN network : network'[n] = network[n]
    BY <1>1, <2>1, SendsCounts
  <2>4. \A n \in ms : network'[n] = 1
    BY <1>1, <2>1, SendsCounts
  <2> QED
    BY <2>2, <2>3, <2>4
<1>4. AskedOnceInv'
  <2> SUFFICES ASSUME NEW m \in DOMAIN network', IsPrepare(m)
               PROVE  /\ network'[m] = 1
                      /\ \A n \in DOMAIN network' :
                           IsPrepare(n) /\ n.inst = m.inst /\ Asked(n) = Asked(m) => n = m
    BY DEF AskedOnceInv
  <2>1. CASE m \in ms
    <3>1. \A n \in DOMAIN network' : n.inst = m.inst => n \in ms
      BY <1>1, <1>3, <2>1
    <3> QED
      BY <1>1, <1>3, <2>1, <3>1
  <2>2. CASE m \in DOMAIN network
    <3>1. \A n \in DOMAIN network' : n.inst = m.inst => n \in DOMAIN network
      BY <1>1, <1>3, <2>2
    <3> QED
      BY <1>3, <2>2, <3>1 DEF AskedOnceInv
  <2> QED
    BY <1>3, <2>1, <2>2
<1>5. Waiting(i)' = Others(l)
  <2>1. \A n \in DOMAIN network' : n.inst = i => n \in ms
    BY <1>1, <1>3
  <2>2. Others(l) \subseteq Replicas
    BY DEF Others
  <2>3. ASSUME NEW q \in Others(l) PROVE q \in Waiting(i)'
    <3> DEFINE n == ask(q)
    <3>1. n \in DOMAIN network' /\ IsPrepare(n) /\ n.inst = i /\ Asked(n) = q
      BY <1>1, <1>2, <1>3
    <3> HIDE DEF n
    <3> QED
      BY <2>2, <3>1 DEF Waiting
  <2>4. Waiting(i)' \subseteq Others(l)
    BY <1>1, <2>1 DEF Waiting
  <2> QED
    BY <2>3, <2>4
<1>6. ASSUME NEW j \in Instances \ {i} PROVE Waiting(j)' = Waiting(j)
  <2>1. \A n : n.inst = j => (n \in DOMAIN network' <=> n \in DOMAIN network)
    BY <1>1, <1>3
  <2> QED
    BY <2>1 DEF Waiting
<1> QED
  BY <1>4, <1>5, <1>6

\* The others are all replicas but one.
LEMMA OthersCount ==
  ASSUME NEW l \in Replicas
  PROVE  IsFiniteSet(Others(l)) /\ Cardinality(Others(l)) = N - 1
<1>1. IsFiniteSet(Replicas) /\ Cardinality(Replicas) = N
  <2>1. N \in Nat \ {0} /\ Replicas = 0 .. N - 1
    BY SizeAssumption DEF Replicas
  <2>2. Cardinality(0 .. N - 1) = N
    <3>1. Cardinality(0 .. N - 1) = IF 0 > N - 1 THEN 0 ELSE N - 1 - 0 + 1
      BY <2>1, FS_Interval
    <3> QED
      BY <2>1, <3>1
  <2> QED
    BY <2>1, <2>2, FS_Interval
<1> QED
  BY <1>1, FS_RemoveElement DEF Others

\* A step that leaves the promises and the commits of the followers as they were.
LEMMA PromisesKept ==
  ASSUME NEW l, OneLeader(l), TypeOK, StableInv(l), NEW i \in Instances, LeaderStep(l, i),
         SamePrepares, lb[l][i] # NoLB,
         lb'[l][i].prepareOKs = lb[l][i].prepareOKs, Proposed(l, i)' <=> Proposed(l, i),
         Committed(l, i) => Committed(l, i)',
         \A n \in DOMAIN network' \ DOMAIN network :
           n.type # "Commit" /\ (n.type = "CommitShort" => Committed(l, n.inst)')
  PROVE  AskedOnceInv' /\ CountInv(l)' /\ LateInv(l)'
<1>0. l \in Replicas
  BY DEF OneLeader
<1>1. AskedOnceInv' /\ \A j \in Instances : Waiting(j)' = Waiting(j)
  BY WaitingKept DEF StableInv
<1>2. \A j \in Instances :
        /\ lb'[l][j] # NoLB => lb[l][j] # NoLB /\ lb'[l][j].prepareOKs = lb[l][j].prepareOKs
        /\ Proposed(l, j)' <=> Proposed(l, j)
        /\ Committed(l, j) => Committed(l, j)'
  BY <1>0 DEF LeaderStep, Proposed, Committed
<1>3. CountInv(l)'
  BY <1>1, <1>2 DEF CountInv, StableInv
<1>4. LateInv(l)'
  <2>1. ASSUME NEW n \in DOMAIN network'
        PROVE  /\ n.type = "Commit" => Committed(l, n.inst)' /\ Waiting(n.inst)' = {}
               /\ n.type = "CommitShort" => Committed(l, n.inst)' \/ Waiting(n.inst)' = {}
    <3>1. CASE n \in DOMAIN network
      <4>1. n.inst \in Instances
        BY <3>1, MessageFields DEF TypeOK
      <4> QED
        BY <1>1, <1>2, <3>1, <4>1 DEF StableInv, LateInv
    <3> QED
      BY <3>1
  <2>2. ASSUME NEW q \in Replicas \ {l}, NEW j \in Instances, Committed(q, j)'
        PROVE  Committed(l, j)' \/ Waiting(j)' = {}
    <3>1. Committed(q, j)
      BY <2>2 DEF LeaderStep, Committed
    <3> QED
      BY <1>1, <1>2, <3>1 DEF StableInv, LateInv
  <2> QED
    BY <2>1, <2>2 DEF LateInv
<1> QED
  BY <1>1, <1>3, <1>4

LEMMA AcceptedStable ==
  ASSUME NEW l, OneLeader(l), TypeOK, BookInv, StableInv(l), PlacedOnce', NEW r \in Replicas,
         NEW m \in DOMAIN network, Accepted(r, m)
  PROVE  StableInv(l)'
<1> DEFINE i == m.inst
           x == instanceSpace[r][i]
           book == lb[r][i]
           z == [book EXCEPT !.acceptOKs = book.acceptOKs + 1]
<1>1. /\ m.type = "AcceptReply" /\ m.to = r /\ LearnsBallot(r, m.bal)
      /\ x.status # "COMMITTED"
      /\ lb' = [lb EXCEPT ![r][i] = z]
      /\ UNCHANGED <<leaderVars, defaultBallot, execVars, lifeVars, crtInstance>>
      /\ \/ Replies(m, {}) /\ instanceSpace' = instanceSpace
         \/ /\ Replies(m, CommitShorts(r, i, x.bal))
            /\ instanceSpace' = [instanceSpace EXCEPT ![r][i] = [x EXCEPT !.status = "COMMITTED"]]
  BY DEF Accepted, AcceptAnswered, Receives, SetInstance
<1>2. /\ i \in Instances /\ m.bal = l /\ book \in LeaderBookkeeping /\ r = l
      /\ Proposed(l, i) /\ lb[l][i] # NoLB
  BY <1>1, StableMessage DEF Expected
<1>3. /\ x \in Instance /\ x.status = "ACCEPTED" /\ x.bal = l /\ x.cmds = Batch(l, i)
      /\ x.vbal \in {-1, l} /\ book.lastTriedBallot = l /\ Batch(l, i) \in (SUBSET Commands) \ {{}}
  <2>1. x \in Instance /\ x.status = "ACCEPTED"
    BY <1>1, <1>2 DEF Proposed, TypeOK
  <2>2. x.bal = l /\ x.cmds = Batch(l, i) /\ book.lastTriedBallot = l
        /\ Batch(l, i) \in (SUBSET Commands) \ {{}}
    BY <1>2 DEF StableInv, ProposalInv
  <2>3. x.vbal \in {-1, l}
    BY <1>2 DEF StableInv, OneBallotInv, Proposed
  <2> QED
    BY <2>1, <2>2, <2>3
<1>4. Backed(l, i)
  BY <1>1 DEF StableInv, BackedInv
<1>5. /\ z.clientProposals = Batch(l, i) /\ z.prepareOKs = book.prepareOKs
      /\ z.lastTriedBallot = l /\ z # NoLB
  <2>1. z \in LeaderBookkeeping
    BY <1>2, CountedType, SlicesFacts, <1>3, MessageFields DEF TypeOK
  <2> QED
    BY <1>2, <1>3, <2>1, NothingAssumption DEF LeaderBookkeeping, Batch
<1>6. PICK y \in Instance :
        /\ instanceSpace' = [instanceSpace EXCEPT ![l][i] = y]
        /\ y.bal = l /\ y.vbal \in {-1, l} /\ y.cmds = Batch(l, i)
        /\ y.status \in {"ACCEPTED", "COMMITTED"}
        /\ \/ Replies(m, {})
           \/ Replies(m, CommitShorts(l, i, l)) /\ y.status = "COMMITTED"
  <2>1. CASE Replies(m, {}) /\ instanceSpace' = instanceSpace
    <3>1. instanceSpace' = [instanceSpace EXCEPT ![l][i] = x]
      BY <1>2, <2>1 DEF TypeOK
    <3> QED
      BY <1>3, <2>1, <3>1
  <2>2. CASE /\ Replies(m, CommitShorts(r, i, x.bal))
             /\ instanceSpace' = [instanceSpace EXCEPT ![r][i] = [x EXCEPT !.status = "COMMITTED"]]
    <3> DEFINE y == [x EXCEPT !.status = "COMMITTED"]
    <3>1. y \in Instance /\ y.bal = l /\ y.vbal \in {-1, l} /\ y.cmds = Batch(l, i)
          /\ y.status = "COMMITTED"
      <4> HIDE DEF x
      <4> QED
        BY <1>3 DEF Instance, Statuses
    <3>2. Replies(m, CommitShorts(l, i, l)) /\ instanceSpace' = [instanceSpace EXCEPT ![l][i] = y]
      BY <1>2, <1>3, <2>2
    <3> HIDE DEF y
    <3> QED
      BY <3>1, <3>2
  <2> QED
    BY <1>1, <2>1, <2>2
<1> HIDE DEF z, x
<1>7. /\ instanceSpace'[l][i] = y /\ lb'[l][i] = z
      /\ \A s \in Replicas, j \in Instances : ~(s = l /\ j = i) =>
           lb'[s][j] = lb[s][j] /\ instanceSpace'[s][j] = instanceSpace[s][j]
  BY <1>1, <1>2, <1>6, SmallF DEF TypeOK
<1>8. \A n \in DOMAIN network' \ DOMAIN network :
        n.type = "CommitShort" /\ n.inst = i /\ n.bal = l /\ n.to # l /\ y.status = "COMMITTED"
  <2>1. CASE Replies(m, {})
    BY <2>1, NothingSent
  <2>2. CASE Replies(m, CommitShorts(l, i, l)) /\ y.status = "COMMITTED"
    <3>1. DOMAIN network' \subseteq DOMAIN network \cup CommitShorts(l, i, l)
      BY <2>2, RepliesBag DEF TypeOK
    <3> QED
      BY <2>2, <3>1 DEF CommitShorts, Others
  <2> QED
    BY <1>6, <2>1, <2>2
<1>9. SamePrepares
  <2>1. ~IsPrepare(m)
    BY <1>1 DEF IsPrepare
  <2>2. \A n \in CommitShorts(l, i, l) : ~IsPrepare(n)
    BY DEF CommitShorts, IsPrepare
  <2> QED
    BY <1>6, <2>1, <2>2, OtherMessages DEF TypeOK
<1>10. Proposed(l, i)' /\ Batch(l, i)' = Batch(l, i) /\ y # NoInstance
       /\ (Committed(l, i)' <=> y.status = "COMMITTED") /\ ~Committed(l, i)
  <2>1. y # NoInstance
    BY NothingAssumption
  <2>2. ~Committed(l, i)
    BY <1>2, <1>3 DEF Committed, x
  <2> QED
    BY <1>5, <1>6, <1>7, <2>1, <2>2 DEF Proposed, Batch, Committed
<1>11. LeaderStep(l, i)
  <2>1. \A s \in Replicas : {maxRecvBallot'[s], smallestDefaultBallot'[s]} \subseteq {-1, l}
    <3>1. \A s \in Replicas : maxRecvBallot'[s] \in {-1, l}
      BY <1>1, <1>2, StableBallot
    <3>2. \A s \in Replicas : smallestDefaultBallot'[s] \in {-1, l}
      BY <1>1 DEF leaderVars, StableInv, OneBallotInv
    <3> QED
      BY <3>1, <3>2
  <2>2. \A s, q \in Replicas : defaultBallot'[s][q] \in {-1, l}
    BY <1>1 DEF StableInv, OneBallotInv
  <2>3. UNCHANGED <<log, replied, panicked, toRecover, isLeader>>
    BY <1>1 DEF leaderVars, execVars, lifeVars
  <2>4. \A n \in DOMAIN network' \ DOMAIN network : Expected(l, n)'
    BY <1>5, <1>7, <1>8, <1>10 DEF Expected
  <2>5. \A n \in DOMAIN network' \ DOMAIN network :
          /\ Expected(l, n)' /\ n.inst = i /\ n.type # "AcceptReply"
          /\ n.type = "CommitShort" => lb[l][i] # NoLB /\ Backed(l, i)
    BY <1>2, <1>4, <1>8, <2>4
  <2>6. /\ {y.bal, y.vbal} \subseteq {-1, l} /\ z.lastTriedBallot = l /\ z # NoLB
        /\ y.bal = l /\ y.cmds = Batch(l, i)
    BY <1>5, <1>6
  <2> QED
    BY <1>2, <1>3, <1>4, <1>7, <1>10, <2>1, <2>2, <2>3, <2>5, <2>6 DEF LeaderStep
<1>12. AskedOnceInv' /\ CountInv(l)' /\ LateInv(l)'
  <2>1. lb'[l][i].prepareOKs = lb[l][i].prepareOKs
    BY <1>2, <1>5, <1>7
  <2>2. \A n \in DOMAIN network' \ DOMAIN network :
          n.type # "Commit" /\ (n.type = "CommitShort" => Committed(l, n.inst)')
    BY <1>8, <1>10
  <2> QED
    BY <1>2, <1>9, <1>10, <1>11, <2>1, <2>2, PromisesKept
<1> QED
  BY <1>2, <1>11, <1>12, LeaderKeeps DEF StableInv

LEMMA PromisedStable ==
  ASSUME NEW l, OneLeader(l), TypeOK, BookInv, StableInv(l), PlacedOnce', NEW r \in Replicas,
         NEW m \in DOMAIN network, Promised(r, m)
  PROVE  StableInv(l)'
<1> DEFINE i == m.inst
           x == instanceSpace[r][i]
           book == lb[r][i]
           higher == m.vbal > book.ballot
           ready  == book.prepareOKs + 2 >= ReadQuorumSize
           cmds   == BatchOf(book)
           z == [book EXCEPT !.prepareOKs = book.prepareOKs + 1,
                             !.ballot = IF higher THEN m.vbal ELSE book.ballot,
                             !.cmds = IF ready THEN cmds
                                      ELSE IF higher THEN m.cmds ELSE book.cmds]
           w == [x EXCEPT !.cmds = cmds, !.bal = m.bal, !.status = "ACCEPTED"]
<1>1. /\ m.type = "PrepareReply" /\ m.to = r /\ LearnsBallot(r, m.bal)
      /\ defaultBallot' = [defaultBallot EXCEPT ![r][m.acceptor] =
                             MaxOf(defaultBallot[r][m.acceptor], m.defaultBal)]
      /\ lb' = [lb EXCEPT ![r][i] = z]
      /\ UNCHANGED <<isLeader, proposeChan, refused, execVars, lifeVars, crtInstance>>
      /\ \/ ~ready /\ Replies(m, {}) /\ UNCHANGED <<instanceSpace, smallestDefaultBallot>>
         \/ /\ ready
            /\ instanceSpace' = [instanceSpace EXCEPT ![r][i] = w]
            /\ smallestDefaultBallot' = [smallestDefaultBallot EXCEPT ![r] =
                                           SmallestDefault(r, defaultBallot'[r])]
            /\ Replies(m, Accepts(r, i, m.bal, cmds))
  <2>1. defaultBallot' = [defaultBallot EXCEPT ![r][m.acceptor] = MaxOf(@, m.defaultBal)]
    BY DEF Promised
  <2>2. defaultBallot' = [defaultBallot EXCEPT ![r][m.acceptor] =
                             MaxOf(defaultBallot[r][m.acceptor], m.defaultBal)]
    BY <2>1
  <2> QED
    BY <2>2 DEF Promised, Receives, SetInstance
<1>2. /\ i \in Instances /\ m.bal = l /\ book \in LeaderBookkeeping /\ r = l
      /\ lb[l][i] # NoLB /\ m \in Message
      /\ m.acceptor \in Others(l) /\ {m.vbal, m.defaultBal} \subseteq {-1, l}
      /\ m.vbal \in Ballots /\ m.cmds \in Slices
  <2>1. /\ i \in Instances /\ m.bal = l /\ book \in LeaderBookkeeping /\ r = l
        /\ lb[l][i] # NoLB /\ m \in Message
        /\ m.acceptor # l /\ {m.vbal, m.defaultBal} \subseteq {-1, l}
    BY <1>1, StableMessage DEF Expected
  <2> QED
    BY <1>1, <2>1, MessageFields DEF Others
<1>3. /\ x \in Instance /\ x.vbal \in {-1, l}
      /\ book.lastTriedBallot = l /\ Batch(l, i) \in (SUBSET Commands) \ {{}}
      /\ cmds = Batch(l, i) /\ OnWire(cmds) = Batch(l, i) /\ Batch(l, i) \in Slices
      /\ Proposed(l, i) => x.bal = l /\ x.cmds = Batch(l, i)
      /\ ~Proposed(l, i) => x.cmds = Nil
      /\ x.bal \in {-1, l}
  <2>1. x \in Instance
    BY <1>1, <1>2, ReceivedFields DEF Promised
  <2>2. /\ book.lastTriedBallot = l /\ Batch(l, i) \in (SUBSET Commands) \ {{}}
        /\ Proposed(l, i) => x.bal = l /\ x.cmds = Batch(l, i)
        /\ ~Proposed(l, i) => x.cmds = Nil
    BY <1>2 DEF StableInv, ProposalInv
  <2>3. x.vbal \in {-1, l} /\ x.bal \in {-1, l}
    BY <1>2, <2>1, NothingAssumption DEF StableInv, OneBallotInv
  <2>4. Batch(l, i) # Nil /\ Batch(l, i) \in Slices
    BY <2>2, SlicesFacts
  <2>5. cmds = Batch(l, i) /\ OnWire(cmds) = Batch(l, i)
    BY <1>2, <2>4 DEF BatchOf, Batch, OnWire
  <2> QED
    BY <2>1, <2>2, <2>3, <2>4, <2>5
<1> HIDE DEF cmds
<1>4. /\ z.clientProposals = Batch(l, i) /\ z.prepareOKs = book.prepareOKs + 1
      /\ z.acceptOKs = book.acceptOKs /\ z.lastTriedBallot = l /\ z # NoLB
  <2>1. /\ (IF higher THEN m.vbal ELSE book.ballot) \in Ballots
        /\ (IF ready THEN cmds ELSE IF higher THEN m.cmds ELSE book.cmds) \in Slices
    <3> HIDE DEF ready, higher
    <3> QED
      BY <1>2, <1>3 DEF LeaderBookkeeping
  <2>2. z \in LeaderBookkeeping
    BY <1>2, <2>1, CountedType
  <2>3. /\ z.clientProposals = book.clientProposals /\ z.prepareOKs = book.prepareOKs + 1
        /\ z.acceptOKs = book.acceptOKs /\ z.lastTriedBallot = book.lastTriedBallot
    <3> HIDE DEF ready, higher
    <3> QED
      BY <1>2 DEF LeaderBookkeeping
  <2> QED
    BY <1>2, <1>3, <2>2, <2>3, NothingAssumption DEF Batch
<1>5. l \in Ballots
  BY <1>2, MessageFields
<1>6. w \in Instance /\ w.bal = l /\ w.vbal = x.vbal /\ w.cmds = Batch(l, i) /\ w.status = "ACCEPTED"
  <2> HIDE DEF x
  <2> QED
    BY <1>2, <1>3, <1>5 DEF Instance, Statuses
<1>7. PICK y \in Instance, ms \in {{}, Accepts(l, i, l, cmds)} :
        /\ instanceSpace' = [instanceSpace EXCEPT ![l][i] = y]
        /\ Replies(m, ms)
        /\ y.vbal \in {-1, l} /\ y.bal \in {-1, l}
        /\ \/ ~ready /\ y = x /\ ms = {}
           \/ /\ ready /\ y.bal = l /\ y.cmds = Batch(l, i) /\ y.status = "ACCEPTED"
              /\ ms = Accepts(l, i, l, cmds)
  <2> HIDE DEF ready, w
  <2>1. CASE ~ready
    <3>1. instanceSpace' = [instanceSpace EXCEPT ![l][i] = x]
      BY <1>1, <1>2, <2>1 DEF TypeOK
    <3> HIDE DEF x
    <3> QED
      BY <1>1, <1>3, <2>1, <3>1
  <2>2. CASE ready
    <3>1. instanceSpace' = [instanceSpace EXCEPT ![l][i] = w] /\ Replies(m, Accepts(l, i, l, cmds))
      BY <1>1, <1>2, <2>2
    <3> HIDE DEF x
    <3> QED
      BY <1>3, <1>6, <2>2, <3>1
  <2> QED
    BY <2>1, <2>2
<1>8. /\ instanceSpace'[l][i] = y /\ lb'[l][i] = z
      /\ \A s \in Replicas, j \in Instances : ~(s = l /\ j = i) =>
           lb'[s][j] = lb[s][j] /\ instanceSpace'[s][j] = instanceSpace[s][j]
  <2> HIDE DEF z
  <2> QED
    BY <1>1, <1>2, <1>7, SmallF DEF TypeOK
<1> HIDE DEF z, w
<1>9. \A n \in ms : /\ n.type = "Accept" /\ n.inst = i /\ n.bal = l /\ n.to # l /\ n.leader = l
                    /\ n.cmds = Batch(l, i) /\ ready
  <2> HIDE DEF ready
  <2>1. CASE ms = {}
    BY <2>1
  <2>2. CASE ready /\ ms = Accepts(l, i, l, cmds)
    BY <1>3, <2>2 DEF Accepts, Others
  <2> QED
    BY <1>7, <2>1, <2>2
<1>10. DOMAIN network' \subseteq DOMAIN network \cup ms
  BY <1>7, RepliesBag DEF TypeOK
<1>11. /\ AskedOnceInv'
       /\ \A j \in Instances :
            Waiting(j)' = IF j = i THEN Waiting(i) \ {m.acceptor} ELSE Waiting(j)
       /\ m.acceptor \in Waiting(i)
  <2>1. IsPrepare(m) /\ Asked(m) = m.acceptor /\ \A n \in ms : ~IsPrepare(n)
    BY <1>1, <1>9 DEF IsPrepare, Asked
  <2>2. m.acceptor \in Waiting(i)
    BY <1>2, <2>1 DEF Waiting, Others
  <2>3. /\ AskedOnceInv'
        /\ \A j \in Instances :
             Waiting(j)' = IF j = m.inst THEN Waiting(j) \ {Asked(m)} ELSE Waiting(j)
    BY <1>7, <2>1, PromiseConsumed DEF StableInv, TypeOK
  <2> QED
    BY <2>1, <2>2, <2>3
<1>12. /\ Proposed(l, i)' <=> Proposed(l, i) \/ ready
       /\ Batch(l, i)' = Batch(l, i) /\ y # NoInstance
       /\ Committed(l, i)' => Committed(l, i)
       /\ ~ready => (Committed(l, i) => Committed(l, i)')
  <2>1. y # NoInstance /\ x # NoInstance
    BY <1>3, NothingAssumption
  <2>2. Batch(l, i)' = Batch(l, i)
    BY <1>4, <1>8 DEF Batch
  <2> HIDE DEF ready
  <2>3. CASE ~ready
    <3>1. instanceSpace'[l][i] = instanceSpace[l][i]
      BY <1>2, <1>7, <1>8, <2>3
    <3> QED
      BY <2>1, <2>2, <2>3, <3>1 DEF Proposed, Committed
  <2>4. CASE ready
    BY <1>7, <1>8, <2>1, <2>2, <2>4 DEF Proposed, Committed
  <2> QED
    BY <2>3, <2>4
<1>13. /\ ~Proposed(l, i)' => y.cmds = Nil
       /\ Proposed(l, i)' => y.bal = l /\ y.cmds = Batch(l, i)
  <2> HIDE DEF ready
  <2> QED
    BY <1>2, <1>3, <1>7, <1>12
<1>14. \A s, q \in Replicas : defaultBallot'[s][q] \in {-1, l}
  <2>1. /\ defaultBallot \in [Replicas -> [Replicas -> Ballots]]
        /\ \A s, q \in Replicas : defaultBallot[s][q] \in {-1, l}
    BY DEF TypeOK, StableInv, OneBallotInv
  <2> DEFINE d == MaxOf(defaultBallot[r][m.acceptor], m.defaultBal)
  <2>2. d \in {-1, l}
    BY <1>2, <2>1 DEF MaxOf, Others
  <2>3. defaultBallot' = [defaultBallot EXCEPT ![r][m.acceptor] = d]
    BY <1>1
  <2> HIDE DEF d
  <2> QED
    BY <1>2, <2>1, <2>2, <2>3
<1>15. \A s \in Replicas : {maxRecvBallot'[s], smallestDefaultBallot'[s]} \subseteq {-1, l}
  <2>1. \A s \in Replicas : maxRecvBallot'[s] \in {-1, l}
    BY <1>1, <1>2, StableBallot
  <2>2. /\ smallestDefaultBallot \in [Replicas -> Ballots]
        /\ \A s \in Replicas : smallestDefaultBallot[s] \in {-1, l}
    BY DEF TypeOK, StableInv, OneBallotInv
  <2>3. CASE smallestDefaultBallot' = smallestDefaultBallot
    BY <2>1, <2>2, <2>3
  <2>4. CASE smallestDefaultBallot' = [smallestDefaultBallot EXCEPT ![r] =
                                         SmallestDefault(r, defaultBallot'[r])]
    <3> DEFINE d == SmallestDefault(r, defaultBallot'[r])
    <3>1. TypeOK'
      BY <1>2, PromisedTypes
    <3>2. defaultBallot'[r] \in [Replicas -> Ballots]
      BY <3>1 DEF TypeOK
    <3>3. d \in {smallestDefaultBallot[r]} \cup {defaultBallot'[r][q] : q \in Replicas}
      BY <3>2, SmallestDefaultKnown
    <3>4. d \in {-1, l}
      BY <1>14, <2>2, <3>3
    <3> HIDE DEF d
    <3>5. \A s \in Replicas : smallestDefaultBallot'[s] \in {-1, l}
      BY <2>2, <2>4, <3>4 DEF d
    <3> QED
      BY <2>1, <3>5
  <2> QED
    BY <1>1, <2>3, <2>4
<1>16. LeaderStep(l, i)
  <2>1. UNCHANGED <<log, replied, panicked, toRecover, isLeader>>
    BY <1>1 DEF execVars, lifeVars
  <2>2. \A n \in DOMAIN network' \ DOMAIN network :
          /\ Expected(l, n)' /\ n.inst = i /\ n.type # "AcceptReply"
          /\ n.type = "CommitShort" => lb[l][i] # NoLB /\ Backed(l, i)
    <3> SUFFICES ASSUME NEW n \in DOMAIN network' \ DOMAIN network
                 PROVE  Expected(l, n)' /\ n.inst = i /\ n.type = "Accept"
      OBVIOUS
    <3>1. /\ n.type = "Accept" /\ n.inst = i /\ n.bal = l /\ n.to # l /\ n.leader = l
          /\ n.cmds = Batch(l, i) /\ ready
      BY <1>9, <1>10
    <3> HIDE DEF ready
    <3>2. Proposed(l, i)' /\ lb'[l][i] # NoLB /\ n.cmds = Batch(l, i)'
      BY <1>4, <1>8, <1>12, <3>1
    <3> QED
      BY <3>1, <3>2 DEF Expected
  <2>3. /\ {y.bal, y.vbal} \subseteq {-1, l} /\ z.lastTriedBallot = l /\ z # NoLB
        /\ z.acceptOKs > 0 => lb[l][i].acceptOKs > 0
    BY <1>2, <1>4, <1>7
  <2> HIDE DEF ready
  <2> QED
    BY <1>2, <1>3, <1>8, <1>12, <1>13, <1>14, <1>15, <2>1, <2>2, <2>3 DEF LeaderStep
<1>17. CountInv(l)'
  <2>1. ASSUME NEW j \in Instances, lb'[l][j] # NoLB
        PROVE  /\ Cardinality(Waiting(j)') + lb'[l][j].prepareOKs <= N - 1
               /\ Proposed(l, j)' => Cardinality(Waiting(j)') <= F
    <3>1. CASE j # i
      <4>1. lb'[l][j] = lb[l][j] /\ Waiting(j)' = Waiting(j) /\ (Proposed(l, j)' <=> Proposed(l, j))
        BY <1>2, <1>8, <1>11, <3>1 DEF Proposed
      <4>2. lb[l][j] # NoLB
        BY <2>1, <4>1
      <4>3. /\ Cardinality(Waiting(j)) + lb[l][j].prepareOKs <= N - 1
            /\ Proposed(l, j) => Cardinality(Waiting(j)) <= F
        BY <4>2 DEF StableInv, CountInv
      <4> QED
        BY <4>1, <4>3
    <3>2. CASE j = i
      <4> DEFINE p == Cardinality(Waiting(i))
                 o == book.prepareOKs
      <4>1. p \in Nat /\ o \in Nat /\ N \in Nat /\ F \in Nat
        BY <1>2, WaitingFinite, SmallF DEF LeaderBookkeeping
      <4>2. Cardinality(Waiting(i)') = p - 1
        <5>1. Waiting(i)' = Waiting(i) \ {m.acceptor}
          BY <1>2, <1>11
        <5> QED
          BY <1>11, <5>1, WaitingFinite, FS_RemoveElement
      <4>3. p + o <= N - 1 /\ (Proposed(l, i) => p <= F)
        BY <1>2 DEF StableInv, CountInv
      <4>4. lb'[l][i].prepareOKs = o + 1
        BY <1>4, <1>8
      <4>5. Proposed(l, i)' => Proposed(l, i) \/ o + 2 >= N - F
        BY <1>12 DEF ReadQuorumSize
      <4> HIDE DEF p, o
      <4> QED
        BY <3>2, <4>1, <4>2, <4>3, <4>4, <4>5
    <3> QED
      BY <3>1, <3>2
  <2> QED
    BY <2>1 DEF CountInv
<1>18. \A j \in Instances :
         (Committed(l, j) \/ Waiting(j) = {}) => (Committed(l, j)' \/ Waiting(j)' = {})
  <2> SUFFICES ASSUME NEW j \in Instances, Committed(l, j) \/ Waiting(j) = {}
               PROVE  Committed(l, j)' \/ Waiting(j)' = {}
    OBVIOUS
  <2>1. CASE j # i
    BY <1>2, <1>8, <1>11, <2>1 DEF Committed
  <2>2. CASE j = i
    <3>1. Committed(l, i)
      BY <1>11, <2>2
    <3>2. Waiting(i) = {m.acceptor}
      BY <1>2, <1>11, <3>1, LastPromise
    <3>3. Waiting(i)' = {}
      BY <1>2, <1>11, <3>2
    <3> QED
      BY <2>2, <3>3
  <2> QED
    BY <2>1, <2>2
<1>19. LateInv(l)'
  <2>1. ASSUME NEW n \in DOMAIN network'
        PROVE  /\ n.type = "Commit" => Committed(l, n.inst)' /\ Waiting(n.inst)' = {}
               /\ n.type = "CommitShort" => Committed(l, n.inst)' \/ Waiting(n.inst)' = {}
    <3>1. CASE n \in DOMAIN network
      <4>1. n.inst \in Instances
        BY <3>1, MessageFields DEF TypeOK
      <4>2. n.type = "Commit" => Committed(l, n.inst) /\ Waiting(n.inst) = {}
        BY <3>1 DEF StableInv, LateInv
      <4>3. n.type = "Commit" => n.inst # i
        BY <1>11, <4>2
      <4>4. n.type = "Commit" => Committed(l, n.inst)' /\ Waiting(n.inst)' = {}
        BY <1>2, <1>8, <1>11, <4>1, <4>2, <4>3 DEF Committed
      <4>5. n.type = "CommitShort" => Committed(l, n.inst) \/ Waiting(n.inst) = {}
        BY <3>1 DEF StableInv, LateInv
      <4> QED
        BY <1>18, <4>1, <4>4, <4>5
    <3>2. CASE n \notin DOMAIN network
      BY <1>9, <1>10, <3>2
    <3> QED
      BY <3>1, <3>2
  <2>2. ASSUME NEW q \in Replicas \ {l}, NEW j \in Instances, Committed(q, j)'
        PROVE  Committed(l, j)' \/ Waiting(j)' = {}
    <3>1. Committed(q, j)
      BY <1>8, <2>2 DEF Committed
    <3> QED
      BY <1>18, <3>1 DEF StableInv, LateInv
  <2> QED
    BY <2>1, <2>2 DEF LateInv
<1> QED
  BY <1>2, <1>11, <1>16, <1>17, <1>19, LeaderKeeps DEF StableInv

LEMMA HandleProposeStable ==
  ASSUME NEW l, OneLeader(l), TypeOK, BookInv, StableInv(l), PlacedOnce', NEW r \in Replicas,
         NEW batch \in SUBSET proposeChan[r], HandlePropose(r, batch)
  PROVE  StableInv(l)'
<1>1. PICK i : i = NextInstance(r)
  OBVIOUS
<1> DEFINE b == BallotFor(r, maxRecvBallot[r])
           book == [clientProposals |-> batch, prepareOKs |-> 0, acceptOKs |-> 0, nacks |-> 0,
                    ballot |-> r, cmds |-> Nil, lastTriedBallot |-> b]
           fresh == FreshInstance(r)
           full == [cmds |-> batch, bal |-> b, vbal |-> b, status |-> "ACCEPTED"]
<1>2. /\ i \in Instances /\ r = l /\ batch # {} /\ batch \in SUBSET Commands /\ batch \in Slices
      /\ crtInstance[l] < i /\ OnWire(batch) = batch
  <2>1. i \in Instances /\ isLeader[r] /\ batch # {}
    BY <1>1 DEF HandlePropose
  <2>2. r = l
    BY <2>1 DEF StableInv, OneBallotInv
  <2>3. crtInstance[l] < i
    BY <1>1, <2>2 DEF NextInstance, TypeOK
  <2>4. batch \in SUBSET Commands
    BY DEF TypeOK
  <2>5. batch \in Slices /\ batch # Nil
    BY <2>4, SlicesFacts
  <2> QED
    BY <2>1, <2>2, <2>3, <2>4, <2>5 DEF OnWire
<1>3. b = l
  <2>1. defaultBallot[l][l] \in {-1, l} /\ maxRecvBallot[l] \in {-1, l} /\ l \in Nat
    BY <1>2, SmallF DEF StableInv, OneBallotInv
  <2> QED
    BY <1>2, <2>1 DEF BallotFor, MaxOf
<1>4. l \in Ballots
  <2>1. l \in Nat /\ l <= MaxBallot
    BY <1>3, SmallF DEF HandlePropose
  <2> QED
    BY <2>1, BoundAssumption DEF Ballots
<1>5. instanceSpace[l][i] = NoInstance /\ lb[l][i] = NoLB
  <2>1. instanceSpace[l][i] # NoInstance => i <= crtInstance[l]
    BY <1>2, SmallF DEF BookInv
  <2>2. lb[l][i] # NoLB => instanceSpace[l][i] # NoInstance
    BY <1>2, SmallF DEF BookInv
  <2>3. crtInstance[l] \in Int /\ i \in Int
    BY <1>2, SmallF DEF TypeOK, Instances
  <2> QED
    BY <1>2, <2>1, <2>2, <2>3
<1>6. \A n \in DOMAIN network : n.inst # i
  BY <1>5 DEF StableInv, MessageInv, Expected
<1>7. PICK y \in Instance, z \in LeaderBookkeeping, ms \in {Prepares(l, i, l), Accepts(l, i, l, batch)} :
        /\ instanceSpace' = [instanceSpace EXCEPT ![l][i] = y]
        /\ lb' = [lb EXCEPT ![l][i] = z]
        /\ Sends(ms)
        /\ z.clientProposals = batch /\ z.prepareOKs = 0 /\ z.acceptOKs = 0 /\ z.lastTriedBallot = l
        /\ {y.bal, y.vbal} \subseteq {-1, l}
        /\ \/ y.status = "PREPARING" /\ y.cmds = Nil /\ ms = Prepares(l, i, l)
           \/ /\ y.status = "ACCEPTED" /\ y.cmds = batch /\ y.bal = l
              /\ ms = Accepts(l, i, l, batch)
  <2>1. fresh \in Instance /\ full \in Instance
        /\ fresh.status = "PREPARING" /\ fresh.cmds = Nil /\ {fresh.bal, fresh.vbal} \subseteq {-1, l}
    <3>1. defaultBallot[l][l] \in {-1, l} /\ defaultBallot[l][l] \in Ballots
      BY <1>2, SmallF DEF StableInv, OneBallotInv, TypeOK
    <3> QED
      BY <1>2, <1>3, <1>4, <3>1, SlicesFacts DEF Instance, FreshInstance, Statuses
  <2>2. /\ book \in LeaderBookkeeping /\ [book EXCEPT !.cmds = batch] \in LeaderBookkeeping
        /\ book.clientProposals = batch /\ book.lastTriedBallot = l
    <3>1. r \in Ballots /\ b \in Ballots
      BY <1>2, <1>3, <1>4
    <3> HIDE DEF b
    <3> QED
      BY <1>2, <1>3, <3>1, SlicesFacts DEF LeaderBookkeeping
  <2>3. \/ /\ instanceSpace' = [instanceSpace EXCEPT ![r][i] = fresh]
           /\ lb' = [lb EXCEPT ![r][i] = book]
           /\ Sends(Prepares(r, i, b))
        \/ /\ instanceSpace' = [instanceSpace EXCEPT ![r][i] = full]
           /\ lb' = [lb EXCEPT ![r][i] = [book EXCEPT !.cmds = batch]]
           /\ Sends(Accepts(r, i, b, batch))
    BY <1>1 DEF HandlePropose, SetInstance
  <2>4. CASE /\ instanceSpace' = [instanceSpace EXCEPT ![r][i] = fresh]
             /\ lb' = [lb EXCEPT ![r][i] = book]
             /\ Sends(Prepares(r, i, b))
    <3>1. book.prepareOKs = 0 /\ book.acceptOKs = 0
      OBVIOUS
    <3> HIDE DEF b, book, fresh
    <3> QED
      BY <1>2, <1>3, <2>1, <2>2, <2>4, <3>1
  <2>5. CASE /\ instanceSpace' = [instanceSpace EXCEPT ![r][i] = full]
             /\ lb' = [lb EXCEPT ![r][i] = [book EXCEPT !.cmds = batch]]
             /\ Sends(Accepts(r, i, b, batch))
    <3> DEFINE z == [book EXCEPT !.cmds = batch]
    <3>1. z.prepareOKs = 0 /\ z.acceptOKs = 0 /\ z.clientProposals = batch /\ z.lastTriedBallot = b
      OBVIOUS
    <3>2. full.status = "ACCEPTED" /\ full.cmds = batch /\ full.bal = b /\ full.vbal = b
      OBVIOUS
    <3> HIDE DEF b, z, full
    <3> QED
      BY <1>2, <1>3, <2>1, <2>2, <2>5, <3>1, <3>2 DEF z
  <2> QED
    BY <2>3, <2>4, <2>5
<1> HIDE DEF b
<1>8. /\ UNCHANGED <<isLeader, refused, smallestDefaultBallot, maxRecvBallot, execVars, lifeVars>>
      /\ defaultBallot' = [defaultBallot EXCEPT ![r][r] = l]
  BY <1>3 DEF HandlePropose, b
<1>9. /\ instanceSpace'[l][i] = y /\ lb'[l][i] = z /\ y # NoInstance /\ z # NoLB
      /\ \A s \in Replicas, j \in Instances : ~(s = l /\ j = i) =>
           lb'[s][j] = lb[s][j] /\ instanceSpace'[s][j] = instanceSpace[s][j]
  BY <1>2, <1>7, SmallF, NothingAssumption DEF TypeOK
<1>10. /\ Proposed(l, i)' <=> y.status = "ACCEPTED"
       /\ ~Committed(l, i)' /\ Batch(l, i)' = batch
       /\ ~Proposed(l, i) /\ ~Committed(l, i)
  BY <1>5, <1>7, <1>9 DEF Proposed, Committed, Batch
<1>11. DOMAIN network' = DOMAIN network \cup ms
  BY <1>7, SendsBag DEF TypeOK
<1>12. \A n \in ms : /\ n.inst = i /\ n.bal = l /\ n.to # l /\ n.leader = l
                     /\ n.type \in {"Prepare", "Accept"}
                     /\ n.type = "Accept" => y.status = "ACCEPTED" /\ n.cmds = batch
  BY <1>2, <1>7 DEF Prepares, Accepts, Others
<1>13. LeaderStep(l, i)
  <2>1. UNCHANGED <<log, replied, panicked, toRecover, isLeader>>
    BY <1>8 DEF execVars, lifeVars
  <2>2. \A s \in Replicas : {maxRecvBallot'[s], smallestDefaultBallot'[s]} \subseteq {-1, l}
    BY <1>8 DEF StableInv, OneBallotInv
  <2>3. \A s, q \in Replicas : defaultBallot'[s][q] \in {-1, l}
    <3>1. /\ defaultBallot \in [Replicas -> [Replicas -> Ballots]]
          /\ \A s, q \in Replicas : defaultBallot[s][q] \in {-1, l}
      BY DEF TypeOK, StableInv, OneBallotInv
    <3> QED
      BY <1>8, <3>1
  <2>4. \A n \in DOMAIN network' \ DOMAIN network :
          /\ Expected(l, n)' /\ n.inst = i /\ n.type # "AcceptReply"
          /\ n.type = "CommitShort" => lb[l][i] # NoLB /\ Backed(l, i)
    <3> SUFFICES ASSUME NEW n \in DOMAIN network' \ DOMAIN network
                 PROVE  Expected(l, n)' /\ n.inst = i /\ n.type \in {"Prepare", "Accept"}
      OBVIOUS
    <3>1. n \in ms
      BY <1>11
    <3> QED
      BY <1>9, <1>10, <1>12, <3>1 DEF Expected
  <2>5. /\ ~Proposed(l, i)' => y.cmds = Nil
        /\ Proposed(l, i)' => y.bal = l /\ y.cmds = batch
    BY <1>7, <1>10
  <2>6. /\ instanceSpace'[l][i] # NoInstance /\ lb'[l][i] # NoLB
        /\ {instanceSpace'[l][i].bal, instanceSpace'[l][i].vbal} \subseteq {-1, l}
        /\ lb'[l][i].lastTriedBallot = l
        /\ Batch(l, i)' \in (SUBSET Commands) \ {{}}
        /\ ~Proposed(l, i)' => instanceSpace'[l][i].cmds = Nil
        /\ Proposed(l, i)' => /\ instanceSpace'[l][i].bal = l
                              /\ instanceSpace'[l][i].cmds = Batch(l, i)'
    <3>1. /\ {y.bal, y.vbal} \subseteq {-1, l} /\ z.lastTriedBallot = l
      BY <1>7
    <3>2. batch \in (SUBSET Commands) \ {{}} /\ Batch(l, i)' = batch
      BY <1>2, <1>10
    <3>3. /\ instanceSpace'[l][i] = y /\ lb'[l][i] = z /\ y # NoInstance /\ z # NoLB
      BY <1>9
    <3> QED
      BY <2>5, <3>1, <3>2, <3>3
  <2>7. ~(lb'[l][i].acceptOKs > 0)
    BY <1>7, <1>9
  <2> QED
    BY <1>5, <1>9, <1>10, <2>1, <2>2, <2>3, <2>4, <2>6, <2>7 DEF LeaderStep
<1>14. /\ AskedOnceInv'
       /\ \A j \in Instances \ {i} : Waiting(j)' = Waiting(j)
       /\ Waiting(i)' \subseteq Others(l)
       /\ Proposed(l, i)' => Waiting(i)' = {}
  <2>1. CASE y.status = "PREPARING"
    <3>1. ms = Prepares(l, i, l)
      BY <1>7, <2>1
    <3>2. /\ AskedOnceInv' /\ Waiting(i)' = Others(l)
          /\ \A j \in Instances \ {i} : Waiting(j)' = Waiting(j)
      BY <1>2, <1>6, <1>7, <3>1, FreshPrepares, SmallF DEF StableInv, TypeOK
    <3> QED
      BY <1>10, <2>1, <3>2
  <2>2. CASE y.status = "ACCEPTED"
    <3>1. ms = Accepts(l, i, l, batch)
      BY <1>7, <2>2
    <3>2. \A n \in ms : ~IsPrepare(n)
      BY <3>1 DEF Accepts, IsPrepare
    <3>3. SamePrepares
      BY <1>7, <3>2, SendsCounts DEF SamePrepares, TypeOK
    <3>4. AskedOnceInv' /\ \A j \in Instances : Waiting(j)' = Waiting(j)
      BY <3>3, WaitingKept DEF StableInv
    <3>5. Waiting(i) = {}
      BY <1>6 DEF Waiting
    <3> QED
      BY <1>2, <3>4, <3>5
  <2> QED
    BY <1>7, <2>1, <2>2
<1>15. CountInv(l)'
  <2>1. ASSUME NEW j \in Instances, lb'[l][j] # NoLB
        PROVE  /\ Cardinality(Waiting(j)') + lb'[l][j].prepareOKs <= N - 1
               /\ Proposed(l, j)' => Cardinality(Waiting(j)') <= F
    <3>1. CASE j # i
      <4>1. lb'[l][j] = lb[l][j] /\ Waiting(j)' = Waiting(j) /\ (Proposed(l, j)' <=> Proposed(l, j))
        BY <1>9, <1>14, <3>1, SmallF DEF Proposed
      <4> QED
        BY <2>1, <4>1 DEF StableInv, CountInv
    <3>2. CASE j = i
      <4>1. Cardinality(Waiting(i)') <= N - 1
        <5>1. IsFiniteSet(Others(l)) /\ Cardinality(Others(l)) = N - 1
          BY OthersCount, SmallF
        <5> QED
          BY <1>14, <5>1, FS_Subset
      <4>2. Proposed(l, i)' => Cardinality(Waiting(i)') = 0
        BY <1>14, FS_EmptySet
      <4>3. IsFiniteSet(Waiting(i)') /\ Cardinality(Waiting(i)') \in Nat
        BY <1>14, OthersCount, SmallF, FS_Subset, FS_CardinalityType
      <4> QED
        BY <1>7, <1>9, <3>2, <4>1, <4>2, <4>3, SmallF
    <3> QED
      BY <3>1, <3>2
  <2> QED
    BY <2>1 DEF CountInv
<1>16. \A j \in Instances \ {i} : Committed(l, j)' <=> Committed(l, j)
  BY <1>9, SmallF DEF Committed
<1>17. LateInv(l)'
  <2>1. ASSUME NEW n \in DOMAIN network'
        PROVE  /\ n.type = "Commit" => Committed(l, n.inst)' /\ Waiting(n.inst)' = {}
               /\ n.type = "CommitShort" => Committed(l, n.inst)' \/ Waiting(n.inst)' = {}
    <3>1. CASE n \in DOMAIN network
      <4>1. n.inst \in Instances \ {i}
        BY <1>6, <3>1, MessageFields DEF TypeOK
      <4> QED
        BY <1>14, <1>16, <3>1, <4>1 DEF StableInv, LateInv
    <3>2. CASE n \notin DOMAIN network
      BY <1>11, <1>12, <3>2
    <3> QED
      BY <3>1, <3>2
  <2>2. ASSUME NEW q \in Replicas \ {l}, NEW j \in Instances, Committed(q, j)'
        PROVE  Committed(l, j)' \/ Waiting(j)' = {}
    <3>1. Committed(q, j)
      BY <1>9, <2>2 DEF Committed
    <3>2. j # i
      <4>1. Follows(l, q, j)
        BY DEF StableInv, AcceptorInv
      <4> QED
        BY <1>5, <3>1, <4>1 DEF Follows, Proposed, Committed
    <3> QED
      BY <1>14, <1>16, <3>1, <3>2 DEF StableInv, LateInv
  <2> QED
    BY <2>1, <2>2 DEF LateInv
<1> QED
  BY <1>2, <1>13, <1>14, <1>15, <1>17, LeaderKeeps DEF StableInv

\* What a replica executes next is the batch of the leader, which another replica holds.
LEMMA ExecutesBatch ==
  ASSUME NEW l, OneLeader(l), TypeOK, StableInv(l), NEW r \in Replicas, NEW i,
         i = NextToExecute(r), i <= crtInstance[r], IsExecutable(r)
  PROVE  /\ i \in Instances /\ lb[l][i] # NoLB /\ Proposed(l, i) /\ Backed(l, i)
         /\ instanceSpace[r][i].cmds = Batch(l, i)
         /\ Batch(l, i) \in (SUBSET Commands) \ {{}}
<1>1. i \in Instances
  <2>1. i \in Nat
    BY DEF NextToExecute, TypeOK
  <2>2. crtInstance[r] \in -1 .. MaxInstance
    BY DEF TypeOK
  <2> QED
    BY <2>1, <2>2, BoundAssumption DEF Instances
<1>2. Committed(r, i) /\ instanceSpace[r][i].cmds # Nil
  BY DEF IsExecutable, Committed
<1>3. Proposed(r, i)
  BY <1>2 DEF Committed, Proposed
<1>4. lb[l][i] # NoLB /\ Proposed(l, i) /\ instanceSpace[r][i].cmds = Batch(l, i)
  <2>1. CASE r = l
    BY <1>1, <1>3, <2>1 DEF StableInv, ProposalInv, Proposed
  <2>2. CASE r # l
    <3>1. Follows(l, r, i)
      BY <1>1, <2>2 DEF StableInv, AcceptorInv
    <3> QED
      BY <1>2, <1>3, <3>1 DEF Follows, Committed
  <2> QED
    BY <2>1, <2>2
<1>5. Backed(l, i)
  BY <1>1, <1>2 DEF StableInv, BackedInv
<1>6. Batch(l, i) \in (SUBSET Commands) \ {{}}
  BY <1>1, <1>4 DEF StableInv, ProposalInv
<1> QED
  BY <1>1, <1>4, <1>5, <1>6

LEMMA ExecuteStable ==
  ASSUME NEW l, OneLeader(l), TypeOK, StableInv(l), PlacedOnce', NEW r \in Replicas, Execute(r)
  PROVE  StableInv(l)'
<1>1. PICK i : i = NextToExecute(r)
  OBVIOUS
<1> DEFINE cmds == instanceSpace[r][i].cmds
<1>2. /\ i <= crtInstance[r] /\ IsExecutable(r)
      /\ log' = [log EXCEPT ![r] = Append(log[r], cmds)]
      /\ \/ replied' = replied
         \/ HasProposals(r, i) /\ \E a \in SUBSET lb[r][i].clientProposals : replied' = replied \cup a
      /\ UNCHANGED <<leaderVars, ballotVars, toRecover, timeouts, lifeVars,
                     instanceSpace, lb, crtInstance, network>>
  BY <1>1 DEF Execute
<1>3. /\ i \in Instances /\ lb[l][i] # NoLB /\ Proposed(l, i) /\ Backed(l, i)
      /\ cmds = Batch(l, i)
  BY <1>1, <1>2, ExecutesBatch
<1>4. /\ \A s \in Replicas : log[s] \in Seq(SUBSET (Commands \cup {Noop}))
      /\ \A s \in Replicas \ {r} : log'[s] = log[s]
      /\ Len(log'[r]) = Len(log[r]) + 1 /\ Len(log[r]) = i /\ Len(log[r]) \in Nat
      /\ \A k \in 1 .. Len(log[r]) : log'[r][k] = log[r][k]
      /\ log'[r][i + 1] = Batch(l, i)
  <2>1. log \in [Replicas -> Seq(SUBSET (Commands \cup {Noop}))]
    BY DEF TypeOK
  <2>2. log'[r] = Append(log[r], cmds) /\ \A s \in Replicas \ {r} : log'[s] = log[s]
    BY <1>2, <2>1
  <2>3. i = Len(log[r])
    BY <1>1 DEF NextToExecute
  <2> QED
    BY <1>3, <2>1, <2>2, <2>3
<1>5. UNCHANGED <<isLeader, smallestDefaultBallot, maxRecvBallot, defaultBallot, toRecover,
                  panicked, instanceSpace, lb, network>>
  BY <1>2 DEF leaderVars, ballotVars, lifeVars
<1>6. /\ \A s \in Replicas, j \in Instances :
           /\ Proposed(s, j)' <=> Proposed(s, j)
           /\ Committed(s, j)' <=> Committed(s, j)
      /\ \A j \in Instances : /\ Batch(l, j)' = Batch(l, j)
                              /\ Backed(l, j)' <=> Backed(l, j)
                              /\ Waiting(j)' = Waiting(j)
  BY <1>5 DEF Proposed, Committed, Batch, Backed, Holds, Waiting
<1>7. OneBallotInv(l)'
  BY <1>5 DEF StableInv, OneBallotInv
<1>8. ProposalInv(l)'
  BY <1>5, <1>6, SmallF DEF StableInv, ProposalInv
<1>9. MessageInv(l)'
  <2> SUFFICES ASSUME NEW n \in DOMAIN network PROVE Expected(l, n)'
    BY <1>5 DEF MessageInv
  <2>1. Expected(l, n) /\ n.inst \in Instances
    BY MessageFields DEF StableInv, MessageInv, TypeOK
  <2> QED
    BY <1>5, <1>6, <2>1, SmallF DEF Expected
<1>10. AcceptorInv(l)'
  BY <1>5, <1>6, SmallF DEF StableInv, AcceptorInv, Follows
<1>11. AskedOnceInv'
  BY <1>5 DEF StableInv, AskedOnceInv
<1>12. CountInv(l)'
  BY <1>5, <1>6, SmallF DEF StableInv, CountInv
<1>13. LateInv(l)'
  <2>1. \A n \in DOMAIN network : n.inst \in Instances
    BY MessageFields DEF TypeOK
  <2> QED
    BY <1>5, <1>6, <2>1, SmallF DEF StableInv, LateInv
<1>14. BackedInv(l)'
  <2>1. \A n \in DOMAIN network : n.inst \in Instances
    BY MessageFields DEF TypeOK
  <2> QED
    BY <1>5, <1>6, <2>1 DEF StableInv, BackedInv
<1>15. LogInv(l)'
  <2> SUFFICES ASSUME NEW s \in Replicas, NEW k \in 1 .. Len(log'[s])
               PROVE  /\ k - 1 \in Instances
                      /\ lb'[l][k - 1] # NoLB
                      /\ log'[s][k] = Batch(l, k - 1)'
                      /\ Proposed(l, k - 1)'
                      /\ Backed(l, k - 1)'
    BY DEF LogInv
  <2>1. CASE s = r /\ k = i + 1
    BY <1>3, <1>4, <1>5, <1>6, <2>1, SmallF
  <2>2. CASE ~(s = r /\ k = i + 1)
    <3>1. k \in 1 .. Len(log[s]) /\ log'[s][k] = log[s][k]
      BY <1>4, <2>2
    <3>2. /\ k - 1 \in Instances /\ lb[l][k - 1] # NoLB /\ log[s][k] = Batch(l, k - 1)
          /\ Proposed(l, k - 1) /\ Backed(l, k - 1)
      BY <3>1 DEF StableInv, LogInv
    <3> QED
      BY <1>5, <1>6, <3>1, <3>2, SmallF
  <2> QED
    BY <2>1, <2>2
<1>16. AnsweredIsExecuted'
  <2> SUFFICES ASSUME NEW c \in replied'
               PROVE  \E s \in Replicas : \E k \in 1 .. Len(log'[s]) : c \in log'[s][k]
    BY DEF AnsweredIsExecuted
  <2>1. CASE c \in replied
    <3>0. PICK s \in Replicas : \E k \in 1 .. Len(log[s]) : c \in log[s][k]
      BY <2>1 DEF StableInv, AnsweredIsExecuted
    <3>1. PICK k \in 1 .. Len(log[s]) : c \in log[s][k]
      BY <3>0
    <3>2. k \in 1 .. Len(log'[s]) /\ log'[s][k] = log[s][k]
      BY <1>4, <3>1
    <3> QED
      BY <3>1, <3>2
  <2>2. CASE c \notin replied
    <3>1. HasProposals(r, i) /\ c \in lb[r][i].clientProposals
      BY <1>2, <2>2
    <3>2. r = l
      BY <1>3, <3>1 DEF StableInv, OneBallotInv, HasProposals
    <3>3. c \in log'[r][i + 1] /\ i + 1 \in 1 .. Len(log'[r])
      BY <1>4, <3>1, <3>2 DEF Batch
    <3> QED
      BY <3>3
  <2> QED
    BY <2>1, <2>2
<1> QED
  BY <1>7, <1>8, <1>9, <1>10, <1>11, <1>12, <1>13, <1>14, <1>15, <1>16 DEF StableInv
-------------------------------------------------------------------------------
(***************************************************************************)
(* The theorems.                                                           *)
(***************************************************************************)

LEMMA StepStable ==
  ASSUME NEW l, OneLeader(l), TypeOK, BookInv, OwnerInv, StableInv(l), Next
  PROVE  StableInv(l)'
<1>1. PICK r \in Replicas : RunLoop(r) \/ Recover(r) \/ Execute(r) \/ PanicExecute(r)
                            \/ GracePeriodExpires(r) \/ BeTheLeader(r) \/ Stop(r)
  BY DEF Next
<1>2. TypeOK'
  BY StepTypes
<1>3. PlacedOnce'
  BY StepPlaces, PlacedOnceKept DEF StableInv
<1>4. ASSUME OthersStep(l) PROVE StableInv(l)'
  BY <1>2, <1>3, <1>4, OthersKeep
<1>5. ASSUME NEW m \in DOMAIN network, HandleMessage(r, m) PROVE StableInv(l)'
  <2>1. CASE HandlePrepareCommitted(r, m)
    BY <1>4, <2>1, HandlePrepareCommittedStable
  <2>2. CASE HandlePrepare(r, m)
    BY <1>4, <2>2, HandlePrepareStable
  <2>3. CASE HandleAccept(r, m)
    BY <1>4, <2>3, HandleAcceptStable
  <2>4. CASE HandleCommit(r, m)
    BY <1>4, <2>4, HandleCommitStable
  <2>5. CASE HandleCommitShort(r, m)
    BY <1>4, <2>5, HandleCommitShortStable
  <2>6. CASE HandlePrepareReply(r, m)
    BY <1>3, <2>6, NeverHappens, PromisedStable DEF HandlePrepareReply
  <2>7. CASE HandleAcceptReply(r, m)
    <3>1. IgnoreAcceptReply(r, m) \/ Accepted(r, m)
      BY <2>7, NeverHappens DEF HandleAcceptReply
    <3> QED
      BY <1>3, <1>4, <3>1, IgnoreAcceptReplyStable, AcceptedStable
  <2> QED
    BY <1>5, <2>1, <2>2, <2>3, <2>4, <2>5, <2>6, <2>7 DEF HandleMessage
<1>6. CASE \E c \in proposeChan[r] : RefusePropose(r, c)
  BY <1>4, <1>6, QuietStable
<1>7. CASE \E batch \in SUBSET proposeChan[r] : HandlePropose(r, batch)
  BY <1>3, <1>7, HandleProposeStable
<1>8. CASE RunLoop(r)
  BY <1>5, <1>6, <1>7, <1>8 DEF RunLoop
<1>9. CASE Execute(r)
  BY <1>3, <1>9, ExecuteStable
<1>10. CASE Stop(r)
  BY <1>4, <1>10, QuietStable
<1> QED
  BY <1>1, <1>8, <1>9, <1>10, NeverHappens

LEMMA InitStable ==
  ASSUME NEW l, OneLeader(l), Init
  PROVE  StableInv(l)
<1>1. DOMAIN network = {} /\ \A i \in Instances : Waiting(i) = {}
  BY DEF Init, EmptyBag, SetToBag, Waiting
<1>2. \A r \in Replicas, i \in Instances :
        /\ instanceSpace[r][i] = NoInstance /\ lb[r][i] = NoLB
        /\ ~Committed(r, i) /\ ~HasProposals(r, i)
  BY DEF Init, Committed, HasProposals
<1>3. OneBallotInv(l)
  BY DEF Init, OneBallotInv, OneLeader
<1>4. /\ ProposalInv(l) /\ AcceptorInv(l) /\ CountInv(l)
  BY <1>2, SmallF DEF ProposalInv, AcceptorInv, Follows, CountInv
<1>5. MessageInv(l) /\ AskedOnceInv
  BY <1>1 DEF MessageInv, AskedOnceInv
<1>6. LateInv(l) /\ BackedInv(l)
  BY <1>1, <1>2, SmallF DEF LateInv, BackedInv
<1>7. LogInv(l) /\ AnsweredIsExecuted
  BY DEF Init, LogInv, AnsweredIsExecuted
<1>8. PlacedOnce
  <2>1. \A r \in Replicas, c \in Commands : Places(r, c) \subseteq {-1}
    BY <1>2 DEF Places
  <2> QED
    BY <2>1 DEF PlacedOnce
<1> QED
  BY <1>3, <1>4, <1>5, <1>6, <1>7, <1>8 DEF StableInv

\* Under one leader every replica follows its one ballot: what is proposed, accepted,
\* committed and executed for an instance is the batch the leader gave it (StableInv).
THEOREM StableInvariant ==
  ASSUME NEW l, OneLeader(l)
  PROVE  Spec => [](TypeOK /\ StableInv(l))
<1>1. Init => OwnerInv /\ StableInv(l)
  <2>1. Init => OwnerInv
    BY DEF Init, EmptyBag, SetToBag, OwnerInv, BallotsOwned
  <2> QED
    BY <2>1, InitStable
<1>2. TypeOK /\ OwnerInv /\ StableInv(l) /\ UNCHANGED vars => OwnerInv' /\ StableInv(l)'
  <2> SUFFICES ASSUME TypeOK, OwnerInv, StableInv(l), UNCHANGED vars
               PROVE  OwnerInv' /\ StableInv(l)'
    OBVIOUS
  <2>1. OwnerInv'
    BY DEF OwnerInv, BallotsOwned, vars, leaderVars
  <2>2. TypeOK'
    BY DEF TypeOK, vars, leaderVars, ballotVars, execVars, lifeVars
  <2>3. PlacedOnce'
    BY DEF StableInv, PlacedOnce, Places, HasProposals, vars, leaderVars
  <2>4. OthersStep(l)
    <3>1. UNCHANGED <<lb, log, replied, panicked, toRecover, isLeader, smallestDefaultBallot,
                      instanceSpace, defaultBallot, maxRecvBallot, network>>
      BY DEF vars, leaderVars, ballotVars, execVars, lifeVars
    <3>2. \A s \in Replicas : maxRecvBallot'[s] \in {-1, l}
      BY <3>1 DEF StableInv, OneBallotInv
    <3> QED
      BY <3>1, <3>2, QuietKeeps
  <2> QED
    BY <2>1, <2>2, <2>3, <2>4, OthersKeep
<1>3. TypeOK /\ BookInv /\ OwnerInv /\ StableInv(l) /\ [Next]_vars => OwnerInv' /\ StableInv(l)'
  BY <1>2, StepOwners, StepStable
<1> QED
  BY <1>1, <1>3, BookInvariant, PTL DEF Spec

\* The leader gives a command to one instance.
LEMMA BatchesDisjoint ==
  ASSUME NEW l, OneLeader(l), StableInv(l), NEW i \in Instances, NEW j \in Instances,
         lb[l][i] # NoLB, lb[l][j] # NoLB, NEW c \in Batch(l, i), c \in Batch(l, j)
  PROVE  i = j
<1>1. /\ Batch(l, i) \in SUBSET Commands /\ Batch(l, j) \in SUBSET Commands
  BY DEF StableInv, ProposalInv
<1>2. HasProposals(l, i) /\ HasProposals(l, j)
  BY <1>1, SlicesFacts DEF HasProposals, Batch
<1>3. i \in Places(l, c) /\ j \in Places(l, c)
  BY <1>2 DEF Places, Batch
<1>4. l \in Replicas /\ c \in Commands
  BY <1>1 DEF OneLeader
<1> QED
  BY <1>3, <1>4 DEF StableInv, PlacedOnce

\* What has been executed is a batch of the leader.
LEMMA LogBatches ==
  ASSUME NEW l, OneLeader(l), StableInv(l), NEW r \in Replicas, NEW k \in 1 .. Len(log[r])
  PROVE  /\ k - 1 \in Instances /\ lb[l][k - 1] # NoLB /\ Proposed(l, k - 1) /\ Backed(l, k - 1)
         /\ log[r][k] = Batch(l, k - 1) /\ log[r][k] \in (SUBSET Commands) \ {{}}
<1>1. /\ k - 1 \in Instances /\ lb[l][k - 1] # NoLB /\ Proposed(l, k - 1) /\ Backed(l, k - 1)
      /\ log[r][k] = Batch(l, k - 1)
  BY DEF StableInv, LogInv
<1>2. Batch(l, k - 1) \in (SUBSET Commands) \ {{}}
  BY <1>1 DEF StableInv, ProposalInv
<1> QED
  BY <1>1, <1>2

\* The ballot of the leader carries one batch for each instance, however many late promises
\* make it send the Accept again.
THEOREM OneBatchPerBallotHolds ==
  ASSUME NEW l, OneLeader(l)
  PROVE  Spec => []OneBatchPerBallot
<1>1. TypeOK /\ StableInv(l) => OneBatchPerBallot
  <2> SUFFICES ASSUME TypeOK, StableInv(l), NEW i \in Instances, NEW b \in 0 .. MaxBallot,
                      NEW c \in BatchesAt(i, b)
               PROVE  c = Batch(l, i)
    BY DEF OneBatchPerBallot
  <2>1. ASSUME NEW m \in DOMAIN network, m.type = "Accept", m.inst = i, c = m.cmds
        PROVE  c = Batch(l, i)
    BY <2>1 DEF StableInv, MessageInv, Expected
  <2>2. ASSUME NEW r \in Replicas, instanceSpace[r][i] # NoInstance,
               instanceSpace[r][i].status = "ACCEPTED", c = instanceSpace[r][i].cmds
        PROVE  c = Batch(l, i)
    <3>1. Proposed(r, i) /\ ~Committed(r, i)
      BY <2>2 DEF Proposed, Committed
    <3>2. CASE r = l
      BY <2>2, <3>1, <3>2 DEF StableInv, ProposalInv
    <3>3. CASE r # l
      <4>1. Follows(l, r, i)
        BY <3>3 DEF StableInv, AcceptorInv
      <4> QED
        BY <2>2, <3>1, <4>1 DEF Follows
    <3> QED
      BY <3>2, <3>3
  <2> QED
    BY <2>1, <2>2 DEF BatchesAt
<1> QED
  BY <1>1, StableInvariant, PTL

\* No client is answered for a command that no replica has executed.
THEOREM AnsweredIsExecutedHolds ==
  ASSUME NEW l, OneLeader(l)
  PROVE  Spec => []AnsweredIsExecuted
<1>1. StableInv(l) => AnsweredIsExecuted
  BY DEF StableInv
<1> QED
  BY <1>1, StableInvariant, PTL

\* No replica executes a command twice: no batch of the leader is ever displaced.
THEOREM ExecutedOnceHolds ==
  ASSUME NEW l, OneLeader(l)
  PROVE  Spec => []ExecutedOnce
<1>1. StableInv(l) => ExecutedOnce
  <2> SUFFICES ASSUME StableInv(l), NEW r \in Replicas,
                      NEW j \in 1 .. Len(log[r]), NEW k \in 1 .. Len(log[r]),
                      NEW c \in log[r][j], c \in log[r][k]
               PROVE  j = k
    BY DEF ExecutedOnce
  <2>1. /\ j - 1 \in Instances /\ lb[l][j - 1] # NoLB /\ c \in Batch(l, j - 1)
        /\ k - 1 \in Instances /\ lb[l][k - 1] # NoLB /\ c \in Batch(l, k - 1)
    BY LogBatches
  <2>2. j - 1 = k - 1
    BY <2>1, BatchesDisjoint
  <2> QED
    BY <2>2
<1> QED
  BY <1>1, StableInvariant, PTL

\* Two replicas that have committed an instance hold the same batch for it, unless the
\* commit reached one of them before the batch.
THEOREM AgreementHolds ==
  ASSUME NEW l, OneLeader(l)
  PROVE  Spec => []Agreement
<1>1. StableInv(l) => Agreement
  <2> SUFFICES ASSUME StableInv(l), NEW r \in Replicas, NEW i \in Instances, Committed(r, i)
               PROVE  instanceSpace[r][i].cmds \in {Batch(l, i), Nil}
    BY DEF Agreement
  <2>1. Proposed(r, i)
    BY DEF Proposed, Committed
  <2>2. CASE r = l
    BY <2>1, <2>2 DEF StableInv, ProposalInv, Committed
  <2>3. CASE r # l
    <3>1. Follows(l, r, i)
      BY <2>3 DEF StableInv, AcceptorInv
    <3> QED
      BY <2>1, <3>1 DEF Follows, Committed
  <2> QED
    BY <2>2, <2>3
<1> QED
  BY <1>1, StableInvariant, PTL

\* What has been executed is held by the leader and by a replica that answered it, which
\* make a write quorum.
THEOREM ExecutedIsHeldHolds ==
  ASSUME NEW l, OneLeader(l)
  PROVE  Spec => []ExecutedIsHeld
<1>1. StableInv(l) => ExecutedIsHeld
  <2> SUFFICES ASSUME StableInv(l), NEW r \in Replicas, NEW k \in 1 .. Len(log[r])
               PROVE  Cardinality({q \in Replicas : Holds(q, k - 1, log[r][k])}) >= WriteQuorumSize
    BY DEF ExecutedIsHeld
  <2> DEFINE H == {q \in Replicas : Holds(q, k - 1, log[r][k])}
  <2>1. /\ k - 1 \in Instances /\ lb[l][k - 1] # NoLB /\ Proposed(l, k - 1) /\ Backed(l, k - 1)
        /\ log[r][k] = Batch(l, k - 1)
    BY LogBatches
  <2>2. Holds(l, k - 1, Batch(l, k - 1))
    BY <2>1 DEF Holds, Proposed, StableInv, ProposalInv
  <2>3. PICK q \in Replicas \ {l} : Holds(q, k - 1, Batch(l, k - 1))
    BY <2>1 DEF Backed
  <2>4. {l} \cup {q} \subseteq H
    BY <2>1, <2>2, <2>3, SmallF
  <2>5. Cardinality({l} \cup {q}) = 2
    <3>1. IsFiniteSet({l}) /\ Cardinality({l}) = 1 /\ q \notin {l}
      BY <2>3, FS_Singleton
    <3>2. Cardinality({l} \cup {q}) = Cardinality({l}) + 1
      BY <3>1, FS_AddElement
    <3> QED
      BY <3>1, <3>2
  <2>6. IsFiniteSet(H)
    <3>1. IsFiniteSet(Replicas)
      BY SizeAssumption, FS_Interval DEF Replicas
    <3> QED
      BY <3>1, FS_Subset
  <2>7. 2 <= Cardinality(H) /\ Cardinality(H) \in Nat
    BY <2>4, <2>5, <2>6, FS_Subset, FS_CardinalityType
  <2> HIDE DEF H
  <2>8. Cardinality(H) >= WriteQuorumSize
    BY <2>7, SmallF DEF WriteQuorumSize
  <2> QED
    BY <2>8 DEF H
<1> QED
  BY <1>1, StableInvariant, PTL

\* Under one leader Paxos is one replicated log of batches: executing a batch is learning a
\* slot of the log, and no other step learns.
THEOREM Refinement ==
  ASSUME NEW l, OneLeader(l)
  PROVE  Spec => ImplementsConsensus
<1>1. Init => Abstract!Init
  BY DEF Init, Abstract!Init, Executed
<1>2. ASSUME TypeOK, StableInv(l), [Next]_vars
      PROVE  [Abstract!Next]_Executed
  <2>1. ASSUME log' = log PROVE Executed' = Executed
    BY <2>1 DEF Executed
  <2>2. ASSUME NEW r \in Replicas, Execute(r) PROVE Abstract!Next
    <3>1. PICK i : i = NextToExecute(r)
      OBVIOUS
    <3>2. PICK c : c = instanceSpace[r][i].cmds
      OBVIOUS
    <3>3. /\ i <= crtInstance[r] /\ IsExecutable(r)
          /\ log' = [log EXCEPT ![r] = Append(log[r], c)]
      BY <2>2, <3>1, <3>2 DEF Execute
    <3>4. /\ i \in Instances /\ lb[l][i] # NoLB /\ c = Batch(l, i)
          /\ c \in (SUBSET Commands) \ {{}}
      BY <1>2, <3>1, <3>2, <3>3, ExecutesBatch
    <3>5. /\ \A s \in Replicas \ {r} : log'[s] = log[s]
          /\ Len(log[r]) = i /\ i \in Nat /\ Len(log'[r]) = i + 1
          /\ \A k \in 1 .. i : log'[r][k] = log[r][k]
          /\ log'[r][i + 1] = c
      <4>1. log \in [Replicas -> Seq(SUBSET (Commands \cup {Noop}))]
        BY <1>2 DEF TypeOK
      <4>2. c \in SUBSET (Commands \cup {Noop})
        BY <3>4
      <4>3. log'[r] = Append(log[r], c) /\ \A s \in Replicas \ {r} : log'[s] = log[s]
        BY <3>3, <4>1
      <4> QED
        BY <3>1, <4>1, <4>2, <4>3 DEF NextToExecute
    <3>6. Executed' = [Executed EXCEPT ![r] = @ \cup {<<i, c>>}]
      <4>1. ASSUME NEW s \in Replicas
            PROVE  Executed'[s] = IF s = r THEN Executed[s] \cup {<<i, c>>} ELSE Executed[s]
        <5>1. /\ Executed'[s] = {<<k - 1, log'[s][k]>> : k \in 1 .. Len(log'[s])}
              /\ Executed[s] = {<<k - 1, log[s][k]>> : k \in 1 .. Len(log[s])}
          BY DEF Executed
        <5>2. CASE s # r
          BY <3>5, <5>1, <5>2
        <5>3. CASE s = r
          <6>1. ASSUME NEW p
                PROVE  /\ p \in Executed'[r] <=> \E k \in 1 .. i + 1 : p = <<k - 1, log'[r][k]>>
                       /\ p \in Executed[r] <=> \E k \in 1 .. i : p = <<k - 1, log[r][k]>>
            BY <3>5, <5>1, <5>3
          <6>2. ASSUME NEW p
                PROVE  p \in Executed'[r] <=> p \in Executed[r] \/ p = <<i, c>>
            <7>1. (\E k \in 1 .. i + 1 : p = <<k - 1, log'[r][k]>>)
                    <=> (\E k \in 1 .. i : p = <<k - 1, log[r][k]>>) \/ p = <<i, c>>
              <8>1. ASSUME NEW k \in 1 .. i + 1, p = <<k - 1, log'[r][k]>>
                    PROVE  (\E h \in 1 .. i : p = <<h - 1, log[r][h]>>) \/ p = <<i, c>>
                <9>1. CASE k \in 1 .. i
                  BY <3>5, <8>1, <9>1
                <9>2. CASE k = i + 1
                  <10>1. k - 1 = i
                    BY <3>5, <9>2
                  <10> QED
                    BY <3>5, <8>1, <9>2, <10>1
                <9> QED
                  BY <3>5, <9>1, <9>2
              <8>2. ASSUME NEW k \in 1 .. i, p = <<k - 1, log[r][k]>>
                    PROVE  \E h \in 1 .. i + 1 : p = <<h - 1, log'[r][h]>>
                <9>1. k \in 1 .. i + 1 /\ log'[r][k] = log[r][k]
                  BY <3>5
                <9> QED
                  BY <8>2, <9>1
              <8>3. ASSUME p = <<i, c>>
                    PROVE  \E h \in 1 .. i + 1 : p = <<h - 1, log'[r][h]>>
                <9>1. i + 1 \in 1 .. i + 1 /\ i + 1 - 1 = i
                  BY <3>5
                <9> QED
                  BY <3>5, <8>3, <9>1
              <8> QED
                BY <8>1, <8>2, <8>3
            <7> QED
              BY <6>1, <7>1
          <6> QED
            BY <5>3, <6>2
        <5> QED
          BY <5>2, <5>3
      <4>2. /\ Executed' = [s \in Replicas |-> Executed'[s]]
            /\ Executed = [s \in Replicas |-> Executed[s]]
        BY DEF Executed
      <4> QED
        BY <4>1, <4>2
    <3>7. ASSUME NEW s \in Replicas, NEW j, NEW d, <<j, d>> \in Executed[s]
          PROVE  j \in Instances /\ lb[l][j] # NoLB /\ d = Batch(l, j)
      <4>1. PICK k \in 1 .. Len(log[s]) : j = k - 1 /\ d = log[s][k]
        BY <3>7 DEF Executed
      <4>2. k - 1 \in Instances /\ lb[l][k - 1] # NoLB /\ log[s][k] = Batch(l, k - 1)
        BY <1>2, LogBatches
      <4> QED
        BY <4>1, <4>2
    <3>8. Abstract!Decided(i) \subseteq {c}
      BY <3>4, <3>7 DEF Abstract!Decided
    <3>9. ASSUME NEW j \in Instances \ {i} PROVE c \notin Abstract!Decided(j)
      <4> SUFFICES ASSUME NEW s \in Replicas, <<j, c>> \in Executed[s] PROVE FALSE
        BY DEF Abstract!Decided
      <4>1. lb[l][j] # NoLB /\ c = Batch(l, j)
        BY <3>7
      <4>2. PICK x : x \in c
        BY <3>4
      <4>3. i = j
        BY <1>2, <3>4, <4>1, <4>2, BatchesDisjoint
      <4> QED
        BY <3>9, <4>3
    <3>10. Abstract!Learn(r, i, c)
      BY <3>6, <3>8, <3>9 DEF Abstract!Learn
    <3> QED
      BY <3>4, <3>10 DEF Abstract!Next
  <2>3. CASE UNCHANGED vars
    BY <2>1, <2>3 DEF vars, execVars
  <2>4. ASSUME NEW r \in Replicas, RunLoop(r) \/ Recover(r) \/ PanicExecute(r)
                                   \/ GracePeriodExpires(r) \/ BeTheLeader(r) \/ Stop(r)
        PROVE  log' = log
    BY <2>4 DEF RunLoop, Recover, PanicExecute, GracePeriodExpires, BeTheLeader, Stop,
       RefusePropose, HandlePropose, HandleMessage, HandlePrepareCommitted, HandlePrepare,
       HandleAccept, HandleCommit, HandleCommitShort, HandlePrepareReply, HandleAcceptReply,
       IgnorePrepareReply, RefusedPrepare, Promised, IgnoreAcceptReply, RefusedAccept,
       RetryAccept, PanicAccept, Accepted, execVars
  <2>5. CASE Next
    BY <2>1, <2>2, <2>4, <2>5 DEF Next
  <2> QED
    BY <1>2, <2>3, <2>5
<1>3. TypeOK /\ StableInv(l) /\ [Next]_vars => [Abstract!Next]_Executed
  BY <1>2
<1> QED
  BY <1>1, <1>3, StableInvariant, PTL DEF Spec, ImplementsConsensus, Abstract!Spec
===============================================================================
