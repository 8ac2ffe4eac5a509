----------------------------- MODULE PaxosProofs -----------------------------
(***************************************************************************)
(* Theorems about Paxos: for any number of replicas, clients, leaders and  *)
(* recoveries, the types, the absence of nil bookkeeping, the ownership of *)
(* ballots and the fate of the clients' commands.  What holds for one      *)
(* leader only is in PaxosLeaderProofs.                                    *)
(***************************************************************************)
EXTENDS Paxos, TLAPS, FiniteSetTheorems

\* Sending adds messages to those in transit.
LEMMA SendsBag ==
  ASSUME NEW ms, IsABag(network), Sends(ms)
  PROVE  /\ IsABag(network')
         /\ DOMAIN network' = DOMAIN network \cup ms
<1>1. network' = network (+) SetToBag(ms)
  BY DEF Sends
<1>2. network' = [e \in DOMAIN network \cup ms |->
                    (IF e \in DOMAIN network THEN network[e] ELSE 0)
                    + (IF e \in ms THEN SetToBag(ms)[e] ELSE 0)]
  BY <1>1 DEF SetToBag, (+)
<1>3. \A e \in ms : SetToBag(ms)[e] = 1
  BY DEF SetToBag
<1> QED
  BY <1>2, <1>3 DEF IsABag

\* A handler that consumes m and sends ms: what else was in transit still is.
LEMMA RepliesBag ==
  ASSUME NEW m \in DOMAIN network, NEW ms, IsABag(network), Replies(m, ms)
  PROVE  /\ IsABag(network')
         /\ DOMAIN network' \subseteq DOMAIN network \cup ms
         /\ (DOMAIN network \ {m}) \cup ms \subseteq DOMAIN network'
<1> DEFINE rest == network (-) SetToBag({m})
<1>1. /\ DOMAIN rest = {n \in DOMAIN network : n # m \/ network[n] > 1}
      /\ \A n \in DOMAIN rest : rest[n] = IF n = m THEN network[n] - 1 ELSE network[n]
      /\ rest = [n \in DOMAIN rest |-> rest[n]]
  BY DEF IsABag, SetToBag, (-)
<1>2. network' = rest (+) SetToBag(ms)
  BY DEF Replies
<1> HIDE DEF rest
<1>3. IsABag(rest)
  <2>1. \A n \in DOMAIN rest : rest[n] \in {k \in Nat : k > 0}
    BY <1>1 DEF IsABag
  <2> QED
    BY <1>1, <2>1 DEF IsABag
<1>4. DOMAIN network' = DOMAIN rest \cup ms /\ IsABag(network')
  <2>1. network' = [e \in DOMAIN rest \cup ms |->
                      (IF e \in DOMAIN rest THEN rest[e] ELSE 0)
                      + (IF e \in ms THEN SetToBag(ms)[e] ELSE 0)]
    BY <1>2 DEF SetToBag, (+)
  <2>2. \A e \in ms : SetToBag(ms)[e] = 1
    BY DEF SetToBag
  <2> QED
    BY <1>3, <2>1, <2>2 DEF IsABag
<1> QED
  BY <1>1, <1>4

\* A set of naturals that is not empty has a least element.
LEMMA MinExists ==
  ASSUME NEW S, S \subseteq Nat, S # {}
  PROVE  \E x \in S : \A y \in S : x <= y
<1> DEFINE Below(x) == S \cap (0 .. x)
           T == {Below(x) : x \in S}
<1>1. T \subseteq FiniteSubsetsOf(S) /\ T # {}
  <2>1. ASSUME NEW x \in S PROVE Below(x) \in FiniteSubsetsOf(S)
    <3>1. IsFiniteSet(0 .. x)
      BY FS_Interval
    <3>2. IsFiniteSet(Below(x))
      BY <3>1, FS_Subset
    <3> QED
      BY <3>2 DEF FiniteSubsetsOf
  <2> QED
    BY <2>1
<1>2. PICK A \in T : \A B \in T : <<B, A>> \notin StrictSubsetOrdering(S)
  BY <1>1, FS_StrictSubsetOrderingWellFounded, WFMin
<1>3. PICK x \in S : A = Below(x)
  OBVIOUS
<1>4. ASSUME NEW y \in S, y < x PROVE FALSE
  <2>1. Below(y) \subseteq Below(x) /\ x \in Below(x) /\ x \notin Below(y)
    BY <1>4
  <2>2. <<Below(y), Below(x)>> \in StrictSubsetOrdering(S)
    BY <2>1 DEF StrictSubsetOrdering
  <2> QED
    BY <1>2, <1>3, <2>2
<1> QED
  BY <1>4

\* The numbers r, r + n, r + 2n... are those of replica r.
LEMMA ModOwn ==
  ASSUME NEW n \in Nat \ {0}, NEW r \in 0 .. n - 1, NEW k \in Nat
  PROVE  (r + n * k) % n = r
<1> DEFINE x == r + n * k
           q == x \div n
           d == x % n
<1>1. x \in Nat
  OBVIOUS
<1>2. q \in Int /\ d \in 0 .. n - 1 /\ x = n * q + d
  <2> HIDE DEF x
  <2> QED
   BY <1>1
<1> HIDE DEF q, d
<1>4. n * (k - q) = d - r
  BY <1>2
<1>5. k - q = 0
  <2> DEFINE z == k - q
  <2>1. z \in Int /\ n * z = d - r
    BY <1>2, <1>4
  <2> HIDE DEF z
  <2>2. ASSUME z >= 1 PROVE FALSE
    <3>0. PICK w \in Nat : z = w + 1
      BY <2>1, <2>2
    <3>1. n * z = n * w + n /\ n * w \in Nat
      BY <3>0
    <3> QED
      BY <2>1, <3>1, <1>2
  <2>3. ASSUME z <= -1 PROVE FALSE
    <3> DEFINE w == -1 - z
    <3>0. w \in Nat /\ z = -1 - w
      BY <2>1, <2>3
    <3> HIDE DEF w
    <3>1. n * w \in Nat
      BY <3>0
    <3>2. n * z = 0 - n * w - n
      BY <3>0
    <3> QED
      BY <2>1, <3>1, <3>2, <1>2
  <2>4. z = 0
    BY <2>1, <2>2, <2>3
  <2> QED BY <2>4 DEF z
<1>6. d = r
  BY <1>2, <1>4, <1>5
<1> QED
  BY <1>6 DEF d

-------------------------------------------------------------------------------
\* A batch, a no-op and what the wire makes of a slice are slices.
LEMMA SlicesFacts ==
  /\ Nil \in Slices /\ {Noop} \in Slices /\ SUBSET Commands \subseteq Slices
  /\ \A s \in Slices : OnWire(s) \in Slices
  /\ Nil \notin SUBSET Commands
BY ValueAssumption DEF Slices, OnWire

\* The fields of a message.
LEMMA MessageFields ==
  ASSUME NEW m \in Message
  PROVE  /\ m.to \in Replicas /\ m.inst \in Instances /\ m.bal \in Ballots
         /\ m.type \in {"Prepare", "Accept", "Commit"} => m.leader \in Replicas
         /\ m.type \in {"Accept", "Commit", "PrepareReply"} => m.cmds \in Slices
         /\ m.type = "PrepareReply" => /\ m.vbal \in Ballots
                                       /\ m.defaultBal \in Ballots
                                       /\ m.acceptor \in Replicas
BY DEF Message

\* The messages a leader sends.
LEMMA BroadcastTypes ==
  ASSUME NEW r \in Replicas, NEW i \in Instances, NEW b \in Ballots, NEW cmds \in Slices
  PROVE  /\ Prepares(r, i, b) \subseteq Message
         /\ Accepts(r, i, b, cmds) \subseteq Message
         /\ CommitShorts(r, i, b) \subseteq Message
<1>1. Others(r) \subseteq Replicas /\ OnWire(cmds) \in Slices
  BY SlicesFacts DEF Others
<1>2. ASSUME NEW q \in Replicas
      PROVE  /\ [type |-> "Prepare", to |-> q, leader |-> r, inst |-> i, bal |-> b] \in Message
             /\ [type |-> "Accept", to |-> q, leader |-> r, inst |-> i, bal |-> b,
                 cmds |-> OnWire(cmds)] \in Message
             /\ [type |-> "CommitShort", to |-> q, inst |-> i, bal |-> b] \in Message
  BY <1>1 DEF Message
<1> QED
  BY <1>1, <1>2 DEF Prepares, Accepts, CommitShorts

\* makeBallot gives r a ballot of its own.
LEMMA BallotForOwned ==
  ASSUME NEW r \in Replicas, NEW recv \in Int, defaultBallot[r][r] \in Int
  PROVE  BallotFor(r, recv) \in Nat /\ BallotFor(r, recv) >= r /\ BallotFor(r, recv) % N = r
<1> DEFINE known == MaxOf(defaultBallot[r][r], recv)
<1>1. known \in Int /\ r \in Nat /\ r \in 0 .. N - 1 /\ N \in Nat \ {0}
  BY SizeAssumption DEF MaxOf, Replicas
<1>2. r % N = r
  BY <1>1
<1>3. CASE ~isLeader[r] \/ known <= r
  BY <1>1, <1>2, <1>3 DEF BallotFor
<1>4. CASE ~(~isLeader[r] \/ known <= r)
  <2> DEFINE k == (known - r + N - 1) \div N
  <2>1. k \in Nat
    <3>1. known - r + N - 1 \in Nat
      BY <1>1, <1>4
    <3> HIDE DEF known
    <3> QED
      BY <1>1, <3>1
  <2>2. BallotFor(r, recv) = r + N * k
    BY <1>4 DEF BallotFor
  <2> HIDE DEF k
  <2>3. N * k \in Nat
    BY <1>1, <2>1
  <2> QED
    BY <1>1, <2>1, <2>2, <2>3, ModOwn
<1> QED
  BY <1>3, <1>4
-------------------------------------------------------------------------------
(***************************************************************************)
(* Types and bookkeeping.                                                  *)
(***************************************************************************)

\* The instance a handler finds or creates is an instance.
LEMMA FoundType ==
  ASSUME TypeOK, NEW r \in Replicas, NEW i \in Instances
  PROVE  Found(r, i) \in Instance
<1>1. FreshInstance(r) \in Instance
  BY SlicesFacts DEF TypeOK, FreshInstance, Instance, Statuses
<1> QED
  BY <1>1 DEF TypeOK, Found

\* Typed messages in, typed messages out.
LEMMA RepliesTyped ==
  ASSUME TypeOK, NEW m \in DOMAIN network, NEW ms, ms \subseteq Message, Replies(m, ms)
  PROVE  /\ IsABag(network') /\ DOMAIN network' \subseteq Message
         /\ DOMAIN network' \subseteq DOMAIN network \cup ms
<1>1. IsABag(network) /\ DOMAIN network \subseteq Message
  BY DEF TypeOK
<1>2. IsABag(network') /\ DOMAIN network' \subseteq DOMAIN network \cup ms
  BY <1>1, RepliesBag
<1> QED
  BY <1>1, <1>2

LEMMA SendsTyped ==
  ASSUME TypeOK, NEW ms, ms \subseteq Message, Sends(ms)
  PROVE  /\ IsABag(network') /\ DOMAIN network' \subseteq Message
         /\ DOMAIN network' \subseteq DOMAIN network \cup ms
<1>1. IsABag(network) /\ DOMAIN network \subseteq Message
  BY DEF TypeOK
<1>2. IsABag(network') /\ DOMAIN network' = DOMAIN network \cup ms
  BY <1>1, SendsBag
<1> QED
  BY <1>1, <1>2

\* BookInv while the books, the instances and crtInstance only grow, what is sent can be
\* answered, and only known instances are to be recovered.
LEMMA BookKept ==
  ASSUME TypeOK, TypeOK', BookInv,
         \A s \in Replicas, j \in Instances :
           /\ lb[s][j] # NoLB => lb'[s][j] # NoLB
           /\ instanceSpace[s][j] # NoInstance => instanceSpace'[s][j] # NoInstance,
         \A s \in Replicas, j \in Instances :
           /\ lb'[s][j] # NoLB => lb[s][j] # NoLB \/ instanceSpace'[s][j] # NoInstance
           /\ instanceSpace'[s][j] # NoInstance =>
                instanceSpace[s][j] # NoInstance \/ j <= crtInstance'[s],
         \A s \in Replicas : crtInstance[s] <= crtInstance'[s],
         \A n \in DOMAIN network' \ DOMAIN network : Answerable(n)',
         \A s \in Replicas :
           \/ toRecover'[s] = toRecover[s]
           \/ \A k \in 1 .. Len(toRecover'[s]) : toRecover'[s][k] <= crtInstance'[s]
  PROVE  BookInv'
<1>1. \A n \in DOMAIN network' : Answerable(n)'
  BY MessageFields DEF BookInv, Answerable, TypeOK
<1>2. \A s \in Replicas, j \in Instances : j \in Int /\ crtInstance[s] \in Int /\ crtInstance'[s] \in Int
  BY DEF TypeOK, Instances
<1>3. \A s \in Replicas, j \in Instances :
        /\ lb'[s][j] # NoLB => instanceSpace'[s][j] # NoInstance
        /\ instanceSpace'[s][j] # NoInstance => j <= crtInstance'[s]
  BY <1>2 DEF BookInv
<1>4. \A s \in Replicas : \A k \in 1 .. Len(toRecover'[s]) : toRecover'[s][k] <= crtInstance'[s]
  <2> SUFFICES ASSUME NEW s \in Replicas, toRecover'[s] = toRecover[s],
                      NEW k \in 1 .. Len(toRecover[s])
               PROVE  toRecover[s][k] <= crtInstance'[s]
    OBVIOUS
  <2>1. toRecover[s] \in Seq(Instances)
    BY DEF TypeOK
  <2>2. toRecover[s][k] \in Int
    <3>1. toRecover[s][k] \in Instances
      BY <2>1
    <3> QED
      BY <3>1 DEF Instances
  <2>4. toRecover[s][k] <= crtInstance[s]
    BY DEF BookInv
  <2>3. crtInstance[s] \in Int /\ crtInstance'[s] \in Int
    BY DEF TypeOK
  <2> QED
    BY <2>2, <2>3, <2>4
<1> QED
  BY <1>1, <1>3, <1>4 DEF BookInv, Answerable

\* The same when nothing BookInv is about changes, but for messages consumed.
LEMMA BookUnchanged ==
  ASSUME TypeOK, TypeOK', BookInv,
         UNCHANGED <<lb, instanceSpace, crtInstance, toRecover>>,
         \A n \in DOMAIN network' \ DOMAIN network : Answerable(n)'
  PROVE  BookInv'
<1>1. \A s \in Replicas : crtInstance[s] <= crtInstance'[s]
  BY DEF TypeOK
<1> QED
  BY <1>1, BookKept

\* A ballot that is tried is within the bound of the model.
LEMMA TriedBallot ==
  ASSUME TypeOK, NEW r \in Replicas, NEW recv \in Ballots, BallotFor(r, recv) <= MaxBallot
  PROVE  BallotFor(r, recv) \in Ballots /\ BallotFor(r, recv) % N = r
<1>1. recv \in Int /\ defaultBallot[r][r] \in Int
  BY DEF TypeOK, Ballots
<1>2. BallotFor(r, recv) \in Nat /\ BallotFor(r, recv) % N = r
  BY <1>1, BallotForOwned
<1> QED
  BY <1>2, BoundAssumption DEF Ballots

LEMMA RefuseProposeTypes ==
  ASSUME TypeOK, BookInv, NEW r \in Replicas, NEW c \in proposeChan[r], RefusePropose(r, c)
  PROVE  TypeOK' /\ BookInv'
<1>1. TypeOK'
  BY DEF RefusePropose, TypeOK, ballotVars, execVars, lifeVars
<1> QED
  BY <1>1, BookUnchanged DEF RefusePropose, execVars

LEMMA HandleProposeTypes ==
  ASSUME TypeOK, BookInv, NEW r \in Replicas, NEW batch \in SUBSET proposeChan[r],
         HandlePropose(r, batch)
  PROVE  TypeOK' /\ BookInv' /\ lb'[r][NextInstance(r)] # NoLB
<1> DEFINE i    == NextInstance(r)
           b    == BallotFor(r, maxRecvBallot[r])
           book == [clientProposals |-> batch, prepareOKs |-> 0, acceptOKs |-> 0, nacks |-> 0,
                    ballot |-> r, cmds |-> Nil, lastTriedBallot |-> b]
           full == [book EXCEPT !.cmds = batch]
           x    == [cmds |-> batch, bal |-> b, vbal |-> b, status |-> "ACCEPTED"]
<1>1. /\ i \in Instances /\ i = crtInstance[r] + 1
      /\ batch \in SUBSET Commands /\ batch \in Slices
      /\ r \in Ballots /\ b \in Ballots
  <2>1. b \in Nat /\ r <= b /\ b <= MaxBallot
    BY BallotForOwned DEF TypeOK, Ballots, HandlePropose
  <2>2. batch \in SUBSET Commands /\ batch \in Slices
    BY SlicesFacts DEF TypeOK
  <2>3. i \in Instances /\ i = crtInstance[r] + 1
    BY DEF HandlePropose, NextInstance
  <2> QED
    BY <2>1, <2>2, <2>3, BoundAssumption, SizeAssumption DEF Ballots, Replicas
<1>2. book \in LeaderBookkeeping /\ full \in LeaderBookkeeping
  BY <1>1, SlicesFacts DEF LeaderBookkeeping
<1>3. x \in Instance /\ FreshInstance(r) \in Instance
  BY <1>1, SlicesFacts DEF Instance, FreshInstance, Statuses, TypeOK
<1>4. \/ /\ SetInstance(r, i, FreshInstance(r)) /\ lb' = [lb EXCEPT ![r][i] = book]
         /\ Sends(Prepares(r, i, b))
      \/ /\ SetInstance(r, i, x) /\ lb' = [lb EXCEPT ![r][i] = full]
         /\ Sends(Accepts(r, i, b, batch))
  BY DEF HandlePropose
<1>5. /\ proposeChan' = [proposeChan EXCEPT ![r] = @ \ batch]
      /\ crtInstance' = [crtInstance EXCEPT ![r] = i]
      /\ defaultBallot' = [defaultBallot EXCEPT ![r][r] = b]
      /\ UNCHANGED <<isLeader, refused, smallestDefaultBallot, maxRecvBallot, execVars, lifeVars>>
  BY DEF HandlePropose
<1> HIDE DEF i, b, book, full, x
<1>6. /\ IsABag(network') /\ DOMAIN network' \subseteq Message
      /\ \A n \in DOMAIN network' \ DOMAIN network :
           n.type \in {"Prepare", "Accept"} /\ n.leader = r /\ n.inst = i
  <2>1. CASE Sends(Prepares(r, i, b))
    BY <1>1, <2>1, BroadcastTypes, SendsTyped, SlicesFacts DEF Prepares
  <2>2. CASE Sends(Accepts(r, i, b, batch))
    BY <1>1, <2>2, BroadcastTypes, SendsTyped, SlicesFacts DEF Accepts
  <2> QED
    BY <1>4, <2>1, <2>2
<1>7. \E y \in Instance, z \in LeaderBookkeeping :
        /\ instanceSpace' = [instanceSpace EXCEPT ![r][i] = y]
        /\ lb' = [lb EXCEPT ![r][i] = z]
  BY <1>2, <1>3, <1>4 DEF SetInstance
<1>8. crtInstance \in [Replicas -> -1 .. MaxInstance] /\ i \in -1 .. MaxInstance
  BY <1>1, BoundAssumption DEF TypeOK, Instances
<1>9. TypeOK'
  BY <1>1, <1>5, <1>6, <1>7, <1>8 DEF TypeOK, execVars, lifeVars
<1>10. lb'[r][i] # NoLB /\ instanceSpace'[r][i] # NoInstance
  BY <1>1, <1>7, NothingAssumption DEF TypeOK
<1>11. BookInv'
  <2>1. \A s \in Replicas, j \in Instances :
          /\ lb[s][j] # NoLB => lb'[s][j] # NoLB
          /\ instanceSpace[s][j] # NoInstance => instanceSpace'[s][j] # NoInstance
          /\ <<s, j>> # <<r, i>> => lb'[s][j] = lb[s][j] /\ instanceSpace'[s][j] = instanceSpace[s][j]
    BY <1>1, <1>7, NothingAssumption DEF TypeOK
  <2>2. lb'[r][i] # NoLB /\ instanceSpace'[r][i] # NoInstance
    BY <1>10
  <2>3. (\A s \in Replicas : crtInstance[s] <= crtInstance'[s]) /\ crtInstance'[r] = i
    BY <1>1, <1>5 DEF TypeOK
  <2>4. \A n \in DOMAIN network' \ DOMAIN network : Answerable(n)'
    BY <1>6, <2>2 DEF Answerable
  <2>5. \A s \in Replicas, j \in Instances :
          /\ lb'[s][j] # NoLB => lb[s][j] # NoLB \/ instanceSpace'[s][j] # NoInstance
          /\ instanceSpace'[s][j] # NoInstance => instanceSpace[s][j] # NoInstance \/ j <= crtInstance'[s]
    <3> SUFFICES ASSUME NEW s \in Replicas, NEW j \in Instances
                 PROVE  /\ lb'[s][j] # NoLB => lb[s][j] # NoLB \/ instanceSpace'[s][j] # NoInstance
                        /\ instanceSpace'[s][j] # NoInstance =>
                             instanceSpace[s][j] # NoInstance \/ j <= crtInstance'[s]
      OBVIOUS
    <3>1. CASE s = r /\ j = i
      BY <1>1, <2>2, <2>3, <3>1 DEF Instances
    <3>2. CASE ~(s = r /\ j = i)
      BY <2>1, <3>2
    <3> QED
      BY <3>1, <3>2
  <2>6. toRecover' = toRecover
    BY <1>5 DEF execVars
  <2> QED
    BY <1>9, <2>1, <2>3, <2>4, <2>5, <2>6, BookKept
<1> QED
  BY <1>9, <1>10, <1>11 DEF i

\* The channel and the run loop: what a received message brings.
LEMMA ReceivedFields ==
  ASSUME TypeOK, BookInv, NEW r \in Replicas, NEW m \in DOMAIN network, NEW type, Receives(r, m, type)
  PROVE  /\ m \in Message /\ m.to = r /\ m.type = type
         /\ m.inst \in Instances /\ m.bal \in Ballots
         /\ type \in {"Prepare", "Accept"} => lb[m.leader][m.inst] # NoLB
         /\ type \in {"PrepareReply", "AcceptReply"} =>
              /\ lb[r][m.inst] \in LeaderBookkeeping
              /\ instanceSpace[r][m.inst] \in Instance
<1>1. m \in Message /\ m.to = r /\ m.type = type /\ Answerable(m)
  BY DEF Receives, TypeOK, BookInv
<1>2. m.inst \in Instances /\ m.bal \in Ballots
  BY <1>1, MessageFields
<1>3. type \in {"PrepareReply", "AcceptReply"} =>
        lb[r][m.inst] # NoLB /\ instanceSpace[r][m.inst] # NoInstance
  BY <1>1, <1>2 DEF Answerable, BookInv
<1>4. /\ lb[r][m.inst] \in LeaderBookkeeping \cup {NoLB}
      /\ instanceSpace[r][m.inst] \in Instance \cup {NoInstance}
  BY <1>2 DEF TypeOK
<1> QED
  BY <1>1, <1>2, <1>3, <1>4 DEF Answerable

LEMMA LearnsBallotType ==
  ASSUME TypeOK, NEW r \in Replicas, NEW b \in Ballots, LearnsBallot(r, b)
  PROVE  /\ maxRecvBallot' \in [Replicas -> Ballots]
         /\ maxRecvBallot'[r] = MaxOf(maxRecvBallot[r], b)
BY DEF TypeOK, LearnsBallot, MaxOf

LEMMA LearnsInstanceType ==
  ASSUME TypeOK, NEW r \in Replicas, NEW i \in Instances, LearnsInstance(r, i)
  PROVE  /\ crtInstance' \in [Replicas -> -1 .. MaxInstance]
         /\ \A s \in Replicas : crtInstance[s] <= crtInstance'[s]
         /\ instanceSpace[r][i] = NoInstance => i <= crtInstance'[r]
<1>1. crtInstance \in [Replicas -> -1 .. MaxInstance] /\ i \in 0 .. MaxInstance /\ MaxInstance \in Nat
  BY BoundAssumption DEF TypeOK, Instances
<1> QED
  BY <1>1 DEF LearnsInstance, MaxOf

\* BookInv when a handler of r replaces its instance i by y, of which it has learned, and
\* the bookkeeping changes but is not dropped.
LEMMA BookReplaced ==
  ASSUME TypeOK, TypeOK', BookInv,
         NEW r \in Replicas, NEW i \in Instances, NEW y \in Instance,
         instanceSpace' = [instanceSpace EXCEPT ![r][i] = y],
         instanceSpace[r][i] = NoInstance => i <= crtInstance'[r],
         \A s \in Replicas, j \in Instances : lb'[s][j] # NoLB <=> lb[s][j] # NoLB,
         \A s \in Replicas : crtInstance[s] <= crtInstance'[s],
         \A n \in DOMAIN network' \ DOMAIN network : Answerable(n)',
         toRecover' = toRecover
  PROVE  BookInv'
<1>1. \A s \in Replicas, j \in Instances :
        instanceSpace'[s][j] = IF s = r /\ j = i THEN y ELSE instanceSpace[s][j]
  BY DEF TypeOK
<1>2. y # NoInstance
  BY NothingAssumption
<1>3. \A s \in Replicas, j \in Instances :
        instanceSpace'[s][j] # NoInstance => instanceSpace[s][j] # NoInstance \/ j <= crtInstance'[s]
  BY <1>1
<1>4. \A s \in Replicas, j \in Instances :
        instanceSpace[s][j] # NoInstance => instanceSpace'[s][j] # NoInstance
  BY <1>1, <1>2
<1> QED
  BY <1>3, <1>4, BookKept

LEMMA HandlePrepareCommittedTypes ==
  ASSUME TypeOK, BookInv, NEW r \in Replicas, NEW m \in DOMAIN network,
         HandlePrepareCommitted(r, m)
  PROVE  TypeOK' /\ BookInv'
<1> DEFINE x == Found(r, m.inst)
           reply == [type |-> "Commit", to |-> m.leader, leader |-> m.leader,
                     inst |-> m.inst, bal |-> x.vbal, cmds |-> OnWire(x.cmds)]
<1>1. m \in Message /\ m.type = "Prepare" /\ m.inst \in Instances /\ m.bal \in Ballots
  BY ReceivedFields DEF HandlePrepareCommitted
<1>2. m.leader \in Replicas
  BY <1>1, MessageFields
<1>3. x.vbal \in Ballots /\ x.cmds \in Slices
  BY <1>1, FoundType DEF Instance
<1>4. reply \in Message /\ reply.type = "Commit"
  BY <1>1, <1>2, <1>3, SlicesFacts DEF Message
<1>5. Replies(m, {reply})
  BY DEF HandlePrepareCommitted
<1> HIDE DEF reply, x
<1>6. /\ IsABag(network') /\ DOMAIN network' \subseteq Message
      /\ DOMAIN network' \subseteq DOMAIN network \cup {reply}
  BY <1>4, <1>5, RepliesTyped
<1>7. maxRecvBallot' \in [Replicas -> Ballots]
  BY <1>1, LearnsBallotType DEF HandlePrepareCommitted
<1>8. TypeOK'
  BY <1>6, <1>7 DEF HandlePrepareCommitted, TypeOK, leaderVars, execVars, lifeVars
<1>9. \A n \in DOMAIN network' \ DOMAIN network : Answerable(n)'
  BY <1>4, <1>6 DEF Answerable
<1> QED
  BY <1>8, <1>9, BookUnchanged DEF HandlePrepareCommitted, execVars

LEMMA HandlePrepareTypes ==
  ASSUME TypeOK, BookInv, NEW r \in Replicas, NEW m \in DOMAIN network, HandlePrepare(r, m)
  PROVE  TypeOK' /\ BookInv'
<1> DEFINE x == Found(r, m.inst)
           promises == x.bal < m.bal
           y == IF promises THEN [x EXCEPT !.bal = m.bal, !.status = "PREPARED"] ELSE x
           reply == [type |-> "PrepareReply", to |-> m.leader, inst |-> m.inst,
                     bal |-> y.bal, vbal |-> y.vbal, defaultBal |-> defaultBallot'[r][r],
                     acceptor |-> r, cmds |-> OnWire(y.cmds)]
<1>1. m \in Message /\ m.type = "Prepare" /\ m.inst \in Instances /\ m.bal \in Ballots
      /\ lb[m.leader][m.inst] # NoLB
  BY ReceivedFields DEF HandlePrepare
<1>2. m.leader \in Replicas
  BY <1>1, MessageFields
<1>3. x \in Instance
  BY <1>1, FoundType
<1>4. y \in Instance
  BY <1>1, <1>3 DEF Instance, Statuses
<1>5. defaultBallot' \in [Replicas -> [Replicas -> Ballots]]
  BY <1>1 DEF HandlePrepare, TypeOK
<1>6. reply \in Message /\ reply.type = "PrepareReply" /\ reply.to = m.leader /\ reply.inst = m.inst
  <2>1. y.bal \in Ballots /\ y.vbal \in Ballots /\ OnWire(y.cmds) \in Slices
    BY <1>4, SlicesFacts DEF Instance
  <2>2. defaultBallot'[r][r] \in Ballots
    BY <1>5
  <2> HIDE DEF y
  <2> QED
    BY <1>1, <1>2, <2>1, <2>2 DEF Message
<1>7. /\ Replies(m, {reply}) /\ SetInstance(r, m.inst, y) /\ LearnsInstance(r, m.inst)
      /\ LearnsBallot(r, m.bal)
      /\ UNCHANGED <<leaderVars, execVars, lifeVars, lb>>
  BY DEF HandlePrepare
<1> HIDE DEF reply, y, x, promises
<1>8. /\ IsABag(network') /\ DOMAIN network' \subseteq Message
      /\ DOMAIN network' \subseteq DOMAIN network \cup {reply}
  BY <1>6, <1>7, RepliesTyped
<1>9. instanceSpace' \in [Replicas -> [Instances -> Instance \cup {NoInstance}]]
  BY <1>1, <1>4, <1>7 DEF SetInstance, TypeOK
<1>10. TypeOK'
  BY <1>1, <1>5, <1>7, <1>8, <1>9, LearnsBallotType, LearnsInstanceType
  DEF TypeOK, leaderVars, execVars, lifeVars
<1>11. \A n \in DOMAIN network' \ DOMAIN network : Answerable(n)'
  BY <1>1, <1>6, <1>7, <1>8 DEF Answerable
<1>12. toRecover' = toRecover
  BY <1>7 DEF execVars
<1> QED
  BY <1>1, <1>4, <1>7, <1>10, <1>11, <1>12, LearnsInstanceType, BookReplaced DEF SetInstance

LEMMA HandleAcceptTypes ==
  ASSUME TypeOK, BookInv, NEW r \in Replicas, NEW m \in DOMAIN network, HandleAccept(r, m)
  PROVE  TypeOK' /\ BookInv'
<1> DEFINE x == instanceSpace[r][m.inst]
           takes == x = NoInstance \/ (m.bal >= x.bal /\ x.status # "COMMITTED")
           y == IF takes THEN [cmds |-> m.cmds, bal |-> m.bal, vbal |-> m.bal,
                               status |-> "ACCEPTED"]
                ELSE x
           reply == [type |-> "AcceptReply", to |-> m.leader, inst |-> m.inst, bal |-> y.bal]
<1>1. m \in Message /\ m.type = "Accept" /\ m.inst \in Instances /\ m.bal \in Ballots
      /\ lb[m.leader][m.inst] # NoLB
  BY ReceivedFields DEF HandleAccept
<1>2. m.leader \in Replicas /\ m.cmds \in Slices
  BY <1>1, MessageFields
<1>3. x \in Instance \cup {NoInstance}
  BY <1>1 DEF TypeOK
<1>4. y \in Instance
  BY <1>1, <1>2, <1>3 DEF Instance, Statuses
<1>5. reply \in Message /\ reply.type = "AcceptReply" /\ reply.to = m.leader /\ reply.inst = m.inst
  <2>1. y.bal \in Ballots
    BY <1>4 DEF Instance
  <2> HIDE DEF y
  <2> QED
    BY <1>1, <1>2, <2>1 DEF Message
<1>6. /\ Replies(m, {reply}) /\ SetInstance(r, m.inst, y) /\ LearnsInstance(r, m.inst)
      /\ LearnsBallot(r, m.bal)
      /\ UNCHANGED <<leaderVars, defaultBallot, execVars, lifeVars, lb>>
  BY DEF HandleAccept
<1> HIDE DEF reply, y, x, takes
<1>7. /\ IsABag(network') /\ DOMAIN network' \subseteq Message
      /\ DOMAIN network' \subseteq DOMAIN network \cup {reply}
  BY <1>5, <1>6, RepliesTyped
<1>8. instanceSpace' \in [Replicas -> [Instances -> Instance \cup {NoInstance}]]
  BY <1>1, <1>4, <1>6 DEF SetInstance, TypeOK
<1>9. TypeOK'
  BY <1>1, <1>6, <1>7, <1>8, LearnsBallotType, LearnsInstanceType
  DEF TypeOK, leaderVars, execVars, lifeVars
<1>10. \A n \in DOMAIN network' \ DOMAIN network : Answerable(n)'
  BY <1>1, <1>5, <1>6, <1>7 DEF Answerable
<1>11. toRecover' = toRecover
  BY <1>6 DEF execVars
<1> QED
  BY <1>1, <1>4, <1>6, <1>9, <1>10, <1>11, LearnsInstanceType, BookReplaced DEF SetInstance

\* What handleCommit and handleCommitShort send: nothing.
LEMMA NothingSent ==
  ASSUME TypeOK, NEW m \in DOMAIN network, Replies(m, {})
  PROVE  /\ IsABag(network') /\ DOMAIN network' \subseteq Message
         /\ DOMAIN network' \subseteq DOMAIN network
BY RepliesTyped

\* The bookkeeping of r for instance i, given back to the channel or not.
LEMMA WithoutProposalsType ==
  ASSUME NEW book \in LeaderBookkeeping
  PROVE  /\ WithoutProposals(book) \in LeaderBookkeeping
         /\ WithoutProposals(book).clientProposals = Nil
         /\ WithoutProposals(book).lastTriedBallot = book.lastTriedBallot
BY DEF LeaderBookkeeping, WithoutProposals

LEMMA HandleCommitTypes ==
  ASSUME TypeOK, BookInv, NEW r \in Replicas, NEW m \in DOMAIN network, HandleCommit(r, m)
  PROVE  TypeOK' /\ BookInv'
<1> DEFINE x == Found(r, m.inst)
           book == lb[r][m.inst]
           ignored == x.status = "COMMITTED" \/ m.bal < x.bal
           displaced == ~ignored /\ HasProposals(r, m.inst)
           y == IF ignored THEN x ELSE [cmds |-> m.cmds, bal |-> m.bal, vbal |-> m.bal,
                                        status |-> "COMMITTED"]
           z == IF displaced THEN WithoutProposals(book) ELSE book
           chan == IF displaced THEN proposeChan[r] \cup book.clientProposals ELSE proposeChan[r]
<1>1. m \in Message /\ m.type = "Commit" /\ m.inst \in Instances /\ m.bal \in Ballots
  BY ReceivedFields DEF HandleCommit
<1>2. m.cmds \in Slices
  BY <1>1, MessageFields
<1>3. y \in Instance
  BY <1>1, <1>2, FoundType DEF Instance, Statuses
<1>4. displaced => book \in LeaderBookkeeping /\ book.clientProposals \in SUBSET Commands
  BY <1>1 DEF HasProposals, TypeOK, LeaderBookkeeping
<1>5. /\ z \in LeaderBookkeeping \cup {NoLB}
      /\ z # NoLB <=> lb[r][m.inst] # NoLB
  <2>1. CASE displaced
    BY <1>4, <2>1, WithoutProposalsType, NothingAssumption
  <2>2. CASE ~displaced
    BY <1>1, <2>2 DEF TypeOK
  <2> QED
    BY <2>1, <2>2
<1>6. chan \in SUBSET Commands
  BY <1>4 DEF TypeOK
<1>7. /\ Replies(m, {}) /\ SetInstance(r, m.inst, y) /\ LearnsInstance(r, m.inst)
      /\ proposeChan' = [proposeChan EXCEPT ![r] = chan]
      /\ lb' = [lb EXCEPT ![r][m.inst] = z]
      /\ UNCHANGED <<isLeader, refused, smallestDefaultBallot, ballotVars, execVars, lifeVars>>
  BY DEF HandleCommit, TypeOK
<1> HIDE DEF z, y, x, ignored, displaced, chan
<1>8. /\ IsABag(network') /\ DOMAIN network' \subseteq Message
      /\ DOMAIN network' \subseteq DOMAIN network
  BY <1>7, NothingSent
<1>9. instanceSpace' \in [Replicas -> [Instances -> Instance \cup {NoInstance}]]
  BY <1>1, <1>3, <1>7 DEF SetInstance, TypeOK
<1>10. lb' \in [Replicas -> [Instances -> LeaderBookkeeping \cup {NoLB}]]
  BY <1>1, <1>5, <1>7 DEF TypeOK
<1>11. TypeOK'
  BY <1>1, <1>6, <1>7, <1>8, <1>9, <1>10, LearnsInstanceType
  DEF TypeOK, ballotVars, execVars, lifeVars
<1>12. \A s \in Replicas, j \in Instances : lb'[s][j] # NoLB <=> lb[s][j] # NoLB
  BY <1>1, <1>5, <1>7 DEF TypeOK
<1>13. toRecover' = toRecover
  BY <1>7 DEF execVars
<1> QED
  BY <1>1, <1>3, <1>7, <1>8, <1>11, <1>12, <1>13, LearnsInstanceType, BookReplaced DEF SetInstance

LEMMA HandleCommitShortTypes ==
  ASSUME TypeOK, BookInv, NEW r \in Replicas, NEW m \in DOMAIN network, HandleCommitShort(r, m)
  PROVE  TypeOK' /\ BookInv'
<1> DEFINE x == instanceSpace[r][m.inst]
           ignored == x = NoInstance \/ x.status = "COMMITTED" \/ m.bal < x.bal
           y == [x EXCEPT !.status = "COMMITTED", !.bal = m.bal]
<1>1. m \in Message /\ m.inst \in Instances /\ m.bal \in Ballots
  BY ReceivedFields DEF HandleCommitShort
<1>2. x \in Instance \cup {NoInstance}
  BY <1>1 DEF TypeOK
<1>3. /\ Replies(m, {}) /\ SetInstance(r, m.inst, IF ignored THEN x ELSE y)
      /\ UNCHANGED <<leaderVars, ballotVars, execVars, lifeVars, lb, crtInstance>>
  BY DEF HandleCommitShort
<1>4. /\ IsABag(network') /\ DOMAIN network' \subseteq Message
      /\ DOMAIN network' \subseteq DOMAIN network
  BY <1>3, NothingSent
<1>5. toRecover' = toRecover /\ lb' = lb /\ crtInstance' = crtInstance
  BY <1>3 DEF execVars
<1>6. CASE ignored
  <2>1. instanceSpace' = instanceSpace
    BY <1>1, <1>3, <1>6 DEF SetInstance, TypeOK
  <2> HIDE DEF x, ignored, y
  <2>2. TypeOK'
    BY <1>3, <1>4, <2>1 DEF TypeOK, leaderVars, ballotVars, execVars, lifeVars
  <2> QED
    BY <1>4, <1>5, <2>1, <2>2, BookUnchanged
<1>7. CASE ~ignored
  <2>1. y \in Instance
    BY <1>1, <1>2, <1>7 DEF Instance, Statuses
  <2>2. SetInstance(r, m.inst, y) /\ instanceSpace[r][m.inst] # NoInstance
    BY <1>3, <1>7
  <2> HIDE DEF x, ignored, y
  <2>3. instanceSpace' \in [Replicas -> [Instances -> Instance \cup {NoInstance}]]
    BY <1>1, <2>1, <2>2 DEF SetInstance, TypeOK
  <2>4. TypeOK'
    BY <1>3, <1>4, <2>3 DEF TypeOK, leaderVars, ballotVars, execVars, lifeVars
  <2>5. \A s \in Replicas : crtInstance[s] <= crtInstance'[s]
    BY <1>5 DEF TypeOK
  <2> QED
    BY <1>1, <1>4, <1>5, <2>1, <2>2, <2>4, <2>5, BookReplaced DEF SetInstance
<1> QED
  BY <1>6, <1>7

\* The ballot r may accept at directly is the one it had or one of those promised.
LEMMA SmallestDefaultKnown ==
  ASSUME TypeOK, NEW r \in Replicas, NEW bals \in [Replicas -> Ballots]
  PROVE  SmallestDefault(r, bals) \in {smallestDefaultBallot[r]} \cup {bals[q] : q \in Replicas}
<1> DEFINE promising == {q \in Replicas : bals[q] # -1}
           least == CHOOSE b \in {bals[q] : q \in promising} : \A q \in promising : b <= bals[q]
<1>1. CASE promising # {}
  <2>1. {bals[q] : q \in promising} \subseteq Nat /\ {bals[q] : q \in promising} # {}
    <3>1. \A q \in promising : bals[q] \in Nat
      BY BoundAssumption DEF Ballots
    <3> QED
      BY <1>1, <3>1
  <2>2. \E b \in {bals[q] : q \in promising} : \A q \in promising : b <= bals[q]
    <3>1. \E b \in {bals[q] : q \in promising} : \A c \in {bals[q] : q \in promising} : b <= c
      BY <2>1, MinExists
    <3> QED
      BY <3>1
  <2>3. least \in {bals[q] : q \in promising}
    BY <2>2
  <2> HIDE DEF least
  <2>4. least \in {bals[q] : q \in Replicas}
    BY <2>3
  <2> QED
    BY <2>4 DEF SmallestDefault, least
<1>2. CASE promising = {}
  BY <1>2 DEF SmallestDefault
<1> QED
  BY <1>1, <1>2

\* BookInv when only the bookkeeping of r changes, and none is dropped.
LEMMA BookRewritten ==
  ASSUME TypeOK, TypeOK', BookInv,
         \A s \in Replicas, j \in Instances : lb'[s][j] # NoLB <=> lb[s][j] # NoLB,
         UNCHANGED <<instanceSpace, crtInstance, toRecover>>,
         \A n \in DOMAIN network' \ DOMAIN network : Answerable(n)'
  PROVE  BookInv'
<1>1. \A s \in Replicas : crtInstance[s] <= crtInstance'[s]
  BY DEF TypeOK
<1> QED
  BY <1>1, BookKept

LEMMA IgnoreReplyTypes ==
  ASSUME TypeOK, BookInv, NEW r \in Replicas, NEW m \in DOMAIN network,
         IgnorePrepareReply(r, m) \/ IgnoreAcceptReply(r, m)
  PROVE  TypeOK' /\ BookInv'
<1>1. m.bal \in Ballots
  BY ReceivedFields DEF IgnorePrepareReply, IgnoreAcceptReply
<1>2. /\ LearnsBallot(r, m.bal) /\ Replies(m, {})
      /\ UNCHANGED <<leaderVars, defaultBallot, execVars, lifeVars, instanceSpace, lb, crtInstance>>
  BY DEF IgnorePrepareReply, IgnoreAcceptReply
<1>3. TypeOK'
  BY <1>1, <1>2, NothingSent, LearnsBallotType DEF TypeOK, leaderVars, execVars, lifeVars
<1>4. \A n \in DOMAIN network' \ DOMAIN network : Answerable(n)'
  BY <1>2, NothingSent
<1> QED
  BY <1>2, <1>3, <1>4, BookUnchanged DEF execVars

\* A bookkeeping stays one when an answer is counted.
LEMMA CountedType ==
  ASSUME NEW book \in LeaderBookkeeping, NEW b \in Ballots, NEW cmds \in Slices
  PROVE  /\ [book EXCEPT !.nacks = book.nacks + 1, !.lastTriedBallot = b] \in LeaderBookkeeping
         /\ [book EXCEPT !.prepareOKs = book.prepareOKs + 1, !.ballot = b, !.cmds = cmds]
              \in LeaderBookkeeping
         /\ [book EXCEPT !.acceptOKs = @ + 1] \in LeaderBookkeeping
         /\ [book EXCEPT !.nacks = @ + 1] \in LeaderBookkeeping
         /\ [book EXCEPT !.lastTriedBallot = b] \in LeaderBookkeeping
<1>1. [book EXCEPT !.nacks = book.nacks + 1, !.lastTriedBallot = b] \in LeaderBookkeeping
  <2> DEFINE n == book.nacks + 1
  <2>1. n \in Nat
    BY DEF LeaderBookkeeping
  <2> HIDE DEF n
  <2>2. [book EXCEPT !.nacks = n, !.lastTriedBallot = b] \in LeaderBookkeeping
    BY <2>1 DEF LeaderBookkeeping
  <2> QED
    BY <2>2 DEF n
<1>2. [book EXCEPT !.prepareOKs = book.prepareOKs + 1, !.ballot = b, !.cmds = cmds]
        \in LeaderBookkeeping
  <2> DEFINE n == book.prepareOKs + 1
  <2>1. n \in Nat
    BY DEF LeaderBookkeeping
  <2> HIDE DEF n
  <2>2. [book EXCEPT !.prepareOKs = n, !.ballot = b, !.cmds = cmds] \in LeaderBookkeeping
    BY <2>1 DEF LeaderBookkeeping
  <2> QED
    BY <2>2 DEF n
<1>3. [book EXCEPT !.acceptOKs = @ + 1] \in LeaderBookkeeping
  BY DEF LeaderBookkeeping
<1>4. [book EXCEPT !.nacks = @ + 1] \in LeaderBookkeeping
  BY DEF LeaderBookkeeping
<1>5. [book EXCEPT !.lastTriedBallot = b] \in LeaderBookkeeping
  BY DEF LeaderBookkeeping
<1> QED
  BY <1>1, <1>2, <1>3, <1>4, <1>5

\* The Prepares r sends for an instance it keeps a bookkeeping of can be answered.
LEMMA PreparesAnswerable ==
  ASSUME NEW r \in Replicas, NEW i \in Instances, NEW b, lb'[r][i] # NoLB,
         NEW n \in Prepares(r, i, b)
  PROVE  Answerable(n)'
BY DEF Prepares, Answerable

LEMMA AcceptsAnswerable ==
  ASSUME NEW r \in Replicas, NEW i \in Instances, NEW b, NEW cmds, lb'[r][i] # NoLB,
         NEW n \in Accepts(r, i, b, cmds)
  PROVE  Answerable(n)'
BY DEF Accepts, Answerable

LEMMA RefusedPrepareTypes ==
  ASSUME TypeOK, BookInv, NEW r \in Replicas, NEW m \in DOMAIN network, RefusedPrepare(r, m)
  PROVE  /\ TypeOK' /\ BookInv'
         /\ \A s \in Replicas, j \in Instances : lb'[s][j] # NoLB <=> lb[s][j] # NoLB
<1> DEFINE book == lb[r][m.inst]
           retries == isLeader[r] /\ book.nacks + 2 > N \div 2
           b == IF retries THEN BallotFor(r, maxRecvBallot'[r]) ELSE book.lastTriedBallot
           z == [book EXCEPT !.nacks = book.nacks + 1, !.lastTriedBallot = b]
           ms == IF retries THEN Prepares(r, m.inst, b) ELSE {}
<1>1. m.inst \in Instances /\ m.bal \in Ballots /\ book \in LeaderBookkeeping
  BY ReceivedFields DEF RefusedPrepare
<1>2. /\ maxRecvBallot' \in [Replicas -> Ballots]
  BY <1>1, LearnsBallotType DEF RefusedPrepare
<1>3. b \in Ballots
  <2>1. CASE retries
    <3>1. maxRecvBallot'[r] \in Ballots /\ b <= MaxBallot
      BY <1>2 DEF RefusedPrepare
    <3> QED
      BY <2>1, <3>1, TriedBallot
  <2>2. CASE ~retries
    BY <1>1, <2>2 DEF LeaderBookkeeping
  <2> QED
    BY <2>1, <2>2
<1>4. lb' = [lb EXCEPT ![r][m.inst] = z]
  BY DEF RefusedPrepare
<1>5. Replies(m, ms)
  BY DEF RefusedPrepare
<1>6. UNCHANGED <<leaderVars, defaultBallot, execVars, lifeVars, instanceSpace, crtInstance>>
  BY DEF RefusedPrepare
<1> HIDE DEF b, retries
<1>7. z \in LeaderBookkeeping
  BY <1>1, <1>3, CountedType, SlicesFacts
<1>8. ms \subseteq Message
  BY <1>1, <1>3, BroadcastTypes, SlicesFacts
<1>9. /\ IsABag(network') /\ DOMAIN network' \subseteq Message
      /\ DOMAIN network' \subseteq DOMAIN network \cup ms
  BY <1>5, <1>8, RepliesTyped
<1>10. /\ lb' \in [Replicas -> [Instances -> LeaderBookkeeping \cup {NoLB}]]
       /\ \A s \in Replicas, j \in Instances : lb'[s][j] # NoLB <=> lb[s][j] # NoLB
  BY <1>1, <1>4, <1>7, NothingAssumption DEF TypeOK
<1>11. TypeOK'
  BY <1>2, <1>6, <1>9, <1>10 DEF TypeOK, leaderVars, execVars, lifeVars
<1>12. \A n \in DOMAIN network' \ DOMAIN network : Answerable(n)'
  <2>1. lb'[r][m.inst] # NoLB
    BY <1>1, <1>10, NothingAssumption
  <2> QED
    BY <1>1, <1>9, <2>1, PreparesAnswerable
<1>13. UNCHANGED <<instanceSpace, crtInstance, toRecover>>
  BY <1>6 DEF execVars
<1> QED
  BY <1>10, <1>11, <1>12, <1>13, BookRewritten

\* What handlePrepareReply makes r propose.
LEMMA BatchOfType ==
  ASSUME NEW book \in LeaderBookkeeping
  PROVE  BatchOf(book) \in Slices
BY SlicesFacts DEF BatchOf, LeaderBookkeeping

LEMMA PromisedTypes ==
  ASSUME TypeOK, BookInv, NEW r \in Replicas, NEW m \in DOMAIN network, Promised(r, m)
  PROVE  /\ TypeOK' /\ BookInv'
         /\ \A s \in Replicas, j \in Instances : lb'[s][j] # NoLB <=> lb[s][j] # NoLB
<1> DEFINE book == lb[r][m.inst]
           higher == m.vbal > book.ballot
           ready  == book.prepareOKs + 2 >= ReadQuorumSize
           cmds   == BatchOf(book)
           counted == [book EXCEPT !.prepareOKs = book.prepareOKs + 1,
                                   !.ballot = IF higher THEN m.vbal ELSE book.ballot,
                                   !.cmds = IF ready THEN cmds
                                            ELSE IF higher THEN m.cmds ELSE book.cmds]
           y == [instanceSpace[r][m.inst] EXCEPT !.cmds = cmds, !.bal = m.bal,
                                                 !.status = "ACCEPTED"]
<1>1. /\ m.inst \in Instances /\ m.bal \in Ballots /\ m \in Message /\ m.type = "PrepareReply"
      /\ book \in LeaderBookkeeping /\ instanceSpace[r][m.inst] \in Instance
  BY ReceivedFields DEF Promised
<1>2. m.vbal \in Ballots /\ m.defaultBal \in Ballots /\ m.acceptor \in Replicas /\ m.cmds \in Slices
  BY <1>1, MessageFields
<1>3. cmds \in Slices
  BY <1>1, BatchOfType
<1>4. counted \in LeaderBookkeeping /\ y \in Instance
  <2>1. /\ (IF higher THEN m.vbal ELSE book.ballot) \in Ballots
        /\ (IF ready THEN cmds ELSE IF higher THEN m.cmds ELSE book.cmds) \in Slices
    <3> HIDE DEF cmds, ready, higher
    <3> QED
      BY <1>1, <1>2, <1>3 DEF LeaderBookkeeping
  <2>2. counted \in LeaderBookkeeping
    BY <1>1, <2>1, CountedType
  <2>3. y \in Instance
    <3> HIDE DEF cmds
    <3> QED
      BY <1>1, <1>3 DEF Instance, Statuses
  <2> QED
    BY <2>2, <2>3
<1>5. defaultBallot' \in [Replicas -> [Replicas -> Ballots]]
  BY <1>2 DEF Promised, TypeOK, MaxOf
<1>6. maxRecvBallot' \in [Replicas -> Ballots]
  BY <1>1, LearnsBallotType DEF Promised
<1>7. /\ lb' = [lb EXCEPT ![r][m.inst] = counted]
      /\ UNCHANGED <<isLeader, proposeChan, refused, execVars, lifeVars, crtInstance>>
      /\ \/ Replies(m, {}) /\ UNCHANGED <<instanceSpace, smallestDefaultBallot>>
         \/ /\ SetInstance(r, m.inst, y)
            /\ smallestDefaultBallot' = [smallestDefaultBallot EXCEPT ![r] =
                                           SmallestDefault(r, defaultBallot'[r])]
            /\ Replies(m, Accepts(r, m.inst, m.bal, cmds))
  BY DEF Promised
<1> HIDE DEF counted, y, cmds
<1>8. /\ lb' \in [Replicas -> [Instances -> LeaderBookkeeping \cup {NoLB}]]
      /\ \A s \in Replicas, j \in Instances : lb'[s][j] # NoLB <=> lb[s][j] # NoLB
  BY <1>1, <1>4, <1>7, NothingAssumption DEF TypeOK
<1>9. toRecover' = toRecover /\ crtInstance' = crtInstance
  BY <1>7 DEF execVars
<1>10. CASE Replies(m, {}) /\ UNCHANGED <<instanceSpace, smallestDefaultBallot>>
  <2>1. TypeOK'
    BY <1>5, <1>6, <1>7, <1>8, <1>10, NothingSent DEF TypeOK, execVars, lifeVars
  <2>2. \A n \in DOMAIN network' \ DOMAIN network : Answerable(n)'
    BY <1>10, NothingSent
  <2> QED
    BY <1>8, <1>9, <1>10, <2>1, <2>2, BookRewritten
<1>11. CASE /\ SetInstance(r, m.inst, y)
            /\ smallestDefaultBallot' = [smallestDefaultBallot EXCEPT ![r] =
                                           SmallestDefault(r, defaultBallot'[r])]
            /\ Replies(m, Accepts(r, m.inst, m.bal, cmds))
  <2>1. /\ IsABag(network') /\ DOMAIN network' \subseteq Message
        /\ DOMAIN network' \subseteq DOMAIN network \cup Accepts(r, m.inst, m.bal, cmds)
    BY <1>1, <1>3, <1>11, BroadcastTypes, RepliesTyped
  <2>2. instanceSpace' \in [Replicas -> [Instances -> Instance \cup {NoInstance}]]
    BY <1>1, <1>4, <1>11 DEF SetInstance, TypeOK
  <2>3. smallestDefaultBallot' \in [Replicas -> Ballots]
    <3>1. defaultBallot'[r] \in [Replicas -> Ballots] /\ smallestDefaultBallot[r] \in Ballots
      BY <1>5 DEF TypeOK
    <3>2. SmallestDefault(r, defaultBallot'[r]) \in Ballots
      BY <3>1, SmallestDefaultKnown
    <3> QED
      BY <1>11, <3>2 DEF TypeOK
  <2>4. TypeOK'
    BY <1>5, <1>6, <1>7, <1>8, <2>1, <2>2, <2>3 DEF TypeOK, execVars, lifeVars
  <2>5. \A n \in DOMAIN network' \ DOMAIN network : Answerable(n)'
    <3>1. lb'[r][m.inst] # NoLB
      BY <1>1, <1>8, NothingAssumption
    <3> QED
      BY <1>1, <2>1, <3>1, AcceptsAnswerable
  <2>6. \A s \in Replicas : crtInstance[s] <= crtInstance'[s]
    BY <1>9 DEF TypeOK
  <2>7. instanceSpace[r][m.inst] # NoInstance
    BY <1>1, NothingAssumption
  <2> QED
    BY <1>1, <1>4, <1>8, <1>9, <1>11, <2>4, <2>5, <2>6, <2>7, BookReplaced DEF SetInstance
<1> QED
  BY <1>7, <1>10, <1>11

LEMMA RefusedAcceptTypes ==
  ASSUME TypeOK, BookInv, NEW r \in Replicas, NEW m \in DOMAIN network, RefusedAccept(r, m)
  PROVE  /\ TypeOK' /\ BookInv'
         /\ \A s \in Replicas, j \in Instances : lb'[s][j] # NoLB <=> lb[s][j] # NoLB
<1> DEFINE book == lb[r][m.inst]
           z == [book EXCEPT !.nacks = @ + 1]
<1>1. m.inst \in Instances /\ m.bal \in Ballots /\ book \in LeaderBookkeeping
  BY ReceivedFields DEF RefusedAccept, AcceptAnswered
<1>2. z \in LeaderBookkeeping
  BY <1>1, CountedType, SlicesFacts
<1>3. /\ lb' = [lb EXCEPT ![r][m.inst] = z]
      /\ LearnsBallot(r, m.bal) /\ Replies(m, {})
      /\ UNCHANGED <<leaderVars, defaultBallot, execVars, lifeVars, instanceSpace, crtInstance>>
  BY DEF RefusedAccept, AcceptAnswered
<1>4. /\ lb' \in [Replicas -> [Instances -> LeaderBookkeeping \cup {NoLB}]]
      /\ \A s \in Replicas, j \in Instances : lb'[s][j] # NoLB <=> lb[s][j] # NoLB
  <2> HIDE DEF z
  <2> QED
    BY <1>1, <1>2, <1>3, NothingAssumption DEF TypeOK
<1>5. TypeOK'
  BY <1>1, <1>3, <1>4, NothingSent, LearnsBallotType DEF TypeOK, leaderVars, execVars, lifeVars
<1>6. \A n \in DOMAIN network' \ DOMAIN network : Answerable(n)'
  BY <1>3, NothingSent
<1>7. UNCHANGED <<instanceSpace, crtInstance, toRecover>>
  BY <1>3 DEF execVars
<1> QED
  BY <1>4, <1>5, <1>6, <1>7, BookRewritten

LEMMA RetryAcceptTypes ==
  ASSUME TypeOK, BookInv, NEW r \in Replicas, NEW m \in DOMAIN network, RetryAccept(r, m)
  PROVE  /\ TypeOK' /\ BookInv'
         /\ \A s \in Replicas, j \in Instances : lb'[s][j] # NoLB <=> lb[s][j] # NoLB
<1> DEFINE book   == lb[r][m.inst]
           b      == BallotFor(r, maxRecvBallot'[r])
           nacked == [lb EXCEPT ![r][m.inst].nacks = @ + 1]
           tried  == [nacked EXCEPT ![r][m.bal].lastTriedBallot = b]
           ms     == Prepares(r, m.inst, tried[r][m.inst].lastTriedBallot)
<1>1. m.inst \in Instances /\ m.bal \in Ballots /\ book \in LeaderBookkeeping
  BY ReceivedFields DEF RetryAccept, AcceptAnswered
<1>2. maxRecvBallot' \in [Replicas -> Ballots]
  BY <1>1, LearnsBallotType DEF RetryAccept, AcceptAnswered
<1>3. b \in Ballots
  <2>1. maxRecvBallot'[r] \in Ballots /\ b <= MaxBallot
    BY <1>2 DEF RetryAccept
  <2> QED
    BY <2>1, TriedBallot
<1>4. m.bal \in Instances /\ lb[r][m.bal] # NoLB
  BY DEF RetryAccept, HasBookkeeping
<1>5. /\ lb' = tried /\ Replies(m, ms)
      /\ UNCHANGED <<leaderVars, defaultBallot, execVars, lifeVars, instanceSpace, crtInstance>>
  BY DEF RetryAccept
<1> HIDE DEF b
<1>6. /\ nacked \in [Replicas -> [Instances -> LeaderBookkeeping \cup {NoLB}]]
      /\ \A s \in Replicas, j \in Instances : nacked[s][j] # NoLB <=> lb[s][j] # NoLB
  <2>1. [book EXCEPT !.nacks = @ + 1] \in LeaderBookkeeping
    BY <1>1, CountedType, SlicesFacts
  <2>2. nacked = [lb EXCEPT ![r][m.inst] = [book EXCEPT !.nacks = @ + 1]]
    OBVIOUS
  <2> QED
    BY <1>1, <2>1, <2>2, NothingAssumption DEF TypeOK
<1> HIDE DEF nacked
<1>7. /\ tried \in [Replicas -> [Instances -> LeaderBookkeeping \cup {NoLB}]]
      /\ \A s \in Replicas, j \in Instances : tried[s][j] # NoLB <=> nacked[s][j] # NoLB
  <2>1. nacked[r][m.bal] \in LeaderBookkeeping
    BY <1>4, <1>6
  <2>2. [nacked[r][m.bal] EXCEPT !.lastTriedBallot = b] \in LeaderBookkeeping
    BY <1>3, <2>1, CountedType, SlicesFacts
  <2>3. tried = [nacked EXCEPT ![r][m.bal] = [nacked[r][m.bal] EXCEPT !.lastTriedBallot = b]]
    OBVIOUS
  <2> QED
    BY <1>4, <1>6, <2>1, <2>2, <2>3, NothingAssumption
<1> HIDE DEF tried
<1>8. /\ lb' \in [Replicas -> [Instances -> LeaderBookkeeping \cup {NoLB}]]
      /\ \A s \in Replicas, j \in Instances : lb'[s][j] # NoLB <=> lb[s][j] # NoLB
  BY <1>5, <1>6, <1>7
<1>9. lb'[r][m.inst] \in LeaderBookkeeping
  BY <1>1, <1>8, NothingAssumption
<1>10. ms \subseteq Message
  BY <1>1, <1>5, <1>9, BroadcastTypes, SlicesFacts DEF LeaderBookkeeping
<1>11. /\ IsABag(network') /\ DOMAIN network' \subseteq Message
       /\ DOMAIN network' \subseteq DOMAIN network \cup ms
  BY <1>5, <1>10, RepliesTyped
<1>12. TypeOK'
  BY <1>2, <1>5, <1>8, <1>11 DEF TypeOK, leaderVars, execVars, lifeVars
<1>13. \A n \in DOMAIN network' \ DOMAIN network : Answerable(n)'
  <2>1. lb'[r][m.inst] # NoLB
    BY <1>9, NothingAssumption
  <2> QED
    BY <1>1, <1>11, <2>1, PreparesAnswerable
<1>14. UNCHANGED <<instanceSpace, crtInstance, toRecover>>
  BY <1>5 DEF execVars
<1> QED
  BY <1>8, <1>12, <1>13, <1>14, BookRewritten

LEMMA PanicAcceptTypes ==
  ASSUME TypeOK, BookInv, NEW r \in Replicas, NEW m \in DOMAIN network, PanicAccept(r, m)
  PROVE  TypeOK' /\ BookInv'
<1>1. m.bal \in Ballots
  BY ReceivedFields DEF PanicAccept, AcceptAnswered
<1>2. /\ LearnsBallot(r, m.bal) /\ Replies(m, {})
      /\ dead' = [dead EXCEPT ![r] = TRUE] /\ panicked' = [panicked EXCEPT ![r] = TRUE]
      /\ UNCHANGED <<leaderVars, defaultBallot, execVars, instanceSpace, lb, crtInstance>>
  BY DEF PanicAccept, AcceptAnswered
<1>3. TypeOK'
  BY <1>1, <1>2, NothingSent, LearnsBallotType DEF TypeOK, leaderVars, execVars
<1>4. \A n \in DOMAIN network' \ DOMAIN network : Answerable(n)'
  BY <1>2, NothingSent
<1> QED
  BY <1>2, <1>3, <1>4, BookUnchanged DEF execVars

LEMMA AcceptedTypes ==
  ASSUME TypeOK, BookInv, NEW r \in Replicas, NEW m \in DOMAIN network, Accepted(r, m)
  PROVE  /\ TypeOK' /\ BookInv'
         /\ \A s \in Replicas, j \in Instances : lb'[s][j] # NoLB <=> lb[s][j] # NoLB
<1> DEFINE book == lb[r][m.inst]
           z == [book EXCEPT !.acceptOKs = @ + 1]
           x == instanceSpace[r][m.inst]
           y == [x EXCEPT !.status = "COMMITTED"]
<1>1. m.inst \in Instances /\ m.bal \in Ballots /\ book \in LeaderBookkeeping /\ x \in Instance
  BY ReceivedFields DEF Accepted, AcceptAnswered
<1>2. z \in LeaderBookkeeping
  BY <1>1, CountedType, SlicesFacts
<1>3. y \in Instance /\ x.bal \in Ballots
  BY <1>1 DEF Instance, Statuses
<1>4. /\ lb' = [lb EXCEPT ![r][m.inst] = z]
      /\ LearnsBallot(r, m.bal)
      /\ UNCHANGED <<leaderVars, defaultBallot, execVars, lifeVars, crtInstance>>
      /\ \/ Replies(m, {}) /\ UNCHANGED instanceSpace
         \/ SetInstance(r, m.inst, y) /\ Replies(m, CommitShorts(r, m.inst, x.bal))
  BY DEF Accepted, AcceptAnswered
<1>5. /\ lb' \in [Replicas -> [Instances -> LeaderBookkeeping \cup {NoLB}]]
      /\ \A s \in Replicas, j \in Instances : lb'[s][j] # NoLB <=> lb[s][j] # NoLB
  <2> HIDE DEF z
  <2> QED
    BY <1>1, <1>2, <1>4, NothingAssumption DEF TypeOK
<1>6. toRecover' = toRecover /\ crtInstance' = crtInstance
  BY <1>4 DEF execVars
<1>7. CASE Replies(m, {}) /\ UNCHANGED instanceSpace
  <2>1. TypeOK'
    BY <1>1, <1>4, <1>5, <1>7, NothingSent, LearnsBallotType
    DEF TypeOK, leaderVars, execVars, lifeVars
  <2>2. \A n \in DOMAIN network' \ DOMAIN network : Answerable(n)'
    BY <1>7, NothingSent
  <2> QED
    BY <1>5, <1>6, <1>7, <2>1, <2>2, BookRewritten
<1>8. CASE SetInstance(r, m.inst, y) /\ Replies(m, CommitShorts(r, m.inst, x.bal))
  <2> HIDE DEF y, z
  <2>1. CommitShorts(r, m.inst, x.bal) \subseteq Message
    BY <1>1, <1>3, BroadcastTypes, SlicesFacts
  <2>2. /\ IsABag(network') /\ DOMAIN network' \subseteq Message
        /\ DOMAIN network' \subseteq DOMAIN network \cup CommitShorts(r, m.inst, x.bal)
    BY <1>8, <2>1, RepliesTyped
  <2>3. instanceSpace' \in [Replicas -> [Instances -> Instance \cup {NoInstance}]]
    BY <1>1, <1>3, <1>8 DEF SetInstance, TypeOK
  <2>4. TypeOK'
    BY <1>1, <1>4, <1>5, <2>2, <2>3, LearnsBallotType
    DEF TypeOK, leaderVars, execVars, lifeVars
  <2>5. \A n \in DOMAIN network' \ DOMAIN network : Answerable(n)'
    BY <2>2 DEF CommitShorts, Answerable
  <2>6. \A s \in Replicas : crtInstance[s] <= crtInstance'[s]
    BY <1>6 DEF TypeOK
  <2>7. instanceSpace[r][m.inst] # NoInstance
    BY <1>1, NothingAssumption
  <2> QED
    BY <1>1, <1>3, <1>5, <1>6, <1>8, <2>4, <2>5, <2>6, <2>7, BookReplaced DEF SetInstance
<1> QED
  BY <1>4, <1>7, <1>8

LEMMA RecoverTypes ==
  ASSUME TypeOK, BookInv, NEW r \in Replicas, Recover(r)
  PROVE  TypeOK' /\ BookInv'
<1> DEFINE i    == Head(toRecover[r])
           b    == BallotFor(r, maxRecvBallot[r])
           book == [clientProposals |-> Nil, prepareOKs |-> 0, acceptOKs |-> 0, nacks |-> 0,
                    ballot |-> -1, cmds |-> Nil, lastTriedBallot |-> b]
           y    == Found(r, i)
           z    == IF lb[r][i] = NoLB THEN book ELSE [lb[r][i] EXCEPT !.lastTriedBallot = b]
<1>1. toRecover[r] \in Seq(Instances) /\ toRecover[r] # <<>> /\ Len(toRecover[r]) \in Nat \ {0}
  BY DEF Recover, TypeOK
<1>2. i \in Instances /\ i = toRecover[r][1] /\ 1 \in 1 .. Len(toRecover[r])
  BY <1>1
<1>3. i <= crtInstance[r]
  BY <1>2 DEF BookInv
<1>4. b \in Ballots
  <2>1. maxRecvBallot[r] \in Ballots /\ b <= MaxBallot
    BY DEF TypeOK, Recover
  <2> QED
    BY <2>1, TriedBallot
<1>5. /\ toRecover' = [toRecover EXCEPT ![r] = Tail(@)]
      /\ SetInstance(r, i, y)
      /\ lb' = [lb EXCEPT ![r][i] = z]
      /\ Sends(Prepares(r, i, b))
      /\ UNCHANGED <<leaderVars, ballotVars, log, replied, timeouts, lifeVars, crtInstance>>
  BY DEF Recover
<1>6. y \in Instance
  BY <1>2, FoundType
<1> HIDE DEF i, b, y
<1>7. z \in LeaderBookkeeping
  <2>1. book \in LeaderBookkeeping
    BY <1>4, SlicesFacts, BoundAssumption DEF LeaderBookkeeping, Ballots
  <2>2. lb[r][i] # NoLB => lb[r][i] \in LeaderBookkeeping
    BY <1>2 DEF TypeOK
  <2> QED
    BY <1>4, <2>1, <2>2, CountedType, SlicesFacts
<1> HIDE DEF z
<1>8. /\ IsABag(network') /\ DOMAIN network' \subseteq Message
      /\ DOMAIN network' \subseteq DOMAIN network \cup Prepares(r, i, b)
  BY <1>2, <1>4, <1>5, BroadcastTypes, SlicesFacts, SendsTyped
<1>9. /\ instanceSpace' \in [Replicas -> [Instances -> Instance \cup {NoInstance}]]
      /\ \A s \in Replicas, j \in Instances :
           instanceSpace'[s][j] = IF s = r /\ j = i THEN y ELSE instanceSpace[s][j]
  BY <1>2, <1>5, <1>6 DEF SetInstance, TypeOK
<1>10. /\ lb' \in [Replicas -> [Instances -> LeaderBookkeeping \cup {NoLB}]]
       /\ \A s \in Replicas, j \in Instances :
            lb'[s][j] = IF s = r /\ j = i THEN z ELSE lb[s][j]
  BY <1>2, <1>5, <1>7 DEF TypeOK
<1>11. Tail(toRecover[r]) \in Seq(Instances)
  BY <1>1
<1>12. TypeOK'
  BY <1>5, <1>8, <1>9, <1>10, <1>11 DEF TypeOK, leaderVars, ballotVars, lifeVars
<1>13. \A n \in DOMAIN network' \ DOMAIN network : Answerable(n)'
  <2>1. lb'[r][i] # NoLB
    BY <1>2, <1>7, <1>10, NothingAssumption
  <2> QED
    BY <1>2, <1>8, <2>1, PreparesAnswerable
<1>14. \A s \in Replicas :
         \/ toRecover'[s] = toRecover[s]
         \/ \A k \in 1 .. Len(toRecover'[s]) : toRecover'[s][k] <= crtInstance'[s]
  <2>1. ASSUME NEW k \in 1 .. Len(Tail(toRecover[r]))
        PROVE  Tail(toRecover[r])[k] <= crtInstance[r]
    <3>1. k + 1 \in 1 .. Len(toRecover[r]) /\ Tail(toRecover[r])[k] = toRecover[r][k + 1]
      BY <1>1
    <3> QED
      BY <3>1 DEF BookInv
  <2>2. toRecover'[r] = Tail(toRecover[r]) /\ \A s \in Replicas \ {r} : toRecover'[s] = toRecover[s]
    BY <1>5 DEF TypeOK
  <2> QED
    BY <1>5, <2>1, <2>2
<1>15. \A s \in Replicas : crtInstance[s] <= crtInstance'[s]
  BY <1>5 DEF TypeOK
<1>16. \A s \in Replicas, j \in Instances :
         /\ lb[s][j] # NoLB => lb'[s][j] # NoLB
         /\ instanceSpace[s][j] # NoInstance => instanceSpace'[s][j] # NoInstance
         /\ lb'[s][j] # NoLB => lb[s][j] # NoLB \/ instanceSpace'[s][j] # NoInstance
         /\ instanceSpace'[s][j] # NoInstance => instanceSpace[s][j] # NoInstance \/ j <= crtInstance'[s]
  BY <1>3, <1>5, <1>6, <1>7, <1>9, <1>10, NothingAssumption
<1> QED
  BY <1>12, <1>13, <1>14, <1>15, <1>16, BookKept

\* An executed slice is a set of commands.
LEMMA ExecuteTypes ==
  ASSUME TypeOK, BookInv, NEW r \in Replicas, Execute(r)
  PROVE  TypeOK' /\ BookInv'
<1> DEFINE i == NextToExecute(r)
           cmds == instanceSpace[r][i].cmds
<1>1. i \in Instances
  <2>1. log[r] \in Seq(SUBSET (Commands \cup {Noop})) /\ crtInstance[r] \in -1 .. MaxInstance
    BY DEF TypeOK
  <2>2. Len(log[r]) \in Nat
    BY <2>1
  <2> QED
    BY <2>1, <2>2, BoundAssumption DEF Execute, NextToExecute, Instances
<1>2. cmds \in SUBSET (Commands \cup {Noop})
  BY <1>1 DEF Execute, IsExecutable, TypeOK, Instance, Slices
<1>3. log' = [log EXCEPT ![r] = Append(@, cmds)]
  BY DEF Execute
<1>4. log' \in [Replicas -> Seq(SUBSET (Commands \cup {Noop}))]
  <2>1. Append(log[r], cmds) \in Seq(SUBSET (Commands \cup {Noop}))
    BY <1>2 DEF TypeOK
  <2> HIDE DEF cmds
  <2> QED
    BY <1>3, <2>1 DEF TypeOK
<1>5. replied' \subseteq Commands
  <2>1. HasProposals(r, i) => lb[r][i].clientProposals \subseteq Commands
    BY <1>1 DEF HasProposals, TypeOK, LeaderBookkeeping
  <2>2. CASE ~HasProposals(r, i)
    BY <2>2 DEF Execute, TypeOK
  <2>3. CASE HasProposals(r, i)
    BY <2>1, <2>3 DEF Execute, TypeOK
  <2> QED
    BY <2>2, <2>3
<1>6. UNCHANGED <<leaderVars, ballotVars, toRecover, timeouts, lifeVars,
                  instanceSpace, lb, crtInstance, network>>
  BY DEF Execute
<1>7. TypeOK'
  BY <1>4, <1>5, <1>6 DEF TypeOK, leaderVars, ballotVars, lifeVars
<1> QED
  BY <1>6, <1>7, BookUnchanged

LEMMA PanicExecuteTypes ==
  ASSUME TypeOK, BookInv, NEW r \in Replicas, PanicExecute(r)
  PROVE  TypeOK' /\ BookInv'
<1> DEFINE i == NextToExecute(r)
<1>1. i \in Instances
  <2>1. log[r] \in Seq(SUBSET (Commands \cup {Noop})) /\ crtInstance[r] \in -1 .. MaxInstance
    BY DEF TypeOK
  <2>2. Len(log[r]) \in Nat
    BY <2>1
  <2> QED
    BY <2>1, <2>2, BoundAssumption DEF PanicExecute, NextToExecute, Instances
<1>2. replied' \subseteq Commands
  <2>1. HasProposals(r, i) /\ replied' = replied \cup lb[r][i].clientProposals
    BY DEF PanicExecute
  <2>2. lb[r][i].clientProposals \subseteq Commands
    BY <1>1, <2>1 DEF HasProposals, TypeOK, LeaderBookkeeping
  <2> QED
    BY <2>1, <2>2 DEF TypeOK
<1>3. /\ dead' = [dead EXCEPT ![r] = TRUE] /\ panicked' = [panicked EXCEPT ![r] = TRUE]
      /\ UNCHANGED <<leaderVars, ballotVars, log, toRecover, timeouts,
                     instanceSpace, lb, crtInstance, network>>
  BY DEF PanicExecute
<1>4. TypeOK'
  BY <1>2, <1>3 DEF TypeOK, leaderVars, ballotVars
<1> QED
  BY <1>3, <1>4, BookUnchanged

\* A bound on two sequences bounds their concatenation.
LEMMA ConcatBounded ==
  ASSUME NEW S, NEW s \in Seq(S), NEW t \in Seq(S), NEW b,
         \A k \in 1 .. Len(s) : s[k] <= b, \A k \in 1 .. Len(t) : t[k] <= b
  PROVE  \A k \in 1 .. Len(s \o t) : (s \o t)[k] <= b
<1> SUFFICES ASSUME NEW k \in 1 .. Len(s \o t) PROVE (s \o t)[k] <= b
  OBVIOUS
<1>1. Len(s \o t) = Len(s) + Len(t) /\ Len(s) \in Nat /\ Len(t) \in Nat
  OBVIOUS
<1>2. CASE k <= Len(s)
  BY <1>1, <1>2
<1>3. CASE ~(k <= Len(s))
  <2>1. k - Len(s) \in 1 .. Len(t) /\ (s \o t)[k] = t[k - Len(s)]
    BY <1>1, <1>3
  <2> QED
    BY <2>1
<1> QED
  BY <1>2, <1>3

LEMMA GracePeriodExpiresTypes ==
  ASSUME TypeOK, BookInv, NEW r \in Replicas, GracePeriodExpires(r)
  PROVE  TypeOK' /\ BookInv'
<1> DEFINE i == NextToExecute(r)
           more == [k \in 1 .. crtInstance[r] - i + 1 |-> i + k - 1]
<1>1. i \in Nat /\ i <= crtInstance[r] /\ crtInstance[r] \in Int /\ crtInstance[r] <= MaxInstance
  <2>1. log[r] \in Seq(SUBSET (Commands \cup {Noop})) /\ crtInstance[r] \in -1 .. MaxInstance
    BY DEF TypeOK
  <2>2. Len(log[r]) \in Nat
    BY <2>1
  <2> QED
    BY <2>1, <2>2, BoundAssumption DEF GracePeriodExpires, NextToExecute
<1>2. /\ toRecover' = [toRecover EXCEPT ![r] = @ \o more]
      /\ timeouts[r] < MaxTimeouts /\ timeouts' = [timeouts EXCEPT ![r] = @ + 1]
      /\ UNCHANGED <<leaderVars, ballotVars, log, replied, lifeVars,
                     instanceSpace, lb, crtInstance, network>>
  BY DEF GracePeriodExpires
<1> HIDE DEF i
<1>3. /\ more \in Seq(Instances) /\ Len(more) = crtInstance[r] - i + 1
      /\ \A k \in 1 .. Len(more) : more[k] = i + k - 1
  <2>1. \A k \in 1 .. crtInstance[r] - i + 1 : i + k - 1 \in Instances
    BY <1>1, BoundAssumption DEF Instances
  <2>2. crtInstance[r] - i + 1 \in Nat
    BY <1>1
  <2> QED
    BY <2>1, <2>2
<1>4. toRecover[r] \in Seq(Instances)
  BY DEF TypeOK
<1> HIDE DEF more
<1>5. toRecover[r] \o more \in Seq(Instances)
  BY <1>3, <1>4
<1>6. TypeOK'
  BY <1>2, <1>5, BoundAssumption DEF TypeOK, leaderVars, ballotVars, lifeVars
<1>7. \A s \in Replicas :
        \/ toRecover'[s] = toRecover[s]
        \/ \A k \in 1 .. Len(toRecover'[s]) : toRecover'[s][k] <= crtInstance'[s]
  <2>1. \A k \in 1 .. Len(toRecover[r] \o more) : (toRecover[r] \o more)[k] <= crtInstance[r]
    <3>1. more \in Seq(Instances)
      BY <1>3
    <3>2. \A k \in 1 .. Len(more) : more[k] <= crtInstance[r]
      BY <1>1, <1>3
    <3>3. \A k \in 1 .. Len(toRecover[r]) : toRecover[r][k] <= crtInstance[r]
      BY DEF BookInv
    <3> QED
      BY <1>4, <3>1, <3>2, <3>3, ConcatBounded
  <2>2. /\ toRecover'[r] = toRecover[r] \o more
        /\ \A s \in Replicas \ {r} : toRecover'[s] = toRecover[s]
    BY <1>2 DEF TypeOK
  <2> QED
    BY <1>2, <2>1, <2>2
<1>8. \A s \in Replicas : crtInstance[s] <= crtInstance'[s]
  BY <1>2 DEF TypeOK
<1> QED
  BY <1>2, <1>6, <1>7, <1>8, BookKept

LEMMA LifeTypes ==
  ASSUME TypeOK, BookInv, NEW r \in Replicas, BeTheLeader(r) \/ Stop(r)
  PROVE  TypeOK' /\ BookInv'
<1>1. CASE BeTheLeader(r)
  <2>1. TypeOK'
    BY <1>1 DEF BeTheLeader, TypeOK, ballotVars, execVars, lifeVars
  <2> QED
    BY <1>1, <2>1, BookUnchanged DEF BeTheLeader, execVars
<1>2. CASE Stop(r)
  <2>1. TypeOK'
    BY <1>2 DEF Stop, TypeOK, leaderVars, ballotVars, execVars
  <2> QED
    BY <1>2, <2>1, BookUnchanged DEF Stop, execVars
<1> QED
  BY <1>1, <1>2

LEMMA StepTypes ==
  ASSUME TypeOK, BookInv, Next
  PROVE  TypeOK' /\ BookInv'
<1>1. PICK r \in Replicas : RunLoop(r) \/ Recover(r) \/ Execute(r) \/ PanicExecute(r)
                            \/ GracePeriodExpires(r) \/ BeTheLeader(r) \/ Stop(r)
  BY DEF Next
<1>2. ASSUME NEW m \in DOMAIN network, HandleMessage(r, m)
      PROVE  TypeOK' /\ BookInv'
  BY <1>2, HandlePrepareCommittedTypes, HandlePrepareTypes, HandleAcceptTypes, HandleCommitTypes,
     HandleCommitShortTypes, IgnoreReplyTypes, RefusedPrepareTypes, PromisedTypes,
     RefusedAcceptTypes, RetryAcceptTypes, PanicAcceptTypes, AcceptedTypes
  DEF HandleMessage, HandlePrepareReply, HandleAcceptReply
<1>3. CASE RunLoop(r)
  BY <1>2, <1>3, RefuseProposeTypes, HandleProposeTypes DEF RunLoop
<1> QED
  BY <1>1, <1>3, RecoverTypes, ExecuteTypes, PanicExecuteTypes, GracePeriodExpiresTypes, LifeTypes

LEMMA InitTypes == Init => TypeOK /\ BookInv
<1> SUFFICES ASSUME Init PROVE TypeOK /\ BookInv
  OBVIOUS
<1>1. IsABag(network) /\ DOMAIN network = {}
  BY DEF Init, EmptyBag, SetToBag, IsABag
<1>2. -1 \in Ballots /\ -1 \in -1 .. MaxInstance /\ 0 \in 0 .. MaxTimeouts
  BY BoundAssumption DEF Ballots
<1>3. TypeOK
  BY <1>1, <1>2, ClientAssumption DEF Init, TypeOK
<1>4. BookInv
  BY <1>1 DEF Init, BookInv
<1> QED
  BY <1>3, <1>4

\* The variables keep their types, and every handler finds the instance and the bookkeeping
\* it dereferences (handlePrepareReply and handleAcceptReply look neither up twice).
THEOREM BookInvariant == Spec => [](TypeOK /\ BookInv)
<1>1. TypeOK /\ BookInv /\ UNCHANGED vars => TypeOK' /\ BookInv'
  <2> SUFFICES ASSUME TypeOK, BookInv, UNCHANGED vars PROVE TypeOK' /\ BookInv'
    OBVIOUS
  <2>1. TypeOK'
    BY DEF vars, leaderVars, ballotVars, execVars, lifeVars, TypeOK
  <2> QED
    BY <2>1, BookUnchanged DEF vars, execVars
<1> QED
  BY <1>1, InitTypes, StepTypes, PTL DEF Spec

\* Every variable of Paxos has its type, whatever the number of replicas and leaders.
THEOREM TypeCorrect == Spec => []TypeOK
BY BookInvariant, PTL
-------------------------------------------------------------------------------
(***************************************************************************)
(* The owners of the ballots, and the commands of the clients.             *)
(***************************************************************************)

\* A step that tries no ballot but those of the replica that tries it.
TriesOwned ==
  \A s \in Replicas, j \in Instances : lb'[s][j] # NoLB =>
    \/ lb[s][j] # NoLB /\ lb'[s][j].lastTriedBallot = lb[s][j].lastTriedBallot
    \/ lb'[s][j].lastTriedBallot % N = s

\* A step that asks for no promise and sends no batch but at a ballot of its leader.
SendsOwned ==
  \A n \in DOMAIN network' \ DOMAIN network :
    n.type \in {"Prepare", "Accept"} => n.bal % N = n.leader

\* A step that leaves alone the commands proposed in each instance.
ProposalsKept ==
  \A s \in Replicas, j \in Instances :
    /\ HasProposals(s, j)' <=> HasProposals(s, j)
    /\ HasProposals(s, j) => lb'[s][j].clientProposals = lb[s][j].clientProposals

LEMMA OwnerKept ==
  ASSUME OwnerInv, TriesOwned, SendsOwned
  PROVE  OwnerInv'
<1>1. BallotsOwned'
  BY DEF OwnerInv, BallotsOwned, SendsOwned
<1>2. \A s \in Replicas, j \in Instances : lb'[s][j] # NoLB => lb'[s][j].lastTriedBallot % N = s
  BY DEF OwnerInv, TriesOwned
<1> QED
  BY <1>1, <1>2 DEF OwnerInv

\* Nothing tried, nothing sent by a leader.
LEMMA QuietStep ==
  ASSUME lb' = lb,
         \A n \in DOMAIN network' \ DOMAIN network : n.type \notin {"Prepare", "Accept"}
  PROVE  TriesOwned /\ SendsOwned /\ ProposalsKept
BY DEF TriesOwned, SendsOwned, ProposalsKept, HasProposals

LEMMA AnswerKeepsOwners ==
  ASSUME TypeOK, NEW r \in Replicas, NEW m \in DOMAIN network,
         \/ HandlePrepareCommitted(r, m) \/ HandlePrepare(r, m) \/ HandleAccept(r, m)
         \/ HandleCommitShort(r, m) \/ IgnorePrepareReply(r, m) \/ IgnoreAcceptReply(r, m)
         \/ PanicAccept(r, m)
  PROVE  TriesOwned /\ SendsOwned /\ ProposalsKept
<1>1. IsABag(network)
  BY DEF TypeOK
<1>2. lb' = lb
  BY DEF HandlePrepareCommitted, HandlePrepare, HandleAccept, HandleCommitShort,
         IgnorePrepareReply, IgnoreAcceptReply, PanicAccept
<1>3. \E ms : /\ Replies(m, ms)
              /\ \A n \in ms : n.type \notin {"Prepare", "Accept"}
  <2>1. CASE HandlePrepareCommitted(r, m)
    BY <2>1 DEF HandlePrepareCommitted
  <2>2. CASE HandlePrepare(r, m)
    BY <2>2 DEF HandlePrepare
  <2>3. CASE HandleAccept(r, m)
    BY <2>3 DEF HandleAccept
  <2>4. CASE Replies(m, {})
    BY <2>4
  <2> QED
    BY <2>1, <2>2, <2>3, <2>4
    DEF HandleCommitShort, IgnorePrepareReply, IgnoreAcceptReply, PanicAccept
<1>4. \A n \in DOMAIN network' \ DOMAIN network : n.type \notin {"Prepare", "Accept"}
  BY <1>1, <1>3, RepliesBag
<1> QED
  BY <1>2, <1>4, QuietStep

LEMMA LocalKeepsOwners ==
  ASSUME NEW r \in Replicas,
         \/ \E c \in proposeChan[r] : RefusePropose(r, c)
         \/ Execute(r) \/ PanicExecute(r) \/ GracePeriodExpires(r) \/ BeTheLeader(r) \/ Stop(r)
  PROVE  TriesOwned /\ SendsOwned /\ ProposalsKept
<1>1. lb' = lb /\ network' = network
  BY DEF RefusePropose, Execute, PanicExecute, GracePeriodExpires, BeTheLeader, Stop
<1> QED
  BY <1>1, QuietStep

LEMMA HandleProposeKeepsOwners ==
  ASSUME TypeOK, NEW r \in Replicas, NEW batch \in SUBSET proposeChan[r], HandlePropose(r, batch)
  PROVE  TriesOwned /\ SendsOwned
<1> DEFINE i == NextInstance(r)
           b == BallotFor(r, maxRecvBallot[r])
<1>1. i \in Instances /\ b % N = r /\ IsABag(network)
  BY BallotForOwned DEF HandlePropose, TypeOK, Ballots
<1>2. PICK z : lb' = [lb EXCEPT ![r][i] = z] /\ z.lastTriedBallot = b
  BY DEF HandlePropose
<1>3. \/ Sends(Prepares(r, i, b))
      \/ Sends(Accepts(r, i, b, batch))
  BY DEF HandlePropose
<1> HIDE DEF i, b
<1>4. TriesOwned
  <2>1. \A s \in Replicas, j \in Instances : lb'[s][j] = IF s = r /\ j = i THEN z ELSE lb[s][j]
    BY <1>1, <1>2 DEF TypeOK
  <2> QED
    BY <1>1, <1>2, <2>1 DEF TriesOwned
<1>5. SendsOwned
  <2>1. \A n \in DOMAIN network' \ DOMAIN network :
          n \in Prepares(r, i, b) \/ n \in Accepts(r, i, b, batch)
    BY <1>1, <1>3, SendsBag
  <2> QED
    BY <1>1, <2>1 DEF SendsOwned, Prepares, Accepts
<1> QED
  BY <1>4, <1>5

\* A reply handler rewrites one bookkeeping, and leaves its proposals alone.
LEMMA OneBookRewritten ==
  ASSUME TypeOK, NEW r \in Replicas, NEW i \in Instances, NEW z,
         lb' = [lb EXCEPT ![r][i] = z],
         lb[r][i] # NoLB,
         \A s \in Replicas, j \in Instances : lb'[s][j] # NoLB <=> lb[s][j] # NoLB,
         z.clientProposals = lb[r][i].clientProposals,
         z.lastTriedBallot = lb[r][i].lastTriedBallot \/ z.lastTriedBallot % N = r
  PROVE  ProposalsKept /\ TriesOwned
<1>1. \A s \in Replicas, j \in Instances : lb'[s][j] = IF s = r /\ j = i THEN z ELSE lb[s][j]
  BY DEF TypeOK
<1> QED
  BY <1>1 DEF ProposalsKept, TriesOwned, HasProposals

LEMMA RefusedPrepareKeepsOwners ==
  ASSUME TypeOK, BookInv, NEW r \in Replicas, NEW m \in DOMAIN network, RefusedPrepare(r, m)
  PROVE  TriesOwned /\ SendsOwned /\ ProposalsKept
<1> DEFINE book == lb[r][m.inst]
           retries == isLeader[r] /\ book.nacks + 2 > N \div 2
           b == IF retries THEN BallotFor(r, maxRecvBallot'[r]) ELSE book.lastTriedBallot
           z == [book EXCEPT !.nacks = book.nacks + 1, !.lastTriedBallot = b]
<1>1. m.inst \in Instances /\ m.bal \in Ballots /\ book \in LeaderBookkeeping /\ IsABag(network)
  BY ReceivedFields DEF RefusedPrepare, TypeOK
<1>2. /\ b \in Ballots
      /\ retries => b % N = r
  <2>1. maxRecvBallot'[r] \in Ballots /\ (retries => b <= MaxBallot)
    BY <1>1, LearnsBallotType DEF RefusedPrepare
  <2>2. book.lastTriedBallot \in Ballots
    BY <1>1 DEF LeaderBookkeeping
  <2> QED
    BY <2>1, <2>2, TriedBallot
<1>3. /\ lb' = [lb EXCEPT ![r][m.inst] = z]
      /\ Replies(m, IF retries THEN Prepares(r, m.inst, b) ELSE {})
      /\ ~retries => b = book.lastTriedBallot
  BY DEF RefusedPrepare
<1> HIDE DEF b, retries
<1>4. /\ z.lastTriedBallot = b /\ z.clientProposals = book.clientProposals
      /\ book # NoLB
  BY <1>1, NothingAssumption DEF LeaderBookkeeping
<1> HIDE DEF z
<1>5. TriesOwned /\ ProposalsKept
  BY <1>1, <1>2, <1>3, <1>4, OneBookRewritten, RefusedPrepareTypes
<1>6. SendsOwned
  BY <1>1, <1>2, <1>3, RepliesBag DEF SendsOwned, Prepares
<1> QED
  BY <1>5, <1>6

LEMMA PromisedKeepsOwners ==
  ASSUME TypeOK, BookInv, OwnerInv, NEW r \in Replicas, NEW m \in DOMAIN network, Promised(r, m)
  PROVE  TriesOwned /\ SendsOwned /\ ProposalsKept
<1> DEFINE book == lb[r][m.inst]
<1>1. /\ m.inst \in Instances /\ book \in LeaderBookkeeping /\ book # NoLB
      /\ IsABag(network)
  BY ReceivedFields, NothingAssumption DEF Promised, TypeOK
<1>2. PICK z : /\ lb' = [lb EXCEPT ![r][m.inst] = z]
               /\ z.lastTriedBallot = book.lastTriedBallot
               /\ z.clientProposals = book.clientProposals
  <2> DEFINE n == book.prepareOKs + 1
  <2>1. PICK b, c : lb' = [lb EXCEPT ![r][m.inst] =
                             [book EXCEPT !.prepareOKs = n, !.ballot = b, !.cmds = c]]
    BY DEF Promised
  <2> HIDE DEF n
  <2>2. /\ [book EXCEPT !.prepareOKs = n, !.ballot = b, !.cmds = c].lastTriedBallot
             = book.lastTriedBallot
        /\ [book EXCEPT !.prepareOKs = n, !.ballot = b, !.cmds = c].clientProposals
             = book.clientProposals
    BY <1>1 DEF LeaderBookkeeping
  <2> QED
    BY <2>1, <2>2
<1>3. PICK c : Replies(m, {}) \/ Replies(m, Accepts(r, m.inst, m.bal, c))
  BY DEF Promised
<1>4. m.bal % N = r
  BY <1>1 DEF Promised, OwnerInv
<1>5. TriesOwned /\ ProposalsKept
  BY <1>1, <1>2, OneBookRewritten, PromisedTypes
<1>6. SendsOwned
  BY <1>1, <1>3, <1>4, RepliesBag DEF SendsOwned, Accepts
<1> QED
  BY <1>5, <1>6

LEMMA CountsKeepOwners ==
  ASSUME TypeOK, BookInv, NEW r \in Replicas, NEW m \in DOMAIN network,
         RefusedAccept(r, m) \/ Accepted(r, m)
  PROVE  TriesOwned /\ SendsOwned /\ ProposalsKept
<1> DEFINE book == lb[r][m.inst]
<1>1. /\ m.inst \in Instances /\ book \in LeaderBookkeeping /\ book # NoLB
      /\ IsABag(network)
  BY ReceivedFields, NothingAssumption DEF RefusedAccept, Accepted, AcceptAnswered, TypeOK
<1>2. PICK z : /\ lb' = [lb EXCEPT ![r][m.inst] = z]
               /\ z.lastTriedBallot = book.lastTriedBallot
               /\ z.clientProposals = book.clientProposals
  <2>1. CASE RefusedAccept(r, m)
    <3>1. lb' = [lb EXCEPT ![r][m.inst] = [book EXCEPT !.nacks = @ + 1]]
      BY <2>1 DEF RefusedAccept
    <3>2. /\ [book EXCEPT !.nacks = @ + 1].lastTriedBallot = book.lastTriedBallot
          /\ [book EXCEPT !.nacks = @ + 1].clientProposals = book.clientProposals
      BY <1>1 DEF LeaderBookkeeping
    <3> QED
      BY <3>1, <3>2
  <2>2. CASE Accepted(r, m)
    <3>1. lb' = [lb EXCEPT ![r][m.inst] = [book EXCEPT !.acceptOKs = @ + 1]]
      BY <2>2 DEF Accepted
    <3>2. /\ [book EXCEPT !.acceptOKs = @ + 1].lastTriedBallot = book.lastTriedBallot
          /\ [book EXCEPT !.acceptOKs = @ + 1].clientProposals = book.clientProposals
      BY <1>1 DEF LeaderBookkeeping
    <3> QED
      BY <3>1, <3>2
  <2> QED
    BY <2>1, <2>2
<1>3. PICK b : Replies(m, {}) \/ Replies(m, CommitShorts(r, m.inst, b))
  BY DEF RefusedAccept, Accepted
<1>4. TriesOwned /\ ProposalsKept
  BY <1>1, <1>2, OneBookRewritten, RefusedAcceptTypes, AcceptedTypes
<1>5. SendsOwned
  BY <1>1, <1>3, RepliesBag DEF SendsOwned, CommitShorts
<1> QED
  BY <1>4, <1>5

LEMMA RetryAcceptKeepsOwners ==
  ASSUME TypeOK, BookInv, OwnerInv, NEW r \in Replicas, NEW m \in DOMAIN network, RetryAccept(r, m)
  PROVE  TriesOwned /\ SendsOwned /\ ProposalsKept
<1> DEFINE book   == lb[r][m.inst]
           b      == BallotFor(r, maxRecvBallot'[r])
           nacked == [lb EXCEPT ![r][m.inst].nacks = @ + 1]
           tried  == [nacked EXCEPT ![r][m.bal].lastTriedBallot = b]
<1>1. /\ m.inst \in Instances /\ m.bal \in Ballots /\ book \in LeaderBookkeeping /\ book # NoLB
      /\ IsABag(network)
  BY ReceivedFields, NothingAssumption DEF RetryAccept, AcceptAnswered, TypeOK
<1>2. m.bal \in Instances /\ lb[r][m.bal] \in LeaderBookkeeping
  BY DEF RetryAccept, HasBookkeeping, TypeOK
<1>3. b % N = r
  <2>1. maxRecvBallot'[r] \in Ballots /\ b <= MaxBallot
    BY <1>1, LearnsBallotType DEF RetryAccept, AcceptAnswered
  <2> QED
    BY <2>1, TriedBallot
<1>4. lb' = tried /\ Replies(m, Prepares(r, m.inst, tried[r][m.inst].lastTriedBallot))
  BY DEF RetryAccept
<1> HIDE DEF b
<1>5. \A s \in Replicas, j \in Instances :
        nacked[s][j] = IF s = r /\ j = m.inst THEN [book EXCEPT !.nacks = @ + 1] ELSE lb[s][j]
  BY <1>1 DEF TypeOK
<1>6. \A s \in Replicas, j \in Instances :
        tried[s][j] = IF s = r /\ j = m.bal THEN [nacked[s][j] EXCEPT !.lastTriedBallot = b]
                      ELSE nacked[s][j]
  <2>1. nacked = [s \in Replicas |-> [j \in Instances |-> nacked[s][j]]]
    BY <1>1 DEF TypeOK
  <2> HIDE DEF nacked
  <2> QED
    BY <1>2, <2>1
<1>7. \A s \in Replicas, j \in Instances : lb[s][j] # NoLB =>
        /\ tried[s][j].clientProposals = lb[s][j].clientProposals
        /\ tried[s][j].lastTriedBallot = IF s = r /\ j = m.bal THEN b ELSE lb[s][j].lastTriedBallot
  <2> SUFFICES ASSUME NEW s \in Replicas, NEW j \in Instances, lb[s][j] # NoLB
               PROVE  /\ tried[s][j].clientProposals = lb[s][j].clientProposals
                      /\ tried[s][j].lastTriedBallot =
                           IF s = r /\ j = m.bal THEN b ELSE lb[s][j].lastTriedBallot
    OBVIOUS
  <2>1. lb[s][j] \in LeaderBookkeeping
    BY DEF TypeOK
  <2>2. /\ nacked[s][j] \in LeaderBookkeeping
        /\ nacked[s][j].clientProposals = lb[s][j].clientProposals
        /\ nacked[s][j].lastTriedBallot = lb[s][j].lastTriedBallot
    BY <1>1, <1>5, <2>1 DEF LeaderBookkeeping
  <2> HIDE DEF nacked
  <2> QED
    BY <1>6, <2>2 DEF LeaderBookkeeping
<1> HIDE DEF tried, nacked
<1>8. \A s \in Replicas, j \in Instances : lb'[s][j] # NoLB <=> lb[s][j] # NoLB
  BY RetryAcceptTypes
<1>9. TriesOwned
  BY <1>3, <1>4, <1>7, <1>8 DEF TriesOwned
<1>10. ProposalsKept
  BY <1>4, <1>7, <1>8 DEF ProposalsKept, HasProposals
<1>11. tried[r][m.inst].lastTriedBallot % N = r
  BY <1>1, <1>3, <1>7 DEF OwnerInv
<1>12. SendsOwned
  BY <1>1, <1>4, <1>11, RepliesBag DEF SendsOwned, Prepares
<1> QED
  BY <1>9, <1>10, <1>12

LEMMA RecoverKeepsOwners ==
  ASSUME TypeOK, NEW r \in Replicas, Recover(r)
  PROVE  TriesOwned /\ SendsOwned /\ ProposalsKept
<1> DEFINE i    == Head(toRecover[r])
           b    == BallotFor(r, maxRecvBallot[r])
           book == [clientProposals |-> Nil, prepareOKs |-> 0, acceptOKs |-> 0, nacks |-> 0,
                    ballot |-> -1, cmds |-> Nil, lastTriedBallot |-> b]
           z    == IF lb[r][i] = NoLB THEN book ELSE [lb[r][i] EXCEPT !.lastTriedBallot = b]
<1>1. toRecover[r] \in Seq(Instances) /\ toRecover[r] # <<>>
  BY DEF Recover, TypeOK
<1>2. i \in Instances /\ IsABag(network)
  BY <1>1 DEF TypeOK
<1>3. b \in Ballots /\ b % N = r
  <2>1. maxRecvBallot[r] \in Ballots /\ b <= MaxBallot
    BY DEF TypeOK, Recover
  <2> QED
    BY <2>1, TriedBallot
<1>4. lb' = [lb EXCEPT ![r][i] = z] /\ Sends(Prepares(r, i, b))
  BY DEF Recover
<1> HIDE DEF i, b
<1>5. /\ z.lastTriedBallot = b
      /\ z.clientProposals = IF lb[r][i] = NoLB THEN Nil ELSE lb[r][i].clientProposals
      /\ z # NoLB
  <2>1. CASE lb[r][i] = NoLB
    <3>1. book \in LeaderBookkeeping
      BY <1>3, SlicesFacts, BoundAssumption DEF LeaderBookkeeping, Ballots
    <3> QED
      BY <2>1, <3>1, NothingAssumption
  <2>2. CASE lb[r][i] # NoLB
    <3>1. lb[r][i] \in LeaderBookkeeping
      BY <1>2, <2>2 DEF TypeOK
    <3>2. [lb[r][i] EXCEPT !.lastTriedBallot = b] \in LeaderBookkeeping
      BY <1>3, <3>1, CountedType, SlicesFacts
    <3> QED
      BY <2>2, <3>1, <3>2, NothingAssumption DEF LeaderBookkeeping
  <2> QED
    BY <2>1, <2>2
<1> HIDE DEF z
<1>6. \A s \in Replicas, j \in Instances : lb'[s][j] = IF s = r /\ j = i THEN z ELSE lb[s][j]
  BY <1>2, <1>4 DEF TypeOK
<1>7. TriesOwned /\ ProposalsKept
  <2>1. TriesOwned
    BY <1>3, <1>5, <1>6 DEF TriesOwned
  <2>2. \A s \in Replicas, j \in Instances :
          /\ lb[s][j] # NoLB => /\ lb'[s][j] # NoLB
                                /\ lb'[s][j].clientProposals = lb[s][j].clientProposals
          /\ lb[s][j] = NoLB => lb'[s][j] = NoLB \/ lb'[s][j].clientProposals = Nil
    BY <1>5, <1>6
  <2>3. ProposalsKept
    BY <2>2 DEF ProposalsKept, HasProposals
  <2> QED
    BY <2>1, <2>3
<1>8. SendsOwned
  <2>1. DOMAIN network' = DOMAIN network \cup Prepares(r, i, b)
    BY <1>2, <1>4, SendsBag
  <2> QED
    BY <1>3, <2>1 DEF SendsOwned, Prepares
<1> QED
  BY <1>7, <1>8

LEMMA HandleCommitKeepsOwners ==
  ASSUME TypeOK, NEW r \in Replicas, NEW m \in DOMAIN network, HandleCommit(r, m)
  PROVE  TriesOwned /\ SendsOwned
<1>1. m.inst \in Instances /\ IsABag(network)
  BY MessageFields DEF HandleCommit, Receives, TypeOK
<1>2. PICK z : /\ lb' = [lb EXCEPT ![r][m.inst] = z]
               /\ z # lb[r][m.inst] => /\ HasProposals(r, m.inst)
                                       /\ z = WithoutProposals(lb[r][m.inst])
  BY DEF HandleCommit
<1>3. \A s \in Replicas, j \in Instances :
        lb'[s][j] = IF s = r /\ j = m.inst THEN z ELSE lb[s][j]
  BY <1>1, <1>2 DEF TypeOK
<1>4. z # NoLB => lb[r][m.inst] # NoLB /\ z.lastTriedBallot = lb[r][m.inst].lastTriedBallot
  <2>1. CASE z = lb[r][m.inst]
    BY <2>1
  <2>2. CASE z # lb[r][m.inst]
    <3>1. lb[r][m.inst] \in LeaderBookkeeping
      BY <1>1, <1>2, <2>2 DEF HasProposals, TypeOK
    <3> QED
      BY <1>2, <2>2, <3>1, WithoutProposalsType, NothingAssumption
  <2> QED
    BY <2>1, <2>2
<1>5. TriesOwned
  BY <1>3, <1>4 DEF TriesOwned
<1>6. SendsOwned
  BY <1>1, RepliesBag DEF HandleCommit, SendsOwned
<1> QED
  BY <1>5, <1>6

LEMMA StepOwners ==
  ASSUME TypeOK, BookInv, OwnerInv, Next
  PROVE  OwnerInv'
<1>1. PICK r \in Replicas : RunLoop(r) \/ Recover(r) \/ Execute(r) \/ PanicExecute(r)
                            \/ GracePeriodExpires(r) \/ BeTheLeader(r) \/ Stop(r)
  BY DEF Next
<1>2. ASSUME NEW m \in DOMAIN network, HandleMessage(r, m)
      PROVE  TriesOwned /\ SendsOwned
  BY <1>2, AnswerKeepsOwners, RefusedPrepareKeepsOwners, PromisedKeepsOwners, CountsKeepOwners,
     RetryAcceptKeepsOwners, HandleCommitKeepsOwners
  DEF HandleMessage, HandlePrepareReply, HandleAcceptReply
<1>3. CASE RunLoop(r)
  BY <1>2, <1>3, LocalKeepsOwners, HandleProposeKeepsOwners, OwnerKept DEF RunLoop
<1> QED
  BY <1>1, <1>3, RecoverKeepsOwners, LocalKeepsOwners, OwnerKept

\* Whatever the leaders, the recoveries and the retries, a replica asks for promises and
\* sends batches only at ballots of its own (makeBallot, whose argument at line 639 is a
\* ballot and not an instance).
THEOREM BallotsOwnedHolds == Spec => []BallotsOwned
<1>1. Init => OwnerInv
  <2> SUFFICES ASSUME Init PROVE OwnerInv
    OBVIOUS
  <2>1. DOMAIN network = {}
    BY DEF Init, EmptyBag, SetToBag
  <2> QED
    BY <2>1 DEF Init, OwnerInv, BallotsOwned
<1>2. OwnerInv /\ UNCHANGED vars => OwnerInv'
  BY DEF vars, OwnerInv, BallotsOwned
<1>3. TypeOK /\ BookInv /\ OwnerInv /\ [Next]_vars => OwnerInv'
  BY <1>2, StepOwners
<1>4. OwnerInv => BallotsOwned
  BY DEF OwnerInv
<1> QED
  BY <1>1, <1>3, <1>4, BookInvariant, PTL DEF Spec
-------------------------------------------------------------------------------
\* A step that moves commands between the channel and the instances, or leaves them.
MovesPlaces ==
  /\ refused' = refused
  /\ \A r \in Replicas, c \in Commands :
       \/ Places(r, c)' = Places(r, c)
       \/ Places(r, c) # {} /\ \E p : Places(r, c)' = {p}

\* A step that refuses command c of a client of r.
DropsPlace(r, c) ==
  /\ refused' = refused \cup {c}
  /\ Places(r, c) # {}
  /\ Places(r, c)' = {}
  /\ \A s \in Replicas, d \in Commands : <<s, d>> # <<r, c>> => Places(s, d)' = Places(s, d)

LEMMA PlacesKept ==
  ASSUME ProposalsKept, UNCHANGED <<proposeChan, refused>>
  PROVE  MovesPlaces
<1>1. ASSUME NEW r \in Replicas, NEW c \in Commands
      PROVE  Places(r, c)' = Places(r, c)
  BY DEF Places, ProposalsKept
<1> QED
  BY <1>1 DEF MovesPlaces

\* Where c is, one by one.
LEMMA PlacesMembers ==
  ASSUME NEW r \in Replicas, NEW c
  PROVE  /\ \A p : p \in Places(r, c) <=>
                     \/ p = -1 /\ c \in proposeChan[r]
                     \/ p \in Instances /\ HasProposals(r, p) /\ c \in lb[r][p].clientProposals
         /\ -1 \notin Instances
<1>1. -1 \notin Instances
  BY BoundAssumption DEF Instances
<1> QED
  BY <1>1 DEF Places

LEMMA RefuseProposePlaces ==
  ASSUME TypeOK, NEW r \in Replicas, NEW c \in proposeChan[r], PlacedOnce, RefusePropose(r, c)
  PROVE  DropsPlace(r, c) /\ c \in Commands
<1>1. /\ proposeChan' = [proposeChan EXCEPT ![r] = @ \ {c}] /\ refused' = refused \cup {c}
      /\ lb' = lb /\ c \in Commands
  BY DEF RefusePropose, TypeOK
<1>2. -1 \in Places(r, c)
  BY PlacesMembers
<1>3. Places(r, c) = {-1}
  BY <1>1, <1>2 DEF PlacedOnce
<1>4. Places(r, c)' = {}
  <2>1. c \notin proposeChan'[r]
    BY <1>1 DEF TypeOK
  <2>2. ~\E i \in Instances : HasProposals(r, i) /\ c \in lb[r][i].clientProposals
    BY <1>3, PlacesMembers
  <2> QED
    BY <1>1, <2>1, <2>2 DEF Places, HasProposals
<1>5. ASSUME NEW s \in Replicas, NEW d \in Commands, <<s, d>> # <<r, c>>
      PROVE  Places(s, d)' = Places(s, d)
  <2>1. d \in proposeChan'[s] <=> d \in proposeChan[s]
    BY <1>1, <1>5 DEF TypeOK
  <2> QED
    BY <1>1, <2>1 DEF Places, HasProposals
<1> QED
  BY <1>1, <1>2, <1>4, <1>5 DEF DropsPlace

LEMMA HandleProposePlaces ==
  ASSUME TypeOK, BookInv, PlacedOnce, NEW r \in Replicas, NEW batch \in SUBSET proposeChan[r],
         HandlePropose(r, batch)
  PROVE  MovesPlaces
<1> DEFINE i == NextInstance(r)
<1>1. i \in Instances /\ i = crtInstance[r] + 1 /\ crtInstance[r] \in Int /\ batch \in SUBSET Commands
  BY DEF HandlePropose, NextInstance, TypeOK
<1>2. PICK z : lb' = [lb EXCEPT ![r][i] = z] /\ z.clientProposals = batch
  BY DEF HandlePropose
<1>3. /\ proposeChan' = [proposeChan EXCEPT ![r] = @ \ batch]
      /\ refused' = refused
  BY DEF HandlePropose
<1>4. lb'[r][i] # NoLB
  BY HandleProposeTypes
<1> HIDE DEF i
<1>5. lb[r][i] = NoLB
  BY <1>1 DEF BookInv, Instances
<1>6. \A s \in Replicas, j \in Instances :
        IF s = r /\ j = i
        THEN HasProposals(s, j)' /\ lb'[s][j].clientProposals = batch /\ ~HasProposals(s, j)
        ELSE lb'[s][j] = lb[s][j]
  <2>1. \A s \in Replicas, j \in Instances : lb'[s][j] = IF s = r /\ j = i THEN z ELSE lb[s][j]
    BY <1>1, <1>2 DEF TypeOK
  <2>2. batch # Nil
    BY <1>1, SlicesFacts
  <2> QED
    BY <1>1, <1>2, <1>4, <1>5, <2>1, <2>2 DEF HasProposals
<1>7. ASSUME NEW s \in Replicas, NEW c \in Commands
      PROVE  \/ Places(s, c)' = Places(s, c)
             \/ Places(s, c) # {} /\ \E p : Places(s, c)' = {p}
  <2>1. CASE s = r /\ c \in batch
    <3>1. -1 \in Places(s, c)
      BY <2>1, PlacesMembers
    <3>2. Places(s, c) = {-1}
      BY <3>1 DEF PlacedOnce
    <3>3. ~\E j \in Instances : HasProposals(s, j) /\ c \in lb[s][j].clientProposals
      BY <3>2, PlacesMembers
    <3>4. c \notin proposeChan'[s]
      BY <1>3, <2>1 DEF TypeOK
    <3>5. \A j \in Instances : HasProposals(s, j)' /\ c \in lb'[s][j].clientProposals <=> j = i
      BY <1>1, <1>6, <2>1, <3>3 DEF HasProposals
    <3>6. Places(s, c)' = {i}
      BY <1>1, <3>4, <3>5 DEF Places
    <3> QED
      BY <3>1, <3>6
  <2>2. CASE ~(s = r /\ c \in batch)
    <3>1. c \in proposeChan'[s] <=> c \in proposeChan[s]
      BY <1>3, <2>2 DEF TypeOK
    <3>2. \A j \in Instances : HasProposals(s, j)' /\ c \in lb'[s][j].clientProposals
                             <=> HasProposals(s, j) /\ c \in lb[s][j].clientProposals
      BY <1>6, <2>2 DEF HasProposals
    <3> QED
      BY <3>1, <3>2 DEF Places
  <2> QED
    BY <2>1, <2>2
<1> QED
  BY <1>3, <1>7 DEF MovesPlaces

LEMMA HandleCommitPlaces ==
  ASSUME TypeOK, PlacedOnce, NEW r \in Replicas, NEW m \in DOMAIN network, HandleCommit(r, m)
  PROVE  MovesPlaces
<1> DEFINE i == m.inst
           book == lb[r][i]
<1>1. i \in Instances
  BY MessageFields DEF HandleCommit, Receives, TypeOK
<1>2. refused' = refused
  BY DEF HandleCommit
<1>3. \/ proposeChan' = proposeChan /\ lb' = lb
      \/ /\ HasProposals(r, i)
         /\ proposeChan' = [proposeChan EXCEPT ![r] = @ \cup book.clientProposals]
         /\ lb' = [lb EXCEPT ![r][i] = WithoutProposals(book)]
  BY DEF HandleCommit, TypeOK
<1>4. CASE proposeChan' = proposeChan /\ lb' = lb
  <2>1. ProposalsKept
    BY <1>4 DEF ProposalsKept, HasProposals
  <2> QED
    BY <1>2, <1>4, <2>1, PlacesKept
<1>5. CASE /\ HasProposals(r, i)
           /\ proposeChan' = [proposeChan EXCEPT ![r] = @ \cup book.clientProposals]
           /\ lb' = [lb EXCEPT ![r][i] = WithoutProposals(book)]
  <2>1. book \in LeaderBookkeeping /\ book.clientProposals \subseteq Commands
    BY <1>1, <1>5 DEF HasProposals, TypeOK, LeaderBookkeeping
  <2>2. \A s \in Replicas, j \in Instances :
          IF s = r /\ j = i THEN ~HasProposals(s, j)' ELSE lb'[s][j] = lb[s][j]
    <3>1. \A s \in Replicas, j \in Instances :
            lb'[s][j] = IF s = r /\ j = i THEN WithoutProposals(book) ELSE lb[s][j]
      BY <1>1, <1>5 DEF TypeOK
    <3> QED
      BY <2>1, <3>1, WithoutProposalsType, NothingAssumption DEF HasProposals
  <2>3. ASSUME NEW s \in Replicas, NEW c \in Commands
        PROVE  \/ Places(s, c)' = Places(s, c)
               \/ Places(s, c) # {} /\ \E p : Places(s, c)' = {p}
    <3>1. CASE s = r /\ c \in book.clientProposals
      <4>1. i \in Places(s, c)
        BY <1>1, <1>5, <3>1, PlacesMembers
      <4>2. Places(s, c) = {i}
        BY <4>1 DEF PlacedOnce
      <4>3. c \in proposeChan'[s]
        BY <1>5, <3>1 DEF TypeOK
      <4>4. \A j \in Instances : ~(HasProposals(s, j)' /\ c \in lb'[s][j].clientProposals)
        BY <2>2, <3>1, <4>2, PlacesMembers DEF HasProposals
      <4>5. Places(s, c)' = {-1}
        BY <4>3, <4>4 DEF Places
      <4> QED
        BY <4>1, <4>5
    <3>2. CASE ~(s = r /\ c \in book.clientProposals)
      <4>1. c \in proposeChan'[s] <=> c \in proposeChan[s]
        BY <1>5, <3>2 DEF TypeOK
      <4>2. \A j \in Instances : HasProposals(s, j)' /\ c \in lb'[s][j].clientProposals
                               <=> HasProposals(s, j) /\ c \in lb[s][j].clientProposals
        BY <2>2, <3>2 DEF HasProposals
      <4> QED
        BY <4>1, <4>2 DEF Places
    <3> QED
      BY <3>1, <3>2
  <2> QED
    BY <1>2, <2>3 DEF MovesPlaces
<1> QED
  BY <1>3, <1>4, <1>5

LEMMA StepPlaces ==
  ASSUME TypeOK, BookInv, OwnerInv, PlacedOnce, Next
  PROVE  MovesPlaces \/ \E r \in Replicas, c \in Commands : c \in proposeChan[r] /\ DropsPlace(r, c)
<1>1. PICK r \in Replicas : RunLoop(r) \/ Recover(r) \/ Execute(r) \/ PanicExecute(r)
                            \/ GracePeriodExpires(r) \/ BeTheLeader(r) \/ Stop(r)
  BY DEF Next
<1>2. ASSUME NEW m \in DOMAIN network, HandleMessage(r, m)
      PROVE  MovesPlaces
  <2>1. CASE HandleCommit(r, m)
    BY <2>1, HandleCommitPlaces
  <2>2. CASE ~HandleCommit(r, m)
    <3>1. ProposalsKept
      BY <1>2, <2>2, AnswerKeepsOwners, RefusedPrepareKeepsOwners, PromisedKeepsOwners,
         CountsKeepOwners, RetryAcceptKeepsOwners
      DEF HandleMessage, HandlePrepareReply, HandleAcceptReply
    <3>2. UNCHANGED <<proposeChan, refused>>
      BY <1>2, <2>2 DEF HandleMessage, HandlePrepareReply, HandleAcceptReply,
         HandlePrepareCommitted, HandlePrepare, HandleAccept, HandleCommitShort,
         IgnorePrepareReply, RefusedPrepare, Promised, IgnoreAcceptReply, RefusedAccept,
         RetryAccept, PanicAccept, Accepted, leaderVars
    <3> QED
      BY <3>1, <3>2, PlacesKept
  <2> QED
    BY <2>1, <2>2
<1>3. CASE RunLoop(r)
  BY <1>2, <1>3, RefuseProposePlaces, HandleProposePlaces DEF RunLoop
<1>4. CASE Recover(r)
  BY <1>4, RecoverKeepsOwners, PlacesKept DEF Recover, leaderVars
<1>5. CASE Execute(r) \/ PanicExecute(r) \/ GracePeriodExpires(r) \/ BeTheLeader(r) \/ Stop(r)
  <2>1. UNCHANGED <<proposeChan, refused>>
    BY <1>5 DEF Execute, PanicExecute, GracePeriodExpires, BeTheLeader, Stop, leaderVars
  <2> QED
    BY <1>5, <2>1, LocalKeepsOwners, PlacesKept
<1> QED
  BY <1>1, <1>3, <1>4, <1>5

LEMMA PlacedOnceKept ==
  ASSUME PlacedOnce,
         MovesPlaces \/ \E r \in Replicas, c \in Commands : c \in proposeChan[r] /\ DropsPlace(r, c)
  PROVE  PlacedOnce'
<1> SUFFICES ASSUME NEW s \in Replicas, NEW d \in Commands
             PROVE  \A p, q \in Places(s, d)' : p = q
  BY DEF PlacedOnce
<1>1. CASE MovesPlaces
  BY <1>1 DEF MovesPlaces, PlacedOnce
<1>2. ASSUME NEW r \in Replicas, NEW c \in Commands, DropsPlace(r, c)
      PROVE  \A p, q \in Places(s, d)' : p = q
  BY <1>2 DEF DropsPlace, PlacedOnce
<1> QED
  BY <1>1, <1>2

LEMMA PlacesInvKept ==
  ASSUME SentToOne, PlacesInv,
         MovesPlaces \/ \E r \in Replicas, c \in Commands : c \in proposeChan[r] /\ DropsPlace(r, c)
  PROVE  PlacesInv'
<1>1. PlacedOnce'
  BY PlacedOnceKept DEF PlacesInv
<1>2. ASSUME NEW s \in Replicas, NEW d \in Commands
      PROVE  Places(s, d)' # {} <=> d \in ClientCommands[s] /\ d \notin refused'
  <2>1. CASE MovesPlaces
    BY <2>1 DEF MovesPlaces, PlacesInv
  <2>2. ASSUME NEW r \in Replicas, NEW c \in Commands, DropsPlace(r, c)
        PROVE  Places(s, d)' # {} <=> d \in ClientCommands[s] /\ d \notin refused'
    <3>1. CASE s = r /\ d = c
      BY <2>2, <3>1 DEF DropsPlace
    <3>2. CASE ~(s = r /\ d = c)
      <4>1. Places(s, d)' = Places(s, d) /\ refused' = refused \cup {c}
        BY <2>2, <3>2 DEF DropsPlace
      <4>2. c \in ClientCommands[r]
        BY <2>2 DEF DropsPlace, PlacesInv
      <4>3. d \in ClientCommands[s] => d # c
        BY <3>2, <4>2 DEF SentToOne
      <4> QED
        BY <4>1, <4>3 DEF PlacesInv
    <3> QED
      BY <3>1, <3>2
  <2> QED
    BY <2>1, <2>2
<1> QED
  BY <1>1, <1>2 DEF PlacesInv

\* Whatever the leaders and the displaced batches, a command that was sent to one replica is
\* in one place there until it is refused: its channel or the proposals of one instance.
THEOREM NeitherLostNorDoubledHolds ==
  ASSUME SentToOne
  PROVE  Spec => []NeitherLostNorDoubled
<1>1. Init => OwnerInv /\ PlacesInv
  <2> SUFFICES ASSUME Init PROVE OwnerInv /\ PlacesInv
    OBVIOUS
  <2>1. DOMAIN network = {}
    BY DEF Init, EmptyBag, SetToBag
  <2>2. OwnerInv
    BY <2>1 DEF Init, OwnerInv, BallotsOwned
  <2>3. \A r \in Replicas, c \in Commands :
          Places(r, c) = IF c \in ClientCommands[r] THEN {-1} ELSE {}
    BY DEF Init, Places, HasProposals
  <2> QED
    BY <2>2, <2>3 DEF Init, PlacesInv, PlacedOnce
<1>2. OwnerInv /\ PlacesInv /\ UNCHANGED vars => OwnerInv' /\ PlacesInv'
  BY DEF vars, leaderVars, OwnerInv, BallotsOwned, PlacesInv, PlacedOnce, Places, HasProposals
<1>3. TypeOK /\ BookInv /\ OwnerInv /\ PlacesInv /\ [Next]_vars => OwnerInv' /\ PlacesInv'
  <2>1. PlacesInv => PlacedOnce
    BY DEF PlacesInv
  <2> QED
    BY <1>2, <2>1, StepOwners, StepPlaces, PlacesInvKept
<1>4. PlacesInv => NeitherLostNorDoubled
  <2> SUFFICES ASSUME PlacesInv, NEW r \in Replicas, NEW c \in Commands
               PROVE  Cardinality(Places(r, c)) =
                        IF c \in ClientCommands[r] /\ c \notin refused THEN 1 ELSE 0
    BY DEF NeitherLostNorDoubled
  <2>1. CASE Places(r, c) = {}
    BY <2>1, FS_EmptySet DEF PlacesInv
  <2>2. CASE Places(r, c) # {}
    <3>1. PICK p : Places(r, c) = {p}
      BY <2>2 DEF PlacesInv, PlacedOnce
    <3> QED
      BY <2>2, <3>1, FS_Singleton DEF PlacesInv
  <2> QED
    BY <2>1, <2>2
<1> QED
  BY <1>1, <1>3, <1>4, BookInvariant, PTL DEF Spec
===============================================================================
