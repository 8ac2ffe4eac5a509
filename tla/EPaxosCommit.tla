----------------------------- MODULE EPaxosCommit -----------------------------
(***************************************************************************)
(* epaxos/epaxos.go as run.go starts it: thrifty, executing, not durable,  *)
(* without batching by time, and at most 7 replicas, so that CommittedUpTo *)
(* plays no part.  Each replica proposes in its own row of instances; the  *)
(* dependencies of an instance are a number for each row, up to which it   *)
(* depends on that row.  A replica that does not learn of a commit for a   *)
(* long time recovers the instance under a ballot of its own.              *)
(*                                                                         *)
(* A handler of the run loop is one step.  A replica may stop; its peers   *)
(* notice at once (Alive) and the messages to it are lost.  Of the         *)
(* execution it is only said that it executes what is committed; EPaxos    *)
(* has the rest.                                                           *)
(*                                                                         *)
(* Left out, because no state reaches it: the answers with a higher ballot *)
(* that make the leader prepare, the TryPreAccepts (subCase 4 has the      *)
(* condition of subCase 3), an ACCEPTED instance without commands.         *)
(***************************************************************************)
EXTENDS Integers, FiniteSets, SequencesExt

CONSTANTS N,                   \* the number of replicas, numbered from 0
          Commands,            \* the commands of the clients
          Reads,               \* those that are GETs
          Key,                 \* the key of each command and of Noop
          ClientCommands,      \* ClientCommands[r]: those of the clients of replica r
          Noop,                \* the command of state.NOOP
          Nil,                 \* no commands
          PreferredPeerOrder,  \* PreferredPeerOrder[r]: the other replicas, nearest first
          Leaders,             \* the replicas on which the master has called BeTheLeader
          Mortal,              \* the replicas that may stop
          MaxBatch,            \* bound: the commands of a batch
          MaxInstance,         \* bound: the last instance of a row
          Patient,             \* whether COMMIT_GRACE_PERIOD outlasts every delivery
          Recoverable,         \* bound: the <<replica, instance id>> pairs of recoveries,
          MaxRecoveries        \* and how many there are

Replicas    == 0 .. N - 1
InstanceIds == Replicas \X (0 .. MaxInstance)
Keys        == {Key[c] : c \in Commands \cup {Noop}}

ASSUME SizeAssumption  == N \in 1 .. 7 /\ {MaxBatch, MaxInstance, MaxRecoveries} \subseteq Nat
ASSUME PeerAssumption  ==
  \A r \in Replicas : PreferredPeerOrder[r] \in SetToSeqs(Replicas \ {r})
ASSUME ClientAssumption ==
  /\ IsFiniteSet(Commands) /\ Reads \subseteq Commands
  /\ {Noop, Nil} \cap Commands = {} /\ Noop # Nil
  /\ ClientCommands \in [Replicas -> SUBSET Commands]
  /\ \A r, s \in Replicas : r # s => ClientCommands[r] \cap ClientCommands[s] = {}
ASSUME BoundAssumption == Leaders \cup Mortal \subseteq Replicas /\ Recoverable \subseteq Replicas \X InstanceIds

VARIABLES
  instanceSpace,  \* instanceSpace[r][id]: the instance as r knows it
  lbs,            \* lbs[r][id]: its LeaderBookkeeping at r
  crtInstance,    \* crtInstance[r][q]: the highest instance of row q that r knows of
  conflicts,      \* conflicts[r][q][k]: the last instance, and the last write, of row q on key k
  maxSeqPerKey,   \* maxSeqPerKey[r][k]: the highest Seq
  maxRecvBallot,  \* maxRecvBallot[r], recorded for Leaders only: nobody else reads it
  created,        \* created[r][q]: the instances of row q in the order of their proposeTime at r
  proposeChan,    \* proposeChan[r]: the commands waiting at r
  msgs,           \* the messages on their way
  recoveries,     \* history: the recoveries that have begun
  dead            \* the replicas that have stopped

attrVars == <<conflicts, maxSeqPerKey>>
rowVars  == <<crtInstance, created>>
ctrlVars == <<recoveries, dead>>
commitVars == <<instanceSpace, lbs, attrVars, rowVars, maxRecvBallot, proposeChan, msgs, ctrlVars>>

\* The values of Status, in the order of defs.go.
NONE           == 0
PREACCEPTED    == 1
PREACCEPTED_EQ == 2
ACCEPTED       == 3
COMMITTED      == 4
EXECUTED       == 5

NoDeps == [q \in Replicas |-> -1]
\* A slice of commands that is not nil: it may be empty.
Batches == {<<>>, <<Noop>>} \cup UNION {[1 .. n -> Commands] : n \in 1 .. MaxBatch}
Deps    == [Replicas -> -1 .. MaxInstance]

ASSUME NilAssumption == Nil \notin Batches

Numbers == {-1} \cup Nat

Instance ==
  {i \in [cmds : {Nil} \cup Batches, bal : Numbers, vbal : Numbers, status : NONE .. EXECUTED,
          seq : Numbers, deps : Deps] : i.status >= PREACCEPTED => i.cmds # Nil}

\* A PrepareReply as a replica makes it.
PrepareReply ==
  {m \in [type : {"prepareReply"}, from : Replicas, to : Replicas, id : InstanceIds, ballot : Numbers,
          vbal : Numbers, status : NONE .. EXECUTED, cmds : {Nil} \cup Batches, seq : Numbers, deps : Deps] :
     m.status >= PREACCEPTED => m.cmds # Nil}

\* The messages on their way, each to one replica; of PrepareReplies only what is on the wire.
Message ==
  [type : {"prepare", "acceptReply"}, from : Replicas, to : Replicas, id : InstanceIds,
   ballot : Numbers]
  \cup
  [type : {"preAccept", "commit"}, from : Replicas, to : Replicas, id : InstanceIds,
   ballot : Numbers, cmds : Batches, seq : Numbers, deps : Deps]
  \cup
  [type : {"accept"}, from : Replicas, to : Replicas, id : InstanceIds,
   ballot : Numbers, seq : Numbers, deps : Deps]
  \cup
  [type : {"preAcceptReply"}, from : Replicas, to : Replicas, id : InstanceIds, ballot : Numbers,
   vbal : Numbers, seq : Numbers, deps : Deps, status : PREACCEPTED .. EXECUTED]
  \cup
  {m \in PrepareReply : m.vbal = 0 /\ m.cmds # Nil}

LeaderBookkeeping ==
  {b \in [proposals : SUBSET Commands, ballot : Numbers, allEqual : BOOLEAN, preAcceptOKs : Nat,
          acceptOKs : Nat, prepareReplies : Seq(PrepareReply), preparing : BOOLEAN,
          leaderResponded : BOOLEAN, lastTriedBallot : Numbers, cmds : {Nil} \cup Batches,
          status : NONE .. EXECUTED, seq : Numbers, deps : Deps] :
     /\ b.status >= PREACCEPTED => b.cmds # Nil
     /\ Len(b.prepareReplies) <= N}

\* The entry of a key in conflicts; -1 is for what is not present.
Conflict == {e \in [last : -1 .. MaxInstance, lastWrite : -1 .. MaxInstance] : e.lastWrite <= e.last}

\* newInstanceDefault, and an instance that does not exist yet.
NewInstance == [cmds |-> Nil, bal |-> -1, vbal |-> -1, status |-> NONE, seq |-> -1, deps |-> NoDeps]

\* newLeaderBookkeeping.
NewLB(proposals, deps, ballot, cmds, status, seq) ==
  [proposals |-> proposals, ballot |-> -1, allEqual |-> TRUE, preAcceptOKs |-> 0, acceptOKs |-> 0,
   prepareReplies |-> <<>>, preparing |-> TRUE, leaderResponded |-> FALSE,
   lastTriedBallot |-> ballot, cmds |-> cmds, status |-> status, seq |-> seq, deps |-> deps]
NoLB == NewLB({}, NoDeps, -1, Nil, NONE, -1)

TypeOK ==
  /\ instanceSpace \in [Replicas -> [InstanceIds -> Instance]]
  /\ lbs \in [Replicas -> [InstanceIds -> LeaderBookkeeping]]
  /\ \A r \in Replicas, id \in InstanceIds :
       lbs[r][id].status >= PREACCEPTED => instanceSpace[r][id].cmds # Nil
  /\ crtInstance \in [Replicas -> Deps]
  /\ conflicts \in [Replicas -> [Replicas -> [Keys -> Conflict]]]
  /\ maxSeqPerKey \in [Replicas -> [Keys -> {-2} \cup Numbers]]
  /\ maxRecvBallot \in [Replicas -> Numbers]
  /\ created \in [Replicas -> [Replicas -> Seq(0 .. MaxInstance)]]
  /\ \A r, q \in Replicas : IsInjective(created[r][q])
  /\ proposeChan \in [Replicas -> SUBSET Commands]
  /\ msgs \subseteq Message /\ \A m \in msgs : m.from # m.to
  /\ recoveries \subseteq Replicas \X InstanceIds
  /\ dead \subseteq Mortal

CommitInit ==
  /\ instanceSpace = [r \in Replicas |-> [id \in InstanceIds |-> NewInstance]]
  /\ lbs = [r \in Replicas |-> [id \in InstanceIds |-> NoLB]]
  /\ crtInstance = [r \in Replicas |-> NoDeps]
  /\ conflicts = [r \in Replicas |-> [q \in Replicas |->
                   [k \in Keys |-> [last |-> -1, lastWrite |-> -1]]]]
  /\ maxSeqPerKey = [r \in Replicas |-> [k \in Keys |-> -2]]   \* -2: not present
  /\ maxRecvBallot = [r \in Replicas |-> -1]
  /\ created = [r \in Replicas |-> [q \in Replicas |-> <<>>]]
  /\ proposeChan = ClientCommands
  /\ msgs = {}
  /\ recoveries = {} /\ dead = {}
-------------------------------------------------------------------------------
FailuresTolerated == (N - 1) \div 2
FastQuorumSize == FailuresTolerated + (FailuresTolerated + 1) \div 2

\* Mutant: the recoverer counts only the others.
SlowQuorumSize_OthersOnly == (N + 1) \div 2 + 1
SlowQuorumSize == (N + 1) \div 2

MaxOf(a, b) == IF a > b THEN a ELSE b

\* The first n replicas of the PreferredPeerOrder that are alive: one even if n is not
\* positive, since the loop sends before it looks at n.
Peers(r, n) ==
  LET order == PreferredPeerOrder[r]
      alive == {i \in DOMAIN order : order[i] \notin dead}
  IN  {order[i] : i \in {k \in alive : Cardinality({j \in alive : j < k}) < MaxOf(n, 1)}}

\* What every handler does first.
Sees(r, b)   == maxRecvBallot' = [maxRecvBallot EXCEPT ![r] = IF r \in Leaders THEN MaxOf(@, b) ELSE @]
Learns(r, id) == crtInstance' = [crtInstance EXCEPT ![r][id[1]] = MaxOf(@, id[2])]

\* Mutant: it is created again by every message.
Creates_Again(r, id) == created' = [created EXCEPT ![r][id[1]] = Append(@, id[2])]

\* An instance is created when it is first heard of.
Creates(r, id) ==
  created' = [created EXCEPT ![r][id[1]] = IF id[2] \in Range(@) THEN @ ELSE Append(@, id[2])]

\* A new proposeTime makes it the last one.
MovedLast(s, i) ==
  IF i \in Range(s) THEN Append(RemoveAt(s, CHOOSE k \in DOMAIN s : s[k] = i), i) ELSE Append(s, i)

IsWrite(c) == c \notin Reads

\* updateConflicts; -1 and -2 stand for entries that are not present.
UpdateConflicts(r, cmds, id, seq) ==
  LET On(k) == {c \in {cmds[i] : i \in DOMAIN cmds} : Key[c] = k}
  IN  /\ conflicts' = [conflicts EXCEPT ![r][id[1]] = [k \in Keys |->
           [last      |-> IF On(k) # {} THEN MaxOf(@[k].last, id[2]) ELSE @[k].last,
            lastWrite |-> IF \E c \in On(k) : IsWrite(c) THEN MaxOf(@[k].lastWrite, id[2])
                          ELSE @[k].lastWrite]]]
      /\ maxSeqPerKey' = [maxSeqPerKey EXCEPT ![r] = [k \in Keys |->
           IF On(k) # {} THEN MaxOf(@[k], seq) ELSE @[k]]]

\* Mutant: every row is asked only for its writes.
LastConflict_OfWrites(r, q, c) == conflicts[r][q][Key[c]].lastWrite

\* The last instance of row q that conflicts with c, as r knows.
LastConflict(r, q, c) ==
  IF IsWrite(c) THEN conflicts[r][q][Key[c]].last ELSE conflicts[r][q][Key[c]].lastWrite

\* updateAttributes: in every row (but, for another replica's instance, that instance's)
\* the first command of the batch that raises the dependency ends the search.  known is what
\* r has of each instance.
UpdateAttributes(known, r, cmds, seq, deps, row) ==
  LET Raising(q) == {i \in DOMAIN cmds : LastConflict(r, q, cmds[i]) > deps[q]}
      raised == {q \in Replicas : (r = row \/ q # row) /\ Raising(q) # {}}
      newDeps == [q \in Replicas |-> IF q \in raised THEN LastConflict(r, q, cmds[Min(Raising(q))]) ELSE deps[q]]
      seq1 == Max({seq} \cup {known[<<q, newDeps[q]>>].seq + 1 : q \in raised})
      seq2 == Max({seq1} \cup {maxSeqPerKey[r][Key[cmds[i]]] + 1 : i \in DOMAIN cmds})
  IN  [seq |-> seq2, deps |-> newDeps, changed |-> raised # {} \/ seq2 > seq1]

\* mergeAttributes of two sequence numbers and two arrays of dependencies.
Merge(r, a, b) ==
  [seq   |-> MaxOf(a.seq, b.seq),
   deps  |-> [q \in Replicas |-> IF q = r THEN a.deps[q] ELSE MaxOf(a.deps[q], b.deps[q])],
   equal |-> a.seq = b.seq /\ \A q \in Replicas \ {r} : a.deps[q] = b.deps[q]]
-------------------------------------------------------------------------------
PreAcceptTo(Q, r, id, ballot, cmds, seq, deps) ==
  {[type |-> "preAccept", from |-> r, to |-> q, id |-> id, ballot |-> ballot,
    cmds |-> cmds, seq |-> seq, deps |-> deps] : q \in Q}
AcceptTo(Q, r, id, b) ==
  {[type |-> "accept", from |-> r, to |-> q, id |-> id, ballot |-> b.lastTriedBallot,
    seq |-> b.seq, deps |-> b.deps] : q \in Q}
CommitTo(Q, r, id, b) ==
  {[type |-> "commit", from |-> r, to |-> q, id |-> id, ballot |-> b.ballot,
    cmds |-> b.cmds, seq |-> b.seq, deps |-> b.deps] : q \in Q}

\* What is sent to a replica that has stopped is lost.
ReplyTo(m, reply) == IF m.from \in dead THEN {} ELSE {reply}

\* startPhase1.  The PreAccept has the dependencies but not the Seq that r has computed:
\* the bookkeeping starts with -1.
StartPhase1(known, r, cmds, id, ballot, proposals, taken) ==
  \E a \in {UpdateAttributes(known, r, cmds, 0, NoDeps, id[1])} :
    /\ instanceSpace' = [instanceSpace EXCEPT ![r][id] =
         [cmds |-> cmds, bal |-> ballot, vbal |-> ballot, status |-> PREACCEPTED,
          seq |-> a.seq, deps |-> a.deps]]
    /\ lbs' = [lbs EXCEPT ![r][id] = NewLB(proposals, a.deps, ballot, cmds, PREACCEPTED, -1)]
    /\ created' = [created EXCEPT ![r][id[1]] = MovedLast(@, id[2])]
    /\ UpdateConflicts(r, cmds, id, a.seq)
    /\ msgs' = (msgs \ taken) \cup
         PreAcceptTo(Peers(r, FastQuorumSize - 1), r, id, ballot, cmds, -1, a.deps)

\* handlePropose: the batch is all that waits in the channel.
MayPropose(r) == proposeChan[r] # {} /\ crtInstance[r][r] < MaxInstance
HandlePropose(r) ==
  LET id == <<r, crtInstance[r][r] + 1>>
  IN  /\ MayPropose(r)
      /\ \E taken \in SUBSET proposeChan[r] :
           \E batch \in SetToSeqs(taken) :
             /\ taken # {} /\ Cardinality(taken) <= MaxBatch
             /\ proposeChan' = [proposeChan EXCEPT ![r] = @ \ taken]
             /\ StartPhase1(instanceSpace[r], r, batch, id, r, taken, {})
      /\ Learns(r, id)
      /\ UNCHANGED <<maxRecvBallot, ctrlVars>>

\* Mutant: the dependencies of the PreAccept are taken as they are.
PreAccepted_AsSent(r, m) ==
  [cmds |-> m.cmds, bal |-> m.ballot, vbal |-> m.ballot, status |-> PREACCEPTED_EQ,
   seq |-> m.seq, deps |-> m.deps]

\* The instance after a PreAccept, unless it is accepted or committed.
PreAccepted(r, m) ==
  LET a == UpdateAttributes(instanceSpace[r], r, m.cmds, m.seq, m.deps, m.id[1])
  IN  [cmds |-> m.cmds, bal |-> m.ballot, vbal |-> m.ballot,
       status |-> IF a.changed THEN PREACCEPTED ELSE PREACCEPTED_EQ, seq |-> a.seq, deps |-> a.deps]

\* handlePreAccept.
HandlePreAccept(r, m) ==
  LET i == instanceSpace[r][m.id]
  IN  /\ m.type = "preAccept"
      /\ Sees(r, m.ballot) /\ Learns(r, m.id) /\ Creates(r, m.id)
      /\ IF m.ballot < i.bal
         THEN msgs' = msgs \ {m} /\ UNCHANGED <<instanceSpace, attrVars>>
         ELSE \E j \in {IF i.status >= ACCEPTED THEN [i EXCEPT !.bal = m.ballot] ELSE PreAccepted(r, m)} :
                /\ instanceSpace' = [instanceSpace EXCEPT ![r][m.id] = j]
                /\ IF i.status >= ACCEPTED THEN UNCHANGED attrVars
                   ELSE UpdateConflicts(r, m.cmds, m.id, m.seq)
                /\ msgs' = (msgs \ {m}) \cup
                     ReplyTo(m, [type |-> "preAcceptReply", from |-> r, to |-> m.from, id |-> m.id,
                       ballot |-> j.bal, vbal |-> j.vbal, seq |-> j.seq, deps |-> j.deps, status |-> j.status])
      /\ UNCHANGED <<lbs, proposeChan, ctrlVars>>

IsInitialBallot(ballot, id) == ballot = id[1]

\* The bookkeeping after a PreAcceptReply: a reply of a higher vbal is taken as it is, the
\* others are merged.  With 3 replicas they need not be equal.
WithPreAcceptReply(r, b, m) ==
  LET c == IF m.vbal > b.ballot
           THEN [b EXCEPT !.ballot = m.vbal, !.seq = m.seq, !.deps = m.deps, !.status = m.status]
           ELSE b
      a == Merge(r, c, m)
  IN  [c EXCEPT !.preAcceptOKs = @ + 1,
                !.allEqual = @ /\ (N <= 3 \/ a.equal),
                !.seq  = IF c.status <= PREACCEPTED_EQ THEN a.seq ELSE @,
                !.deps = IF c.status <= PREACCEPTED_EQ THEN a.deps ELSE @]

\* The fast path: equal replies in the initial ballot.
MayCommitFast(b, id) == b.allEqual /\ IsInitialBallot(b.lastTriedBallot, id)

\* handlePreAcceptReply: at a fast quorum the instance is committed or accepted.
HandlePreAcceptReply(r, m) ==
  LET b == lbs[r][m.id]
      c == WithPreAcceptReply(r, b, m)
      s == IF MayCommitFast(c, m.id) THEN COMMITTED ELSE ACCEPTED
  IN  /\ m.type = "preAcceptReply"
      /\ Sees(r, m.ballot)
      /\ IF b.lastTriedBallot # m.ballot \/ b.status \notin {PREACCEPTED, PREACCEPTED_EQ}
         THEN msgs' = msgs \ {m} /\ UNCHANGED <<instanceSpace, lbs>>
         ELSE IF c.preAcceptOKs < FastQuorumSize - 1
         THEN /\ lbs' = [lbs EXCEPT ![r][m.id] = c]
              /\ msgs' = msgs \ {m} /\ UNCHANGED instanceSpace
         ELSE /\ lbs' = [lbs EXCEPT ![r][m.id] = [c EXCEPT !.status = s]]
              /\ instanceSpace' = [instanceSpace EXCEPT ![r][m.id] =
                   [@ EXCEPT !.status = s, !.bal = c.ballot, !.cmds = c.cmds,
                             !.deps = c.deps, !.seq = c.seq]]
              /\ msgs' = (msgs \ {m}) \cup
                   IF s = COMMITTED THEN CommitTo(Peers(r, N - 1), r, m.id, c)
                                    ELSE AcceptTo(Peers(r, N \div 2), r, m.id, c)
      /\ UNCHANGED <<attrVars, rowVars, proposeChan, ctrlVars>>

\* handleAccept: neither the status nor the commands are set.
HandleAccept(r, m) ==
  LET i == instanceSpace[r][m.id]
      j == IF m.ballot < i.bal \/ i.status >= COMMITTED THEN i
           ELSE [i EXCEPT !.deps = m.deps, !.seq = m.seq, !.bal = m.ballot, !.vbal = m.ballot]
  IN  /\ m.type = "accept"
      /\ Sees(r, m.ballot) /\ Learns(r, m.id) /\ Creates(r, m.id)
      /\ instanceSpace' = [instanceSpace EXCEPT ![r][m.id] = j]
      /\ msgs' = (msgs \ {m}) \cup
           ReplyTo(m, [type |-> "acceptReply", from |-> r, to |-> m.from, id |-> m.id, ballot |-> j.bal])
      /\ UNCHANGED <<lbs, attrVars, proposeChan, ctrlVars>>

\* handleAcceptReply.
HandleAcceptReply(r, m) ==
  LET b == lbs[r][m.id]
      c == [b EXCEPT !.acceptOKs = @ + 1]
  IN  /\ m.type = "acceptReply"
      /\ Sees(r, m.ballot)
      /\ IF b.status # ACCEPTED \/ b.lastTriedBallot # m.ballot
         THEN msgs' = msgs \ {m} /\ UNCHANGED <<instanceSpace, lbs>>
         ELSE IF c.acceptOKs + 1 > N \div 2
         THEN /\ lbs' = [lbs EXCEPT ![r][m.id] = [c EXCEPT !.status = COMMITTED]]
              /\ instanceSpace' = [instanceSpace EXCEPT ![r][m.id].status = COMMITTED]
              /\ msgs' = (msgs \ {m}) \cup CommitTo(Peers(r, N - 1), r, m.id, c)
         ELSE /\ lbs' = [lbs EXCEPT ![r][m.id] = c]
              /\ msgs' = msgs \ {m} /\ UNCHANGED instanceSpace
      /\ UNCHANGED <<attrVars, rowVars, proposeChan, ctrlVars>>

\* handleCommit: the clients of an instance of r that has become a NOOP propose again.
HandleCommit(r, m) ==
  LET i == instanceSpace[r][m.id]
      again == IF m.id[1] = r /\ m.cmds = <<Noop>> THEN lbs[r][m.id].proposals ELSE {}
  IN  /\ m.type = "commit"
      /\ Sees(r, m.ballot) /\ Learns(r, m.id) /\ Creates(r, m.id)
      /\ msgs' = msgs \ {m}
      /\ IF i.status >= COMMITTED \/ m.ballot < i.bal
         THEN UNCHANGED <<instanceSpace, lbs, attrVars, proposeChan>>
         ELSE /\ instanceSpace' = [instanceSpace EXCEPT ![r][m.id] =
                   [cmds |-> m.cmds, bal |-> m.ballot, vbal |-> m.ballot, status |-> COMMITTED,
                    seq |-> m.seq, deps |-> m.deps]]
              /\ proposeChan' = [proposeChan EXCEPT ![r] = @ \cup again]
              /\ lbs' = IF again = {} THEN lbs ELSE [lbs EXCEPT ![r][m.id].proposals = {}]
              /\ UpdateConflicts(r, m.cmds, m.id, m.seq)
      /\ UNCHANGED ctrlVars
-------------------------------------------------------------------------------
PrepareReplyOf(r, to, id, i) ==
  [type |-> "prepareReply", from |-> r, to |-> to, id |-> id, ballot |-> i.bal, vbal |-> i.vbal,
   status |-> i.status, cmds |-> i.cmds, seq |-> i.seq, deps |-> i.deps]

\* PrepareReply.Marshal leaves out VBallot, and Unmarshal makes a slice of no commands.
OnWire(p) == [p EXCEPT !.vbal = 0, !.cmds = IF @ = Nil THEN <<>> ELSE @]

\* makeBallot: the leader's is not below those it has seen.
MakeBallot(r, id) ==
  LET n == IF r = id[1] THEN r ELSE r + N
  IN  IF r \notin Leaders \/ n >= maxRecvBallot[r] THEN n
      ELSE CHOOSE b \in maxRecvBallot[r] .. maxRecvBallot[r] + N - 1 : b % N = r

MayRecover(r, id) ==
  /\ r \notin dead
  /\ id[2] <= crtInstance[r][id[1]] /\ instanceSpace[r][id].status < COMMITTED
  /\ Patient => \A m \in msgs : m.id # id
  /\ <<r, id>> \in Recoverable \ recoveries /\ Cardinality(recoveries) < MaxRecoveries

\* startRecoveryForInstance, of an instance the executor has waited for longer than
\* COMMIT_GRACE_PERIOD, or of a later one of its row.
StartRecovery(r, id) ==
  LET i == instanceSpace[r][id]
      n == MakeBallot(r, id)
      j == [i EXCEPT !.bal = n, !.vbal = n]
      own == PrepareReplyOf(r, r, id, j)
      b == [NewLB(lbs[r][id].proposals, i.deps, n, i.cmds, i.status, i.seq)
             EXCEPT !.ballot = i.vbal, !.prepareReplies = <<own>>, !.leaderResponded = r = id[1]]
  IN  /\ MayRecover(r, id)
      /\ recoveries' = recoveries \cup {<<r, id>>}
      /\ instanceSpace' = [instanceSpace EXCEPT ![r][id] = j]
      /\ lbs' = [lbs EXCEPT ![r][id] = b]
      /\ Creates(r, id)
      /\ msgs' = msgs \cup
           {[type |-> "prepare", from |-> r, to |-> q, id |-> id, ballot |-> n] : q \in Replicas \ (dead \cup {r})}
      /\ UNCHANGED <<attrVars, crtInstance, maxRecvBallot, proposeChan, dead>>

\* handlePrepare.
HandlePrepare(r, m) ==
  LET i == [instanceSpace[r][m.id] EXCEPT !.bal = MaxOf(@, m.ballot)]
  IN  /\ m.type = "prepare"
      /\ Sees(r, m.ballot) /\ Creates(r, m.id)
      /\ instanceSpace' = [instanceSpace EXCEPT ![r][m.id] = i]
      /\ msgs' = (msgs \ {m}) \cup ReplyTo(m, OnWire(PrepareReplyOf(r, m.from, m.id, i)))
      /\ UNCHANGED <<lbs, attrVars, crtInstance, proposeChan, ctrlVars>>

\* Mutant: what the last reply says.
Adopts_Last(b, replies) ==
  LET p == Last(replies)
  IN  [b EXCEPT !.ballot = p.vbal, !.cmds = p.cmds, !.seq = p.seq, !.deps = p.deps, !.status = p.status,
                !.preparing = FALSE, !.prepareReplies = <<>>]

\* The bookkeeping after the PrepareReplies of a quorum: what the last of those with the
\* highest vbal says.  The recoverer's own has its fresh ballot, the others have 0.
Adopts(b, replies) ==
  LET highest == {k \in DOMAIN replies : /\ replies[k].vbal >= b.ballot
                                        /\ \A j \in DOMAIN replies : replies[j].vbal <= replies[k].vbal}
      p == replies[Max(highest)]
      c == IF highest = {} THEN b
           ELSE [b EXCEPT !.ballot = p.vbal, !.cmds = p.cmds, !.seq = p.seq, !.deps = p.deps, !.status = p.status]
  IN  [c EXCEPT !.preparing = FALSE, !.prepareReplies = <<>>,
                !.leaderResponded = @ \/ \E k \in DOMAIN replies : replies[k].from = replies[k].id[1]]

\* subCase 3: enough replicas besides the leader, all alike, have pre-accepted.
EnoughPreAccepted(r, b, replies) ==
  /\ Cardinality({k \in DOMAIN replies : replies[k].status \in {PREACCEPTED, PREACCEPTED_EQ}}) >= SlowQuorumSize - 1
  /\ ~b.leaderResponded
  /\ \A k \in DOMAIN replies :
       replies[k].vbal = b.ballot /\ replies[k].status >= PREACCEPTED => Merge(r, b, replies[k]).equal

\* handlePrepareReply.
HandlePrepareReply(r, m) ==
  LET b == lbs[r][m.id]
      replies == Append(b.prepareReplies, m)
      c == Adopts(b, replies)
      j == [cmds |-> c.cmds, bal |-> b.lastTriedBallot, vbal |-> b.lastTriedBallot,
            status |-> c.status, seq |-> c.seq, deps |-> c.deps]
      s == MaxOf(c.status, ACCEPTED)
  IN  /\ m.type = "prepareReply"
      /\ Sees(r, m.ballot)
      /\ IF ~b.preparing \/ m.ballot # b.lastTriedBallot
         THEN msgs' = msgs \ {m} /\ UNCHANGED <<instanceSpace, lbs, attrVars, created>>
         ELSE IF Len(replies) < SlowQuorumSize
         THEN /\ lbs' = [lbs EXCEPT ![r][m.id].prepareReplies = replies]
              /\ msgs' = msgs \ {m} /\ UNCHANGED <<instanceSpace, attrVars, created>>
         ELSE \/ /\ c.status \in {NONE, PREACCEPTED, PREACCEPTED_EQ}
                 /\ c.status = NONE \/ ~EnoughPreAccepted(r, c, replies)
                 /\ StartPhase1([instanceSpace[r] EXCEPT ![m.id] = j], r,
                                IF c.cmds = Nil THEN <<Noop>> ELSE c.cmds, m.id, b.lastTriedBallot,
                                b.proposals, {m})
              \/ /\ c.status >= ACCEPTED \/ (c.status # NONE /\ EnoughPreAccepted(r, c, replies))
                 /\ lbs' = [lbs EXCEPT ![r][m.id] = [c EXCEPT !.status = s]]
                 /\ instanceSpace' = [instanceSpace EXCEPT ![r][m.id] = [j EXCEPT !.status = s]]
                 /\ msgs' = (msgs \ {m}) \cup
                      IF s = ACCEPTED THEN AcceptTo(Peers(r, N \div 2), r, m.id, c) ELSE {}
                 /\ UNCHANGED <<attrVars, created>>
      /\ UNCHANGED <<crtInstance, proposeChan, ctrlVars>>
-------------------------------------------------------------------------------
\* A replica stops: what is under way to it is lost, and any of what it has sent.
Stop(r) ==
  /\ r \in Mortal \ dead /\ Cardinality(dead) < FailuresTolerated
  /\ dead' = dead \cup {r}
  /\ \E lost \in SUBSET {m \in msgs : m.from = r} :
       msgs' = {m \in msgs \ lost : m.to # r}
  /\ UNCHANGED <<instanceSpace, lbs, attrVars, rowVars, maxRecvBallot, proposeChan, recoveries>>

\* The run loop takes a message.
Receive(r, m) ==
  \/ HandlePreAccept(r, m)
  \/ HandlePreAcceptReply(r, m)
  \/ HandleAccept(r, m)
  \/ HandleAcceptReply(r, m)
  \/ HandleCommit(r, m)
  \/ HandlePrepare(r, m)
  \/ HandlePrepareReply(r, m)

RunLoop(r) ==
  /\ r \notin dead
  /\ \/ HandlePropose(r)
     \/ \E m \in msgs : m.to = r /\ Receive(r, m)

\* The executor marks instances as executed.
MarksExecuted(r, S) ==
  instanceSpace' = [instanceSpace EXCEPT ![r] = [v \in InstanceIds |->
    IF v \in S THEN [@[v] EXCEPT !.status = EXECUTED] ELSE @[v]]]

\* Which ones is left open, but that they are committed.
ExecutesSome(r) ==
  /\ r \notin dead
  /\ \E S \in SUBSET {id \in InstanceIds : instanceSpace[r][id].status = COMMITTED} : MarksExecuted(r, S)
  /\ UNCHANGED <<lbs, attrVars, rowVars, maxRecvBallot, proposeChan, msgs, ctrlVars>>

CommitNext ==
  \E r \in Replicas : \/ RunLoop(r)
                      \/ ExecutesSome(r)
                      \/ \E id \in InstanceIds : StartRecovery(r, id)
                      \/ Stop(r)

CommitSpec == CommitInit /\ [][CommitNext]_commitVars
-------------------------------------------------------------------------------
IsCommitted(r, id) == instanceSpace[r][id].status >= COMMITTED

\* No two replicas commit an instance with different commands, sequence numbers or
\* dependencies ("Corrected EPaxos implementation", README.md line 22).
AgreementOn(id) ==
  \A r, s \in Replicas :
    IsCommitted(r, id) /\ IsCommitted(s, id) =>
      LET i == instanceSpace[r][id]
          j == instanceSpace[s][id]
      IN  i.cmds = j.cmds /\ i.seq = j.seq /\ i.deps = j.deps

Agreement == \A id \in InstanceIds : AgreementOn(id)

ConflictingCommands(c, d) == {c, d} \subseteq Commands /\ Key[c] = Key[d] /\ (IsWrite(c) \/ IsWrite(d))
Conflicting(b, c) == \E i \in DOMAIN b, j \in DOMAIN c : ConflictingCommands(b[i], c[j])

\* Of two committed instances with conflicting commands one depends on the other, although
\* no replica has seen both when they were proposed.
OrderedOn(v, w) ==
  \A r, s \in Replicas :
    LET i == instanceSpace[r][v]
        j == instanceSpace[s][w]
    IN  /\ v # w /\ IsCommitted(r, v) /\ IsCommitted(s, w)
        /\ Conflicting(i.cmds, j.cmds)
        => i.deps[w[1]] >= w[2] \/ j.deps[v[1]] >= v[2]

ConflictsAreOrdered == \A v, w \in InstanceIds : OrderedOn(v, w)

\* The recovery of an instance ends with what the recoverer itself holds if no other replica
\* has voted at as high a ballot: "only replies from the highest ballot are taken into
\* account" (epaxos.go line 1229), and its own is one of the replies.  It does not hold: the
\* ballots of the others are not on the wire, and replica 0 recovers its own row at ballot 0.
HighestBallotIsTaken ==
  [][\A r \in Replicas, id \in InstanceIds :
       LET b == lbs[r][id]
       IN  /\ b.prepareReplies # <<>> /\ lbs'[r][id].prepareReplies = <<>> /\ b.cmds # Nil
           /\ \A q \in Replicas \ {r} : instanceSpace[q][id].vbal < b.lastTriedBallot
           => lbs'[r][id].cmds = b.cmds]_commitVars

\* Nobody has begun a recovery of the instance.
Unrecovered(id) == \A r \in Replicas : <<r, id>> \notin recoveries
===============================================================================
