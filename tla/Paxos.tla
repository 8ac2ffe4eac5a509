-------------------------------- MODULE Paxos --------------------------------
(***************************************************************************)
(* paxos/paxos.go: the multi-instance Paxos replica.  A leader numbers the *)
(* batches of client commands, prepares the ballot of an instance (unless  *)
(* that ballot is already promised by default), has the batch accepted by  *)
(* a write quorum, and tells the others with a CommitShort.  A second      *)
(* goroutine executes the committed instances in order, and asks the run   *)
(* loop to recover the ones that stay uncommitted too long.                *)
(*                                                                         *)
(* Messages travel through one channel per type, each received message in  *)
(* a goroutine of its own: they are handled in any order.  Links neither   *)
(* lose nor duplicate, but a handler may send the same message twice and   *)
(* an AcceptReply does not say who sent it: the network is a bag.          *)
(*                                                                         *)
(* A batch is the set of its commands.  A command slice is Nil (nil), {}   *)
(* (what a nil slice becomes on the wire), {Noop} or a batch.  Nothing is  *)
(* persisted (Durable is never set), so a stopped replica does not return. *)
(***************************************************************************)
EXTENDS Integers, FiniteSets, Sequences, Bags

CONSTANTS N,              \* the number of replicas
          Commands,       \* the commands of the clients
          Nil, Noop,      \* the nil slice and the command of state.NOOP()
          NoInstance,     \* an empty entry of instanceSpace
          NoLB,           \* a nil *LeaderBookkeeping
          ClientCommands, \* ClientCommands[r]: the commands clients send to r
          InitialLeaders, \* the replicas that start with IsLeader set
          Candidates,     \* the replicas the master may call BeTheLeader on
          Mortal,         \* the replicas that may stop
          Absent,         \* the replicas that have stopped before the first command
          MaxInstance,    \* bound: the last instance a leader opens
          MaxBallot,      \* bound: the last ballot a replica tries
          MaxOpen,        \* bound: the uncommitted instances of a leader that proposes
          MaxTimeouts     \* bound: the grace periods that expire at a replica

Replicas  == 0 .. N - 1
Instances == 0 .. MaxInstance
Ballots   == -1 .. MaxBallot
F         == (N - 1) \div 2
ReadQuorumSize  == N - F
WriteQuorumSize == F + 1

ASSUME SizeAssumption  == N \in Nat \ {0}
ASSUME BoundAssumption == MaxInstance \in Nat /\ MaxBallot \in Nat /\ MaxOpen \in Nat
                          /\ MaxTimeouts \in Nat
ASSUME ValueAssumption == /\ IsFiniteSet(Commands)
                          /\ Noop \notin Commands
                          /\ \A s \in SUBSET (Commands \cup {Noop}) : s # Nil
ASSUME ClientAssumption == ClientCommands \in [Replicas -> SUBSET Commands]
ASSUME RoleAssumption  == /\ InitialLeaders \subseteq Replicas
                          /\ Candidates \subseteq Replicas
                          /\ Mortal \subseteq Replicas
                          /\ Absent \subseteq Replicas

VARIABLES
  isLeader,       \* isLeader[r]: IsLeader
  instanceSpace,  \* instanceSpace[r][i]: NoInstance or [cmds, bal, vbal, status]
  lb,             \* lb[r][i]: NoLB or the LeaderBookkeeping of the instance
  crtInstance,    \* crtInstance[r]: the last instance r knows of
  maxRecvBallot,  \* maxRecvBallot[r]: the highest ballot received
  defaultBallot,  \* defaultBallot[r][q]: the ballot q promises by default
  smallestDefaultBallot, \* the ballot r may accept at without a Prepare
  proposeChan,    \* proposeChan[r]: the client commands waiting at r
  toRecover,      \* toRecover[r]: the channel instancesToRecover
  timeouts,       \* timeouts[r]: the grace periods that have expired
  log,            \* log[r]: the batches r has executed, in order
  replied,        \* the commands answered to their clients
  refused,        \* the commands refused to their clients
  dead,           \* dead[r]: the process has stopped
  panicked,       \* panicked[r]: it has stopped by dereferencing nil
  network         \* the bag of the messages in transit

leaderVars == <<isLeader, proposeChan, refused, smallestDefaultBallot>>
ballotVars == <<maxRecvBallot, defaultBallot>>
execVars   == <<log, replied, toRecover, timeouts>>
lifeVars   == <<dead, panicked>>
vars == <<leaderVars, ballotVars, execVars, lifeVars, instanceSpace, lb,
          crtInstance, network>>

Slices == {Nil} \cup SUBSET (Commands \cup {Noop})
Statuses == {"PREPARING", "PREPARED", "ACCEPTED", "COMMITTED"}
Instance == [cmds : Slices, bal : Ballots, vbal : Ballots, status : Statuses]
LeaderBookkeeping ==
  [clientProposals : {Nil} \cup SUBSET Commands, prepareOKs : Nat, acceptOKs : Nat,
   nacks : Nat, ballot : Ballots, cmds : Slices, lastTriedBallot : Ballots]

ASSUME NothingAssumption == NoInstance \notin Instance /\ NoLB \notin LeaderBookkeeping

Message ==
       [type : {"Prepare"}, to : Replicas, leader : Replicas, inst : Instances, bal : Ballots]
  \cup [type : {"PrepareReply"}, to : Replicas, inst : Instances, bal : Ballots,
        vbal : Ballots, defaultBal : Ballots, acceptor : Replicas, cmds : Slices]
  \cup [type : {"Accept", "Commit"}, to : Replicas, leader : Replicas,
        inst : Instances, bal : Ballots, cmds : Slices]
  \cup [type : {"AcceptReply"}, to : Replicas, inst : Instances, bal : Ballots]
  \cup [type : {"CommitShort"}, to : Replicas, inst : Instances, bal : Ballots]

TypeOK ==
  /\ isLeader \in [Replicas -> BOOLEAN]
  /\ instanceSpace \in [Replicas -> [Instances -> Instance \cup {NoInstance}]]
  /\ lb \in [Replicas -> [Instances -> LeaderBookkeeping \cup {NoLB}]]
  /\ crtInstance \in [Replicas -> -1 .. MaxInstance]
  /\ maxRecvBallot \in [Replicas -> Ballots]
  /\ defaultBallot \in [Replicas -> [Replicas -> Ballots]]
  /\ smallestDefaultBallot \in [Replicas -> Ballots]
  /\ proposeChan \in [Replicas -> SUBSET Commands]
  /\ toRecover \in [Replicas -> Seq(Instances)]
  /\ timeouts \in [Replicas -> 0 .. MaxTimeouts]
  /\ log \in [Replicas -> Seq(SUBSET (Commands \cup {Noop}))]
  /\ replied \subseteq Commands
  /\ refused \subseteq Commands
  /\ dead \in [Replicas -> BOOLEAN]
  /\ panicked \in [Replicas -> BOOLEAN]
  /\ IsABag(network) /\ DOMAIN network \subseteq Message

Init ==
  /\ isLeader = [r \in Replicas |-> r \in InitialLeaders]
  /\ instanceSpace = [r \in Replicas |-> [i \in Instances |-> NoInstance]]
  /\ lb = [r \in Replicas |-> [i \in Instances |-> NoLB]]
  /\ crtInstance = [r \in Replicas |-> -1]
  /\ maxRecvBallot = [r \in Replicas |-> -1]
  /\ defaultBallot = [r \in Replicas |-> [q \in Replicas |-> -1]]
  /\ smallestDefaultBallot = [r \in Replicas |-> -1]
  /\ proposeChan = ClientCommands
  /\ toRecover = [r \in Replicas |-> <<>>]
  /\ timeouts = [r \in Replicas |-> 0]
  /\ log = [r \in Replicas |-> <<>>]
  /\ replied = {}
  /\ refused = {}
  /\ dead = [r \in Replicas |-> r \in Absent]
  /\ panicked = [r \in Replicas |-> FALSE]
  /\ network = EmptyBag
-------------------------------------------------------------------------------
MaxOf(a, b) == IF a >= b THEN a ELSE b

\* The wire has no nil slice: Unmarshal makes an empty one.
OnWire(cmds) == IF cmds = Nil THEN {} ELSE cmds

\* Sending, and handling m while sending: the handler of r consumes m.
Sends(ms)        == network' = network (+) SetToBag(ms)
Replies(m, ms)   == network' = (network (-) SetToBag({m})) (+) SetToBag(ms)

Others(r) == Replicas \ {r}
Prepares(r, i, b) ==
  {[type |-> "Prepare", to |-> q, leader |-> r, inst |-> i, bal |-> b] : q \in Others(r)}
Accepts(r, i, b, cmds) ==
  {[type |-> "Accept", to |-> q, leader |-> r, inst |-> i, bal |-> b, cmds |-> OnWire(cmds)] :
     q \in Others(r)}
CommitShorts(r, i, b) ==
  {[type |-> "CommitShort", to |-> q, inst |-> i, bal |-> b] : q \in Others(r)}

\* Mutant: known + 1, whoever owns that ballot.
BallotFor_NotOwned(r, recv) ==
  LET known == MaxOf(defaultBallot[r][r], recv)
  IN  IF ~isLeader[r] \/ known <= r THEN r ELSE known + 1

\* The ballot makeBallot gives r when the highest one it has received is recv:
\* a leader takes its first ballot that is not below what it knows of, another
\* replica its very first.
BallotFor(r, recv) ==
  LET known == MaxOf(defaultBallot[r][r], recv)
  IN  IF ~isLeader[r] \/ known <= r THEN r
      ELSE r + N * ((known - r + N - 1) \div N)

\* The instance a handler finds or creates, at the default ballot of r.
FreshInstance(r) ==
  [cmds |-> Nil, bal |-> defaultBallot[r][r], vbal |-> defaultBallot[r][r],
   status |-> "PREPARING"]
Found(r, i) ==
  IF instanceSpace[r][i] = NoInstance THEN FreshInstance(r) ELSE instanceSpace[r][i]
SetInstance(r, i, x) == instanceSpace' = [instanceSpace EXCEPT ![r][i] = x]

Committed(r, i) == instanceSpace[r][i] # NoInstance /\ instanceSpace[r][i].status = "COMMITTED"

\* r was proposing commands of its own clients in instance i.
HasProposals(r, i) == IF lb[r][i] = NoLB THEN FALSE ELSE lb[r][i].clientProposals # Nil

\* Mutant: crtInstance moved past the instance.
LearnsInstance_OffByOne(r, i) ==
  crtInstance' = [crtInstance EXCEPT ![r] =
    IF instanceSpace[r][i] = NoInstance THEN MaxOf(@, i + 1) ELSE @]

\* A handler that creates instance i learns of it.
LearnsInstance(r, i) ==
  crtInstance' = [crtInstance EXCEPT ![r] =
    IF instanceSpace[r][i] = NoInstance THEN MaxOf(@, i) ELSE @]

LearnsBallot(r, b) == maxRecvBallot' = [maxRecvBallot EXCEPT ![r] = MaxOf(@, b)]

\* m is in transit to a running replica r.
Receives(r, m, type) ==
  /\ ~dead[r]
  /\ m.type = type
  /\ m.to = r
-------------------------------------------------------------------------------
\* A replica that is not the leader refuses a client's command.
RefusePropose(r, c) ==
  /\ ~dead[r]
  /\ c \in proposeChan[r]
  /\ ~isLeader[r]
  /\ proposeChan' = [proposeChan EXCEPT ![r] = @ \ {c}]
  /\ refused' = refused \cup {c}
  /\ UNCHANGED <<isLeader, smallestDefaultBallot, ballotVars, execVars, lifeVars,
                 instanceSpace, lb, crtInstance, network>>

\* Mutant: an instance is given to two batches.
NextInstance_NotAdvanced(r) == MaxOf(crtInstance[r], 0)

\* The instance of the next batch of leader r.
NextInstance(r) == crtInstance[r] + 1

\* handlePropose: the leader gives the batch of the commands that have reached
\* its channel the next instance.  It asks for promises at its ballot, or goes
\* straight to Accept if the ballot is promised by default.
HandlePropose(r, batch) ==
  LET i    == NextInstance(r)
      b    == BallotFor(r, maxRecvBallot[r])
      book == [clientProposals |-> batch, prepareOKs |-> 0, acceptOKs |-> 0, nacks |-> 0,
               ballot |-> r, cmds |-> Nil, lastTriedBallot |-> b]
      ready == b = smallestDefaultBallot[r]
  IN  /\ ~dead[r]
      /\ isLeader[r]
      /\ batch # {}
      /\ batch \subseteq proposeChan[r]
      /\ i \in Instances
      /\ b <= MaxBallot
      /\ Cardinality({j \in 0 .. i - 1 : ~Committed(r, j)}) < MaxOpen
      /\ proposeChan' = [proposeChan EXCEPT ![r] = @ \ batch]
      /\ crtInstance' = [crtInstance EXCEPT ![r] = i]
      /\ defaultBallot' = [defaultBallot EXCEPT ![r][r] = b]
      /\ \/ /\ ~ready
            /\ SetInstance(r, i, FreshInstance(r))
            /\ lb' = [lb EXCEPT ![r][i] = book]
            /\ Sends(Prepares(r, i, b))
         \/ /\ ready
            /\ SetInstance(r, i, [cmds |-> batch, bal |-> b, vbal |-> b, status |-> "ACCEPTED"])
            /\ lb' = [lb EXCEPT ![r][i] = [book EXCEPT !.cmds = batch]]
            /\ Sends(Accepts(r, i, b, batch))
      /\ UNCHANGED <<isLeader, refused, smallestDefaultBallot, maxRecvBallot, execVars, lifeVars>>

\* handlePrepare of a committed instance: r answers with the instance.
HandlePrepareCommitted(r, m) ==
  /\ Receives(r, m, "Prepare")
  /\ LearnsBallot(r, m.bal)
  /\ LET x == Found(r, m.inst)
     IN  /\ x.status = "COMMITTED"
         /\ Replies(m, {[type |-> "Commit", to |-> m.leader, leader |-> m.leader,
                         inst |-> m.inst, bal |-> x.vbal, cmds |-> OnWire(x.cmds)]})
  /\ UNCHANGED <<leaderVars, defaultBallot, execVars, lifeVars, instanceSpace, lb, crtInstance>>

\* handlePrepare: r promises a higher ballot, for the instance and, if it is the
\* last one, by default; it answers in any case with what it holds.
HandlePrepare(r, m) ==
  LET x        == Found(r, m.inst)
      promises == x.bal < m.bal
      y        == IF promises THEN [x EXCEPT !.bal = m.bal, !.status = "PREPARED"] ELSE x
  IN  /\ Receives(r, m, "Prepare")
      /\ LearnsBallot(r, m.bal)
      /\ x.status # "COMMITTED"
      /\ LearnsInstance(r, m.inst)
      /\ SetInstance(r, m.inst, y)
      /\ defaultBallot' = [defaultBallot EXCEPT ![r][r] =
           IF promises /\ crtInstance'[r] = m.inst THEN m.bal ELSE @]
      /\ Replies(m, {[type |-> "PrepareReply", to |-> m.leader, inst |-> m.inst,
                      bal |-> y.bal, vbal |-> y.vbal, defaultBal |-> defaultBallot'[r][r],
                      acceptor |-> r, cmds |-> OnWire(y.cmds)]})
      /\ UNCHANGED <<leaderVars, execVars, lifeVars, lb>>

\* handleAccept: r takes the batch of a ballot that is not below the one it holds
\* for the instance (of any ballot, if the instance is new), and answers in any
\* case with the ballot it holds.
HandleAccept(r, m) ==
  LET x     == instanceSpace[r][m.inst]
      takes == \/ x = NoInstance
               \/ m.bal >= x.bal /\ x.status # "COMMITTED"
      y     == IF takes THEN [cmds |-> m.cmds, bal |-> m.bal, vbal |-> m.bal,
                              status |-> "ACCEPTED"]
               ELSE x
  IN  /\ Receives(r, m, "Accept")
      /\ LearnsBallot(r, m.bal)
      /\ LearnsInstance(r, m.inst)
      /\ SetInstance(r, m.inst, y)
      /\ Replies(m, {[type |-> "AcceptReply", to |-> m.leader, inst |-> m.inst, bal |-> y.bal]})
      /\ UNCHANGED <<leaderVars, defaultBallot, execVars, lifeVars, lb>>

\* Mutant: the displaced commands stay in the instance.
WithoutProposals_Kept(book) == book

\* The bookkeeping of an instance whose commands go back to the channel.
WithoutProposals(book) == [book EXCEPT !.clientProposals = Nil]

\* handleCommit: r takes a committed batch; the commands it was itself proposing
\* in that instance go back to its channel.
HandleCommit(r, m) ==
  LET x       == Found(r, m.inst)
      book    == lb[r][m.inst]
      ignored == x.status = "COMMITTED" \/ m.bal < x.bal
      displaced == ~ignored /\ HasProposals(r, m.inst)
  IN  /\ Receives(r, m, "Commit")
      /\ LearnsInstance(r, m.inst)
      /\ SetInstance(r, m.inst,
           IF ignored THEN x ELSE [cmds |-> m.cmds, bal |-> m.bal, vbal |-> m.bal,
                                   status |-> "COMMITTED"])
      /\ proposeChan' = [proposeChan EXCEPT ![r] =
           IF displaced THEN @ \cup book.clientProposals ELSE @]
      /\ lb' = [lb EXCEPT ![r][m.inst] =
           IF displaced THEN WithoutProposals(@) ELSE @]
      /\ Replies(m, {})
      /\ UNCHANGED <<isLeader, refused, smallestDefaultBallot, ballotVars, execVars, lifeVars>>

\* handleCommitShort: r commits whatever the instance holds.
HandleCommitShort(r, m) ==
  LET x       == instanceSpace[r][m.inst]
      ignored == \/ x = NoInstance
                 \/ x.status = "COMMITTED" \/ m.bal < x.bal
  IN  /\ Receives(r, m, "CommitShort")
      /\ SetInstance(r, m.inst,
           IF ignored THEN x ELSE [x EXCEPT !.status = "COMMITTED", !.bal = m.bal])
      /\ Replies(m, {})
      /\ UNCHANGED <<leaderVars, ballotVars, execVars, lifeVars, lb, crtInstance>>
-------------------------------------------------------------------------------
\* The ballot r may accept at directly, once a read quorum less one has promised by
\* default the ballots in bals (-1: none known).
SmallestDefault(r, bals) ==
  LET promising == {q \in Replicas : bals[q] # -1}
      least     == CHOOSE b \in {bals[q] : q \in promising} :
                     \A q \in promising : b <= bals[q]
  IN  IF /\ promising # {}
         /\ Cardinality(promising) >= ReadQuorumSize - 1
         /\ least > smallestDefaultBallot[r]
      THEN least
      ELSE smallestDefaultBallot[r]

\* handlePrepareReply from a lower ballot: nothing but the highest ballot changes.
IgnorePrepareReply(r, m) ==
  /\ Receives(r, m, "PrepareReply")
  /\ LearnsBallot(r, m.bal)
  /\ m.bal < lb[r][m.inst].lastTriedBallot
  /\ Replies(m, {})
  /\ UNCHANGED <<leaderVars, defaultBallot, execVars, lifeVars, instanceSpace, lb, crtInstance>>

\* handlePrepareReply from a higher ballot: a leader with a majority of refusals
\* tries a higher ballot itself.
RefusedPrepare(r, m) ==
  LET book    == lb[r][m.inst]
      retries == isLeader[r] /\ book.nacks + 2 > N \div 2
      b       == IF retries THEN BallotFor(r, maxRecvBallot'[r]) ELSE book.lastTriedBallot
  IN  /\ Receives(r, m, "PrepareReply")
      /\ LearnsBallot(r, m.bal)
      /\ m.bal > book.lastTriedBallot
      /\ b <= MaxBallot
      /\ lb' = [lb EXCEPT ![r][m.inst] =
           [book EXCEPT !.nacks = book.nacks + 1, !.lastTriedBallot = b]]
      /\ Replies(m, IF retries THEN Prepares(r, m.inst, b) ELSE {})
      /\ UNCHANGED <<leaderVars, defaultBallot, execVars, lifeVars, instanceSpace, crtInstance>>

\* Mutant: the batch of the clients is dropped.
BatchOf_Noop(book) == {Noop}

\* The commands r proposes for an instance: those of its clients, or else a no-op.
BatchOf(book) == IF book.clientProposals # Nil THEN book.clientProposals ELSE {Noop}

\* handlePrepareReply at the ballot r tries: from a read quorum on, every such
\* reply makes r propose its clients' batch, or a no-op if it has none, whatever
\* the acceptors have reported.
Promised(r, m) ==
  LET book   == lb[r][m.inst]
      higher == m.vbal > book.ballot
      ready  == book.prepareOKs + 2 >= ReadQuorumSize
      cmds   == BatchOf(book)
      counted == [book EXCEPT !.prepareOKs = book.prepareOKs + 1,
                              !.ballot = IF higher THEN m.vbal ELSE book.ballot,
                              !.cmds = IF ready THEN cmds
                                       ELSE IF higher THEN m.cmds ELSE book.cmds]
  IN  /\ Receives(r, m, "PrepareReply")
      /\ LearnsBallot(r, m.bal)
      /\ m.bal = book.lastTriedBallot
      /\ defaultBallot' = [defaultBallot EXCEPT ![r][m.acceptor] = MaxOf(@, m.defaultBal)]
      /\ lb' = [lb EXCEPT ![r][m.inst] = counted]
      /\ \/ /\ ~ready
            /\ Replies(m, {})
            /\ UNCHANGED <<instanceSpace, smallestDefaultBallot>>
         \/ /\ ready
            /\ SetInstance(r, m.inst, [instanceSpace[r][m.inst] EXCEPT
                 !.cmds = cmds, !.bal = m.bal, !.status = "ACCEPTED"])
            /\ smallestDefaultBallot' = [smallestDefaultBallot EXCEPT ![r] =
                 SmallestDefault(r, defaultBallot'[r])]
            /\ Replies(m, Accepts(r, m.inst, m.bal, cmds))
      /\ UNCHANGED <<isLeader, proposeChan, refused, execVars, lifeVars, crtInstance>>

HandlePrepareReply(r, m) ==
  \/ IgnorePrepareReply(r, m)
  \/ RefusedPrepare(r, m)
  \/ Promised(r, m)
-------------------------------------------------------------------------------
\* r has received an AcceptReply for an instance it has not committed.
AcceptAnswered(r, m) ==
  /\ Receives(r, m, "AcceptReply")
  /\ LearnsBallot(r, m.bal)
  /\ instanceSpace[r][m.inst].status # "COMMITTED"

\* handleAcceptReply after the commit, or from a lower ballot.
IgnoreAcceptReply(r, m) ==
  /\ Receives(r, m, "AcceptReply")
  /\ LearnsBallot(r, m.bal)
  /\ instanceSpace[r][m.inst].status = "COMMITTED" \/ m.bal < lb[r][m.inst].lastTriedBallot
  /\ Replies(m, {})
  /\ UNCHANGED <<leaderVars, defaultBallot, execVars, lifeVars, instanceSpace, lb, crtInstance>>

\* r has a bookkeeping for i to write to: no nil pointer.
HasBookkeeping(r, i) == i \in Instances /\ lb[r][i] # NoLB

\* Enough refusals for a leader to try again.
Overruled(r, m) == isLeader[r] /\ lb[r][m.inst].nacks + 2 >= WriteQuorumSize

\* handleAcceptReply from a higher ballot that only counts the refusal.
RefusedAccept(r, m) ==
  /\ AcceptAnswered(r, m)
  /\ m.bal > lb[r][m.inst].lastTriedBallot
  /\ ~Overruled(r, m)
  /\ lb' = [lb EXCEPT ![r][m.inst].nacks = @ + 1]
  /\ Replies(m, {})
  /\ UNCHANGED <<leaderVars, defaultBallot, execVars, lifeVars, instanceSpace, crtInstance>>

\* handleAcceptReply of an overruled leader: line 639 passes the ballot of the
\* reply to makeBallot, which takes it for an instance.
RetryAccept(r, m) ==
  LET b      == BallotFor(r, maxRecvBallot'[r])
      nacked == [lb EXCEPT ![r][m.inst].nacks = @ + 1]
      tried  == [nacked EXCEPT ![r][m.bal].lastTriedBallot = b]
  IN  /\ AcceptAnswered(r, m)
      /\ m.bal > lb[r][m.inst].lastTriedBallot
      /\ Overruled(r, m)
      /\ HasBookkeeping(r, m.bal)
      /\ b <= MaxBallot
      /\ lb' = tried
      /\ Replies(m, Prepares(r, m.inst, tried[r][m.inst].lastTriedBallot))
      /\ UNCHANGED <<leaderVars, defaultBallot, execVars, lifeVars, instanceSpace, crtInstance>>

\* The same, when that "instance" has no bookkeeping to write to: nil pointer.
PanicAccept(r, m) ==
  /\ AcceptAnswered(r, m)
  /\ m.bal > lb[r][m.inst].lastTriedBallot
  /\ Overruled(r, m)
  /\ ~HasBookkeeping(r, m.bal)
  /\ dead' = [dead EXCEPT ![r] = TRUE]
  /\ panicked' = [panicked EXCEPT ![r] = TRUE]
  /\ Replies(m, {})
  /\ UNCHANGED <<leaderVars, defaultBallot, execVars, instanceSpace, lb, crtInstance>>

\* Mutant: r does not count itself.
HasWriteQuorum_WithoutSelf(acceptOKs) == acceptOKs >= WriteQuorumSize

\* The acceptors that have answered make a write quorum with r.
HasWriteQuorum(acceptOKs) == acceptOKs + 1 >= WriteQuorumSize

\* handleAcceptReply at the ballot r tries: from a write quorum of replies on, r
\* commits and tells the others.
Accepted(r, m) ==
  LET chosen == HasWriteQuorum(lb'[r][m.inst].acceptOKs)
      x      == instanceSpace[r][m.inst]
  IN  /\ AcceptAnswered(r, m)
      /\ m.bal = lb[r][m.inst].lastTriedBallot
      /\ lb' = [lb EXCEPT ![r][m.inst].acceptOKs = @ + 1]
      /\ \/ /\ ~chosen
            /\ Replies(m, {})
            /\ UNCHANGED instanceSpace
         \/ /\ chosen
            /\ SetInstance(r, m.inst, [x EXCEPT !.status = "COMMITTED"])
            /\ Replies(m, CommitShorts(r, m.inst, x.bal))
      /\ UNCHANGED <<leaderVars, defaultBallot, execVars, lifeVars, crtInstance>>

HandleAcceptReply(r, m) ==
  \/ IgnoreAcceptReply(r, m)
  \/ RefusedAccept(r, m)
  \/ RetryAccept(r, m)
  \/ PanicAccept(r, m)
  \/ Accepted(r, m)
-------------------------------------------------------------------------------
\* recover: r, leader or not, prepares instance Head(toRecover[r]) on its own.
Recover(r) ==
  LET i    == Head(toRecover[r])
      b    == BallotFor(r, maxRecvBallot[r])
      book == [clientProposals |-> Nil, prepareOKs |-> 0, acceptOKs |-> 0, nacks |-> 0,
               ballot |-> -1, cmds |-> Nil, lastTriedBallot |-> b]
  IN  /\ ~dead[r]
      /\ toRecover[r] # <<>>
      /\ b <= MaxBallot
      /\ toRecover' = [toRecover EXCEPT ![r] = Tail(@)]
      /\ SetInstance(r, i, Found(r, i))
      /\ lb' = [lb EXCEPT ![r][i] =
           IF @ = NoLB THEN book ELSE [@ EXCEPT !.lastTriedBallot = b]]
      /\ Sends(Prepares(r, i, b))
      /\ UNCHANGED <<leaderVars, ballotVars, log, replied, timeouts, lifeVars, crtInstance>>

\* Mutant: executedUpTo lags behind.
NextToExecute_Behind(r) == MaxOf(Len(log[r]) - 1, 0)

\* The next instance of the executor of r, and whether it can be executed.
NextToExecute(r) == Len(log[r])
IsExecutable(r) ==
  LET x == instanceSpace[r][NextToExecute(r)]
  IN  x # NoInstance /\ x.cmds # Nil /\ x.status = "COMMITTED"

\* executeCommands runs the next instance, and answers the clients r was proposing
\* for in that instance: one answer per executed command.
Execute(r) ==
  LET i    == NextToExecute(r)
      cmds == instanceSpace[r][i].cmds
      book == lb[r][i]
  IN  /\ ~dead[r]
      /\ i <= crtInstance[r]
      /\ IsExecutable(r)
      /\ log' = [log EXCEPT ![r] = Append(@, cmds)]
      /\ IF ~HasProposals(r, i)
         THEN UNCHANGED replied
         ELSE \E answered \in SUBSET book.clientProposals :
                /\ Cardinality(answered) = Cardinality(cmds)
                /\ replied' = replied \cup answered
      /\ UNCHANGED <<leaderVars, ballotVars, toRecover, timeouts, lifeVars,
                     instanceSpace, lb, crtInstance, network>>

\* The same, when the instance holds more commands than r was proposing: the answer
\* to the first one too many is out of range, and the process dies.
PanicExecute(r) ==
  LET i    == NextToExecute(r)
      cmds == instanceSpace[r][i].cmds
      book == lb[r][i]
  IN  /\ ~dead[r]
      /\ i <= crtInstance[r]
      /\ IsExecutable(r)
      /\ HasProposals(r, i)
      /\ Cardinality(cmds) > Cardinality(book.clientProposals)
      /\ replied' = replied \cup book.clientProposals
      /\ dead' = [dead EXCEPT ![r] = TRUE]
      /\ panicked' = [panicked EXCEPT ![r] = TRUE]
      /\ UNCHANGED <<leaderVars, ballotVars, log, toRecover, timeouts,
                     instanceSpace, lb, crtInstance, network>>

\* The next instance of r has not become executable within the grace period: the
\* executor asks for the recovery of every instance from there on.
GracePeriodExpires(r) ==
  LET i == NextToExecute(r)
  IN  /\ ~dead[r]
      /\ i <= crtInstance[r]
      /\ ~IsExecutable(r)
      /\ timeouts[r] < MaxTimeouts
      /\ timeouts' = [timeouts EXCEPT ![r] = @ + 1]
      /\ toRecover' = [toRecover EXCEPT ![r] =
           @ \o [k \in 1 .. crtInstance[r] - i + 1 |-> i + k - 1]]
      /\ UNCHANGED <<leaderVars, ballotVars, log, replied, lifeVars,
                     instanceSpace, lb, crtInstance, network>>

\* The master calls BeTheLeader on r.
BeTheLeader(r) ==
  /\ ~dead[r]
  /\ r \in Candidates
  /\ ~isLeader[r]
  /\ isLeader' = [isLeader EXCEPT ![r] = TRUE]
  /\ UNCHANGED <<proposeChan, refused, smallestDefaultBallot, ballotVars, execVars, lifeVars,
                 instanceSpace, lb, crtInstance, network>>

\* The process of r stops for good.
Stop(r) ==
  /\ r \in Mortal
  /\ ~dead[r]
  /\ dead' = [dead EXCEPT ![r] = TRUE]
  /\ UNCHANGED <<leaderVars, ballotVars, execVars, panicked, instanceSpace, lb,
                 crtInstance, network>>
-------------------------------------------------------------------------------
HandleMessage(r, m) ==
  \/ HandlePrepareCommitted(r, m)
  \/ HandlePrepare(r, m)
  \/ HandleAccept(r, m)
  \/ HandleCommit(r, m)
  \/ HandleCommitShort(r, m)
  \/ HandlePrepareReply(r, m)
  \/ HandleAcceptReply(r, m)

\* One turn of the run loop of r, apart from the recoveries.
RunLoop(r) ==
  \/ \E c \in proposeChan[r] : RefusePropose(r, c)
  \/ \E batch \in SUBSET proposeChan[r] : HandlePropose(r, batch)
  \/ \E m \in DOMAIN network : HandleMessage(r, m)

Next == \E r \in Replicas :
          \/ RunLoop(r)
          \/ Recover(r)
          \/ Execute(r)
          \/ PanicExecute(r)
          \/ GracePeriodExpires(r)
          \/ BeTheLeader(r)
          \/ Stop(r)

Spec == Init /\ [][Next]_vars
-------------------------------------------------------------------------------
\* Two replicas that hold a command slice for an instance they have both committed
\* hold the same: handleCommit, handleCommitShort and handleAcceptReply commit at
\* each replica what its own instance holds at that time.
Agreement ==
  \A r, s \in Replicas, i \in Instances :
    (Committed(r, i) /\ Committed(s, i)) =>
      LET c == instanceSpace[r][i].cmds
          d == instanceSpace[s][i].cmds
      IN  c = d \/ Nil \in {c, d}

\* A replica that has accepted a batch for an instance.
Holds(r, i, cmds) ==
  /\ instanceSpace[r][i] # NoInstance
  /\ instanceSpace[r][i].cmds = cmds
  /\ instanceSpace[r][i].status \in {"ACCEPTED", "COMMITTED"}

\* What a replica has executed is held by a write quorum, so that F failures
\* cannot lose it: handleAcceptReply counts replies (lines 646-647).
ExecutedIsHeld ==
  \A r \in Replicas : \A k \in 1 .. Len(log[r]) :
    Cardinality({q \in Replicas : Holds(q, k - 1, log[r][k])}) >= WriteQuorumSize

\* The batches accepted, or about to be, for instance i at ballot b.
BatchesAt(i, b) ==
  {m.cmds : m \in {n \in DOMAIN network : n.type = "Accept" /\ n.inst = i /\ n.bal = b}}
  \cup {instanceSpace[r][i].cmds :
          r \in {q \in Replicas : /\ instanceSpace[q][i] # NoInstance
                                  /\ instanceSpace[q][i].bal = b
                                  /\ instanceSpace[q][i].status = "ACCEPTED"}}

\* A ballot of an instance carries one batch: handlePrepareReply sends the Accept
\* of a ballot again at each late reply, and recover reuses the ballot.
OneBatchPerBallot ==
  \A i \in Instances, b \in 0 .. MaxBallot : \A c, d \in BatchesAt(i, b) : c = d

\* A client that was answered had its command executed: executeCommands answers by
\* position, from the proposals of the instance (lines 698-705).
AnsweredIsExecuted ==
  \A c \in replied : \E r \in Replicas : \E k \in 1 .. Len(log[r]) : c \in log[r][k]

\* A command is executed at most once ("FIXME idempotence", line 693; line 503 puts
\* displaced commands back in the channel).
ExecutedOnce ==
  \A r \in Replicas : \A j, k \in 1 .. Len(log[r]) :
    log[r][j] \cap log[r][k] \cap Commands # {} => j = k

\* Replica r uses only the ballots congruent to r modulo N, so that no two replicas
\* ever propose at the same ballot (makeBallot).
BallotsOwned ==
  \A m \in DOMAIN network : m.type \in {"Prepare", "Accept"} => m.bal % N = m.leader

\* The places where r keeps command c of a client: its channel, or the proposals of an
\* instance.
Places(r, c) ==
  (IF c \in proposeChan[r] THEN {-1} ELSE {})
  \cup {i \in Instances : HasProposals(r, i) /\ c \in lb[r][i].clientProposals}

\* A command a client has sent is in one place, and only in one, until it is refused:
\* handleCommit moves displaced commands back to the channel (lines 503-508) and
\* must neither lose one nor leave it to be proposed in two instances.
NeitherLostNorDoubled ==
  \A r \in Replicas, c \in Commands :
    Cardinality(Places(r, c)) =
      IF c \in ClientCommands[r] /\ c \notin refused THEN 1 ELSE 0
-------------------------------------------------------------------------------
\* Under one leader Paxos fills one log of batches: a replica learns an instance when
\* it executes it.
Executed == [r \in Replicas |-> {<<k - 1, log[r][k]>> : k \in 1 .. Len(log[r])}]
Abstract == INSTANCE Consensus WITH Slots <- Instances, learned <- Executed,
                                    Commands <- (SUBSET Commands) \ {{}}
ImplementsConsensus == Abstract!Spec
-------------------------------------------------------------------------------
(***************************************************************************)
(* Inductive invariants: what the properties above rest on.                *)
(***************************************************************************)

\* m finds the bookkeeping it is counted in, or asks for an answer that will.
Answerable(m) ==
  /\ m.type \in {"Prepare", "Accept"} => lb[m.leader][m.inst] # NoLB
  /\ m.type \in {"PrepareReply", "AcceptReply"} => lb[m.to][m.inst] # NoLB

\* Whoever is answered still has the bookkeeping of the instance, which has been created
\* and learned of: no handler follows a nil pointer.
BookInv ==
  /\ \A m \in DOMAIN network : Answerable(m)
  /\ \A r \in Replicas, i \in Instances :
       /\ lb[r][i] # NoLB => instanceSpace[r][i] # NoInstance
       /\ instanceSpace[r][i] # NoInstance => i <= crtInstance[r]
  /\ \A r \in Replicas : \A k \in 1 .. Len(toRecover[r]) : toRecover[r][k] <= crtInstance[r]

\* A replica only tries, and only asks for, ballots of its own.
OwnerInv ==
  /\ BallotsOwned
  /\ \A r \in Replicas, i \in Instances : lb[r][i] # NoLB => lb[r][i].lastTriedBallot % N = r

\* A command is not kept in two places.
PlacedOnce ==
  \A r \in Replicas, c \in Commands : \A p, q \in Places(r, c) : p = q

\* The commands r keeps are those its clients have sent, until it has refused them.
PlacesInv ==
  /\ PlacedOnce
  /\ \A r \in Replicas, c \in Commands :
       Places(r, c) # {} <=> c \in ClientCommands[r] /\ c \notin refused

\* A client sends a command to one replica only, so that no other can refuse it.
SentToOne ==
  \A r, s \in Replicas : r # s => ClientCommands[r] \cap ClientCommands[s] = {}

\* Only l leads, nobody tries to recover, and at most one of the replicas may fail.
OneLeader(l) ==
  /\ l \in Replicas
  /\ F <= 1
  /\ InitialLeaders \subseteq {l}
  /\ Candidates = {}
  /\ MaxTimeouts = 0

\* The batch l proposes in instance i, and whether l has proposed it.
Batch(l, i) == lb[l][i].clientProposals
Proposed(l, i) ==
  instanceSpace[l][i] # NoInstance /\ instanceSpace[l][i].status \in {"ACCEPTED", "COMMITTED"}

\* Under one leader there is one ballot, nobody recovers, and only l keeps books.
OneBallotInv(l) ==
  \A r \in Replicas :
    /\ toRecover[r] = <<>>
    /\ isLeader[r] => r = l
    /\ {maxRecvBallot[r], smallestDefaultBallot[r]} \subseteq {-1, l}
    /\ \A q \in Replicas : defaultBallot[r][q] \in {-1, l}
    /\ \A i \in Instances :
         /\ instanceSpace[r][i] # NoInstance =>
              {instanceSpace[r][i].bal, instanceSpace[r][i].vbal} \subseteq {-1, l}
         /\ lb[r][i] # NoLB => r = l

\* An instance of l is empty or holds the batch of l.
ProposalInv(l) ==
  \A i \in Instances :
    /\ instanceSpace[l][i] # NoInstance => lb[l][i] # NoLB
    /\ lb[l][i] # NoLB =>
         /\ lb[l][i].lastTriedBallot = l
         /\ Batch(l, i) \in (SUBSET Commands) \ {{}}
         /\ ~Proposed(l, i) => instanceSpace[l][i].cmds = Nil
         /\ Proposed(l, i)  => instanceSpace[l][i].bal = l /\ instanceSpace[l][i].cmds = Batch(l, i)

\* The messages go from l to the others and back, at the ballot of l.
Expected(l, m) ==
  /\ lb[l][m.inst] # NoLB
  /\ m.type # "Commit" => m.bal = l
  /\ m.type \in {"Prepare", "Accept", "Commit"} => m.leader = l
  /\ m.type \in {"Prepare", "Accept", "CommitShort"} <=> m.to # l
  /\ m.type = "PrepareReply" => m.acceptor # l /\ {m.vbal, m.defaultBal} \subseteq {-1, l}
  /\ m.type \in {"Accept", "AcceptReply", "CommitShort", "Commit"} => Proposed(l, m.inst)
  /\ m.type = "Accept" => m.cmds = Batch(l, m.inst)
MessageInv(l) == \A m \in DOMAIN network : Expected(l, m)

\* Another replica holds the batch of l, or commits an instance it knows nothing of.
Follows(l, q, i) ==
  LET x == instanceSpace[q][i]
  IN  x # NoInstance =>
        /\ Proposed(q, i) => /\ lb[l][i] # NoLB
                             /\ Proposed(l, i)
                             /\ x.bal = l
                             /\ x.cmds = Batch(l, i) \/ (x.cmds = Nil /\ Committed(q, i))
        /\ ~Proposed(q, i) => x.cmds = Nil
AcceptorInv(l) == \A q \in Replicas \ {l}, i \in Instances : Follows(l, q, i)

\* m asks a replica for its promise for an instance, or carries it.
IsPrepare(m) == m.type \in {"Prepare", "PrepareReply"}
Asked(m) == IF m.type = "Prepare" THEN m.to ELSE m.acceptor

\* A replica is asked once for its promise for an instance.
AskedOnceInv ==
  \A m \in DOMAIN network : IsPrepare(m) =>
    /\ network[m] = 1
    /\ \A n \in DOMAIN network : IsPrepare(n) /\ n.inst = m.inst /\ Asked(n) = Asked(m) => n = m

\* The replicas whose promise for instance i has not reached the leader.
Waiting(i) == {q \in Replicas : \E m \in DOMAIN network :
                                  IsPrepare(m) /\ m.inst = i /\ Asked(m) = q}

\* Once the leader has enough promises at most F are missing.
CountInv(l) ==
  \A i \in Instances : lb[l][i] # NoLB =>
    /\ Cardinality(Waiting(i)) + lb[l][i].prepareOKs <= N - 1
    /\ Proposed(l, i) => Cardinality(Waiting(i)) <= F

\* The promise that comes after the commit and undoes it is the last one: who has learned
\* of the commit cannot tell the leader any more.
LateInv(l) ==
  /\ \A m \in DOMAIN network :
       /\ m.type = "Commit" => Committed(l, m.inst) /\ Waiting(m.inst) = {}
       /\ m.type = "CommitShort" => Committed(l, m.inst) \/ Waiting(m.inst) = {}
  /\ \A q \in Replicas \ {l}, i \in Instances :
       Committed(q, i) => Committed(l, i) \/ Waiting(i) = {}

\* Another replica than l holds the batch of l for instance i.
Backed(l, i) == \E q \in Replicas \ {l} : Holds(q, i, Batch(l, i))

\* l has counted an answer, or has one to count, only if another replica holds its batch.
BackedInv(l) ==
  /\ \A m \in DOMAIN network : m.type \in {"AcceptReply", "CommitShort"} => Backed(l, m.inst)
  /\ \A i \in Instances :
       /\ lb[l][i] # NoLB /\ lb[l][i].acceptOKs > 0 => Backed(l, i)
       /\ \A r \in Replicas : Committed(r, i) => Backed(l, i)

\* What is executed is the batch of l, proposed and held by another replica.
LogInv(l) ==
  \A r \in Replicas : \A k \in 1 .. Len(log[r]) :
    /\ k - 1 \in Instances
    /\ lb[l][k - 1] # NoLB
    /\ log[r][k] = Batch(l, k - 1)
    /\ Proposed(l, k - 1)
    /\ Backed(l, k - 1)

StableInv(l) ==
  /\ OneBallotInv(l)
  /\ ProposalInv(l)
  /\ MessageInv(l)
  /\ AcceptorInv(l)
  /\ AskedOnceInv
  /\ CountInv(l)
  /\ LateInv(l)
  /\ BackedInv(l)
  /\ LogInv(l)
  /\ PlacedOnce
  /\ AnsweredIsExecuted
===============================================================================
