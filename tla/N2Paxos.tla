------------------------------- MODULE N2Paxos -------------------------------
(***************************************************************************)
(* n2paxos/n2paxos.go: the all-to-all Paxos under one fixed leader.  Every *)
(* client sends its command to every replica.  The leader gives it a slot  *)
(* and broadcasts a 2A; every replica answers with a 2B to everyone, and   *)
(* commits a slot on a majority of 2Bs.  A replica executes a slot when it *)
(* knows its command, has the client's proposal, and has delivered the     *)
(* slot before it.                                                         *)
(*                                                                         *)
(* A run loop hands each message to the goroutine of its slot (handleDesc) *)
(* and those goroutines run concurrently.  A goroutine that delivers a     *)
(* slot marks it (delivered.Set) and only then executes its command: the   *)
(* two are separate steps, and executing[r] holds the slots in between.    *)
(* What is left undone for want of the payload (afterPayload) is done by   *)
(* the next call of deliver, which repeats it: it is not kept here.  A     *)
(* message that finds its slot delivered is dropped by getCmdDesc.         *)
(*                                                                         *)
(* The ballot never changes and nothing recovers a stopped replica.        *)
(***************************************************************************)
EXTENDS Integers, FiniteSets, Sequences

CONSTANTS Replicas,   \* the replicas
          Leader,     \* the replica whose ballot the others follow
          Commands,   \* the commands of the clients, each sent once to everyone
          NoCommand,  \* the command of a slot whose 2A has not been handled
          Proxy,      \* Proxy[c]: the replica that answers the client of c
          Mortal,     \* the replicas that may stop
          LastSlot    \* bound: the last slot the leader gives

ASSUME ReplicasAssumption == IsFiniteSet(Replicas) /\ Leader \in Replicas /\ Mortal \subseteq Replicas
ASSUME CommandAssumption  == NoCommand \notin Commands /\ Proxy \in [Commands -> Replicas]
ASSUME BoundAssumption    == LastSlot \in Nat

Slots    == 0 .. LastSlot
Majority == Cardinality(Replicas) \div 2 + 1

VARIABLES
  lastCmdSlot,  \* the next slot of the leader
  proposes,     \* proposes[r]: the commands whose proposal r has received
  pending,      \* the proposals on their way to their slot's goroutine at the leader
  twoAs,        \* the <<slot, command>> pairs of the 2As broadcast so far
  twoBs,        \* the <<replica, slot>> pairs of the 2Bs broadcast so far
  cmd,          \* cmd[r][s]: the command of slot s at r
  votes,        \* votes[r][s]: the replicas whose 2B for s is in r's MsgSet
  deliverChan,  \* deliverChan[r][s]: the "deliver" messages on their way to s
  delivered,    \* delivered[r]: the slots r has marked as delivered
  executing,    \* executing[r]: those of them whose command has not run yet
  log,          \* log[r]: the slots r has executed, in the order it did
  answered,     \* the commands whose client has been answered
  dead          \* dead[r]: the process of r has stopped

msgVars  == <<twoAs, twoBs>>
execVars == <<delivered, executing>>
vars == <<lastCmdSlot, proposes, pending, msgVars, cmd, votes, deliverChan,
          execVars, log, answered, dead>>

TypeOK ==
  /\ lastCmdSlot \in 0 .. LastSlot + 1
  /\ proposes \in [Replicas -> SUBSET Commands]
  /\ pending \subseteq Slots \X Commands
  /\ twoAs \subseteq Slots \X Commands
  /\ twoBs \subseteq Replicas \X Slots
  /\ cmd \in [Replicas -> [Slots -> Commands \cup {NoCommand}]]
  /\ votes \in [Replicas -> [Slots -> SUBSET Replicas]]
  /\ deliverChan \in [Replicas -> [Slots -> Nat]]
  /\ delivered \in [Replicas -> SUBSET Slots]
  /\ executing \in [Replicas -> SUBSET Slots]
  /\ log \in [Replicas -> Seq(Slots)]
  /\ answered \subseteq Commands
  /\ dead \in [Replicas -> BOOLEAN]

Init ==
  /\ lastCmdSlot = 0
  /\ proposes = [r \in Replicas |-> {}]
  /\ pending = {}
  /\ twoAs = {}
  /\ twoBs = {}
  /\ cmd = [r \in Replicas |-> [s \in Slots |-> NoCommand]]
  /\ votes = [r \in Replicas |-> [s \in Slots |-> {}]]
  /\ deliverChan = [r \in Replicas |-> [s \in Slots |-> 0]]
  /\ delivered = [r \in Replicas |-> {}]
  /\ executing = [r \in Replicas |-> {}]
  /\ log = [r \in Replicas |-> <<>>]
  /\ answered = {}
  /\ dead = [r \in Replicas |-> FALSE]
-------------------------------------------------------------------------------
\* The slot of c at r (r.slots), as a set of at most one.
SlotsOf(r, c) == {s \in Slots : cmd[r][s] = c}

\* The goroutine of slot s is sent "deliver".
WakesUp(r, S) ==
  deliverChan' = [deliverChan EXCEPT ![r] =
                    [s \in Slots |-> IF s \in S THEN @[s] + 1 ELSE @[s]]]

\* The phase of slot s at r is COMMIT once its MsgSet is full.
Commits(r, s) == Cardinality(votes'[r][s]) >= Majority

\* Mutant: a delivered slot is delivered again.
CanDeliver_Again(r, s) ==
  /\ cmd'[r][s] # NoCommand
  /\ Commits(r, s) \/ r = Leader
  /\ s > 0 => s - 1 \in delivered[r]
  /\ cmd'[r][s] \in proposes[r]

\* deliver goes through: the leader does not wait for the commit.
CanDeliver(r, s) ==
  /\ cmd'[r][s] # NoCommand
  /\ s \notin delivered[r]
  /\ Commits(r, s) \/ r = Leader
  /\ s > 0 => s - 1 \in delivered[r]
  /\ cmd'[r][s] \in proposes[r]

\* r tries to deliver slot s, if it has a reason to.
TriesToDeliver(r, s, reason) ==
  LET S == {t \in {s} : reason /\ CanDeliver(r, t)}
  IN  /\ delivered' = [delivered EXCEPT ![r] = @ \cup S]
      /\ executing' = [executing EXCEPT ![r] = @ \cup S]
-------------------------------------------------------------------------------
\* Mutant: the slot counter stays.
LeaderPropose_SameSlot(c) ==
  /\ ~dead[Leader]
  /\ c \notin proposes[Leader]
  /\ lastCmdSlot \in Slots
  /\ proposes' = [proposes EXCEPT ![Leader] = @ \cup {c}]
  /\ pending' = pending \cup {<<lastCmdSlot, c>>}
  /\ UNCHANGED <<lastCmdSlot, msgVars, cmd, votes, deliverChan, execVars, log, answered, dead>>

\* The leader receives a client's command and gives it the next slot.
LeaderPropose(c) ==
  /\ ~dead[Leader]
  /\ c \notin proposes[Leader]
  /\ lastCmdSlot \in Slots
  /\ proposes' = [proposes EXCEPT ![Leader] = @ \cup {c}]
  /\ pending' = pending \cup {<<lastCmdSlot, c>>}
  /\ lastCmdSlot' = lastCmdSlot + 1
  /\ UNCHANGED <<msgVars, cmd, votes, deliverChan, execVars, log, answered, dead>>

\* Mutant: the proposal does not wake up the slot that waits for it.
FollowerPropose_Silent(r, c) ==
  /\ ~dead[r]
  /\ r # Leader
  /\ c \notin proposes[r]
  /\ proposes' = [proposes EXCEPT ![r] = @ \cup {c}]
  /\ UNCHANGED <<lastCmdSlot, pending, msgVars, cmd, votes, deliverChan, execVars, log,
                 answered, dead>>

\* Another replica receives it, and wakes up the slot that waits for it.
FollowerPropose(r, c) ==
  /\ ~dead[r]
  /\ r # Leader
  /\ c \notin proposes[r]
  /\ proposes' = [proposes EXCEPT ![r] = @ \cup {c}]
  /\ WakesUp(r, SlotsOf(r, c))
  /\ UNCHANGED <<lastCmdSlot, pending, msgVars, cmd, votes, execVars, log, answered, dead>>

\* Mutant: the fields of the 2B are swapped.
Takes_Swapped(r, s, c) ==
  /\ cmd' = [cmd EXCEPT ![r][s] = c]
  /\ votes' = [votes EXCEPT ![r][s] = @ \cup {r}]
  /\ twoBs' = twoBs \cup {<<s, r>>}
  /\ TriesToDeliver(r, s, Commits(r, s))

\* handle2A: r takes c for slot s and votes for it, first of all to itself.
Takes(r, s, c) ==
  /\ cmd' = [cmd EXCEPT ![r][s] = c]
  /\ votes' = [votes EXCEPT ![r][s] = @ \cup {r}]
  /\ twoBs' = twoBs \cup {<<r, s>>}
  /\ TriesToDeliver(r, s, Commits(r, s))

\* handlePropose, in the goroutine of slot s.
HandlePropose(s, c) ==
  /\ ~dead[Leader]
  /\ <<s, c>> \in pending
  /\ pending' = pending \ {<<s, c>>}
  /\ twoAs' = twoAs \cup {<<s, c>>}
  /\ Takes(Leader, s, c)
  /\ UNCHANGED <<lastCmdSlot, proposes, deliverChan, log, answered, dead>>

\* handle2A of the leader's message.
Handle2A(r, s, c) ==
  /\ ~dead[r]
  /\ <<s, c>> \in twoAs
  /\ cmd[r][s] = NoCommand
  /\ Takes(r, s, c)
  /\ UNCHANGED <<lastCmdSlot, proposes, pending, twoAs, deliverChan, log, answered, dead>>

\* handle2B of q's vote: from a majority on, every 2B tries to deliver.
Handle2B(r, q, s) ==
  /\ ~dead[r]
  /\ <<q, s>> \in twoBs
  /\ q \notin votes[r][s]
  /\ s \notin delivered[r]
  /\ votes' = [votes EXCEPT ![r][s] = @ \cup {q}]
  /\ UNCHANGED cmd
  /\ TriesToDeliver(r, s, Commits(r, s))
  /\ UNCHANGED <<lastCmdSlot, proposes, pending, msgVars, deliverChan, log, answered, dead>>

\* A "deliver" message reaches the goroutine of slot s.
HandleDeliver(r, s) ==
  /\ ~dead[r]
  /\ deliverChan[r][s] > 0
  /\ deliverChan' = [deliverChan EXCEPT ![r][s] = @ - 1]
  /\ UNCHANGED <<cmd, votes>>
  /\ TriesToDeliver(r, s, TRUE)
  /\ UNCHANGED <<lastCmdSlot, proposes, pending, msgVars, log, answered, dead>>

\* The goroutine of a delivered slot executes it, answers the client if r is its
\* proxy, and wakes up the next slot.
Execute(r, s) ==
  /\ ~dead[r]
  /\ s \in executing[r]
  /\ executing' = [executing EXCEPT ![r] = @ \ {s}]
  /\ log' = [log EXCEPT ![r] = Append(@, s)]
  /\ answered' = answered \cup {c \in Commands : c = cmd[r][s] /\ Proxy[c] = r}
  /\ WakesUp(r, {s + 1})
  /\ UNCHANGED <<lastCmdSlot, proposes, pending, msgVars, cmd, votes, delivered, dead>>

\* The process of r stops for good.
Stop(r) ==
  /\ r \in Mortal
  /\ ~dead[r]
  /\ dead' = [dead EXCEPT ![r] = TRUE]
  /\ UNCHANGED <<lastCmdSlot, proposes, pending, msgVars, cmd, votes, deliverChan,
                 execVars, log, answered>>

Step(r) ==
  \/ \E c \in Commands : FollowerPropose(r, c)
  \/ \E c \in Commands : r = Leader /\ LeaderPropose(c)
  \/ \E s \in Slots, c \in Commands : r = Leader /\ HandlePropose(s, c)
  \/ \E s \in Slots, c \in Commands : Handle2A(r, s, c)
  \/ \E s \in Slots, q \in Replicas : Handle2B(r, q, s)
  \/ \E s \in Slots : HandleDeliver(r, s)
  \/ \E s \in Slots : Execute(r, s)

Next == \E r \in Replicas : Step(r) \/ Stop(r)

Spec == Init /\ [][Next]_vars

\* The steps of r that do not wait for a message of a stopped replica.
FairStep(r) ==
  \/ \E c \in Commands : FollowerPropose(r, c)
  \/ \E c \in Commands : r = Leader /\ LeaderPropose(c)
  \/ \E s \in Slots, c \in Commands : r = Leader /\ HandlePropose(s, c)
  \/ \E s \in Slots, c \in Commands : ~dead[Leader] /\ Handle2A(r, s, c)
  \/ \E s \in Slots, q \in Replicas : ~dead[q] /\ Handle2B(r, q, s)
  \/ \E s \in Slots : HandleDeliver(r, s)
  \/ \E s \in Slots : Execute(r, s)

\* The goroutines of a live replica keep running, clients reach every replica and
\* links between live replicas lose nothing.
FairSpec == Spec /\ \A r \in Replicas : WF_vars(FairStep(r))
-------------------------------------------------------------------------------
\* The replicas that hold for slot s the command r holds.
Holders(r, s) == {q \in Replicas : cmd[q][s] = cmd[r][s]}

\* What a replica other than the leader delivers is held by a majority, whatever the
\* order of the 2Bs, the 2A and the proposal (deliver, line 267).
DeliveredIsHeld ==
  \A r \in Replicas \ {Leader} : \A s \in delivered[r] :
    Cardinality(Holders(r, s)) >= Majority

\* No command is executed twice by a replica: deliver is attempted at each 2B from a
\* majority on and at each "deliver" message, and a goroutine may be between
\* delivered.Set and Execute meanwhile (lines 263-285).
ExecutedOnce ==
  \A r \in Replicas : \A j, k \in 1 .. Len(log[r]) :
    cmd[r][log[r][j]] = cmd[r][log[r][k]] => j = k

\* Two replicas execute the slots in the same order: deliver of a slot requires that
\* the one before it is delivered (line 271).  Not so: that slot is marked as delivered
\* before it is executed (lines 283-285), by a goroutine of its own.
ExecutedInOrder ==
  \A r, q \in Replicas : \A k \in 1 .. Len(log[r]) :
    k <= Len(log[q]) => log[r][k] = log[q][k]

\* If the leader and a majority with it never stop, each of them executes every
\* command, and the client of each is answered by its proxy: no order of arrival of the
\* 2A, the 2Bs, the proposal and the delivery of the slot before loses the wake-up of
\* deliver.
EveryCommandExecutes ==
  \A live \in SUBSET Replicas :
    Leader \in live /\ Cardinality(live) >= Majority /\ [](\A r \in live : ~dead[r])
      => \A r \in live, c \in Commands :
           <>(/\ \E k \in 1 .. Len(log[r]) : cmd[r][log[r][k]] = c
              /\ Proxy[c] = r => c \in answered)
-------------------------------------------------------------------------------
\* Why there is one log.  The leader gives a slot to one command and a command to
\* one slot.
SlotsInv ==
  \A p, q \in pending \cup twoAs :
    /\ p[1] < lastCmdSlot
    /\ p[2] \in proposes[Leader]
    /\ p[1] = q[1] \/ p[2] = q[2] => p = q

\* What a replica knows comes from the leader's 2A, and a vote of a replica that knows.
VotesInv ==
  \A r \in Replicas, s \in Slots :
    /\ cmd[r][s] # NoCommand => <<s, cmd[r][s]>> \in twoAs
    /\ \A q \in votes[r][s] : <<q, s>> \in twoBs
    /\ <<r, s>> \in twoBs => cmd[r][s] # NoCommand

\* A delivered slot has a command, and a majority of votes at a follower.
DeliveredInv ==
  \A r \in Replicas : \A s \in delivered[r] :
    /\ cmd[r][s] # NoCommand
    /\ r # Leader => Cardinality(votes[r][s]) >= Majority

\* A slot is delivered first, then executing, then in the log, once.
LogInv ==
  \A r \in Replicas :
    /\ executing[r] \subseteq delivered[r]
    /\ \A k \in 1 .. Len(log[r]) : log[r][k] \in delivered[r] \ executing[r]
    /\ \A j, k \in 1 .. Len(log[r]) : log[r][j] = log[r][k] => j = k

\* The inductive invariant.
LeaderInv == SlotsInv /\ VotesInv /\ DeliveredInv /\ LogInv
-------------------------------------------------------------------------------
\* N2Paxos fills one log: a replica learns a slot when it delivers it.
Learned == [r \in Replicas |-> {<<s, cmd[r][s]>> : s \in delivered[r]}]
Abstract == INSTANCE Consensus WITH learned <- Learned
ImplementsConsensus == Abstract!Spec
===============================================================================
