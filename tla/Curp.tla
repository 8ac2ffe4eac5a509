--------------------------------- MODULE Curp ---------------------------------
(***************************************************************************)
(* curp/curp.go as run.go starts it: optimized (every replica commits on   *)
(* its own) and with contactClients off.  Every client sends its command   *)
(* to every replica.  The leader gives it a slot, executes it at once and  *)
(* tells the client its value if the slot it depends on is committed; the  *)
(* other replicas are witnesses and tell the client whether they know of   *)
(* a conflicting command that is not synced.  Slots are then accepted and  *)
(* committed as in N2Paxos, and the proxy of a command sends a sync reply. *)
(*                                                                         *)
(* Commands conflict when they have the same key.  A slot is handled by a  *)
(* goroutine of its own, except at the leader, where the run loop itself   *)
(* handles a slot whose descriptor it creates for a proposal.              *)
(*                                                                         *)
(* What waits for the payload (afterPayload) needs no state: it is what    *)
(* Calls repeats at the next call.  A message that finds its slot          *)
(* delivered is dropped by getCmdDesc.  Bound: fewer than MaxDescRoutines  *)
(* slots are open at a time.  The ballot never changes.                    *)
(***************************************************************************)
EXTENDS Integers, FiniteSets, Sequences

CONSTANTS Replicas,   \* the replicas
          Leader,     \* the replica whose ballot the others follow
          Commands,   \* the commands of the clients, each sent once to everyone
          Key,        \* Key[c]: the key of command c
          NoCommand,  \* no command
          Proxy,      \* Proxy[c]: the replica that sends the sync reply of c
          Correct,    \* the replicas that never stop
          LastSlot    \* bound: the last slot the leader gives

ASSUME ReplicasAssumption ==
  /\ IsFiniteSet(Replicas) /\ Leader \in Replicas /\ Correct \subseteq Replicas
  /\ Cardinality(Replicas) > 1
ASSUME CommandAssumption ==
  NoCommand \notin Commands /\ IsFiniteSet(Commands) /\ Proxy \in [Commands -> Replicas]
ASSUME KeyAssumption   == DOMAIN Key = Commands
ASSUME BoundAssumption == LastSlot \in Nat

Slots     == 0 .. LastSlot
NoSlot    == -1
Keys      == {Key[c] : c \in Commands}
Witnesses == Replicas \ {Leader}

\* Mutant: half of the replicas.
Majority_Half == Cardinality(Replicas) \div 2

\* NewMajorityOf and NewThreeQuartersOf.
Majority      == Cardinality(Replicas) \div 2 + 1
ThreeQuarters == (3 * Cardinality(Replicas)) \div 4 + 1

VARIABLES
  lastCmdSlot,  \* the next slot of the leader
  lastOn,       \* the leader's unsynced: the last slot it gave to each key
  early,        \* the slots whose descriptor the leader created before their proposal
  pending,      \* the proposals on their way to the goroutine of their slot
  dep,          \* dep[s]: the slot that slot s depends on, at the leader
  successor,    \* successor[s]: the slot the commit of s wakes up, at the leader
  proposes,     \* proposes[r]: the commands whose proposal r has stored
  recording,    \* recording[r]: the command r has stored and not answered yet
  unsynced,     \* unsynced[r][k]: witness r's count of unsynced commands on key k
  synced,       \* synced[r]: the commands witness r has synced
  accepts,      \* the <<slot, command>> pairs of the MAccepts broadcast so far
  acceptAcks,   \* the <<replica, slot>> pairs of the MAcceptAcks broadcast so far
  replies,      \* the commands whose client the leader has sent an MReply
  recordAcks,   \* the <<witness, command, ok>> of the MRecordAcks sent so far
  syncReplies,  \* the commands whose client has been sent an MSyncReply
  cmd,          \* cmd[r][s]: the command of slot s at r
  votes,        \* votes[r][s]: the replicas whose MAcceptAck for s is in r's MsgSet
  committed,    \* committed[r]: the slots of r in phase COMMIT
  deliverChan,  \* deliverChan[r][s]: the "deliver" messages on their way to s
  executed,     \* executed[r]: the slots r has executed
  delivered,    \* delivered[r]: the slots r is done with
  log           \* log[r]: the commands r has executed, in the order it did

leaderVars  == <<lastCmdSlot, lastOn, early, pending>>
depVars     == <<dep, successor>>
witnessVars == <<unsynced, synced>>
peerMsgs    == <<accepts, acceptAcks>>
clientMsgs  == <<replies, recordAcks, syncReplies>>
slotVars    == <<votes, committed, executed, delivered, log>>
vars == <<leaderVars, depVars, proposes, recording, witnessVars, peerMsgs,
          clientMsgs, cmd, slotVars, deliverChan>>

TypeOK ==
  /\ lastCmdSlot \in 0 .. LastSlot + 1
  /\ lastOn \in [Keys -> Slots \cup {NoSlot}]
  /\ early \subseteq Slots
  /\ pending \subseteq Slots \X Commands
  /\ dep \in [Slots -> Slots \cup {NoSlot}]
  /\ successor \in [Slots -> Slots \cup {NoSlot}]
  /\ proposes \in [Replicas -> SUBSET Commands]
  /\ recording \in [Replicas -> Commands \cup {NoCommand}]
  /\ unsynced \in [Replicas -> [Keys -> Nat]]
  /\ synced \in [Replicas -> SUBSET Commands]
  /\ accepts \subseteq Slots \X Commands
  /\ acceptAcks \subseteq Replicas \X Slots
  /\ replies \subseteq Commands
  /\ recordAcks \subseteq Replicas \X Commands \X BOOLEAN
  /\ syncReplies \subseteq Commands
  /\ cmd \in [Replicas -> [Slots -> Commands \cup {NoCommand}]]
  /\ votes \in [Replicas -> [Slots -> SUBSET Replicas]]
  /\ committed \in [Replicas -> SUBSET Slots]
  /\ deliverChan \in [Replicas -> [Slots -> Nat]]
  /\ executed \in [Replicas -> SUBSET Slots]
  /\ delivered \in [Replicas -> SUBSET Slots]
  /\ log \in [Replicas -> Seq(Commands)]

Init ==
  /\ lastCmdSlot = 0
  /\ lastOn = [k \in Keys |-> NoSlot]
  /\ early = {} /\ pending = {}
  /\ dep = [s \in Slots |-> NoSlot]
  /\ successor = [s \in Slots |-> NoSlot]
  /\ proposes = [r \in Replicas |-> {}]
  /\ recording = [r \in Replicas |-> NoCommand]
  /\ unsynced = [r \in Replicas |-> [k \in Keys |-> 0]]
  /\ synced = [r \in Replicas |-> {}]
  /\ accepts = {} /\ acceptAcks = {}
  /\ replies = {} /\ recordAcks = {} /\ syncReplies = {}
  /\ cmd = [r \in Replicas |-> [s \in Slots |-> NoCommand]]
  /\ votes = [r \in Replicas |-> [s \in Slots |-> {}]]
  /\ committed = [r \in Replicas |-> {}]
  /\ deliverChan = [r \in Replicas |-> [s \in Slots |-> 0]]
  /\ executed = [r \in Replicas |-> {}]
  /\ delivered = [r \in Replicas |-> {}]
  /\ log = [r \in Replicas |-> <<>>]
-------------------------------------------------------------------------------
\* The slot of c at r (r.slots), as a set of at most one.
SlotsOf(r, c) == {s \in Slots : cmd[r][s] = c}

\* Mutant: off by one.
Ok_OffByOne(r, c) == unsynced[r][Key[c]] <= 1

\* ok: the witness knows of no unsynced command on the key of c.
Ok(r, c) == unsynced[r][Key[c]] = 0

\* sync of the commands C, at most one: the count of their key goes down, but not below 0.
Sync(r, C) ==
  /\ synced' = [synced EXCEPT ![r] = @ \cup C]
  /\ unsynced' = [unsynced EXCEPT ![r] = [k \in Keys |->
                    IF @[k] > 0 /\ \E c \in C \ synced[r] : Key[c] = k THEN @[k] - 1 ELSE @[k]]]

\* deliver gets past its early returns: only the leader does not wait for the commit.
CanDeliver(r, s) ==
  /\ s \notin delivered[r]
  /\ r = Leader \/ s \in committed'[r]
  /\ s > 0 => s - 1 \in executed[r]

\* What the leader executes depends on no slot that is not committed.
DependsOnCommitted(s) == dep'[s] = NoSlot \/ dep'[s] \in committed'[Leader]

\* deliver of slot s of r, if S = {s} and not {}: execute it, tell the client, be done
\* with it.
Deliver(r, s, S) ==
  LET done == S \cap committed'[r]
  IN  /\ executed' = [executed EXCEPT ![r] = @ \cup S]
      /\ log' = [log EXCEPT ![r] = IF S \subseteq executed[r] THEN @ ELSE Append(@, cmd'[r][s])]
      /\ delivered' = [delivered EXCEPT ![r] = @ \cup done]
      /\ replies' = replies \cup {cmd'[r][t] : t \in {u \in S \ done : DependsOnCommitted(u)}}
      /\ syncReplies' = syncReplies \cup {c \in {cmd'[r][t] : t \in done} : Proxy[c] = r}
      /\ Sync(r, {cmd'[r][t] : t \in {u \in S : r # Leader}})

\* Mutant: a commit wakes up its successor, an execution wakes up nobody.
WakesUp_NotNext(r, S, commits, taken) ==
  LET succ == {successor[s] : s \in {t \in commits : r = Leader}}
      Sum(X, s) == IF s \in X THEN 1 ELSE 0
  IN  deliverChan' = [deliverChan EXCEPT ![r] = [s \in Slots |->
                        @[s] + Sum(succ, s) - Sum(taken, s)]]

\* The "deliver" messages that S, just executed, and commits, just committed, send;
\* taken is the message being handled.
WakesUp(r, S, commits, taken) ==
  LET next == {s + 1 : s \in S \ executed[r]}
      succ == {successor[s] : s \in {t \in commits : r = Leader}}
      Sum(X, s) == IF s \in X THEN 1 ELSE 0
  IN  deliverChan' = [deliverChan EXCEPT ![r] = [s \in Slots |->
                        @[s] + Sum(next, s) + Sum(succ, s) - Sum(taken, s)]]

\* A message of the given kind reaches slot s of r, whose MsgSet now has the votes V.
\* Unless it is a vote that does not fill the MsgSet, it calls afterPayload: if the
\* command and its proposal are known, what was postponed is done now.  r accepts the
\* slot, commits it if it has a majority, and tries to deliver it.
Calls(r, s, V, kind) ==
  LET called  == kind = "ack" => Cardinality(V) >= Majority
      ready   == called /\ cmd'[r][s] \in proposes'[r]
      W       == IF ready THEN V \cup {r} ELSE V
      commits == {t \in {s} \ committed[r] : ready /\ Cardinality(W) >= Majority}
      tries   == ready /\ (commits # {} \/ kind \in {"propose", "deliver"})
  IN  /\ votes' = [votes EXCEPT ![r][s] = W]
      /\ acceptAcks' = acceptAcks \cup {<<r, t>> : t \in {u \in {s} : ready}}
      /\ committed' = [committed EXCEPT ![r] = @ \cup commits]
      /\ LET S == {t \in {s} : tries /\ CanDeliver(r, t)}
         IN  /\ Deliver(r, s, S)
             /\ WakesUp(r, S, commits, {t \in {s} : kind = "deliver"})
-------------------------------------------------------------------------------
\* Mutant: the slot counter stays.
GivesSlot_Same(c) ==
  /\ c \notin proposes[Leader]
  /\ lastCmdSlot \in Slots
  /\ proposes' = [proposes EXCEPT ![Leader] = @ \cup {c}]
  /\ lastOn' = [lastOn EXCEPT ![Key[c]] = lastCmdSlot]
  /\ UNCHANGED <<lastCmdSlot, early, recording, recordAcks>>

\* The leader receives c and gives it the next slot.
GivesSlot(c) ==
  /\ c \notin proposes[Leader]
  /\ lastCmdSlot \in Slots
  /\ proposes' = [proposes EXCEPT ![Leader] = @ \cup {c}]
  /\ lastCmdSlot' = lastCmdSlot + 1
  /\ lastOn' = [lastOn EXCEPT ![Key[c]] = lastCmdSlot]
  /\ UNCHANGED <<early, recording, recordAcks>>

\* handlePropose: slot s of the leader is given c, and depends on slot d.
TakesPropose(s, c, d) ==
  /\ cmd' = [cmd EXCEPT ![Leader][s] = c]
  /\ dep' = [dep EXCEPT ![s] = d]
  /\ successor' = [t \in Slots |-> IF t = d /\ t \notin delivered[Leader] THEN s ELSE successor[t]]
  /\ accepts' = accepts \cup {<<s, c>>}
  /\ Calls(Leader, s, votes[Leader][s], "propose")

\* The run loop creates the descriptor of the slot and handles the proposal itself.
LeaderPropose(c) ==
  /\ GivesSlot(c)
  /\ lastCmdSlot \notin early
  /\ TakesPropose(lastCmdSlot, c, lastOn[Key[c]])
  /\ UNCHANGED pending

\* The descriptor is there already: the proposal is sent to its goroutine.
LeaderSendsPropose(c) ==
  /\ GivesSlot(c)
  /\ lastCmdSlot \in early
  /\ pending' = pending \cup {<<lastCmdSlot, c>>}
  /\ UNCHANGED <<depVars, witnessVars, peerMsgs, replies, syncReplies, cmd,
                 slotVars, deliverChan>>

\* That goroutine handles it, with the dependency it was started with: none.
HandlePropose(s, c) ==
  /\ <<s, c>> \in pending
  /\ pending' = pending \ {<<s, c>>}
  /\ UNCHANGED <<lastCmdSlot, lastOn, early, proposes, recording, recordAcks>>
  /\ TakesPropose(s, c, NoSlot)

\* The run loop of a witness stores the proposal of c.
StorePropose(r, c) ==
  /\ r \in Witnesses
  /\ recording[r] = NoCommand
  /\ c \notin proposes[r]
  /\ proposes' = [proposes EXCEPT ![r] = @ \cup {c}]
  /\ recording' = [recording EXCEPT ![r] = c]
  /\ UNCHANGED <<leaderVars, depVars, witnessVars, peerMsgs, clientMsgs, cmd,
                 slotVars, deliverChan>>

\* Then it answers the client, counts c as unsynced and wakes up the slot of c.
AnswerPropose(r) ==
  LET c == recording[r]
  IN  /\ c # NoCommand
      /\ recording' = [recording EXCEPT ![r] = NoCommand]
      /\ recordAcks' = recordAcks \cup {<<r, c, Ok(r, c)>>}
      /\ unsynced' = [unsynced EXCEPT ![r][Key[c]] = @ + 1]
      /\ deliverChan' = [deliverChan EXCEPT ![r] =
                          [s \in Slots |-> IF s \in SlotsOf(r, c) THEN @[s] + 1 ELSE @[s]]]
      /\ UNCHANGED <<leaderVars, depVars, proposes, synced, peerMsgs, replies,
                     syncReplies, cmd, slotVars>>

\* What the handlers of a slot leave alone.
OnlySlot == UNCHANGED <<lastCmdSlot, lastOn, pending, depVars, proposes, recording, accepts,
                        recordAcks>>

\* handleAccept of the leader's message.
HandleAccept(r, s, c) ==
  /\ r \in Witnesses
  /\ <<s, c>> \in accepts
  /\ cmd[r][s] = NoCommand
  /\ cmd' = [cmd EXCEPT ![r][s] = c]
  /\ OnlySlot /\ UNCHANGED early
  /\ Calls(r, s, votes[r][s], "accept")

\* handleAcceptAck of q's message.
HandleAcceptAck(r, q, s) ==
  /\ <<q, s>> \in acceptAcks
  /\ q \notin votes[r][s]
  /\ s \notin delivered[r]
  /\ OnlySlot /\ UNCHANGED <<early, cmd>>
  /\ Calls(r, s, votes[r][s] \cup {q}, "ack")

\* The run loop takes a "deliver" message and creates the descriptor of its slot if
\* there is none.
HandleDeliver(r, s) ==
  /\ deliverChan[r][s] > 0
  /\ early' = early \cup {t \in {s} : r = Leader /\ t >= lastCmdSlot}
  /\ OnlySlot /\ UNCHANGED cmd
  /\ Calls(r, s, votes[r][s], "deliver")

ReplicaStep(r) ==
  \/ \E c \in Commands : r = Leader /\ LeaderPropose(c)
  \/ \E c \in Commands : r = Leader /\ LeaderSendsPropose(c)
  \/ \E s \in Slots, c \in Commands : r = Leader /\ HandlePropose(s, c)
  \/ \E c \in Commands : StorePropose(r, c)
  \/ AnswerPropose(r)
  \/ \E s \in Slots, c \in Commands : HandleAccept(r, s, c)
  \/ \E q \in Replicas, s \in Slots : HandleAcceptAck(r, q, s)
  \/ \E s \in Slots : HandleDeliver(r, s)

Next == \E r \in Replicas : ReplicaStep(r)

Spec == Init /\ [][Next]_vars

\* The steps of r that do not wait for a message of a replica that may stop.
FairStep(r) ==
  \/ \E c \in Commands : r = Leader /\ LeaderPropose(c)
  \/ \E c \in Commands : r = Leader /\ LeaderSendsPropose(c)
  \/ \E s \in Slots, c \in Commands : r = Leader /\ HandlePropose(s, c)
  \/ \E c \in Commands : StorePropose(r, c)
  \/ AnswerPropose(r)
  \/ \E s \in Slots, c \in Commands : Leader \in Correct /\ HandleAccept(r, s, c)
  \/ \E q \in Correct, s \in Slots : HandleAcceptAck(r, q, s)
  \/ \E s \in Slots : HandleDeliver(r, s)
-------------------------------------------------------------------------------
\* Every replica executes the same commands in the same order, the leader before they
\* are committed and the others after, each slot in a goroutine of its own (deliver,
\* lines 470-497).
ExecutedAlike ==
  \A r, q \in Replicas : \A k \in 1 .. Len(log[r]) :
    k <= Len(log[q]) => log[r][k] = log[q][k]

\* A commit is held by a majority, whatever the order of the acks, the accept and the
\* proposal (handleAcceptAck and handleCommit, lines 349-401).
CommittedIsHeld ==
  \A r \in Replicas : \A s \in committed[r] :
    LET holders == {q \in Replicas : <<q, s>> \in acceptAcks /\ cmd[q][s] = cmd[r][s]}
    IN  2 * Cardinality(holders) > Cardinality(Replicas)

\* What makes the fast path safe: of two conflicting commands one witness has accepted,
\* it has synced one.  sync may run for a command between the moment its proposal is
\* stored and the moment it is answered, and decrements a count that does not
\* include it yet (lines 192-200 and 403-435).
WitnessIsExclusive ==
  \A r \in Witnesses : \A c, d \in Commands :
    /\ c # d /\ Key[c] = Key[d]
    /\ <<r, c, TRUE>> \in recordAcks /\ <<r, d, TRUE>> \in recordAcks
    => c \in synced[r] \/ d \in synced[r]

\* The client may complete c on the fast path (client.go, handleAcks).
FastAnswer(c) ==
  /\ c \in replies
  /\ Cardinality({r \in Witnesses : <<r, c, TRUE>> \in recordAcks}) >= ThreeQuarters - 1

\* Two conflicting commands are not both completed on the fast path before one of them
\* is committed: the fast quorums have a witness in common.
FastConflictIsCommitted ==
  \A c, d \in Commands :
    c # d /\ Key[c] = Key[d] /\ FastAnswer(c) /\ FastAnswer(d) =>
      \E r \in Replicas : \E s \in committed[r] : cmd[r][s] \in {c, d}

\* The leader sends an MReply for a command that is not committed only if the last
\* slot it gave to a conflicting command is committed; otherwise the client "gets reply
\* from the leader or the closes replica after the command gets committed and executed"
\* (lines 506-516).  Not so for a descriptor created before its proposal (line 570).
DependencyIsCommitted ==
  \A c \in replies : \A s \in SlotsOf(Leader, c) : \A t \in 0 .. s - 1 :
    /\ Key[cmd[Leader][t]] = Key[c]
    /\ \A u \in t + 1 .. s - 1 : Key[cmd[Leader][u]] # Key[c]
    => t \in committed[Leader]
-------------------------------------------------------------------------------
\* The commands on key k that witness r has answered and not synced.
UnsyncedOn(r, k) ==
  {c \in Commands : Key[c] = k /\ c \notin synced[r] /\ \E ok \in BOOLEAN : <<r, c, ok>> \in recordAcks}

\* The leader pairs slots and commands, and takes the slots in turn.
SlotsInv ==
  \A p, q \in pending \cup accepts :
    /\ p[1] < lastCmdSlot /\ p[2] \in proposes[Leader]
    /\ p[1] = q[1] \/ p[2] = q[2] => p = q

\* A replica knows of a slot what the leader sent, votes for what it knows, and commits
\* what a majority voted for.
VotesInv ==
  \A r \in Replicas : \A s \in Slots :
    /\ cmd[r][s] # NoCommand => <<s, cmd[r][s]>> \in accepts
    /\ \A q \in votes[r][s] : <<q, s>> \in acceptAcks
    /\ <<r, s>> \in acceptAcks => cmd[r][s] # NoCommand
    /\ s \in committed[r] => cmd[r][s] # NoCommand /\ Cardinality(votes[r][s]) >= Majority

\* A replica has executed the slots from 0 on, and logged their commands.
LogInv ==
  \A r \in Replicas :
    /\ executed[r] = 0 .. Len(log[r]) - 1
    /\ \A s \in executed[r] : cmd[r][s] # NoCommand /\ log[r][s + 1] = cmd[r][s]

\* A witness has synced commands of committed slots only.
SyncedInv ==
  \A r \in Witnesses : \A c \in synced[r] : \E s \in committed[r] : cmd[r][s] = c

\* 1 if witness r has synced a command on key k that it has yet to answer and count.
Early(r, k) == IF recording[r] \in synced[r] /\ Key[recording[r]] = k THEN 1 ELSE 0

\* The count of a key is at least its unsynced commands, but for a command discounted
\* before it is counted.
CountInv ==
  \A r \in Witnesses :
    /\ \A c \in proposes[r] : c = recording[r] \/ \E ok \in BOOLEAN : <<r, c, ok>> \in recordAcks
    /\ \A k \in Keys : Cardinality(UnsyncedOn(r, k)) <= unsynced[r][k] + Early(r, k)

\* The inductive invariant of the safety properties (handlePropose to deliver, lines
\* 254-545).
CurpInv == SlotsInv /\ VotesInv /\ LogInv /\ SyncedInv /\ CountInv
-------------------------------------------------------------------------------
\* Curp fills one log: a replica learns a slot when it executes it.
Learned == [r \in Replicas |-> {<<s, cmd[r][s]>> : s \in executed[r]}]
Abstract == INSTANCE Consensus WITH learned <- Learned
ImplementsConsensus == Abstract!Spec
===============================================================================
