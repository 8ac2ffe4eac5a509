-------------------------------- MODULE Swift ---------------------------------
(***************************************************************************)
(* swift/swift.go, dpath.go, key.go, mset.go and replychan.go as run.go    *)
(* starts them (optExec, no slowAddrs), between two changes of the ballot. *)
(* The commands are those of one key, so that every two of them conflict   *)
(* unless both are reads; keys do not interact.                            *)
(*                                                                         *)
(* A client sends its command to every replica.  The run loop of a replica *)
(* notes the commands it depends on and appends it to a hash log, and the  *)
(* goroutine of its descriptor handles it.  The leader executes it at once *)
(* and sends its dependencies and its hash in a FastAck.  The members of   *)
(* the fast quorum send a FastAck of their own, and every follower sends a *)
(* slow ack (a FastAck without dependencies, Nil) once it has the leader's.*)
(* A hash is modelled by the sequence of commands it is computed from.     *)
(*                                                                         *)
(* A message and its handling by the goroutine of its descriptor are one   *)
(* step, but for proposals, whose order in the run loop matters.  The      *)
(* batcher merges acks of one replica, which here are late or lost.        *)
(* Bound: fewer than MaxDescRoutines descriptors are open.                 *)
(***************************************************************************)
EXTENDS QuorumSystem, Sequences

CONSTANTS Commands,  \* the commands of the clients on the key
          Reads,     \* those that are not PUTs, when fastRead is on
          Proxied,   \* the <<replica, command>> pairs with propose.Proxy
          Ballots,   \* bound: the ballots in use
          Nil,       \* no dependencies, no hash
          None       \* no message

ASSUME CommandAssumption ==
  IsFiniteSet(Commands) /\ Reads \subseteq Commands /\ Proxied \subseteq Replicas \X Commands
ASSUME BallotAssumption == 0 \in Ballots /\ Ballots \subseteq Nat
ASSUME NilAssumption ==
  /\ Nil # None /\ {Nil, None} \cap Commands = {}
  /\ \A D \in SUBSET Commands : D # Nil /\ D # None
  /\ Nil \notin Seq(Commands)

\* r.SQ and, without a quorum file, r.FQ for a ballot.
SQ == Replicas
FQ == [b \in Ballots |-> AQ(b)]

VARIABLES
  ballot, cballot, status,  \* of each replica
  proposes,        \* proposes[r]: the commands r has received
  reproposed,      \* reproposed[r]: those put back on the ProposeChan of r
  lastCmd,         \* lastCmd[r]: the last command r received, as a set
  lastWrite,       \* lastWrite[r]: the last PUT
  hlog,            \* hlog[r]: the HashLog of the key
  pendingHashUpds, \* pendingHashUpds[r]: the leader's hashes that came before their command
  seqnum,          \* seqnum[r]: the next sequence number, at a leader
  cmdDescs,        \* cmdDescs[r][c]: the descriptor of c
  delivered,       \* delivered[r]: the commands marked as delivered
  executing,       \* executing[r]: those marked and not executed yet
  replying,        \* replying[r]: those executed that the replyChan has not let go
  deliverChan,     \* deliverChan[r]: <<waker, command>> pairs on their way to the run loop
  log,             \* log[r]: the commands r has executed, in that order
  stopped,         \* stopped[r]: r.Fatal has ended the process, or the run loop hangs
  acks,            \* the FastAcks and slow acks on their way, each to one replica
  toClient         \* the messages sent to clients

ballotVars == <<ballot, cballot, status>>
runVars    == <<proposes, reproposed, lastCmd, lastWrite>>
hashVars   == <<hlog, pendingHashUpds>>
execVars   == <<delivered, executing, replying, deliverChan, log>>
vars == <<ballotVars, runVars, hashVars, seqnum, cmdDescs, execVars, stopped, acks, toClient>>

Hash   == {Nil} \cup Seq(Commands)
Dep    == {Nil} \cup SUBSET Commands
Update == [cmd : Commands, seqnum : Nat, hash : Hash]
MsgSet == [leaderMsg : {None} \cup Dep, msgs : SUBSET (Replicas \X Dep)]
Phase  == {"START", "PRE_ACCEPT", "ACCEPT", "COMMIT"}

CommandDesc ==
  [open : BOOLEAN, seq : BOOLEAN, noop : BOOLEAN, phase : Phase, propose : {"none", "sent", "set"},
   dep : Dep, proposeDep : Dep, hs : Hash, afterPropagate : {None} \cup Dep,
   slowPath : BOOLEAN, successors : SUBSET Commands, slow : MsgSet, fast : MsgSet]

HashLog ==
  [synced : Int, syncedHash : Seq(Commands), pending : Seq(Commands),
   pendingUpd : SUBSET [cmd : Commands, seqnum : Nat, hash : Seq(Commands)]]

FastAck == [to : Replicas, from : Replicas, ballot : Ballots, cmd : Commands,
            dep : Dep, checksum : Hash, seqnum : Nat]
ToClient ==
  [type : {"reply", "fastAck", "slowAck", "accept"}, from : Replicas, ballot : Ballots,
   cmd : Commands, checksum : Hash, rep : Hash]

\* newDesc.
NoMsgs == [leaderMsg |-> None, msgs |-> {}]
Closed == [open |-> FALSE, seq |-> FALSE, noop |-> FALSE, phase |-> "START",
           propose |-> "none", dep |-> Nil, proposeDep |-> Nil, hs |-> Nil, afterPropagate |-> None,
           slowPath |-> FALSE, successors |-> {}, slow |-> NoMsgs, fast |-> NoMsgs]

AtMostOne(S) == {{}} \cup {{c} : c \in S}

TypeOK ==
  /\ ballot \in [Replicas -> Ballots] /\ cballot \in [Replicas -> Ballots]
  /\ status \in [Replicas -> {"NORMAL", "RECOVERING"}]
  /\ proposes \in [Replicas -> SUBSET Commands]
  /\ reproposed \in [Replicas -> SUBSET Commands]
  /\ lastCmd \in [Replicas -> AtMostOne(Commands)]
  /\ lastWrite \in [Replicas -> AtMostOne(Commands \ Reads)]
  /\ hlog \in [Replicas -> HashLog]
  /\ pendingHashUpds \in [Replicas -> SUBSET Update]
  /\ seqnum \in [Replicas -> Nat]
  /\ cmdDescs \in [Replicas -> [Commands -> CommandDesc]]
  /\ delivered \in [Replicas -> SUBSET Commands]
  /\ executing \in [Replicas -> SUBSET Commands]
  /\ replying \in [Replicas -> SUBSET Commands]
  /\ deliverChan \in [Replicas -> SUBSET (Commands \X Commands)]
  /\ \A r \in Replicas : /\ reproposed[r] \subseteq proposes[r]
                         /\ executing[r] \cup replying[r] \subseteq delivered[r]
  /\ log \in [Replicas -> Seq(Commands)]
  /\ stopped \in [Replicas -> {"no", "fatal", "hangs"}]
  /\ acks \subseteq FastAck
  /\ toClient \subseteq ToClient

Init ==
  /\ ballot = [r \in Replicas |-> 0] /\ cballot = [r \in Replicas |-> 0]
  /\ status = [r \in Replicas |-> "NORMAL"]
  /\ proposes = [r \in Replicas |-> {}] /\ reproposed = [r \in Replicas |-> {}]
  /\ lastCmd = [r \in Replicas |-> {}] /\ lastWrite = [r \in Replicas |-> {}]
  /\ hlog = [r \in Replicas |->
               [synced |-> -1, syncedHash |-> <<>>, pending |-> <<>>, pendingUpd |-> {}]]
  /\ pendingHashUpds = [r \in Replicas |-> {}]
  /\ seqnum = [r \in Replicas |-> 0]
  /\ cmdDescs = [r \in Replicas |-> [c \in Commands |-> Closed]]
  /\ delivered = [r \in Replicas |-> {}]
  /\ executing = [r \in Replicas |-> {}] /\ replying = [r \in Replicas |-> {}]
  /\ deliverChan = [r \in Replicas |-> {}]
  /\ log = [r \in Replicas |-> <<>>]
  /\ stopped = [r \in Replicas |-> "no"]
  /\ acks = {} /\ toClient = {}
-------------------------------------------------------------------------------
LeaderOf(r) == Leader(ballot[r])
Deps(dep)   == IF dep = Nil THEN {} ELSE dep

\* The hash of a log: the synced commands and then the pending ones.
LogHash(h) == h.syncedHash \o h.pending

\* The HashLog without the last node of c.
Unlink(pending, c) ==
  LET k == Max({0} \cup {i \in DOMAIN pending : pending[i] = c})
  IN  SubSeq(pending, 1, k - 1) \o SubSeq(pending, k + 1, Len(pending))

\* Mutant: an older sequence number overwrites a newer one.
HashUpdate_Older(h, u) ==
  [h EXCEPT !.pending = Unlink(@, u.cmd), !.synced = u.seqnum, !.syncedHash = u.hash]

\* HashLog.update of a command the log has or has just taken.
HashUpdate(h, u) ==
  LET rest == [h EXCEPT !.pending = Unlink(@, u.cmd)]
  IN  IF u.seqnum > h.synced
      THEN [rest EXCEPT !.synced = u.seqnum, !.syncedHash = u.hash]
      ELSE rest

\* HashLog.Update: the leader's hash of a command that is not in the log is kept for
\* Append.
HashLogUpdate(h, u) ==
  IF \E i \in DOMAIN h.pending : h.pending[i] = u.cmd
  THEN HashUpdate(h, u)
  ELSE [h EXCEPT !.pendingUpd = {v \in @ : v.cmd # u.cmd} \cup {u}]

\* HashLog.Append: the log with c, and the hash it gives c.
HashLogAppend(h, c) ==
  LET U == {u \in h.pendingUpd : u.cmd = c}
  IN  IF U = {}
      THEN [log |-> [h EXCEPT !.pending = Append(@, c)], hash |-> Append(LogHash(h), c)]
      ELSE LET u == CHOOSE v \in U : TRUE
           IN  [log |-> HashUpdate([h EXCEPT !.pendingUpd = @ \ U], u), hash |-> u.hash]

\* Mutant: an ack without a hash is taken like any other.
RecordLeaderHash_Unchecked(r, u, h) ==
  /\ UNCHANGED stopped
  /\ hlog' = [hlog EXCEPT ![r] =
               IF u.cmd \in proposes'[r] THEN HashLogUpdate(h, u) ELSE h]
  /\ pendingHashUpds' = [pendingHashUpds EXCEPT ![r] =
       {v \in @ : v.cmd # u.cmd} \cup {v \in {u} : u.cmd \notin proposes'[r]}]

\* recordLeaderHash on log h: without a hash, updateLogs ends the process.
RecordLeaderHash(r, u, h) ==
  /\ stopped' = [stopped EXCEPT ![r] = IF u.cmd \in proposes'[r] /\ u.hash = Nil THEN "fatal" ELSE @]
  /\ hlog' = [hlog EXCEPT ![r] =
               IF u.cmd \in proposes'[r] /\ u.hash # Nil THEN HashLogUpdate(h, u) ELSE h]
  /\ pendingHashUpds' = [pendingHashUpds EXCEPT ![r] =
       {v \in @ : v.cmd # u.cmd} \cup {v \in {u} : u.cmd \notin proposes'[r]}]
-------------------------------------------------------------------------------
\* getCmdDesc of a command that is not delivered.
Opened(d, seq) == IF d.open THEN d ELSE [Closed EXCEPT !.open = TRUE, !.seq = seq]

\* acceptFastAndSlowAck.
Accepts(dep, leaderDep) == dep = Nil \/ leaderDep = None \/ Deps(dep) = Deps(leaderDep)

\* MsgSet.Add of a message of from with the given dependencies.
Add(ms, from, isLeader, dep) ==
  LET others == {m \in ms.msgs : m[1] # from}
  IN  IF isLeader
      THEN [leaderMsg |-> dep, msgs |-> {m \in ms.msgs : Accepts(m[2], dep)}]
      ELSE IF Accepts(dep, ms.leaderMsg)
      THEN [ms EXCEPT !.msgs = others \cup {<<from, dep>>}]
      ELSE ms

\* Add goes on to look whether it calls the handler.
Takes(ms, q, from) == from \in q /\ (ms.leaderMsg = None \/ \A m \in ms.msgs : m[1] # from)

\* The handler does something: the leader's message and all but one of a quorum.
IsFull(ms, size) == ms.leaderMsg # None /\ Cardinality(ms.msgs) >= size - 1

\* deliver gets past its early returns.
MayDeliver(r, b, c, d) ==
  /\ d.propose = "set" /\ c \notin delivered[r]
  /\ d.phase = "COMMIT" \/ r = Leader(b)
  /\ Deps(d.dep) \subseteq delivered[r]

\* What a handler does to a descriptor: its new value d, the descriptors it has become
\* a successor of, and whether it has been delivered.
Handled(d) == [d |-> d, waitsFor |-> {}, done |-> FALSE]

\* In ballot b, a message is added to the MsgSet of a path ("slow" or "fast"), whose
\* handler commits and tries to deliver.
AddTo(r, b, c, x, path, from, isLeader, dep) ==
  LET q   == IF path = "slow" THEN SQ ELSE FQ[b]
      n   == IF path = "slow" THEN MajoritySize ELSE Cardinality(q)
      hit == Takes(x.d[path], q, from) /\ IsFull(Add(x.d[path], from, isLeader, dep), n)
      d   == [x.d EXCEPT ![path] = IF Takes(@, q, from) THEN Add(@, from, isLeader, dep) ELSE @,
                         !.phase = IF hit THEN "COMMIT" ELSE @]
  IN  [d        |-> d,
       waitsFor |-> x.waitsFor \cup IF hit THEN Deps(d.dep) ELSE {},
       done     |-> x.done \/ (hit /\ MayDeliver(r, b, c, d))]

\* commonCaseFastAck: a slow ack counts on both paths.
CommonCaseFastAck(r, b, c, x, from, dep) ==
  LET y == IF dep = Nil THEN AddTo(r, b, c, x, "slow", from, FALSE, dep) ELSE x
  IN  IF y.done THEN y ELSE AddTo(r, b, c, y, "fast", from, FALSE, dep)

\* Mutant: a follower keeps its own dependencies.
FastAckFromLeader_OwnDeps(r, b, c, x, dep) ==
  LET y == AddTo(r, b, c, [x EXCEPT !.d.phase = "ACCEPT"], "slow", Leader(b), TRUE, dep)
      z == IF y.done THEN y ELSE AddTo(r, b, c, y, "fast", Leader(b), TRUE, dep)
      w == [z EXCEPT !.d.slowPath = TRUE]
  IN  IF r = Leader(b) THEN z ELSE IF z.done THEN w ELSE CommonCaseFastAck(r, b, c, w, r, Nil)

\* fastAckFromLeader: the handlers of the MsgSets run before a follower takes over the
\* dependencies of the leader and counts its own slow ack.
FastAckFromLeader(r, b, c, x, dep) ==
  LET y == AddTo(r, b, c, [x EXCEPT !.d.phase = "ACCEPT"], "slow", Leader(b), TRUE, dep)
      z == IF y.done THEN y ELSE AddTo(r, b, c, y, "fast", Leader(b), TRUE, dep)
      w == [z EXCEPT !.d.slowPath = TRUE,
                     !.d.dep = IF z.done \/ Deps(@) = Deps(dep) THEN @ ELSE dep]
  IN  IF r = Leader(b) THEN z ELSE IF z.done THEN w ELSE CommonCaseFastAck(r, b, c, w, r, Nil)
-------------------------------------------------------------------------------
Alive(r)  == stopped[r] = "no"
Normal(r) == Alive(r) /\ status[r] = "NORMAL"

\* The run loop of q makes nothing of an ack of r for c once it has delivered c, unless
\* r leads it.
IsMoot(q, r, c) == c \in delivered[q] /\ (r # LeaderOf(q) \/ q = LeaderOf(q))

\* What batcher.SendFastAck and SendLightSlowAck send to the other replicas.
AcksTo(Q, r, b, c, dep, hs, s) ==
  {[to |-> q, from |-> r, ballot |-> b, cmd |-> c, dep |-> dep, checksum |-> hs, seqnum |-> s]
    : q \in Q \ {r}}
AcksOf(r, c, dep, hs, s) ==
  AcksTo({q \in Replicas : ~IsMoot(q, r, c)}, r, ballot[r], c, dep, hs, s)
SlowAcksOf(r, c) == AcksOf(r, c, Nil, Nil, 0)

ClientMsgIn(b, type, r, c, hs, rep) ==
  {[type |-> type, from |-> r, ballot |-> b, cmd |-> c, checksum |-> hs, rep |-> rep]}
ClientMsg(type, r, c, hs, rep) == ClientMsgIn(ballot[r], type, r, c, hs, rep)

\* The descriptor d of a command that c waits for.
WokenBy(d, c) ==
  LET e == Opened(d, FALSE)
  IN  [e EXCEPT !.successors = @ \cup {c}]

\* A handler of c has taken and sent messages and ended with x.  A descriptor of the run
\* loop (seq) executes at once, waits for the replyChan and is removed; another has a
\* goroutine, which has only marked the command so far.  What is under way to a command
\* that has been delivered is taken, and dropped, at the same time.
Settle(r, c, x, wakes, taken, sent, clientMsgs) ==
  LET now   == x.done /\ x.d.seq
      moot  == {m \in acks : x.done /\ m.to = r /\ m.cmd = c /\ (m.from # LeaderOf(r) \/ r = LeaderOf(r))}
      stale == {w \in deliverChan[r] : x.done /\ w[2] = c}
  IN  /\ acks' = (acks \ (taken \cup moot)) \cup sent
      /\ delivered' = [delivered EXCEPT ![r] = IF x.done THEN @ \cup {c} ELSE @]
      /\ executing' = [executing EXCEPT ![r] = IF x.done /\ ~now THEN @ \cup {c} ELSE @]
      /\ log' = [log EXCEPT ![r] = IF now /\ ~x.d.noop THEN Append(@, c) ELSE @]
      /\ deliverChan' = [deliverChan EXCEPT ![r] =
                           (@ \ (wakes \cup stale)) \cup IF now THEN {c} \X x.d.successors ELSE {}]
      /\ cmdDescs' = [cmdDescs EXCEPT ![r] = [b \in Commands |->
           IF b = c THEN IF now THEN Closed ELSE x.d
           ELSE IF b \in x.waitsFor \ delivered[r]
           THEN WokenBy(@[b], c)
           ELSE @[b]]]
      /\ toClient' = toClient \cup clientMsgs \cup
           IF now /\ r = LeaderOf(r)
           THEN ClientMsg("reply", r, c, x.d.hs, log'[r]) ELSE {}
      /\ UNCHANGED replying

\* The leader executes before it knows that anybody holds the command, unless fastRead
\* leaves a read to its proxy.
IsProxiedRead(r, c) == c \in Reads /\ <<r, c>> \in Proxied
Speculates(r, c)    == (r = LeaderOf(r) /\ c \notin Reads) \/ IsProxiedRead(r, c)

\* afterPropagate.Recall: the leader's FastAck came before the proposal.
RecallsLeader(r, c, d) ==
  /\ Settle(r, c, FastAckFromLeader(r, ballot[r], c, Handled([d EXCEPT !.afterPropagate = None]),
                                    d.afterPropagate),
            {}, {}, SlowAcksOf(r, c), ClientMsg("slowAck", r, c, Nil, Nil))
  /\ UNCHANGED seqnum

\* A member of the fast quorum sends its FastAck and handles it.
SendsFastAck(r, c, d) ==
  LET s == IF r = LeaderOf(r) THEN seqnum[r] ELSE 0
      x == [Handled(d) EXCEPT !.done = Speculates(r, c) /\ MayDeliver(r, ballot[r], c, d)]
  IN  /\ seqnum' = [seqnum EXCEPT ![r] = IF r = LeaderOf(r) THEN @ + 1 ELSE @]
      /\ Settle(r, c, IF r = LeaderOf(r) THEN FastAckFromLeader(r, ballot[r], c, x, d.dep)
                                         ELSE CommonCaseFastAck(r, ballot[r], c, x, r, d.dep),
                {}, {}, AcksOf(r, c, d.dep, d.hs, s),
                IF Speculates(r, c) THEN {} ELSE ClientMsg("fastAck", r, c, d.hs, Nil))

\* handlePropose on descriptor d, unless it has its proposal already.
TakesPropose(r, c, d) ==
  LET e == [d EXCEPT !.propose = "set", !.noop = FALSE]
      f == [e EXCEPT !.dep = d.proposeDep, !.phase = "PRE_ACCEPT"]
      g == IF r \in FQ[ballot[r]] THEN f ELSE e
  IN  IF d.afterPropagate # None THEN RecallsLeader(r, c, g)
      ELSE IF r \in FQ[ballot[r]] THEN SendsFastAck(r, c, g)
      ELSE Settle(r, c, Handled(g), {}, {}, {}, {}) /\ UNCHANGED seqnum

\* getConflictCmds of a lightKeyInfo.
DepOf(r, c) == IF c \in Reads THEN lastWrite[r] ELSE lastCmd[r]

\* c is on the ProposeChan of r.
MayRegister(r, c) ==
  /\ Normal(r) /\ c \notin delivered[r]
  /\ c \notin proposes[r] \/ c \in reproposed[r]

\* The run loop takes a proposal and notes its dependencies and its hash, in
\* descriptor d.
Registers(r, c, d) ==
  LET a == HashLogAppend(hlog[r], c)
      U == {u \in pendingHashUpds[r] : u.cmd = c /\ r # LeaderOf(r)}
      e == IF d.proposeDep = Nil
           THEN [d EXCEPT !.proposeDep = DepOf(r, c), !.hs = a.hash] ELSE d
  IN  /\ MayRegister(r, c)
      /\ reproposed' = [reproposed EXCEPT ![r] = @ \ {c}]
      /\ proposes' = [proposes EXCEPT ![r] = @ \cup {c}]
      /\ lastCmd' = [lastCmd EXCEPT ![r] = {c}]
      /\ lastWrite' = [lastWrite EXCEPT ![r] = IF c \in Reads THEN @ ELSE {c}]
      /\ IF U = {} THEN hlog' = [hlog EXCEPT ![r] = a.log] /\ UNCHANGED <<pendingHashUpds, stopped>>
                   ELSE RecordLeaderHash(r, CHOOSE u \in U : TRUE, a.log)
      /\ IF d.seq THEN d.propose = "none" /\ TakesPropose(r, c, e)
         ELSE /\ cmdDescs' = [cmdDescs EXCEPT ![r][c] =
                   [e EXCEPT !.propose = IF @ = "none" THEN "sent" ELSE @]]
              /\ UNCHANGED <<seqnum, execVars, acks, toClient>>
      /\ UNCHANGED ballotVars

\* The run loop receives a proposal; a leader whose descriptor is seq handles it too.
Propose(r, c) == Registers(r, c, Opened(cmdDescs[r][c], r = LeaderOf(r)))

\* "Got proposal for the delivered command".
ProposeDelivered(r, c) ==
  /\ Normal(r) /\ c \in reproposed[r] \cap delivered[r]
  /\ stopped' = [stopped EXCEPT ![r] = "fatal"]
  /\ UNCHANGED <<ballotVars, runVars, hashVars, seqnum, cmdDescs, execVars, acks, toClient>>

\* The goroutine of the descriptor handles it.
HandlePropose(r, c) ==
  /\ Normal(r) /\ cmdDescs[r][c].propose = "sent"
  /\ TakesPropose(r, c, cmdDescs[r][c])
  /\ UNCHANGED <<ballotVars, runVars, hashVars, stopped>>

\* Mutant: what the leader sends before the proposal is there is dropped.
HandleAck_NoRecall(r, m, d) ==
  IF m.from # LeaderOf(r)
  THEN Settle(r, m.cmd, CommonCaseFastAck(r, ballot[r], m.cmd, Handled(d), m.from, m.dep), {}, {m}, {}, {})
  ELSE IF d.propose # "set" THEN Settle(r, m.cmd, Handled(d), {}, {m}, {}, {})
  ELSE Settle(r, m.cmd, FastAckFromLeader(r, ballot[r], m.cmd, Handled(d), m.dep),
              {}, {m}, SlowAcksOf(r, m.cmd), ClientMsg("slowAck", r, m.cmd, Nil, Nil))

\* A FastAck or a slow ack of the ballot of r reaches descriptor d.
HandleAck(r, m, d) ==
  IF m.from # LeaderOf(r)
  THEN Settle(r, m.cmd, CommonCaseFastAck(r, ballot[r], m.cmd, Handled(d), m.from, m.dep), {}, {m}, {}, {})
  ELSE IF d.propose # "set"
  THEN Settle(r, m.cmd, Handled([d EXCEPT !.afterPropagate = m.dep]), {}, {m}, {}, {})
  ELSE Settle(r, m.cmd, FastAckFromLeader(r, ballot[r], m.cmd, Handled(d), m.dep),
              {}, {m}, SlowAcksOf(r, m.cmd), ClientMsg("slowAck", r, m.cmd, Nil, Nil))

\* The run loop does not drop m.
MayReceive(r, m) ==
  Normal(r) /\ m.to = r /\ (m.from = LeaderOf(r) \/ m.cmd \notin delivered[r])

\* The run loop receives an ack, records the hash of the leader's, and hands it to the
\* descriptor of its command.
ReceiveAck(r, m) ==
  LET fromLeader == m.from = LeaderOf(r)
      d == Opened(cmdDescs[r][m.cmd], r = LeaderOf(r))
  IN  /\ MayReceive(r, m)
      /\ UNCHANGED <<ballotVars, runVars, seqnum>>
      /\ IF fromLeader
         THEN RecordLeaderHash(r, [cmd |-> m.cmd, seqnum |-> m.seqnum, hash |-> m.checksum], hlog[r])
         ELSE UNCHANGED <<hashVars, stopped>>
      /\ IF m.cmd \in delivered[r]
         THEN acks' = acks \ {m} /\ UNCHANGED <<cmdDescs, execVars, toClient>>
         ELSE IF m.ballot = ballot[r] THEN HandleAck(r, m, d)
         ELSE Settle(r, m.cmd, Handled(d), {}, {m}, {}, {})

\* The run loop takes a message of the deliverChan.
Deliver(r, w) ==
  LET c == w[2]
      d == Opened(cmdDescs[r][c], FALSE)
  IN  /\ Normal(r) /\ w \in deliverChan[r]
      /\ IF c \in delivered[r]
         THEN /\ deliverChan' = [deliverChan EXCEPT ![r] = @ \ {w}]
              /\ UNCHANGED <<cmdDescs, delivered, executing, replying, log, acks, toClient>>
         ELSE Settle(r, c, [Handled(d) EXCEPT !.done = MayDeliver(r, ballot[r], c, d)], {w}, {}, {}, {})
      /\ UNCHANGED <<ballotVars, runVars, hashVars, seqnum, stopped>>

\* The goroutine that has marked c as delivered executes it and wakes up its successors.
Execute(r, c) ==
  /\ Alive(r) /\ c \in executing[r]
  /\ executing' = [executing EXCEPT ![r] = @ \ {c}]
  /\ log' = [log EXCEPT ![r] = IF cmdDescs[r][c].noop THEN @ ELSE Append(@, c)]
  /\ deliverChan' = [deliverChan EXCEPT ![r] = @ \cup {c} \X cmdDescs[r][c].successors]
  /\ replying' = [replying EXCEPT ![r] = @ \cup {c}]
  /\ UNCHANGED <<ballotVars, runVars, hashVars, seqnum, cmdDescs, delivered, stopped, acks, toClient>>

\* The log of r when it had executed c.
LogAt(r, c) == SubSeq(log[r], 1, Max({0} \cup {i \in DOMAIN log[r] : log[r][i] = c}))
ReplyOf(r, c) == ClientMsg("reply", r, c, cmdDescs[r][c].hs, LogAt(r, c))

MayReply(r, c) ==
  Normal(r) /\ c \in replying[r] /\ r = LeaderOf(r) /\ ~(ReplyOf(r, c) \subseteq toClient)

\* The replyChan of the leader answers the client.
Reply(r, c) ==
  /\ MayReply(r, c)
  /\ toClient' = toClient \cup ReplyOf(r, c)
  /\ UNCHANGED <<ballotVars, runVars, hashVars, seqnum, cmdDescs, execVars, stopped, acks>>

ReplicaStep(r) ==
  \/ \E c \in Commands : Propose(r, c)
  \/ \E c \in Commands : ProposeDelivered(r, c)
  \/ \E c \in Commands : HandlePropose(r, c)
  \/ \E m \in acks : ReceiveAck(r, m)
  \/ \E w \in deliverChan[r] : Deliver(r, w)
  \/ \E c \in Commands : Execute(r, c)
  \/ \E c \in Commands : Reply(r, c)

\* The guards of these steps, but for those of Propose.
CanStep(r) ==
  \/ \E c \in Commands : MayReply(r, c)
  \/ Normal(r) /\ reproposed[r] \cap delivered[r] # {}
  \/ Normal(r) /\ \E c \in Commands : cmdDescs[r][c].propose = "sent"
  \/ \E m \in acks : MayReceive(r, m)
  \/ Normal(r) /\ deliverChan[r] # {}
  \/ Alive(r) /\ executing[r] # {}

Next == \E r \in Replicas : ReplicaStep(r)

Spec == Init /\ [][Next]_vars
-------------------------------------------------------------------------------
\* Once a follower has every proposal and every hash of the leader, its hash is the
\* leader's again, whatever order they came in: the fast path is not lost for good
\* (dpath.go, update; "when pipelining this can break ordering", line 278).
HashesConverge ==
  \A l, r \in Replicas :
    /\ l = LeaderOf(r) /\ ballot[l] = ballot[r] /\ ballot[r] = 0
    /\ proposes[r] = proposes[l]
    /\ pendingHashUpds[r] = {} /\ ~\E m \in acks : m.from = l /\ m.to = r
    => LogHash(hlog[r]) = LogHash(hlog[l])

\* r has executed c, or has its proposal and, if so asked, the given dependencies.
Holds(r, c) == c \in delivered[r] \/ cmdDescs[r][c].propose = "set"
HoldsWith(r, c, dep) ==
  c \in delivered[r] \/ (cmdDescs[r][c].propose = "set" /\ Deps(cmdDescs[r][c].dep) = dep)

\* The dependencies of the last command of a hash.
DepIn(hs) ==
  LET c == hs[Len(hs)]
      before == {i \in 1 .. Len(hs) - 1 : c \in Reads => hs[i] \notin Reads}
  IN  {hs[i] : i \in {k \in before : \A j \in before : j <= k}}

\* A client may complete m.cmd from the leader's reply m and an ack n: a FastAck with
\* the same hash, or a slow ack (client.go, handleFastAndSlowAcks).
Completes(m, n) ==
  /\ m.type = "reply" /\ m.checksum # Nil
  /\ n.cmd = m.cmd /\ n.from # m.from
  /\ n.type = "slowAck" \/ (n.type = "fastAck" /\ n.checksum = m.checksum)

\* What a client takes for a completed command is executed by the leader and held by the
\* replica whose ack completed it, after a slow ack with the dependencies of the leader,
\* as long as the first ballot lasts (a recovery resets the dependencies and not the
\* hashes).
AnswerIsHeld ==
  \A m, n \in toClient :
    Completes(m, n) /\ m.ballot = 0 /\ n.ballot = 0 /\ ballot[n.from] = 0 =>
      /\ m.cmd \in delivered[m.from]
      /\ Holds(n.from, m.cmd)
      /\ n.type = "slowAck" => HoldsWith(n.from, m.cmd, DepIn(m.checksum))

\* The replica of a FastAck with the leader's hash has the leader's dependencies, as the
\* client supposes.  Not so with three commands: an old hash of the leader takes a command
\* out of the middle of a follower's log, whose hash is then the leader's again although
\* the last command it received is another one.
FastAnswerHasDeps ==
  \A m, n \in toClient :
    /\ Completes(m, n) /\ n.type = "fastAck"
    /\ m.ballot = 0 /\ n.ballot = 0 /\ ballot[n.from] = 0
    => HoldsWith(n.from, m.cmd, DepIn(m.checksum))

Agree(s, t) == \A k \in 1 .. Min({Len(s), Len(t)}) : s[k] = t[k]

\* Every replica executes the same conflicting commands in the same order.  Not so: a
\* command is marked as delivered before it is executed (line 555), and a quorum may
\* commit a command at a follower that still has its own dependencies.
ExecutedAlike == \A r, q \in Replicas : Agree(log[r], log[q])
===============================================================================
