----------------------------- MODULE SwiftProofs ------------------------------
(***************************************************************************)
(* Theorems about SwiftPaxos with the changes of its leader: for any       *)
(* number of replicas, commands and recoveries, the types, and for the     *)
(* first ballot that the hash of a follower comes back to the leader's and *)
(* that what a client takes for completed is held.                         *)
(***************************************************************************)
EXTENDS SwiftRecovery, FiniteSetTheorems, SequenceTheorems, WellFoundedInduction, TLAPS

\* A set of naturals has a least member.
LEMMA LeastOf ==
  ASSUME NEW T, T \subseteq Nat, T # {}
  PROVE  \E x \in T : \A y \in T : x <= y
<1> DEFINE R == OpToRel(<, Nat)
<1>1. IsWellFoundedOn(R, Nat)
  BY NatLessThanWellFounded
<1>2. \A x, y \in Nat : x < y => <<x, y>> \in R
  BY DEF OpToRel
<1> HIDE DEF R
<1>3. PICK x \in T : \A y \in T : ~(<<y, x>> \in R)
  BY <1>1, WFMin
<1>4. \A y \in T : x <= y
  <2> TAKE y \in T
  <2>1. x \in Nat /\ y \in Nat /\ ~(y < x)
    BY <1>2, <1>3
  <2> QED
    BY <2>1
<1> QED
  BY <1>4

\* A set of numbers up to n has a greatest one, which is what Max chooses.
LEMMA MaxIn ==
  ASSUME NEW n \in Nat, NEW S, S \subseteq 0 .. n, S # {}
  PROVE  Max(S) \in S /\ \A y \in S : y <= Max(S)
<1> DEFINE T == {n - y : y \in S}
<1>1. T \subseteq Nat /\ T # {}
  <2>1. \A y \in S : n - y \in Nat
    OBVIOUS
  <2> QED
    BY <2>1
<1>2. PICK z \in T : \A y \in T : z <= y
  BY <1>1, LeastOf
<1>3. PICK x \in S : z = n - x
  BY <1>2
<1>4. \A y \in S : x >= y
  <2> TAKE y \in S
  <2>1. n - x <= n - y
    BY <1>2, <1>3
  <2> QED
    BY <2>1, <1>3
<1>5. \E v \in S : \A y \in S : v >= y
  BY <1>4
<1>6. Max(S) \in S /\ \A y \in S : Max(S) >= y
  BY <1>5 DEF Max
<1> QED
  BY <1>6

\* The replicas are numbered from 0, and every ballot has one of them as its leader.
LEMMA LeaderIsReplica ==
  /\ N \in Nat \ {0} /\ 0 \in Replicas /\ Leader(0) = 0
  /\ \A b \in Ballots : b \in Nat /\ Leader(b) \in Replicas
  BY NAssumption, BallotAssumption DEF Replicas, Leader
-------------------------------------------------------------------------------
(***************************************************************************)
(* What the helpers return.                                                *)
(***************************************************************************)
\* The place of the last node of c in the list, 0 if there is none.
LastNode(pending, c) == Max({0} \cup {i \in DOMAIN pending : pending[i] = c})

LEMMA LastNodeIn ==
  ASSUME NEW s \in Seq(Commands), NEW c
  PROVE  LET k == LastNode(s, c)
         IN  /\ k \in 0 .. Len(s)
             /\ k # 0 => s[k] = c
             /\ \A i \in DOMAIN s : s[i] = c => i <= k
<1> DEFINE S == {0} \cup {i \in DOMAIN s : s[i] = c}
<1>1. Len(s) \in Nat /\ DOMAIN s = 1 .. Len(s)
  OBVIOUS
<1>2. S \subseteq 0 .. Len(s) /\ S # {}
  BY <1>1
<1>3. Max(S) \in S /\ \A y \in S : y <= Max(S)
  BY <1>1, <1>2, MaxIn
<1> QED
  BY <1>1, <1>2, <1>3 DEF LastNode

LEMMA UnlinkType ==
  ASSUME NEW s \in Seq(Commands), NEW c
  PROVE  Unlink(s, c) \in Seq(Commands)
<1> DEFINE k == LastNode(s, c)
<1>1. k \in 0 .. Len(s) /\ Len(s) \in Nat
  BY LastNodeIn
<1>2. Unlink(s, c) = SubSeq(s, 1, k - 1) \o SubSeq(s, k + 1, Len(s))
  BY DEF Unlink, LastNode
<1> HIDE DEF k
<1>3. SubSeq(s, 1, k - 1) \in Seq(Commands) /\ SubSeq(s, k + 1, Len(s)) \in Seq(Commands)
  BY <1>1
<1> QED
  BY <1>2, <1>3

\* An update with a hash, as HashLog keeps it.
Synced == [cmd : Commands, seqnum : Nat, hash : Seq(Commands)]

LEMMA HashLogTypes ==
  ASSUME NEW h \in HashLog, NEW c \in Commands, NEW u \in Synced
  PROVE  /\ LogHash(h) \in Seq(Commands)
         /\ HashUpdate(h, u) \in HashLog
         /\ HashLogUpdate(h, u) \in HashLog
         /\ HashLogAppend(h, c).log \in HashLog
         /\ HashLogAppend(h, c).hash \in Seq(Commands)
<1>1. LogHash(h) \in Seq(Commands)
  BY DEF LogHash, HashLog
<1>2. ASSUME NEW g \in HashLog, NEW v \in Synced PROVE HashUpdate(g, v) \in HashLog
  <2>1. Unlink(g.pending, v.cmd) \in Seq(Commands)
    BY UnlinkType DEF HashLog
  <2> DEFINE rest == [g EXCEPT !.pending = Unlink(@, v.cmd)]
  <2>2. rest \in HashLog
    BY <2>1 DEF HashLog
  <2>3. [rest EXCEPT !.synced = v.seqnum, !.syncedHash = v.hash] \in HashLog
    <3> HIDE DEF rest
    <3>1. v.seqnum \in Int /\ v.hash \in Seq(Commands)
      BY DEF Synced
    <3> QED
      BY <2>2, <3>1 DEF HashLog
  <2> QED
    BY <2>2, <2>3 DEF HashUpdate
<1>3. HashLogUpdate(h, u) \in HashLog
  <2> DEFINE V == {v \in h.pendingUpd : v.cmd # u.cmd} \cup {u}
  <2>1. [h EXCEPT !.pendingUpd = V] \in HashLog
    <3>1. V \in SUBSET Synced
      BY DEF HashLog, Synced
    <3> HIDE DEF V
    <3> QED
      BY <3>1 DEF HashLog, Synced
  <2>2. HashLogUpdate(h, u) \in {HashUpdate(h, u), [h EXCEPT !.pendingUpd = V]}
    BY DEF HashLogUpdate
  <2> QED
    BY <1>2, <2>1, <2>2
<1>4. HashLogAppend(h, c).log \in HashLog /\ HashLogAppend(h, c).hash \in Seq(Commands)
  <2> DEFINE U == {v \in h.pendingUpd : v.cmd = c}
             w == CHOOSE v \in U : TRUE
             g == [h EXCEPT !.pendingUpd = @ \ U]
             f == [h EXCEPT !.pending = Append(@, c)]
  <2>1. CASE U = {}
    <3>1. f \in HashLog
      <4>1. Append(h.pending, c) \in Seq(Commands)
        BY DEF HashLog
      <4> QED
        BY <4>1 DEF HashLog
    <3>2. Append(LogHash(h), c) \in Seq(Commands)
      BY <1>1
    <3>3. HashLogAppend(h, c) = [log |-> f, hash |-> Append(LogHash(h), c)]
      BY <2>1 DEF HashLogAppend
    <3> HIDE DEF f
    <3> QED
      BY <3>1, <3>2, <3>3
  <2>2. CASE U # {}
    <3>1. w \in U /\ w \in Synced
      BY <2>2 DEF HashLog, Synced
    <3>2. g \in HashLog
      BY DEF HashLog
    <3>3. HashLogAppend(h, c) = [log |-> HashUpdate(g, w), hash |-> w.hash]
      BY <2>2 DEF HashLogAppend
    <3> HIDE DEF g, w, U
    <3> QED
      BY <1>2, <3>1, <3>2, <3>3 DEF Synced
  <2> QED
    BY <2>1, <2>2
<1> QED
  BY <1>1, <1>2, <1>3, <1>4

\* What a handler returns: a descriptor, the commands it waits for, whether it delivers.
Outcome == [d : CommandDesc, waitsFor : SUBSET Commands, done : BOOLEAN]

LEMMA DescTypes ==
  /\ NoMsgs \in MsgSet
  /\ Closed \in CommandDesc
  /\ \A d \in CommandDesc, s \in BOOLEAN : Opened(d, s) \in CommandDesc
  /\ \A d \in CommandDesc : Handled(d) \in Outcome
<1>1. NoMsgs \in MsgSet
  BY DEF NoMsgs, MsgSet, Dep
<1>2. Closed \in CommandDesc
  BY <1>1 DEF Closed, CommandDesc, Phase, Dep, Hash
<1>3. \A d \in CommandDesc, s \in BOOLEAN : Opened(d, s) \in CommandDesc
  BY <1>2 DEF Opened, CommandDesc
<1>4. \A d \in CommandDesc : Handled(d) \in Outcome
  BY DEF Handled, Outcome
<1> QED
  BY <1>1, <1>2, <1>3, <1>4

LEMMA DepsType == \A dep \in Dep : Deps(dep) \in SUBSET Commands
  BY DEF Deps, Dep

LEMMA AddType ==
  ASSUME NEW ms \in MsgSet, NEW q \in Replicas, NEW isLeader \in BOOLEAN, NEW dep \in Dep
  PROVE  Add(ms, q, isLeader, dep) \in MsgSet
  BY DEF Add, MsgSet

\* The handler of a MsgSet, and those made of it, keep the types.
LEMMA AddToType ==
  ASSUME NEW r, NEW b, NEW c, NEW x \in Outcome, NEW path \in {"slow", "fast"},
         NEW q \in Replicas, NEW isLeader \in BOOLEAN, NEW dep \in Dep
  PROVE  AddTo(r, b, c, x, path, q, isLeader, dep) \in Outcome
<1> DEFINE Q   == IF path = "slow" THEN SQ ELSE FQ[b]
           n   == IF path = "slow" THEN MajoritySize ELSE Cardinality(Q)
           new == Add(x.d[path], q, isLeader, dep)
           hit == Takes(x.d[path], Q, q) /\ IsFull(new, n)
           d   == [x.d EXCEPT ![path] = IF Takes(@, Q, q) THEN new ELSE @,
                              !.phase = IF hit THEN "COMMIT" ELSE @]
           W   == x.waitsFor \cup IF hit THEN Deps(d.dep) ELSE {}
           may == x.done \/ (hit /\ MayDeliver(r, b, c, d))
<1>1. new \in MsgSet /\ x.d[path] \in MsgSet
  <2>1. x.d[path] \in MsgSet
    BY DEF Outcome, CommandDesc
  <2> QED
    BY <2>1, AddType
<1>2. d \in CommandDesc
  <2> HIDE DEF new, hit
  <2> QED
    BY <1>1 DEF CommandDesc, Outcome, Phase
<1>3. W \in SUBSET Commands
  <2> HIDE DEF hit, d
  <2>1. Deps(d.dep) \in SUBSET Commands
    BY <1>2, DepsType DEF CommandDesc
  <2> QED
    BY <2>1 DEF Outcome
<1>4. may \in BOOLEAN
  BY DEF Outcome
<1>5. AddTo(r, b, c, x, path, q, isLeader, dep) = [d |-> d, waitsFor |-> W, done |-> may]
  BY DEF AddTo
<1> HIDE DEF d, W, may
<1> QED
  BY <1>2, <1>3, <1>4, <1>5 DEF Outcome

LEMMA HandlerTypes ==
  ASSUME NEW r \in Replicas, NEW b \in Ballots, NEW c, NEW x \in Outcome, NEW dep \in Dep
  PROVE  /\ \A q \in Replicas : CommonCaseFastAck(r, b, c, x, q, dep) \in Outcome
         /\ FastAckFromLeader(r, b, c, x, dep) \in Outcome
<1>1. Nil \in Dep /\ Leader(b) \in Replicas
  BY LeaderIsReplica DEF Dep
<1>2. ASSUME NEW z \in Outcome, NEW q \in Replicas, NEW e \in Dep
      PROVE  CommonCaseFastAck(r, b, c, z, q, e) \in Outcome
  <2> DEFINE y == IF e = Nil THEN AddTo(r, b, c, z, "slow", q, FALSE, e) ELSE z
  <2>1. y \in Outcome
    BY AddToType
  <2>2. AddTo(r, b, c, y, "fast", q, FALSE, e) \in Outcome
    <3> HIDE DEF y
    <3> QED
      BY <2>1, AddToType
  <2> QED
    BY <2>1, <2>2 DEF CommonCaseFastAck
<1>3. FastAckFromLeader(r, b, c, x, dep) \in Outcome
  <2> DEFINE a == [x EXCEPT !.d.phase = "ACCEPT"]
             y == AddTo(r, b, c, a, "slow", Leader(b), TRUE, dep)
             v == AddTo(r, b, c, y, "fast", Leader(b), TRUE, dep)
             z == IF y.done THEN y ELSE v
             w == [z EXCEPT !.d.slowPath = TRUE,
                            !.d.dep = IF z.done \/ Deps(@) = Deps(dep) THEN @ ELSE dep]
  <2>1. a \in Outcome
    BY DEF Outcome, CommandDesc, Phase
  <2>2. y \in Outcome
    <3> HIDE DEF a
    <3> QED
      BY <1>1, <2>1, AddToType
  <2>3. v \in Outcome
    <3> HIDE DEF y
    <3> QED
      BY <1>1, <2>2, AddToType
  <2>4. z \in Outcome
    BY <2>2, <2>3
  <2>5. w \in Outcome
    <3> HIDE DEF z
    <3> QED
      BY <2>4 DEF Outcome, CommandDesc
  <2>6. CommonCaseFastAck(r, b, c, w, r, Nil) \in Outcome
    <3> HIDE DEF w
    <3> QED
      BY <1>1, <1>2, <2>5
  <2>7. FastAckFromLeader(r, b, c, x, dep) \in {z, w, CommonCaseFastAck(r, b, c, w, r, Nil)}
    BY DEF FastAckFromLeader
  <2> HIDE DEF z, w
  <2> QED
    BY <2>4, <2>5, <2>6, <2>7
<1> QED
  BY <1>2, <1>3

LEMMA MessageTypes ==
  ASSUME TypeOK, NEW r \in Replicas, NEW b \in Ballots, NEW c \in Commands,
         NEW hs \in Hash, NEW rep \in Hash, NEW dep \in Dep, NEW s \in Nat
  PROVE  /\ \A Q \in SUBSET Replicas : AcksTo(Q, r, b, c, dep, hs, s) \in SUBSET FastAck
         /\ AcksOf(r, c, dep, hs, s) \in SUBSET FastAck
         /\ SlowAcksOf(r, c) \in SUBSET FastAck
         /\ \A t \in {"reply", "fastAck", "slowAck", "accept"} :
              /\ ClientMsgIn(b, t, r, c, hs, rep) \in SUBSET ToClient
              /\ ClientMsg(t, r, c, hs, rep) \in SUBSET ToClient
              /\ ClientMsg(t, r, c, Nil, Nil) \in SUBSET ToClient
<1>1. ballot[r] \in Ballots /\ Nil \in Hash /\ Nil \in Dep /\ 0 \in Nat
  BY DEF TypeOK, Hash, Dep
<1>2. ASSUME NEW Q \in SUBSET Replicas, NEW a \in Ballots, NEW e \in Dep, NEW g \in Hash, NEW n \in Nat
      PROVE  AcksTo(Q, r, a, c, e, g, n) \in SUBSET FastAck
  BY DEF AcksTo, FastAck
<1>3. AcksOf(r, c, dep, hs, s) \in SUBSET FastAck /\ SlowAcksOf(r, c) \in SUBSET FastAck
  BY <1>1, <1>2 DEF AcksOf, SlowAcksOf
<1>4. ASSUME NEW a \in Ballots, NEW g \in Hash, NEW f \in Hash,
             NEW t \in {"reply", "fastAck", "slowAck", "accept"}
      PROVE  ClientMsgIn(a, t, r, c, g, f) \in SUBSET ToClient
  BY DEF ClientMsgIn, ToClient
<1> QED
  BY <1>1, <1>2, <1>3, <1>4 DEF ClientMsg
-------------------------------------------------------------------------------
(***************************************************************************)
(* Type correctness.                                                       *)
(***************************************************************************)
\* What a handler ends with keeps the types.
LEMMA SettleTypes ==
  ASSUME TypeOK, NEW r \in Replicas, NEW c \in Commands, NEW x \in Outcome,
         NEW wakes, NEW taken, NEW sent \in SUBSET FastAck, NEW clientMsgs \in SUBSET ToClient,
         Settle(r, c, x, wakes, taken, sent, clientMsgs)
  PROVE  /\ acks' \in SUBSET FastAck
         /\ toClient' \in SUBSET ToClient
         /\ cmdDescs' \in [Replicas -> [Commands -> CommandDesc]]
         /\ delivered' \in [Replicas -> SUBSET Commands]
         /\ executing' \in [Replicas -> SUBSET Commands]
         /\ replying' \in [Replicas -> SUBSET Commands]
         /\ deliverChan' \in [Replicas -> SUBSET (Commands \X Commands)]
         /\ log' \in [Replicas -> Seq(Commands)]
         /\ \A q \in Replicas : executing'[q] \cup replying'[q] \subseteq delivered'[q]
<1> DEFINE now == x.done /\ x.d.seq
<1>1. x.d \in CommandDesc /\ x.waitsFor \in SUBSET Commands /\ x.done \in BOOLEAN
      /\ x.d.seq \in BOOLEAN /\ x.d.successors \in SUBSET Commands /\ x.d.hs \in Hash
  BY DEF Outcome, CommandDesc
<1>2. acks' \in SUBSET FastAck
  BY DEF Settle, TypeOK
<1>3. /\ delivered' = [delivered EXCEPT ![r] = IF x.done THEN @ \cup {c} ELSE @]
      /\ executing' = [executing EXCEPT ![r] = IF x.done /\ ~now THEN @ \cup {c} ELSE @]
      /\ replying' = replying
  BY DEF Settle
<1>4. /\ delivered' \in [Replicas -> SUBSET Commands]
      /\ executing' \in [Replicas -> SUBSET Commands]
      /\ \A q \in Replicas : executing'[q] \cup replying'[q] \subseteq delivered'[q]
  BY <1>3 DEF TypeOK
<1>5. log' \in [Replicas -> Seq(Commands)]
  <2>1. Append(log[r], c) \in Seq(Commands)
    BY DEF TypeOK
  <2>2. log' = [log EXCEPT ![r] = IF now /\ ~x.d.noop THEN Append(log[r], c) ELSE log[r]]
    BY DEF Settle
  <2> QED
    BY <2>1, <2>2 DEF TypeOK
<1>6. deliverChan' \in [Replicas -> SUBSET (Commands \X Commands)]
  <2>1. {c} \X x.d.successors \in SUBSET (Commands \X Commands)
    BY <1>1
  <2>2. PICK stale : deliverChan' = [deliverChan EXCEPT ![r] =
                      (@ \ (wakes \cup stale)) \cup IF now THEN {c} \X x.d.successors ELSE {}]
    BY DEF Settle
  <2> QED
    BY <2>1, <2>2 DEF TypeOK
<1>7. cmdDescs' \in [Replicas -> [Commands -> CommandDesc]]
  <2> DEFINE D == cmdDescs[r]
             after(b) == IF b = c THEN IF now THEN Closed ELSE x.d
                         ELSE IF b \in x.waitsFor \ delivered[r]
                         THEN WokenBy(D[b], c)
                         ELSE D[b]
  <2>1. cmdDescs' = [cmdDescs EXCEPT ![r] = [b \in Commands |-> after(b)]]
    BY ONLY Settle(r, c, x, wakes, taken, sent, clientMsgs) DEF Settle
  <2>2. ASSUME NEW b \in Commands PROVE after(b) \in CommandDesc
    <3>1. D[b] \in CommandDesc
      BY DEF TypeOK
    <3>2. Opened(D[b], FALSE) \in CommandDesc
      BY <3>1, DescTypes
    <3>3. WokenBy(D[b], c) \in CommandDesc
      BY <3>2 DEF CommandDesc, WokenBy
    <3> QED
      BY <1>1, <3>1, <3>3, DescTypes
  <2> HIDE DEF after
  <2> QED
    BY <2>1, <2>2 DEF TypeOK
<1>8. toClient' \in SUBSET ToClient
  <2>1. log'[r] \in Hash
    BY <1>5 DEF Hash
  <2>2. ClientMsg("reply", r, c, x.d.hs, log'[r]) \in SUBSET ToClient
    <3>1. ballot[r] \in Ballots
      BY DEF TypeOK
    <3> QED
      BY <1>1, <2>1, <3>1 DEF ClientMsg, ClientMsgIn, ToClient
  <2> DEFINE R == ClientMsg("reply", r, c, x.d.hs, log'[r])
  <2>3. toClient' = toClient \cup clientMsgs \cup IF now /\ r = LeaderOf(r) THEN R ELSE {}
    BY DEF Settle
  <2> HIDE DEF R, now
  <2>4. toClient' \subseteq toClient \cup clientMsgs \cup R
    BY <2>3
  <2> QED
    BY <2>2, <2>4 DEF R, TypeOK
<1>9. replying' \in [Replicas -> SUBSET Commands]
  BY <1>3 DEF TypeOK
<1> QED
  BY <1>2, <1>4, <1>5, <1>6, <1>7, <1>8, <1>9

\* The part of the state that the handlers of a descriptor change.
HandlerTypeOK ==
  /\ acks \in SUBSET FastAck
  /\ toClient \in SUBSET ToClient
  /\ cmdDescs \in [Replicas -> [Commands -> CommandDesc]]
  /\ delivered \in [Replicas -> SUBSET Commands]
  /\ executing \in [Replicas -> SUBSET Commands]
  /\ replying \in [Replicas -> SUBSET Commands]
  /\ deliverChan \in [Replicas -> SUBSET (Commands \X Commands)]
  /\ log \in [Replicas -> Seq(Commands)]
  /\ \A q \in Replicas : executing[q] \cup replying[q] \subseteq delivered[q]

\* The part the run loop changes before it calls them.
LoopTypeOK ==
  /\ proposes \in [Replicas -> SUBSET Commands]
  /\ reproposed \in [Replicas -> SUBSET Commands]
  /\ \A r \in Replicas : reproposed[r] \subseteq proposes[r]
  /\ lastCmd \in [Replicas -> AtMostOne(Commands)]
  /\ lastWrite \in [Replicas -> AtMostOne(Commands \ Reads)]
  /\ hlog \in [Replicas -> HashLog]
  /\ pendingHashUpds \in [Replicas -> SUBSET Update]
  /\ stopped \in [Replicas -> {"no", "fatal", "hangs"}]

BallotTypeOK ==
  /\ ballot \in [Replicas -> Ballots] /\ cballot \in [Replicas -> Ballots]
  /\ status \in [Replicas -> {"NORMAL", "RECOVERING"}]

LEMMA TypeParts ==
  TypeOK <=> HandlerTypeOK /\ LoopTypeOK /\ BallotTypeOK /\ seqnum \in [Replicas -> Nat]
BY DEF TypeOK, HandlerTypeOK, LoopTypeOK, BallotTypeOK

LEMMA TypePartsNext ==
  HandlerTypeOK' /\ LoopTypeOK' /\ BallotTypeOK' /\ seqnum' \in [Replicas -> Nat] => TypeOK'
BY DEF TypeOK, HandlerTypeOK, LoopTypeOK, BallotTypeOK

LEMMA RecordTypes ==
  ASSUME TypeOK, NEW r \in Replicas, NEW u \in Update, NEW h \in HashLog,
         RecordLeaderHash(r, u, h)
  PROVE  /\ hlog' \in [Replicas -> HashLog]
         /\ pendingHashUpds' \in [Replicas -> SUBSET Update]
         /\ stopped' \in [Replicas -> {"no", "fatal", "hangs"}]
<1>1. hlog' \in [Replicas -> HashLog]
  <2>1. CASE u.hash = Nil
    BY <2>1 DEF RecordLeaderHash, TypeOK
  <2>2. CASE u.hash # Nil
    <3>1. u \in Synced
      BY <2>2 DEF Update, Hash, Synced
    <3>2. HashLogUpdate(h, u) \in HashLog
      <4>1. u.cmd \in Commands
        BY <3>1 DEF Synced
      <4> QED
        BY <3>1, <4>1, HashLogTypes
    <3> QED
      BY <3>2 DEF RecordLeaderHash, TypeOK
  <2> QED
    BY <2>1, <2>2
<1>2. pendingHashUpds' \in [Replicas -> SUBSET Update] /\ stopped' \in [Replicas -> {"no", "fatal", "hangs"}]
  BY DEF RecordLeaderHash, TypeOK
<1> QED
  BY <1>1, <1>2

LEMMA TakesProposeTypes ==
  ASSUME TypeOK, NEW r \in Replicas, NEW c \in Commands, NEW d \in CommandDesc,
         TakesPropose(r, c, d)
  PROVE  HandlerTypeOK' /\ seqnum' \in [Replicas -> Nat]
<1> DEFINE e == [d EXCEPT !.propose = "set", !.noop = FALSE]
           f == [e EXCEPT !.dep = d.proposeDep, !.phase = "PRE_ACCEPT"]
           g == IF r \in FQ[ballot[r]] THEN f ELSE e
<1>1. g \in CommandDesc
  <2>1. e \in CommandDesc
    BY DEF CommandDesc
  <2>2. f \in CommandDesc
    BY DEF CommandDesc, Phase
  <2> QED
    BY <2>1, <2>2
<1>2. \/ RecallsLeader(r, c, g) /\ d.afterPropagate # None /\ g.afterPropagate = d.afterPropagate
      \/ SendsFastAck(r, c, g)
      \/ Settle(r, c, Handled(g), {}, {}, {}, {}) /\ UNCHANGED seqnum
  BY DEF TakesPropose
<1> HIDE DEF g
<1>3. ballot[r] \in Ballots /\ Nil \in Hash
  BY DEF TypeOK, Hash
<1>4. CASE RecallsLeader(r, c, g) /\ d.afterPropagate # None /\ g.afterPropagate = d.afterPropagate
  <2> DEFINE x == FastAckFromLeader(r, ballot[r], c, Handled([g EXCEPT !.afterPropagate = None]),
                                    g.afterPropagate)
  <2>1. [g EXCEPT !.afterPropagate = None] \in CommandDesc /\ g.afterPropagate \in Dep
    BY <1>1, <1>4 DEF CommandDesc
  <2>2. x \in Outcome
    BY <1>3, <2>1, DescTypes, HandlerTypes
  <2>3. Settle(r, c, x, {}, {}, SlowAcksOf(r, c), ClientMsg("slowAck", r, c, Nil, Nil))
        /\ UNCHANGED seqnum
    BY <1>4 DEF RecallsLeader
  <2>4. SlowAcksOf(r, c) \in SUBSET FastAck /\ ClientMsg("slowAck", r, c, Nil, Nil) \in SUBSET ToClient
    <3>1. Nil \in Dep /\ 0 \in Nat
      BY DEF Dep
    <3> QED
      BY <1>3, <3>1, MessageTypes
  <2> HIDE DEF x
  <2> QED
    BY <2>2, <2>3, <2>4, SettleTypes DEF HandlerTypeOK, TypeOK
<1>5. CASE SendsFastAck(r, c, g)
  <2> DEFINE s == IF r = LeaderOf(r) THEN seqnum[r] ELSE 0
             y == [Handled(g) EXCEPT !.done = Speculates(r, c) /\ MayDeliver(r, ballot[r], c, g)]
             x == IF r = LeaderOf(r) THEN FastAckFromLeader(r, ballot[r], c, y, g.dep)
                                     ELSE CommonCaseFastAck(r, ballot[r], c, y, r, g.dep)
             M == IF Speculates(r, c) THEN {} ELSE ClientMsg("fastAck", r, c, g.hs, Nil)
  <2>1. g.dep \in Dep /\ g.hs \in Hash /\ s \in Nat
    BY <1>1 DEF CommandDesc, TypeOK
  <2>2. y \in Outcome
    <3>1. Handled(g) \in Outcome
      BY <1>1, DescTypes
    <3> QED
      BY <3>1 DEF Outcome
  <2>3. x \in Outcome
    <3> HIDE DEF y
    <3> QED
      BY <1>3, <2>1, <2>2, HandlerTypes
  <2>4. AcksOf(r, c, g.dep, g.hs, s) \in SUBSET FastAck /\ M \in SUBSET ToClient
    <3> HIDE DEF s
    <3>1. AcksOf(r, c, g.dep, g.hs, s) \in SUBSET FastAck
      BY <1>3, <2>1, MessageTypes
    <3>2. ClientMsg("fastAck", r, c, g.hs, Nil) \in SUBSET ToClient
      BY <1>3, <2>1, MessageTypes
    <3> QED
      BY <3>1, <3>2
  <2>5. /\ Settle(r, c, x, {}, {}, AcksOf(r, c, g.dep, g.hs, s), M)
        /\ seqnum' = [seqnum EXCEPT ![r] = IF r = LeaderOf(r) THEN @ + 1 ELSE @]
    BY <1>5 DEF SendsFastAck
  <2>6. seqnum' \in [Replicas -> Nat]
    BY <2>5 DEF TypeOK
  <2> HIDE DEF x, M, s
  <2>7. HandlerTypeOK'
    BY <2>3, <2>4, <2>5, SettleTypes DEF HandlerTypeOK
  <2> QED
    BY <2>6, <2>7
<1>6. CASE Settle(r, c, Handled(g), {}, {}, {}, {}) /\ UNCHANGED seqnum
  <2>1. Handled(g) \in Outcome
    BY <1>1, DescTypes
  <2>2. {} \in SUBSET FastAck /\ {} \in SUBSET ToClient
    OBVIOUS
  <2> QED
    BY <1>6, <2>1, <2>2, SettleTypes DEF HandlerTypeOK, TypeOK
<1> QED
  BY <1>2, <1>4, <1>5, <1>6


\* The descriptor with which a proposal is registered.
LEMMA RegisteredDesc ==
  ASSUME TypeOK, NEW r \in Replicas, NEW c \in Commands, NEW d \in CommandDesc
  PROVE  LET a == HashLogAppend(hlog[r], c)
         IN  /\ a.log \in HashLog /\ a.hash \in Seq(Commands)
             /\ [d EXCEPT !.proposeDep = DepOf(r, c), !.hs = a.hash] \in CommandDesc
<1> DEFINE a == HashLogAppend(hlog[r], c)
           e == [d EXCEPT !.proposeDep = DepOf(r, c), !.hs = a.hash]
<1>1. hlog[r] \in HashLog
  BY DEF TypeOK
<1>2. a.log \in HashLog /\ a.hash \in Seq(Commands)
  <2>1. [cmd |-> c, seqnum |-> 0, hash |-> <<>>] \in Synced
    BY DEF Synced
  <2> QED
    BY <1>1, <2>1, HashLogTypes
<1>3. e \in CommandDesc
  <2>1. DepOf(r, c) \in Dep
    <3>1. lastCmd[r] \in AtMostOne(Commands) /\ lastWrite[r] \in AtMostOne(Commands \ Reads)
      BY DEF TypeOK
    <3>2. AtMostOne(Commands) \subseteq SUBSET Commands
          /\ AtMostOne(Commands \ Reads) \subseteq SUBSET Commands
      BY Zenon DEF AtMostOne
    <3>3. DepOf(r, c) \in {lastCmd[r], lastWrite[r]}
      BY DEF DepOf
    <3> QED
      <4>1. lastCmd[r] \in SUBSET Commands /\ lastWrite[r] \in SUBSET Commands
        BY <3>1, <3>2
      <4> QED
        BY <3>3, <4>1 DEF Dep
  <2> HIDE DEF a
  <2>2. a.hash \in Hash
    BY <1>2 DEF Hash
  <2> QED
    BY <2>1, <2>2 DEF CommandDesc
<1> QED
  BY <1>2, <1>3

\* A step of the common case keeps the types.
LEMMA RegistersTypes ==
  ASSUME TypeOK, NEW r \in Replicas, NEW c \in Commands, NEW d \in CommandDesc,
         Registers(r, c, d)
  PROVE  TypeOK'
<1> DEFINE a == HashLogAppend(hlog[r], c)
           U == {u \in pendingHashUpds[r] : u.cmd = c /\ r # LeaderOf(r)}
           u == CHOOSE v \in U : TRUE
           e == IF d.proposeDep = Nil
                THEN [d EXCEPT !.proposeDep = DepOf(r, c), !.hs = a.hash] ELSE d
<1>2. a.log \in HashLog
  BY RegisteredDesc
<1>3. e \in CommandDesc
  BY RegisteredDesc
<1>4. /\ reproposed' = [reproposed EXCEPT ![r] = @ \ {c}]
      /\ proposes' = [proposes EXCEPT ![r] = @ \cup {c}]
      /\ lastCmd' = [lastCmd EXCEPT ![r] = {c}]
      /\ lastWrite' = [lastWrite EXCEPT ![r] = IF c \in Reads THEN @ ELSE {c}]
      /\ UNCHANGED ballotVars
      /\ IF U = {} THEN hlog' = [hlog EXCEPT ![r] = a.log] /\ UNCHANGED <<pendingHashUpds, stopped>>
                   ELSE RecordLeaderHash(r, u, a.log)
      /\ IF d.seq THEN TakesPropose(r, c, e)
         ELSE /\ cmdDescs' = [cmdDescs EXCEPT ![r][c] =
                   [e EXCEPT !.propose = IF @ = "none" THEN "sent" ELSE @]]
              /\ UNCHANGED <<seqnum, execVars, acks, toClient>>
  BY DEF Registers
<1> HIDE DEF a, e
<1>5. LoopTypeOK'
  <2>1. /\ proposes' \in [Replicas -> SUBSET Commands]
        /\ reproposed' \in [Replicas -> SUBSET Commands]
        /\ \A q \in Replicas : reproposed'[q] \subseteq proposes'[q]
    BY <1>4 DEF TypeOK
  <2>2. /\ lastCmd' \in [Replicas -> AtMostOne(Commands)]
        /\ lastWrite' \in [Replicas -> AtMostOne(Commands \ Reads)]
    <3>1. {c} \in AtMostOne(Commands) /\ (c \notin Reads => {c} \in AtMostOne(Commands \ Reads))
      BY DEF AtMostOne
    <3> QED
      BY <1>4, <3>1 DEF TypeOK
  <2>3. /\ hlog' \in [Replicas -> HashLog]
        /\ pendingHashUpds' \in [Replicas -> SUBSET Update]
        /\ stopped' \in [Replicas -> {"no", "fatal", "hangs"}]
    <3>1. CASE U = {}
      BY <1>2, <1>4, <3>1 DEF TypeOK
    <3>2. CASE U # {}
      <4>1. u \in Update
        BY <3>2 DEF TypeOK
      <4> HIDE DEF u, U
      <4> QED
        BY <1>2, <1>4, <3>2, <4>1, RecordTypes
    <3> QED
      BY <3>1, <3>2
  <2> QED
    BY <2>1, <2>2, <2>3 DEF LoopTypeOK
<1>6. HandlerTypeOK' /\ seqnum' \in [Replicas -> Nat]
  <2>1. CASE d.seq
    BY <1>3, <1>4, <2>1, TakesProposeTypes
  <2>2. CASE ~d.seq
    <3> DEFINE n == [e EXCEPT !.propose = IF @ = "none" THEN "sent" ELSE @]
    <3>1. n \in CommandDesc
      BY <1>3 DEF CommandDesc
    <3>2. cmdDescs' = [cmdDescs EXCEPT ![r][c] = n] /\ UNCHANGED <<seqnum, execVars, acks, toClient>>
      BY <1>4, <2>2
    <3>3. [cmdDescs[r] EXCEPT ![c] = n] \in [Commands -> CommandDesc]
      <4> HIDE DEF n
      <4> QED
        BY <3>1 DEF TypeOK
    <3>4. cmdDescs' \in [Replicas -> [Commands -> CommandDesc]]
      <4> HIDE DEF n
      <4> QED
        BY <3>2, <3>3 DEF TypeOK
    <3> HIDE DEF n
    <3>5. /\ UNCHANGED <<acks, toClient, seqnum>>
          /\ UNCHANGED <<delivered, executing, replying, deliverChan, log>>
      BY <3>2 DEF execVars
    <3> QED
      BY <3>4, <3>5 DEF HandlerTypeOK, TypeOK
  <2> QED
    BY <2>1, <2>2
<1>7. BallotTypeOK'
  BY <1>4 DEF BallotTypeOK, TypeOK, ballotVars
<1> QED
  BY <1>5, <1>6, <1>7, TypePartsNext

LEMMA ReceiveAckTypes ==
  ASSUME TypeOK, NEW r \in Replicas, NEW m \in acks, ReceiveAck(r, m)
  PROVE  TypeOK'
<1> DEFINE d == Opened(cmdDescs[r][m.cmd], r = LeaderOf(r))
           u == [cmd |-> m.cmd, seqnum |-> m.seqnum, hash |-> m.checksum]
<1>1. /\ m.cmd \in Commands /\ m.from \in Replicas /\ m.dep \in Dep
      /\ m.checksum \in Hash /\ m.seqnum \in Nat
  BY DEF TypeOK, FastAck
<1>2. d \in CommandDesc /\ Handled(d) \in Outcome /\ ballot[r] \in Ballots
  <2>1. cmdDescs[r][m.cmd] \in CommandDesc
    BY <1>1 DEF TypeOK
  <2> QED
    BY <2>1, DescTypes DEF TypeOK
<1>3. /\ UNCHANGED <<ballotVars, runVars, seqnum>>
      /\ \/ RecordLeaderHash(r, u, hlog[r])
         \/ UNCHANGED <<hashVars, stopped>>
      /\ \/ acks' = acks \ {m} /\ UNCHANGED <<cmdDescs, execVars, toClient>>
         \/ HandleAck(r, m, d)
         \/ Settle(r, m.cmd, Handled(d), {}, {m}, {}, {})
  BY DEF ReceiveAck
<1> HIDE DEF d
<1>4. LoopTypeOK'
  <2>1. u \in Update /\ hlog[r] \in HashLog
    BY <1>1 DEF Update, TypeOK
  <2> HIDE DEF u
  <2>2. CASE RecordLeaderHash(r, u, hlog[r])
    BY <1>3, <2>1, <2>2, RecordTypes DEF LoopTypeOK, runVars, TypeOK
  <2>3. CASE UNCHANGED <<hashVars, stopped>>
    BY <1>3, <2>3 DEF LoopTypeOK, hashVars, runVars, TypeOK
  <2> QED
    BY <1>3, <2>2, <2>3
<1>5. HandlerTypeOK'
  <2>1. ASSUME NEW x \in Outcome, NEW sent \in SUBSET FastAck, NEW cm \in SUBSET ToClient,
               Settle(r, m.cmd, x, {}, {m}, sent, cm)
        PROVE  HandlerTypeOK'
    BY <1>1, <2>1, SettleTypes DEF HandlerTypeOK
  <2>2. {} \in SUBSET FastAck /\ {} \in SUBSET ToClient
    OBVIOUS
  <2>3. CASE acks' = acks \ {m} /\ UNCHANGED <<cmdDescs, execVars, toClient>>
    <3>1. HandlerTypeOK /\ acks' \subseteq acks
      BY <2>3, TypeParts
    <3> QED
      BY <2>3, <3>1 DEF HandlerTypeOK, execVars
  <2>4. CASE Settle(r, m.cmd, Handled(d), {}, {m}, {}, {})
    BY <1>2, <2>1, <2>2, <2>4
  <2>5. CASE HandleAck(r, m, d)
    <3> DEFINE x == CommonCaseFastAck(r, ballot[r], m.cmd, Handled(d), m.from, m.dep)
               y == [d EXCEPT !.afterPropagate = m.dep]
               z == FastAckFromLeader(r, ballot[r], m.cmd, Handled(d), m.dep)
    <3>1. x \in Outcome /\ z \in Outcome
      BY <1>1, <1>2, HandlerTypes
    <3>2. y \in CommandDesc
      BY <1>1, <1>2 DEF CommandDesc
    <3> HIDE DEF y
    <3>3. Handled(y) \in Outcome
      BY <3>2, DescTypes
    <3>4. /\ SlowAcksOf(r, m.cmd) \in SUBSET FastAck
          /\ ClientMsg("slowAck", r, m.cmd, Nil, Nil) \in SUBSET ToClient
      <4>1. Nil \in Dep /\ Nil \in Hash /\ 0 \in Nat
        BY DEF Dep, Hash
      <4> QED
        BY <1>1, <1>2, <4>1, MessageTypes
    <3>5. \/ Settle(r, m.cmd, x, {}, {m}, {}, {})
          \/ Settle(r, m.cmd, Handled(y), {}, {m}, {}, {})
          \/ Settle(r, m.cmd, z, {}, {m}, SlowAcksOf(r, m.cmd), ClientMsg("slowAck", r, m.cmd, Nil, Nil))
      BY <2>5 DEF HandleAck, y
    <3> HIDE DEF x, z
    <3> QED
      BY <2>1, <2>2, <3>1, <3>3, <3>4, <3>5
  <2> QED
    BY <1>3, <2>3, <2>4, <2>5
<1>6. BallotTypeOK' /\ seqnum' \in [Replicas -> Nat]
  BY <1>3 DEF BallotTypeOK, TypeOK, ballotVars
<1> QED
  BY <1>4, <1>5, <1>6, TypePartsNext

LEMMA StepTypes ==
  ASSUME TypeOK, NEW r \in Replicas, ReplicaStep(r)
  PROVE  TypeOK'
<1> USE DEF ballotVars, runVars, hashVars, execVars
<1>1. ASSUME NEW c \in Commands PROVE cmdDescs[r][c] \in CommandDesc /\ ballot[r] \in Ballots
  BY DEF TypeOK
<1>2. ASSUME NEW c \in Commands, Propose(r, c) PROVE TypeOK'
  <2>1. Opened(cmdDescs[r][c], r = LeaderOf(r)) \in CommandDesc
    BY <1>1, DescTypes
  <2> QED
    BY <1>2, <2>1, RegistersTypes DEF Propose
<1>3. ASSUME NEW c \in Commands, ProposeDelivered(r, c) PROVE TypeOK'
  <2>1. /\ UNCHANGED <<ballotVars, runVars, hashVars, seqnum, cmdDescs, execVars, acks, toClient>>
        /\ stopped' \in [Replicas -> {"no", "fatal", "hangs"}]
    BY <1>3 DEF ProposeDelivered, TypeOK
  <2>2. HandlerTypeOK /\ LoopTypeOK /\ BallotTypeOK /\ seqnum \in [Replicas -> Nat]
    BY TypeParts
  <2>3. HandlerTypeOK' /\ seqnum' \in [Replicas -> Nat]
    BY <2>1, <2>2 DEF HandlerTypeOK
  <2>4. LoopTypeOK' /\ BallotTypeOK'
    BY <2>1, <2>2 DEF LoopTypeOK, BallotTypeOK
  <2> QED
    BY <2>3, <2>4, TypePartsNext
<1>4. ASSUME NEW c \in Commands, HandlePropose(r, c) PROVE TypeOK'
  <2>1. HandlerTypeOK' /\ seqnum' \in [Replicas -> Nat]
    BY <1>1, <1>4, TakesProposeTypes DEF HandlePropose
  <2>2. LoopTypeOK' /\ BallotTypeOK'
    <3>1. LoopTypeOK /\ BallotTypeOK /\ UNCHANGED <<ballotVars, runVars, hashVars, stopped>>
      BY <1>4, TypeParts DEF HandlePropose
    <3> QED
      BY <3>1 DEF LoopTypeOK, BallotTypeOK
  <2> QED
    BY <2>1, <2>2, TypePartsNext
<1>5. ASSUME NEW w \in deliverChan[r], Deliver(r, w) PROVE TypeOK'
  <2> DEFINE c == w[2]
             d == Opened(cmdDescs[r][c], FALSE)
             x == [Handled(d) EXCEPT !.done = MayDeliver(r, ballot[r], c, d)]
  <2>1. c \in Commands
    BY DEF TypeOK
  <2>2. d \in CommandDesc
    BY <1>1, <2>1, DescTypes
  <2>3. x \in Outcome
    <3>1. Handled(d) \in Outcome
      BY <2>2, DescTypes
    <3> QED
      BY <3>1 DEF Outcome, MayDeliver
  <2>4. UNCHANGED <<ballotVars, runVars, hashVars, seqnum, stopped>>
    BY <1>5 DEF Deliver
  <2>0. HandlerTypeOK /\ LoopTypeOK /\ BallotTypeOK /\ seqnum \in [Replicas -> Nat]
    BY TypeParts
  <2>7. LoopTypeOK' /\ BallotTypeOK' /\ seqnum' \in [Replicas -> Nat]
    BY <2>0, <2>4 DEF LoopTypeOK, BallotTypeOK
  <2>5. CASE c \in delivered[r]
    <3>1. /\ deliverChan' = [deliverChan EXCEPT ![r] = @ \ {w}]
          /\ UNCHANGED <<cmdDescs, delivered, executing, replying, log, acks, toClient>>
      BY <1>5, <2>5 DEF Deliver
    <3> QED
      BY <2>0, <2>7, <3>1, TypePartsNext DEF HandlerTypeOK
  <2>6. CASE c \notin delivered[r]
    <3>1. Settle(r, c, x, {w}, {}, {}, {})
      BY <1>5, <2>6 DEF Deliver
    <3>2. {} \in SUBSET FastAck /\ {} \in SUBSET ToClient
      OBVIOUS
    <3> HIDE DEF x, c
    <3>3. HandlerTypeOK'
      BY <2>1, <2>3, <3>1, <3>2, SettleTypes DEF HandlerTypeOK
    <3> QED
      BY <2>7, <3>3, TypePartsNext
  <2> QED
    BY <2>5, <2>6
<1>6. ASSUME NEW c \in Commands, Execute(r, c) PROVE TypeOK'
  <2>1. cmdDescs[r][c].successors \in SUBSET Commands
    BY <1>1 DEF CommandDesc
  <2>2. {c} \X cmdDescs[r][c].successors \in SUBSET (Commands \X Commands)
    BY <2>1
  <2>3. Append(log[r], c) \in Seq(Commands)
    BY DEF TypeOK
  <2>4. /\ log' \in [Replicas -> Seq(Commands)]
        /\ deliverChan' \in [Replicas -> SUBSET (Commands \X Commands)]
    BY <1>6, <2>2, <2>3 DEF Execute, TypeOK
  <2>5. /\ c \in executing[r]
        /\ executing' = [executing EXCEPT ![r] = @ \ {c}]
        /\ replying' = [replying EXCEPT ![r] = @ \cup {c}]
        /\ UNCHANGED <<ballotVars, runVars, hashVars, seqnum, cmdDescs, delivered, stopped, acks, toClient>>
    BY <1>6 DEF Execute
  <2>6. HandlerTypeOK /\ LoopTypeOK /\ BallotTypeOK /\ seqnum \in [Replicas -> Nat]
    BY TypeParts
  <2>7. HandlerTypeOK' /\ seqnum' \in [Replicas -> Nat]
    BY <2>4, <2>5, <2>6 DEF HandlerTypeOK
  <2>8. LoopTypeOK' /\ BallotTypeOK'
    BY <2>5, <2>6 DEF LoopTypeOK, BallotTypeOK
  <2> QED
    BY <2>7, <2>8, TypePartsNext
<1>7. ASSUME NEW c \in Commands, Reply(r, c) PROVE TypeOK'
  <2>1. ReplyOf(r, c) \in SUBSET ToClient
    <3>1. cmdDescs[r][c].hs \in Hash
      BY <1>1 DEF CommandDesc
    <3>2. LogAt(r, c) \in Hash
      <4>1. log[r] \in Seq(Commands)
        BY DEF TypeOK
      <4>2. LastNode(log[r], c) \in 0 .. Len(log[r]) /\ Len(log[r]) \in Nat
        BY <4>1, LastNodeIn
      <4> DEFINE k == LastNode(log[r], c)
      <4>3. LogAt(r, c) = SubSeq(log[r], 1, k)
        BY DEF LogAt, LastNode
      <4> HIDE DEF k
      <4> QED
        BY <4>1, <4>2, <4>3 DEF Hash, k
    <3> QED
      BY <1>1, <3>1, <3>2 DEF ReplyOf, ClientMsg, ClientMsgIn, ToClient
  <2>2. /\ toClient' = toClient \cup ReplyOf(r, c)
        /\ UNCHANGED <<ballotVars, runVars, hashVars, seqnum, cmdDescs, execVars, stopped, acks>>
    BY <1>7 DEF Reply
  <2>3. HandlerTypeOK /\ LoopTypeOK /\ BallotTypeOK /\ seqnum \in [Replicas -> Nat]
    BY TypeParts
  <2>4. HandlerTypeOK' /\ seqnum' \in [Replicas -> Nat]
    BY <2>1, <2>2, <2>3 DEF HandlerTypeOK
  <2>5. LoopTypeOK' /\ BallotTypeOK'
    BY <2>2, <2>3 DEF LoopTypeOK, BallotTypeOK
  <2> QED
    BY <2>4, <2>5, TypePartsNext
<1>8. ASSUME NEW m \in acks, ReceiveAck(r, m) PROVE TypeOK'
  BY <1>8, ReceiveAckTypes
<1> QED
  BY <1>2, <1>3, <1>4, <1>5, <1>6, <1>7, <1>8 DEF ReplicaStep

\* The commands a replica has descriptors with a proposal for are those it has received.
ProposedIsKnown ==
  \A r \in Replicas : \A c \in Commands : cmdDescs[r][c].propose # "none" => c \in proposes[r]

\* What the handlers leave alone of a descriptor.
Same(d, e) ==
  /\ e.open = d.open /\ e.seq = d.seq /\ e.noop = d.noop /\ e.propose = d.propose
  /\ e.proposeDep = d.proposeDep /\ e.hs = d.hs /\ e.afterPropagate = d.afterPropagate
  /\ e.successors = d.successors

Framed(r, c, x, y) ==
  /\ Same(x.d, y.d) /\ y.d.dep = x.d.dep /\ y.d.slowPath = x.d.slowPath
  /\ y.waitsFor \subseteq x.waitsFor \cup Deps(x.d.dep)
  /\ y.done => x.done \/ (x.d.propose = "set" /\ c \notin delivered[r])

LEMMA AddToFrame ==
  ASSUME NEW r, NEW b, NEW c, NEW x \in Outcome, NEW path \in {"slow", "fast"},
         NEW q, NEW isLeader, NEW dep
  PROVE  Framed(r, c, x, AddTo(r, b, c, x, path, q, isLeader, dep))
<1> DEFINE Q   == IF path = "slow" THEN SQ ELSE FQ[b]
           n   == IF path = "slow" THEN MajoritySize ELSE Cardinality(Q)
           new == Add(x.d[path], q, isLeader, dep)
           hit == Takes(x.d[path], Q, q) /\ IsFull(new, n)
           d   == [x.d EXCEPT ![path] = IF Takes(@, Q, q) THEN new ELSE @,
                              !.phase = IF hit THEN "COMMIT" ELSE @]
           W   == x.waitsFor \cup IF hit THEN Deps(d.dep) ELSE {}
           may == x.done \/ (hit /\ MayDeliver(r, b, c, d))
           y   == AddTo(r, b, c, x, path, q, isLeader, dep)
<1>1. y = [d |-> d, waitsFor |-> W, done |-> may]
  BY DEF AddTo
<1>2. Same(x.d, d) /\ d.dep = x.d.dep /\ d.slowPath = x.d.slowPath
  <2> HIDE DEF hit, new
  <2> QED
    BY DEF Same, Outcome, CommandDesc
<1>3. W \subseteq x.waitsFor \cup Deps(x.d.dep)
  <2> HIDE DEF hit, d
  <2> QED
    BY <1>2
<1>4. may => x.done \/ (x.d.propose = "set" /\ c \notin delivered[r])
  <2> HIDE DEF hit, d
  <2> QED
    BY <1>2 DEF MayDeliver, Same
<1> HIDE DEF d, W, may
<1> QED
  BY <1>1, <1>2, <1>3, <1>4 DEF Framed

LEMMA FramedTwice ==
  ASSUME NEW r, NEW c, NEW x, NEW y, NEW z, Framed(r, c, x, y), Framed(r, c, y, z)
  PROVE  Framed(r, c, x, z)
BY DEF Framed, Same

LEMMA CommonCaseFrame ==
  ASSUME NEW r, NEW b, NEW c, NEW x \in Outcome, NEW q \in Replicas, NEW dep \in Dep
  PROVE  Framed(r, c, x, CommonCaseFastAck(r, b, c, x, q, dep))
<1> DEFINE y == IF dep = Nil THEN AddTo(r, b, c, x, "slow", q, FALSE, dep) ELSE x
           z == AddTo(r, b, c, y, "fast", q, FALSE, dep)
<1>1. y \in Outcome
  BY AddToType
<1>2. Framed(r, c, x, y)
  <2>1. Framed(r, c, x, AddTo(r, b, c, x, "slow", q, FALSE, dep))
    BY AddToFrame
  <2>2. Framed(r, c, x, x)
    BY DEF Framed, Same
  <2> QED
    BY <2>1, <2>2
<1>3. CommonCaseFastAck(r, b, c, x, q, dep) = IF y.done THEN y ELSE z
  BY DEF CommonCaseFastAck
<1> HIDE DEF y
<1>4. Framed(r, c, y, z)
  BY <1>1, AddToFrame
<1> HIDE DEF z
<1> QED
  BY <1>2, <1>3, <1>4, FramedTwice

\* The handler of the leader's ack: another's descriptor is on the slow path, and has taken
\* over the dependencies unless it has been delivered.
FramedFromLeader(r, b, c, x, y, dep) ==
  /\ Same(x.d, y.d)
  /\ y.d.dep \in {x.d.dep, dep}
  /\ y.waitsFor \subseteq x.waitsFor \cup Deps(x.d.dep) \cup Deps(dep)
  /\ y.done => x.done \/ (x.d.propose = "set" /\ c \notin delivered[r])
  /\ r # Leader(b) => y.d.slowPath /\ (y.done \/ Deps(y.d.dep) = Deps(dep))
  /\ r = Leader(b) => y.d.dep = x.d.dep /\ y.d.slowPath = x.d.slowPath

LEMMA FromLeaderFrame ==
  ASSUME NEW r \in Replicas, NEW b \in Ballots, NEW c, NEW x \in Outcome, NEW dep \in Dep
  PROVE  FramedFromLeader(r, b, c, x, FastAckFromLeader(r, b, c, x, dep), dep)
<1> DEFINE a == [x EXCEPT !.d.phase = "ACCEPT"]
           y == AddTo(r, b, c, a, "slow", Leader(b), TRUE, dep)
           v == AddTo(r, b, c, y, "fast", Leader(b), TRUE, dep)
           z == IF y.done THEN y ELSE v
           w == [z EXCEPT !.d.slowPath = TRUE,
                          !.d.dep = IF z.done \/ Deps(@) = Deps(dep) THEN @ ELSE dep]
           p == CommonCaseFastAck(r, b, c, w, r, Nil)
<1>1. Nil \in Dep /\ Leader(b) \in Replicas
  BY LeaderIsReplica DEF Dep
<1>2. a \in Outcome
  BY DEF Outcome, CommandDesc, Phase
<1>3. Framed(r, c, x, a)
  BY DEF Framed, Same, Outcome, CommandDesc
<1> HIDE DEF a
<1>4. y \in Outcome /\ Framed(r, c, a, y)
  BY <1>1, <1>2, AddToType, AddToFrame
<1> HIDE DEF y
<1>5. v \in Outcome /\ Framed(r, c, y, v)
  BY <1>1, <1>4, AddToType, AddToFrame
<1> HIDE DEF v
<1>6. z \in Outcome /\ Framed(r, c, x, z)
  BY <1>3, <1>4, <1>5, FramedTwice
<1>9. FastAckFromLeader(r, b, c, x, dep) = IF r = Leader(b) THEN z ELSE IF z.done THEN w ELSE p
  BY DEF FastAckFromLeader, v, y, a
<1> HIDE DEF z
<1>7. /\ w \in Outcome /\ Same(x.d, w.d) /\ w.d.slowPath /\ w.waitsFor = z.waitsFor /\ w.done = z.done
      /\ w.d.dep \in {x.d.dep, dep} /\ (w.done \/ Deps(w.d.dep) = Deps(dep))
  BY <1>6 DEF Framed, Same, Outcome, CommandDesc
<1> HIDE DEF w
<1>8. Framed(r, c, w, p)
  BY <1>1, <1>7, CommonCaseFrame
<1> HIDE DEF p
<1>10. CASE r = Leader(b)
  BY <1>6, <1>9, <1>10 DEF Framed, FramedFromLeader
<1>11. CASE r # Leader(b) /\ z.done
  BY <1>6, <1>7, <1>9, <1>11 DEF Framed, FramedFromLeader
<1>12. CASE r # Leader(b) /\ ~z.done
  <2>1. /\ Same(w.d, p.d) /\ p.d.dep = w.d.dep /\ p.d.slowPath = w.d.slowPath
        /\ p.waitsFor \subseteq z.waitsFor \cup Deps(w.d.dep)
        /\ z.waitsFor \subseteq x.waitsFor \cup Deps(x.d.dep)
        /\ p.done => x.d.propose = "set" /\ c \notin delivered[r]
    BY <1>6, <1>7, <1>8, <1>12 DEF Framed, Same
  <2>2. Same(x.d, p.d)
    BY <1>7, <2>1 DEF Same
  <2>3. p.waitsFor \subseteq x.waitsFor \cup Deps(x.d.dep) \cup Deps(dep)
    BY <1>7, <2>1
  <2> QED
    BY <1>7, <1>9, <1>12, <2>1, <2>2, <2>3 DEF FramedFromLeader
<1> QED
  BY <1>10, <1>11, <1>12

\* A descriptor that a handler settles has its proposal only if the replica has it.
LEMMA SettleKnown ==
  ASSUME TypeOK, ProposedIsKnown, NEW r \in Replicas, NEW c \in Commands, NEW x \in Outcome,
         NEW wakes, NEW taken, NEW sent, NEW clientMsgs,
         Settle(r, c, x, wakes, taken, sent, clientMsgs),
         \A q \in Replicas : proposes[q] \subseteq proposes'[q],
         x.d.propose # "none" => c \in proposes'[r]
  PROVE  ProposedIsKnown'
<1> DEFINE now == x.done /\ x.d.seq
           D   == cmdDescs[r]
           after(b) == IF b = c THEN IF now THEN Closed ELSE x.d
                       ELSE IF b \in x.waitsFor \ delivered[r] THEN WokenBy(D[b], c)
                       ELSE D[b]
<1>1. cmdDescs' = [cmdDescs EXCEPT ![r] = [b \in Commands |-> after(b)]]
  BY ONLY Settle(r, c, x, wakes, taken, sent, clientMsgs) DEF Settle
<1>2. Closed.propose = "none"
  BY DEF Closed
<1>3. ASSUME NEW b \in Commands PROVE after(b).propose # "none" => b \in proposes'[r]
  <2>1. D[b] \in CommandDesc
    BY DEF TypeOK
  <2>2. WokenBy(D[b], c).propose # "none" => D[b].propose # "none"
    BY <1>2, <2>1 DEF WokenBy, Opened, CommandDesc, Closed
  <2> QED
    BY <1>2, <2>2 DEF ProposedIsKnown
<1> HIDE DEF after
<1>4. ASSUME NEW q \in Replicas, NEW b \in Commands
      PROVE  cmdDescs'[q][b].propose # "none" => b \in proposes'[q]
  <2>1. CASE q = r
    <3>1. cmdDescs'[r][b] = after(b)
      BY <1>1 DEF TypeOK
    <3> QED
      BY <1>3, <2>1, <3>1
  <2>2. CASE q # r
    BY <1>1, <2>2 DEF TypeOK, ProposedIsKnown
  <2> QED
    BY <2>1, <2>2
<1> QED
  BY <1>4 DEF ProposedIsKnown

\* The outcome of each handler that TakesPropose calls.
LEMMA TakesProposeOutcome ==
  ASSUME TypeOK, NEW r \in Replicas, NEW c \in Commands, NEW d \in CommandDesc,
         TakesPropose(r, c, d)
  PROVE  \E x \in Outcome : \E sent, cm :
           /\ x.d.propose = "set" /\ x.d.open = d.open /\ x.d.seq = d.seq
           /\ Settle(r, c, x, {}, {}, sent, cm)
<1> DEFINE e == [d EXCEPT !.propose = "set", !.noop = FALSE]
           f == [e EXCEPT !.dep = d.proposeDep, !.phase = "PRE_ACCEPT"]
           g == IF r \in FQ[ballot[r]] THEN f ELSE e
           h == [g EXCEPT !.afterPropagate = None]
<1>1. g \in CommandDesc /\ g.propose = "set" /\ g.open = d.open /\ g.seq = d.seq
      /\ g.afterPropagate = d.afterPropagate
  BY DEF CommandDesc, Phase
<1>2. \/ RecallsLeader(r, c, g) /\ d.afterPropagate # None
      \/ SendsFastAck(r, c, g)
      \/ Settle(r, c, Handled(g), {}, {}, {}, {}) /\ UNCHANGED seqnum
  BY DEF TakesPropose
<1> HIDE DEF g
<1>3. ballot[r] \in Ballots
  BY DEF TypeOK
<1>4. CASE RecallsLeader(r, c, g) /\ d.afterPropagate # None
  <2> DEFINE x == FastAckFromLeader(r, ballot[r], c, Handled(h), g.afterPropagate)
  <2>1. h \in CommandDesc /\ h.propose = "set" /\ h.open = d.open /\ h.seq = d.seq
        /\ g.afterPropagate \in Dep
    BY <1>1, <1>4 DEF CommandDesc
  <2> HIDE DEF h
  <2>2. Handled(h) \in Outcome /\ Handled(h).d = h
    BY <2>1, DescTypes DEF Handled
  <2>3. x \in Outcome /\ FramedFromLeader(r, ballot[r], c, Handled(h), x, g.afterPropagate)
    BY <1>3, <2>1, <2>2, HandlerTypes, FromLeaderFrame
  <2>4. Settle(r, c, x, {}, {}, SlowAcksOf(r, c), ClientMsg("slowAck", r, c, Nil, Nil))
    BY <1>4 DEF RecallsLeader, h
  <2> HIDE DEF x
  <2> QED
    BY <2>1, <2>2, <2>3, <2>4 DEF FramedFromLeader, Same
<1>5. CASE SendsFastAck(r, c, g)
  <2> DEFINE s == IF r = LeaderOf(r) THEN seqnum[r] ELSE 0
             y == [Handled(g) EXCEPT !.done = Speculates(r, c) /\ MayDeliver(r, ballot[r], c, g)]
             x == IF r = LeaderOf(r) THEN FastAckFromLeader(r, ballot[r], c, y, g.dep)
                                     ELSE CommonCaseFastAck(r, ballot[r], c, y, r, g.dep)
             M == IF Speculates(r, c) THEN {} ELSE ClientMsg("fastAck", r, c, g.hs, Nil)
  <2>1. g.dep \in Dep
    BY <1>1 DEF CommandDesc
  <2>2. y \in Outcome /\ y.d = g
    <3>1. Handled(g) \in Outcome /\ Handled(g).d = g
      BY <1>1, DescTypes DEF Handled
    <3> QED
      BY <3>1 DEF Outcome
  <2>3. Settle(r, c, x, {}, {}, AcksOf(r, c, g.dep, g.hs, s), M)
    BY <1>5 DEF SendsFastAck
  <2> HIDE DEF y
  <2>4. x \in Outcome /\ Same(y.d, x.d)
    <3>1. CASE r = LeaderOf(r)
      BY <1>3, <2>1, <2>2, <3>1, HandlerTypes, FromLeaderFrame DEF FramedFromLeader
    <3>2. CASE r # LeaderOf(r)
      BY <1>3, <2>1, <2>2, <3>2, HandlerTypes, CommonCaseFrame DEF Framed
    <3> QED
      BY <3>1, <3>2
  <2> HIDE DEF x, M, s
  <2> QED
    BY <1>1, <2>2, <2>3, <2>4 DEF Same
<1>6. CASE Settle(r, c, Handled(g), {}, {}, {}, {}) /\ UNCHANGED seqnum
  <2>1. Handled(g) \in Outcome /\ Handled(g).d = g
    BY <1>1, DescTypes DEF Handled
  <2> QED
    BY <1>1, <1>6, <2>1
<1> QED
  BY <1>2, <1>4, <1>5, <1>6

LEMMA OpenedProposal ==
  ASSUME NEW d \in CommandDesc, NEW s \in BOOLEAN
  PROVE  Opened(d, s).propose # "none" => d.propose # "none"
BY DEF Opened, Closed, CommandDesc

\* Handling an ack changes nothing of the proposal.
LEMMA HandleAckOutcome ==
  ASSUME TypeOK, NEW r \in Replicas, NEW m \in acks, NEW d \in CommandDesc, HandleAck(r, m, d)
  PROVE  \E x \in Outcome : \E sent, cm :
           x.d.propose = d.propose /\ Settle(r, m.cmd, x, {}, {m}, sent, cm)
<1> DEFINE x == CommonCaseFastAck(r, ballot[r], m.cmd, Handled(d), m.from, m.dep)
           y == [d EXCEPT !.afterPropagate = m.dep]
           z == FastAckFromLeader(r, ballot[r], m.cmd, Handled(d), m.dep)
<1>1. m.from \in Replicas /\ m.dep \in Dep /\ ballot[r] \in Ballots
  BY DEF TypeOK, FastAck
<1>2. Handled(d) \in Outcome /\ Handled(d).d = d
  BY DescTypes DEF Handled
<1>3. y \in CommandDesc /\ y.propose = d.propose
  BY <1>1 DEF CommandDesc
<1>4. \/ Settle(r, m.cmd, x, {}, {m}, {}, {})
      \/ Settle(r, m.cmd, Handled(y), {}, {m}, {}, {})
      \/ Settle(r, m.cmd, z, {}, {m}, SlowAcksOf(r, m.cmd), ClientMsg("slowAck", r, m.cmd, Nil, Nil))
  BY DEF HandleAck
<1> HIDE DEF y
<1>5. Handled(y) \in Outcome /\ Handled(y).d = y
  BY <1>3, DescTypes DEF Handled
<1>6. x \in Outcome /\ Framed(r, m.cmd, Handled(d), x)
  BY <1>1, <1>2, HandlerTypes, CommonCaseFrame
<1>7. z \in Outcome /\ FramedFromLeader(r, ballot[r], m.cmd, Handled(d), z, m.dep)
  BY <1>1, <1>2, HandlerTypes, FromLeaderFrame
<1> HIDE DEF x, z
<1>8. x.d.propose = d.propose /\ z.d.propose = d.propose
  BY <1>2, <1>6, <1>7 DEF Framed, FramedFromLeader, Same
<1> QED
  BY <1>3, <1>4, <1>5, <1>6, <1>7, <1>8

LEMMA StepKnown ==
  ASSUME TypeOK, ProposedIsKnown, NEW r \in Replicas, ReplicaStep(r)
  PROVE  ProposedIsKnown'
<1>1. ASSUME UNCHANGED <<cmdDescs, proposes>> PROVE ProposedIsKnown'
  BY <1>1 DEF ProposedIsKnown
<1>2. ASSUME NEW c \in Commands, Propose(r, c) PROVE ProposedIsKnown'
  <2> DEFINE d == Opened(cmdDescs[r][c], r = LeaderOf(r))
             a == HashLogAppend(hlog[r], c)
             e == IF d.proposeDep = Nil
                  THEN [d EXCEPT !.proposeDep = DepOf(r, c), !.hs = a.hash] ELSE d
             n == [e EXCEPT !.propose = IF @ = "none" THEN "sent" ELSE @]
  <2>1. /\ proposes' = [proposes EXCEPT ![r] = @ \cup {c}]
        /\ \/ TakesPropose(r, c, e)
           \/ cmdDescs' = [cmdDescs EXCEPT ![r][c] = n]
    BY <1>2 DEF Propose, Registers
  <2>2. (\A q \in Replicas : proposes[q] \subseteq proposes'[q]) /\ c \in proposes'[r]
    BY <2>1 DEF TypeOK
  <2>3. e \in CommandDesc
    <3>1. d \in CommandDesc
      <4>1. cmdDescs[r][c] \in CommandDesc
        BY DEF TypeOK
      <4> QED
        BY <4>1, DescTypes
    <3> QED
      BY <3>1, RegisteredDesc
  <2>4. CASE TakesPropose(r, c, e)
    <3> HIDE DEF e
    <3>1. PICK x \in Outcome : \E sent, cm : Settle(r, c, x, {}, {}, sent, cm)
      BY <2>3, <2>4, TakesProposeOutcome
    <3> QED
      BY <2>2, <3>1, SettleKnown
  <2>5. CASE cmdDescs' = [cmdDescs EXCEPT ![r][c] = n]
    <3> HIDE DEF n
    <3>1. ASSUME NEW q \in Replicas, NEW b \in Commands, cmdDescs'[q][b].propose # "none"
          PROVE  b \in proposes'[q]
      <4>1. CASE q = r /\ b = c
        BY <2>2, <4>1
      <4>2. CASE ~(q = r /\ b = c)
        <5>1. cmdDescs'[q][b] = cmdDescs[q][b]
          BY <2>5, <4>2 DEF TypeOK
        <5> QED
          BY <2>2, <3>1, <5>1 DEF ProposedIsKnown
      <4> QED
        BY <4>1, <4>2
    <3> QED
      BY <3>1 DEF ProposedIsKnown
  <2> QED
    BY <2>1, <2>4, <2>5
<1>3. ASSUME NEW c \in Commands, ProposeDelivered(r, c) PROVE ProposedIsKnown'
  BY <1>1, <1>3 DEF ProposeDelivered, runVars
<1>4. ASSUME NEW c \in Commands, HandlePropose(r, c) PROVE ProposedIsKnown'
  <2>1. cmdDescs[r][c] \in CommandDesc
    BY DEF TypeOK
  <2>2. TakesPropose(r, c, cmdDescs[r][c]) /\ cmdDescs[r][c].propose = "sent" /\ proposes' = proposes
    BY <1>4 DEF HandlePropose, runVars
  <2>3. c \in proposes'[r]
    BY <2>2 DEF ProposedIsKnown
  <2>4. PICK x \in Outcome : \E sent, cm : Settle(r, c, x, {}, {}, sent, cm)
    BY <2>1, <2>2, TakesProposeOutcome
  <2> QED
    BY <2>2, <2>3, <2>4, SettleKnown
<1>5. ASSUME NEW m \in acks, ReceiveAck(r, m) PROVE ProposedIsKnown'
  <2> DEFINE d == Opened(cmdDescs[r][m.cmd], r = LeaderOf(r))
  <2>1. /\ proposes' = proposes
        /\ \/ UNCHANGED cmdDescs
           \/ HandleAck(r, m, d)
           \/ Settle(r, m.cmd, Handled(d), {}, {m}, {}, {})
    BY <1>5 DEF ReceiveAck, runVars
  <2>2. m.cmd \in Commands
    BY DEF TypeOK, FastAck
  <2>3. d \in CommandDesc /\ (d.propose # "none" => m.cmd \in proposes'[r])
    <3>1. cmdDescs[r][m.cmd] \in CommandDesc
      BY <2>2 DEF TypeOK
    <3> QED
      BY <2>1, <2>2, <3>1, DescTypes, OpenedProposal DEF ProposedIsKnown
  <2> HIDE DEF d
  <2>4. CASE UNCHANGED cmdDescs
    BY <1>1, <2>1, <2>4
  <2>5. ASSUME NEW x \in Outcome, NEW sent, NEW cm, x.d.propose = d.propose,
               Settle(r, m.cmd, x, {}, {m}, sent, cm)
        PROVE  ProposedIsKnown'
    BY <2>1, <2>2, <2>3, <2>5, SettleKnown
  <2>6. CASE HandleAck(r, m, d)
    BY <2>3, <2>5, <2>6, HandleAckOutcome
  <2>7. CASE Settle(r, m.cmd, Handled(d), {}, {m}, {}, {})
    <3>1. Handled(d) \in Outcome /\ Handled(d).d = d
      BY <2>3, DescTypes DEF Handled
    <3> QED
      BY <2>5, <2>7, <3>1
  <2> QED
    BY <2>1, <2>4, <2>6, <2>7
<1>6. ASSUME NEW w \in deliverChan[r], Deliver(r, w) PROVE ProposedIsKnown'
  <2> DEFINE c == w[2]
             d == Opened(cmdDescs[r][c], FALSE)
             x == [Handled(d) EXCEPT !.done = MayDeliver(r, ballot[r], c, d)]
  <2>1. /\ proposes' = proposes
        /\ \/ UNCHANGED cmdDescs
           \/ Settle(r, c, x, {w}, {}, {}, {})
    BY <1>6 DEF Deliver, runVars
  <2>2. c \in Commands
    BY DEF TypeOK
  <2>3. d \in CommandDesc /\ (d.propose # "none" => c \in proposes'[r])
    <3>1. cmdDescs[r][c] \in CommandDesc
      BY <2>2 DEF TypeOK
    <3> QED
      BY <2>1, <2>2, <3>1, DescTypes, OpenedProposal DEF ProposedIsKnown
  <2> HIDE DEF d, c
  <2>4. x \in Outcome /\ x.d = d
    <3>1. Handled(d) \in Outcome /\ Handled(d).d = d
      BY <2>3, DescTypes DEF Handled
    <3> QED
      BY <3>1 DEF Outcome, MayDeliver
  <2> HIDE DEF x
  <2>5. CASE UNCHANGED cmdDescs
    BY <1>1, <2>1, <2>5
  <2>6. CASE Settle(r, c, x, {w}, {}, {}, {})
    BY <2>1, <2>2, <2>3, <2>4, <2>6, SettleKnown
  <2> QED
    BY <2>1, <2>5, <2>6
<1>7. ASSUME NEW c \in Commands, Execute(r, c) PROVE ProposedIsKnown'
  BY <1>1, <1>7 DEF Execute, runVars
<1>8. ASSUME NEW c \in Commands, Reply(r, c) PROVE ProposedIsKnown'
  BY <1>1, <1>8 DEF Reply, runVars
<1> QED
  BY <1>2, <1>3, <1>4, <1>5, <1>6, <1>7, <1>8 DEF ReplicaStep
-------------------------------------------------------------------------------
(***************************************************************************)
(* The types through a recovery.                                           *)
(***************************************************************************)
\* The part of the types that the messages of the recovery have.
MessagesTypeOK ==
  /\ newLeaders \subseteq [from : Replicas, ballot : Ballots]
  /\ ackNs \subseteq Answer
  /\ newLeaderAckNs \in [Replicas -> SUBSET Answer]
  /\ syncs \subseteq [from : Replicas, ballot : Ballots, entries : SUBSET Entry]

RecInvariant == RecTypeOK /\ ProposedIsKnown

LEMMA RecParts ==
  RecTypeOK <=> TypeOK /\ MessagesTypeOK
BY DEF RecTypeOK, MessagesTypeOK

LEMMA AckNType ==
  ASSUME TypeOK, NEW r \in Replicas, NEW b \in Ballots, NEW D \in SUBSET Commands, NEW q \in Replicas
  PROVE  AckN(r, b, D, q) \in SUBSET Answer
<1>1. ASSUME NEW c \in Commands
      PROVE  [cmd |-> c, noop |-> cmdDescs[r][c].noop, phase |-> cmdDescs[r][c].phase,
              dep |-> cmdDescs[r][c].dep] \in Entry
  <2>1. cmdDescs[r][c] \in CommandDesc
    BY DEF TypeOK
  <2> QED
    BY <2>1 DEF CommandDesc, Entry
<1>2. ASSUME NEW c \in Commands
      PROVE  [cmd |-> c, noop |-> TRUE, phase |-> "ACCEPT", dep |-> {}] \in Entry
  BY DEF Entry, Phase, Dep
<1>3. Entries(r, D) \in SUBSET Entry
  <2>1. proposes[r] \in SUBSET Commands
    BY DEF TypeOK
  <2> DEFINE known == {c \in D : cmdDescs[r][c].propose = "set"}
             A == {[cmd |-> c, noop |-> cmdDescs[r][c].noop, phase |-> cmdDescs[r][c].phase,
                    dep |-> cmdDescs[r][c].dep] : c \in known}
             B == {[cmd |-> c, noop |-> TRUE, phase |-> "ACCEPT", dep |-> {}]
                    : c \in proposes[r] \ (known \cup delivered[r])}
  <2>2. A \in SUBSET Entry
    BY <1>1
  <2>3. B \in SUBSET Entry
    BY <1>2, <2>1
  <2>4. Entries(r, D) = A \cup B
    BY DEF Entries
  <2> QED
    BY <2>2, <2>3, <2>4
<1>4. cballot[r] \in Ballots
  BY DEF TypeOK
<1> QED
  BY <1>3, <1>4 DEF AckN, Answer

LEMMA EntersBallotTypes ==
  ASSUME TypeOK, ProposedIsKnown, NEW r \in Replicas, NEW b \in Ballots, NEW D \in SUBSET Commands,
         EntersBallot(r, b, D)
  PROVE  TypeOK' /\ ProposedIsKnown' /\ syncs' = syncs
<1>1. /\ ballot' = [ballot EXCEPT ![r] = b]
      /\ status' = [status EXCEPT ![r] = "RECOVERING"]
      /\ cmdDescs' = [cmdDescs EXCEPT ![r] = [c \in Commands |-> IF c \in D THEN @[c] ELSE Closed]]
      /\ replying' = [replying EXCEPT ![r] = {}]
      /\ UNCHANGED <<cballot, proposes, reproposed, lastCmd, lastWrite, hlog, pendingHashUpds, seqnum,
                     delivered, executing, deliverChan, log, stopped, acks, toClient, syncs>>
  BY DEF EntersBallot, runVars, hashVars
<1>2. BallotTypeOK'
  BY <1>1, TypeParts DEF BallotTypeOK
<1>3. LoopTypeOK'
  BY <1>1, TypeParts DEF LoopTypeOK
<1>4. cmdDescs' \in [Replicas -> [Commands -> CommandDesc]]
  <2>1. [c \in Commands |-> IF c \in D THEN cmdDescs[r][c] ELSE Closed] \in [Commands -> CommandDesc]
    BY DescTypes DEF TypeOK
  <2> QED
    BY <1>1, <2>1 DEF TypeOK
<1>5. HandlerTypeOK'
  <2>1. replying' \in [Replicas -> SUBSET Commands]
        /\ \A q \in Replicas : executing'[q] \cup replying'[q] \subseteq delivered'[q]
    BY <1>1 DEF TypeOK
  <2>2. UNCHANGED <<acks, toClient, delivered, executing, deliverChan, log>>
    BY <1>1
  <2> QED
    BY <1>4, <2>1, <2>2, TypeParts DEF HandlerTypeOK
<1>6. ProposedIsKnown'
  <2>1. Closed.propose = "none"
    BY DEF Closed
  <2>2. ASSUME NEW q \in Replicas, NEW c \in Commands
        PROVE  cmdDescs'[q][c] \in {cmdDescs[q][c], Closed}
    BY <1>1 DEF TypeOK
  <2> QED
    BY <1>1, <2>1, <2>2 DEF ProposedIsKnown
<1> QED
  BY <1>1, <1>2, <1>3, <1>5, <1>6, TypeParts, TypePartsNext

LEMMA SyncedDescsTypes ==
  ASSUME TypeOK, NEW r \in Replicas, NEW E \in SUBSET Entry, NEW c \in Commands
  PROVE  /\ SyncedDescs(r, E)[c] \in CommandDesc
         /\ SyncedDescs(r, E)[c].propose # "none" => c \in proposes[r]
<1> DEFINE fresh == {e \in E : e.cmd \notin delivered[r]}
           succ(b) == {e.cmd : e \in {f \in fresh : b \in Deps(f.dep)}}
           waits == {b \in Commands \ delivered[r] : succ(b) # {}}
           Of(e) == [Closed EXCEPT !.open = TRUE, !.phase = e.phase, !.noop = e.noop,
                              !.dep = e.dep, !.proposeDep = e.dep,
                              !.propose = IF e.cmd \in proposes[r] THEN "set" ELSE "none"]
           d(b) == IF \E e \in fresh : e.cmd = b THEN Of(CHOOSE e \in fresh : e.cmd = b) ELSE Closed
           o(b) == d(b).open \/ b \in waits
           n(b) == [d(b) EXCEPT !.open = o(b), !.successors = succ(b)]
<1>1. SyncedDescs(r, E) = [b \in Commands |-> [d(b) EXCEPT !.open = @ \/ b \in waits, !.successors = succ(b)]]
  BY DEF SyncedDescs
<1>2. SyncedDescs(r, E)[c] = n(c)
  BY <1>1
<1>3. succ(c) \in SUBSET Commands
  BY DEF Entry
<1>4. ASSUME NEW e \in E
      PROVE  Of(e) \in CommandDesc /\ (Of(e).propose # "none" => e.cmd \in proposes[r])
  <2>1. e.cmd \in Commands /\ e.noop \in BOOLEAN /\ e.phase \in Phase /\ e.dep \in Dep
    BY DEF Entry
  <2> DEFINE p == IF e.cmd \in proposes[r] THEN "set" ELSE "none"
  <2>2. p \in {"none", "sent", "set"} /\ (p # "none" => e.cmd \in proposes[r])
    OBVIOUS
  <2>3. Of(e) = [Closed EXCEPT !.open = TRUE, !.phase = e.phase, !.noop = e.noop, !.dep = e.dep,
                               !.proposeDep = e.dep, !.propose = p]
    OBVIOUS
  <2> HIDE DEF Of, p
  <2>4. Of(e) \in CommandDesc /\ Of(e).propose = p
    BY <2>1, <2>2, <2>3, DescTypes DEF CommandDesc
  <2> QED
    BY <2>2, <2>4
<1>5. d(c) \in CommandDesc /\ (d(c).propose # "none" => c \in proposes[r])
  <2>1. CASE \E e \in fresh : e.cmd = c
    <3> DEFINE e == CHOOSE e \in fresh : e.cmd = c
    <3>1. e \in E /\ e.cmd = c
      BY <2>1
    <3>2. d(c) = Of(e)
      BY <2>1
    <3> HIDE DEF e, Of, d
    <3> QED
      BY <1>4, <3>1, <3>2
  <2>2. CASE ~\E e \in fresh : e.cmd = c
    BY <2>2, DescTypes DEF Closed
  <2> QED
    BY <2>1, <2>2
<1> HIDE DEF d, succ
<1>6. n(c) \in CommandDesc /\ n(c).propose = d(c).propose
  BY <1>3, <1>5 DEF CommandDesc
<1> HIDE DEF n
<1> QED
  BY <1>2, <1>5, <1>6

LEMMA HandlesOwnAckTypes ==
  ASSUME NEW r \in Replicas, NEW b \in Ballots, NEW c \in Commands, NEW d \in CommandDesc
  PROVE  HandlesOwnAck(r, b, c, d) \in CommandDesc /\ HandlesOwnAck(r, b, c, d).propose = d.propose
<1> DEFINE e == IF d.dep = Nil THEN {c} ELSE d.dep
           y == FastAckFromLeader(r, b, c, Handled(d), e)
           z == CommonCaseFastAck(r, b, c, Handled(d), r, Nil)
<1>1. e \in Dep /\ Nil \in Dep
  BY DEF CommandDesc, Dep
<1>2. Handled(d) \in Outcome /\ Handled(d).d = d
  BY DescTypes DEF Handled
<1> HIDE DEF e
<1>3. y \in Outcome /\ FramedFromLeader(r, b, c, Handled(d), y, e)
  BY <1>1, <1>2, HandlerTypes, FromLeaderFrame
<1>4. z \in Outcome /\ Framed(r, c, Handled(d), z)
  BY <1>1, <1>2, HandlerTypes, CommonCaseFrame
<1>5. HandlesOwnAck(r, b, c, d) \in {d, y.d, z.d}
  BY DEF HandlesOwnAck, e
<1> HIDE DEF y, z
<1> QED
  BY <1>2, <1>3, <1>4, <1>5 DEF Outcome, Framed, FramedFromLeader, Same

LEMMA SynchronisesTypes ==
  ASSUME TypeOK, ProposedIsKnown, NEW r \in Replicas, NEW D \in SUBSET Commands,
         NEW s \in [from : Replicas, ballot : Ballots, entries : SUBSET Entry], Synchronises(r, s, D)
  PROVE  TypeOK' /\ ProposedIsKnown'
<1> DEFINE known == {e.cmd : e \in s.entries}
           mine  == {e \in s.entries : e.cmd \in proposes[r]}
           fresh == {e \in s.entries : e.cmd \notin delivered[r]}
           new   == SyncedDescs(r, s.entries)
           after == [c \in Commands |-> HandlesOwnAck(r, s.ballot, c, new[c])]
           P     == {c \in D \ known : cmdDescs[r][c].propose = "set"}
<1>1. s.ballot \in Ballots /\ s.entries \in SUBSET Entry /\ known \in SUBSET Commands
  BY DEF Entry
<1>2. /\ reproposed' = [reproposed EXCEPT ![r] = @ \cup P]
      /\ lastCmd' = [lastCmd EXCEPT ![r] = {}]
      /\ lastWrite' = [lastWrite EXCEPT ![r] = {}]
      /\ cmdDescs' = [cmdDescs EXCEPT ![r] = after]
      /\ status' = [status EXCEPT ![r] = "NORMAL"]
      /\ ballot' = [ballot EXCEPT ![r] = s.ballot]
      /\ cballot' = [cballot EXCEPT ![r] = s.ballot]
      /\ replying' = [replying EXCEPT ![r] = {}]
      /\ UNCHANGED <<proposes, hlog, pendingHashUpds, seqnum, delivered, executing, log, stopped>>
  BY DEF Synchronises, hashVars
<1>3. PICK woken \in [{e.cmd : e \in fresh} -> known] :
        deliverChan' = [deliverChan EXCEPT ![r] = @ \cup
          {<<c, c>> : c \in {woken[e.cmd] : e \in fresh} \cup (UNION {Deps(e.dep) : e \in fresh})}]
  BY DEF Synchronises
<1> DEFINE X == UNION {SyncAcks(r, s.ballot, e) : e \in mine}
           Y == UNION {SyncReply(r, s.ballot, e) : e \in mine}
           Z == UNION {ClientMsgIn(s.ballot, "accept", r, c, Nil, Nil) : c \in proposes[r] \ known}
<1>4. acks' = acks \cup X /\ toClient' = toClient \cup Y \cup Z
  BY Zenon DEF Synchronises
<1>5. BallotTypeOK'
  BY <1>1, <1>2, TypeParts DEF BallotTypeOK
<1>6. LoopTypeOK'
  <2>1. P \subseteq proposes[r]
    BY DEF ProposedIsKnown
  <2> HIDE DEF P
  <2>2. /\ reproposed' \in [Replicas -> SUBSET Commands]
        /\ \A q \in Replicas : reproposed'[q] \subseteq proposes'[q]
    BY <1>2, <2>1 DEF TypeOK
  <2>3. /\ lastCmd' \in [Replicas -> AtMostOne(Commands)]
        /\ lastWrite' \in [Replicas -> AtMostOne(Commands \ Reads)]
    <3>1. {} \in AtMostOne(Commands) /\ {} \in AtMostOne(Commands \ Reads)
      BY DEF AtMostOne
    <3> QED
      BY <1>2, <3>1 DEF TypeOK
  <2> QED
    BY <1>2, <2>2, <2>3, TypeParts DEF LoopTypeOK
<1>7. ASSUME NEW c \in Commands
      PROVE  after[c] \in CommandDesc /\ (after[c].propose # "none" => c \in proposes[r])
  <2> HIDE DEF new
  <2>1. new[c] \in CommandDesc /\ (new[c].propose # "none" => c \in proposes[r])
    BY <1>1, SyncedDescsTypes DEF new
  <2> QED
    BY <1>1, <2>1, HandlesOwnAckTypes
<1>8. after \in [Commands -> CommandDesc]
  BY <1>7
<1> HIDE DEF after
<1>9. deliverChan' \in [Replicas -> SUBSET (Commands \X Commands)]
  <2> DEFINE C == {woken[e.cmd] : e \in fresh} \cup (UNION {Deps(e.dep) : e \in fresh})
             W == {<<c, c>> : c \in C}
  <2>1. C \in SUBSET Commands
    <3>1. ASSUME NEW e \in fresh PROVE woken[e.cmd] \in Commands /\ Deps(e.dep) \in SUBSET Commands
      <4>1. e.cmd \in {f.cmd : f \in fresh}
        OBVIOUS
      <4>2. woken[e.cmd] \in known
        BY <1>3, <4>1
      <4>3. e.dep \in Dep
        BY <1>1 DEF Entry
      <4> QED
        BY <1>1, <4>2, <4>3, DepsType
    <3> QED
      BY <3>1
  <2> HIDE DEF C
  <2>2. W \in SUBSET (Commands \X Commands)
    BY <2>1
  <2>3. deliverChan' = [deliverChan EXCEPT ![r] = @ \cup W]
    BY <1>3 DEF C
  <2> HIDE DEF W
  <2> QED
    BY <2>2, <2>3 DEF TypeOK
<1>10. acks' \subseteq FastAck /\ toClient' \subseteq ToClient
  <2>1. Nil \in Dep /\ Nil \in Hash /\ 0 \in Nat
    BY DEF Dep, Hash
  <2>2. ASSUME NEW e \in mine
        PROVE  SyncAcks(r, s.ballot, e) \subseteq FastAck /\ SyncReply(r, s.ballot, e) \subseteq ToClient
    <3>1. e.cmd \in Commands /\ e.dep \in Dep
      BY <1>1 DEF Entry
    <3>2. SyncAcks(r, s.ballot, e) \subseteq FastAck
      BY <1>1, <2>1, <3>1 DEF SyncAcks, AcksTo, FastAck
    <3>3. SyncReply(r, s.ballot, e) \subseteq ToClient
      BY <1>1, <2>1, <3>1 DEF SyncReply, ClientMsgIn, ToClient
    <3> QED
      BY <3>2, <3>3
  <2>3. ASSUME NEW c \in proposes[r] PROVE ClientMsgIn(s.ballot, "accept", r, c, Nil, Nil) \subseteq ToClient
    BY <1>1, <2>1 DEF ClientMsgIn, ToClient, TypeOK
  <2>4. acks \subseteq FastAck /\ toClient \subseteq ToClient
    BY DEF TypeOK
  <2>5. UNION {SyncAcks(r, s.ballot, e) : e \in mine} \subseteq FastAck
    BY <2>2
  <2>6. UNION {SyncReply(r, s.ballot, e) : e \in mine} \subseteq ToClient
    BY <2>2
  <2>7. UNION {ClientMsgIn(s.ballot, "accept", r, c, Nil, Nil) : c \in proposes[r] \ known} \subseteq ToClient
    BY <2>3
  <2>8. X \subseteq FastAck /\ Y \subseteq ToClient /\ Z \subseteq ToClient
    BY <2>5, <2>6, <2>7
  <2> HIDE DEF X, Y, Z
  <2> QED
    BY <1>4, <2>4, <2>8
<1>11. HandlerTypeOK'
  <2>1. cmdDescs' \in [Replicas -> [Commands -> CommandDesc]]
    BY <1>2, <1>8 DEF TypeOK
  <2>2. /\ replying' \in [Replicas -> SUBSET Commands]
        /\ \A q \in Replicas : executing'[q] \cup replying'[q] \subseteq delivered'[q]
    BY <1>2 DEF TypeOK
  <2>3. UNCHANGED <<delivered, executing, log>>
    BY <1>2
  <2> QED
    BY <1>9, <1>10, <2>1, <2>2, <2>3, TypeParts DEF HandlerTypeOK
<1>12. ProposedIsKnown'
  <2>1. ASSUME NEW q \in Replicas, NEW c \in Commands, cmdDescs'[q][c].propose # "none"
        PROVE  c \in proposes'[q]
    <3>1. CASE q = r
      <4>1. cmdDescs'[q][c] = after[c]
        BY <1>2, <3>1 DEF TypeOK
      <4> QED
        BY <1>2, <1>7, <2>1, <3>1, <4>1
    <3>2. CASE q # r
      <4>1. cmdDescs'[q][c] = cmdDescs[q][c]
        BY <1>2, <3>2 DEF TypeOK
      <4> QED
        BY <1>2, <2>1, <4>1 DEF ProposedIsKnown
    <3> QED
      BY <3>1, <3>2
  <2> QED
    BY <2>1 DEF ProposedIsKnown
<1>13. seqnum' \in [Replicas -> Nat]
  BY <1>2 DEF TypeOK
<1> QED
  BY <1>5, <1>6, <1>11, <1>12, <1>13, TypePartsNext

LEMMA InitTypes == RecInit => RecInvariant
<1> SUFFICES ASSUME RecInit PROVE RecInvariant
  OBVIOUS
<1>1. TypeOK
  <2>1. BallotTypeOK
    BY BallotAssumption DEF RecInit, Init, BallotTypeOK
  <2>2. LoopTypeOK
    <3>1. [synced |-> -1, syncedHash |-> <<>>, pending |-> <<>>, pendingUpd |-> {}] \in HashLog
      BY DEF HashLog
    <3>2. {} \in AtMostOne(Commands) /\ {} \in AtMostOne(Commands \ Reads)
      BY DEF AtMostOne
    <3> QED
      BY <3>1, <3>2 DEF RecInit, Init, LoopTypeOK
  <2>3. HandlerTypeOK
    BY DescTypes DEF RecInit, Init, HandlerTypeOK
  <2>4. seqnum \in [Replicas -> Nat]
    BY DEF RecInit, Init
  <2> QED
    BY <2>1, <2>2, <2>3, <2>4, TypeParts
<1>2. MessagesTypeOK
  BY DEF RecInit, MessagesTypeOK
<1>3. ProposedIsKnown
  BY DEF RecInit, Init, ProposedIsKnown, Closed
<1> QED
  BY <1>1, <1>2, <1>3, RecParts DEF RecInvariant

LEMMA StepInvariant == RecInvariant /\ [RecNext]_allVars => RecInvariant'
<1> SUFFICES ASSUME RecInvariant, [RecNext]_allVars PROVE RecInvariant'
  OBVIOUS
<1>1. TypeOK /\ MessagesTypeOK /\ ProposedIsKnown
  BY RecParts DEF RecInvariant
<1>2. ASSUME TypeOK', MessagesTypeOK', ProposedIsKnown' PROVE RecInvariant'
  BY <1>2 DEF RecInvariant, RecTypeOK, MessagesTypeOK
<1>3. ASSUME UNCHANGED recVars PROVE MessagesTypeOK'
  BY <1>1, <1>3 DEF MessagesTypeOK, recVars
<1>4. ASSUME UNCHANGED vars PROVE TypeOK' /\ ProposedIsKnown'
  <2>1. HandlerTypeOK' /\ LoopTypeOK' /\ BallotTypeOK' /\ seqnum' \in [Replicas -> Nat]
    <3>1. BallotTypeOK'
      BY <1>1, <1>4, TypeParts DEF BallotTypeOK, vars, ballotVars
    <3>2. LoopTypeOK'
      BY <1>1, <1>4, TypeParts DEF LoopTypeOK, vars, runVars, hashVars
    <3>3. HandlerTypeOK' /\ seqnum' \in [Replicas -> Nat]
      BY <1>1, <1>4, TypeParts DEF HandlerTypeOK, vars, execVars
    <3> QED
      BY <3>1, <3>2, <3>3
  <2>2. UNCHANGED <<cmdDescs, proposes>>
    BY <1>4 DEF vars, runVars
  <2>3. ProposedIsKnown'
    BY <1>1, <2>2 DEF ProposedIsKnown
  <2> QED
    BY <2>1, <2>3, TypePartsNext
<1>5. CASE UNCHANGED allVars
  BY <1>2, <1>3, <1>4, <1>5 DEF allVars
<1>6. ASSUME NEW r \in Replicas, CommonCase(r) PROVE RecInvariant'
  BY <1>1, <1>2, <1>3, <1>6, StepTypes, StepKnown DEF CommonCase
<1>7. ASSUME NEW r \in Replicas, NEW m \in newLeaders, HandleNewLeader(r, m) PROVE RecInvariant'
  <2>1. m.ballot \in Ballots /\ m.from \in Replicas
    BY <1>1 DEF MessagesTypeOK
  <2>2. PICK D \in SUBSET Commands : EntersBallot(r, m.ballot, D) /\ ackNs' = ackNs \cup AckN(r, m.ballot, D, m.from)
    BY <1>7 DEF HandleNewLeader
  <2>3. TypeOK' /\ ProposedIsKnown' /\ syncs' = syncs
    BY <1>1, <2>1, <2>2, EntersBallotTypes
  <2>4. AckN(r, m.ballot, D, m.from) \in SUBSET Answer
    BY <1>1, <2>1, AckNType
  <2>5. UNCHANGED <<newLeaders, newLeaderAckNs>>
    BY <1>7 DEF HandleNewLeader
  <2>6. MessagesTypeOK'
    BY <1>1, <2>2, <2>3, <2>4, <2>5 DEF MessagesTypeOK
  <2> QED
    BY <1>2, <2>3, <2>6
<1>8. ASSUME NEW r \in Replicas, NEW m \in newLeaders, HandleSecondNewLeader(r, m) PROVE RecInvariant'
  <2>1. m.ballot \in Ballots
    BY <1>1 DEF MessagesTypeOK
  <2>2. /\ ballot' = [ballot EXCEPT ![r] = m.ballot]
        /\ stopped' = [stopped EXCEPT ![r] = "hangs"]
        /\ UNCHANGED <<cballot, status, runVars, hashVars, seqnum, cmdDescs, execVars, acks, toClient,
                       recVars>>
    BY <1>8 DEF HandleSecondNewLeader
  <2>3. BallotTypeOK'
    BY <1>1, <2>1, <2>2, TypeParts DEF BallotTypeOK
  <2>4. LoopTypeOK'
    BY <1>1, <2>2, TypeParts DEF LoopTypeOK, runVars, hashVars
  <2>5. HandlerTypeOK' /\ seqnum' \in [Replicas -> Nat]
    BY <1>1, <2>2, TypeParts DEF HandlerTypeOK, execVars
  <2>6. ProposedIsKnown'
    BY <1>1, <2>2 DEF ProposedIsKnown, runVars
  <2> QED
    BY <1>2, <1>3, <2>2, <2>3, <2>4, <2>5, <2>6, TypePartsNext
<1>9. ASSUME NEW r \in Replicas, NEW a \in ackNs, HandleNewLeaderAckN(r, a) PROVE RecInvariant'
  <2> DEFINE A == newLeaderAckNs[r] \cup {a}
             all == UNION {x.entries : x \in A}
  <2>1. /\ ackNs' = ackNs \ {a} /\ newLeaderAckNs' = [newLeaderAckNs EXCEPT ![r] = A]
        /\ UNCHANGED newLeaders
    BY <1>9 DEF HandleNewLeaderAckN
  <2>2. A \in SUBSET Answer
    BY <1>1 DEF MessagesTypeOK
  <2>3. all \in SUBSET Entry
    <3> HIDE DEF A
    <3> QED
      BY <2>2 DEF Answer
  <2>4. \/ UNCHANGED <<vars, syncs>>
        \/ \E E \in SUBSET all :
             LET s == [from |-> r, ballot |-> ballot[r], entries |-> E]
             IN  syncs' = syncs \cup {s} /\ Synchronises(r, s, Commands)
    BY <1>9 DEF HandleNewLeaderAckN
  <2> HIDE DEF A, all
  <2>5. CASE UNCHANGED <<vars, syncs>>
    <3>1. MessagesTypeOK'
      BY <1>1, <2>1, <2>2, <2>5 DEF MessagesTypeOK
    <3> QED
      BY <1>2, <1>4, <2>5, <3>1
  <2>6. ASSUME NEW E \in SUBSET all, NEW s, s = [from |-> r, ballot |-> ballot[r], entries |-> E],
               syncs' = syncs \cup {s}, Synchronises(r, s, Commands)
        PROVE  RecInvariant'
    <3>1. s \in [from : Replicas, ballot : Ballots, entries : SUBSET Entry]
      <4>1. ballot[r] \in Ballots
        BY <1>1 DEF TypeOK
      <4> QED
        BY <2>3, <2>6, <4>1
    <3>2. MessagesTypeOK'
      BY <1>1, <2>1, <2>2, <2>6, <3>1 DEF MessagesTypeOK
    <3>3. TypeOK' /\ ProposedIsKnown'
      BY <1>1, <2>6, <3>1, SynchronisesTypes
    <3> QED
      BY <1>2, <3>2, <3>3
  <2> QED
    BY <2>4, <2>5, <2>6
<1>10. ASSUME NEW r \in Replicas, NEW s \in syncs, NEW D \in SUBSET Commands, Synchronises(r, s, D),
              UNCHANGED recVars
       PROVE  RecInvariant'
  <2>1. s \in [from : Replicas, ballot : Ballots, entries : SUBSET Entry]
    BY <1>1 DEF MessagesTypeOK
  <2> QED
    BY <1>1, <1>2, <1>3, <1>10, <2>1, SynchronisesTypes
<1>11. ASSUME NEW r \in Replicas, NEW s \in syncs, HandleSync(r, s) PROVE RecInvariant'
  BY <1>10, <1>11 DEF HandleSync
<1>12. ASSUME NEW r \in Replicas, NEW s \in syncs, HandleEarlySync(r, s) PROVE RecInvariant'
  BY <1>10, <1>12 DEF HandleEarlySync
<1>13. ASSUME NEW r \in Replicas, Recover(r) PROVE RecInvariant'
  <2>1. PICK b \in Ballots, D \in SUBSET Commands :
           /\ EntersBallot(r, b, D)
           /\ newLeaders' = newLeaders \cup {[from |-> r, ballot |-> b]}
           /\ newLeaderAckNs' = [newLeaderAckNs EXCEPT ![r] = AckN(r, b, D, r)]
           /\ UNCHANGED ackNs
    BY <1>13 DEF Recover
  <2>2. TypeOK' /\ ProposedIsKnown' /\ syncs' = syncs
    BY <1>1, <2>1, EntersBallotTypes
  <2>3. AckN(r, b, D, r) \in SUBSET Answer
    BY <1>1, AckNType
  <2>4. MessagesTypeOK'
    BY <1>1, <2>1, <2>2, <2>3 DEF MessagesTypeOK
  <2> QED
    BY <1>2, <2>2, <2>4
<1> QED
  BY <1>5, <1>6, <1>7, <1>8, <1>9, <1>11, <1>12, <1>13 DEF RecNext, RecStep

\* The types, through any number of changes of the leader (swift.go, recovery.go).
THEOREM RecTypeCorrect == RecSpec => []RecTypeOK
<1>1. RecInvariant => RecTypeOK
  BY DEF RecInvariant
<1> QED
  BY <1>1, InitTypes, StepInvariant, PTL DEF RecSpec
-------------------------------------------------------------------------------
(***************************************************************************)
(* The first ballot.  P is the order in which its leader, replica 0, has   *)
(* registered the commands; it stays what it was once another leads.       *)
(***************************************************************************)
Range0(P) == {P[i] : i \in 1 .. Len(P)}

\* What lastCmd and lastWrite are after the commands of P.
LastOf(P)      == {P[i] : i \in {k \in 1 .. Len(P) : \A j \in 1 .. Len(P) : j <= k}}
LastWriteOf(P) ==
  LET writes == {i \in 1 .. Len(P) : P[i] \notin Reads}
  IN  {P[i] : i \in {k \in writes : \A j \in writes : j <= k}}

\* c is the k-th command of P, and hs the hash the leader gives it.
IsHashOf(P, c, k, hs) == P[k] = c /\ hs = SubSeq(P, 1, k)

\* dep are the dependencies the leader gives c.
GivenDep(P, c, dep) == \E k \in 1 .. Len(P) : P[k] = c /\ Deps(dep) = DepIn(SubSeq(P, 1, k))

LeaderDesc(P, c, d) ==
  /\ d.open \/ d = Closed
  /\ d.open => d.seq
  /\ d.propose # "sent" /\ d.afterPropagate = None /\ d.successors \subseteq Range0(P)
  /\ c \notin Range0(P) => d.propose = "none" /\ d.proposeDep = Nil /\ d.dep = Nil
  /\ c \in Range0(P) \ delivered[0] =>
       d.propose = "set" /\ \E k \in 1 .. Len(P) : IsHashOf(P, c, k, d.hs) /\ d.dep = DepIn(d.hs)

\* The leader while it has not left the ballot.
LeaderState(P) ==
  ballot[0] = 0 =>
    /\ hlog[0] = [synced |-> -1, syncedHash |-> <<>>, pending |-> P, pendingUpd |-> {}]
    /\ proposes[0] = Range0(P) /\ reproposed[0] = {} /\ seqnum[0] = Len(P)
    /\ lastCmd[0] = LastOf(P) /\ lastWrite[0] = LastWriteOf(P)
    /\ executing[0] = {} /\ replying[0] = {}
    /\ \A w \in deliverChan[0] : w[2] \in Range0(P)
    /\ \A c \in Commands : LeaderDesc(P, c, cmdDescs[0][c])

\* The acks under way.
AckMsgState(P, m) ==
  /\ m.to # m.from
  /\ ballot[m.from] = 0 => m.ballot = 0
  /\ m.from = 0 /\ m.ballot = 0 =>
       \E k \in 1 .. Len(P) : IsHashOf(P, m.cmd, k, m.checksum) /\ m.seqnum = k - 1 /\ m.dep = DepIn(m.checksum)

AckState(P) == \A m \in acks : AckMsgState(P, m)

\* The hash log of a follower of the leader.
Comes(r, c) == \E m \in acks : m.from = 0 /\ m.to = r /\ m.cmd = c
HashState(P, r) ==
  LET h == hlog[r]
  IN  /\ h.pendingUpd = {} /\ h.synced \in -1 .. Len(P) - 1 /\ h.syncedHash = SubSeq(P, 1, h.synced + 1)
      /\ \A i, j \in 1 .. Len(h.pending) : h.pending[i] = h.pending[j] => i = j
      /\ Range0(h.pending) \subseteq proposes[r]
      /\ proposes[r] \subseteq Range0(h.pending) \cup Range0(P)
      /\ \A u \in pendingHashUpds[r] :
           u.cmd \notin proposes[r] /\ \E k \in 1 .. Len(P) : IsHashOf(P, u.cmd, k, u.hash) /\ u.seqnum = k - 1
      /\ \A c \in Commands : Comes(r, c) =>
           /\ c \in proposes[r] => c \in Range0(h.pending)
           /\ \A u \in pendingHashUpds[r] : u.cmd # c
      /\ \A k \in 1 .. Len(P) :
           \/ Comes(r, P[k])
           \/ \E u \in pendingHashUpds[r] : u.cmd = P[k]
           \/ k - 1 <= h.synced /\ P[k] \in proposes[r] /\ P[k] \notin Range0(h.pending)

\* The descriptors of another replica that has not left the ballot.
FollowerDesc(P, r, c, d) ==
  /\ d.open \/ d = Closed
  /\ d.afterPropagate # None => GivenDep(P, c, d.afterPropagate)
  /\ d.slowPath /\ c \notin delivered[r] => d.propose = "set" /\ GivenDep(P, c, d.dep)

FollowerState(P, r) ==
  /\ reproposed[r] = {}
  /\ \A c \in Commands : FollowerDesc(P, r, c, cmdDescs[r][c])
  /\ ballot[0] = 0 => HashState(P, r)

\* What has been sent to clients in the ballot.
ClientMsgState(P, m) ==
  m.ballot = 0 =>
    /\ m.type = "reply" =>
         m.from = 0 /\ m.cmd \in delivered[0] /\ \E k \in 1 .. Len(P) : IsHashOf(P, m.cmd, k, m.checksum)
    /\ m.type = "slowAck" /\ ballot[m.from] = 0 =>
         m.from # 0 /\ (m.cmd \in delivered[m.from] \/ cmdDescs[m.from][m.cmd].slowPath)
    /\ m.type = "fastAck" /\ m.from # 0 /\ ballot[m.from] = 0 => Holds(m.from, m.cmd)

ClientState(P) == \A m \in toClient : ClientMsgState(P, m)

\* The ballots of a recovery are later ones.
LaterBallots ==
  /\ \A m \in newLeaders : m.ballot > 0
  /\ \A s \in syncs : s.ballot > 0
  /\ \A r \in Replicas : status[r] = "RECOVERING" => ballot[r] > 0

FirstBallot(P) ==
  /\ P \in Seq(Commands) /\ \A i, j \in 1 .. Len(P) : P[i] = P[j] => i = j
  /\ LeaderState(P) /\ AckState(P) /\ ClientState(P)
  /\ \A r \in Replicas \ {0} : ballot[r] = 0 => FollowerState(P, r)

FirstBallotInvariant == LaterBallots /\ \E P \in Seq(Commands) : FirstBallot(P)

(***************************************************************************)
(* Sequences without repetitions, and what the leader appends.             *)
(***************************************************************************)
NoRepeats(s) == \A i, j \in 1 .. Len(s) : s[i] = s[j] => i = j

\* Unlink of a command the list has takes it out.
LEMMA UnlinkTakesOut ==
  ASSUME NEW s \in Seq(Commands), NoRepeats(s), NEW c \in Range0(s)
  PROVE  /\ NoRepeats(Unlink(s, c)) /\ Range0(Unlink(s, c)) = Range0(s) \ {c}
         /\ Unlink(s, c) \in Seq(Commands)
<1> DEFINE k == LastNode(s, c)
           n == Len(s)
           a == SubSeq(s, 1, k - 1)
           b == SubSeq(s, k + 1, n)
           t == a \o b
<1>1. n \in Nat /\ DOMAIN s = 1 .. n
  OBVIOUS
<1>2. PICK i \in 1 .. n : s[i] = c
  BY DEF Range0
<1>3. k \in 1 .. n /\ s[k] = c
  <2>1. k \in 0 .. n /\ (k # 0 => s[k] = c) /\ i <= k
    BY <1>1, <1>2, LastNodeIn
  <2> QED
    BY <1>1, <2>1
<1>4. Unlink(s, c) = t
  BY DEF Unlink, LastNode
<1> HIDE DEF k
<1>5. /\ a \in Seq(Commands) /\ Len(a) = k - 1 /\ (\A j \in 1 .. k - 1 : a[j] = s[j])
      /\ b \in Seq(Commands) /\ Len(b) = n - k /\ (\A j \in 1 .. n - k : b[j] = s[j + k])
  <2>1. \A l \in 1 .. k - 1 : s[l] \in Commands
    BY <1>1, <1>3
  <2>2. \A l \in k + 1 .. n : s[l] \in Commands
    BY <1>1, <1>3
  <2>3. k - 1 \in Int /\ k + 1 \in Int /\ n \in Int /\ 1 \in Int
    BY <1>1, <1>3
  <2>4. /\ a \in Seq(Commands) /\ Len(a) = IF 1 <= k - 1 THEN k - 1 - 1 + 1 ELSE 0
        /\ \A j \in 1 .. k - 1 - 1 + 1 : a[j] = s[1 + j - 1]
    BY <2>1, <2>3, SubSeqProperties
  <2>5. /\ b \in Seq(Commands) /\ Len(b) = IF k + 1 <= n THEN n - (k + 1) + 1 ELSE 0
        /\ \A j \in 1 .. n - (k + 1) + 1 : b[j] = s[k + 1 + j - 1]
    BY <2>2, <2>3, SubSeqProperties
  <2> HIDE DEF a, b
  <2>6. Len(a) = k - 1 /\ Len(b) = n - k /\ 1 .. k - 1 - 1 + 1 = 1 .. k - 1
        /\ 1 .. n - (k + 1) + 1 = 1 .. n - k
    <3>1. k - 1 - 1 + 1 = k - 1 /\ n - (k + 1) + 1 = n - k
      BY <1>1, <1>3
    <3>2. Len(a) = k - 1
      BY <1>1, <1>3, <2>4
    <3>3. Len(b) = n - k
      <4>1. Len(b) = IF k + 1 <= n THEN n - (k + 1) + 1 ELSE 0
        BY <2>5
      <4>2. k \in Int /\ n \in Int /\ k <= n
        BY <1>1, <1>3
      <4> DEFINE len == Len(b)
      <4> HIDE DEF len
      <4>3. len = IF k + 1 <= n THEN n - (k + 1) + 1 ELSE 0
        BY <4>1 DEF len
      <4>4. len = n - k
        BY <4>2, <4>3
      <4> QED
        BY <4>4 DEF len
    <3> QED
      BY <3>1, <3>2, <3>3
  <2>7. \A j \in 1 .. n - k : k + 1 + j - 1 = j + k /\ 1 + j - 1 = j
    BY <1>1, <1>3
  <2>8. \A j \in 1 .. k - 1 : 1 + j - 1 = j
    BY <1>1, <1>3
  <2> QED
    BY <2>4, <2>5, <2>6, <2>7, <2>8
<1> HIDE DEF a, b
<1>6. t \in Seq(Commands) /\ Len(t) = n - 1
  <2>1. t \in Seq(Commands) /\ Len(t) = Len(a) + Len(b)
    BY <1>5
  <2> QED
    BY <1>1, <1>3, <1>5, <2>1
<1>7. ASSUME NEW j \in 1 .. n - 1 PROVE t[j] = IF j < k THEN s[j] ELSE s[j + 1]
  <2>1. CASE j < k
    BY <1>1, <1>3, <1>5, <2>1
  <2>2. CASE ~(j < k)
    <3>1. j - (k - 1) \in 1 .. n - k /\ b[j - (k - 1)] = s[(j - (k - 1)) + k] /\ (j - (k - 1)) + k = j + 1
      BY <1>1, <1>3, <1>5, <2>2
    <3>2. t[j] = b[j - Len(a)]
      BY <1>1, <1>3, <1>5, <2>2
    <3> QED
      BY <1>5, <2>2, <3>1, <3>2
  <2> QED
    BY <2>1, <2>2
<1> HIDE DEF t
<1>8. NoRepeats(t)
  <2> SUFFICES ASSUME NEW j \in 1 .. n - 1, NEW l \in 1 .. n - 1, t[j] = t[l] PROVE j = l
    BY <1>6 DEF NoRepeats
  <2> DEFINE f(y) == IF y < k THEN y ELSE y + 1
  <2>1. f(j) \in 1 .. n /\ f(l) \in 1 .. n /\ t[j] = s[f(j)] /\ t[l] = s[f(l)]
    BY <1>1, <1>7
  <2>2. f(j) = f(l)
    BY <2>1 DEF NoRepeats
  <2> QED
    BY <1>1, <1>3, <2>2
<1>9. Range0(t) \subseteq Range0(s) \ {c}
  <2> SUFFICES ASSUME NEW j \in 1 .. n - 1 PROVE t[j] \in Range0(s) /\ t[j] # c
    BY <1>6 DEF Range0
  <2>1. CASE j < k
    BY <1>1, <1>3, <1>7, <2>1 DEF NoRepeats, Range0
  <2>2. CASE ~(j < k)
    <3>1. j + 1 \in 1 .. n /\ t[j] = s[j + 1] /\ j + 1 # k
      BY <1>1, <1>3, <1>7, <2>2
    <3> QED
      BY <1>3, <3>1 DEF NoRepeats, Range0
  <2> QED
    BY <2>1, <2>2
<1>10. Range0(s) \ {c} \subseteq Range0(t)
  <2> SUFFICES ASSUME NEW j \in 1 .. n, s[j] # c PROVE s[j] \in Range0(t)
    BY DEF Range0
  <2>1. CASE j < k
    <3>1. j \in 1 .. n - 1 /\ t[j] = s[j]
      BY <1>1, <1>3, <1>7, <2>1
    <3> QED
      BY <1>6, <3>1 DEF Range0
  <2>2. CASE j > k
    <3>1. j - 1 \in 1 .. n - 1 /\ ~(j - 1 < k) /\ (j - 1) + 1 = j
      BY <1>1, <1>3, <2>2
    <3>2. t[j - 1] = s[j]
      BY <1>7, <3>1
    <3> QED
      BY <1>6, <3>1, <3>2 DEF Range0
  <2> QED
    BY <1>1, <1>3, <2>1, <2>2
<1> QED
  BY <1>4, <1>6, <1>8, <1>9, <1>10

\* The last command of a sequence, and its last write.
LEMMA LastOfAppend ==
  ASSUME NEW P \in Seq(Commands), NEW c \in Commands
  PROVE  LET Q == Append(P, c)
         IN  /\ Q \in Seq(Commands) /\ Len(Q) = Len(P) + 1 /\ Q[Len(Q)] = c
             /\ \A i \in 1 .. Len(P) : Q[i] = P[i]
             /\ Range0(Q) = Range0(P) \cup {c}
             /\ LastOf(Q) = {c}
             /\ LastWriteOf(Q) = IF c \in Reads THEN LastWriteOf(P) ELSE {c}
<1> DEFINE Q == Append(P, c)
           n == Len(P)
<1>1. n \in Nat /\ Q \in Seq(Commands) /\ Len(Q) = n + 1 /\ Q[n + 1] = c /\ \A i \in 1 .. n : Q[i] = P[i]
  OBVIOUS
<1> HIDE DEF Q
<1>2. 1 .. n + 1 = (1 .. n) \cup {n + 1}
  BY <1>1
<1>3. Range0(Q) = Range0(P) \cup {c}
  BY <1>1, <1>2 DEF Range0
<1>4. LastOf(Q) = {c}
  <2>1. {k \in 1 .. n + 1 : \A j \in 1 .. n + 1 : j <= k} = {n + 1}
    BY <1>1
  <2>2. LastOf(Q) = {Q[i] : i \in {n + 1}}
    BY <1>1, <2>1 DEF LastOf
  <2> QED
    BY <1>1, <2>2
<1>5. LastWriteOf(Q) = IF c \in Reads THEN LastWriteOf(P) ELSE {c}
  <2> DEFINE W == {i \in 1 .. n : P[i] \notin Reads}
             V == {i \in 1 .. n + 1 : Q[i] \notin Reads}
             lastP == {k \in W : \A j \in W : j <= k}
             lastQ == {k \in V : \A j \in V : j <= k}
  <2>1. LastWriteOf(P) = {P[i] : i \in lastP}
    BY DEF LastWriteOf
  <2>2. LastWriteOf(Q) = {Q[i] : i \in lastQ}
    BY <1>1 DEF LastWriteOf
  <2>3. CASE c \in Reads
    <3>1. V = W
      BY <1>1, <1>2, <2>3
    <3>2. lastQ = lastP /\ lastP \subseteq 1 .. n
      BY <3>1
    <3> HIDE DEF lastQ, lastP
    <3>3. {Q[i] : i \in lastQ} = {P[i] : i \in lastP}
      BY <1>1, <3>2
    <3> QED
      BY <2>1, <2>2, <2>3, <3>3
  <2>4. CASE c \notin Reads
    <3>1. n + 1 \in V /\ \A j \in V : j <= n + 1
      BY <1>1, <2>4
    <3>2. lastQ = {n + 1}
      <4>1. n + 1 \in lastQ
        BY <3>1
      <4>2. ASSUME NEW k \in lastQ PROVE k = n + 1
        BY <1>1, <3>1
      <4> QED
        BY <4>1, <4>2
    <3> HIDE DEF lastQ
    <3> QED
      BY <1>1, <2>2, <2>4, <3>2
  <2> QED
    BY <2>3, <2>4
<1> QED
  BY <1>1, <1>3, <1>4, <1>5 DEF Q

\* The dependencies of the last command are those lastCmd and lastWrite give it.
LEMMA DepInAppend ==
  ASSUME NEW P \in Seq(Commands), NEW c \in Commands
  PROVE  DepIn(Append(P, c)) = IF c \in Reads THEN LastWriteOf(P) ELSE LastOf(P)
<1> DEFINE Q == Append(P, c)
           n == Len(P)
           before == {i \in 1 .. Len(Q) - 1 : c \in Reads => Q[i] \notin Reads}
           last == {k \in before : \A j \in before : j <= k}
<1>1. n \in Nat /\ Len(Q) = n + 1 /\ Q[n + 1] = c /\ \A i \in 1 .. n : Q[i] = P[i]
  OBVIOUS
<1> HIDE DEF Q
<1>2. DepIn(Q) = {Q[i] : i \in last}
  BY <1>1 DEF DepIn
<1>3. 1 .. Len(Q) - 1 = 1 .. n
  BY <1>1
<1>4. CASE c \in Reads
  <2> DEFINE W == {i \in 1 .. n : P[i] \notin Reads}
             lastP == {k \in W : \A j \in W : j <= k}
  <2>1. before = W
    BY <1>1, <1>3, <1>4
  <2>2. last = lastP /\ lastP \subseteq 1 .. n
    BY <2>1
  <2>3. LastWriteOf(P) = {P[i] : i \in lastP}
    BY DEF LastWriteOf
  <2> HIDE DEF last, lastP
  <2>4. {Q[i] : i \in last} = {P[i] : i \in lastP}
    BY <1>1, <2>2
  <2> QED
    BY <1>2, <1>4, <2>3, <2>4 DEF Q
<1>5. CASE c \notin Reads
  <2> DEFINE lastP == {k \in 1 .. n : \A j \in 1 .. n : j <= k}
  <2>1. before = 1 .. n
    BY <1>3, <1>5
  <2>2. last = lastP /\ lastP \subseteq 1 .. n
    BY <2>1
  <2>3. LastOf(P) = {P[i] : i \in lastP}
    BY DEF LastOf
  <2> HIDE DEF last, lastP
  <2>4. {Q[i] : i \in last} = {P[i] : i \in lastP}
    BY <1>1, <2>2
  <2> QED
    BY <1>2, <1>5, <2>3, <2>4 DEF Q
<1> QED
  BY <1>4, <1>5

\* A prefix is in what it is a prefix of, and stays what it is when the sequence grows.
LEMMA PrefixFacts ==
  ASSUME NEW P \in Seq(Commands), NEW k \in 1 .. Len(P)
  PROVE  /\ SubSeq(P, 1, k) \in Seq(Commands)
         /\ DepIn(SubSeq(P, 1, k)) \subseteq Range0(P)
         /\ DepIn(SubSeq(P, 1, k)) \in SUBSET Commands
         /\ P[k] \in Range0(P)
<1>1. Len(P) \in Nat
  OBVIOUS
<1> DEFINE s == SubSeq(P, 1, k)
<1>2. s \in Seq(Commands) /\ Len(s) = k /\ \A i \in 1 .. k : s[i] = P[i]
  BY <1>1
<1> HIDE DEF s
<1>3. DepIn(s) \subseteq {s[i] : i \in 1 .. k - 1}
  BY <1>1, <1>2 DEF DepIn
<1>4. {s[i] : i \in 1 .. k - 1} \subseteq Range0(P)
  BY <1>1, <1>2 DEF Range0
<1>5. Range0(P) \subseteq Commands
  BY DEF Range0
<1> QED
  BY <1>2, <1>3, <1>4, <1>5 DEF Range0, s

LEMMA PrefixStays ==
  ASSUME NEW P \in Seq(Commands), NEW c \in Commands
  PROVE  /\ \A k \in 0 .. Len(P) : SubSeq(Append(P, c), 1, k) = SubSeq(P, 1, k)
         /\ SubSeq(Append(P, c), 1, Len(P) + 1) = Append(P, c)
         /\ \A b, k, hs : k \in 1 .. Len(P) /\ IsHashOf(P, b, k, hs) => IsHashOf(Append(P, c), b, k, hs)
         /\ \A b, dep : GivenDep(P, b, dep) => GivenDep(Append(P, c), b, dep)
<1> DEFINE Q == Append(P, c)
<1>1. Len(P) \in Nat /\ Q \in Seq(Commands) /\ Len(Q) = Len(P) + 1
      /\ \A i \in 1 .. Len(P) : Q[i] = P[i]
  OBVIOUS
<1>2. ASSUME NEW k \in 0 .. Len(P) PROVE SubSeq(Q, 1, k) = SubSeq(P, 1, k)
  BY <1>1
<1>3. SubSeq(Q, 1, Len(P) + 1) = Q
  BY <1>1
<1> HIDE DEF Q
<1>4. 1 .. Len(P) \subseteq 0 .. Len(P) /\ 1 .. Len(P) \subseteq 1 .. Len(Q)
  BY <1>1
<1>5. ASSUME NEW b, NEW k, NEW hs, k \in 1 .. Len(P), IsHashOf(P, b, k, hs)
      PROVE  IsHashOf(Q, b, k, hs)
  BY <1>1, <1>2, <1>4, <1>5 DEF IsHashOf
<1>6. ASSUME NEW b, NEW dep, GivenDep(P, b, dep) PROVE GivenDep(Q, b, dep)
  BY <1>1, <1>2, <1>4, <1>6 DEF GivenDep
<1> QED
  BY <1>2, <1>3, <1>5, <1>6 DEF Q

\* Replica 0 is in the fast quorum of the first ballot: the majority visited first is that
\* of the lowest replicas (quorum.go).
LEMMA LeaderInFastQuorum == 0 \in FQ[0]
<1> DEFINE QS == QuorumsOfLeader(0)
           Q0 == 0 .. MajoritySize - 1
<1>1. MajoritySize \in Nat /\ MajoritySize >= 1 /\ MajoritySize <= N
  BY NAssumption DEF MajoritySize
<1>2. IsFiniteSet(Replicas)
  BY NAssumption, FS_Interval DEF Replicas
<1>3. Q0 \in QS
  <2>1. Cardinality(Q0) = MajoritySize
    BY <1>1, FS_Interval
  <2>2. Q0 \subseteq Replicas /\ 0 \in Q0
    BY <1>1, NAssumption DEF Replicas
  <2> QED
    BY <2>1, <2>2 DEF QuorumsOfLeader, kSubset
<1>4. QuorumId(0, Q0) = 0
  <2>1. ASSUME NEW A \in QS PROVE ~VisitedBefore(A, Q0)
    <3> SUFFICES ASSUME A # Q0, Min((A \cup Q0) \ (A \cap Q0)) \in A PROVE FALSE
      BY DEF VisitedBefore
    <3> DEFINE D == (A \cup Q0) \ (A \cap Q0)
    <3>1. A \subseteq Replicas /\ Cardinality(A) = MajoritySize /\ IsFiniteSet(A)
      BY <1>2, FS_Subset DEF QuorumsOfLeader, kSubset
    <3>10. Replicas \subseteq Nat /\ Q0 \subseteq Nat
      BY <1>1, NAssumption DEF Replicas
    <3>2. D \subseteq Nat /\ D # {}
      <4> HIDE DEF Q0
      <4> QED
        BY <3>1, <3>10
    <3>3. PICK z \in D : \A y \in D : z <= y
      BY <3>2, LeastOf
    <3>4. Min(D) \in D /\ \A y \in D : Min(D) <= y
      BY <3>3 DEF Min
    <3>5. Min(D) \in A \ Q0
      BY <3>4
    <3>6. Min(D) \in Nat /\ Min(D) >= MajoritySize
      <4>1. Min(D) \in Nat /\ Min(D) \notin Q0
        <5> HIDE DEF Q0, D
        <5> QED
          BY <3>1, <3>5, <3>10
      <4> HIDE DEF D
      <4> QED
        BY <1>1, <4>1
    <3>7. Q0 \subseteq A
      <4> SUFFICES ASSUME NEW y \in Q0, y \notin A PROVE FALSE
        OBVIOUS
      <4>1. y \in D /\ y < MajoritySize
        BY <1>1
      <4>2. Min(D) <= y
        BY <3>4, <4>1
      <4> QED
        BY <1>1, <3>6, <4>1, <4>2
    <3>8. Cardinality(Q0) = MajoritySize
      BY <1>1, FS_Interval
    <3>9. A = Q0
      BY <3>1, <3>7, <3>8, FS_Subset
    <3> QED
      BY <3>9
  <2>2. {A \in QS : VisitedBefore(A, Q0)} = {}
    BY <2>1
  <2>3. Cardinality({}) = 0
    BY FS_EmptySet
  <2>4. QuorumId(0, Q0) = Cardinality({A \in QS : VisitedBefore(A, Q0)})
    BY Zenon DEF QuorumId
  <2> QED
    BY <2>2, <2>3, <2>4
<1>5. (0 \div N) % Cardinality(QS) = 0
  <2>1. IsFiniteSet(QS)
    <3>1. QS \subseteq SUBSET Replicas
      BY DEF QuorumsOfLeader, kSubset
    <3> QED
      BY <1>2, <3>1, FS_SUBSET, FS_Subset
  <2>2. Cardinality(QS) \in Nat /\ Cardinality(QS) # 0
    BY <1>3, <2>1, FS_CardinalityType, FS_EmptySet
  <2>3. 0 \div N = 0
    BY NAssumption
  <2> HIDE DEF QS
  <2> QED
    BY <2>2, <2>3
<1>6. AQ(0) \in QS
  <2>1. AQ(0) = CHOOSE Q \in QS : QuorumId(0, Q) = (0 \div N) % Cardinality(QS)
    BY LeaderIsReplica, Zenon DEF AQ
  <2> HIDE DEF QS, Q0
  <2> QED
    BY <1>3, <1>4, <1>5, <2>1
<1>7. 0 \in AQ(0)
  BY <1>6 DEF QuorumsOfLeader
<1> QED
  BY <1>7, BallotAssumption DEF FQ
-------------------------------------------------------------------------------
(***************************************************************************)
(* The hash log of a follower.                                             *)
(***************************************************************************)
\* g is h with the leader's hash of the k-th command.
Records(P, h, k, g) ==
  /\ g.pendingUpd = h.pendingUpd
  /\ g.synced \in -1 .. Len(P) - 1 /\ g.syncedHash = SubSeq(P, 1, g.synced + 1)
  /\ h.synced <= g.synced /\ k - 1 <= g.synced
  /\ NoRepeats(g.pending) /\ Range0(g.pending) = Range0(h.pending) \ {P[k]}

\* The leader's hash of a command the log has takes it out of the pending ones.
LEMMA HashUpdateFacts ==
  ASSUME NEW P \in Seq(Commands), NEW h \in HashLog, NEW k \in 1 .. Len(P),
         NEW u, u.cmd = P[k], u.seqnum = k - 1, u.hash = SubSeq(P, 1, k),
         h.synced \in -1 .. Len(P) - 1, h.syncedHash = SubSeq(P, 1, h.synced + 1),
         NoRepeats(h.pending), P[k] \in Range0(h.pending)
  PROVE  Records(P, h, k, HashUpdate(h, u))
<1> DEFINE g == HashUpdate(h, u)
           t == Unlink(h.pending, u.cmd)
           rest == [h EXCEPT !.pending = t]
<1>1. t \in Seq(Commands) /\ NoRepeats(t) /\ Range0(t) = Range0(h.pending) \ {P[k]}
  <2>1. h.pending \in Seq(Commands)
    BY DEF HashLog
  <2> QED
    BY <2>1, UnlinkTakesOut
<1>2. g = IF u.seqnum > h.synced
          THEN [rest EXCEPT !.synced = u.seqnum, !.syncedHash = u.hash] ELSE rest
  BY DEF HashUpdate
<1> HIDE DEF t, g
<1>3. /\ rest \in HashLog /\ rest.synced = h.synced /\ rest.syncedHash = h.syncedHash
      /\ rest.pending = t /\ rest.pendingUpd = h.pendingUpd
  BY <1>1 DEF HashLog
<1> HIDE DEF rest
<1>4. Len(P) \in Nat /\ h.synced \in Int /\ k \in Int /\ k - 1 + 1 = k
  OBVIOUS
<1>5. CASE k - 1 > h.synced
  <2>1. g = [rest EXCEPT !.synced = k - 1, !.syncedHash = SubSeq(P, 1, k)]
    BY <1>2, <1>3, <1>5
  <2>2. /\ g.synced = k - 1 /\ g.syncedHash = SubSeq(P, 1, k) /\ g.pending = t
        /\ g.pendingUpd = h.pendingUpd
    BY <1>3, <2>1 DEF HashLog
  <2>3. k - 1 \in -1 .. Len(P) - 1 /\ h.synced <= k - 1
    BY <1>4, <1>5
  <2> QED
    BY <1>1, <1>4, <2>2, <2>3 DEF g, Records
<1>6. CASE ~(k - 1 > h.synced)
  <2>1. g = rest
    BY <1>2, <1>3, <1>6
  <2>2. k - 1 <= h.synced /\ h.synced <= h.synced
    BY <1>4, <1>6
  <2> QED
    BY <1>1, <1>3, <1>4, <2>1, <2>2 DEF g, Records
<1> QED
  BY <1>5, <1>6

\* The leader registers another command and its acks are under way.
LEMMA HashGrows ==
  ASSUME TypeOK, NEW q \in Replicas, NEW P \in Seq(Commands), NEW c \in Commands,
         c \notin Range0(P), HashState(P, q),
         hlog'[q] = hlog[q], pendingHashUpds'[q] = pendingHashUpds[q], proposes'[q] = proposes[q],
         \A b \in Commands : Comes(q, b)' <=> Comes(q, b) \/ b = c
  PROVE  HashState(Append(P, c), q)'
<1> DEFINE Q == Append(P, c)
           h == hlog[q]
           n == Len(P)
<1>1. /\ n \in Nat /\ Q \in Seq(Commands) /\ Len(Q) = n + 1 /\ Q[n + 1] = c
      /\ (\A i \in 1 .. n : Q[i] = P[i]) /\ Range0(Q) = Range0(P) \cup {c}
      /\ \A i \in 1 .. n : P[i] \in Commands
  BY LastOfAppend
<1>2. \A k \in 0 .. n : SubSeq(Q, 1, k) = SubSeq(P, 1, k)
  BY PrefixStays
<1>3. \A b, k, hs : k \in 1 .. n /\ IsHashOf(P, b, k, hs) => IsHashOf(Q, b, k, hs)
  BY PrefixStays
<1> HIDE DEF Q
<1>4. /\ h.pendingUpd = {} /\ h.synced \in -1 .. n - 1 /\ h.syncedHash = SubSeq(P, 1, h.synced + 1)
      /\ \A i, j \in 1 .. Len(h.pending) : h.pending[i] = h.pending[j] => i = j
      /\ Range0(h.pending) \subseteq proposes[q]
      /\ proposes[q] \subseteq Range0(h.pending) \cup Range0(P)
      /\ \A u \in pendingHashUpds[q] :
           u.cmd \notin proposes[q] /\ \E k \in 1 .. n : IsHashOf(P, u.cmd, k, u.hash) /\ u.seqnum = k - 1
      /\ \A b \in Commands : Comes(q, b) =>
           /\ b \in proposes[q] => b \in Range0(h.pending)
           /\ \A u \in pendingHashUpds[q] : u.cmd # b
      /\ \A k \in 1 .. n :
           \/ Comes(q, P[k])
           \/ \E u \in pendingHashUpds[q] : u.cmd = P[k]
           \/ k - 1 <= h.synced /\ P[k] \in proposes[q] /\ P[k] \notin Range0(h.pending)
  BY DEF HashState
<1>5. h.synced \in -1 .. (n + 1) - 1 /\ h.synced + 1 \in 0 .. n
  BY <1>1, <1>4
<1>6. h.syncedHash = SubSeq(Q, 1, h.synced + 1)
  BY <1>2, <1>4, <1>5
<1>7. 1 .. n \subseteq 1 .. n + 1
  BY <1>1
<1>8. ASSUME NEW u \in pendingHashUpds[q]
      PROVE  /\ u.cmd \notin proposes[q] /\ u.cmd # c
             /\ \E k \in 1 .. n + 1 : IsHashOf(Q, u.cmd, k, u.hash) /\ u.seqnum = k - 1
  <2>1. PICK k \in 1 .. n : IsHashOf(P, u.cmd, k, u.hash) /\ u.seqnum = k - 1
    BY <1>4
  <2>2. IsHashOf(Q, u.cmd, k, u.hash) /\ k \in 1 .. n + 1
    BY <1>3, <1>7, <2>1
  <2>3. u.cmd # c
    BY <2>1 DEF IsHashOf, Range0
  <2> QED
    BY <1>4, <2>1, <2>2, <2>3
<1>9. ASSUME NEW b \in Commands, Comes(q, b)'
      PROVE  /\ b \in proposes[q] => b \in Range0(h.pending)
             /\ \A u \in pendingHashUpds[q] : u.cmd # b
  <2>1. CASE b = c
    BY <1>4, <1>8, <2>1
  <2>2. CASE b # c
    BY <1>4, <1>9, <2>2
  <2> QED
    BY <2>1, <2>2
<1>10. ASSUME NEW k \in 1 .. n + 1
       PROVE  \/ Comes(q, Q[k])'
              \/ \E u \in pendingHashUpds[q] : u.cmd = Q[k]
              \/ k - 1 <= h.synced /\ Q[k] \in proposes[q] /\ Q[k] \notin Range0(h.pending)
  <2>1. CASE k = n + 1
    BY <1>1, <2>1
  <2>2. CASE k # n + 1
    <3>1. k \in 1 .. n
      BY <1>1, <2>2
    <3>2. Q[k] = P[k] /\ P[k] \in Commands
      BY <1>1, <3>1
    <3> QED
      BY <1>4, <3>1, <3>2
  <2> QED
    BY <2>1, <2>2
<1>11. proposes[q] \subseteq Range0(h.pending) \cup Range0(Q)
  BY <1>1, <1>4
<1> QED
  BY <1>1, <1>4, <1>5, <1>6, <1>8, <1>9, <1>10, <1>11 DEF HashState, Q

\* Nothing of it changes.
LEMMA HashStays ==
  ASSUME NEW q \in Replicas, NEW P, HashState(P, q),
         hlog'[q] = hlog[q], pendingHashUpds'[q] = pendingHashUpds[q], proposes'[q] = proposes[q],
         \A b : Comes(q, b)' <=> Comes(q, b)
  PROVE  HashState(P, q)'
BY DEF HashState

\* The follower registers a command it has not had.
LEMMA HashRegisters ==
  ASSUME TypeOK, NEW r \in Replicas, NEW P \in Seq(Commands), NEW c \in Commands,
         NoRepeats(P), HashState(P, r), c \notin proposes[r], 0 # r, LeaderOf(r) = 0,
         proposes' = [proposes EXCEPT ![r] = @ \cup {c}],
         \A b : Comes(r, b)' <=> Comes(r, b),
         LET a == HashLogAppend(hlog[r], c)
             U == {u \in pendingHashUpds[r] : u.cmd = c /\ r # LeaderOf(r)}
         IN  IF U = {} THEN hlog' = [hlog EXCEPT ![r] = a.log] /\ UNCHANGED <<pendingHashUpds, stopped>>
             ELSE RecordLeaderHash(r, CHOOSE u \in U : TRUE, a.log)
  PROVE  HashState(P, r)'
<1> DEFINE h == hlog[r]
           n == Len(P)
           U == {u \in pendingHashUpds[r] : u.cmd = c}
           f == [h EXCEPT !.pending = Append(@, c)]
<1>1. /\ n \in Nat /\ h \in HashLog /\ proposes[r] \in SUBSET Commands /\ h.pending \in Seq(Commands)
      /\ proposes'[r] = proposes[r] \cup {c}
  BY DEF TypeOK, HashLog
<1>2. /\ h.pendingUpd = {} /\ h.synced \in -1 .. n - 1 /\ h.syncedHash = SubSeq(P, 1, h.synced + 1)
      /\ NoRepeats(h.pending)
      /\ Range0(h.pending) \subseteq proposes[r]
      /\ proposes[r] \subseteq Range0(h.pending) \cup Range0(P)
      /\ \A u \in pendingHashUpds[r] :
           u.cmd \notin proposes[r] /\ \E k \in 1 .. n : IsHashOf(P, u.cmd, k, u.hash) /\ u.seqnum = k - 1
      /\ \A b \in Commands : Comes(r, b) =>
           /\ b \in proposes[r] => b \in Range0(h.pending)
           /\ \A u \in pendingHashUpds[r] : u.cmd # b
      /\ \A k \in 1 .. n :
           \/ Comes(r, P[k])
           \/ \E u \in pendingHashUpds[r] : u.cmd = P[k]
           \/ k - 1 <= h.synced /\ P[k] \in proposes[r] /\ P[k] \notin Range0(h.pending)
  BY DEF HashState, NoRepeats
<1>3. HashLogAppend(h, c).log = f
  BY <1>2 DEF HashLogAppend
<1>4. /\ f \in HashLog /\ f.pendingUpd = {} /\ f.synced = h.synced /\ f.syncedHash = h.syncedHash
      /\ f.pending = Append(h.pending, c)
  <2>1. Append(h.pending, c) \in Seq(Commands)
    BY <1>1
  <2> QED
    BY <1>1, <1>2, <2>1 DEF HashLog
<1> HIDE DEF f
<1>5. NoRepeats(f.pending) /\ Range0(f.pending) = Range0(h.pending) \cup {c}
  <2> DEFINE s == h.pending
             t == Append(s, c)
  <2>1. /\ Len(s) \in Nat /\ Len(t) = Len(s) + 1 /\ t[Len(s) + 1] = c /\ (\A i \in 1 .. Len(s) : t[i] = s[i])
        /\ Range0(t) = Range0(s) \cup {c}
    BY <1>1, LastOfAppend
  <2>2. \A i \in 1 .. Len(s) : s[i] # c
    BY <1>2 DEF Range0
  <2>3. 1 .. Len(t) = (1 .. Len(s)) \cup {Len(s) + 1}
    BY <2>1
  <2> HIDE DEF s, t
  <2>4. NoRepeats(s)
    BY <1>2 DEF s
  <2>5. NoRepeats(t)
    BY <2>1, <2>2, <2>3, <2>4 DEF NoRepeats
  <2> QED
    BY <1>4, <2>1, <2>5 DEF s, t
<1>6. {u \in pendingHashUpds[r] : u.cmd = c /\ r # LeaderOf(r)} = U
  OBVIOUS
<1>7. CASE U = {}
  <2>1. hlog'[r] = f /\ pendingHashUpds'[r] = pendingHashUpds[r]
    BY <1>3, <1>6, <1>7 DEF TypeOK
  <2>2. \A u \in pendingHashUpds[r] : u.cmd # c
    BY <1>7
  <2>3. /\ Range0(f.pending) \subseteq proposes'[r]
        /\ proposes'[r] \subseteq Range0(f.pending) \cup Range0(P)
    BY <1>1, <1>2, <1>5
  <2>4. \A u \in pendingHashUpds[r] : u.cmd \notin proposes'[r]
    BY <1>1, <1>2, <2>2
  <2>5. \A b \in Commands : Comes(r, b) /\ b \in proposes'[r] => b \in Range0(f.pending)
    BY <1>1, <1>2, <1>5
  <2>6. \A k \in 1 .. n :
           \/ Comes(r, P[k])
           \/ \E u \in pendingHashUpds[r] : u.cmd = P[k]
           \/ k - 1 <= h.synced /\ P[k] \in proposes'[r] /\ P[k] \notin Range0(f.pending)
    BY <1>1, <1>2, <1>5
  <2> QED
    BY <1>2, <1>4, <1>5, <2>1, <2>3, <2>4, <2>5, <2>6 DEF HashState, NoRepeats
<1>8. CASE U # {}
  <2> DEFINE u == CHOOSE u \in U : TRUE
             g == HashUpdate(f, u)
  <2>1. u \in U /\ u \in pendingHashUpds[r] /\ u.cmd = c
    BY <1>8
  <2>2. RecordLeaderHash(r, u, f)
    BY <1>3, <1>6, <1>8
  <2> HIDE DEF u
  <2>3. PICK k \in 1 .. n : P[k] = c /\ u.hash = SubSeq(P, 1, k) /\ u.seqnum = k - 1
    BY <1>2, <2>1 DEF IsHashOf
  <2>4. u.hash # Nil
    BY <2>3, PrefixFacts, NilAssumption
  <2>5. c \in proposes'[r] /\ HashLogUpdate(f, u) = g
    <3>1. \E i \in DOMAIN f.pending : f.pending[i] = u.cmd
      <4>1. f.pending \in Seq(Commands) /\ c \in Range0(f.pending)
        BY <1>4, <1>5 DEF HashLog
      <4> QED
        BY <2>1, <4>1 DEF Range0
    <3> QED
      BY <1>1, <3>1 DEF HashLogUpdate
  <2>6. hlog'[r] = g /\ pendingHashUpds'[r] = {v \in pendingHashUpds[r] : v.cmd # c}
    <3>1. hlog'[r] = HashLogUpdate(f, u)
      BY <2>1, <2>2, <2>4, <2>5 DEF RecordLeaderHash, TypeOK
    <3>2. pendingHashUpds'[r] = {v \in pendingHashUpds[r] : v.cmd # u.cmd} \cup {v \in {u} : u.cmd \notin proposes'[r]}
      BY <2>2 DEF RecordLeaderHash, TypeOK
    <3> QED
      BY <2>1, <2>5, <3>1, <3>2
  <2>7. /\ g.pendingUpd = {}
        /\ g.synced \in -1 .. Len(P) - 1 /\ g.syncedHash = SubSeq(P, 1, g.synced + 1)
        /\ h.synced <= g.synced /\ k - 1 <= g.synced
        /\ NoRepeats(g.pending) /\ Range0(g.pending) = Range0(h.pending)
    <3>1. c \in Range0(f.pending) /\ c \notin Range0(h.pending)
      BY <1>2, <1>5
    <3>2. Records(P, f, k, g)
      BY <1>2, <1>4, <1>5, <2>1, <2>3, <3>1, HashUpdateFacts
    <3> HIDE DEF g
    <3> QED
      BY <1>4, <1>5, <2>3, <3>1, <3>2 DEF Records
  <2> HIDE DEF g
  <2>8. /\ Range0(g.pending) \subseteq proposes'[r]
        /\ proposes'[r] \subseteq Range0(g.pending) \cup Range0(P)
    <3>1. c \in Range0(P)
      BY <2>3 DEF Range0
    <3> QED
      BY <1>1, <1>2, <2>7, <3>1
  <2>9. \A v \in pendingHashUpds'[r] :
           v.cmd \notin proposes'[r] /\ \E l \in 1 .. n : IsHashOf(P, v.cmd, l, v.hash) /\ v.seqnum = l - 1
    BY <1>1, <1>2, <2>6
  <2>10. \A b \in Commands : Comes(r, b) =>
           /\ b \in proposes'[r] => b \in Range0(g.pending)
           /\ \A v \in pendingHashUpds'[r] : v.cmd # b
    <3>1. ~Comes(r, c)
      BY <1>2, <2>1
    <3> QED
      BY <1>1, <1>2, <2>6, <2>7, <3>1
  <2>11. ASSUME NEW l \in 1 .. n
         PROVE  \/ Comes(r, P[l])
                \/ \E v \in pendingHashUpds'[r] : v.cmd = P[l]
                \/ l - 1 <= g.synced /\ P[l] \in proposes'[r] /\ P[l] \notin Range0(g.pending)
    <3>1. CASE P[l] = c
      <4>1. l = k
        BY <2>3, <3>1 DEF NoRepeats
      <4>2. P[l] \notin Range0(g.pending)
        BY <1>2, <2>7, <3>1
      <4> QED
        BY <2>5, <2>7, <3>1, <4>1, <4>2
    <3>2. CASE P[l] # c
      <4>1. h.synced \in Int /\ g.synced \in Int /\ l - 1 \in Int
        BY <1>1, <1>2, <2>7
      <4>2. l - 1 <= h.synced => l - 1 <= g.synced
        BY <2>7, <4>1
      <4> QED
        BY <1>1, <1>2, <2>6, <2>7, <3>2, <4>2
    <3> QED
      BY <3>1, <3>2
  <2> QED
    BY <2>6, <2>7, <2>8, <2>9, <2>10, <2>11 DEF HashState, NoRepeats
<1> QED
  BY <1>7, <1>8

\* The follower receives an ack of the leader.
LEMMA HashRecords ==
  ASSUME TypeOK, NEW r \in Replicas, NEW P \in Seq(Commands), NEW m \in acks,
         NoRepeats(P), HashState(P, r), m.from = 0, m.to = r,
         NEW k \in 1 .. Len(P), IsHashOf(P, m.cmd, k, m.checksum), m.seqnum = k - 1,
         proposes' = proposes,
         \A b : Comes(r, b)' <=> Comes(r, b) /\ b # m.cmd,
         RecordLeaderHash(r, [cmd |-> m.cmd, seqnum |-> m.seqnum, hash |-> m.checksum], hlog[r])
  PROVE  HashState(P, r)'
<1> DEFINE h == hlog[r]
           n == Len(P)
           c == m.cmd
           u == [cmd |-> m.cmd, seqnum |-> m.seqnum, hash |-> m.checksum]
           g == HashUpdate(h, u)
<1>1. /\ n \in Nat /\ h \in HashLog /\ proposes[r] \in SUBSET Commands /\ h.pending \in Seq(Commands)
      /\ c \in Commands
  <2>1. c \in Commands
    BY DEF TypeOK, FastAck
  <2> QED
    BY <2>1 DEF TypeOK, HashLog
<1>2. /\ h.pendingUpd = {} /\ h.synced \in -1 .. n - 1 /\ h.syncedHash = SubSeq(P, 1, h.synced + 1)
      /\ NoRepeats(h.pending)
      /\ Range0(h.pending) \subseteq proposes[r]
      /\ proposes[r] \subseteq Range0(h.pending) \cup Range0(P)
      /\ \A v \in pendingHashUpds[r] :
           v.cmd \notin proposes[r] /\ \E l \in 1 .. n : IsHashOf(P, v.cmd, l, v.hash) /\ v.seqnum = l - 1
      /\ \A b \in Commands : Comes(r, b) =>
           /\ b \in proposes[r] => b \in Range0(h.pending)
           /\ \A v \in pendingHashUpds[r] : v.cmd # b
      /\ \A l \in 1 .. n :
           \/ Comes(r, P[l])
           \/ \E v \in pendingHashUpds[r] : v.cmd = P[l]
           \/ l - 1 <= h.synced /\ P[l] \in proposes[r] /\ P[l] \notin Range0(h.pending)
  BY DEF HashState, NoRepeats
<1>3. P[k] = c /\ m.checksum = SubSeq(P, 1, k) /\ m.checksum # Nil
  BY PrefixFacts, NilAssumption DEF IsHashOf
<1>4. Comes(r, c) /\ u.cmd = c /\ u.hash = m.checksum /\ u.seqnum = k - 1
  BY DEF Comes
<1>5. RecordLeaderHash(r, u, h)
  OBVIOUS
<1> HIDE DEF u
<1>6. /\ hlog'[r] = IF c \in proposes[r] THEN HashLogUpdate(h, u) ELSE h
      /\ pendingHashUpds'[r] = {v \in pendingHashUpds[r] : v.cmd # c} \cup {v \in {u} : c \notin proposes[r]}
  BY <1>3, <1>4, <1>5 DEF RecordLeaderHash, TypeOK
<1>7. \A v \in pendingHashUpds[r] : v.cmd # c
  BY <1>1, <1>2, <1>4
<1>8. CASE c \in proposes[r]
  <2>1. c \in Range0(h.pending)
    BY <1>1, <1>2, <1>4, <1>8
  <2>2. HashLogUpdate(h, u) = g
    <3>1. \E i \in DOMAIN h.pending : h.pending[i] = u.cmd
      BY <1>1, <1>4, <2>1 DEF Range0
    <3> QED
      BY <3>1 DEF HashLogUpdate
  <2>3. hlog'[r] = g /\ pendingHashUpds'[r] = pendingHashUpds[r]
    BY <1>6, <1>7, <1>8, <2>2
  <2>4. /\ g.pendingUpd = h.pendingUpd
        /\ g.synced \in -1 .. Len(P) - 1 /\ g.syncedHash = SubSeq(P, 1, g.synced + 1)
        /\ h.synced <= g.synced /\ k - 1 <= g.synced
        /\ NoRepeats(g.pending) /\ Range0(g.pending) = Range0(h.pending) \ {P[k]}
    <3>1. Records(P, h, k, g)
      BY <1>1, <1>2, <1>3, <1>4, <2>1, HashUpdateFacts
    <3> QED
      BY <3>1 DEF Records
  <2> HIDE DEF g
  <2>5. /\ Range0(g.pending) \subseteq proposes[r]
        /\ proposes[r] \subseteq Range0(g.pending) \cup Range0(P)
    <3>1. c \in Range0(P)
      BY <1>3 DEF Range0
    <3> QED
      BY <1>2, <1>3, <2>4, <3>1
  <2>6. \A b \in Commands : Comes(r, b)' =>
           /\ b \in proposes[r] => b \in Range0(g.pending)
           /\ \A v \in pendingHashUpds[r] : v.cmd # b
    BY <1>2, <1>3, <2>4
  <2>7. ASSUME NEW l \in 1 .. n
        PROVE  \/ Comes(r, P[l])'
               \/ \E v \in pendingHashUpds[r] : v.cmd = P[l]
               \/ l - 1 <= g.synced /\ P[l] \in proposes[r] /\ P[l] \notin Range0(g.pending)
    <3>1. CASE P[l] = c
      <4>1. l = k
        BY <1>3, <3>1 DEF NoRepeats
      <4> QED
        BY <1>3, <1>8, <2>4, <3>1, <4>1
    <3>2. CASE P[l] # c
      <4>1. h.synced \in Int /\ g.synced \in Int /\ l - 1 \in Int
        BY <1>1, <1>2, <2>4
      <4>2. l - 1 <= h.synced => l - 1 <= g.synced
        BY <2>4, <4>1
      <4> QED
        BY <1>2, <2>4, <3>2, <4>2
    <3> QED
      BY <3>1, <3>2
  <2>8. g.pendingUpd = {} /\ proposes'[r] = proposes[r]
    BY <1>2, <2>4
  <2>9. \A v \in pendingHashUpds[r] :
           v.cmd \notin proposes[r] /\ \E l \in 1 .. n : IsHashOf(P, v.cmd, l, v.hash) /\ v.seqnum = l - 1
    BY <1>2
  <2> QED
    BY <2>3, <2>4, <2>5, <2>6, <2>7, <2>8, <2>9 DEF HashState, NoRepeats
<1>9. CASE c \notin proposes[r]
  <2>1. hlog'[r] = h /\ pendingHashUpds'[r] = pendingHashUpds[r] \cup {u}
    BY <1>6, <1>7, <1>9
  <2>2. \A v \in pendingHashUpds'[r] :
           v.cmd \notin proposes[r] /\ \E l \in 1 .. n : IsHashOf(P, v.cmd, l, v.hash) /\ v.seqnum = l - 1
    <3>1. u.cmd \notin proposes[r] /\ IsHashOf(P, u.cmd, k, u.hash) /\ u.seqnum = k - 1
      BY <1>3, <1>4, <1>9 DEF IsHashOf
    <3> QED
      BY <1>2, <2>1, <3>1
  <2>3. \A b \in Commands : Comes(r, b)' =>
           /\ b \in proposes[r] => b \in Range0(h.pending)
           /\ \A v \in pendingHashUpds'[r] : v.cmd # b
    BY <1>2, <1>4, <2>1
  <2>4. \A l \in 1 .. n :
           \/ Comes(r, P[l])'
           \/ \E v \in pendingHashUpds'[r] : v.cmd = P[l]
           \/ l - 1 <= h.synced /\ P[l] \in proposes[r] /\ P[l] \notin Range0(h.pending)
    BY <1>2, <1>4, <2>1
  <2>5. /\ h.pendingUpd = {} /\ h.synced \in -1 .. n - 1 /\ h.syncedHash = SubSeq(P, 1, h.synced + 1)
        /\ NoRepeats(h.pending)
        /\ Range0(h.pending) \subseteq proposes[r]
        /\ proposes[r] \subseteq Range0(h.pending) \cup Range0(P)
        /\ proposes'[r] = proposes[r]
    BY <1>2
  <2> HIDE DEF h
  <2> QED
    BY <2>1, <2>2, <2>3, <2>4, <2>5 DEF HashState, NoRepeats
<1> QED
  BY <1>8, <1>9
-------------------------------------------------------------------------------
(***************************************************************************)
(* What a step of one replica leaves alone.                                *)
(***************************************************************************)
\* What Settle does, field by field.
Settled(r, c, x, taken, sent, clientMsgs) ==
  /\ \A q \in Replicas \ {r} :
       /\ delivered'[q] = delivered[q] /\ executing'[q] = executing[q]
       /\ deliverChan'[q] = deliverChan[q] /\ cmdDescs'[q] = cmdDescs[q]
  /\ replying' = replying
  /\ delivered'[r] = delivered[r] \cup IF x.done THEN {c} ELSE {}
  /\ executing'[r] = executing[r] \cup IF x.done /\ ~x.d.seq THEN {c} ELSE {}
  /\ deliverChan'[r] \subseteq deliverChan[r] \cup ({c} \X x.d.successors)
  /\ cmdDescs'[r][c] = IF x.done /\ x.d.seq THEN Closed ELSE x.d
  /\ \A b \in Commands \ {c} :
       \/ cmdDescs'[r][b] = cmdDescs[r][b]
       \/ b \in x.waitsFor \ delivered[r] /\ cmdDescs'[r][b] = WokenBy(cmdDescs[r][b], c)
  /\ toClient \cup clientMsgs \subseteq toClient'
  /\ \A m \in toClient' :
       \/ m \in toClient \cup clientMsgs
       \/ /\ x.done /\ x.d.seq /\ r = LeaderOf(r)
          /\ m.type = "reply" /\ m.from = r /\ m.ballot = ballot[r] /\ m.cmd = c /\ m.checksum = x.d.hs
  /\ sent \subseteq acks' /\ acks' \subseteq (acks \ taken) \cup sent
  /\ \A m \in acks :
       \/ m \in acks' \cup taken
       \/ m.to = r /\ m.cmd = c /\ (m.from # LeaderOf(r) \/ r = LeaderOf(r))

LEMMA SettleEffect ==
  ASSUME TypeOK, NEW r \in Replicas, NEW c \in Commands, NEW x \in Outcome,
         NEW wakes, NEW taken, NEW sent, NEW cm, Settle(r, c, x, wakes, taken, sent, cm)
  PROVE  Settled(r, c, x, taken, sent, cm)
<1> DEFINE now == x.done /\ x.d.seq
           moot  == {m \in acks : x.done /\ m.to = r /\ m.cmd = c /\ (m.from # LeaderOf(r) \/ r = LeaderOf(r))}
           stale == {w \in deliverChan[r] : x.done /\ w[2] = c}
           after(b) == IF b = c THEN IF now THEN Closed ELSE x.d
                       ELSE IF b \in x.waitsFor \ delivered[r] THEN WokenBy(cmdDescs[r][b], c)
                       ELSE cmdDescs[r][b]
           R == ClientMsg("reply", r, c, x.d.hs, log'[r])
<1>1. /\ acks' = (acks \ (taken \cup moot)) \cup sent
      /\ delivered' = [delivered EXCEPT ![r] = IF x.done THEN @ \cup {c} ELSE @]
      /\ executing' = [executing EXCEPT ![r] = IF x.done /\ ~now THEN @ \cup {c} ELSE @]
      /\ deliverChan' = [deliverChan EXCEPT ![r] =
                           (@ \ (wakes \cup stale)) \cup IF now THEN {c} \X x.d.successors ELSE {}]
      /\ toClient' = toClient \cup cm \cup IF now /\ r = LeaderOf(r) THEN R ELSE {}
      /\ replying' = replying
  BY DEF Settle
<1>2. cmdDescs' = [cmdDescs EXCEPT ![r] = [b \in Commands |-> after(b)]]
  BY ONLY Settle(r, c, x, wakes, taken, sent, cm) DEF Settle
<1>3. ASSUME NEW b \in Commands PROVE cmdDescs'[r][b] = after(b)
  <2> HIDE DEF after
  <2> QED
    BY <1>2 DEF TypeOK
<1>4. /\ cmdDescs'[r][c] = IF x.done /\ x.d.seq THEN Closed ELSE x.d
      /\ \A b \in Commands \ {c} :
           \/ cmdDescs'[r][b] = cmdDescs[r][b]
           \/ b \in x.waitsFor \ delivered[r] /\ cmdDescs'[r][b] = WokenBy(cmdDescs[r][b], c)
  BY <1>3
<1>5. \A q \in Replicas \ {r} :
        /\ delivered'[q] = delivered[q] /\ executing'[q] = executing[q]
        /\ deliverChan'[q] = deliverChan[q] /\ cmdDescs'[q] = cmdDescs[q]
  <2> HIDE DEF after
  <2> QED
    BY <1>1, <1>2 DEF TypeOK
<1>6. /\ delivered'[r] = delivered[r] \cup IF x.done THEN {c} ELSE {}
      /\ executing'[r] = executing[r] \cup IF x.done /\ ~x.d.seq THEN {c} ELSE {}
  BY <1>1 DEF TypeOK
<1>7. deliverChan'[r] \subseteq deliverChan[r] \cup ({c} \X x.d.successors)
  <2> HIDE DEF stale
  <2> QED
    BY <1>1 DEF TypeOK
<1>8. ASSUME NEW m \in R
      PROVE  m.type = "reply" /\ m.from = r /\ m.ballot = ballot[r] /\ m.cmd = c /\ m.checksum = x.d.hs
  BY DEF ClientMsg, ClientMsgIn
<1>9. /\ toClient \cup cm \subseteq toClient'
      /\ \A m \in toClient' :
           \/ m \in toClient \cup cm
           \/ /\ x.done /\ x.d.seq /\ r = LeaderOf(r)
              /\ m.type = "reply" /\ m.from = r /\ m.ballot = ballot[r] /\ m.cmd = c /\ m.checksum = x.d.hs
  <2> HIDE DEF R
  <2> QED
    BY <1>1, <1>8
<1>10. /\ sent \subseteq acks' /\ acks' \subseteq (acks \ taken) \cup sent
       /\ \A m \in acks :
            \/ m \in acks' \cup taken
            \/ m.to = r /\ m.cmd = c /\ (m.from # LeaderOf(r) \/ r = LeaderOf(r))
  BY <1>1
<1> HIDE DEF after, R, now, moot, stale
<1> QED
  BY <1>1, <1>4, <1>5, <1>6, <1>7, <1>9, <1>10 DEF Settled

\* The messages a replica sends.
OwnMessages(r, sent, clientMsgs) ==
  /\ \A m \in sent : m.from = r /\ m.to # r /\ m.ballot = ballot'[r]
  /\ \A m \in clientMsgs : m.from = r /\ m.ballot = ballot'[r]

\* A step of r changes nothing of the others, and the messages only as r may.
Alone(r) ==
  /\ \A q \in Replicas \ {r} :
       /\ ballot'[q] = ballot[q] /\ seqnum'[q] = seqnum[q]
       /\ proposes'[q] = proposes[q] /\ reproposed'[q] = reproposed[q]
       /\ lastCmd'[q] = lastCmd[q] /\ lastWrite'[q] = lastWrite[q]
       /\ hlog'[q] = hlog[q] /\ pendingHashUpds'[q] = pendingHashUpds[q]
       /\ cmdDescs'[q] = cmdDescs[q] /\ delivered'[q] = delivered[q]
       /\ executing'[q] = executing[q] /\ replying'[q] = replying[q]
       /\ deliverChan'[q] = deliverChan[q]
  /\ delivered[r] \subseteq delivered'[r]
  /\ OwnMessages(r, acks' \ acks, toClient' \ toClient)
  /\ \A m \in acks \ acks' : m.to = r

\* The variables that only the run loop changes.
LoopAlone(r) ==
  /\ \A q \in Replicas \ {r} :
       /\ proposes'[q] = proposes[q] /\ reproposed'[q] = reproposed[q]
       /\ lastCmd'[q] = lastCmd[q] /\ lastWrite'[q] = lastWrite[q]
       /\ hlog'[q] = hlog[q] /\ pendingHashUpds'[q] = pendingHashUpds[q]
  /\ UNCHANGED ballotVars

SeqnumAlone(r) == \A q \in Replicas \ {r} : seqnum'[q] = seqnum[q]

LEMMA SettledAlone ==
  ASSUME NEW r \in Replicas, NEW c, NEW x, NEW taken, NEW sent, NEW cm,
         Settled(r, c, x, taken, sent, cm), LoopAlone(r), SeqnumAlone(r), OwnMessages(r, sent, cm),
         \A m \in taken : m.to = r
  PROVE  Alone(r)
<1>1. \A m \in toClient' : m \in toClient \cup cm \/ (m.from = r /\ m.ballot = ballot[r])
  BY DEF Settled
<1>2. acks' \subseteq acks \cup sent /\ \A m \in acks : m \in acks' \/ m.to = r
  BY DEF Settled
<1>3. ballot' = ballot
  BY DEF LoopAlone, ballotVars
<1>4. OwnMessages(r, acks' \ acks, toClient' \ toClient)
  BY <1>1, <1>2, <1>3 DEF OwnMessages
<1>5. \A q \in Replicas \ {r} :
       /\ cmdDescs'[q] = cmdDescs[q] /\ delivered'[q] = delivered[q]
       /\ executing'[q] = executing[q] /\ replying'[q] = replying[q]
       /\ deliverChan'[q] = deliverChan[q]
  BY DEF Settled
<1>6. delivered[r] \subseteq delivered'[r]
  BY DEF Settled
<1> QED
  BY <1>2, <1>3, <1>4, <1>5, <1>6 DEF Alone, LoopAlone, SeqnumAlone

\* What the run loop changes when it records a hash.
LEMMA RecordAlone ==
  ASSUME TypeOK, NEW r \in Replicas, NEW u, NEW h, RecordLeaderHash(r, u, h)
  PROVE  \A q \in Replicas \ {r} : hlog'[q] = hlog[q] /\ pendingHashUpds'[q] = pendingHashUpds[q]
BY DEF RecordLeaderHash, TypeOK

LEMMA SentMessages ==
  ASSUME NEW r \in Replicas, NEW c, NEW dep, NEW hs, NEW s, ballot' = ballot
  PROVE  /\ OwnMessages(r, AcksOf(r, c, dep, hs, s), {})
         /\ OwnMessages(r, SlowAcksOf(r, c), ClientMsg("slowAck", r, c, Nil, Nil))
         /\ OwnMessages(r, AcksOf(r, c, dep, hs, s), ClientMsg("fastAck", r, c, hs, Nil))
         /\ OwnMessages(r, {}, {})
BY DEF OwnMessages, AcksOf, SlowAcksOf, AcksTo, ClientMsg, ClientMsgIn

\* What the handlers of a proposal end with: a replica that recalls the leader's ack is on
\* the slow path with its dependencies, another may send a FastAck.
ProposalHandled(r, c, d, x, clientMsgs) ==
  /\ x.d.propose = "set" /\ x.d.open = d.open /\ x.d.seq = d.seq
  /\ x.d.afterPropagate = None
  /\ r # LeaderOf(r) =>
       \/ /\ x.d.slowPath /\ d.afterPropagate # None
          /\ x.done \/ Deps(x.d.dep) = Deps(d.afterPropagate)
          /\ \A m \in clientMsgs : m.type = "slowAck" /\ m.cmd = c
       \/ x.d.slowPath = d.slowPath /\ \A m \in clientMsgs : m.type = "fastAck" /\ m.cmd = c

LEMMA TakesProposeSettles ==
  ASSUME TypeOK, NEW r \in Replicas, NEW c \in Commands, NEW d \in CommandDesc,
         TakesPropose(r, c, d), ballot' = ballot
  PROVE  /\ SeqnumAlone(r)
         /\ \E x \in Outcome : \E sent, cm :
              /\ Settled(r, c, x, {}, sent, cm) /\ OwnMessages(r, sent, cm)
              /\ ProposalHandled(r, c, d, x, cm)
<1> DEFINE e == [d EXCEPT !.propose = "set", !.noop = FALSE]
           f == [e EXCEPT !.dep = d.proposeDep, !.phase = "PRE_ACCEPT"]
           g == IF r \in FQ[ballot[r]] THEN f ELSE e
           h == [g EXCEPT !.afterPropagate = None]
<1>1. /\ g \in CommandDesc /\ g.propose = "set" /\ g.open = d.open /\ g.seq = d.seq
      /\ g.afterPropagate = d.afterPropagate /\ g.slowPath = d.slowPath
  BY DEF CommandDesc, Phase
<1>2. \/ RecallsLeader(r, c, g) /\ d.afterPropagate # None
      \/ SendsFastAck(r, c, g) /\ d.afterPropagate = None
      \/ Settle(r, c, Handled(g), {}, {}, {}, {}) /\ UNCHANGED seqnum /\ d.afterPropagate = None
  BY DEF TakesPropose
<1> HIDE DEF g
<1>3. ballot[r] \in Ballots
  BY DEF TypeOK
<1>4. CASE RecallsLeader(r, c, g) /\ d.afterPropagate # None
  <2> DEFINE x == FastAckFromLeader(r, ballot[r], c, Handled(h), g.afterPropagate)
             sent == SlowAcksOf(r, c)
             cm == ClientMsg("slowAck", r, c, Nil, Nil)
  <2>1. h \in CommandDesc /\ h.propose = "set" /\ h.open = d.open /\ h.seq = d.seq
        /\ g.afterPropagate \in Dep /\ h.afterPropagate = None
    BY <1>1, <1>4 DEF CommandDesc
  <2> HIDE DEF h
  <2>2. Handled(h) \in Outcome /\ Handled(h).d = h
    BY <2>1, DescTypes DEF Handled
  <2>3. x \in Outcome /\ FramedFromLeader(r, ballot[r], c, Handled(h), x, g.afterPropagate)
    BY <1>3, <2>1, <2>2, HandlerTypes, FromLeaderFrame
  <2>4. Settle(r, c, x, {}, {}, sent, cm) /\ UNCHANGED seqnum
    BY <1>4 DEF RecallsLeader, h
  <2> HIDE DEF x
  <2>5. Settled(r, c, x, {}, sent, cm)
    BY <2>3, <2>4, SettleEffect
  <2>6. OwnMessages(r, sent, cm)
    BY SentMessages
  <2>7. \A m \in cm : m.type = "slowAck" /\ m.cmd = c
    BY DEF ClientMsg, ClientMsgIn
  <2> HIDE DEF sent, cm
  <2>8. ProposalHandled(r, c, d, x, cm)
    BY <1>1, <1>4, <2>1, <2>2, <2>3, <2>7 DEF FramedFromLeader, Same, ProposalHandled, LeaderOf
  <2> QED
    BY <2>3, <2>4, <2>5, <2>6, <2>8 DEF SeqnumAlone
<1>5. CASE SendsFastAck(r, c, g) /\ d.afterPropagate = None
  <2> DEFINE s == IF r = LeaderOf(r) THEN seqnum[r] ELSE 0
             y == [Handled(g) EXCEPT !.done = Speculates(r, c) /\ MayDeliver(r, ballot[r], c, g)]
             x == IF r = LeaderOf(r) THEN FastAckFromLeader(r, ballot[r], c, y, g.dep)
                                     ELSE CommonCaseFastAck(r, ballot[r], c, y, r, g.dep)
             cm == IF Speculates(r, c) THEN {} ELSE ClientMsg("fastAck", r, c, g.hs, Nil)
             sent == AcksOf(r, c, g.dep, g.hs, s)
  <2>1. g.dep \in Dep
    BY <1>1 DEF CommandDesc
  <2>2. y \in Outcome /\ y.d = g
    <3>1. Handled(g) \in Outcome /\ Handled(g).d = g
      BY <1>1, DescTypes DEF Handled
    <3> QED
      BY <3>1 DEF Outcome
  <2>3. Settle(r, c, x, {}, {}, sent, cm)
    BY <1>5 DEF SendsFastAck
  <2> HIDE DEF y
  <2>4. x \in Outcome /\ Same(y.d, x.d) /\ (r # LeaderOf(r) => x.d.slowPath = g.slowPath)
    <3>1. CASE r = LeaderOf(r)
      BY <1>3, <2>1, <2>2, <3>1, HandlerTypes, FromLeaderFrame DEF FramedFromLeader
    <3>2. CASE r # LeaderOf(r)
      <4>1. x = CommonCaseFastAck(r, ballot[r], c, y, r, g.dep)
        BY <3>2
      <4> HIDE DEF x
      <4>2. x \in Outcome /\ Framed(r, c, y, x)
        BY <1>3, <2>1, <2>2, <4>1, HandlerTypes, CommonCaseFrame
      <4> QED
        BY <2>2, <4>2 DEF Framed
    <3> QED
      BY <3>1, <3>2
  <2>5. SeqnumAlone(r)
    BY <1>5 DEF SendsFastAck, SeqnumAlone, TypeOK
  <2>6. OwnMessages(r, sent, cm)
    <3> HIDE DEF s
    <3>1. OwnMessages(r, sent, ClientMsg("fastAck", r, c, g.hs, Nil)) /\ OwnMessages(r, sent, {})
      BY SentMessages
    <3>2. cm = {} \/ cm = ClientMsg("fastAck", r, c, g.hs, Nil)
      OBVIOUS
    <3> HIDE DEF cm, sent
    <3> QED
      BY <3>1, <3>2 DEF OwnMessages
  <2>7. \A m \in cm : m.type = "fastAck" /\ m.cmd = c
    BY DEF ClientMsg, ClientMsgIn
  <2> HIDE DEF x, cm, sent
  <2>8. Settled(r, c, x, {}, sent, cm)
    BY <2>3, <2>4, SettleEffect
  <2>9. ProposalHandled(r, c, d, x, cm)
    BY <1>1, <1>5, <2>2, <2>4, <2>7 DEF Same, ProposalHandled
  <2> QED
    BY <2>4, <2>5, <2>6, <2>8, <2>9
<1>6. CASE Settle(r, c, Handled(g), {}, {}, {}, {}) /\ UNCHANGED seqnum /\ d.afterPropagate = None
  <2>1. Handled(g) \in Outcome /\ Handled(g).d = g
    BY <1>1, DescTypes DEF Handled
  <2>2. Settled(r, c, Handled(g), {}, {}, {})
    BY <1>6, <2>1, SettleEffect
  <2>3. OwnMessages(r, {}, {}) /\ SeqnumAlone(r)
    BY <1>6 DEF OwnMessages, SeqnumAlone
  <2>4. ProposalHandled(r, c, d, Handled(g), {})
    BY <1>1, <1>6, <2>1 DEF ProposalHandled
  <2> QED
    BY <2>1, <2>2, <2>3, <2>4
<1> QED
  BY <1>2, <1>4, <1>5, <1>6

\* What the handlers of an ack end with.
AckHandled(r, m, d, x, clientMsgs) ==
  /\ x.d.propose = d.propose /\ x.d.open = d.open /\ x.d.seq = d.seq
  /\ \/ /\ m.from # LeaderOf(r) /\ Framed(r, m.cmd, Handled(d), x) /\ clientMsgs = {}
     \/ /\ m.from = LeaderOf(r) /\ d.propose # "set" /\ clientMsgs = {}
        /\ x = Handled([d EXCEPT !.afterPropagate = m.dep])
     \/ /\ m.from = LeaderOf(r) /\ d.propose = "set"
        /\ FramedFromLeader(r, ballot[r], m.cmd, Handled(d), x, m.dep)
        /\ \A n \in clientMsgs : n.type = "slowAck" /\ n.cmd = m.cmd

LEMMA HandleAckSettles ==
  ASSUME TypeOK, NEW r \in Replicas, NEW m \in acks, NEW d \in CommandDesc, HandleAck(r, m, d),
         ballot' = ballot
  PROVE  \E x \in Outcome : \E sent, cm :
           /\ Settled(r, m.cmd, x, {m}, sent, cm) /\ OwnMessages(r, sent, cm)
           /\ AckHandled(r, m, d, x, cm)
<1> DEFINE x == CommonCaseFastAck(r, ballot[r], m.cmd, Handled(d), m.from, m.dep)
           y == [d EXCEPT !.afterPropagate = m.dep]
           z == FastAckFromLeader(r, ballot[r], m.cmd, Handled(d), m.dep)
           sent == SlowAcksOf(r, m.cmd)
           cm == ClientMsg("slowAck", r, m.cmd, Nil, Nil)
<1>1. m.from \in Replicas /\ m.dep \in Dep /\ m.cmd \in Commands /\ ballot[r] \in Ballots
  BY DEF TypeOK, FastAck
<1>2. Handled(d) \in Outcome /\ Handled(d).d = d
  BY DescTypes DEF Handled
<1>3. y \in CommandDesc /\ y.propose = d.propose /\ y.open = d.open /\ y.seq = d.seq
  BY <1>1 DEF CommandDesc
<1>4. \/ m.from # LeaderOf(r) /\ Settle(r, m.cmd, x, {}, {m}, {}, {})
      \/ m.from = LeaderOf(r) /\ d.propose # "set" /\ Settle(r, m.cmd, Handled(y), {}, {m}, {}, {})
      \/ m.from = LeaderOf(r) /\ d.propose = "set" /\ Settle(r, m.cmd, z, {}, {m}, sent, cm)
  BY DEF HandleAck
<1>5. Handled(y) \in Outcome /\ Handled(y).d = y
  <2> HIDE DEF y
  <2> QED
    BY <1>3, DescTypes DEF Handled
<1>6. x \in Outcome /\ Framed(r, m.cmd, Handled(d), x)
  BY <1>1, <1>2, HandlerTypes, CommonCaseFrame
<1>7. z \in Outcome /\ FramedFromLeader(r, ballot[r], m.cmd, Handled(d), z, m.dep)
  BY <1>1, <1>2, HandlerTypes, FromLeaderFrame
<1> HIDE DEF x, z
<1>8. /\ x.d.propose = d.propose /\ x.d.open = d.open /\ x.d.seq = d.seq
      /\ z.d.propose = d.propose /\ z.d.open = d.open /\ z.d.seq = d.seq
  BY <1>2, <1>6, <1>7 DEF Framed, FramedFromLeader, Same
<1>9. OwnMessages(r, {}, {}) /\ OwnMessages(r, sent, cm)
  BY SentMessages
<1>10. \A n \in cm : n.type = "slowAck" /\ n.cmd = m.cmd
  BY DEF ClientMsg, ClientMsgIn
<1> HIDE DEF sent, cm
<1>11. CASE m.from # LeaderOf(r) /\ Settle(r, m.cmd, x, {}, {m}, {}, {})
  <2>1. Settled(r, m.cmd, x, {m}, {}, {})
    BY <1>1, <1>6, <1>11, SettleEffect
  <2> QED
    BY <1>6, <1>8, <1>9, <1>11, <2>1 DEF AckHandled
<1>12. CASE m.from = LeaderOf(r) /\ d.propose # "set" /\ Settle(r, m.cmd, Handled(y), {}, {m}, {}, {})
  <2>1. Settled(r, m.cmd, Handled(y), {m}, {}, {})
    <3> HIDE DEF y
    <3> QED
      BY <1>1, <1>5, <1>12, SettleEffect
  <2>2. AckHandled(r, m, d, Handled(y), {})
    BY <1>3, <1>5, <1>12 DEF AckHandled
  <2> QED
    BY <1>5, <1>9, <2>1, <2>2
<1>13. CASE m.from = LeaderOf(r) /\ d.propose = "set" /\ Settle(r, m.cmd, z, {}, {m}, sent, cm)
  <2>1. Settled(r, m.cmd, z, {m}, sent, cm)
    BY <1>1, <1>7, <1>13, SettleEffect
  <2> QED
    BY <1>7, <1>8, <1>9, <1>10, <1>13, <2>1 DEF AckHandled
<1> QED
  BY <1>4, <1>11, <1>12, <1>13

LEMMA RegistersAlone ==
  ASSUME TypeOK, NEW r \in Replicas, NEW c \in Commands, NEW d \in CommandDesc, Registers(r, c, d)
  PROVE  Alone(r) /\ LoopAlone(r)
<1> DEFINE a == HashLogAppend(hlog[r], c)
           U == {u \in pendingHashUpds[r] : u.cmd = c /\ r # LeaderOf(r)}
           e == IF d.proposeDep = Nil
                THEN [d EXCEPT !.proposeDep = DepOf(r, c), !.hs = a.hash] ELSE d
           n == [e EXCEPT !.propose = IF @ = "none" THEN "sent" ELSE @]
<1>1. /\ reproposed' = [reproposed EXCEPT ![r] = @ \ {c}]
      /\ proposes' = [proposes EXCEPT ![r] = @ \cup {c}]
      /\ lastCmd' = [lastCmd EXCEPT ![r] = {c}]
      /\ lastWrite' = [lastWrite EXCEPT ![r] = IF c \in Reads THEN @ ELSE {c}]
      /\ IF U = {} THEN hlog' = [hlog EXCEPT ![r] = a.log] /\ UNCHANGED <<pendingHashUpds, stopped>>
                   ELSE RecordLeaderHash(r, CHOOSE u \in U : TRUE, a.log)
      /\ IF d.seq THEN d.propose = "none" /\ TakesPropose(r, c, e)
         ELSE /\ cmdDescs' = [cmdDescs EXCEPT ![r][c] = n]
              /\ UNCHANGED <<seqnum, execVars, acks, toClient>>
      /\ UNCHANGED ballotVars
  BY DEF Registers
<1>2. e \in CommandDesc
  BY RegisteredDesc
<1> HIDE DEF a, e
<1>3. \A q \in Replicas \ {r} : hlog'[q] = hlog[q] /\ pendingHashUpds'[q] = pendingHashUpds[q]
  <2>1. CASE U = {}
    BY <1>1, <2>1 DEF TypeOK
  <2>2. CASE U # {}
    <3> HIDE DEF U
    <3> QED
      BY <1>1, <2>2, RecordAlone
  <2> QED
    BY <2>1, <2>2
<1>4. \A q \in Replicas \ {r} :
       /\ proposes'[q] = proposes[q] /\ reproposed'[q] = reproposed[q]
       /\ lastCmd'[q] = lastCmd[q] /\ lastWrite'[q] = lastWrite[q]
  BY <1>1 DEF TypeOK
<1>5. LoopAlone(r) /\ ballot' = ballot
  BY <1>1, <1>3, <1>4 DEF LoopAlone, ballotVars
<1>6. CASE d.seq
  <2>1. TakesPropose(r, c, e)
    BY <1>1, <1>6
  <2>2. /\ SeqnumAlone(r)
        /\ \E x \in Outcome : \E sent, cm : Settled(r, c, x, {}, sent, cm) /\ OwnMessages(r, sent, cm)
    BY <1>2, <1>5, <2>1, TakesProposeSettles
  <2> QED
    BY <1>5, <2>2, SettledAlone
<1>7. CASE ~d.seq
  <2> HIDE DEF n
  <2>1. /\ cmdDescs' = [cmdDescs EXCEPT ![r][c] = n]
        /\ UNCHANGED <<seqnum, delivered, executing, replying, deliverChan, acks, toClient>>
    BY <1>1, <1>7 DEF execVars
  <2>2. \A q \in Replicas \ {r} : cmdDescs'[q] = cmdDescs[q]
    BY <2>1 DEF TypeOK
  <2>3. OwnMessages(r, acks' \ acks, toClient' \ toClient)
    BY <2>1 DEF OwnMessages
  <2> QED
    BY <1>5, <2>1, <2>2, <2>3 DEF Alone, LoopAlone, ballotVars
<1> QED
  BY <1>5, <1>6, <1>7

LEMMA ReceiveAckAlone ==
  ASSUME TypeOK, NEW r \in Replicas, NEW m \in acks, ReceiveAck(r, m)
  PROVE  Alone(r) /\ LoopAlone(r)
<1> DEFINE d == Opened(cmdDescs[r][m.cmd], r = LeaderOf(r))
           u == [cmd |-> m.cmd, seqnum |-> m.seqnum, hash |-> m.checksum]
<1>1. m.cmd \in Commands
  BY DEF TypeOK, FastAck
<1>2. d \in CommandDesc /\ Handled(d) \in Outcome
  <2>1. cmdDescs[r][m.cmd] \in CommandDesc
    BY <1>1 DEF TypeOK
  <2> QED
    BY <2>1, DescTypes
<1>3. /\ UNCHANGED <<ballotVars, runVars, seqnum>> /\ m.to = r
      /\ \/ RecordLeaderHash(r, u, hlog[r])
         \/ UNCHANGED <<hashVars, stopped>>
      /\ \/ acks' = acks \ {m} /\ UNCHANGED <<cmdDescs, execVars, toClient>>
         \/ HandleAck(r, m, d)
         \/ Settle(r, m.cmd, Handled(d), {}, {m}, {}, {})
  BY DEF ReceiveAck, MayReceive
<1> HIDE DEF d, u
<1>4. \A q \in Replicas \ {r} : hlog'[q] = hlog[q] /\ pendingHashUpds'[q] = pendingHashUpds[q]
  BY <1>3, RecordAlone DEF hashVars
<1>5. LoopAlone(r) /\ SeqnumAlone(r) /\ ballot' = ballot
  BY <1>3, <1>4 DEF LoopAlone, SeqnumAlone, runVars, ballotVars
<1>6. CASE acks' = acks \ {m} /\ UNCHANGED <<cmdDescs, execVars, toClient>>
  <2>1. OwnMessages(r, acks' \ acks, toClient' \ toClient)
    BY <1>6 DEF OwnMessages
  <2> QED
    BY <1>3, <1>5, <1>6, <2>1 DEF Alone, LoopAlone, SeqnumAlone, execVars, ballotVars
<1>7. CASE HandleAck(r, m, d)
  <2>1. \E x \in Outcome : \E sent, cm : Settled(r, m.cmd, x, {m}, sent, cm) /\ OwnMessages(r, sent, cm)
    BY <1>2, <1>5, <1>7, HandleAckSettles
  <2> QED
    BY <1>3, <1>5, <2>1, SettledAlone
<1>8. CASE Settle(r, m.cmd, Handled(d), {}, {m}, {}, {})
  <2>1. Settled(r, m.cmd, Handled(d), {m}, {}, {})
    BY <1>1, <1>2, <1>8, SettleEffect
  <2>2. OwnMessages(r, {}, {})
    BY DEF OwnMessages
  <2> QED
    BY <1>3, <1>5, <2>1, <2>2, SettledAlone
<1> QED
  BY <1>3, <1>5, <1>6, <1>7, <1>8

LEMMA StepAlone ==
  ASSUME TypeOK, NEW r \in Replicas, ReplicaStep(r)
  PROVE  Alone(r) /\ UNCHANGED ballotVars
<1>1. OwnMessages(r, {}, {})
  BY DEF OwnMessages
<1>2. ASSUME NEW c \in Commands, Propose(r, c) PROVE Alone(r) /\ LoopAlone(r)
  <2>1. Opened(cmdDescs[r][c], r = LeaderOf(r)) \in CommandDesc
    <3>1. cmdDescs[r][c] \in CommandDesc
      BY DEF TypeOK
    <3> QED
      BY <3>1, DescTypes
  <2> QED
    BY <1>2, <2>1, RegistersAlone DEF Propose
<1>3. ASSUME NEW c \in Commands, ProposeDelivered(r, c) PROVE Alone(r) /\ LoopAlone(r)
  <2>1. acks' \ acks = {} /\ toClient' \ toClient = {} /\ acks \ acks' = {}
    BY <1>3 DEF ProposeDelivered
  <2> QED
    BY <1>1, <1>3, <2>1 DEF ProposeDelivered, Alone, LoopAlone, OwnMessages, ballotVars, runVars, hashVars, execVars
<1>4. ASSUME NEW c \in Commands, HandlePropose(r, c) PROVE Alone(r) /\ LoopAlone(r)
  <2>1. cmdDescs[r][c] \in CommandDesc
    BY DEF TypeOK
  <2>2. TakesPropose(r, c, cmdDescs[r][c]) /\ UNCHANGED <<ballotVars, runVars, hashVars, stopped>>
    BY <1>4 DEF HandlePropose
  <2>3. LoopAlone(r) /\ ballot' = ballot
    BY <2>2 DEF LoopAlone, ballotVars, runVars, hashVars
  <2>4. /\ SeqnumAlone(r)
        /\ \E x \in Outcome : \E sent, cm : Settled(r, c, x, {}, sent, cm) /\ OwnMessages(r, sent, cm)
    BY <2>1, <2>2, <2>3, TakesProposeSettles
  <2> QED
    BY <2>3, <2>4, SettledAlone
<1>5. ASSUME NEW m \in acks, ReceiveAck(r, m) PROVE Alone(r) /\ LoopAlone(r)
  BY <1>5, ReceiveAckAlone
<1>6. ASSUME NEW w \in deliverChan[r], Deliver(r, w) PROVE Alone(r) /\ LoopAlone(r)
  <2> DEFINE c == w[2]
             d == Opened(cmdDescs[r][c], FALSE)
             x == [Handled(d) EXCEPT !.done = MayDeliver(r, ballot[r], c, d)]
  <2>1. /\ UNCHANGED <<ballotVars, runVars, hashVars, seqnum, stopped>>
        /\ \/ /\ deliverChan' = [deliverChan EXCEPT ![r] = @ \ {w}]
              /\ UNCHANGED <<cmdDescs, delivered, executing, replying, log, acks, toClient>>
           \/ Settle(r, c, x, {w}, {}, {}, {})
    BY <1>6 DEF Deliver
  <2>2. LoopAlone(r) /\ SeqnumAlone(r)
    BY <2>1 DEF LoopAlone, SeqnumAlone, ballotVars, runVars, hashVars
  <2>3. c \in Commands
    BY DEF TypeOK
  <2>4. x \in Outcome
    <3>1. d \in CommandDesc
      <4>1. cmdDescs[r][c] \in CommandDesc
        BY <2>3 DEF TypeOK
      <4> QED
        BY <4>1, DescTypes
    <3> HIDE DEF d
    <3>2. Handled(d) \in Outcome
      BY <3>1, DescTypes
    <3> QED
      BY <3>2 DEF Outcome, MayDeliver
  <2> HIDE DEF x, c
  <2>5. CASE Settle(r, c, x, {w}, {}, {}, {})
    <3>1. Settled(r, c, x, {}, {}, {})
      BY <2>3, <2>4, <2>5, SettleEffect
    <3> QED
      BY <1>1, <2>2, <3>1, SettledAlone
  <2>6. CASE /\ deliverChan' = [deliverChan EXCEPT ![r] = @ \ {w}]
             /\ UNCHANGED <<cmdDescs, delivered, executing, replying, log, acks, toClient>>
    <3>1. acks' \ acks = {} /\ toClient' \ toClient = {} /\ acks \ acks' = {}
      BY <2>6
    <3>2. \A q \in Replicas \ {r} : deliverChan'[q] = deliverChan[q]
      BY <2>6 DEF TypeOK
    <3> QED
      BY <1>1, <2>2, <2>6, <3>1, <3>2 DEF Alone, LoopAlone, OwnMessages, SeqnumAlone, ballotVars
  <2> QED
    BY <2>1, <2>5, <2>6
<1>7. ASSUME NEW c \in Commands, Execute(r, c) PROVE Alone(r) /\ LoopAlone(r)
  <2>1. acks' \ acks = {} /\ toClient' \ toClient = {} /\ acks \ acks' = {}
    BY <1>7 DEF Execute
  <2>2. /\ UNCHANGED <<ballotVars, runVars, hashVars, seqnum, cmdDescs, delivered>>
        /\ \A q \in Replicas \ {r} :
             executing'[q] = executing[q] /\ replying'[q] = replying[q] /\ deliverChan'[q] = deliverChan[q]
    BY <1>7 DEF Execute, TypeOK
  <2> QED
    BY <1>1, <2>1, <2>2 DEF Alone, LoopAlone, OwnMessages, ballotVars, runVars, hashVars
<1>8. ASSUME NEW c \in Commands, Reply(r, c) PROVE Alone(r) /\ LoopAlone(r)
  <2>1. \A m \in ReplyOf(r, c) : m.from = r /\ m.ballot = ballot[r]
    BY DEF ReplyOf, ClientMsg, ClientMsgIn
  <2>2. /\ toClient' = toClient \cup ReplyOf(r, c)
        /\ UNCHANGED <<ballotVars, runVars, hashVars, seqnum, cmdDescs, execVars, stopped, acks>>
    BY <1>8 DEF Reply
  <2>3. OwnMessages(r, acks' \ acks, toClient' \ toClient)
    BY <2>1, <2>2 DEF OwnMessages, ballotVars
  <2> QED
    BY <2>2, <2>3 DEF Alone, LoopAlone, ballotVars, runVars, hashVars, execVars
<1>9. Alone(r) /\ LoopAlone(r)
  BY <1>2, <1>3, <1>4, <1>5, <1>6, <1>7, <1>8 DEF ReplicaStep
<1> QED
  BY <1>9 DEF LoopAlone

\* A step of the recovery belongs to a later ballot.
Later(r) == Alone(r) /\ ballot'[r] > 0 /\ LaterBallots'

LEMMA EntersBallotLater ==
  ASSUME TypeOK, LaterBallots, NEW r \in Replicas, NEW b \in Ballots, NEW D, EntersBallot(r, b, D), b > 0,
         \A m \in newLeaders' : m \in newLeaders \/ m.ballot > 0
  PROVE  Later(r)
<1>1. /\ ballot' = [ballot EXCEPT ![r] = b]
      /\ status' = [status EXCEPT ![r] = "RECOVERING"]
      /\ cmdDescs' = [cmdDescs EXCEPT ![r] = [c \in Commands |-> IF c \in D THEN @[c] ELSE Closed]]
      /\ replying' = [replying EXCEPT ![r] = {}]
      /\ UNCHANGED <<runVars, hashVars, seqnum, delivered, executing, deliverChan, acks, toClient, syncs>>
  BY DEF EntersBallot
<1>2. \A q \in Replicas \ {r} :
        /\ ballot'[q] = ballot[q] /\ status'[q] = status[q]
        /\ cmdDescs'[q] = cmdDescs[q] /\ replying'[q] = replying[q]
  BY <1>1 DEF TypeOK
<1>3. ballot'[r] = b
  BY <1>1 DEF TypeOK
<1>4. acks' \ acks = {} /\ toClient' \ toClient = {} /\ acks \ acks' = {}
  BY <1>1
<1>5. Alone(r)
  BY <1>1, <1>2, <1>4 DEF Alone, OwnMessages, runVars, hashVars
<1>6. LaterBallots'
  <2>1. \A q \in Replicas : status'[q] = "RECOVERING" => ballot'[q] > 0
    BY <1>2, <1>3 DEF LaterBallots
  <2> QED
    BY <1>1, <2>1 DEF LaterBallots
<1> QED
  BY <1>3, <1>5, <1>6 DEF Later

LEMMA SynchronisesLater ==
  ASSUME TypeOK, LaterBallots, NEW r \in Replicas, NEW s, NEW D, Synchronises(r, s, D), s.ballot > 0,
         newLeaders' = newLeaders, \A t \in syncs' : t \in syncs \/ t.ballot > 0
  PROVE  Later(r)
<1> DEFINE known == {e.cmd : e \in s.entries}
           mine  == {e \in s.entries : e.cmd \in proposes[r]}
           fresh == {e \in s.entries : e.cmd \notin delivered[r]}
           new   == SyncedDescs(r, s.entries)
           after == [c \in Commands |-> HandlesOwnAck(r, s.ballot, c, new[c])]
           P     == {c \in D \ known : cmdDescs[r][c].propose = "set"}
<1>2. /\ reproposed' = [reproposed EXCEPT ![r] = @ \cup P]
      /\ lastCmd' = [lastCmd EXCEPT ![r] = {}]
      /\ lastWrite' = [lastWrite EXCEPT ![r] = {}]
      /\ cmdDescs' = [cmdDescs EXCEPT ![r] = after]
      /\ status' = [status EXCEPT ![r] = "NORMAL"]
      /\ ballot' = [ballot EXCEPT ![r] = s.ballot]
      /\ replying' = [replying EXCEPT ![r] = {}]
      /\ UNCHANGED <<proposes, hlog, pendingHashUpds, seqnum, delivered, executing>>
  BY DEF Synchronises, hashVars
<1>3. PICK woken \in [{e.cmd : e \in fresh} -> known] :
        deliverChan' = [deliverChan EXCEPT ![r] = @ \cup
          {<<c, c>> : c \in {woken[e.cmd] : e \in fresh} \cup (UNION {Deps(e.dep) : e \in fresh})}]
  BY DEF Synchronises
<1> DEFINE X == UNION {SyncAcks(r, s.ballot, e) : e \in mine}
           Y == UNION {SyncReply(r, s.ballot, e) : e \in mine}
           Z == UNION {ClientMsgIn(s.ballot, "accept", r, c, Nil, Nil) : c \in proposes[r] \ known}
<1>4. acks' = acks \cup X /\ toClient' = toClient \cup Y \cup Z
  BY Zenon DEF Synchronises
<1> HIDE DEF after, P
<1>5. \A q \in Replicas \ {r} :
        /\ ballot'[q] = ballot[q] /\ status'[q] = status[q]
        /\ reproposed'[q] = reproposed[q] /\ lastCmd'[q] = lastCmd[q] /\ lastWrite'[q] = lastWrite[q]
        /\ cmdDescs'[q] = cmdDescs[q] /\ replying'[q] = replying[q]
  BY <1>2 DEF TypeOK
<1>6. ballot'[r] = s.ballot /\ status'[r] = "NORMAL"
  BY <1>2 DEF TypeOK
<1>7. \A q \in Replicas \ {r} : deliverChan'[q] = deliverChan[q]
  BY <1>3 DEF TypeOK
<1>8. ASSUME NEW m \in X PROVE m.from = r /\ m.to # r /\ m.ballot = s.ballot
  BY DEF SyncAcks, AcksTo
<1>9. ASSUME NEW m \in Y \cup Z PROVE m.from = r /\ m.ballot = s.ballot
  BY DEF SyncReply, ClientMsgIn
<1> HIDE DEF X, Y, Z
<1>10. OwnMessages(r, acks' \ acks, toClient' \ toClient) /\ acks \ acks' = {}
  BY <1>4, <1>6, <1>8, <1>9 DEF OwnMessages
<1>11. Alone(r)
  BY <1>2, <1>5, <1>7, <1>10 DEF Alone
<1>12. \A q \in Replicas : status'[q] = "RECOVERING" => ballot'[q] > 0
  BY <1>5, <1>6 DEF LaterBallots
<1>13. LaterBallots'
  BY <1>12 DEF LaterBallots
<1> QED
  BY <1>6, <1>11, <1>13 DEF Later

LEMMA RecoveryLater ==
  ASSUME TypeOK, MessagesTypeOK, LaterBallots, NEW r \in Replicas,
         \/ \E m \in newLeaders : HandleNewLeader(r, m)
         \/ \E m \in newLeaders : HandleSecondNewLeader(r, m)
         \/ \E a \in ackNs : HandleNewLeaderAckN(r, a)
         \/ \E s \in syncs : HandleSync(r, s)
         \/ \E s \in syncs : HandleEarlySync(r, s)
         \/ Recover(r)
  PROVE  Later(r)
<1>1. /\ \A m \in newLeaders : m.ballot \in Ballots /\ m.ballot > 0
      /\ \A s \in syncs : s.ballot \in Ballots /\ s.ballot > 0
  BY DEF MessagesTypeOK, LaterBallots
<1>2. ASSUME NEW m \in newLeaders, HandleNewLeader(r, m) PROVE Later(r)
  BY <1>1, <1>2, EntersBallotLater DEF HandleNewLeader
<1>3. ASSUME NEW m \in newLeaders, HandleSecondNewLeader(r, m) PROVE Later(r)
  <2>1. /\ ballot' = [ballot EXCEPT ![r] = m.ballot]
        /\ UNCHANGED <<status, runVars, hashVars, seqnum, cmdDescs, execVars, acks, toClient, recVars>>
    BY <1>3 DEF HandleSecondNewLeader
  <2>2. ballot'[r] > 0 /\ \A q \in Replicas \ {r} : ballot'[q] = ballot[q]
    BY <1>1, <2>1 DEF TypeOK
  <2>3. acks' \ acks = {} /\ toClient' \ toClient = {} /\ acks \ acks' = {}
    BY <2>1
  <2>4. Alone(r)
    BY <2>1, <2>2, <2>3 DEF Alone, OwnMessages, runVars, hashVars, execVars
  <2>5. LaterBallots'
    <3>1. \A q \in Replicas : status'[q] = "RECOVERING" => ballot'[q] > 0
      BY <2>1, <2>2 DEF LaterBallots
    <3> QED
      BY <2>1, <3>1 DEF LaterBallots, recVars
  <2> QED
    BY <2>2, <2>4, <2>5 DEF Later
<1>4. ASSUME NEW a \in ackNs, HandleNewLeaderAckN(r, a) PROVE Later(r)
  <2>1. ballot[r] > 0 /\ newLeaders' = newLeaders
    BY <1>4 DEF HandleNewLeaderAckN, LaterBallots
  <2>2. \/ UNCHANGED <<vars, syncs>>
        \/ \E E : LET s == [from |-> r, ballot |-> ballot[r], entries |-> E]
                  IN  syncs' = syncs \cup {s} /\ Synchronises(r, s, Commands)
    BY <1>4 DEF HandleNewLeaderAckN
  <2>3. CASE UNCHANGED <<vars, syncs>>
    <3>1. acks' \ acks = {} /\ toClient' \ toClient = {} /\ acks \ acks' = {}
      BY <2>3 DEF vars
    <3>2. Alone(r)
      BY <2>3, <3>1 DEF Alone, OwnMessages, vars, ballotVars, runVars, hashVars, execVars
    <3>3. LaterBallots' /\ ballot'[r] > 0
      BY <2>1, <2>3 DEF LaterBallots, vars, ballotVars
    <3> QED
      BY <3>2, <3>3 DEF Later
  <2>4. ASSUME NEW E, NEW s, s = [from |-> r, ballot |-> ballot[r], entries |-> E],
               syncs' = syncs \cup {s}, Synchronises(r, s, Commands)
        PROVE  Later(r)
    <3>1. s.ballot > 0
      BY <2>1, <2>4
    <3> QED
      BY <2>1, <2>4, <3>1, SynchronisesLater
  <2> QED
    BY <2>2, <2>3, <2>4
<1>5. ASSUME NEW s \in syncs, NEW D, Synchronises(r, s, D), UNCHANGED recVars PROVE Later(r)
  <2>1. newLeaders' = newLeaders /\ \A t \in syncs' : t \in syncs
    BY <1>5 DEF recVars
  <2> QED
    BY <1>1, <1>5, <2>1, SynchronisesLater
<1>6. ASSUME NEW s \in syncs, HandleSync(r, s) PROVE Later(r)
  BY <1>5, <1>6 DEF HandleSync
<1>7. ASSUME NEW s \in syncs, HandleEarlySync(r, s) PROVE Later(r)
  BY <1>5, <1>7 DEF HandleEarlySync
<1>8. ASSUME Recover(r) PROVE Later(r)
  <2>1. PICK b \in Ballots : \E D \in SUBSET Commands :
           /\ b >= NextBallotOf(r, ballot[r]) /\ EntersBallot(r, b, D)
           /\ newLeaders' = newLeaders \cup {[from |-> r, ballot |-> b]}
    BY <1>8 DEF Recover
  <2>2. b > 0
    <3>1. ballot[r] \in Nat /\ b \in Nat /\ r \in Nat
      <4>1. ballot[r] \in Ballots
        BY DEF TypeOK
      <4> QED
        BY <4>1, LeaderIsReplica, NAssumption DEF Replicas
    <3>2. ballot[r] \div N \in Nat
      BY <3>1, NAssumption
    <3> DEFINE k == ballot[r] \div N
    <3> HIDE DEF k
    <3>3. (k + 1) * N + r > 0
      <4>1. k \in Nat
        BY <3>2 DEF k
      <4>2. (k + 1) * N = k * N + N /\ k * N \in Nat
        BY <4>1, NAssumption
      <4> QED
        BY <3>1, <4>1, <4>2, NAssumption
    <3>4. (k + 1) * N + r \in Nat
      <4>1. k \in Nat
        BY <3>2 DEF k
      <4>2. (k + 1) * N \in Nat
        BY <4>1, NAssumption
      <4> QED
        BY <3>1, <4>2
    <3> QED
      BY <2>1, <3>1, <3>3, <3>4 DEF NextBallotOf, k
  <2>3. \A m \in newLeaders' : m \in newLeaders \/ m.ballot > 0
    BY <2>1, <2>2
  <2> QED
    BY <2>1, <2>2, <2>3, EntersBallotLater
<1> QED
  BY <1>2, <1>3, <1>4, <1>6, <1>7, <1>8

\* The others keep what they have of the first ballot.
LEMMA OthersKeep ==
  ASSUME TypeOK, NEW r \in Replicas, Alone(r), NEW P, FirstBallot(P), ballot'[r] = 0 => ballot[r] = 0
  PROVE  /\ r # 0 \/ ballot'[r] # 0 => LeaderState(P)' /\ AckState(P)'
         /\ \A q \in Replicas \ {0, r} :
              ballot'[q] = 0 /\ (r # 0 \/ ballot'[0] # 0) => FollowerState(P, q)'
         /\ \A m \in toClient : m.from # r \/ ballot'[r] # 0 \/ m.type = "reply" => ClientMsgState(P, m)'
<1>1. \A q \in Replicas \ {r} :
       /\ ballot'[q] = ballot[q] /\ seqnum'[q] = seqnum[q]
       /\ proposes'[q] = proposes[q] /\ reproposed'[q] = reproposed[q]
       /\ lastCmd'[q] = lastCmd[q] /\ lastWrite'[q] = lastWrite[q]
       /\ hlog'[q] = hlog[q] /\ pendingHashUpds'[q] = pendingHashUpds[q]
       /\ cmdDescs'[q] = cmdDescs[q] /\ delivered'[q] = delivered[q]
       /\ executing'[q] = executing[q] /\ replying'[q] = replying[q]
       /\ deliverChan'[q] = deliverChan[q]
  BY DEF Alone
<1>2. delivered[r] \subseteq delivered'[r] /\ \A m \in acks \ acks' : m.to = r
  BY DEF Alone
<1>3. \A m \in acks' : m \in acks \/ (m.from = r /\ m.to # r /\ m.ballot = ballot'[r])
  BY DEF Alone, OwnMessages
<1>4. 0 \in Replicas
  BY LeaderIsReplica
<1>5. LeaderState(P) /\ AckState(P) /\ ClientState(P)
      /\ \A q \in Replicas \ {0} : ballot[q] = 0 => FollowerState(P, q)
  BY DEF FirstBallot
<1>6. ASSUME r # 0 PROVE LeaderState(P)'
  BY <1>1, <1>4, <1>5, <1>6 DEF LeaderState, LeaderDesc
<1>7. ASSUME ballot'[r] # 0, r = 0 PROVE LeaderState(P)'
  BY <1>7 DEF LeaderState
<1>8. ASSUME r # 0 \/ ballot'[r] # 0, NEW m \in acks' PROVE AckMsgState(P, m)'
  <2>1. CASE m \in acks
    <3>1. AckMsgState(P, m) /\ m.from \in Replicas
      BY <1>5, <2>1 DEF AckState, TypeOK, FastAck
    <3>2. ballot'[m.from] = 0 => ballot[m.from] = 0
      BY <1>1, <3>1
    <3> QED
      BY <3>1, <3>2 DEF AckMsgState
  <2>2. CASE m \notin acks
    BY <1>3, <1>8, <2>2 DEF AckMsgState
  <2> QED
    BY <2>1, <2>2
<1>9. ASSUME NEW q \in Replicas \ {0, r}, ballot'[q] = 0, r # 0 \/ ballot'[0] # 0
      PROVE  FollowerState(P, q)'
  <2>1. FollowerState(P, q)
    BY <1>1, <1>5, <1>9
  <2>2. reproposed'[q] = {} /\ \A c \in Commands : FollowerDesc(P, q, c, cmdDescs[q][c])'
    BY <1>1, <2>1 DEF FollowerState, FollowerDesc
  <2>3. ASSUME ballot'[0] = 0 PROVE HashState(P, q)'
    <3>1. r # 0 /\ ballot[0] = 0
      BY <1>1, <1>4, <1>9, <2>3
    <3>2. \A b : Comes(q, b)' <=> Comes(q, b)
      BY <1>2, <1>3, <3>1 DEF Comes
    <3>3. HashState(P, q)
      BY <2>1, <3>1 DEF FollowerState
    <3> QED
      BY <1>1, <3>2, <3>3, HashStays
  <2> QED
    BY <2>2, <2>3 DEF FollowerState
<1>10. ASSUME NEW m \in toClient, m.from # r \/ ballot'[r] # 0 \/ m.type = "reply"
       PROVE  ClientMsgState(P, m)'
  <2>1. ClientMsgState(P, m) /\ m.from \in Replicas
    BY <1>5 DEF ClientState, TypeOK, ToClient
  <2>2. delivered[0] \subseteq delivered'[0]
    BY <1>1, <1>2, <1>4
  <2>3. CASE m.type = "reply"
    BY <2>1, <2>2, <2>3 DEF ClientMsgState
  <2>4. CASE m.type # "reply" /\ ballot'[m.from] = 0
    <3>1. m.from # r /\ ballot[m.from] = 0 /\ cmdDescs'[m.from] = cmdDescs[m.from]
          /\ delivered'[m.from] = delivered[m.from]
      BY <1>1, <1>10, <2>1, <2>4
    <3> QED
      BY <2>1, <2>4, <3>1 DEF ClientMsgState, Holds
  <2>5. CASE m.type # "reply" /\ ballot'[m.from] # 0
    BY <2>1, <2>5 DEF ClientMsgState
  <2> QED
    BY <2>3, <2>4, <2>5
<1> QED
  BY <1>6, <1>7, <1>8, <1>9, <1>10 DEF AckState

\* A step of a later ballot leaves the first one as it is.
LEMMA LaterKeeps ==
  ASSUME TypeOK, NEW r \in Replicas, Alone(r), NEW P, FirstBallot(P), ballot'[r] # 0
  PROVE  FirstBallot(P)'
<1>1. /\ LeaderState(P)' /\ AckState(P)'
      /\ \A q \in Replicas \ {0, r} :
           ballot'[q] = 0 /\ (r # 0 \/ ballot'[0] # 0) => FollowerState(P, q)'
      /\ \A m \in toClient : ClientMsgState(P, m)'
  BY OthersKeep
<1>2. \A q \in Replicas \ {0} : ballot'[q] = 0 => FollowerState(P, q)'
  BY <1>1
<1>3. \A m \in toClient' : m \in toClient \/ m.ballot # 0
  BY DEF Alone, OwnMessages
<1>4. ClientState(P)'
  BY <1>1, <1>3 DEF ClientState, ClientMsgState
<1> QED
  BY <1>1, <1>2, <1>4 DEF FirstBallot

-------------------------------------------------------------------------------
(***************************************************************************)
(* A step of a follower in the first ballot.                               *)
(***************************************************************************)
\* What a handler of a follower may end with.
FollowerOutcome(P, r, c, x, clientMsgs) ==
  /\ x.d.open
  /\ x.d.afterPropagate # None => GivenDep(P, c, x.d.afterPropagate)
  /\ x.d.slowPath => x.done \/ c \in delivered[r] \/ (x.d.propose = "set" /\ GivenDep(P, c, x.d.dep))
  /\ cmdDescs[r][c].slowPath => x.d.slowPath
  /\ cmdDescs[r][c].propose = "set" => x.d.propose = "set"
  /\ \A m \in clientMsgs :
       /\ m.from = r /\ m.cmd = c
       /\ (m.type = "slowAck" /\ x.d.slowPath) \/ (m.type = "fastAck" /\ x.d.propose = "set")

FollowerResult(P, r) ==
  /\ \A b \in Commands : FollowerDesc(P, r, b, cmdDescs[r][b])'
  /\ \A m \in toClient' : m.from = r => ClientMsgState(P, m)'

InFirstBallot(P, r) == r # 0 /\ ballot[r] = 0 /\ FirstBallot(P)

LEMMA FollowerFacts ==
  ASSUME NEW r \in Replicas, NEW P, InFirstBallot(P, r)
  PROVE  /\ r # 0 /\ ballot[r] = 0 /\ LeaderOf(r) = 0
         /\ P \in Seq(Commands) /\ NoRepeats(P)
         /\ reproposed[r] = {}
         /\ \A c \in Commands : FollowerDesc(P, r, c, cmdDescs[r][c])
         /\ \A m \in toClient : ClientMsgState(P, m)
         /\ \A m \in acks : AckMsgState(P, m)
         /\ ballot[0] = 0 => HashState(P, r)
<1>1. FollowerState(P, r)
  BY DEF InFirstBallot, FirstBallot
<1>2. LeaderOf(r) = 0
  BY LeaderIsReplica DEF LeaderOf, InFirstBallot
<1> QED
  BY <1>1, <1>2 DEF InFirstBallot, FirstBallot, FollowerState, NoRepeats, ClientState, AckState

LEMMA FollowerSettles ==
  ASSUME TypeOK, NEW r \in Replicas, NEW P, InFirstBallot(P, r), NEW c \in Commands, NEW x \in Outcome,
         NEW taken, NEW sent, NEW cm, Settled(r, c, x, taken, sent, cm), ballot' = ballot,
         FollowerOutcome(P, r, c, x, cm)
  PROVE  FollowerResult(P, r)
<1>1. /\ r # 0 /\ ballot[r] = 0 /\ LeaderOf(r) = 0
      /\ \A b \in Commands : FollowerDesc(P, r, b, cmdDescs[r][b])
      /\ \A m \in toClient : ClientMsgState(P, m)
  BY FollowerFacts
<1>2. /\ delivered'[r] = delivered[r] \cup IF x.done THEN {c} ELSE {}
      /\ cmdDescs'[r][c] = IF x.done /\ x.d.seq THEN Closed ELSE x.d
      /\ \A b \in Commands \ {c} :
           cmdDescs'[r][b] = cmdDescs[r][b] \/ cmdDescs'[r][b] = WokenBy(cmdDescs[r][b], c)
      /\ \A m \in toClient' : m \in toClient \cup cm
  BY <1>1 DEF Settled
<1>3. ASSUME NEW b \in Commands
      PROVE  /\ FollowerDesc(P, r, b, cmdDescs[r][b])'
             /\ cmdDescs[r][b].slowPath => cmdDescs'[r][b].slowPath \/ b \in delivered'[r]
             /\ cmdDescs[r][b].propose = "set" => cmdDescs'[r][b].propose = "set" \/ b \in delivered'[r]
  <2>1. /\ cmdDescs[r][b] \in CommandDesc
        /\ FollowerDesc(P, r, b, cmdDescs[r][b])
    BY <1>1 DEF TypeOK
  <2>2. CASE b # c
    <3>1. CASE cmdDescs'[r][b] = cmdDescs[r][b]
      BY <1>2, <2>1, <3>1 DEF FollowerDesc
    <3>2. CASE cmdDescs'[r][b] = WokenBy(cmdDescs[r][b], c)
      <4> DEFINE d == cmdDescs[r][b]
                 n == WokenBy(d, c)
      <4>1. CASE d.open
        <5>1. /\ n.open = d.open /\ n.afterPropagate = d.afterPropagate /\ n.slowPath = d.slowPath
              /\ n.propose = d.propose /\ n.dep = d.dep
          BY <2>1, <4>1 DEF WokenBy, Opened, CommandDesc
        <5> QED
          BY <1>2, <2>1, <3>2, <4>1, <5>1 DEF FollowerDesc
      <4>2. CASE ~d.open
        <5>1. d = Closed
          BY <2>1, <4>2 DEF FollowerDesc
        <5>2. /\ n.open /\ n.afterPropagate = None /\ ~n.slowPath
              /\ d.propose = "none" /\ ~d.slowPath
          BY <5>1 DEF WokenBy, Opened, Closed
        <5> QED
          BY <3>2, <5>2 DEF FollowerDesc
      <4> QED
        BY <4>1, <4>2
    <3> QED
      BY <1>2, <2>2, <3>1, <3>2
  <2>3. CASE b = c /\ x.done /\ x.d.seq
    <3>1. cmdDescs'[r][b] = Closed /\ b \in delivered'[r]
      BY <1>2, <2>3
    <3> QED
      BY <3>1 DEF FollowerDesc, Closed
  <2>4. CASE b = c /\ ~(x.done /\ x.d.seq)
    <3>1. cmdDescs'[r][b] = x.d
      BY <1>2, <2>4
    <3>2. x.done \/ c \in delivered[r] => c \in delivered'[r]
      BY <1>2
    <3> QED
      BY <2>4, <3>1, <3>2 DEF FollowerDesc, FollowerOutcome
  <2> QED
    BY <2>2, <2>3, <2>4
<1>4. ASSUME NEW m \in toClient', m.from = r PROVE ClientMsgState(P, m)'
  <2>1. ballot'[m.from] = 0 /\ r \in Replicas /\ delivered[r] \subseteq delivered'[r]
    BY <1>1, <1>2, <1>4
  <2>2. CASE m \in toClient
    <3>1. ClientMsgState(P, m) /\ m.cmd \in Commands
      BY <1>1, <2>2 DEF TypeOK, ToClient
    <3>2. /\ cmdDescs[r][m.cmd].slowPath => cmdDescs'[r][m.cmd].slowPath \/ m.cmd \in delivered'[r]
          /\ cmdDescs[r][m.cmd].propose = "set" => cmdDescs'[r][m.cmd].propose = "set" \/ m.cmd \in delivered'[r]
      BY <1>3, <3>1
    <3> QED
      BY <1>1, <1>4, <2>1, <3>1, <3>2 DEF ClientMsgState, Holds
  <2>3. CASE m \in cm
    <3>1. /\ m.cmd = c /\ r # 0
          /\ (m.type = "slowAck" /\ x.d.slowPath) \/ (m.type = "fastAck" /\ x.d.propose = "set")
      BY <1>1, <2>3 DEF FollowerOutcome
    <3>2. cmdDescs'[r][c] = x.d \/ c \in delivered'[r]
      BY <1>2
    <3> QED
      BY <1>4, <3>1, <3>2 DEF ClientMsgState, Holds
  <2> QED
    BY <1>2, <2>2, <2>3
<1> QED
  BY <1>3, <1>4 DEF FollowerResult

\* Nothing changes but what waits for a delivery.
LEMMA FollowerUnchanged ==
  ASSUME TypeOK, NEW r \in Replicas, NEW P, InFirstBallot(P, r), ballot' = ballot,
         UNCHANGED <<cmdDescs, delivered, toClient>>
  PROVE  FollowerResult(P, r)
<1>1. /\ \A b \in Commands : FollowerDesc(P, r, b, cmdDescs[r][b])
      /\ \A m \in toClient : ClientMsgState(P, m)
  BY FollowerFacts
<1> QED
  BY <1>1 DEF FollowerResult, FollowerDesc, ClientMsgState, Holds

\* The leader's acks on their way to a follower.
LEMMA FollowerComes ==
  ASSUME NEW r \in Replicas, NEW P, InFirstBallot(P, r), NEW c, NEW x, NEW taken, NEW sent, NEW cm,
         Settled(r, c, x, taken, sent, cm), OwnMessages(r, sent, cm)
  PROVE  \A b : Comes(r, b)' <=> \E m \in acks \ taken : m.from = 0 /\ m.to = r /\ m.cmd = b
<1>1. r # 0 /\ LeaderOf(r) = 0
  BY FollowerFacts
<1>2. \A m \in sent : m.from # 0
  BY <1>1 DEF OwnMessages
<1>3. acks' \subseteq (acks \ taken) \cup sent
  BY DEF Settled
<1>4. \A m \in acks : m \in acks' \cup taken \/ m.from # 0
  BY <1>1 DEF Settled
<1> QED
  BY <1>2, <1>3, <1>4 DEF Comes

LEMMA OpenedFollower ==
  ASSUME NEW P, NEW r, NEW c, NEW d \in CommandDesc, FollowerDesc(P, r, c, d), NEW s \in BOOLEAN
  PROVE  LET e == Opened(d, s)
         IN  /\ FollowerDesc(P, r, c, e) /\ e.open
             /\ d.slowPath => e.slowPath
             /\ d.propose = "set" => e.propose = "set"
<1>1. CASE d.open
  BY <1>1 DEF Opened
<1>2. CASE ~d.open
  <2>1. d = Closed
    BY <1>2 DEF FollowerDesc
  <2> QED
    BY <1>2, <2>1 DEF Opened, FollowerDesc, Closed
<1> QED
  BY <1>1, <1>2

\* The handlers of a proposal.
LEMMA FollowerProposes ==
  ASSUME TypeOK, NEW r \in Replicas, NEW P, InFirstBallot(P, r), NEW c \in Commands, NEW d \in CommandDesc,
         FollowerDesc(P, r, c, d), d.open, d.propose # "set", cmdDescs[r][c].slowPath => d.slowPath,
         TakesPropose(r, c, d), ballot' = ballot
  PROVE  FollowerResult(P, r) /\ \A b : Comes(r, b)' <=> Comes(r, b)
<1>1. LeaderOf(r) # r
  BY FollowerFacts
<1>2. PICK x \in Outcome : \E sent, cm :
           /\ Settled(r, c, x, {}, sent, cm) /\ OwnMessages(r, sent, cm)
           /\ ProposalHandled(r, c, d, x, cm)
  BY TakesProposeSettles
<1>3. PICK sent, cm :
           /\ Settled(r, c, x, {}, sent, cm) /\ OwnMessages(r, sent, cm)
           /\ ProposalHandled(r, c, d, x, cm)
  BY <1>2
<1>4. FollowerOutcome(P, r, c, x, cm)
  <2>1. \A m \in cm : m.from = r
    BY <1>3 DEF OwnMessages
  <2>2. /\ x.d.open /\ x.d.propose = "set" /\ x.d.afterPropagate = None
        /\ \/ /\ x.d.slowPath /\ d.afterPropagate # None
              /\ x.done \/ Deps(x.d.dep) = Deps(d.afterPropagate)
              /\ \A m \in cm : m.type = "slowAck" /\ m.cmd = c
           \/ x.d.slowPath = d.slowPath /\ \A m \in cm : m.type = "fastAck" /\ m.cmd = c
    BY <1>1, <1>3 DEF ProposalHandled
  <2>3. CASE /\ x.d.slowPath /\ d.afterPropagate # None
             /\ x.done \/ Deps(x.d.dep) = Deps(d.afterPropagate)
             /\ \A m \in cm : m.type = "slowAck" /\ m.cmd = c
    <3>1. x.done \/ GivenDep(P, c, x.d.dep)
      BY <2>3 DEF FollowerDesc, GivenDep
    <3> QED
      BY <2>1, <2>2, <2>3, <3>1 DEF FollowerOutcome
  <2>4. CASE x.d.slowPath = d.slowPath /\ \A m \in cm : m.type = "fastAck" /\ m.cmd = c
    <3>1. d.slowPath => c \in delivered[r]
      BY DEF FollowerDesc
    <3> QED
      BY <2>1, <2>2, <2>4, <3>1 DEF FollowerOutcome
  <2> QED
    BY <2>2, <2>3, <2>4
<1>5. FollowerResult(P, r)
  BY <1>3, <1>4, FollowerSettles
<1>6. \A b : Comes(r, b)' <=> \E m \in acks \ {} : m.from = 0 /\ m.to = r /\ m.cmd = b
  BY <1>3, FollowerComes
<1> QED
  BY <1>5, <1>6 DEF Comes

\* What a step of a follower keeps.
FollowerKeeps(P, r) ==
  /\ FollowerResult(P, r) /\ reproposed'[r] = {}
  /\ ballot[0] = 0 => HashState(P, r)'

LEMMA FollowerRegisters ==
  ASSUME TypeOK, NEW r \in Replicas, NEW P, InFirstBallot(P, r), NEW c \in Commands, Propose(r, c)
  PROVE  FollowerKeeps(P, r)
<1> DEFINE d == Opened(cmdDescs[r][c], FALSE)
           a == HashLogAppend(hlog[r], c)
           U == {u \in pendingHashUpds[r] : u.cmd = c /\ r # LeaderOf(r)}
           e == IF d.proposeDep = Nil
                THEN [d EXCEPT !.proposeDep = DepOf(r, c), !.hs = a.hash] ELSE d
           n == [e EXCEPT !.propose = IF @ = "none" THEN "sent" ELSE @]
<1>1. /\ r # 0 /\ LeaderOf(r) = 0 /\ P \in Seq(Commands) /\ NoRepeats(P) /\ reproposed[r] = {}
      /\ FollowerDesc(P, r, c, cmdDescs[r][c]) /\ (ballot[0] = 0 => HashState(P, r))
      /\ \A b \in Commands : FollowerDesc(P, r, b, cmdDescs[r][b])
  BY FollowerFacts
<1>2. Registers(r, c, d)
  <2>1. (r = LeaderOf(r)) = FALSE
    BY <1>1
  <2> QED
    BY <2>1 DEF Propose
<1>3. /\ MayRegister(r, c)
      /\ reproposed' = [reproposed EXCEPT ![r] = @ \ {c}]
      /\ proposes' = [proposes EXCEPT ![r] = @ \cup {c}]
      /\ IF U = {} THEN hlog' = [hlog EXCEPT ![r] = a.log] /\ UNCHANGED <<pendingHashUpds, stopped>>
                   ELSE RecordLeaderHash(r, CHOOSE u \in U : TRUE, a.log)
      /\ IF d.seq THEN d.propose = "none" /\ TakesPropose(r, c, e)
         ELSE /\ cmdDescs' = [cmdDescs EXCEPT ![r][c] = n]
              /\ UNCHANGED <<seqnum, execVars, acks, toClient>>
      /\ ballot' = ballot
  BY <1>2 DEF Registers, ballotVars
<1>4. c \notin proposes[r] /\ c \notin delivered[r]
  BY <1>1, <1>3 DEF MayRegister
<1>5. /\ d \in CommandDesc /\ FollowerDesc(P, r, c, d) /\ d.open
      /\ cmdDescs[r][c].slowPath => d.slowPath
      /\ cmdDescs[r][c].propose = "set" => d.propose = "set"
  <2>1. cmdDescs[r][c] \in CommandDesc
    BY DEF TypeOK
  <2> HIDE DEF d
  <2> QED
    BY <1>1, <2>1, DescTypes, OpenedFollower DEF d
<1> HIDE DEF d
<1>6. e \in CommandDesc
  BY <1>5, RegisteredDesc
<1>7. /\ FollowerDesc(P, r, c, e) /\ e.open /\ e.slowPath = d.slowPath /\ e.propose = d.propose
  <2> HIDE DEF a
  <2>1. /\ e.open = d.open /\ e.slowPath = d.slowPath /\ e.propose = d.propose
        /\ e.afterPropagate = d.afterPropagate /\ e.dep = d.dep
    BY <1>5 DEF CommandDesc
  <2> HIDE DEF e
  <2> QED
    BY <1>5, <2>1 DEF FollowerDesc
<1>8. FollowerResult(P, r) /\ \A b : Comes(r, b)' <=> Comes(r, b)
  <2> HIDE DEF e
  <2>1. CASE d.seq
    <3>1. TakesPropose(r, c, e) /\ d.propose = "none"
      BY <1>3, <2>1
    <3>2. e.propose # "set" /\ (cmdDescs[r][c].slowPath => e.slowPath)
      BY <1>5, <1>7, <3>1
    <3> QED
      BY <1>3, <1>6, <1>7, <3>1, <3>2, FollowerProposes
  <2>2. CASE ~d.seq
    <3>1. /\ n.open /\ n.slowPath = d.slowPath /\ n.afterPropagate = e.afterPropagate /\ n.dep = e.dep
          /\ d.propose = "set" => n.propose = "set"
      BY <1>6, <1>7 DEF CommandDesc
    <3>2. n.propose = "set" \/ ~n.slowPath
      BY <1>4, <1>5, <3>1 DEF FollowerDesc
    <3>3. FollowerDesc(P, r, c, n)
      BY <1>7, <3>1, <3>2 DEF FollowerDesc
    <3> HIDE DEF n
    <3>4. /\ cmdDescs' = [cmdDescs EXCEPT ![r][c] = n]
          /\ delivered' = delivered /\ acks' = acks /\ toClient' = toClient
      BY <1>3, <2>2 DEF execVars
    <3>5. \A b \in Commands : cmdDescs'[r][b] = IF b = c THEN n ELSE cmdDescs[r][b]
      BY <3>4 DEF TypeOK
    <3>6. ASSUME NEW b \in Commands PROVE FollowerDesc(P, r, b, cmdDescs[r][b])'
      BY <1>1, <3>3, <3>4, <3>5 DEF FollowerDesc
    <3>7. ASSUME NEW m \in toClient', m.from = r PROVE ClientMsgState(P, m)'
      <4>1. ClientMsgState(P, m) /\ m.cmd \in Commands
        BY <3>4, FollowerFacts DEF TypeOK, ToClient
      <4>2. /\ cmdDescs[r][m.cmd].slowPath => cmdDescs'[r][m.cmd].slowPath
            /\ cmdDescs[r][m.cmd].propose = "set" => cmdDescs'[r][m.cmd].propose = "set"
        BY <1>5, <3>1, <3>5, <4>1
      <4> QED
        BY <1>3, <3>4, <3>7, <4>1, <4>2 DEF ClientMsgState, Holds
    <3>8. FollowerResult(P, r)
      BY <3>6, <3>7 DEF FollowerResult
    <3> QED
      BY <3>4, <3>8 DEF Comes
  <2> QED
    BY <2>1, <2>2
<1>9. ASSUME ballot[0] = 0 PROVE HashState(P, r)'
  BY <1>1, <1>3, <1>4, <1>8, <1>9, HashRegisters
<1>10. reproposed'[r] = {}
  BY <1>1, <1>3 DEF TypeOK
<1> QED
  BY <1>8, <1>9, <1>10 DEF FollowerKeeps

\* The handlers of an ack.
LEMMA FollowerHandlesAck ==
  ASSUME TypeOK, NEW r \in Replicas, NEW P, InFirstBallot(P, r), NEW m \in acks, NEW d \in CommandDesc,
         FollowerDesc(P, r, m.cmd, d), d.open, cmdDescs[r][m.cmd].slowPath => d.slowPath,
         cmdDescs[r][m.cmd].propose = "set" => d.propose = "set",
         m.ballot = 0, NEW x \in Outcome, NEW sent, NEW cm, OwnMessages(r, sent, cm),
         AckHandled(r, m, d, x, cm)
  PROVE  FollowerOutcome(P, r, m.cmd, x, cm)
<1>1. /\ r # 0 /\ LeaderOf(r) = 0 /\ ballot[r] = 0 /\ P \in Seq(Commands)
      /\ AckMsgState(P, m)
  BY FollowerFacts
<1>2. x.d.propose = d.propose /\ x.d.open
  BY DEF AckHandled
<1>3. Handled(d).d = d /\ ~Handled(d).done
  BY DEF Handled
<1>4. d.slowPath => m.cmd \in delivered[r] \/ (d.propose = "set" /\ GivenDep(P, m.cmd, d.dep))
  BY DEF FollowerDesc
<1>5. m.from = 0 => GivenDep(P, m.cmd, m.dep)
  <2> SUFFICES ASSUME m.from = 0 PROVE GivenDep(P, m.cmd, m.dep)
    OBVIOUS
  <2>1. PICK k \in 1 .. Len(P) : IsHashOf(P, m.cmd, k, m.checksum) /\ m.dep = DepIn(m.checksum)
    BY <1>1 DEF AckMsgState
  <2>2. P[k] = m.cmd /\ m.dep = DepIn(SubSeq(P, 1, k))
    BY <2>1 DEF IsHashOf
  <2>3. m.dep \in SUBSET Commands
    BY <1>1, <2>2, PrefixFacts
  <2>4. Deps(m.dep) = m.dep
    BY <2>3, NilAssumption DEF Deps
  <2> QED
    BY <2>2, <2>4 DEF GivenDep
<1>6. CASE m.from # 0
  <2>1. Framed(r, m.cmd, Handled(d), x) /\ cm = {}
    BY <1>1, <1>6 DEF AckHandled
  <2>2. x.d.slowPath = d.slowPath /\ x.d.dep = d.dep /\ x.d.afterPropagate = d.afterPropagate
    BY <1>3, <2>1 DEF Framed, Same
  <2> QED
    BY <1>2, <1>4, <2>1, <2>2 DEF FollowerOutcome, FollowerDesc
<1>7. CASE m.from = 0 /\ d.propose # "set"
  <2>1. x = Handled([d EXCEPT !.afterPropagate = m.dep]) /\ cm = {}
    BY <1>1, <1>7 DEF AckHandled
  <2>2. /\ x.d.slowPath = d.slowPath /\ x.d.dep = d.dep /\ x.d.afterPropagate = m.dep
    BY <2>1 DEF Handled, CommandDesc
  <2> QED
    BY <1>2, <1>4, <1>5, <1>7, <2>1, <2>2 DEF FollowerOutcome
<1>8. CASE m.from = 0 /\ d.propose = "set"
  <2>1. /\ FramedFromLeader(r, ballot[r], m.cmd, Handled(d), x, m.dep)
        /\ \A n \in cm : n.type = "slowAck" /\ n.cmd = m.cmd
    BY <1>1, <1>8 DEF AckHandled
  <2>2. /\ x.d.afterPropagate = d.afterPropagate /\ x.d.slowPath
        /\ x.done \/ Deps(x.d.dep) = Deps(m.dep)
    BY <1>1, <1>3, <2>1 DEF FramedFromLeader, Same, LeaderOf
  <2>3. x.done \/ GivenDep(P, m.cmd, x.d.dep)
    BY <1>5, <1>8, <2>2 DEF GivenDep
  <2>4. \A n \in cm : n.from = r
    BY DEF OwnMessages
  <2> QED
    BY <1>2, <1>8, <2>1, <2>2, <2>3, <2>4 DEF FollowerOutcome, FollowerDesc
<1> QED
  BY <1>6, <1>7, <1>8

LEMMA FollowerReceives ==
  ASSUME TypeOK, NEW r \in Replicas, NEW P, InFirstBallot(P, r), NEW m \in acks, ReceiveAck(r, m)
  PROVE  FollowerKeeps(P, r)
<1> DEFINE d == Opened(cmdDescs[r][m.cmd], FALSE)
           u == [cmd |-> m.cmd, seqnum |-> m.seqnum, hash |-> m.checksum]
<1>1. /\ r # 0 /\ ballot[r] = 0 /\ LeaderOf(r) = 0 /\ P \in Seq(Commands) /\ NoRepeats(P) /\ reproposed[r] = {}
      /\ \A b \in Commands : FollowerDesc(P, r, b, cmdDescs[r][b])
      /\ \A n \in acks : AckMsgState(P, n)
      /\ ballot[0] = 0 => HashState(P, r)
  BY FollowerFacts
<1>2. m.cmd \in Commands
  BY DEF TypeOK, FastAck
<1>3. (r = LeaderOf(r)) = FALSE
  BY <1>1
<1>4. /\ UNCHANGED <<ballotVars, runVars>> /\ m.to = r
      /\ IF m.from = 0 THEN RecordLeaderHash(r, u, hlog[r]) ELSE UNCHANGED <<hashVars, stopped>>
      /\ \/ acks' = acks \ {m} /\ UNCHANGED <<cmdDescs, execVars, toClient>>
         \/ m.ballot = ballot[r] /\ HandleAck(r, m, d)
         \/ Settle(r, m.cmd, Handled(d), {}, {m}, {}, {})
  BY <1>1, <1>3 DEF ReceiveAck, MayReceive
<1>5. ballot' = ballot
  BY <1>4 DEF ballotVars
<1>6. /\ d \in CommandDesc /\ FollowerDesc(P, r, m.cmd, d) /\ d.open
      /\ cmdDescs[r][m.cmd].slowPath => d.slowPath
      /\ cmdDescs[r][m.cmd].propose = "set" => d.propose = "set"
  <2>1. cmdDescs[r][m.cmd] \in CommandDesc
    BY <1>2 DEF TypeOK
  <2> HIDE DEF d
  <2> QED
    BY <1>1, <1>2, <2>1, DescTypes, OpenedFollower DEF d
<1> HIDE DEF d
<1> DEFINE Left == \A b : Comes(r, b)' <=> \E n \in acks \ {m} : n.from = 0 /\ n.to = r /\ n.cmd = b
<1>7. FollowerResult(P, r) /\ Left
  <2>1. CASE acks' = acks \ {m} /\ UNCHANGED <<cmdDescs, execVars, toClient>>
    <3>1. UNCHANGED <<cmdDescs, delivered, toClient>>
      BY <2>1 DEF execVars
    <3> QED
      BY <1>5, <2>1, <3>1, FollowerUnchanged DEF Comes
  <2>2. CASE m.ballot = ballot[r] /\ HandleAck(r, m, d)
    <3>1. PICK x \in Outcome : \E sent, cm :
             /\ Settled(r, m.cmd, x, {m}, sent, cm) /\ OwnMessages(r, sent, cm)
             /\ AckHandled(r, m, d, x, cm)
      BY <1>5, <1>6, <2>2, HandleAckSettles
    <3>2. PICK sent, cm :
             /\ Settled(r, m.cmd, x, {m}, sent, cm) /\ OwnMessages(r, sent, cm)
             /\ AckHandled(r, m, d, x, cm)
      BY <3>1
    <3>3. FollowerOutcome(P, r, m.cmd, x, cm)
      BY <1>1, <1>6, <2>2, <3>2, FollowerHandlesAck
    <3>4. FollowerResult(P, r)
      BY <1>2, <1>5, <3>2, <3>3, FollowerSettles
    <3> QED
      BY <3>2, <3>4, FollowerComes
  <2>3. CASE Settle(r, m.cmd, Handled(d), {}, {m}, {}, {})
    <3>1. Handled(d) \in Outcome /\ Handled(d).d = d
      BY <1>6, DescTypes DEF Handled
    <3>2. Settled(r, m.cmd, Handled(d), {m}, {}, {})
      BY <1>2, <2>3, <3>1, SettleEffect
    <3>3. FollowerOutcome(P, r, m.cmd, Handled(d), {})
      BY <1>6, <3>1 DEF FollowerOutcome, FollowerDesc
    <3>4. FollowerResult(P, r)
      BY <1>2, <1>5, <3>1, <3>2, <3>3, FollowerSettles
    <3>5. OwnMessages(r, {}, {})
      BY DEF OwnMessages
    <3> QED
      BY <3>2, <3>4, <3>5, FollowerComes
  <2> QED
    BY <1>4, <2>1, <2>2, <2>3
<1> HIDE DEF u
<1>8. ASSUME ballot[0] = 0 PROVE HashState(P, r)'
  <2>1. HashState(P, r) /\ proposes' = proposes
    BY <1>1, <1>4, <1>8 DEF runVars
  <2>2. CASE m.from # 0
    <3>1. \A b : Comes(r, b)' <=> Comes(r, b)
      BY <1>7, <2>2 DEF Comes
    <3>2. hlog'[r] = hlog[r] /\ pendingHashUpds'[r] = pendingHashUpds[r]
      BY <1>4, <2>2 DEF hashVars
    <3> QED
      BY <2>1, <3>1, <3>2, HashStays
  <2>3. CASE m.from = 0
    <3>1. ASSUME NEW n \in acks, n.from = 0
          PROVE  \E k \in 1 .. Len(P) : /\ IsHashOf(P, n.cmd, k, n.checksum) /\ n.seqnum = k - 1
                                        /\ n.dep = DepIn(n.checksum) /\ n.ballot = 0
      BY <1>1, <1>8, <3>1 DEF AckMsgState
    <3>2. PICK k \in 1 .. Len(P) : /\ IsHashOf(P, m.cmd, k, m.checksum) /\ m.seqnum = k - 1
                                   /\ m.dep = DepIn(m.checksum) /\ m.ballot = 0
      BY <2>3, <3>1
    <3>3. ASSUME NEW n \in acks, n.from = 0, n.to = r, n.cmd = m.cmd PROVE n = m
      <4>1. PICK l \in 1 .. Len(P) : /\ IsHashOf(P, n.cmd, l, n.checksum) /\ n.seqnum = l - 1
                                     /\ n.dep = DepIn(n.checksum) /\ n.ballot = 0
        BY <3>1, <3>3
      <4>2. l = k
        BY <1>1, <3>2, <3>3, <4>1 DEF IsHashOf, NoRepeats
      <4>3. /\ n.to = m.to /\ n.from = m.from /\ n.ballot = m.ballot /\ n.cmd = m.cmd /\ n.dep = m.dep
            /\ n.checksum = m.checksum /\ n.seqnum = m.seqnum
        BY <1>4, <2>3, <3>2, <3>3, <4>1, <4>2 DEF IsHashOf
      <4>4. n \in FastAck /\ m \in FastAck
        BY DEF TypeOK
      <4> QED
        BY <4>3, <4>4 DEF FastAck
    <3>4. \A b : Comes(r, b)' <=> Comes(r, b) /\ b # m.cmd
      BY <1>7, <3>3 DEF Comes
    <3>5. RecordLeaderHash(r, [cmd |-> m.cmd, seqnum |-> m.seqnum, hash |-> m.checksum], hlog[r])
      BY <1>4, <2>3 DEF u
    <3> QED
      BY <1>1, <1>4, <2>1, <2>3, <3>2, <3>4, <3>5, HashRecords
  <2> QED
    BY <2>2, <2>3
<1>9. reproposed'[r] = {}
  BY <1>1, <1>4 DEF runVars
<1> QED
  BY <1>7, <1>8, <1>9 DEF FollowerKeeps

\* A step that leaves the messages and the run loop of a follower alone.
LEMMA FollowerRests ==
  ASSUME TypeOK, NEW r \in Replicas, NEW P, InFirstBallot(P, r), FollowerResult(P, r),
         UNCHANGED <<runVars, hashVars>>, \A b : Comes(r, b)' <=> Comes(r, b)
  PROVE  FollowerKeeps(P, r)
<1>1. reproposed[r] = {} /\ (ballot[0] = 0 => HashState(P, r))
  BY FollowerFacts
<1>2. /\ hlog'[r] = hlog[r] /\ pendingHashUpds'[r] = pendingHashUpds[r] /\ proposes'[r] = proposes[r]
      /\ reproposed'[r] = reproposed[r]
  BY DEF runVars, hashVars
<1> QED
  BY <1>1, <1>2, HashStays DEF FollowerKeeps

LEMMA FollowerDelivers ==
  ASSUME TypeOK, NEW r \in Replicas, NEW P, InFirstBallot(P, r), NEW w \in deliverChan[r], Deliver(r, w)
  PROVE  FollowerKeeps(P, r)
<1> DEFINE c == w[2]
           d == Opened(cmdDescs[r][c], FALSE)
           x == [Handled(d) EXCEPT !.done = MayDeliver(r, ballot[r], c, d)]
<1>1. /\ UNCHANGED <<ballotVars, runVars, hashVars>>
      /\ \/ UNCHANGED <<cmdDescs, delivered, executing, replying, log, acks, toClient>>
         \/ Settle(r, c, x, {w}, {}, {}, {})
  BY DEF Deliver
<1>2. c \in Commands
  BY DEF TypeOK
<1>3. /\ d \in CommandDesc /\ FollowerDesc(P, r, c, d) /\ d.open
      /\ cmdDescs[r][c].slowPath => d.slowPath
      /\ cmdDescs[r][c].propose = "set" => d.propose = "set"
  <2>1. cmdDescs[r][c] \in CommandDesc
    BY <1>2 DEF TypeOK
  <2>2. FollowerDesc(P, r, c, cmdDescs[r][c])
    BY <1>2, FollowerFacts
  <2> HIDE DEF d
  <2> QED
    BY <2>1, <2>2, DescTypes, OpenedFollower DEF d
<1> HIDE DEF d, c
<1>4. x \in Outcome /\ x.d = d
  <2>1. Handled(d) \in Outcome /\ Handled(d).d = d
    BY <1>3, DescTypes DEF Handled
  <2> QED
    BY <2>1 DEF Outcome, MayDeliver
<1> HIDE DEF x
<1>5. ballot' = ballot
  BY <1>1 DEF ballotVars
<1>6. CASE UNCHANGED <<cmdDescs, delivered, executing, replying, log, acks, toClient>>
  <2>1. FollowerResult(P, r) /\ \A b : Comes(r, b)' <=> Comes(r, b)
    BY <1>5, <1>6, FollowerUnchanged DEF Comes
  <2> QED
    BY <1>1, <2>1, FollowerRests
<1>7. CASE Settle(r, c, x, {w}, {}, {}, {})
  <2>1. Settled(r, c, x, {}, {}, {}) /\ OwnMessages(r, {}, {})
    BY <1>2, <1>4, <1>7, SettleEffect DEF OwnMessages
  <2>2. FollowerOutcome(P, r, c, x, {})
    BY <1>3, <1>4 DEF FollowerOutcome, FollowerDesc
  <2>3. FollowerResult(P, r)
    BY <1>2, <1>4, <1>5, <2>1, <2>2, FollowerSettles
  <2>4. \A b : Comes(r, b)' <=> Comes(r, b)
    BY <2>1, FollowerComes DEF Comes
  <2> QED
    BY <1>1, <2>3, <2>4, FollowerRests
<1> QED
  BY <1>1, <1>6, <1>7

\* A step of a follower keeps what the replicas have of the first ballot.
LEMMA FollowerStep ==
  ASSUME TypeOK, NEW r \in Replicas, NEW P, InFirstBallot(P, r), ReplicaStep(r)
  PROVE  FirstBallot(P)'
<1>1. /\ r # 0 /\ ballot[r] = 0 /\ LeaderOf(r) = 0 /\ reproposed[r] = {} /\ FirstBallot(P)
      /\ \A c \in Commands : FollowerDesc(P, r, c, cmdDescs[r][c])
  BY FollowerFacts DEF InFirstBallot
<1>2. Alone(r) /\ ballot' = ballot
  BY StepAlone DEF ballotVars
<1>3. ASSUME NEW c \in Commands, HandlePropose(r, c) PROVE FollowerKeeps(P, r)
  <2>1. /\ cmdDescs[r][c].propose = "sent" /\ TakesPropose(r, c, cmdDescs[r][c])
        /\ UNCHANGED <<ballotVars, runVars, hashVars, stopped>>
    BY <1>3 DEF HandlePropose
  <2>2. cmdDescs[r][c] \in CommandDesc
    BY DEF TypeOK
  <2>3. cmdDescs[r][c].open
    BY <1>1, <2>1 DEF FollowerDesc, Closed
  <2>4. FollowerResult(P, r) /\ \A b : Comes(r, b)' <=> Comes(r, b)
    BY <1>1, <1>2, <2>1, <2>2, <2>3, FollowerProposes
  <2> QED
    BY <2>1, <2>4, FollowerRests
<1>4. ASSUME NEW c \in Commands, Execute(r, c) PROVE FollowerKeeps(P, r)
  <2>1. /\ UNCHANGED <<runVars, hashVars, cmdDescs, delivered, acks, toClient>>
    BY <1>4 DEF Execute
  <2>2. FollowerResult(P, r)
    BY <1>2, <2>1, FollowerUnchanged
  <2> QED
    BY <2>1, <2>2, FollowerRests DEF Comes
<1>5. ASSUME NEW c \in Commands PROVE ~ProposeDelivered(r, c) /\ ~Reply(r, c)
  BY <1>1 DEF ProposeDelivered, Reply, MayReply
<1>6. FollowerKeeps(P, r)
  BY <1>3, <1>4, <1>5, FollowerRegisters, FollowerReceives, FollowerDelivers DEF ReplicaStep
<1>7. /\ LeaderState(P)' /\ AckState(P)'
      /\ \A q \in Replicas \ {0, r} : ballot'[q] = 0 => FollowerState(P, q)'
      /\ \A m \in toClient : m.from # r => ClientMsgState(P, m)'
  BY <1>1, <1>2, OthersKeep
<1>8. FollowerState(P, r)'
  BY <1>2, <1>6 DEF FollowerKeeps, FollowerResult, FollowerState
<1>9. ASSUME NEW m \in toClient' PROVE ClientMsgState(P, m)'
  <2>1. m.from = r \/ m \in toClient
    BY <1>2 DEF Alone, OwnMessages
  <2> QED
    BY <1>6, <1>7, <2>1 DEF FollowerKeeps, FollowerResult
<1>10. \A q \in Replicas \ {0} : ballot'[q] = 0 => FollowerState(P, q)'
  BY <1>7, <1>8
<1> QED
  BY <1>1, <1>7, <1>9, <1>10 DEF FirstBallot, ClientState
-------------------------------------------------------------------------------
(***************************************************************************)
(* A step of the leader of the first ballot.                               *)
(***************************************************************************)
\* Q is P, or P and c.
Grown(P, Q, c) ==
  /\ Q \in Seq(Commands) /\ NoRepeats(Q)
  /\ Range0(P) \subseteq Range0(Q) /\ Range0(Q) \subseteq Range0(P) \cup {c}
  /\ \A b, k, hs : k \in 1 .. Len(P) /\ IsHashOf(P, b, k, hs) => k \in 1 .. Len(Q) /\ IsHashOf(Q, b, k, hs)
  /\ \A b, dep : GivenDep(P, b, dep) => GivenDep(Q, b, dep)

LEMMA GrownFacts ==
  ASSUME NEW P \in Seq(Commands), NoRepeats(P), NEW c \in Commands
  PROVE  Grown(P, P, c) /\ (c \notin Range0(P) => Grown(P, Append(P, c), c))
<1> DEFINE Q == Append(P, c)
<1>1. Grown(P, P, c)
  BY DEF Grown
<1>2. ASSUME c \notin Range0(P) PROVE Grown(P, Q, c)
  <2>1. /\ Len(P) \in Nat /\ Q \in Seq(Commands) /\ Len(Q) = Len(P) + 1 /\ Q[Len(Q)] = c
        /\ (\A i \in 1 .. Len(P) : Q[i] = P[i]) /\ Range0(Q) = Range0(P) \cup {c}
    BY LastOfAppend
  <2>2. /\ \A b, k, hs : k \in 1 .. Len(P) /\ IsHashOf(P, b, k, hs) => IsHashOf(Q, b, k, hs)
        /\ \A b, dep : GivenDep(P, b, dep) => GivenDep(Q, b, dep)
    BY PrefixStays
  <2> HIDE DEF Q
  <2>3. 1 .. Len(Q) = (1 .. Len(P)) \cup {Len(P) + 1}
    BY <2>1
  <2>4. \A i \in 1 .. Len(P) : P[i] # c
    BY <1>2 DEF Range0
  <2>5. NoRepeats(Q)
    BY <2>1, <2>3, <2>4 DEF NoRepeats
  <2> QED
    BY <2>1, <2>2, <2>3, <2>5 DEF Grown
<1> QED
  BY <1>1, <1>2

LEMMA LeaderFacts ==
  ASSUME NEW P, FirstBallot(P), ballot[0] = 0
  PROVE  /\ 0 \in Replicas /\ LeaderOf(0) = 0 /\ P \in Seq(Commands) /\ NoRepeats(P)
         /\ hlog[0] = [synced |-> -1, syncedHash |-> <<>>, pending |-> P, pendingUpd |-> {}]
         /\ proposes[0] = Range0(P) /\ reproposed[0] = {} /\ seqnum[0] = Len(P)
         /\ lastCmd[0] = LastOf(P) /\ lastWrite[0] = LastWriteOf(P)
         /\ executing[0] = {} /\ replying[0] = {}
         /\ \A w \in deliverChan[0] : w[2] \in Range0(P)
         /\ \A c \in Commands : LeaderDesc(P, c, cmdDescs[0][c])
         /\ \A m \in acks : AckMsgState(P, m)
         /\ \A m \in toClient : ClientMsgState(P, m)
         /\ \A q \in Replicas \ {0} : ballot[q] = 0 => FollowerState(P, q)
BY LeaderIsReplica DEF FirstBallot, LeaderState, AckState, ClientState, LeaderOf, NoRepeats

\* What a handler of the leader may end with.
LeaderOutcome(P, Q, c, x) ==
  /\ x.d.open /\ x.d.seq /\ x.d.propose # "sent" /\ x.d.afterPropagate = None
  /\ x.d.successors \subseteq Range0(Q) /\ x.waitsFor \subseteq Range0(P)
  /\ c \notin Range0(Q) => /\ x.d.propose = "none" /\ x.d.proposeDep = Nil /\ x.d.dep = Nil
                           /\ x.waitsFor = {} /\ ~x.done
  /\ c \in Range0(Q) =>
       x.d.propose = "set" /\ \E k \in 1 .. Len(Q) : IsHashOf(Q, c, k, x.d.hs) /\ x.d.dep = DepIn(x.d.hs)

LeaderResult(Q) ==
  /\ executing'[0] = {} /\ replying'[0] = {}
  /\ \A w \in deliverChan'[0] : w[2] \in Range0(Q)
  /\ \A b \in Commands : LeaderDesc(Q, b, cmdDescs[0][b])'
  /\ \A m \in toClient' : m.from = 0 => ClientMsgState(Q, m)'

LEMMA ClientMsgGrows ==
  ASSUME NEW P, NEW Q, NEW c, Grown(P, Q, c), NEW m, ClientMsgState(P, m)'
  PROVE  ClientMsgState(Q, m)'
BY DEF Grown, ClientMsgState

LEMMA LeaderSettles ==
  ASSUME TypeOK, NEW P, FirstBallot(P), ballot[0] = 0, NEW c \in Commands, NEW Q, Grown(P, Q, c),
         NEW x \in Outcome, NEW taken, NEW sent, NEW cm, Settled(0, c, x, taken, sent, cm),
         LeaderOutcome(P, Q, c, x), ballot' = ballot, \A m \in cm : m.type = "fastAck"
  PROVE  LeaderResult(Q)
<1>1. /\ 0 \in Replicas /\ LeaderOf(0) = 0 /\ executing[0] = {} /\ replying[0] = {}
      /\ \A w \in deliverChan[0] : w[2] \in Range0(P)
      /\ \A b \in Commands : LeaderDesc(P, b, cmdDescs[0][b])
      /\ \A m \in toClient : ClientMsgState(P, m)
  BY LeaderFacts
<1>2. /\ replying' = replying
      /\ delivered'[0] = delivered[0] \cup IF x.done THEN {c} ELSE {}
      /\ executing'[0] = executing[0] \cup IF x.done /\ ~x.d.seq THEN {c} ELSE {}
      /\ deliverChan'[0] \subseteq deliverChan[0] \cup ({c} \X x.d.successors)
      /\ cmdDescs'[0][c] = IF x.done /\ x.d.seq THEN Closed ELSE x.d
      /\ \A b \in Commands \ {c} :
           \/ cmdDescs'[0][b] = cmdDescs[0][b]
           \/ b \in x.waitsFor \ delivered[0] /\ cmdDescs'[0][b] = WokenBy(cmdDescs[0][b], c)
      /\ \A m \in toClient' :
           \/ m \in toClient \cup cm
           \/ x.done /\ m.type = "reply" /\ m.from = 0 /\ m.cmd = c /\ m.checksum = x.d.hs
  BY DEF Settled
<1>3. /\ Range0(P) \subseteq Range0(Q) /\ Range0(Q) \subseteq Range0(P) \cup {c}
      /\ \A b, k, hs : k \in 1 .. Len(P) /\ IsHashOf(P, b, k, hs) => k \in 1 .. Len(Q) /\ IsHashOf(Q, b, k, hs)
  BY DEF Grown
<1>4. executing'[0] = {} /\ replying'[0] = {}
  BY <1>1, <1>2 DEF LeaderOutcome
<1>5. \A w \in deliverChan'[0] : w[2] \in Range0(Q)
  BY <1>1, <1>2, <1>3 DEF LeaderOutcome
<1>6. ASSUME NEW b \in Commands PROVE LeaderDesc(Q, b, cmdDescs[0][b])'
  <2>1. LeaderDesc(P, b, cmdDescs[0][b]) /\ cmdDescs[0][b] \in CommandDesc
    BY <1>1 DEF TypeOK
  <2>2. CASE b = c /\ x.done
    <3>1. cmdDescs'[0][b] = Closed /\ b \in delivered'[0]
      BY <1>2, <2>2 DEF LeaderOutcome
    <3> QED
      BY <3>1 DEF LeaderDesc, Closed
  <2>3. CASE b = c /\ ~x.done
    <3>1. cmdDescs'[0][b] = x.d
      BY <1>2, <2>3
    <3> QED
      BY <2>3, <3>1 DEF LeaderDesc, LeaderOutcome
  <2>4. CASE b # c
    <3> DEFINE d == cmdDescs[0][b]
    <3>1. delivered[0] \subseteq delivered'[0]
      BY <1>2
    <3>2. /\ d.open \/ d = Closed
          /\ d.open => d.seq
          /\ d.propose # "sent" /\ d.afterPropagate = None /\ d.successors \subseteq Range0(P)
          /\ b \notin Range0(P) => d.propose = "none" /\ d.proposeDep = Nil /\ d.dep = Nil
          /\ b \in Range0(P) \ delivered[0] =>
               d.propose = "set" /\ \E k \in 1 .. Len(P) : IsHashOf(P, b, k, d.hs) /\ d.dep = DepIn(d.hs)
      BY <2>1 DEF LeaderDesc
    <3>3. /\ b \notin Range0(Q) => b \notin Range0(P)
          /\ b \in Range0(Q) => b \in Range0(P)
      BY <1>3, <2>4
    <3>4. CASE cmdDescs'[0][b] = d
      BY <1>3, <3>1, <3>2, <3>3, <3>4 DEF LeaderDesc
    <3>5. CASE b \in x.waitsFor \ delivered[0] /\ cmdDescs'[0][b] = WokenBy(d, c)
      <4>1. b \in Range0(P) \ delivered[0] /\ c \in Range0(Q)
        BY <3>5 DEF LeaderOutcome
      <4>2. d.open
        BY <3>2, <4>1 DEF Closed
      <4>3. WokenBy(d, c) = [d EXCEPT !.successors = @ \cup {c}]
        BY <4>2 DEF WokenBy, Opened
      <4> DEFINE n == WokenBy(d, c)
      <4>4. /\ n.open = d.open /\ n.seq = d.seq /\ n.propose = d.propose
            /\ n.afterPropagate = d.afterPropagate /\ n.successors = d.successors \cup {c}
            /\ n.proposeDep = d.proposeDep /\ n.dep = d.dep /\ n.hs = d.hs
        BY <2>1, <4>3 DEF CommandDesc
      <4> HIDE DEF n, d
      <4>5. n.successors \subseteq Range0(Q)
        BY <1>3, <3>2, <4>1, <4>4
      <4>6. cmdDescs'[0][b] = n /\ b \in Range0(Q)
        BY <1>3, <3>5, <4>1 DEF n
      <4>7. \E k \in 1 .. Len(Q) : IsHashOf(Q, b, k, n.hs) /\ n.dep = DepIn(n.hs)
        BY <1>3, <3>2, <4>1, <4>4
      <4>8. n.open /\ n.seq /\ n.propose = "set" /\ n.afterPropagate = None
        BY <3>2, <4>1, <4>2, <4>4
      <4> QED
        BY <4>5, <4>6, <4>7, <4>8 DEF LeaderDesc
    <3> QED
      BY <1>2, <2>4, <3>4, <3>5
  <2> QED
    BY <2>2, <2>3, <2>4
<1>7. ASSUME NEW m \in toClient', m.from = 0 PROVE ClientMsgState(Q, m)'
  <2>1. CASE m \in toClient
    <3>1. ClientMsgState(P, m)
      BY <1>1, <2>1
    <3>2. ClientMsgState(P, m)'
      BY <1>2, <1>7, <3>1 DEF ClientMsgState
    <3> QED
      BY <3>2, ClientMsgGrows
  <2>2. CASE m \in cm
    BY <1>7, <2>2 DEF ClientMsgState
  <2>3. CASE x.done /\ m.type = "reply" /\ m.cmd = c /\ m.checksum = x.d.hs
    <3>1. c \in Range0(Q) /\ c \in delivered'[0]
      BY <1>2, <2>3 DEF LeaderOutcome
    <3>2. \E k \in 1 .. Len(Q) : IsHashOf(Q, c, k, x.d.hs)
      BY <3>1 DEF LeaderOutcome
    <3> QED
      BY <1>7, <2>3, <3>1, <3>2 DEF ClientMsgState
  <2> QED
    BY <1>2, <2>1, <2>2, <2>3
<1> QED
  BY <1>4, <1>5, <1>6, <1>7 DEF LeaderResult

\* What a step of the leader keeps.
LeaderKeeps(P, Q, c) ==
  /\ Grown(P, Q, c) /\ LeaderResult(Q)
  /\ hlog'[0] = [synced |-> -1, syncedHash |-> <<>>, pending |-> Q, pendingUpd |-> {}]
  /\ proposes'[0] = Range0(Q) /\ reproposed'[0] = {} /\ seqnum'[0] = Len(Q)
  /\ lastCmd'[0] = LastOf(Q) /\ lastWrite'[0] = LastWriteOf(Q)
  /\ \A m \in acks' \ acks : AckMsgState(Q, m)'
  /\ \A q \in Replicas \ {0} : ballot[q] = 0 => HashState(Q, q)'

LEMMA LeaderAssembles ==
  ASSUME TypeOK, NEW P, FirstBallot(P), ballot[0] = 0, ballot' = ballot, Alone(0),
         NEW c, NEW Q, LeaderKeeps(P, Q, c)
  PROVE  FirstBallot(Q)'
<1>1. /\ 0 \in Replicas /\ \A m \in acks : AckMsgState(P, m)
      /\ \A q \in Replicas \ {0} : ballot[q] = 0 => FollowerState(P, q)
  BY LeaderFacts
<1>2. /\ Q \in Seq(Commands) /\ NoRepeats(Q)
      /\ \A b, k, hs : k \in 1 .. Len(P) /\ IsHashOf(P, b, k, hs) => k \in 1 .. Len(Q) /\ IsHashOf(Q, b, k, hs)
      /\ \A b, dep : GivenDep(P, b, dep) => GivenDep(Q, b, dep)
  BY DEF LeaderKeeps, Grown
<1>3. LeaderState(Q)'
  BY DEF LeaderKeeps, LeaderResult, LeaderState
<1>4. ASSUME NEW m \in acks' PROVE AckMsgState(Q, m)'
  <2>1. CASE m \in acks
    <3>1. AckMsgState(P, m)
      BY <1>1, <2>1
    <3> QED
      BY <1>2, <3>1 DEF AckMsgState
  <2>2. CASE m \notin acks
    BY <2>2 DEF LeaderKeeps
  <2> QED
    BY <2>1, <2>2
<1>5. ASSUME NEW m \in toClient' PROVE ClientMsgState(Q, m)'
  <2>1. CASE m.from = 0
    BY <2>1 DEF LeaderKeeps, LeaderResult
  <2>2. CASE m.from # 0
    <3>1. m \in toClient
      BY <2>2 DEF Alone, OwnMessages
    <3>2. ClientMsgState(P, m)'
      BY <1>1, <2>2, <3>1, OthersKeep
    <3>3. Grown(P, Q, c)
      BY DEF LeaderKeeps
    <3> QED
      BY <3>2, <3>3, ClientMsgGrows
  <2> QED
    BY <2>1, <2>2
<1>6. ASSUME NEW q \in Replicas \ {0}, ballot'[q] = 0 PROVE FollowerState(Q, q)'
  <2>1. /\ reproposed'[q] = reproposed[q] /\ cmdDescs'[q] = cmdDescs[q] /\ delivered'[q] = delivered[q]
        /\ ballot[q] = 0 /\ FollowerState(P, q)
    BY <1>1, <1>6 DEF Alone
  <2>2. reproposed'[q] = {} /\ \A b \in Commands : FollowerDesc(Q, q, b, cmdDescs[q][b])'
    BY <1>2, <2>1 DEF FollowerState, FollowerDesc
  <2>3. HashState(Q, q)'
    BY <2>1 DEF LeaderKeeps
  <2> QED
    BY <2>2, <2>3 DEF FollowerState
<1> QED
  BY <1>2, <1>3, <1>4, <1>5, <1>6 DEF FirstBallot, NoRepeats, AckState, ClientState

\* The descriptor of a command that has not been delivered.
LEMMA OpenedLeader ==
  ASSUME NEW P, NEW c \in Commands, c \notin delivered[0], NEW d \in CommandDesc, LeaderDesc(P, c, d)
  PROVE  LET e == Opened(d, TRUE) IN e \in CommandDesc /\ e.open /\ e.seq /\ LeaderDesc(P, c, e)
<1>1. CASE d.open
  BY <1>1 DEF Opened, LeaderDesc
<1>2. CASE ~d.open
  <2>1. d = Closed
    BY <1>2 DEF LeaderDesc
  <2>2. c \notin Range0(P)
    BY <2>1 DEF LeaderDesc, Closed
  <2>3. Opened(d, TRUE) \in CommandDesc
    BY DescTypes
  <2>4. Opened(d, TRUE) = [Closed EXCEPT !.open = TRUE, !.seq = TRUE]
    BY <1>2 DEF Opened
  <2> DEFINE e == Opened(d, TRUE)
  <2>5. /\ e.open /\ e.seq /\ e.propose = "none" /\ e.afterPropagate = None /\ e.successors = {}
        /\ e.proposeDep = Nil /\ e.dep = Nil
    BY <2>4 DEF Closed
  <2> HIDE DEF e
  <2>6. LeaderDesc(P, c, e)
    BY <2>2, <2>5 DEF LeaderDesc
  <2> QED
    BY <2>3, <2>5, <2>6 DEF e
<1> QED
  BY <1>1, <1>2

\* Its handlers, once the command has its dependencies.
LEMMA LeaderHandles ==
  ASSUME NEW P \in Seq(Commands), NEW c \in Commands, c \notin delivered[0],
         NEW d \in CommandDesc, LeaderDesc(P, c, d), d.open, NEW x \in Outcome, Framed(0, c, Handled(d), x)
  PROVE  LeaderOutcome(P, P, c, x)
<1>1. /\ d.seq /\ d.propose # "sent" /\ d.afterPropagate = None /\ d.successors \subseteq Range0(P)
      /\ c \notin Range0(P) => d.propose = "none" /\ d.proposeDep = Nil /\ d.dep = Nil
      /\ c \in Range0(P) =>
           d.propose = "set" /\ \E k \in 1 .. Len(P) : IsHashOf(P, c, k, d.hs) /\ d.dep = DepIn(d.hs)
  BY DEF LeaderDesc
<1>2. Handled(d).d = d /\ Handled(d).waitsFor = {} /\ ~Handled(d).done
  BY DEF Handled
<1>3. /\ x.d.open /\ x.d.seq /\ x.d.propose = d.propose /\ x.d.proposeDep = d.proposeDep /\ x.d.hs = d.hs
      /\ x.d.afterPropagate = d.afterPropagate /\ x.d.successors = d.successors /\ x.d.dep = d.dep
      /\ x.waitsFor \subseteq Deps(d.dep) /\ (x.done => d.propose = "set")
  BY <1>1, <1>2 DEF Framed, Same
<1>4. CASE c \notin Range0(P)
  <2>1. Deps(d.dep) = {} /\ ~x.done
    BY <1>1, <1>3, <1>4 DEF Deps
  <2> QED
    BY <1>1, <1>3, <1>4, <2>1 DEF LeaderOutcome
<1>5. CASE c \in Range0(P)
  <2>1. PICK k \in 1 .. Len(P) : IsHashOf(P, c, k, d.hs) /\ d.dep = DepIn(d.hs)
    BY <1>1, <1>5
  <2>2. d.dep \subseteq Range0(P) /\ d.dep \in SUBSET Commands
    BY <2>1, PrefixFacts DEF IsHashOf
  <2>3. Deps(d.dep) = d.dep
    BY <2>2, NilAssumption DEF Deps
  <2> QED
    BY <1>1, <1>3, <1>5, <2>2, <2>3 DEF LeaderOutcome
<1> QED
  BY <1>4, <1>5

\* A step that leaves the run loop alone.
LEMMA LeaderRests ==
  ASSUME NEW P, FirstBallot(P), ballot[0] = 0, NEW c \in Commands, LeaderResult(P), Alone(0),
         UNCHANGED <<runVars, hashVars, seqnum>>, acks' \subseteq acks
  PROVE  LeaderKeeps(P, P, c)
<1>1. /\ P \in Seq(Commands) /\ NoRepeats(P) /\ 0 \in Replicas
      /\ hlog[0] = [synced |-> -1, syncedHash |-> <<>>, pending |-> P, pendingUpd |-> {}]
      /\ proposes[0] = Range0(P) /\ reproposed[0] = {} /\ seqnum[0] = Len(P)
      /\ lastCmd[0] = LastOf(P) /\ lastWrite[0] = LastWriteOf(P)
      /\ \A q \in Replicas \ {0} : ballot[q] = 0 => FollowerState(P, q)
  BY LeaderFacts
<1>2. Grown(P, P, c)
  BY <1>1, GrownFacts
<1>3. ASSUME NEW q \in Replicas \ {0}, ballot[q] = 0 PROVE HashState(P, q)'
  <2>1. HashState(P, q)
    BY <1>1, <1>3 DEF FollowerState
  <2>2. \A m \in acks \ acks' : m.to = 0
    BY DEF Alone
  <2>3. \A b : Comes(q, b)' <=> Comes(q, b)
    BY <1>3, <2>2 DEF Comes
  <2>4. hlog'[q] = hlog[q] /\ pendingHashUpds'[q] = pendingHashUpds[q] /\ proposes'[q] = proposes[q]
    BY DEF runVars, hashVars
  <2> QED
    BY <2>1, <2>3, <2>4, HashStays
<1>4. \A m \in acks' \ acks : AckMsgState(P, m)'
  OBVIOUS
<1> QED
  BY <1>1, <1>2, <1>3, <1>4 DEF LeaderKeeps, runVars, hashVars

\* The handlers of an ack of another replica.
LEMMA LeaderReceives ==
  ASSUME TypeOK, NEW P, FirstBallot(P), ballot[0] = 0, NEW m \in acks, ReceiveAck(0, m)
  PROVE  LeaderKeeps(P, P, m.cmd)
<1> DEFINE d == Opened(cmdDescs[0][m.cmd], TRUE)
           x == CommonCaseFastAck(0, ballot[0], m.cmd, Handled(d), m.from, m.dep)
<1>1. /\ 0 \in Replicas /\ LeaderOf(0) = 0 /\ P \in Seq(Commands) /\ NoRepeats(P)
      /\ \A c \in Commands : LeaderDesc(P, c, cmdDescs[0][c])
      /\ AckMsgState(P, m)
  BY LeaderFacts
<1>2. m.cmd \in Commands /\ m.from \in Replicas /\ m.dep \in Dep /\ ballot[0] \in Ballots
  BY <1>1 DEF TypeOK, FastAck
<1>3. MayReceive(0, m) /\ m.to = 0
  BY DEF ReceiveAck, MayReceive
<1>4. m.from # 0 /\ m.cmd \notin delivered[0]
  BY <1>1, <1>3 DEF AckMsgState, MayReceive
<1>5. d \in CommandDesc /\ d.open /\ d.seq /\ LeaderDesc(P, m.cmd, d)
  <2>1. cmdDescs[0][m.cmd] \in CommandDesc
    BY <1>1, <1>2 DEF TypeOK
  <2> QED
    BY <1>1, <1>2, <1>4, <2>1, OpenedLeader
<1>6. /\ UNCHANGED <<ballotVars, runVars, seqnum>> /\ UNCHANGED <<hashVars, stopped>>
      /\ HandleAck(0, m, d) \/ Settle(0, m.cmd, Handled(d), {}, {m}, {}, {})
  <2>1. (0 = LeaderOf(0)) = TRUE /\ m.from # LeaderOf(0)
    BY <1>1, <1>4
  <2> QED
    BY <1>4, <2>1 DEF ReceiveAck
<1> HIDE DEF d
<1>7. Handled(d) \in Outcome /\ Framed(0, m.cmd, Handled(d), Handled(d))
  <2>1. Handled(d) \in Outcome
    BY <1>5, DescTypes
  <2> QED
    BY <2>1 DEF Framed, Same
<1>8. x \in Outcome /\ Framed(0, m.cmd, Handled(d), x)
  BY <1>1, <1>2, <1>7, HandlerTypes, CommonCaseFrame
<1>9. Settle(0, m.cmd, x, {}, {m}, {}, {}) \/ Settle(0, m.cmd, Handled(d), {}, {m}, {}, {})
  BY <1>1, <1>4, <1>6 DEF HandleAck
<1> HIDE DEF x
<1>10. PICK y \in Outcome : Framed(0, m.cmd, Handled(d), y) /\ Settle(0, m.cmd, y, {}, {m}, {}, {})
  BY <1>7, <1>8, <1>9
<1>11. Settled(0, m.cmd, y, {m}, {}, {})
  BY <1>1, <1>2, <1>10, SettleEffect
<1>12. LeaderOutcome(P, P, m.cmd, y)
  BY <1>1, <1>2, <1>4, <1>5, <1>10, LeaderHandles
<1>13. Grown(P, P, m.cmd) /\ ballot' = ballot
  BY <1>1, <1>2, <1>6, GrownFacts DEF ballotVars
<1>14. LeaderResult(P)
  BY <1>2, <1>11, <1>12, <1>13, LeaderSettles
<1>15. Alone(0)
  BY <1>1, ReceiveAckAlone
<1>16. acks' \subseteq acks
  BY <1>11 DEF Settled
<1> QED
  BY <1>2, <1>6, <1>14, <1>15, <1>16, LeaderRests

LEMMA LeaderDelivers ==
  ASSUME TypeOK, NEW P, FirstBallot(P), ballot[0] = 0, NEW w \in deliverChan[0], Deliver(0, w), Alone(0)
  PROVE  LeaderKeeps(P, P, w[2])
<1> DEFINE c == w[2]
           d == Opened(cmdDescs[0][c], FALSE)
           x == [Handled(d) EXCEPT !.done = MayDeliver(0, ballot[0], c, d)]
<1>1. /\ 0 \in Replicas /\ LeaderOf(0) = 0 /\ P \in Seq(Commands) /\ NoRepeats(P)
      /\ executing[0] = {} /\ replying[0] = {}
      /\ \A v \in deliverChan[0] : v[2] \in Range0(P)
      /\ \A b \in Commands : LeaderDesc(P, b, cmdDescs[0][b])
      /\ \A m \in toClient : ClientMsgState(P, m)
  BY LeaderFacts
<1>2. c \in Commands /\ c \in Range0(P)
  BY <1>1 DEF TypeOK
<1>3. /\ UNCHANGED <<ballotVars, runVars, hashVars, seqnum>>
      /\ IF c \in delivered[0]
         THEN /\ deliverChan' = [deliverChan EXCEPT ![0] = @ \ {w}]
              /\ UNCHANGED <<cmdDescs, delivered, executing, replying, log, acks, toClient>>
         ELSE Settle(0, c, x, {w}, {}, {}, {})
  BY DEF Deliver
<1>4. Grown(P, P, c) /\ ballot' = ballot
  BY <1>1, <1>2, <1>3, GrownFacts DEF ballotVars
<1>5. CASE c \in delivered[0]
  <2>1. /\ deliverChan'[0] = deliverChan[0] \ {w}
        /\ UNCHANGED <<cmdDescs, delivered, executing, replying, acks, toClient>>
    BY <1>1, <1>3, <1>5 DEF TypeOK
  <2> HIDE DEF c
  <2>2. \A b \in Commands : LeaderDesc(P, b, cmdDescs[0][b])'
    BY <1>1, <2>1 DEF LeaderDesc
  <2>3. \A m \in toClient' : ClientMsgState(P, m)'
    BY <1>1, <1>4, <2>1 DEF ClientMsgState, Holds
  <2>4. LeaderResult(P)
    BY <1>1, <2>1, <2>2, <2>3 DEF LeaderResult
  <2> QED
    BY <1>2, <1>3, <2>1, <2>4, LeaderRests DEF c
<1>6. CASE c \notin delivered[0]
  <2>1. cmdDescs[0][c] \in CommandDesc /\ LeaderDesc(P, c, cmdDescs[0][c])
    BY <1>1, <1>2 DEF TypeOK
  <2>2. cmdDescs[0][c].open
    <3> HIDE DEF c
    <3> QED
      BY <1>2, <1>6, <2>1 DEF LeaderDesc, Closed
  <2>3. d = cmdDescs[0][c]
    BY <2>2 DEF Opened
  <2> HIDE DEF d
  <2>4. Handled(d) \in Outcome
    BY <2>1, <2>3, DescTypes
  <2>5. x \in Outcome /\ x.d = d /\ x.waitsFor = {} /\ (x.done => d.propose = "set" /\ c \notin delivered[0])
    BY <2>4 DEF Outcome, MayDeliver, Handled
  <2>6. Settle(0, c, x, {w}, {}, {}, {})
    BY <1>3, <1>6
  <2> HIDE DEF x, c
  <2>7. Framed(0, c, Handled(d), x)
    BY <2>5 DEF Framed, Same, Handled
  <2>8. LeaderOutcome(P, P, c, x)
    BY <1>1, <1>2, <1>6, <2>1, <2>2, <2>3, <2>5, <2>7, LeaderHandles
  <2>9. Settled(0, c, x, {}, {}, {})
    BY <1>1, <1>2, <2>5, <2>6, SettleEffect
  <2>10. LeaderResult(P)
    BY <1>2, <1>4, <2>5, <2>8, <2>9, LeaderSettles
  <2>11. acks' \subseteq acks
    BY <2>9 DEF Settled
  <2> QED
    BY <1>2, <1>3, <2>10, <2>11, LeaderRests DEF c
<1> QED
  BY <1>5, <1>6

\* The last command of Q, its hash and its dependencies.
LEMMA AppendedFacts ==
  ASSUME NEW P \in Seq(Commands), NEW c \in Commands
  PROVE  LET Q == Append(P, c)
         IN  /\ Len(P) \in Nat /\ Q \in Seq(Commands) /\ Len(Q) = Len(P) + 1
             /\ Len(Q) \in 1 .. Len(Q) /\ c \in Range0(Q) /\ IsHashOf(Q, c, Len(Q), Q)
             /\ DepIn(Q) \in SUBSET Commands /\ Deps(DepIn(Q)) = DepIn(Q) /\ DepIn(Q) \subseteq Range0(P)
             /\ DepIn(Q) \in Dep
<1> DEFINE Q == Append(P, c)
<1>1. /\ Q \in Seq(Commands) /\ Len(Q) = Len(P) + 1 /\ Q[Len(Q)] = c
      /\ Range0(Q) = Range0(P) \cup {c} /\ Len(P) \in Nat
  BY LastOfAppend
<1>2. SubSeq(Q, 1, Len(P) + 1) = Q
  BY PrefixStays
<1>3. DepIn(Q) = IF c \in Reads THEN LastWriteOf(P) ELSE LastOf(P)
  BY DepInAppend
<1> HIDE DEF Q
<1>4. LastWriteOf(P) \subseteq Range0(P) /\ LastOf(P) \subseteq Range0(P)
  BY DEF LastWriteOf, LastOf, Range0
<1>5. Range0(P) \subseteq Commands
  BY DEF Range0
<1>6. DepIn(Q) \subseteq Range0(P) /\ DepIn(Q) \in SUBSET Commands
  BY <1>3, <1>4, <1>5
<1>7. Deps(DepIn(Q)) = DepIn(Q) /\ DepIn(Q) \in Dep
  BY <1>6, NilAssumption DEF Deps, Dep
<1>8. Len(Q) \in 1 .. Len(Q)
  BY <1>1
<1>9. IsHashOf(Q, c, Len(Q), Q)
  BY <1>1, <1>2 DEF IsHashOf
<1> QED
  BY <1>1, <1>6, <1>7, <1>8, <1>9 DEF Q

\* The run loop of the leader registers a command.
LEMMA LeaderRegisters ==
  ASSUME TypeOK, NEW P, FirstBallot(P), ballot[0] = 0, NEW c \in Commands, Propose(0, c)
  PROVE  LET Q == Append(P, c)
         IN  /\ c \notin Range0(P) /\ c \notin delivered[0] /\ ballot' = ballot
             /\ hlog'[0] = [synced |-> -1, syncedHash |-> <<>>, pending |-> Q, pendingUpd |-> {}]
             /\ proposes'[0] = Range0(Q) /\ reproposed'[0] = {}
             /\ lastCmd'[0] = LastOf(Q) /\ lastWrite'[0] = LastWriteOf(Q)
             /\ \A q \in Replicas \ {0} : /\ hlog'[q] = hlog[q] /\ proposes'[q] = proposes[q]
                                          /\ pendingHashUpds'[q] = pendingHashUpds[q]
             /\ \E e \in CommandDesc :
                  /\ e.open /\ e.seq /\ e.afterPropagate = None /\ e.successors \subseteq Range0(P)
                  /\ e.proposeDep = DepIn(Q) /\ e.hs = Q
                  /\ TakesPropose(0, c, e)
<1> DEFINE Q == Append(P, c)
           d == Opened(cmdDescs[0][c], TRUE)
           a == HashLogAppend(hlog[0], c)
           U == {u \in pendingHashUpds[0] : u.cmd = c /\ 0 # LeaderOf(0)}
           e == [d EXCEPT !.proposeDep = DepOf(0, c), !.hs = a.hash]
<1>1. /\ 0 \in Replicas /\ LeaderOf(0) = 0 /\ P \in Seq(Commands)
      /\ hlog[0] = [synced |-> -1, syncedHash |-> <<>>, pending |-> P, pendingUpd |-> {}]
      /\ proposes[0] = Range0(P) /\ reproposed[0] = {}
      /\ lastCmd[0] = LastOf(P) /\ lastWrite[0] = LastWriteOf(P)
      /\ \A b \in Commands : LeaderDesc(P, b, cmdDescs[0][b])
  BY LeaderFacts
<1>2. /\ Range0(Q) = Range0(P) \cup {c} /\ LastOf(Q) = {c}
      /\ LastWriteOf(Q) = IF c \in Reads THEN LastWriteOf(P) ELSE {c}
  BY <1>1, LastOfAppend
<1>3. DepOf(0, c) = DepIn(Q)
  BY <1>1, DepInAppend DEF DepOf
<1>4. Registers(0, c, d)
  <2>1. (0 = LeaderOf(0)) = TRUE
    BY <1>1
  <2> QED
    BY <2>1 DEF Propose
<1>5. c \notin Range0(P) /\ c \notin delivered[0]
  BY <1>1, <1>4 DEF Registers, MayRegister
<1>6. d \in CommandDesc /\ d.open /\ d.seq /\ LeaderDesc(P, c, d)
  <2>1. cmdDescs[0][c] \in CommandDesc
    BY <1>1 DEF TypeOK
  <2> QED
    BY <1>1, <1>5, <2>1, OpenedLeader
<1> HIDE DEF d
<1>7. d.propose = "none" /\ d.proposeDep = Nil /\ d.afterPropagate = None /\ d.successors \subseteq Range0(P)
  BY <1>5, <1>6 DEF LeaderDesc
<1>8. a = [log |-> [synced |-> -1, syncedHash |-> <<>>, pending |-> Q, pendingUpd |-> {}], hash |-> Q]
  <2>1. {u \in hlog[0].pendingUpd : u.cmd = c} = {}
    BY <1>1
  <2>2. a = [log |-> [hlog[0] EXCEPT !.pending = Append(@, c)], hash |-> Append(LogHash(hlog[0]), c)]
    BY <2>1 DEF HashLogAppend
  <2>3. LogHash(hlog[0]) = P
    BY <1>1 DEF LogHash
  <2>4. [hlog[0] EXCEPT !.pending = Append(@, c)]
        = [synced |-> -1, syncedHash |-> <<>>, pending |-> Q, pendingUpd |-> {}]
    <3> DEFINE h == hlog[0]
               g == [h EXCEPT !.pending = Append(@, c)]
    <3>1. h \in HashLog /\ h.synced = -1 /\ h.syncedHash = <<>> /\ h.pending = P /\ h.pendingUpd = {}
      <4>1. h \in HashLog
        BY <1>1 DEF TypeOK
      <4>2. h.synced = -1
        BY <1>1
      <4>3. h.syncedHash = <<>>
        BY <1>1
      <4>4. h.pending = P
        BY <1>1
      <4>5. h.pendingUpd = {}
        BY <1>1
      <4> QED
        BY <4>1, <4>2, <4>3, <4>4, <4>5
    <3> HIDE DEF h
    <3>2. g \in HashLog /\ g.synced = -1 /\ g.syncedHash = <<>> /\ g.pending = Q /\ g.pendingUpd = {}
      <4>1. Q \in Seq(Commands) /\ g = [h EXCEPT !.pending = Q]
        BY <1>1, <3>1
      <4>2. g.synced = h.synced /\ g.syncedHash = h.syncedHash /\ g.pendingUpd = h.pendingUpd
        BY <3>1 DEF HashLog
      <4>3. g.pending = Q
        BY <3>1 DEF HashLog
      <4>4. g \in HashLog
        BY <3>1, <4>1 DEF HashLog
      <4> QED
        BY <3>1, <4>2, <4>3, <4>4
    <3> HIDE DEF g, Q
    <3>3. g = [synced |-> -1, syncedHash |-> <<>>, pending |-> Q, pendingUpd |-> {}]
      BY <3>2 DEF HashLog
    <3> QED
      BY <3>3 DEF g, h
  <2> QED
    BY <2>2, <2>3, <2>4
<1> HIDE DEF a
<1>9. U = {}
  BY <1>1
<1>10. /\ reproposed' = [reproposed EXCEPT ![0] = @ \ {c}]
       /\ proposes' = [proposes EXCEPT ![0] = @ \cup {c}]
       /\ lastCmd' = [lastCmd EXCEPT ![0] = {c}]
       /\ lastWrite' = [lastWrite EXCEPT ![0] = IF c \in Reads THEN @ ELSE {c}]
       /\ hlog' = [hlog EXCEPT ![0] = a.log] /\ pendingHashUpds' = pendingHashUpds
       /\ TakesPropose(0, c, e) /\ ballot' = ballot
  BY <1>4, <1>6, <1>7, <1>9 DEF Registers, a, ballotVars
<1>11. e \in CommandDesc
  BY <1>1, <1>6, RegisteredDesc DEF a
<1>12. /\ e.open /\ e.seq /\ e.afterPropagate = None /\ e.successors \subseteq Range0(P)
       /\ e.proposeDep = DepIn(Q) /\ e.hs = Q
  <2>1. a.hash = Q
    BY <1>8
  <2> QED
    BY <1>3, <1>6, <1>7, <2>1 DEF CommandDesc
<1> HIDE DEF e, U, Q
<1>13. /\ hlog'[0] = a.log /\ proposes'[0] = Range0(P) \cup {c} /\ reproposed'[0] = {}
       /\ lastCmd'[0] = {c} /\ lastWrite'[0] = IF c \in Reads THEN LastWriteOf(P) ELSE {c}
  BY <1>1, <1>10 DEF TypeOK
<1>14. \A q \in Replicas \ {0} : /\ hlog'[q] = hlog[q] /\ proposes'[q] = proposes[q]
                                 /\ pendingHashUpds'[q] = pendingHashUpds[q]
  BY <1>10 DEF TypeOK
<1>15. hlog'[0] = [synced |-> -1, syncedHash |-> <<>>, pending |-> Q, pendingUpd |-> {}]
  BY <1>8, <1>13
<1> QED
  BY <1>2, <1>5, <1>10, <1>11, <1>12, <1>13, <1>14, <1>15 DEF Q

\* It sends its FastAck and handles it.
LEMMA LeaderSends ==
  ASSUME TypeOK, NEW P, FirstBallot(P), ballot[0] = 0, NEW c \in Commands, NEW e \in CommandDesc,
         e.open, e.seq, e.afterPropagate = None, e.successors \subseteq Range0(P),
         e.proposeDep = DepIn(Append(P, c)), e.hs = Append(P, c), TakesPropose(0, c, e)
  PROVE  LET Q == Append(P, c)
         IN  /\ seqnum'[0] = Len(Q)
             /\ \E x \in Outcome : \E cm :
                  /\ Settled(0, c, x, {}, AcksOf(0, c, DepIn(Q), Q, Len(P)), cm)
                  /\ LeaderOutcome(P, Q, c, x)
                  /\ \A m \in cm : m.type = "fastAck"
<1> DEFINE Q == Append(P, c)
           f == [e EXCEPT !.propose = "set", !.noop = FALSE]
           g == [f EXCEPT !.dep = e.proposeDep, !.phase = "PRE_ACCEPT"]
           y == [Handled(g) EXCEPT !.done = Speculates(0, c) /\ MayDeliver(0, ballot[0], c, g)]
           x == FastAckFromLeader(0, ballot[0], c, y, g.dep)
           sent == AcksOf(0, c, DepIn(Q), Q, Len(P))
           cm == IF Speculates(0, c) THEN {} ELSE ClientMsg("fastAck", 0, c, g.hs, Nil)
<1>1. /\ 0 \in Replicas /\ LeaderOf(0) = 0 /\ P \in Seq(Commands) /\ seqnum[0] = Len(P)
      /\ ballot[0] \in Ballots
  BY LeaderFacts DEF TypeOK
<1>2. /\ Len(P) \in Nat /\ Q \in Seq(Commands) /\ Len(Q) = Len(P) + 1
      /\ Len(Q) \in 1 .. Len(Q) /\ c \in Range0(Q) /\ IsHashOf(Q, c, Len(Q), Q)
      /\ DepIn(Q) \in SUBSET Commands /\ Deps(DepIn(Q)) = DepIn(Q) /\ DepIn(Q) \subseteq Range0(P)
      /\ DepIn(Q) \in Dep
  BY <1>1, AppendedFacts
<1>3. Range0(Q) = Range0(P) \cup {c}
  BY <1>1, LastOfAppend
<1> HIDE DEF Q
<1>4. e.proposeDep = DepIn(Q) /\ e.hs = Q
  BY DEF Q
<1>5. /\ g \in CommandDesc /\ g.open /\ g.seq /\ g.afterPropagate = None /\ g.successors = e.successors
      /\ g.propose = "set" /\ g.dep = DepIn(Q) /\ g.hs = Q
  BY <1>2, <1>4 DEF CommandDesc, Phase
<1>6. SendsFastAck(0, c, g)
  <2>1. 0 \in FQ[ballot[0]]
    BY LeaderInFastQuorum
  <2> QED
    BY <1>4, <1>5, <2>1 DEF TakesPropose
<1> HIDE DEF g
<1>7. /\ seqnum' = [seqnum EXCEPT ![0] = @ + 1]
      /\ Settle(0, c, x, {}, {}, sent, cm)
  BY <1>1, <1>5, <1>6 DEF SendsFastAck
<1>8. seqnum'[0] = Len(Q)
  BY <1>1, <1>2, <1>7 DEF TypeOK
<1>9. y \in Outcome /\ y.d = g /\ y.waitsFor = {}
  <2>1. Handled(g) \in Outcome /\ Handled(g).d = g /\ Handled(g).waitsFor = {}
    BY <1>5, DescTypes DEF Handled
  <2> QED
    BY <2>1 DEF Outcome
<1> HIDE DEF y
<1>10. x \in Outcome /\ FramedFromLeader(0, ballot[0], c, y, x, g.dep)
  BY <1>1, <1>2, <1>5, <1>9, HandlerTypes, FromLeaderFrame
<1> HIDE DEF x
<1>11. \A m \in cm : m.type = "fastAck"
  BY DEF ClientMsg, ClientMsgIn
<1> HIDE DEF cm, sent
<1>12. Settled(0, c, x, {}, sent, cm)
  BY <1>1, <1>7, <1>10, SettleEffect
<1>13. LeaderOutcome(P, Q, c, x)
  <2>1. /\ x.d.open = g.open /\ x.d.seq = g.seq /\ x.d.propose = g.propose /\ x.d.hs = g.hs
        /\ x.d.afterPropagate = g.afterPropagate /\ x.d.successors = g.successors /\ x.d.dep = g.dep
        /\ x.waitsFor \subseteq Deps(g.dep)
    <3>1. 0 = Leader(ballot[0])
      BY <1>1 DEF LeaderOf
    <3> QED
      BY <1>9, <1>10, <3>1 DEF FramedFromLeader, Same
  <2>2. x.waitsFor \subseteq Range0(P) /\ x.d.successors \subseteq Range0(Q)
    BY <1>2, <1>3, <1>5, <2>1
  <2>3. \E k \in 1 .. Len(Q) : IsHashOf(Q, c, k, x.d.hs) /\ x.d.dep = DepIn(x.d.hs)
    BY <1>2, <1>5, <2>1
  <2> QED
    BY <1>2, <1>5, <2>1, <2>2, <2>3 DEF LeaderOutcome
<1> QED
  BY <1>8, <1>10, <1>11, <1>12, <1>13 DEF Q, sent

\* Its FastAck is on the way to every follower.
LEMMA LeaderAcks ==
  ASSUME TypeOK, NEW P, FirstBallot(P), ballot[0] = 0, ballot' = ballot, NEW c \in Commands,
         NEW x, NEW cm, NEW hs, NEW dep, NEW s,
         Settled(0, c, x, {}, AcksOf(0, c, dep, hs, s), cm), Alone(0)
  PROVE  /\ \A m \in acks' \ acks : /\ m.to # m.from /\ m.from = 0 /\ m.ballot = 0 /\ m.cmd = c
                                    /\ m.checksum = hs /\ m.dep = dep /\ m.seqnum = s
         /\ \A q \in Replicas \ {0} : ballot[q] = 0 =>
              \A b \in Commands : Comes(q, b)' <=> Comes(q, b) \/ b = c
<1> DEFINE sent == AcksOf(0, c, dep, hs, s)
<1>1. 0 \in Replicas /\ LeaderOf(0) = 0
  BY LeaderFacts
<1>2. sent \subseteq acks' /\ acks' \subseteq acks \cup sent /\ \A m \in acks \ acks' : m.to = 0
  BY DEF Settled, Alone
<1>3. \A m \in sent : /\ m.to # m.from /\ m.from = 0 /\ m.ballot = 0 /\ m.cmd = c
                      /\ m.checksum = hs /\ m.dep = dep /\ m.seqnum = s
  BY DEF AcksOf, AcksTo
<1>4. ASSUME NEW q \in Replicas \ {0}, ballot[q] = 0
      PROVE  \E m \in sent : m.from = 0 /\ m.to = q /\ m.cmd = c
  <2>1. ~IsMoot(q, 0, c)
    BY <1>4, LeaderIsReplica DEF IsMoot, LeaderOf
  <2> DEFINE n == [to |-> q, from |-> 0, ballot |-> ballot[0], cmd |-> c, dep |-> dep,
                   checksum |-> hs, seqnum |-> s]
  <2>2. n \in sent
    BY <2>1 DEF AcksOf, AcksTo
  <2>3. n.from = 0 /\ n.to = q /\ n.cmd = c
    OBVIOUS
  <2> HIDE DEF n, sent
  <2> QED
    BY <2>2, <2>3
<1> HIDE DEF sent
<1>5. ASSUME NEW q \in Replicas \ {0}, ballot[q] = 0, NEW b \in Commands
      PROVE  Comes(q, b)' <=> Comes(q, b) \/ b = c
  BY <1>2, <1>3, <1>4, <1>5 DEF Comes
<1> QED
  BY <1>2, <1>3, <1>5

LEMMA LeaderProposes ==
  ASSUME TypeOK, NEW P, FirstBallot(P), ballot[0] = 0, NEW c \in Commands, Propose(0, c), Alone(0)
  PROVE  LeaderKeeps(P, Append(P, c), c)
<1> DEFINE Q == Append(P, c)
<1>1. /\ P \in Seq(Commands) /\ NoRepeats(P) /\ 0 \in Replicas
      /\ \A q \in Replicas \ {0} : ballot[q] = 0 => FollowerState(P, q)
  BY LeaderFacts
<1>2. /\ c \notin Range0(P) /\ c \notin delivered[0] /\ ballot' = ballot
      /\ hlog'[0] = [synced |-> -1, syncedHash |-> <<>>, pending |-> Q, pendingUpd |-> {}]
      /\ proposes'[0] = Range0(Q) /\ reproposed'[0] = {}
      /\ lastCmd'[0] = LastOf(Q) /\ lastWrite'[0] = LastWriteOf(Q)
      /\ \A q \in Replicas \ {0} : /\ hlog'[q] = hlog[q] /\ proposes'[q] = proposes[q]
                                   /\ pendingHashUpds'[q] = pendingHashUpds[q]
  BY LeaderRegisters
<1>3. PICK e \in CommandDesc :
        /\ e.open /\ e.seq /\ e.afterPropagate = None /\ e.successors \subseteq Range0(P)
        /\ e.proposeDep = DepIn(Q) /\ e.hs = Q
        /\ TakesPropose(0, c, e)
  BY LeaderRegisters
<1>4. /\ seqnum'[0] = Len(Q)
      /\ \E x \in Outcome : \E cm :
           /\ Settled(0, c, x, {}, AcksOf(0, c, DepIn(Q), Q, Len(P)), cm)
           /\ LeaderOutcome(P, Q, c, x)
           /\ \A m \in cm : m.type = "fastAck"
  BY <1>3, LeaderSends
<1>5. PICK x \in Outcome : \E cm :
           /\ Settled(0, c, x, {}, AcksOf(0, c, DepIn(Q), Q, Len(P)), cm)
           /\ LeaderOutcome(P, Q, c, x)
           /\ \A m \in cm : m.type = "fastAck"
  BY <1>4
<1>6. PICK cm :
           /\ Settled(0, c, x, {}, AcksOf(0, c, DepIn(Q), Q, Len(P)), cm)
           /\ LeaderOutcome(P, Q, c, x)
           /\ \A m \in cm : m.type = "fastAck"
  BY <1>5
<1>7. /\ Len(P) \in Nat /\ Q \in Seq(Commands) /\ Len(Q) = Len(P) + 1
      /\ Len(Q) \in 1 .. Len(Q) /\ IsHashOf(Q, c, Len(Q), Q)
  BY <1>1, AppendedFacts
<1>8. Grown(P, Q, c)
  BY <1>1, <1>2, GrownFacts
<1>9. /\ \A m \in acks' \ acks : /\ m.to # m.from /\ m.from = 0 /\ m.ballot = 0 /\ m.cmd = c
                                 /\ m.checksum = Q /\ m.dep = DepIn(Q) /\ m.seqnum = Len(P)
      /\ \A q \in Replicas \ {0} : ballot[q] = 0 =>
           \A b \in Commands : Comes(q, b)' <=> Comes(q, b) \/ b = c
  BY <1>2, <1>6, LeaderAcks
<1>10. ASSUME NEW q \in Replicas \ {0}, ballot[q] = 0 PROVE HashState(Q, q)'
  <2>1. ballot[0] = 0 /\ FollowerState(P, q)
    BY <1>1, <1>10
  <2>2. HashState(P, q)
    BY <2>1 DEF FollowerState
  <2> QED
    BY <1>1, <1>2, <1>9, <1>10, <2>2, HashGrows
<1> HIDE DEF Q
<1>11. LeaderResult(Q)
  BY <1>2, <1>6, <1>8, LeaderSettles
<1>12. ASSUME NEW m \in acks' \ acks PROVE AckMsgState(Q, m)'
  <2>1. IsHashOf(Q, m.cmd, Len(Q), m.checksum) /\ m.seqnum = Len(Q) - 1 /\ m.dep = DepIn(m.checksum)
    BY <1>7, <1>9, <1>12
  <2> QED
    BY <1>7, <1>9, <1>12, <2>1 DEF AckMsgState
<1> QED
  BY <1>2, <1>4, <1>8, <1>10, <1>11, <1>12 DEF LeaderKeeps, Q

\* A step of the leader keeps what the replicas have of the first ballot, for what it has
\* registered then.
LEMMA LeaderStep ==
  ASSUME TypeOK, NEW P, FirstBallot(P), ballot[0] = 0, ReplicaStep(0)
  PROVE  \E Q \in Seq(Commands) : FirstBallot(Q)'
<1>1. /\ 0 \in Replicas /\ LeaderOf(0) = 0 /\ reproposed[0] = {} /\ executing[0] = {} /\ replying[0] = {}
      /\ \A c \in Commands : LeaderDesc(P, c, cmdDescs[0][c])
  BY LeaderFacts
<1>2. Alone(0) /\ ballot' = ballot
  BY <1>1, StepAlone DEF ballotVars
<1>3. ASSUME NEW c \in Commands
      PROVE  ~ProposeDelivered(0, c) /\ ~HandlePropose(0, c) /\ ~Execute(0, c) /\ ~Reply(0, c)
  BY <1>1 DEF ProposeDelivered, HandlePropose, Execute, Reply, MayReply, LeaderDesc
<1>4. \E Q, c : LeaderKeeps(P, Q, c)
  <2>1. ASSUME NEW c \in Commands, Propose(0, c) PROVE LeaderKeeps(P, Append(P, c), c)
    BY <1>2, <2>1, LeaderProposes
  <2>2. ASSUME NEW m \in acks, ReceiveAck(0, m) PROVE LeaderKeeps(P, P, m.cmd)
    BY <2>2, LeaderReceives
  <2>3. ASSUME NEW w \in deliverChan[0], Deliver(0, w) PROVE LeaderKeeps(P, P, w[2])
    BY <1>2, <2>3, LeaderDelivers
  <2> QED
    BY <1>3, <2>1, <2>2, <2>3 DEF ReplicaStep
<1>5. PICK Q, c : LeaderKeeps(P, Q, c)
  BY <1>4
<1>6. FirstBallot(Q)' /\ Q \in Seq(Commands)
  BY <1>2, <1>5, LeaderAssembles DEF LeaderKeeps, Grown
<1> QED
  BY <1>6
-------------------------------------------------------------------------------
(***************************************************************************)
(* The first ballot, through every step.                                   *)
(***************************************************************************)
LEMMA InitFirstBallot == RecInit => FirstBallotInvariant
<1> SUFFICES ASSUME RecInit PROVE FirstBallotInvariant
  OBVIOUS
<1> DEFINE P == <<>>
<1>1. /\ P \in Seq(Commands) /\ Len(P) = 0 /\ 1 .. Len(P) = {} /\ 0 \in Replicas
  BY LeaderIsReplica
<1>2. Range0(P) = {} /\ LastOf(P) = {} /\ LastWriteOf(P) = {}
  BY <1>1 DEF Range0, LastOf, LastWriteOf
<1>3. acks = {} /\ toClient = {} /\ newLeaders = {} /\ syncs = {}
      /\ \A r \in Replicas : status[r] = "NORMAL"
  BY DEF RecInit, Init
<1>4. LaterBallots
  BY <1>3 DEF LaterBallots
<1>5. \A r \in Replicas :
        /\ proposes[r] = {} /\ reproposed[r] = {} /\ lastCmd[r] = {} /\ lastWrite[r] = {}
        /\ hlog[r] = [synced |-> -1, syncedHash |-> <<>>, pending |-> <<>>, pendingUpd |-> {}]
        /\ pendingHashUpds[r] = {} /\ seqnum[r] = 0 /\ executing[r] = {} /\ replying[r] = {}
        /\ deliverChan[r] = {} /\ \A c \in Commands : cmdDescs[r][c] = Closed
  BY DEF RecInit, Init
<1>6. ASSUME NEW c \in Commands, NEW r \in Replicas
      PROVE  LeaderDesc(P, c, Closed) /\ FollowerDesc(P, r, c, Closed)
  BY <1>2 DEF LeaderDesc, FollowerDesc, Closed
<1>7. LeaderState(P)
  BY <1>1, <1>2, <1>5, <1>6 DEF LeaderState
<1>8. ASSUME NEW r \in Replicas PROVE HashState(P, r)
  <2>1. hlog[r].pendingUpd = {} /\ hlog[r].pending = <<>> /\ hlog[r].synced = -1
    BY <1>5
  <2>2. hlog[r].syncedHash = <<>>
    BY <1>5
  <2>3. SubSeq(P, 1, -1 + 1) = <<>>
    OBVIOUS
  <2>4. -1 \in -1 .. Len(P) - 1 /\ Len(hlog[r].pending) = 0 /\ Range0(hlog[r].pending) = {}
    BY <1>1, <1>2, <2>1
  <2>5. \A c : ~Comes(r, c)
    BY <1>3 DEF Comes
  <2>6. hlog[r].synced \in -1 .. Len(P) - 1 /\ hlog[r].syncedHash = SubSeq(P, 1, hlog[r].synced + 1)
    BY <2>1, <2>2, <2>3, <2>4
  <2> HIDE DEF P
  <2>7. 1 .. Len(hlog[r].pending) = {}
    BY <2>4
  <2> QED
    BY <1>1, <1>5, <2>1, <2>4, <2>5, <2>6, <2>7 DEF HashState
<1>9. AckState(P) /\ ClientState(P)
  BY <1>3 DEF AckState, ClientState
<1>10. \A r \in Replicas \ {0} : FollowerState(P, r)
  BY <1>5, <1>6, <1>8 DEF FollowerState
<1> HIDE DEF P
<1>11. FirstBallot(P)
  BY <1>1, <1>7, <1>9, <1>10 DEF FirstBallot
<1> QED
  BY <1>1, <1>4, <1>11 DEF FirstBallotInvariant

LEMMA StepFirstBallot ==
  RecInvariant /\ FirstBallotInvariant /\ [RecNext]_allVars => FirstBallotInvariant'
<1> SUFFICES ASSUME RecInvariant, FirstBallotInvariant, [RecNext]_allVars PROVE FirstBallotInvariant'
  OBVIOUS
<1>1. TypeOK /\ MessagesTypeOK /\ LaterBallots
  BY RecParts DEF RecInvariant, FirstBallotInvariant
<1>2. PICK P \in Seq(Commands) : FirstBallot(P)
  BY DEF FirstBallotInvariant
<1>3. CASE UNCHANGED allVars
  <2>1. UNCHANGED <<ballot, status, proposes, reproposed, lastCmd, lastWrite, hlog, pendingHashUpds, seqnum,
                    cmdDescs, delivered, executing, replying, deliverChan, acks, toClient, newLeaders, syncs>>
    BY <1>3 DEF allVars, vars, recVars, ballotVars, runVars, hashVars, execVars
  <2>2. LaterBallots'
    BY <1>1, <2>1 DEF LaterBallots
  <2>3. LeaderState(P)'
    BY <1>2, <2>1 DEF FirstBallot, LeaderState, LeaderDesc
  <2>4. AckState(P)' /\ ClientState(P)'
    BY <1>2, <2>1 DEF FirstBallot, AckState, AckMsgState, ClientState, ClientMsgState, Holds
  <2>5. ASSUME NEW q \in Replicas \ {0}, ballot'[q] = 0 PROVE FollowerState(P, q)'
    <3>1. FollowerState(P, q)
      BY <1>2, <2>1, <2>5 DEF FirstBallot
    <3>2. ballot[0] = 0 => HashState(P, q)'
      BY <2>1, <3>1, HashStays DEF FollowerState, Comes
    <3> QED
      BY <2>1, <3>1, <3>2 DEF FollowerState, FollowerDesc
  <2>6. FirstBallot(P)'
    BY <1>2, <2>3, <2>4, <2>5 DEF FirstBallot
  <2> QED
    BY <2>2, <2>6 DEF FirstBallotInvariant
<1>4. ASSUME NEW r \in Replicas, CommonCase(r) PROVE FirstBallotInvariant'
  <2>1. ReplicaStep(r) /\ UNCHANGED recVars
    BY <1>4 DEF CommonCase
  <2>2. Alone(r) /\ UNCHANGED ballotVars
    BY <1>1, <2>1, StepAlone
  <2>3. LaterBallots'
    BY <1>1, <2>1, <2>2 DEF LaterBallots, recVars, ballotVars
  <2>4. CASE ballot[r] # 0
    BY <1>1, <1>2, <2>2, <2>3, <2>4, LaterKeeps DEF ballotVars, FirstBallotInvariant
  <2>5. CASE ballot[r] = 0 /\ r # 0
    BY <1>1, <1>2, <2>1, <2>3, <2>5, FollowerStep DEF FirstBallotInvariant, InFirstBallot
  <2>6. CASE ballot[r] = 0 /\ r = 0
    BY <1>1, <1>2, <2>1, <2>3, <2>6, LeaderStep DEF FirstBallotInvariant
  <2> QED
    BY <2>4, <2>5, <2>6
<1>5. ASSUME NEW r \in Replicas, Later(r) PROVE FirstBallotInvariant'
  <2>1. Alone(r) /\ ballot'[r] # 0 /\ LaterBallots'
    BY <1>5 DEF Later
  <2> QED
    BY <1>1, <1>2, <2>1, LaterKeeps DEF FirstBallotInvariant
<1>6. ASSUME NEW r \in Replicas, RecStep(r) \/ Recover(r) PROVE CommonCase(r) \/ Later(r)
  BY <1>1, <1>6, RecoveryLater DEF RecStep
<1> QED
  BY <1>3, <1>4, <1>5, <1>6 DEF RecNext

LEMMA FirstBallotHolds == RecSpec => [](RecInvariant /\ FirstBallotInvariant)
<1>1. RecInit => RecInvariant /\ FirstBallotInvariant
  BY InitTypes, InitFirstBallot
<1>2. (RecInvariant /\ FirstBallotInvariant) /\ [RecNext]_allVars
      => (RecInvariant /\ FirstBallotInvariant)'
  BY StepInvariant, StepFirstBallot
<1> QED
  BY <1>1, <1>2, PTL DEF RecSpec

\* In the first ballot, a follower that has every proposal and every hash of the leader
\* has its hash again, in whatever order they came (dpath.go, Append, Update, update).
THEOREM HashesConvergeHolds == RecSpec => []HashesConverge
<1>1. RecInvariant /\ FirstBallotInvariant => HashesConverge
  <2> SUFFICES ASSUME RecInvariant, FirstBallotInvariant, NEW r \in Replicas,
                      LeaderOf(r) \in Replicas, ballot[LeaderOf(r)] = 0, ballot[r] = 0,
                      proposes[r] = proposes[LeaderOf(r)], pendingHashUpds[r] = {},
                      ~\E m \in acks : m.from = LeaderOf(r) /\ m.to = r
               PROVE  LogHash(hlog[r]) = LogHash(hlog[LeaderOf(r)])
    BY DEF HashesConverge
  <2>1. LeaderOf(r) = 0 /\ TypeOK
    BY LeaderIsReplica, RecParts DEF LeaderOf, RecInvariant
  <2>2. CASE r = 0
    BY <2>1, <2>2
  <2>3. CASE r # 0
    <3> DEFINE h == hlog[r]
    <3>1. PICK P \in Seq(Commands) : FirstBallot(P)
      BY DEF FirstBallotInvariant
    <3>2. /\ hlog[0] = [synced |-> -1, syncedHash |-> <<>>, pending |-> P, pendingUpd |-> {}]
          /\ proposes[0] = Range0(P) /\ FollowerState(P, r)
      BY <2>1, <2>3, <3>1, LeaderFacts
    <3>3. HashState(P, r)
      BY <2>1, <3>2 DEF FollowerState
    <3>4. /\ h.synced \in -1 .. Len(P) - 1 /\ h.syncedHash = SubSeq(P, 1, h.synced + 1)
          /\ Range0(h.pending) \subseteq proposes[r]
          /\ \A k \in 1 .. Len(P) : k - 1 <= h.synced /\ P[k] \notin Range0(h.pending)
      BY <2>1, <3>3 DEF HashState, Comes
    <3>5. h \in HashLog /\ h.pending \in Seq(Commands)
      BY DEF TypeOK, HashLog, RecInvariant, RecTypeOK
    <3> HIDE DEF h
    <3>6. Range0(h.pending) = {}
      <4> SUFFICES ASSUME NEW b \in Range0(h.pending) PROVE FALSE
        OBVIOUS
      <4>1. b \in Range0(P)
        BY <2>1, <3>2, <3>4
      <4>2. PICK k \in 1 .. Len(P) : b = P[k]
        BY <4>1 DEF Range0
      <4> QED
        BY <3>4, <4>2
    <3>7. h.pending = <<>>
      <4>1. Len(h.pending) = 0
        <5> DEFINE n == Len(h.pending)
        <5>1. n \in Nat
          BY <3>5
        <5>2. 1 \notin 1 .. n
          BY <3>6 DEF Range0
        <5> HIDE DEF n
        <5>3. n = 0
          BY <5>1, <5>2
        <5> QED
          BY <5>3 DEF n
      <4> QED
        BY <3>5, <4>1
    <3>8. h.synced + 1 = Len(P)
      <4>1. Len(P) \in Nat /\ (Len(P) > 0 => Len(P) - 1 <= h.synced)
        BY <3>4
      <4> QED
        BY <3>4, <4>1
    <3>9. h.syncedHash = P
      BY <3>4, <3>8
    <3>10. LogHash(h) = P
      BY <3>7, <3>9 DEF LogHash
    <3>11. LogHash(hlog[0]) = P
      BY <3>2 DEF LogHash
    <3> QED
      BY <2>1, <3>10, <3>11 DEF h
  <2> QED
    BY <2>2, <2>3
<1> QED
  BY <1>1, FirstBallotHolds, PTL

\* What a client takes for an answer of the first ballot is held by the leader and by the
\* replica whose ack completes it, which has on the slow path the dependencies of the
\* leader (client.go, handleFastAndSlowAcks; swift.go, fastAckFromLeader).
THEOREM AnswerIsHeldHolds == RecSpec => []AnswerIsHeld
<1>1. RecInvariant /\ FirstBallotInvariant => AnswerIsHeld
  <2> SUFFICES ASSUME RecInvariant, FirstBallotInvariant, NEW m \in toClient, NEW n \in toClient,
                      Completes(m, n), m.ballot = 0, n.ballot = 0, ballot[n.from] = 0
               PROVE  /\ m.cmd \in delivered[m.from]
                      /\ Holds(n.from, m.cmd)
                      /\ n.type = "slowAck" => HoldsWith(n.from, m.cmd, DepIn(m.checksum))
    BY DEF AnswerIsHeld
  <2>1. TypeOK
    BY RecParts DEF RecInvariant
  <2>2. PICK P \in Seq(Commands) : FirstBallot(P)
    BY DEF FirstBallotInvariant
  <2>3. ClientMsgState(P, m) /\ ClientMsgState(P, n) /\ NoRepeats(P)
    BY <2>2 DEF FirstBallot, ClientState, NoRepeats
  <2>4. /\ m.type = "reply" /\ n.cmd = m.cmd /\ n.from # m.from
        /\ n.type = "slowAck" \/ n.type = "fastAck"
    BY DEF Completes
  <2>5. /\ m.from = 0 /\ m.cmd \in delivered[0]
        /\ \E k \in 1 .. Len(P) : IsHashOf(P, m.cmd, k, m.checksum)
    BY <2>3, <2>4 DEF ClientMsgState
  <2>6. PICK k \in 1 .. Len(P) : P[k] = m.cmd /\ m.checksum = SubSeq(P, 1, k)
    BY <2>5 DEF IsHashOf
  <2> DEFINE d == cmdDescs[n.from][m.cmd]
  <2>7. n.from \in Replicas \ {0} /\ m.cmd \in Commands
    BY <2>1, <2>4, <2>5 DEF TypeOK, ToClient
  <2>8. FollowerDesc(P, n.from, m.cmd, d)
    BY <2>2, <2>7 DEF FirstBallot, FollowerState
  <2>9. CASE n.type = "fastAck"
    BY <2>3, <2>4, <2>5, <2>9 DEF ClientMsgState
  <2>10. CASE n.type = "slowAck"
    <3>1. m.cmd \in delivered[n.from] \/ d.slowPath
      BY <2>3, <2>4, <2>10 DEF ClientMsgState
    <3>2. CASE m.cmd \in delivered[n.from]
      BY <2>5, <3>2 DEF Holds, HoldsWith
    <3>3. CASE m.cmd \notin delivered[n.from]
      <4>1. d.propose = "set" /\ GivenDep(P, m.cmd, d.dep)
        BY <2>8, <3>1, <3>3 DEF FollowerDesc
      <4>2. PICK l \in 1 .. Len(P) : P[l] = m.cmd /\ Deps(d.dep) = DepIn(SubSeq(P, 1, l))
        BY <4>1 DEF GivenDep
      <4>3. l = k
        BY <2>3, <2>6, <4>2 DEF NoRepeats
      <4> QED
        BY <2>5, <2>6, <4>1, <4>2, <4>3 DEF Holds, HoldsWith
    <3> QED
      BY <3>2, <3>3
  <2> QED
    BY <2>4, <2>9, <2>10
<1> QED
  BY <1>1, FirstBallotHolds, PTL
===============================================================================
