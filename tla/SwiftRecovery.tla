---------------------------- MODULE SwiftRecovery -----------------------------
(***************************************************************************)
(* swift/recovery.go over swift.go: a replica the master makes the leader  *)
(* takes a ballot of its own and asks the others for their commands        *)
(* (MNewLeader); a majority of answers (MNewLeaderAckN) decides what goes  *)
(* on, and an MSync tells everyone.  A replica that has answered does      *)
(* nothing else until it is synchronised.                                  *)
(*                                                                         *)
(* Without a quorum file there is no BallotAt(1): a new leader takes the   *)
(* next ballot it owns, and goes on to the next until the quorum that the  *)
(* ballot stands for is alive.                                             *)
(***************************************************************************)
EXTENDS Swift

CONSTANT KnownAtRecovery   \* bound: how many commands are known when a leader is replaced

ASSUME RecoveryBoundAssumption == KnownAtRecovery \in Nat

VARIABLES
  newLeaders,     \* the MNewLeaders broadcast so far
  ackNs,          \* the MNewLeaderAckNs on their way
  newLeaderAckNs, \* newLeaderAckNs[r]: those the candidate r has gathered
  syncs           \* the MSyncs broadcast so far

recVars == <<newLeaders, ackNs, newLeaderAckNs, syncs>>
allVars == <<vars, recVars>>

\* What an answer or an MSync says of a command; a command that is not known is NOOP.
Entry == [cmd : Commands, noop : BOOLEAN, phase : Phase, dep : Dep]

Answer == [from : Replicas, to : Replicas, ballot : Ballots, cballot : Ballots,
           entries : SUBSET Entry]

RecTypeOK ==
  /\ TypeOK
  /\ newLeaders \subseteq [from : Replicas, ballot : Ballots]
  /\ ackNs \subseteq Answer
  /\ newLeaderAckNs \in [Replicas -> SUBSET Answer]
  /\ syncs \subseteq [from : Replicas, ballot : Ballots, entries : SUBSET Entry]

RecInit ==
  /\ Init
  /\ newLeaders = {} /\ ackNs = {} /\ syncs = {}
  /\ newLeaderAckNs = [r \in Replicas |-> {}]
-------------------------------------------------------------------------------
\* fillNewLeaderAckN, with the descriptors D open: those with a proposal as they are,
\* and as an accepted NOOP every other proposal that is not delivered.
Entries(r, D) ==
  LET known == {c \in D : cmdDescs[r][c].propose = "set"}
  IN  {[cmd |-> c, noop |-> cmdDescs[r][c].noop, phase |-> cmdDescs[r][c].phase,
        dep |-> cmdDescs[r][c].dep] : c \in known}
      \cup
      {[cmd |-> c, noop |-> TRUE, phase |-> "ACCEPT", dep |-> {}]
        : c \in proposes[r] \ (known \cup delivered[r])}

AckN(r, b, D, q) ==
  {[from |-> r, to |-> q, ballot |-> b, cballot |-> cballot[r], entries |-> Entries(r, D)]}

\* repchan.stop, unless it was stopped before, and stopDescs: the goroutines end what
\* they are doing; D are the descriptors the replyChan has not removed by then.
StopsWith(r, D) ==
  /\ executing[r] = {}
  /\ LET open == {c \in Commands : cmdDescs[r][c].open}
     IN  D \subseteq open /\ open \ D \subseteq replying[r]

\* handleNewLeader of ballot b, up to its answer to q.
EntersBallot(r, b, D) ==
  /\ StopsWith(r, D)
  /\ ballot' = [ballot EXCEPT ![r] = b]
  /\ status' = [status EXCEPT ![r] = "RECOVERING"]
  /\ cmdDescs' = [cmdDescs EXCEPT ![r] = [c \in Commands |-> IF c \in D THEN @[c] ELSE Closed]]
  /\ replying' = [replying EXCEPT ![r] = {}]
  /\ UNCHANGED <<cballot, runVars, hashVars, seqnum, delivered, executing, deliverChan, log,
                 stopped, acks, toClient, syncs>>

\* The run loop takes the ballot that BeTheLeader has put on r.recover: the next one of r
\* whose quorum is alive.
Recover(r) ==
  /\ Normal(r) /\ delivered[r] # {}
  /\ Cardinality(UNION {proposes[q] : q \in Replicas}) <= KnownAtRecovery
  /\ \E b \in Ballots, D \in SUBSET Commands :
       /\ Leader(b) = r /\ b >= NextBallotOf(r, ballot[r])
       /\ \A a \in NextBallotOf(r, ballot[r]) .. b - 1 : Leader(a) = r => AQ(a) # AQ(b)
       /\ EntersBallot(r, b, D)
       /\ newLeaders' = newLeaders \cup {[from |-> r, ballot |-> b]}
       /\ newLeaderAckNs' = [newLeaderAckNs EXCEPT ![r] = AckN(r, b, D, r)]
       /\ UNCHANGED ackNs

\* handleNewLeader.
HandleNewLeader(r, m) ==
  /\ Normal(r) /\ m \in newLeaders /\ ballot[r] < m.ballot
  /\ \E D \in SUBSET Commands :
       EntersBallot(r, m.ballot, D) /\ ackNs' = ackNs \cup AckN(r, m.ballot, D, m.from)
  /\ UNCHANGED <<newLeaders, newLeaderAckNs>>

\* A second new leader during the recovery: the replyChan has ended, and stop waits for
\* it for ever.
HandleSecondNewLeader(r, m) ==
  /\ Alive(r) /\ status[r] = "RECOVERING"
  /\ m \in newLeaders /\ ballot[r] < m.ballot
  /\ ballot' = [ballot EXCEPT ![r] = m.ballot]
  /\ stopped' = [stopped EXCEPT ![r] = "hangs"]
  /\ UNCHANGED <<cballot, status, runVars, hashVars, seqnum, cmdDescs, execVars, acks, toClient,
                 recVars>>
-------------------------------------------------------------------------------
\* Mutant: a replica keeps the dependencies it has proposed.
SyncedDescs_OwnDeps(r, E) ==
  LET fresh == {e \in E : e.cmd \notin delivered[r]}
      succ(c) == {e.cmd : e \in {f \in fresh : c \in Deps(f.dep)}}
      waits == {c \in Commands \ delivered[r] : succ(c) # {}}
      Of(e) == [Closed EXCEPT !.open = TRUE, !.phase = e.phase, !.noop = e.noop,
                              !.dep = cmdDescs[r][e.cmd].proposeDep, !.proposeDep = e.dep,
                              !.propose = IF e.cmd \in proposes[r] THEN "set" ELSE "none"]
  IN  [c \in Commands |->
        LET d == IF \E e \in fresh : e.cmd = c THEN Of(CHOOSE e \in fresh : e.cmd = c) ELSE Closed
        IN  [d EXCEPT !.open = @ \/ c \in waits, !.successors = succ(c)]]

\* The descriptors handleSync makes of the entries: those that are not delivered, and
\* those they depend on.
SyncedDescs(r, E) ==
  LET fresh == {e \in E : e.cmd \notin delivered[r]}
      succ(c) == {e.cmd : e \in {f \in fresh : c \in Deps(f.dep)}}
      waits == {c \in Commands \ delivered[r] : succ(c) # {}}
      Of(e) == [Closed EXCEPT !.open = TRUE, !.phase = e.phase, !.noop = e.noop,
                              !.dep = e.dep, !.proposeDep = e.dep,
                              !.propose = IF e.cmd \in proposes[r] THEN "set" ELSE "none"]
  IN  [c \in Commands |->
        LET d == IF \E e \in fresh : e.cmd = c THEN Of(CHOOSE e \in fresh : e.cmd = c) ELSE Closed
        IN  [d EXCEPT !.open = @ \/ c \in waits, !.successors = succ(c)]]

\* The ack of its own that r handles at the end.
HandlesOwnAck(r, b, c, d) ==
  IF d.propose # "set" THEN d
  ELSE IF r = Leader(b)
  THEN FastAckFromLeader(r, b, c, Handled(d), IF d.dep = Nil THEN {c} ELSE d.dep).d
  ELSE CommonCaseFastAck(r, b, c, Handled(d), r, Nil).d

\* What r sends of an entry with a proposal it knows: the leader a FastAck without hash
\* and a reply without value, another a slow ack.
SyncAcks(r, b, e) == AcksTo(Replicas, r, b, e.cmd, IF r = Leader(b) THEN e.dep ELSE Nil, Nil, 0)
SyncReply(r, b, e) ==
  ClientMsgIn(b, IF r = Leader(b) THEN "reply" ELSE "slowAck", r, e.cmd, Nil, Nil)

\* handleSync of s, with the descriptors D not yet removed.  The goroutines that wake up
\* an entry read the loop variable, which may have moved on to a later entry: woken[c]
\* is what that of c reads.
Synchronises(r, s, D) ==
  LET known == {e.cmd : e \in s.entries}
      mine  == {e \in s.entries : e.cmd \in proposes[r]}
      fresh == {e \in s.entries : e.cmd \notin delivered[r]}
      new   == SyncedDescs(r, s.entries)
  IN  /\ reproposed' = [reproposed EXCEPT ![r] = @ \cup
           {c \in D \ known : cmdDescs[r][c].propose = "set"}]
      /\ lastCmd' = [lastCmd EXCEPT ![r] = {}]
      /\ lastWrite' = [lastWrite EXCEPT ![r] = {}]
      /\ cmdDescs' = [cmdDescs EXCEPT ![r] =
                       [c \in Commands |-> HandlesOwnAck(r, s.ballot, c, new[c])]]
      /\ status' = [status EXCEPT ![r] = "NORMAL"]
      /\ ballot' = [ballot EXCEPT ![r] = s.ballot]
      /\ cballot' = [cballot EXCEPT ![r] = s.ballot]
      /\ \E woken \in [{e.cmd : e \in fresh} -> known] :
           /\ \A e \in fresh : woken[e.cmd] \notin Deps(e.dep)
           /\ deliverChan' = [deliverChan EXCEPT ![r] = @ \cup
                {<<c, c>> : c \in {woken[e.cmd] : e \in fresh} \cup (UNION {Deps(e.dep) : e \in fresh})}]
      /\ acks' = acks \cup UNION {SyncAcks(r, s.ballot, e) : e \in mine}
      /\ toClient' = toClient
           \cup (UNION {SyncReply(r, s.ballot, e) : e \in mine})
           \cup (UNION {ClientMsgIn(s.ballot, "accept", r, c, Nil, Nil) : c \in proposes[r] \ known})
      /\ replying' = [replying EXCEPT ![r] = {}]
      /\ UNCHANGED <<proposes, hashVars, seqnum, delivered, executing, log, stopped>>

\* handleNewLeaderAckNs: of the answers with the highest cballot, one entry for each
\* command that is accepted or committed in one of them, whichever comes last.
Merges(A, E) ==
  LET top == {a \in A : \A x \in A : x.cballot <= a.cballot}
      all == {e \in UNION {a.entries : a \in top} : e.phase \in {"ACCEPT", "COMMIT"}}
  IN  /\ E \subseteq all
      /\ \A e \in all : Cardinality({f \in E : f.cmd = e.cmd}) = 1

\* Mutant: the candidate waits for more than a majority.
Enough_More(A) == Cardinality(A) > MajoritySize

\* A majority has answered.
Enough(A) == Cardinality(A) >= MajoritySize

\* handleNewLeaderAckN: at a majority the candidate synchronises itself and the others.
HandleNewLeaderAckN(r, a) ==
  LET A == newLeaderAckNs[r] \cup {a}
      all == UNION {x.entries : x \in A}
  IN  /\ Alive(r) /\ status[r] = "RECOVERING"
      /\ a \in ackNs /\ a.to = r /\ a.ballot = ballot[r]
      /\ ackNs' = ackNs \ {a}
      /\ newLeaderAckNs' = [newLeaderAckNs EXCEPT ![r] = A]
      /\ UNCHANGED newLeaders
      /\ IF ~Enough(A)
         THEN UNCHANGED <<vars, syncs>>
         ELSE \E E \in SUBSET all :
                LET s == [from |-> r, ballot |-> ballot[r], entries |-> E]
                IN  Merges(A, E) /\ syncs' = syncs \cup {s} /\ Synchronises(r, s, Commands)

\* handleSync of a replica that has answered the new leader.
HandleSync(r, s) ==
  /\ Alive(r) /\ status[r] = "RECOVERING"
  /\ s \in syncs /\ ballot[r] <= s.ballot
  /\ Synchronises(r, s, Commands)
  /\ UNCHANGED recVars

\* handleSync of one that the MNewLeader has not reached yet, which stops first.
HandleEarlySync(r, s) ==
  /\ Normal(r) /\ s \in syncs /\ ballot[r] < s.ballot
  /\ \E D \in SUBSET Commands : StopsWith(r, D) /\ Synchronises(r, s, D)
  /\ UNCHANGED recVars

\* Bound: nothing new is proposed once a leader has been replaced.
Known == UNION {proposes[r] : r \in Replicas}
CommonCase(r) == ReplicaStep(r) /\ UNCHANGED recVars /\ (newLeaders = {} \/ Known' = Known)

\* What r does by itself or on a message that has reached it.
RecStep(r) ==
  \/ CommonCase(r)
  \/ \E m \in newLeaders : HandleNewLeader(r, m)
  \/ \E m \in newLeaders : HandleSecondNewLeader(r, m)
  \/ \E a \in ackNs : HandleNewLeaderAckN(r, a)
  \/ \E s \in syncs : HandleSync(r, s)
  \/ \E s \in syncs : HandleEarlySync(r, s)

RecNext == \E r \in Replicas : RecStep(r) \/ Recover(r)

RecSpec == RecInit /\ [][RecNext]_allVars

\* The guards of RecStep.
CanRecStep(r) ==
  \/ CanStep(r)
  \/ \E c \in Commands : MayRegister(r, c) /\ (newLeaders = {} \/ c \in Known)
  \/ Normal(r) /\ executing[r] = {} /\ \E m \in newLeaders \cup syncs : ballot[r] < m.ballot
  \/ /\ Alive(r) /\ status[r] = "RECOVERING"
     /\ \/ \E m \in newLeaders : ballot[r] < m.ballot
        \/ \E a \in ackNs : a.to = r /\ a.ballot = ballot[r]
        \/ \E s \in syncs : ballot[r] <= s.ballot

\* The run loop and the goroutines of a replica go on while they can (weak fairness of
\* RecStep, with its guards spelt out); the master need not replace a leader.
FairRecSpec ==
  RecSpec /\ \A r \in Replicas : []<>~CanRecStep(r) \/ []<><<RecStep(r)>>_allVars
-------------------------------------------------------------------------------
Synchronised(r, b) == status[r] = "NORMAL" /\ ballot[r] >= b /\ cballot[r] = ballot[r]

\* A replica that takes over brings itself and all others that go on to its ballot, or
\* they reach a higher one, unless a second candidate makes somebody hang.
RecoveryEnds ==
  [](\A r \in Replicas : stopped[r] # "hangs") =>
    \A b \in Ballots \ {0} :
      [from |-> Leader(b), ballot |-> b] \in newLeaders
        ~> \A r \in Replicas : stopped[r] = "fatal" \/ Synchronised(r, b)

\* While no leader is replaced, every replica executes every command.
EveryCommandExecutes ==
  [](newLeaders = {}) =>
    \A r \in Replicas, c \in Commands : <>(c \in {log[r][i] : i \in DOMAIN log[r]})

\* Replicas of one ballot that have accepted a command that neither has delivered hold it
\* with the same dependencies, those of the leader or those the new leader has merged.
HeldAlike ==
  \A r, q \in Replicas, c \in Commands :
    /\ Normal(r) /\ Normal(q) /\ ballot[r] = ballot[q] /\ c \notin delivered[r] \cup delivered[q]
    /\ {cmdDescs[r][c].phase, cmdDescs[q][c].phase} \subseteq {"ACCEPT", "COMMIT"}
    => Deps(cmdDescs[r][c].dep) = Deps(cmdDescs[q][c].dep)
===============================================================================
