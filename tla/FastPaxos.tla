------------------------------ MODULE FastPaxos ------------------------------
(***************************************************************************)
(* fastpaxos/fastpaxos.go over replica/mset.go: a leaderless Fast Paxos in *)
(* which every client sends its command to every replica, each replica     *)
(* votes for it in its own next instance, and a collision is resolved by   *)
(* every replica on its own from the votes it has gathered                 *)
(* ("uncoordinated recovery").                                             *)
(*                                                                         *)
(* The votes of a replica are gathered in one MsgSet per instance and      *)
(* ballot, over defaultFastQuorum: QMembers is what its Contains accepts   *)
(* and QSize what its Size returns.  With a quorum file the quorum is      *)
(* fixed and QSize is its cardinality; without one it is ThreeQuarters:    *)
(* every replica and 3N/4+1.                                               *)
(*                                                                         *)
(* The handler of a vote ends, after a recovery, by handling the replica's *)
(* own new vote (lines 118 and 148), and so does handleProposal (line 91). *)
(* Such a nested call is the replica's next step: OwnVotes(r) holds the    *)
(* vote, and a replica that has one does nothing else.  A vote from outside *)
(* the quorum is dropped by Add at once, nested or not: its reception       *)
(* changes nothing and is not a step.                                       *)
(*                                                                         *)
(* A replica whose commit dereferences a command it has not received dies  *)
(* (nil pointer); panicked[r] is TRUE from then on.                        *)
(***************************************************************************)
EXTENDS Integers, FiniteSets

CONSTANTS Replicas,   \* the replica identifiers, 0..N-1 in the code
          Commands,   \* the commands of the clients, each sent once to everyone
          NoCommand,  \* the value of an instance that has none yet
          QMembers,   \* the replicas defaultFastQuorum contains
          QSize,      \* the size of defaultFastQuorum
          INST_NUM,   \* the number of instances allocated (1e8 in the code)
          MaxBallot   \* bound: no recovery past this ballot is explored

ASSUME ReplicasAssumption == Replicas \subseteq Nat /\ IsFiniteSet(Replicas)
ASSUME QuorumAssumption   == QMembers \subseteq Replicas /\ QMembers # {} /\ QSize \in Nat \ {0}
ASSUME CommandAssumption == NoCommand \notin Commands
ASSUME BoundAssumption    == INST_NUM \in Nat /\ MaxBallot \in Nat \ {0}

Instances == 0 .. INST_NUM - 1

VARIABLES
  next,         \* next[r]: the instance of r's next proposal
  cmds,         \* cmds[r]: the commands whose proposal r has received
  value,        \* value[r][i], ballot[r][i], cballot[r][i], committed[r][i]:
  ballot,       \*   the fields of r.instances[i]
  cballot,
  committed,
  m2bSets,      \* m2bSets[r]: the votes kept in r's MsgSets
  lastExecuted, \* lastExecuted[r]: the last instance r has executed
  ran,          \* ran[r][i]: the command read from instance i when it ran
  panicked,     \* panicked[r]: the process of r is dead
  sent,         \* every M2B broadcast so far
  handled,      \* handled[r]: the M2Bs r has handled
  commits       \* commits[r]: history, the arguments commit was called with

vars == <<next, cmds, value, ballot, cballot, committed, m2bSets,
          lastExecuted, ran, panicked, sent, handled, commits>>

M2B == [cmd : Commands, ballot : Nat, cballot : Nat, rep : Replicas, inst : Instances]

TypeOK ==
  /\ next \in [Replicas -> 0 .. INST_NUM]
  /\ cmds \in [Replicas -> SUBSET Commands]
  /\ value \in [Replicas -> [Instances -> Commands \cup {NoCommand}]]
  /\ ballot \in [Replicas -> [Instances -> Nat]]
  /\ cballot \in [Replicas -> [Instances -> Nat]]
  /\ committed \in [Replicas -> [Instances -> BOOLEAN]]
  /\ m2bSets \in [Replicas -> SUBSET M2B]
  /\ lastExecuted \in [Replicas -> -1 .. INST_NUM - 1]
  /\ ran \in [Replicas -> [Instances -> Commands \cup {NoCommand}]]
  /\ panicked \in [Replicas -> BOOLEAN]
  /\ sent \subseteq M2B
  /\ handled \in [Replicas -> SUBSET M2B]
  /\ commits \in [Replicas -> SUBSET (Instances \X Commands)]

Init ==
  /\ next = [r \in Replicas |-> 0]
  /\ cmds = [r \in Replicas |-> {}]
  /\ value = [r \in Replicas |-> [i \in Instances |-> NoCommand]]
  /\ ballot = [r \in Replicas |-> [i \in Instances |-> 0]]
  /\ cballot = [r \in Replicas |-> [i \in Instances |-> 0]]
  /\ committed = [r \in Replicas |-> [i \in Instances |-> FALSE]]
  /\ m2bSets = [r \in Replicas |-> {}]
  /\ lastExecuted = [r \in Replicas |-> -1]
  /\ ran = [r \in Replicas |-> [i \in Instances |-> NoCommand]]
  /\ panicked = [r \in Replicas |-> FALSE]
  /\ sent = {}
  /\ handled = [r \in Replicas |-> {}]
  /\ commits = [r \in Replicas |-> {}]
-------------------------------------------------------------------------------
\* The vote r has broadcast and whose nested handleM2B call it is running.
OwnVotes(r) == {m \in sent \ handled[r] : m.rep = r /\ r \in QMembers}

\* The run loop of r waits for its next event.
Idle(r) == ~panicked[r] /\ OwnVotes(r) = {}

\* The votes in the MsgSet of instance i and ballot b of a replica that keeps
\* the votes s, and the replicas they come from.
VotesOf(s, i, b) == {m \in s : m.inst = i /\ m.ballot = b}
Voters(s, i, b)  == {m.rep : m \in VotesOf(s, i, b)}

\* MsgSet.Add: a later vote of the same replica replaces the earlier one.
WithVote(s, m) ==
  {x \in s : ~(x.inst = m.inst /\ x.ballot = m.ballot /\ x.rep = m.rep)} \cup {m}

\* The vote the collision rule picks: the last one in the order of sort.Slice.
IsMaxVote(m, votes) ==
  /\ m \in votes
  /\ \A x \in votes : \/ x.cballot < m.cballot
                      \/ x.cballot = m.cballot /\ x.rep <= m.rep

\* Mutant: the vote is built before the value is assigned.
Broadcast_Early(r, i, c, b, cb) ==
  sent' = sent \cup {[cmd |-> value[r][i], ballot |-> b, cballot |-> cb, rep |-> r, inst |-> i]}

\* Replica r broadcasts its vote for c in instance i, at ballots b and cb.
Broadcast(r, i, c, b, cb) ==
  sent' = sent \cup {[cmd |-> c, ballot |-> b, cballot |-> cb, rep |-> r, inst |-> i]}

\* The proposal of client command c reaches replica r, which votes for it in its
\* next instance, whatever that instance already holds.
HandleProposal(r, c) ==
  /\ Idle(r)
  /\ c \notin cmds[r]
  /\ next[r] < INST_NUM
  /\ cmds' = [cmds EXCEPT ![r] = @ \cup {c}]
  /\ next' = [next EXCEPT ![r] = @ + 1]
  /\ value' = [value EXCEPT ![r][next[r]] = c]
  /\ Broadcast(r, next[r], c, ballot[r][next[r]], cballot[r][next[r]])
  /\ UNCHANGED <<ballot, cballot, committed, m2bSets, lastExecuted, ran,
                 panicked, handled, commits>>
-------------------------------------------------------------------------------
\* The vote m of a quorum member is the next one replica r handles: its own one
\* if a nested call is pending, any one on its way to r otherwise.
Receives(r, m) ==
  /\ ~panicked[r]
  /\ m.rep \in QMembers
  /\ m \in sent \ handled[r]
  /\ OwnVotes(r) # {} => m.rep = r
  /\ handled' = [handled EXCEPT ![r] = @ \cup {m}]

\* Mutants: a vote too few, and no comparison of the votes.
IsFull_OneShort(r, m) ==
  Cardinality(Voters(WithVote(m2bSets[r], m), m.inst, m.ballot)) >= QSize - 1
IsUnanimous_Always(r, m) == TRUE

\* The votes of m's instance and ballot once r has added m.
Gathered(r, m) == VotesOf(WithVote(m2bSets[r], m), m.inst, m.ballot)
IsFull(r, m)   == Cardinality(Voters(WithVote(m2bSets[r], m), m.inst, m.ballot)) >= QSize
IsUnanimous(r, m) == \A x \in Gathered(r, m) : x.cmd = m.cmd

\* Replica r adds m to its MsgSet.
Adds(r, m) ==
  /\ Receives(r, m)
  /\ m2bSets' = [m2bSets EXCEPT ![r] = WithVote(@, m)]

\* The MsgSet is not full yet: nothing else happens.
GatherM2B(r, m) ==
  /\ Adds(r, m)
  /\ ~IsFull(r, m)
  /\ UNCHANGED <<next, cmds, value, ballot, cballot, committed,
                 lastExecuted, ran, panicked, sent, commits>>

\* Mutant: one instance at each commit.
ReadyInstances_One(r) == {i \in Instances : i = lastExecuted[r] + 1 /\ committed'[r][i]}

\* The committed instances that directly follow the last executed one.
ReadyInstances(r) ==
  {i \in Instances : /\ i > lastExecuted[r]
                     /\ \A j \in lastExecuted[r] + 1 .. i : committed'[r][j]}

\* commit: the loop executes, in order, every committed instance that directly
\* follows the last executed one.  It dies at the first instance whose command
\* has not been proposed to r.  A command already delivered is skipped, so
\* that command has no second effect.
Execute(r) ==
  LET ready   == ReadyInstances(r)
      missing == {i \in ready : value'[r][i] \notin cmds[r]}
      done    == {i \in ready : \A j \in missing : i < j}
  IN  /\ panicked' = [panicked EXCEPT ![r] = missing # {}]
      /\ ran' = [ran EXCEPT ![r] =
                  [i \in Instances |-> IF i \in done THEN value'[r][i] ELSE @[i]]]
      /\ \E last \in lastExecuted[r] .. INST_NUM - 1 :
           /\ done = lastExecuted[r] + 1 .. last
           /\ lastExecuted' = [lastExecuted EXCEPT ![r] = last]

\* The MsgSet is full and unanimous: handleM2Bs commits the instance.
CommitM2B(r, m) ==
  /\ Adds(r, m)
  /\ IsFull(r, m)
  /\ IsUnanimous(r, m)
  /\ value' = [value EXCEPT ![r][m.inst] = m.cmd]
  /\ committed' = [committed EXCEPT ![r][m.inst] = TRUE]
  /\ commits' = [commits EXCEPT ![r] = @ \cup {<<m.inst, m.cmd>>}]
  /\ Execute(r)
  /\ UNCHANGED <<next, cmds, ballot, cballot, sent>>

\* The MsgSet is full and its votes collide.
Collision(r, m) ==
  /\ Adds(r, m)
  /\ IsFull(r, m)
  /\ ~IsUnanimous(r, m)

\* handleM2Bs resolves the collision: r votes at the next ballot for the value
\* of the maximal vote.
RecoverM2B(r, m) ==
  /\ Collision(r, m)
  /\ ballot[r][m.inst] = m.ballot
  /\ m.ballot < MaxBallot
  /\ \E v \in Gathered(r, m) :
       /\ IsMaxVote(v, Gathered(r, m))
       /\ value' = [value EXCEPT ![r][m.inst] = v.cmd]
       /\ Broadcast(r, m.inst, v.cmd, m.ballot + 1, m.ballot + 1)
  /\ ballot' = [ballot EXCEPT ![r][m.inst] = m.ballot + 1]
  /\ cballot' = [cballot EXCEPT ![r][m.inst] = m.ballot + 1]
  /\ UNCHANGED <<next, cmds, committed, lastExecuted, ran, panicked, commits>>

\* handleM2Bs gives up: the instance is not at the ballot of the collision.
StaleCollision(r, m) ==
  /\ Collision(r, m)
  /\ ballot[r][m.inst] # m.ballot
  /\ UNCHANGED <<next, cmds, value, ballot, cballot, committed,
                 lastExecuted, ran, panicked, sent, commits>>

HandleM2B(r, m) ==
  \/ GatherM2B(r, m)
  \/ CommitM2B(r, m)
  \/ RecoverM2B(r, m)
  \/ StaleCollision(r, m)

Step(r) == \/ \E c \in Commands : HandleProposal(r, c)
           \/ \E m \in sent : HandleM2B(r, m)

Next == \E r \in Replicas : Step(r)

Spec == Init /\ [][Next]_vars

\* The run loop of a live replica keeps selecting, its clients reach every
\* replica and links lose nothing.
FairSpec == Spec /\ \A r \in Replicas : WF_vars(Step(r))
-------------------------------------------------------------------------------
\* commit (line 188) is never called with two commands for one instance, on one
\* replica or on two: votes are gathered in different orders, and collisions
\* resolved, at each replica on its own.
Agreement ==
  \A r, s \in Replicas : \A d \in commits[r], e \in commits[s] :
    d[1] = e[1] => d[2] = e[2]

\* The members that have voted for c in instance i at ballot b.
VotedFor(i, c, b) ==
  {m.rep : m \in {n \in VotesOf(sent, i, b) : n.cmd = c /\ n.rep \in QMembers}}

\* A committed command has, at one ballot of its instance, the votes of a whole fast
\* quorum, whatever that quorum is: the votes of a MsgSet are not mixed with those
\* of another ballot, and a replica that votes twice counts once.
CommitHasFastQuorum ==
  \A r \in Replicas : \A d \in commits[r] : \E b \in 0 .. MaxBallot :
    Cardinality(VotedFor(d[1], d[2], b)) >= QSize

\* A command is committed at one instance only: the comment of commit (lines
\* 198-201) says that two instances are "impossible without failure recovery and
\* with a single fast quorum".
NoDuplicateCommit ==
  \A r, s \in Replicas : \A d \in commits[r], e \in commits[s] :
    d[2] = e[2] => d[1] = e[1]

\* The branch of handleM2Bs that returns because the instance has left the ballot
\* of the collision is never taken: its comment (lines 133-135) calls it
\* unreachable with a fixed fast quorum.
NoStaleCollision ==
  [][\A r \in Replicas : \A m \in handled'[r] \ handled[r] : ~StaleCollision(r, m)]_vars

\* Collision recovery may run after the commit of its instance: a replica outside
\* the fast quorum can gather the second ballot before the first (lines 138-139
\* do not look at the committed flag).  It then votes for the committed command.
RecoveryKeepsCommit ==
  [][\A r \in Replicas : \A d \in commits[r] :
       ballot'[r][d[1]] # ballot[r][d[1]] => value'[r][d[1]] = d[2]]_vars

\* Two members of the fast quorum have executed the same command at the instances they
\* have both executed (the loop of commit, lines 194-215).  A replica outside the
\* quorum need not: handleProposal (line 81) overwrites what it has committed.
MembersExecuteAlike ==
  \A r, s \in QMembers : \A i \in Instances :
    (i <= lastExecuted[r] /\ i <= lastExecuted[s]) => ran[r][i] = ran[s][i]

\* If no replica dies, every command is eventually executed by every member of
\* the fast quorum: the votes of a full quorum always end in a commit, recovered
\* collisions included, and the commits leave no hole in the log.
EveryCommandExecutes ==
  (\A r \in Replicas : []~panicked[r])
    => \A r \in QMembers, c \in Commands : <>(\E i \in Instances : ran[r][i] = c)

-------------------------------------------------------------------------------
\* Why the fixed fast quorum agrees.  Replica q has voted for c in instance i with
\* its proposal, that is at ballot 0.
Proposed(q, i, c) == \E m \in sent : m.rep = q /\ m.inst = i /\ m.ballot = 0 /\ m.cmd = c

\* The member whose vote every replica picks in a collision of ballot 0.
IsTop(q) == q \in QMembers /\ \A p \in QMembers : p <= q

\* c is settled for instance i: by the whole quorum, or by its top member.
Settled(i, c) ==
  \/ \A q \in QMembers : Proposed(q, i, c)
  \/ \E q \in QMembers : IsTop(q) /\ Proposed(q, i, c)

\* The votes of the members of the fast quorum: one per instance and ballot, one
\* proposal per command, and at ballot 1 only for what the top member proposed.
VotesInv ==
  \A m \in sent : m.rep \in QMembers =>
    /\ m.inst < next[m.rep]
    /\ m.cballot = m.ballot
    /\ m.ballot \in {0, 1}
    /\ m.ballot = 0 => m.cmd \in cmds[m.rep]
    /\ m.ballot = 1 => /\ ballot[m.rep][m.inst] = 1
                       /\ \E q \in QMembers : IsTop(q) /\ Proposed(q, m.inst, m.cmd)
    /\ \A n \in sent :
         (n.rep = m.rep /\ n.ballot = m.ballot)
           => /\ n.inst = m.inst => n = m
              /\ (m.ballot = 0 /\ n.cmd = m.cmd) => n = m

\* A replica keeps votes of members it has handled, and has left ballot 0 of an
\* instance only after it has gathered the whole quorum there.
GatheredInv ==
  \A r \in Replicas :
    /\ m2bSets[r] \subseteq handled[r]
    /\ handled[r] \subseteq sent
    /\ \A m \in m2bSets[r] : m.rep \in QMembers
    /\ \A i \in Instances :
         /\ cballot[r][i] = ballot[r][i]
         /\ ballot[r][i] \in {0, 1}
         /\ ballot[r][i] = 1 => QMembers \subseteq Voters(m2bSets[r], i, 0)

\* A committed command is settled.
CommitsInv == \A r \in Replicas : \A d \in commits[r] : Settled(d[1], d[2])

\* The inductive invariant, for a fixed fast quorum.  Its strength is in the votes
\* at ballot 1: they already agree, so that no second recovery can happen.
QuorumInv == VotesInv /\ GatheredInv /\ CommitsInv

\* With it: a member holds the command it has committed, as its proposals go to later
\* instances and its recoveries vote for that command again, and runs what it holds.
MembersInv ==
  \A r \in QMembers : \A i \in Instances :
    /\ committed[r][i] => i < next[r] /\ <<i, value[r][i]>> \in commits[r]
    /\ i <= lastExecuted[r] => <<i, ran[r][i]>> \in commits[r]

\* For any fast quorum: a replica keeps votes of members that were sent, none past the
\* bound, and a commit has a fast quorum of them.
CastInv ==
  /\ \A m \in sent : m.ballot <= MaxBallot
  /\ \A r \in Replicas :
       /\ \A i \in Instances : ballot[r][i] <= MaxBallot
       /\ \A m \in m2bSets[r] : m \in sent /\ m.rep \in QMembers
  /\ CommitHasFastQuorum
-------------------------------------------------------------------------------
\* Fast Paxos fills one log: the commits are the learned slots.
Abstract == INSTANCE Consensus WITH Slots <- Instances, learned <- commits
ImplementsConsensus == Abstract!Spec
===============================================================================
