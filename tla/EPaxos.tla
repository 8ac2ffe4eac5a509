-------------------------------- MODULE EPaxos ---------------------------------
(***************************************************************************)
(* epaxos/exec.go beside the commit protocol: the executor's goroutine,    *)
(* one call of executeCommand a step.                                      *)
(***************************************************************************)
EXTENDS EPaxosCommit

VARIABLES
  execedUpTo,  \* execedUpTo[r][q]: up to which r has executed row q
  log          \* log[r]: the instances r has executed, in that order

execVars == <<execedUpTo, log>>
vars == <<commitVars, execVars>>

Init ==
  /\ CommitInit
  /\ execedUpTo = [r \in Replicas |-> NoDeps] /\ log = [r \in Replicas |-> <<>>]

\* The instances that v depends on and r may not have executed, in the order in which
\* strongconnect goes through them.
DependsOn(r, v) ==
  FlattenSeq([k \in 1 .. N |->
    LET q == k - 1
        from == execedUpTo[r][q]
        to == instanceSpace[r][v].deps[q]
    IN  [i \in 1 .. MaxOf(0, to - from) |-> <<q, from + i>>]])

\* nodeArray.Less: by Seq, then by row, then by the time the replica created them.
ExecutesBefore(r, v, w) ==
  LET i == instanceSpace[r][v].seq
      j == instanceSpace[r][w].seq
      At(u) == CHOOSE k \in DOMAIN created[r][u[1]] : created[r][u[1]][k] = u[2]
  IN  i < j \/ (i = j /\ (v[1] < w[1] \/ (v[1] = w[1] /\ At(v) < At(w))))

\* strongconnect from v in state t of Tarjan's algorithm: the next index, the Index and the
\* Lowlink of each instance, the stack, the instances executed so far, and ok, FALSE once
\* an instance has been met that is not committed.
RECURSIVE StrongConnect(_, _, _)
StrongConnect(r, v, t) ==
  LET entered == [t EXCEPT !.next = @ + 1, !.index[v] = t.next, !.low[v] = t.next,
                           !.stack = Append(@, v)]
      Visit(s, w) ==
        IF ~s.ok \/ w \in Range(s.done) \/ instanceSpace[r][w].status = EXECUTED THEN s
        ELSE IF instanceSpace[r][w].cmds = Nil \/ instanceSpace[r][w].status # COMMITTED
        THEN [s EXCEPT !.ok = FALSE]
        ELSE IF s.index[w] = 0
        THEN LET u == StrongConnect(r, w, s)
             IN  [u EXCEPT !.low[v] = IF u.ok THEN Min({@, u.low[w]}) ELSE @]
        ELSE IF w \in Range(s.stack) THEN [s EXCEPT !.low[v] = Min({@, s.index[w]})]
        ELSE s
      left == FoldLeft(Visit, entered, DependsOn(r, v))
      scc  == SubSeq(left.stack, Len(t.stack) + 1, Len(left.stack))
  IN  IF left.ok /\ left.low[v] = left.index[v]
      THEN [left EXCEPT !.stack = t.stack,
                        !.done = @ \o SortSeq(scc, LAMBDA a, b : ExecutesBefore(r, a, b))]
      ELSE left

\* executeCommand: the instances it executes, in that order.
ExecutedFrom(r, v) ==
  StrongConnect(r, v, [next |-> 1, index |-> [id \in InstanceIds |-> 0],
                       low |-> [id \in InstanceIds |-> 0], stack |-> <<>>, done |-> <<>>, ok |-> TRUE])

IsExecuted(r, id)  == instanceSpace[r][id].status = EXECUTED

\* Mutant: it does not look whether the instance is committed.
MayExecute_Uncommitted(r, id) ==
  /\ instanceSpace[r][id].status # EXECUTED
  /\ execedUpTo[r][id[1]] < id[2] /\ id[2] <= crtInstance[r][id[1]]
  /\ \A k \in execedUpTo[r][id[1]] + 1 .. id[2] - 1 : IsCommitted(r, <<id[1], k>>)

\* executeCommands gets to the next instance of a row, past those that wait for others, as
\* long as they are committed.
MayExecute(r, id) ==
  /\ instanceSpace[r][id].status = COMMITTED
  /\ execedUpTo[r][id[1]] < id[2] /\ id[2] <= crtInstance[r][id[1]]
  /\ \A k \in execedUpTo[r][id[1]] + 1 .. id[2] - 1 : IsCommitted(r, <<id[1], k>>)

\* executeCommands calls executeCommand for it.
Execute(r, id) ==
  /\ MayExecute(r, id)
  /\ \E t \in {ExecutedFrom(r, id)} :
       /\ t.done # <<>>
       /\ log' = [log EXCEPT ![r] = @ \o t.done]
       /\ MarksExecuted(r, Range(t.done))
       /\ execedUpTo' = [execedUpTo EXCEPT ![r][id[1]] = IF t.ok /\ id[2] = @ + 1 THEN id[2] ELSE @]
  /\ UNCHANGED <<lbs, attrVars, rowVars, maxRecvBallot, proposeChan, msgs, ctrlVars>>

\* executeCommands passes by an instance that was executed with another one.
MayPassBy(r, q) ==
  execedUpTo[r][q] < crtInstance[r][q] /\ IsExecuted(r, <<q, execedUpTo[r][q] + 1>>)
PassesBy(r, q) ==
  /\ MayPassBy(r, q)
  /\ execedUpTo' = [execedUpTo EXCEPT ![r][q] = @ + 1]
  /\ UNCHANGED <<instanceSpace, lbs, attrVars, rowVars, log, maxRecvBallot, proposeChan, msgs, ctrlVars>>

Executor(r) ==
  /\ r \notin dead
  /\ \/ \E id \in InstanceIds : Execute(r, id)
     \/ \E q \in Replicas : PassesBy(r, q)

Next ==
  \E r \in Replicas :
    \/ /\ \/ RunLoop(r)
          \/ \E id \in InstanceIds : StartRecovery(r, id)
          \/ Stop(r)
       /\ UNCHANGED execVars
    \/ Executor(r)

Spec == Init /\ [][Next]_vars

\* The guards of RunLoop and Executor.
CanRun(r) == r \notin dead /\ (MayPropose(r) \/ \E m \in msgs : m.to = r)
CanExecute(r) ==
  /\ r \notin dead
  /\ \/ \E id \in InstanceIds : MayExecute(r, id) /\ ExecutedFrom(r, id).done # <<>>
     \/ \E q \in Replicas : MayPassBy(r, q)

\* The run loop and the executor go on while they can, and an instance that stays
\* uncommitted is recovered in the end: weak fairness, with the guards spelt out.
FairSpec ==
  /\ Spec
  /\ \A r \in Replicas :
       /\ []<>~CanRun(r) \/ []<><<RunLoop(r)>>_vars
       /\ []<>~CanExecute(r) \/ []<><<Executor(r)>>_vars
       /\ \A id \in InstanceIds :
            []<>~MayRecover(r, id) \/ []<><<StartRecovery(r, id)>>_vars
-------------------------------------------------------------------------------
\* Whatever the order of the search and the dependencies that are not committed yet, the
\* executor marks only committed instances: the executor and the run loop together do what
\* the commit protocol says.
ImplementsCommit == CommitSpec

PositionIn(l, v) == CHOOSE k \in DOMAIN l : l[k] = v

\* Two replicas execute two conflicting instances in the same order, whatever the order in
\* which they learn of the commits.
ExecutedAlike ==
  \A r, s \in Replicas : \A v, w \in Range(log[r]) \cap Range(log[s]) :
    Conflicting(instanceSpace[r][v].cmds, instanceSpace[r][w].cmds) =>
      (PositionIn(log[r], v) < PositionIn(log[r], w) <=> PositionIn(log[s], v) < PositionIn(log[s], w))

Executed(r, c) == \E v \in Range(log[r]) : c \in Range(instanceSpace[r][v].cmds)

\* Replica r has given up the batch of an instance of its own for an empty one, and r has
\* committed an instance that depends on one of a stopped replica that r does not know.
HasLostBatch(r) == \E i \in 0 .. MaxInstance : instanceSpace[r][<<r, i>>].cmds = <<>>
KnowsOnlyAsDependency(r) ==
  \E v \in InstanceIds, q \in dead :
    IsCommitted(r, v) /\ instanceSpace[r][v].deps[q] > crtInstance[r][q]

\* Unless it stops, a replica executes the commands of its clients, which are then
\* answered, although the leader of an instance they depend on may have stopped (the
\* recovery that executeCommands asks for, epaxos.go:404-411).  The code does not keep
\* this in two cases: a recovery that takes an empty batch (HighestBallotIsTaken), and a
\* dependency beyond crtInstance, where executeCommands does not look (line 397).
ClientsAreAnswered ==
  \A r \in Replicas : \A c \in ClientCommands[r] :
    \/ <>(Executed(r, c) \/ r \in dead)
    \/ <>[](HasLostBatch(r) \/ KnowsOnlyAsDependency(r))
===============================================================================
