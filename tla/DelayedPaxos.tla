----------------------------- MODULE DelayedPaxos -----------------------------
(***************************************************************************)
(* Paxos under a leader whose clients share one connection, delayed as     *)
(* replica.go's clientListener sets it up: what leaves the tree of         *)
(* DelayProposeChan is in the ProposeChan of the leader.                   *)
(***************************************************************************)
EXTENDS Paxos, DelayProposeChan

CONSTANTS LeaderId,    \* the replica at the end of the connection
          CommandOf    \* CommandOf[i]: the command of CommandId i

ASSUME ConnectionAssumption ==
  /\ LeaderId \in Replicas
  /\ CommandOf \in [CommandIds -> Commands]

DelayedInit == Init /\ DelayInit

Arrives ==
  /\ proposeChan' = [proposeChan EXCEPT ![LeaderId] =
       @ \cup {CommandOf[pChan'[k]] : k \in Len(pChan) + 1 .. Len(pChan')}]
  /\ UNCHANGED <<isLeader, refused, smallestDefaultBallot, ballotVars, execVars, lifeVars,
                 instanceSpace, lb, crtInstance, network>>

DelayStep == (Write \/ \E i \in CommandIds : Handle(i)) /\ Arrives

DelayedNext == DelayStep \/ (Next /\ UNCHANGED delayVars)

allVars == <<vars, delayVars>>

\* The connection delivers, every goroutine wakes up in the end, and Paxos is fair.
DelayedSpec ==
  /\ DelayedInit /\ [][DelayedNext]_allVars
  /\ WF_allVars(DelayStep)
  /\ \A r \in Replicas : WF_allVars(RunLoop(r) /\ UNCHANGED delayVars)
                         /\ WF_allVars(Execute(r) /\ UNCHANGED delayVars)

\* Every command of the connection is executed by the leader if at most F other replicas
\* stop: no proposal is stuck in the tree, and none in the pipeline of instances.
DelayedCommandsExecute ==
  \A i \in CommandIds : <>(\E k \in 1 .. Len(log[LeaderId]) : CommandOf[i] \in log[LeaderId][k])
===============================================================================
