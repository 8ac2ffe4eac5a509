--------------------------- MODULE DelayProposeChan ---------------------------
(***************************************************************************)
(* DelayProposeChan of replica/defs/latency.go: the delay that a replica   *)
(* puts on the proposals of a connection.  Write inserts the proposal in a *)
(* search tree and leaves a goroutine that sleeps and then handles it; the *)
(* goroutines wake up in any order.  The proposals leave the tree for the  *)
(* channel of the replica in the order of their CommandIds, which a client *)
(* counts from 0.                                                          *)
(***************************************************************************)
EXTENDS Integers, Sequences

CONSTANT MaxCommandId   \* bound: the last CommandId of the connection

ASSUME IdAssumption == MaxCommandId \in Nat

CommandIds == 0 .. MaxCommandId
NilNode    == -1
NoTree     == [i \in CommandIds |-> NilNode]

VARIABLES
  tree,      \* the nodes of log: its root, and the left, right and ready of each proposal
  min,       \* the last proposal that has left the tree
  written,   \* how many proposals the connection has delivered
  sleeping,  \* those whose goroutine sleeps
  pChan      \* what has been sent to the channel, in order

delayVars == <<tree, min, written, sleeping, pChan>>

DelayInit ==
  /\ tree = [root |-> NilNode, left |-> NoTree, right |-> NoTree, ready |-> [i \in CommandIds |-> FALSE]]
  /\ min = -1 /\ written = 0 /\ sleeping = {} /\ pChan = <<>>

\* insert, below node n.
RECURSIVE InsertBelow(_, _, _)
InsertBelow(t, n, i) ==
  CASE i = n -> t
    [] i < n -> IF t.left[n] = NilNode THEN [t EXCEPT !.left[n] = i] ELSE InsertBelow(t, t.left[n], i)
    [] i > n -> IF t.right[n] = NilNode THEN [t EXCEPT !.right[n] = i] ELSE InsertBelow(t, t.right[n], i)
Insert(t, i) == IF t.root = NilNode THEN [t EXCEPT !.root = i] ELSE InsertBelow(t, t.root, i)

\* Mutant: the proposal need not have been delayed.
MayLeave_Early(t, n, last) == last = n - 1

MayLeave(t, n, last) == t.ready[n] /\ last = n - 1

\* inorderReady from node n: the tree, the node that takes the place of n, the last
\* proposal to leave and those that leave.  A left subtree is dropped only when it is empty.
RECURSIVE InorderReady(_, _, _)
InorderReady(t, n, last) ==
  IF n = NilNode THEN [tree |-> t, node |-> NilNode, last |-> last, leave |-> <<>>]
  ELSE LET l == InorderReady(t, t.left[n], last)
           u == IF l.node = NilNode THEN [l.tree EXCEPT !.left[n] = NilNode] ELSE l.tree
       IN  IF MayLeave(u, n, l.last)
           THEN LET r == InorderReady(u, u.right[n], l.last + 1)
                IN  [r EXCEPT !.leave = l.leave \o <<n>> \o @]
           ELSE [tree |-> u, node |-> n, last |-> l.last, leave |-> l.leave]

\* Write: LOG_INSERT, and a goroutine that sleeps.
Write ==
  /\ written \in CommandIds
  /\ tree' = Insert(tree, written)
  /\ written' = written + 1
  /\ sleeping' = sleeping \cup {written}
  /\ UNCHANGED <<min, pChan>>

\* LOG_HANDLE of proposal i, which is inserted again when it is not found.
Handle(i) ==
  /\ i \in sleeping
  /\ sleeping' = sleeping \ {i}
  /\ \E s \in {InorderReady([Insert(tree, i) EXCEPT !.ready[i] = TRUE], Insert(tree, i).root, min)} :
       /\ tree' = [s.tree EXCEPT !.root = s.node]
       /\ min' = s.last
       /\ pChan' = pChan \o s.leave
  /\ UNCHANGED written

\* Whatever the order in which the goroutines wake up, what has left the tree are always the
\* proposals before the first whose delay is not over, in the order of the CommandIds.
ProposalsInOrder ==
  LET done == (0 .. written - 1) \ sleeping
      n    == CHOOSE k \in 0 .. written : k \notin done /\ 0 .. k - 1 \subseteq done
  IN  pChan = [i \in 1 .. n |-> i - 1]
===============================================================================
