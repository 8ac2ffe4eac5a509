------------------------------ MODULE CurpClient -------------------------------
(***************************************************************************)
(* curp/client.go together with the replicas of Curp: a client that sends  *)
(* its commands without waiting for the answers (loopOpen of               *)
(* client/buffer.go).  It completes a command at the first of two things:  *)
(* a sync reply of the proxy, or the leader's reply with enough TRUE acks. *)
(* Each message comes in a goroutine of its own, so in any order; one of a *)
(* command already answered is dropped.                                    *)
(*                                                                         *)
(* No replica sends ORDERED, so that macks never fills; the branch of the  *)
(* timer is cut short by a break.  The ballot is the same in all messages. *)
(***************************************************************************)
EXTENDS Curp

VARIABLES
  acks,     \* acks[c]: the MsgSet of c, with the leader's reply or not
  val,      \* the command whose value is in val, which all commands share
  answers   \* the <<command, command whose value it got>> given to RegisterReply

clientVars == <<acks, val, answers>>
allVars    == <<vars, clientVars>>

\* c is in delivered.
Done(c) == \E v \in Commands : <<c, v>> \in answers

ClientTypeOK ==
  /\ TypeOK
  /\ acks \in [Commands -> [leader : BOOLEAN, msgs : SUBSET Witnesses]]
  /\ val \in Commands \cup {NoCommand}
  /\ answers \subseteq Commands \X Commands
  /\ \A a, b \in answers : a[1] = b[1] => a = b

ClientInit ==
  /\ Init
  /\ acks = [c \in Commands |-> [leader |-> FALSE, msgs |-> {}]]
  /\ val = NoCommand
  /\ answers = {}
-------------------------------------------------------------------------------
\* Mutant: the acks fill without the leader's reply.
IsFull_Leaderless(a) == Cardinality(a.msgs) >= ThreeQuarters - 1

\* Add calls handleAcks, and the leader's reply is there.
IsFull(a) == a.leader /\ Cardinality(a.msgs) >= ThreeQuarters - 1

\* Add to the acks of c, now a: when they are full c is answered with what is in val.
Add(c, a) ==
  /\ acks' = [acks EXCEPT ![c] = a]
  /\ answers' = answers \cup {<<d, val'>> : d \in {e \in {c} : IsFull(a)}}

\* handleReply: the leader's Ok is TRUE, or it would not have replied.
HandleReply(c) ==
  /\ c \in replies /\ ~acks[c].leader /\ ~Done(c)
  /\ val' = c
  /\ Add(c, [acks[c] EXCEPT !.leader = TRUE])
  /\ UNCHANGED vars

\* handleRecordAck of a witness; FALSE is not added.
HandleRecordAck(r, c) ==
  /\ <<r, c, TRUE>> \in recordAcks /\ r \notin acks[c].msgs /\ ~Done(c)
  /\ UNCHANGED val
  /\ Add(c, [acks[c] EXCEPT !.msgs = @ \cup {r}])
  /\ UNCHANGED vars

\* handleSyncReply.
HandleSyncReply(c) ==
  /\ c \in syncReplies /\ ~Done(c)
  /\ val' = c
  /\ answers' = answers \cup {<<c, c>>}
  /\ UNCHANGED <<vars, acks>>

ClientStep ==
  \E c \in Commands : \/ HandleReply(c)
                      \/ \E r \in Witnesses : HandleRecordAck(r, c)
                      \/ HandleSyncReply(c)

ClientNext ==
  \/ Next /\ UNCHANGED clientVars
  \/ ClientStep

ClientSpec == ClientInit /\ [][ClientNext]_allVars

\* What the client takes from the correct replicas.
ClientFairStep ==
  \E c \in Commands : \/ Leader \in Correct /\ HandleReply(c)
                      \/ \E r \in Witnesses \cap Correct : HandleRecordAck(r, c)
                      \/ Proxy[c] \in Correct /\ HandleSyncReply(c)

\* The goroutines of a correct replica and of the client keep running, clients reach it,
\* and links between correct replicas lose nothing.  The others may stop at any point.
ClientFairSpec ==
  /\ ClientSpec
  /\ \A r \in Correct : WF_allVars(FairStep(r) /\ UNCHANGED clientVars)
  /\ WF_allVars(ClientFairStep)
-------------------------------------------------------------------------------
\* A replica has executed c in a slot it has committed.
Durable(c) == \E r \in Replicas : \E s \in committed[r] \cap executed[r] : cmd[r][s] = c

\* The leader has executed c, and a fast quorum of witnesses has accepted it.
FastDone(c) == FastAnswer(c) /\ \E s \in executed[Leader] : cmd[Leader][s] = c

\* A command the client is told done is executed in a committed slot at some replica, or
\* executed by the leader and accepted by a fast quorum of witnesses, whatever the order
\* of the replies, the record acks and the sync replies (handleReply to handleAcks, lines
\* 117-191).  The first alone does not say that the leader has executed it: the proxy may
\* do so while the leader's "deliver" of the slot is still on its way.
AnsweredIsSafe == \A c \in Commands : Done(c) => Durable(c) \/ FastDone(c)

\* If the leader and a majority do not stop, every correct replica executes every
\* command: no order of the proposal, the accept, the acks and the execution of the slot
\* before loses the wake-up of deliver (curp.go, lines 173-205 and 463-545).  The client
\* is answered unless the proxy stops.
EveryCommandCompletes ==
  (Leader \in Correct /\ 2 * Cardinality(Correct) > Cardinality(Replicas)) =>
    <>(\A c \in Commands :
         /\ \A r \in Correct : \E k \in 1 .. Len(log[r]) : log[r][k] = c
         /\ Proxy[c] \in Correct => Done(c))

\* The client is answered with the value of its own command.  Not so: a reply for another
\* command overwrites val before the record acks complete the first (line 128).
AnswerIsOwn == \A a \in answers : a[1] = a[2]
-------------------------------------------------------------------------------
\* The acks of a command are messages the leader and the witnesses sent; val is that of a
\* command whose reply came, as it is of every acks with the leader's reply.
AcksInv ==
  \A c \in Commands :
    /\ acks[c].leader => c \in replies /\ val # NoCommand
    /\ \A r \in acks[c].msgs : <<r, c, TRUE>> \in recordAcks

\* A reply is for a command the leader has executed, a sync reply for one executed in a
\* committed slot.
RepliesInv ==
  /\ \A c \in replies : \E s \in executed[Leader] : cmd[Leader][s] = c
  /\ \A c \in syncReplies : Durable(c)

\* The inductive invariant of AnsweredIsSafe, with CurpInv (deliver, lines 463-545, and
\* handleReply to handleAcks, lines 117-191).
ClientInv == AcksInv /\ RepliesInv /\ AnsweredIsSafe
===============================================================================
