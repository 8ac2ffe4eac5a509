-------------------------- MODULE CurpClientProofs --------------------------
(***************************************************************************)
(* Theorems about the client of CURP with its replicas, for every set of   *)
(* replicas with more than one member, every set of commands and keys and  *)
(* any number of slots.  The replicas take the steps of Curp, so that the  *)
(* theorems of CurpProofs hold beside the client; what is new is what the  *)
(* client makes of the messages they send it.                              *)
(***************************************************************************)
EXTENDS CurpClient, CurpProofs

\* Beside the client, the replicas behave as Curp says: the client takes their messages
\* and changes nothing of theirs.
LEMMA ReplicasFollowCurp == ClientSpec => Spec
<1>1. ClientInit => Init
  BY DEF ClientInit
<1>2. [ClientNext]_allVars => [Next]_vars
  <2>1. ClientStep => UNCHANGED vars
    BY DEF ClientStep, HandleReply, HandleRecordAck, HandleSyncReply
  <2> QED
    BY <2>1 DEF ClientNext, allVars
<1> QED
  BY <1>1, <1>2, PTL DEF ClientSpec, Spec

\* What the replicas have executed and what they have sent stays.
LEMMA MessagesStay ==
  ASSUME TypeOK, CurpInv, [Next]_vars
  PROVE  /\ replies \subseteq replies' /\ syncReplies \subseteq syncReplies'
         /\ recordAcks \subseteq recordAcks'
         /\ \A q \in Replicas : executed[q] \subseteq executed'[q]
<1>1. ASSUME NEW r \in Replicas, NEW s \in Slots, NEW V \in SUBSET Replicas, NEW kind \in Kinds,
             SlotStep(r, s, V, kind)
      PROVE  /\ replies \subseteq replies' /\ syncReplies \subseteq syncReplies'
             /\ recordAcks' = recordAcks
             /\ \A q \in Replicas : executed[q] \subseteq executed'[q]
  <2>1. PICK W \in SUBSET Replicas, A \in SUBSET {<<r, s>>}, C \in SUBSET {s}, S \in SUBSET {s} :
          Effect(r, s, V, kind, W, A, C, S)
    BY <1>1 DEF SlotStep, HasEffect
  <2>2. executed' = [executed EXCEPT ![r] = @ \cup S]
    BY <2>1 DEF Effect, Deliver
  <2> QED
    BY <1>1, <2>1, <2>2 DEF Effect, Deliver, SlotStep, TypeOK
<1>2. ASSUME OtherStep
      PROVE  /\ UNCHANGED <<replies, syncReplies, executed>>
             /\ recordAcks \subseteq recordAcks'
  BY <1>2 DEF OtherStep, slotVars, AnswerPropose, StorePropose, clientMsgs
<1> QED
  BY <1>1, <1>2, StepCases DEF CurpInv

\* A command that is durable stays so.
LEMMA DurableStays ==
  ASSUME TypeOK, CurpInv, [Next]_vars, NEW c \in Commands, Durable(c)
  PROVE  Durable(c)'
<1>1. PICK r \in Replicas : \E s \in committed[r] \cap executed[r] : cmd[r][s] = c
  BY DEF Durable
<1>2. PICK s \in committed[r] \cap executed[r] : cmd[r][s] = c
  BY <1>1
<1>3. s \in Slots /\ cmd[r][s] # NoCommand
  BY <1>2, CommandAssumption DEF TypeOK
<1>4. cmd'[r][s] = c /\ s \in committed'[r] \cap executed'[r]
  BY <1>2, <1>3, Grows, MessagesStay DEF CurpInv
<1> QED
  BY <1>4 DEF Durable

\* What the leader has executed it has executed.
LEMMA ExecutedStays ==
  ASSUME TypeOK, CurpInv, [Next]_vars, NEW c \in Commands,
         \E s \in executed[Leader] : cmd[Leader][s] = c
  PROVE  \E s \in executed'[Leader] : cmd'[Leader][s] = c
<1>1. PICK s \in executed[Leader] : cmd[Leader][s] = c
  OBVIOUS
<1>2. s \in Slots /\ cmd[Leader][s] # NoCommand
  BY <1>1, CommandAssumption, ReplicasAssumption DEF TypeOK
<1> QED
  BY <1>1, <1>2, Grows, MessagesStay, ReplicasAssumption DEF CurpInv

\* The leader replies for a command it executes now; a sync reply is sent by the proxy
\* that executes the command now, in a slot it has committed.
LEMMA RepliesStep ==
  ASSUME TypeOK, TypeOK', CurpInv, RepliesInv, [Next]_vars PROVE RepliesInv'
<1>1. ASSUME NEW r \in Replicas, NEW s \in Slots, NEW V \in SUBSET Replicas, NEW kind \in Kinds,
             SlotStep(r, s, V, kind)
      PROVE  /\ \A c \in replies' \ replies : \E t \in executed'[Leader] : cmd'[Leader][t] = c
             /\ \A c \in syncReplies' \ syncReplies : Durable(c)'
  <2>1. PICK W \in SUBSET Replicas, A \in SUBSET {<<r, s>>}, C \in SUBSET {s}, S \in SUBSET {s} :
          Effect(r, s, V, kind, W, A, C, S)
    BY <1>1 DEF SlotStep, HasEffect
  <2> DEFINE done == S \cap committed'[r]
  <2>2. /\ executed'[r] = executed[r] \cup S
        /\ replies' = replies \cup {cmd'[r][t] : t \in {u \in S \ done : DependsOnCommitted(u)}}
        /\ syncReplies' = syncReplies \cup {c \in {cmd'[r][t] : t \in done} : Proxy[c] = r}
    BY <2>1 DEF Effect, Deliver, TypeOK
  <2>3. ASSUME NEW t \in S \ done PROVE r = Leader
    BY <2>1, <2>3 DEF Effect, CanDeliver
  <2>4. \A t \in done : t \in committed'[r] \cap executed'[r]
    BY <2>2
  <2> QED
    BY <2>2, <2>3, <2>4 DEF Durable
<1>2. ASSUME OtherStep PROVE replies' = replies /\ syncReplies' = syncReplies
  BY <1>2 DEF OtherStep
<1>3. /\ \A c \in replies' \ replies : \E t \in executed'[Leader] : cmd'[Leader][t] = c
      /\ \A c \in syncReplies' \ syncReplies : Durable(c)'
  BY <1>1, <1>2, StepCases DEF CurpInv
<1>4. replies \subseteq Commands /\ syncReplies \subseteq Commands
  BY DEF TypeOK
<1>5. /\ \A c \in replies : \E s \in executed'[Leader] : cmd'[Leader][s] = c
      /\ \A c \in syncReplies : Durable(c)'
  BY <1>4, DurableStays, ExecutedStays DEF RepliesInv
<1> QED
  BY <1>3, <1>5 DEF RepliesInv
-------------------------------------------------------------------------------
\* One answer per command, and it is sent once the acks of the command are there: the
\* types of the client's state.
LEMMA ClientTypeStep ==
  ASSUME ClientTypeOK, TypeOK', AcksInv, [ClientNext]_allVars PROVE ClientTypeOK'
<1>1. ASSUME UNCHANGED clientVars PROVE ClientTypeOK'
  BY <1>1 DEF clientVars, ClientTypeOK
<1>2. ASSUME NEW c \in Commands, ~Done(c), answers' \subseteq answers \cup {<<c, val'>>},
             val' \in Commands \cup {NoCommand}, answers' # answers => val' \in Commands,
             acks' \in [Commands -> [leader : BOOLEAN, msgs : SUBSET Witnesses]]
      PROVE  ClientTypeOK'
  <2>1. answers' \subseteq Commands \X Commands
    BY <1>2 DEF ClientTypeOK
  <2>2. ASSUME NEW a \in answers', NEW b \in answers', a[1] = b[1] PROVE a = b
    <3>1. \A x \in answers : x[1] # c
      <4>1. ASSUME NEW x \in answers, x[1] = c PROVE FALSE
        <5>1. x = <<c, x[2]>> /\ x[2] \in Commands
          BY <4>1 DEF ClientTypeOK
        <5> QED
          BY <1>2, <5>1 DEF Done
      <4> QED
        BY <4>1
    <3> QED
      BY <1>2, <2>2, <3>1 DEF ClientTypeOK
  <2> QED
    BY <1>2, <2>1, <2>2 DEF ClientTypeOK
<1>3. ASSUME NEW c \in Commands, NEW a \in [leader : BOOLEAN, msgs : SUBSET Witnesses],
             Add(c, a), ~Done(c), val' \in Commands \cup {NoCommand},
             a.leader => val' \in Commands
      PROVE  ClientTypeOK'
  <2>1. acks' \in [Commands -> [leader : BOOLEAN, msgs : SUBSET Witnesses]]
    BY <1>3 DEF Add, ClientTypeOK
  <2>2. answers' \subseteq answers \cup {<<c, val'>>}
    BY <1>3 DEF Add
  <2>3. answers' # answers => val' \in Commands
    BY <1>3 DEF Add, IsFull
  <2> QED
    BY <1>2, <1>3, <2>1, <2>2, <2>3
<1>4. ASSUME NEW c \in Commands, HandleReply(c) PROVE ClientTypeOK'
  <2>1. [acks[c] EXCEPT !.leader = TRUE] \in [leader : BOOLEAN, msgs : SUBSET Witnesses]
    BY DEF ClientTypeOK
  <2> QED
    BY <1>3, <1>4, <2>1 DEF HandleReply
<1>5. ASSUME NEW c \in Commands, NEW r \in Witnesses, HandleRecordAck(r, c) PROVE ClientTypeOK'
  <2> DEFINE a == [acks[c] EXCEPT !.msgs = @ \cup {r}]
  <2>1. a \in [leader : BOOLEAN, msgs : SUBSET Witnesses] /\ a.leader = acks[c].leader
    BY DEF ClientTypeOK
  <2>2. Add(c, a) /\ ~Done(c) /\ val' = val
    BY <1>5 DEF HandleRecordAck
  <2>3. a.leader => val \in Commands
    BY <2>1 DEF AcksInv, ClientTypeOK
  <2> HIDE DEF a
  <2> QED
    BY <1>3, <2>1, <2>2, <2>3 DEF ClientTypeOK
<1>6. ASSUME NEW c \in Commands, HandleSyncReply(c) PROVE ClientTypeOK'
  BY <1>2, <1>6 DEF HandleSyncReply, ClientTypeOK
<1> QED
  BY <1>1, <1>4, <1>5, <1>6 DEF ClientNext, ClientStep, allVars

\* The client's acks and answers against the messages of its replicas: a step of a replica
\* leaves the first alone and adds to the second.
LEMMA ReplicaKeepsClientInv ==
  ASSUME ClientTypeOK, TypeOK', CurpInv, ClientInv, [Next]_vars, UNCHANGED clientVars
  PROVE  ClientInv'
<1>1. TypeOK
  BY DEF ClientTypeOK
<1>2. RepliesInv'
  BY <1>1, RepliesStep DEF ClientInv
<1>3. AcksInv'
  BY <1>1, MessagesStay DEF ClientInv, AcksInv, clientVars
<1>4. ASSUME NEW c \in Commands, Durable(c) \/ FastDone(c)
      PROVE  Durable(c)' \/ FastDone(c)'
  <2>1. ASSUME FastDone(c) PROVE FastDone(c)'
    <3> DEFINE A == {r \in Witnesses : <<r, c, TRUE>> \in recordAcks}
               B == {r \in Witnesses : <<r, c, TRUE>> \in recordAcks'}
    <3>1. A \subseteq B /\ c \in replies'
      BY <1>1, <2>1, MessagesStay DEF FastDone, FastAnswer
    <3>2. IsFiniteSet(B)
      BY ReplicasAssumption, FS_Subset DEF Witnesses
    <3>3. /\ Cardinality(A) <= Cardinality(B)
          /\ Cardinality(A) \in Nat /\ Cardinality(B) \in Nat
      <4> HIDE DEF A, B
      <4> QED
        BY <3>1, <3>2, FS_Subset, FS_CardinalityType
    <3>4. Cardinality(A) >= ThreeQuarters - 1
      BY <2>1 DEF FastDone, FastAnswer
    <3>5. Cardinality(B) >= ThreeQuarters - 1
      <4> HIDE DEF A, B
      <4> QED
        BY <3>3, <3>4, MajorityType DEF ThreeQuarters
    <3>6. FastAnswer(c)'
      BY <3>1, <3>5 DEF FastAnswer, Witnesses, ThreeQuarters
    <3> QED
      BY <1>1, <2>1, <3>6, ExecutedStays DEF FastDone
  <2> QED
    BY <1>1, <1>4, <2>1, DurableStays
<1>5. \A c \in Commands : Done(c)' <=> Done(c)
  BY DEF Done, clientVars
<1>6. AnsweredIsSafe'
  BY <1>4, <1>5 DEF AnsweredIsSafe, ClientInv
<1> QED
  BY <1>2, <1>3, <1>6 DEF ClientInv

\* A message makes the client answer c only if it completes the acks of c, which are then
\* those of a fast answer, or is the sync reply of c.
LEMMA ClientKeepsClientInv ==
  ASSUME ClientTypeOK, ClientInv, ClientStep PROVE ClientInv'
<1>1. UNCHANGED vars
  BY DEF ClientStep, HandleReply, HandleRecordAck, HandleSyncReply
<1>2. ASSUME NEW c \in Commands, Durable(c) \/ FastDone(c) PROVE Durable(c)' \/ FastDone(c)'
  BY <1>2, <1>1 DEF vars, clientMsgs, slotVars, Durable, FastDone, FastAnswer
<1>3. RepliesInv'
  BY <1>1 DEF vars, clientMsgs, slotVars, ClientInv, RepliesInv, Durable
<1>4. replies' = replies /\ recordAcks' = recordAcks
  BY <1>1 DEF vars, clientMsgs
<1>5. ASSUME NEW c \in Commands, NEW d \in Commands, answers' \subseteq answers \cup {<<c, val'>>},
             Done(d)'
      PROVE  Done(d) \/ d = c
  BY <1>5 DEF Done
<1>6. ASSUME NEW c \in Commands, Durable(c) \/ FastDone(c), answers' \subseteq answers \cup {<<c, val'>>}
      PROVE  AnsweredIsSafe'
  <2> SUFFICES ASSUME NEW d \in Commands, Done(d)' PROVE Durable(d)' \/ FastDone(d)'
    BY DEF AnsweredIsSafe
  <2>1. Durable(d) \/ FastDone(d)
    BY <1>5, <1>6 DEF AnsweredIsSafe, ClientInv
  <2> QED
    BY <1>2, <2>1
<1>7. ASSUME NEW c \in Commands, NEW a \in [leader : BOOLEAN, msgs : SUBSET Witnesses],
             Add(c, a), a.leader => c \in replies /\ val' # NoCommand,
             \A r \in a.msgs : <<r, c, TRUE>> \in recordAcks, val' \in {val, c}
      PROVE  AcksInv' /\ AnsweredIsSafe'
  <2>1. val # NoCommand => val' # NoCommand
    BY <1>7, CommandAssumption
  <2>2. \A d \in Commands : acks'[d] = IF d = c THEN a ELSE acks[d]
    BY <1>7 DEF Add, ClientTypeOK
  <2>3. AcksInv'
    BY <1>4, <1>7, <2>1, <2>2 DEF AcksInv, ClientInv
  <2>4. CASE ~IsFull(a)
    <3>1. answers' = answers
      BY <1>7, <2>4 DEF Add
    <3>2. \A d \in Commands : Done(d)' <=> Done(d)
      BY <3>1 DEF Done
    <3>3. AnsweredIsSafe'
      BY <1>2, <3>2 DEF AnsweredIsSafe, ClientInv
    <3> QED
      BY <2>3, <3>3
  <2>5. CASE IsFull(a)
    <3> DEFINE A == {r \in Witnesses : <<r, c, TRUE>> \in recordAcks}
    <3>1. a.msgs \subseteq A /\ IsFiniteSet(A)
      BY <1>7, ReplicasAssumption, FS_Subset DEF Witnesses
    <3>2. /\ Cardinality(a.msgs) <= Cardinality(A)
          /\ Cardinality(a.msgs) \in Nat /\ Cardinality(A) \in Nat
      <4> HIDE DEF A
      <4> QED
        BY <3>1, FS_Subset, FS_CardinalityType
    <3>3. Cardinality(A) >= ThreeQuarters - 1
      <4> HIDE DEF A
      <4> QED
        BY <2>5, <3>2, MajorityType DEF IsFull, ThreeQuarters
    <3>4. c \in replies
      BY <1>7, <2>5 DEF IsFull
    <3>5. FastDone(c)
      BY <3>3, <3>4 DEF FastDone, FastAnswer, ClientInv, RepliesInv
    <3>6. answers' \subseteq answers \cup {<<c, val'>>}
      BY <1>7 DEF Add
    <3> QED
      BY <1>6, <2>3, <3>5, <3>6
  <2> QED
    BY <2>3, <2>4, <2>5
<1>8. ASSUME NEW c \in Commands, HandleReply(c) PROVE AcksInv' /\ AnsweredIsSafe'
  <2> DEFINE a == [acks[c] EXCEPT !.leader = TRUE]
  <2>1. /\ a \in [leader : BOOLEAN, msgs : SUBSET Witnesses]
        /\ a.msgs = acks[c].msgs
    BY DEF ClientTypeOK
  <2>2. Add(c, a) /\ c \in replies /\ val' = c
    BY <1>8 DEF HandleReply
  <2>3. \A r \in a.msgs : <<r, c, TRUE>> \in recordAcks
    BY <2>1 DEF ClientInv, AcksInv
  <2> HIDE DEF a
  <2> QED
    BY <1>7, <2>1, <2>2, <2>3, CommandAssumption
<1>9. ASSUME NEW c \in Commands, NEW r \in Witnesses, HandleRecordAck(r, c)
      PROVE  AcksInv' /\ AnsweredIsSafe'
  <2> DEFINE a == [acks[c] EXCEPT !.msgs = @ \cup {r}]
  <2>1. /\ a \in [leader : BOOLEAN, msgs : SUBSET Witnesses]
        /\ a.leader = acks[c].leader /\ a.msgs = acks[c].msgs \cup {r}
    BY DEF ClientTypeOK
  <2>2. Add(c, a) /\ val' = val /\ <<r, c, TRUE>> \in recordAcks
    BY <1>9 DEF HandleRecordAck
  <2>3. /\ \A q \in a.msgs : <<q, c, TRUE>> \in recordAcks
        /\ a.leader => c \in replies /\ val' # NoCommand
    BY <2>1, <2>2 DEF ClientInv, AcksInv
  <2> HIDE DEF a
  <2> QED
    BY <1>7, <2>1, <2>2, <2>3
<1>10. ASSUME NEW c \in Commands, HandleSyncReply(c) PROVE AcksInv' /\ AnsweredIsSafe'
  <2>1. /\ c \in syncReplies /\ val' = c /\ acks' = acks
        /\ answers' \subseteq answers \cup {<<c, val'>>}
    BY <1>10 DEF HandleSyncReply
  <2>2. Durable(c)
    BY <2>1 DEF ClientInv, RepliesInv
  <2>3. AcksInv'
    BY <1>4, <2>1, CommandAssumption DEF ClientInv, AcksInv
  <2> QED
    BY <1>6, <2>1, <2>2, <2>3
<1> QED
  BY <1>3, <1>8, <1>9, <1>10 DEF ClientStep, ClientInv
-------------------------------------------------------------------------------
\* The inductive invariant of the client: its acks are messages that were sent, replies are
\* for executed commands, and an answer is for a command that is safe.
THEOREM ClientInvariant == ClientSpec => [](ClientTypeOK /\ ClientInv)
<1>1. ClientInit /\ TypeOK => ClientTypeOK /\ ClientInv
  <2> SUFFICES ASSUME ClientInit, TypeOK PROVE ClientTypeOK /\ ClientInv
    OBVIOUS
  <2>1. ClientTypeOK
    BY DEF ClientInit, ClientTypeOK
  <2>2. ClientInv
    BY DEF ClientInit, Init, ClientInv, AcksInv, RepliesInv, AnsweredIsSafe, Done
  <2> QED
    BY <2>1, <2>2
<1>2. TypeOK' /\ CurpInv /\ ClientTypeOK /\ ClientInv /\ [ClientNext]_allVars
        => ClientTypeOK' /\ ClientInv'
  <2> SUFFICES ASSUME TypeOK', CurpInv, ClientTypeOK, ClientInv, [ClientNext]_allVars
               PROVE  ClientTypeOK' /\ ClientInv'
    OBVIOUS
  <2>1. ClientTypeOK'
    BY ClientTypeStep DEF ClientInv
  <2>2. CASE ClientStep
    BY <2>1, <2>2, ClientKeepsClientInv
  <2>3. CASE [Next]_vars /\ UNCHANGED clientVars
    BY <2>1, <2>3, ReplicaKeepsClientInv
  <2> QED
    BY <2>1, <2>2, <2>3 DEF ClientNext, allVars
<1> QED
  BY <1>1, <1>2, ReplicasFollowCurp, TypeCorrect, CurpInvariant, PTL DEF ClientSpec

\* The client's state keeps its type, with one answer at most for each command: a second
\* completion of a command is dropped (handleReply to handleAcks).
THEOREM ClientTypeCorrect == ClientFairSpec => []ClientTypeOK
BY ClientInvariant, PTL DEF ClientFairSpec

\* A command the client is told done is executed in a committed slot, or executed by the
\* leader and accepted by a fast quorum, in whatever order the messages come.
THEOREM AnsweredIsSafeHolds == ClientFairSpec => []AnsweredIsSafe
BY ClientInvariant, PTL DEF ClientFairSpec, ClientInv
===============================================================================
