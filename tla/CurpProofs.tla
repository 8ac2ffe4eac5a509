----------------------------- MODULE CurpProofs -----------------------------
(***************************************************************************)
(* Theorems about Curp, for every set of replicas with more than one       *)
(* member, every set of commands and keys, any number of slots and any     *)
(* assignment of proxies.                                                  *)
(***************************************************************************)
EXTENDS Curp, FiniteSetTheorems, TLAPS

\* A majority is a number, as the replicas are finitely many.
LEMMA MajorityType == Cardinality(Replicas) \in Nat /\ Majority \in Nat
BY ReplicasAssumption, FS_CardinalityType DEF Majority

\* What a handler that reaches Calls does: r adds a vote and an ack of its own at most,
\* commits the slot if a majority has voted, and delivers it if deliver lets it; all
\* this only if the proposal of the slot's command is there.
Effect(r, s, V, kind, W, A, C, S) ==
  /\ V \subseteq W /\ W \subseteq V \cup {r}
  /\ W # V => A = {<<r, s>>}
  /\ C # {} => Cardinality(W) >= Majority
  /\ A \cup C \cup S # {} => cmd'[r][s] \in proposes'[r]
  /\ votes' = [votes EXCEPT ![r][s] = W]
  /\ acceptAcks' = acceptAcks \cup A
  /\ committed' = [committed EXCEPT ![r] = @ \cup C]
  /\ \A t \in S : CanDeliver(r, t)
  /\ Deliver(r, s, S)
  /\ WakesUp(r, S, C, {t \in {s} : kind = "deliver"})

HasEffect(r, s, V, kind) ==
  \E W \in SUBSET Replicas, A \in SUBSET {<<r, s>>}, C \in SUBSET {s}, S \in SUBSET {s} :
    Effect(r, s, V, kind, W, A, C, S)

\* A handler that reaches Calls has this effect.
LEMMA CallsEffect ==
  ASSUME NEW r \in Replicas, NEW s \in Slots, NEW V \in SUBSET Replicas, NEW kind,
         Calls(r, s, V, kind)
  PROVE  HasEffect(r, s, V, kind)
<1> DEFINE called == kind = "ack" => Cardinality(V) >= Majority
           ready == called /\ cmd'[r][s] \in proposes'[r]
           W == IF ready THEN V \cup {r} ELSE V
           A == {<<r, t>> : t \in {u \in {s} : ready}}
           C == {t \in {s} \ committed[r] : ready /\ Cardinality(W) >= Majority}
           tries == ready /\ (C # {} \/ kind \in {"propose", "deliver"})
           S == {t \in {s} : tries /\ CanDeliver(r, t)}
<1>1. /\ votes' = [votes EXCEPT ![r][s] = W]
      /\ acceptAcks' = acceptAcks \cup A
      /\ committed' = [committed EXCEPT ![r] = @ \cup C]
      /\ Deliver(r, s, S)
      /\ WakesUp(r, S, C, {t \in {s} : kind = "deliver"})
  BY DEF Calls
<1>2. /\ W \in SUBSET Replicas /\ A \in SUBSET {<<r, s>>}
      /\ C \in SUBSET {s} /\ S \in SUBSET {s}
  OBVIOUS
<1>3. V \subseteq W /\ W \subseteq V \cup {r}
  OBVIOUS
<1>4. W # V => A = {<<r, s>>}
  OBVIOUS
<1>5. C # {} => Cardinality(W) >= Majority
  OBVIOUS
<1>6. A \cup C \cup S # {} => cmd'[r][s] \in proposes'[r]
  OBVIOUS
<1>7. \A t \in S : CanDeliver(r, t)
  OBVIOUS
<1> HIDE DEF W, A, C, S
<1> QED
  BY <1>1, <1>2, <1>3, <1>4, <1>5, <1>6, <1>7 DEF Effect, HasEffect

\* The types of what Calls changes.
LEMMA CallsType ==
  ASSUME TypeOK, NEW r \in Replicas, NEW s \in Slots, NEW V \in SUBSET Replicas, NEW kind,
         Calls(r, s, V, kind), kind = "deliver" => deliverChan[r][s] > 0,
         cmd' \in [Replicas -> [Slots -> Commands \cup {NoCommand}]],
         proposes' \in [Replicas -> SUBSET Commands]
  PROVE  /\ unsynced' \in [Replicas -> [Keys -> Nat]]
         /\ synced' \in [Replicas -> SUBSET Commands]
         /\ acceptAcks' \subseteq Replicas \X Slots
         /\ replies' \subseteq Commands
         /\ syncReplies' \subseteq Commands
         /\ votes' \in [Replicas -> [Slots -> SUBSET Replicas]]
         /\ committed' \in [Replicas -> SUBSET Slots]
         /\ deliverChan' \in [Replicas -> [Slots -> Nat]]
         /\ executed' \in [Replicas -> SUBSET Slots]
         /\ delivered' \in [Replicas -> SUBSET Slots]
         /\ log' \in [Replicas -> Seq(Commands)]
<1>1. PICK W \in SUBSET Replicas, A \in SUBSET {<<r, s>>}, C \in SUBSET {s}, S \in SUBSET {s} :
        Effect(r, s, V, kind, W, A, C, S)
  <2>1. HasEffect(r, s, V, kind)
    BY CallsEffect
  <2> QED
    BY <2>1 DEF HasEffect
<1>2. S # {} => cmd'[r][s] \in Commands
  BY <1>1 DEF Effect
<1>3. Sync(r, {cmd'[r][t] : t \in {u \in S : r # Leader}})
  BY <1>1 DEF Effect, Deliver
<1>4. {cmd'[r][t] : t \in {u \in S : r # Leader}} \subseteq Commands
  BY <1>2
<1>5. /\ unsynced' \in [Replicas -> [Keys -> Nat]]
      /\ synced' \in [Replicas -> SUBSET Commands]
  <2> HIDE DEF Keys
  <2> QED
    BY <1>3, <1>4 DEF Sync, TypeOK
<1>6. log' \in [Replicas -> Seq(Commands)]
  BY <1>1, <1>2 DEF Effect, Deliver, TypeOK
<1>7. deliverChan' \in [Replicas -> [Slots -> Nat]]
  BY <1>1 DEF Effect, WakesUp, TypeOK
<1>8. /\ replies' \subseteq Commands /\ syncReplies' \subseteq Commands
  BY <1>1, <1>2 DEF Effect, Deliver, TypeOK
<1>9. /\ executed' \in [Replicas -> SUBSET Slots]
      /\ delivered' \in [Replicas -> SUBSET Slots]
  BY <1>1 DEF Effect, Deliver, TypeOK
<1>10. /\ acceptAcks' \subseteq Replicas \X Slots
       /\ votes' \in [Replicas -> [Slots -> SUBSET Replicas]]
       /\ committed' \in [Replicas -> SUBSET Slots]
  BY <1>1 DEF Effect, TypeOK
<1> QED
  BY <1>5, <1>6, <1>7, <1>8, <1>9, <1>10

\* The leader takes a proposal into a slot.
LEMMA TakesType ==
  ASSUME TypeOK, NEW s \in Slots, NEW c \in Commands, NEW d \in Slots \cup {NoSlot},
         TakesPropose(s, c, d), proposes' \in [Replicas -> SUBSET Commands],
         lastCmdSlot' \in 0 .. LastSlot + 1, lastOn' \in [Keys -> Slots \cup {NoSlot}],
         pending' \subseteq Slots \X Commands, UNCHANGED <<early, recording, recordAcks>>
  PROVE  TypeOK'
<1>1. cmd' \in [Replicas -> [Slots -> Commands \cup {NoCommand}]]
  BY DEF TakesPropose, TypeOK
<1>2. /\ dep' \in [Slots -> Slots \cup {NoSlot}]
      /\ successor' \in [Slots -> Slots \cup {NoSlot}]
      /\ accepts' \subseteq Slots \X Commands
  BY DEF TakesPropose, TypeOK
<1>3. votes[Leader][s] \in SUBSET Replicas
  BY ReplicasAssumption DEF TypeOK
<1>4. Calls(Leader, s, votes[Leader][s], "propose")
  BY DEF TakesPropose
<1> QED
  BY <1>1, <1>2, <1>3, <1>4, CallsType, ReplicasAssumption DEF TypeOK

\* Each step keeps every variable in its type.
LEMMA TypeStep == TypeOK /\ [Next]_vars => TypeOK'
<1> SUFFICES ASSUME TypeOK, [Next]_vars PROVE TypeOK'
  OBVIOUS
<1> USE ReplicasAssumption, BoundAssumption
<1>1. ASSUME NEW c \in Commands, GivesSlot(c)
      PROVE  /\ lastCmdSlot \in Slots
             /\ proposes' \in [Replicas -> SUBSET Commands]
             /\ lastCmdSlot' \in 0 .. LastSlot + 1
             /\ lastOn' \in [Keys -> Slots \cup {NoSlot}]
             /\ lastOn[Key[c]] \in Slots \cup {NoSlot}
             /\ UNCHANGED <<early, recording, recordAcks>>
  <2>1. Key[c] \in Keys
    BY DEF Keys
  <2> QED
    BY <1>1, <2>1 DEF GivesSlot, TypeOK, Slots
<1>2. ASSUME NEW c \in Commands, LeaderPropose(c)
      PROVE  TypeOK'
  <2>1. GivesSlot(c) /\ TakesPropose(lastCmdSlot, c, lastOn[Key[c]]) /\ pending' = pending
    BY <1>2 DEF LeaderPropose
  <2>2. pending \subseteq Slots \X Commands
    BY DEF TypeOK
  <2> QED
    BY <1>1, <2>1, <2>2, TakesType
<1>3. ASSUME NEW c \in Commands, LeaderSendsPropose(c)
      PROVE  TypeOK'
  <2>1. pending' \subseteq Slots \X Commands
    BY <1>1, <1>3 DEF LeaderSendsPropose, TypeOK
  <2> QED
    BY <1>1, <1>3, <2>1
       DEF LeaderSendsPropose, TypeOK, depVars, witnessVars, peerMsgs, slotVars
<1>4. ASSUME NEW s \in Slots, NEW c \in Commands, HandlePropose(s, c)
      PROVE  TypeOK'
  <2>1. /\ UNCHANGED <<lastCmdSlot, lastOn, early, proposes, recording, recordAcks>>
        /\ pending' \subseteq pending
        /\ TakesPropose(s, c, NoSlot)
    BY <1>4 DEF HandlePropose
  <2>2. /\ proposes' \in [Replicas -> SUBSET Commands]
        /\ lastCmdSlot' \in 0 .. LastSlot + 1
        /\ lastOn' \in [Keys -> Slots \cup {NoSlot}]
        /\ pending' \subseteq Slots \X Commands
    BY <2>1 DEF TypeOK
  <2> QED
    BY <2>1, <2>2, TakesType
<1>5. ASSUME NEW r \in Replicas, NEW c \in Commands, StorePropose(r, c)
      PROVE  TypeOK'
  BY <1>5 DEF StorePropose, TypeOK, leaderVars, depVars, witnessVars, peerMsgs, clientMsgs, slotVars
<1>6. ASSUME NEW r \in Replicas, AnswerPropose(r)
      PROVE  TypeOK'
  <2> DEFINE c == recording[r]
  <2>1. c \in Commands
    BY <1>6 DEF AnswerPropose, TypeOK
  <2>2. Key[c] \in Keys
    BY <2>1 DEF Keys
  <2>3. recording' \in [Replicas -> Commands \cup {NoCommand}]
    BY <1>6 DEF AnswerPropose, TypeOK
  <2>4. recordAcks' \subseteq Replicas \X Commands \X BOOLEAN
    <3>1. Ok(r, c) \in BOOLEAN
      BY DEF Ok
    <3>2. recordAcks' = recordAcks \cup {<<r, c, Ok(r, c)>>}
      BY <1>6 DEF AnswerPropose
    <3> HIDE DEF c
    <3> QED
      BY <2>1, <3>1, <3>2 DEF TypeOK
  <2>5. unsynced' \in [Replicas -> [Keys -> Nat]]
    BY <1>6, <2>2 DEF AnswerPropose, TypeOK
  <2>6. deliverChan' \in [Replicas -> [Slots -> Nat]]
    BY <1>6 DEF AnswerPropose, TypeOK
  <2> QED
    BY <1>6, <2>3, <2>4, <2>5, <2>6 DEF AnswerPropose, TypeOK, leaderVars, depVars, peerMsgs, slotVars
<1>7. ASSUME OnlySlot
      PROVE  /\ lastCmdSlot' \in 0 .. LastSlot + 1
             /\ lastOn' \in [Keys -> Slots \cup {NoSlot}]
             /\ pending' \subseteq Slots \X Commands
             /\ dep' \in [Slots -> Slots \cup {NoSlot}]
             /\ successor' \in [Slots -> Slots \cup {NoSlot}]
             /\ proposes' \in [Replicas -> SUBSET Commands]
             /\ recording' \in [Replicas -> Commands \cup {NoCommand}]
             /\ accepts' \subseteq Slots \X Commands
             /\ recordAcks' \subseteq Replicas \X Commands \X BOOLEAN
  BY <1>7 DEF OnlySlot, TypeOK, depVars
<1>8. ASSUME NEW r \in Replicas, NEW s \in Slots, NEW V \in SUBSET Replicas, NEW kind,
             Calls(r, s, V, kind), kind = "deliver" => deliverChan[r][s] > 0, OnlySlot,
             cmd' \in [Replicas -> [Slots -> Commands \cup {NoCommand}]], early' \subseteq Slots
      PROVE  TypeOK'
  BY <1>7, <1>8, CallsType DEF TypeOK
<1>9. ASSUME NEW r \in Replicas, NEW s \in Slots, NEW c \in Commands, HandleAccept(r, s, c)
      PROVE  TypeOK'
  <2>1. /\ cmd' \in [Replicas -> [Slots -> Commands \cup {NoCommand}]]
        /\ early' \subseteq Slots
        /\ votes[r][s] \in SUBSET Replicas
    BY <1>9 DEF HandleAccept, TypeOK
  <2>2. OnlySlot /\ Calls(r, s, votes[r][s], "accept")
    BY <1>9 DEF HandleAccept
  <2> QED
    BY <1>8, <2>1, <2>2
<1>10. ASSUME NEW r \in Replicas, NEW q \in Replicas, NEW s \in Slots, HandleAcceptAck(r, q, s)
       PROVE  TypeOK'
  <2>1. /\ cmd' \in [Replicas -> [Slots -> Commands \cup {NoCommand}]]
        /\ early' \subseteq Slots
        /\ votes[r][s] \cup {q} \in SUBSET Replicas
    BY <1>10 DEF HandleAcceptAck, TypeOK
  <2>2. OnlySlot /\ Calls(r, s, votes[r][s] \cup {q}, "ack")
    BY <1>10 DEF HandleAcceptAck
  <2> QED
    BY <1>8, <2>1, <2>2
<1>11. ASSUME NEW r \in Replicas, NEW s \in Slots, HandleDeliver(r, s)
       PROVE  TypeOK'
  <2>1. /\ cmd' \in [Replicas -> [Slots -> Commands \cup {NoCommand}]]
        /\ early' \subseteq Slots
        /\ votes[r][s] \in SUBSET Replicas
    BY <1>11 DEF HandleDeliver, TypeOK
  <2>2. OnlySlot /\ Calls(r, s, votes[r][s], "deliver") /\ deliverChan[r][s] > 0
    BY <1>11 DEF HandleDeliver
  <2> QED
    BY <1>8, <2>1, <2>2
<1>12. CASE UNCHANGED vars
  BY <1>12 DEF vars, TypeOK, leaderVars, depVars, witnessVars, peerMsgs, clientMsgs, slotVars
<1> QED
  BY <1>2, <1>3, <1>4, <1>5, <1>6, <1>9, <1>10, <1>11, <1>12 DEF Next, ReplicaStep

\* Type correctness of the whole state of the replicas, their network and clients; in
\* particular the count of unsynced commands is never negative (sync, line 416).
THEOREM TypeCorrect == Spec => []TypeOK
<1>1. Init => TypeOK
  <2> SUFFICES ASSUME Init PROVE TypeOK
    OBVIOUS
  <2>1. log \in [Replicas -> Seq(Commands)]
    BY DEF Init
  <2> QED
    BY <2>1, BoundAssumption DEF Init, TypeOK, Slots
<1> QED
  BY <1>1, TypeStep, PTL DEF Spec
-------------------------------------------------------------------------------
\* The leader's counter and its dropped duplicates keep slots and commands paired.
LEMMA SlotsStep ==
  ASSUME TypeOK, SlotsInv, [Next]_vars PROVE SlotsInv'
<1>1. ASSUME NEW c \in Commands, GivesSlot(c),
             pending' \cup accepts' = (pending \cup accepts) \cup {<<lastCmdSlot, c>>}
      PROVE  SlotsInv'
  <2> DEFINE new == <<lastCmdSlot, c>>
  <2>1. /\ pending' \cup accepts' = (pending \cup accepts) \cup {new}
        /\ lastCmdSlot' = lastCmdSlot + 1
        /\ lastCmdSlot \in Nat
    BY <1>1 DEF GivesSlot, Slots
  <2>2. proposes'[Leader] = proposes[Leader] \cup {c} /\ c \notin proposes[Leader]
    BY <1>1, ReplicasAssumption DEF GivesSlot, TypeOK
  <2>3. \A p \in pending \cup accepts :
          /\ p[1] \in Int /\ p[1] < lastCmdSlot
          /\ p[2] \in proposes[Leader]
    BY DEF SlotsInv, TypeOK, Slots
  <2>4. ASSUME NEW p \in (pending \cup accepts) \cup {new}
        PROVE  p[1] < lastCmdSlot + 1 /\ p[2] \in proposes'[Leader]
    BY <2>1, <2>2, <2>3, <2>4
  <2>5. ASSUME NEW p \in (pending \cup accepts) \cup {new},
               NEW q \in (pending \cup accepts) \cup {new},
               p[1] = q[1] \/ p[2] = q[2]
        PROVE  p = q
    <3>1. CASE p \in pending \cup accepts /\ q \in pending \cup accepts
      BY <2>5, <3>1 DEF SlotsInv
    <3>2. \A x \in pending \cup accepts : x[1] # new[1] /\ x[2] # new[2]
      BY <2>1, <2>2, <2>3
    <3> QED
      BY <2>5, <3>1, <3>2
  <2> HIDE DEF new
  <2> QED
    BY <2>1, <2>4, <2>5 DEF SlotsInv
<1>2. ASSUME NEW c \in Commands, LeaderPropose(c)
      PROVE  SlotsInv'
  <2>1. accepts' = accepts \cup {<<lastCmdSlot, c>>} /\ pending' = pending /\ GivesSlot(c)
    BY <1>2 DEF LeaderPropose, TakesPropose
  <2>2. pending' \cup accepts' = (pending \cup accepts) \cup {<<lastCmdSlot, c>>}
    BY <2>1
  <2> QED
    BY <1>1, <2>1, <2>2
<1>3. ASSUME NEW c \in Commands, LeaderSendsPropose(c)
      PROVE  SlotsInv'
  <2>1. accepts' = accepts /\ pending' = pending \cup {<<lastCmdSlot, c>>} /\ GivesSlot(c)
    BY <1>3 DEF LeaderSendsPropose, peerMsgs
  <2>2. pending' \cup accepts' = (pending \cup accepts) \cup {<<lastCmdSlot, c>>}
    BY <2>1
  <2> QED
    BY <1>1, <2>1, <2>2
<1>4. ASSUME NEW s \in Slots, NEW c \in Commands, HandlePropose(s, c)
      PROVE  SlotsInv'
  <2>1. pending' \cup accepts' = pending \cup accepts
    BY <1>4 DEF HandlePropose, TakesPropose
  <2>2. UNCHANGED <<lastCmdSlot, proposes>>
    BY <1>4 DEF HandlePropose
  <2> QED
    BY <2>1, <2>2 DEF SlotsInv
<1>5. ASSUME NEW r \in Replicas, NEW c \in Commands, StorePropose(r, c)
      PROVE  SlotsInv'
  BY <1>5 DEF StorePropose, SlotsInv, TypeOK, Witnesses, leaderVars, peerMsgs
<1>6. CASE UNCHANGED <<lastCmdSlot, proposes, pending, accepts>>
  BY <1>6 DEF SlotsInv
<1> QED
  BY <1>2, <1>3, <1>4, <1>5, <1>6
     DEF Next, ReplicaStep, AnswerPropose, HandleAccept, HandleAcceptAck, HandleDeliver,
         OnlySlot, vars, leaderVars, peerMsgs

\* A message reaches slot s of r, which may thereby learn its command: one the leader
\* sent for it, and the first.
SlotStep(r, s, V, kind) ==
  /\ HasEffect(r, s, V, kind)
  /\ votes[r][s] \subseteq V
  /\ \A q \in V : q \in votes[r][s] \/ <<q, s>> \in acceptAcks
  /\ accepts \subseteq accepts'
  /\ \/ cmd' = cmd
     \/ \E c \in Commands : /\ cmd' = [cmd EXCEPT ![r][s] = c]
                            /\ <<s, c>> \in accepts'
                            /\ cmd[r][s] \in {NoCommand, c}
  /\ UNCHANGED <<recording, recordAcks>>
  /\ \A q \in Witnesses : proposes'[q] = proposes[q]

\* Every other step is one of the run loop on a proposal, or touches no slot and no
\* witness.
OtherStep ==
  /\ UNCHANGED <<cmd, slotVars, peerMsgs, replies, syncReplies>>
  /\ \/ \E r \in Replicas : AnswerPropose(r)
     \/ \E r \in Replicas, c \in Commands : StorePropose(r, c)
     \/ /\ UNCHANGED <<witnessVars, recording, recordAcks>>
        /\ \A q \in Witnesses : proposes'[q] = proposes[q]

\* The kinds of messages that reach a slot.
Kinds == {"propose", "accept", "ack", "deliver"}

\* A proposal the leader takes into a slot is the first of that slot.
LEMMA TakesIsSlotStep ==
  ASSUME TypeOK, VotesInv, NEW s \in Slots, NEW c \in Commands, NEW d,
         TakesPropose(s, c, d), UNCHANGED <<recording, recordAcks>>,
         \A q \in Witnesses : proposes'[q] = proposes[q],
         \A e \in Commands : <<s, e>> \in accepts => e = c
  PROVE  SlotStep(Leader, s, votes[Leader][s], "propose")
<1>1. Calls(Leader, s, votes[Leader][s], "propose")
  BY DEF TakesPropose
<1>2. votes[Leader][s] \in SUBSET Replicas /\ cmd[Leader][s] \in Commands \cup {NoCommand}
  BY ReplicasAssumption DEF TypeOK
<1>3. HasEffect(Leader, s, votes[Leader][s], "propose")
  BY <1>1, <1>2, CallsEffect, ReplicasAssumption
<1>4. cmd[Leader][s] \in {NoCommand, c}
  BY <1>2, ReplicasAssumption DEF VotesInv
<1>5. /\ cmd' = [cmd EXCEPT ![Leader][s] = c]
      /\ accepts \subseteq accepts' /\ <<s, c>> \in accepts'
  BY DEF TakesPropose
<1> QED
  BY <1>3, <1>4, <1>5 DEF SlotStep

\* Every step works on one slot, or changes no slot, vote or log.
LEMMA StepCases ==
  ASSUME TypeOK, SlotsInv, VotesInv, [Next]_vars
  PROVE  \/ \E r \in Replicas, s \in Slots, V \in SUBSET Replicas, kind \in Kinds :
              SlotStep(r, s, V, kind)
         \/ OtherStep
<1> DEFINE Goal == \/ \E r \in Replicas, s \in Slots, V \in SUBSET Replicas, kind \in Kinds :
                        SlotStep(r, s, V, kind)
                   \/ OtherStep
<1>1. ASSUME NEW r \in Replicas, NEW s \in Slots, NEW V \in SUBSET Replicas, NEW kind \in Kinds,
             SlotStep(r, s, V, kind)
      PROVE  Goal
  BY <1>1
<1>2. ASSUME OtherStep PROVE Goal
  BY <1>2
<1> HIDE DEF Goal
<1>3. ASSUME NEW c \in Commands, GivesSlot(c)
      PROVE  \A q \in Witnesses : proposes'[q] = proposes[q]
  BY <1>3 DEF GivesSlot, TypeOK, Witnesses
<1>4. ASSUME NEW c \in Commands, LeaderPropose(c)
      PROVE  Goal
  <2>1. /\ GivesSlot(c) /\ TakesPropose(lastCmdSlot, c, lastOn[Key[c]])
        /\ lastCmdSlot \in Slots
        /\ UNCHANGED <<recording, recordAcks>>
    BY <1>4 DEF LeaderPropose, GivesSlot
  <2>2. \A e \in Commands : <<lastCmdSlot, e>> \notin accepts
    BY <2>1 DEF SlotsInv, Slots
  <2>3. votes[Leader][lastCmdSlot] \in SUBSET Replicas /\ "propose" \in Kinds
    BY <2>1, ReplicasAssumption DEF TypeOK, Kinds
  <2>4. SlotStep(Leader, lastCmdSlot, votes[Leader][lastCmdSlot], "propose")
    BY <1>3, <2>1, <2>2, TakesIsSlotStep
  <2> QED
    BY <1>1, <2>1, <2>3, <2>4, ReplicasAssumption
<1>5. ASSUME NEW c \in Commands, LeaderSendsPropose(c)
      PROVE  Goal
  <2>1. UNCHANGED <<cmd, slotVars, peerMsgs, replies, syncReplies, witnessVars, recording, recordAcks>>
    BY <1>5 DEF LeaderSendsPropose, GivesSlot
  <2>2. \A q \in Witnesses : proposes'[q] = proposes[q]
    BY <1>3, <1>5 DEF LeaderSendsPropose
  <2> QED
    BY <1>2, <2>1, <2>2 DEF OtherStep
<1>6. ASSUME NEW s \in Slots, NEW c \in Commands, HandlePropose(s, c)
      PROVE  Goal
  <2>1. /\ TakesPropose(s, c, NoSlot) /\ <<s, c>> \in pending
        /\ UNCHANGED <<recording, recordAcks, proposes>>
    BY <1>6 DEF HandlePropose
  <2>2. ASSUME NEW e \in Commands, <<s, e>> \in accepts PROVE e = c
    <3>1. <<s, e>> = <<s, c>>
      <4> DEFINE x == <<s, e>>
                 y == <<s, c>>
      <4>1. x \in pending \cup accepts /\ y \in pending \cup accepts /\ x[1] = y[1]
        BY <2>1, <2>2
      <4> HIDE DEF x, y
      <4>2. x = y
        BY <4>1 DEF SlotsInv
      <4> QED
        BY <4>2 DEF x, y
    <3> QED
      BY <3>1
  <2>3. votes[Leader][s] \in SUBSET Replicas /\ "propose" \in Kinds
    BY ReplicasAssumption DEF TypeOK, Kinds
  <2>4. SlotStep(Leader, s, votes[Leader][s], "propose")
    BY <2>1, <2>2, TakesIsSlotStep
  <2> QED
    BY <1>1, <2>3, <2>4, ReplicasAssumption
<1>7. ASSUME NEW r \in Replicas, NEW s \in Slots, NEW c \in Commands, HandleAccept(r, s, c)
      PROVE  Goal
  <2>1. /\ Calls(r, s, votes[r][s], "accept") /\ OnlySlot
        /\ cmd' = [cmd EXCEPT ![r][s] = c] /\ <<s, c>> \in accepts /\ cmd[r][s] = NoCommand
    BY <1>7 DEF HandleAccept
  <2>2. votes[r][s] \in SUBSET Replicas /\ "accept" \in Kinds
    BY DEF TypeOK, Kinds
  <2>3. HasEffect(r, s, votes[r][s], "accept")
    BY <2>1, <2>2, CallsEffect
  <2> QED
    BY <1>1, <2>1, <2>2, <2>3 DEF SlotStep, OnlySlot
<1>8. ASSUME NEW r \in Replicas, NEW q \in Replicas, NEW s \in Slots, HandleAcceptAck(r, q, s)
      PROVE  Goal
  <2> DEFINE V == votes[r][s] \cup {q}
  <2>1. /\ Calls(r, s, V, "ack") /\ OnlySlot /\ cmd' = cmd
        /\ <<q, s>> \in acceptAcks
    BY <1>8 DEF HandleAcceptAck
  <2>2. V \in SUBSET Replicas /\ "ack" \in Kinds
    BY DEF TypeOK, Kinds
  <2>3. \A p \in V : p \in votes[r][s] \/ <<p, s>> \in acceptAcks
    BY <2>1
  <2>4. votes[r][s] \subseteq V
    OBVIOUS
  <2> HIDE DEF V
  <2>5. HasEffect(r, s, V, "ack")
    BY <2>1, <2>2, CallsEffect
  <2> QED
    BY <1>1, <2>1, <2>2, <2>3, <2>4, <2>5 DEF SlotStep, OnlySlot
<1>9. ASSUME NEW r \in Replicas, NEW s \in Slots, HandleDeliver(r, s)
      PROVE  Goal
  <2>1. Calls(r, s, votes[r][s], "deliver") /\ OnlySlot /\ cmd' = cmd
    BY <1>9 DEF HandleDeliver
  <2>2. votes[r][s] \in SUBSET Replicas /\ "deliver" \in Kinds
    BY DEF TypeOK, Kinds
  <2>3. HasEffect(r, s, votes[r][s], "deliver")
    BY <2>1, <2>2, CallsEffect
  <2> QED
    BY <1>1, <2>1, <2>2, <2>3 DEF SlotStep, OnlySlot
<1>10. ASSUME NEW r \in Replicas, AnswerPropose(r)
       PROVE  Goal
  BY <1>2, <1>10 DEF AnswerPropose, OtherStep, peerMsgs
<1>11. ASSUME NEW r \in Replicas, NEW c \in Commands, StorePropose(r, c)
       PROVE  Goal
  BY <1>2, <1>11 DEF StorePropose, OtherStep, clientMsgs
<1>12. ASSUME UNCHANGED vars PROVE Goal
  BY <1>2, <1>12 DEF vars, OtherStep, clientMsgs
<1>13. ASSUME Next PROVE Goal
  <2>1. PICK r \in Replicas : ReplicaStep(r)
    BY <1>13 DEF Next
  <2> QED
    BY <1>4, <1>5, <1>6, <1>7, <1>8, <1>9, <1>10, <1>11, <2>1 DEF ReplicaStep
<1> QED
  BY <1>12, <1>13 DEF Goal

\* A message leaves the command of a slot alone, or it is the first command and one sent.
LEMMA LearnsCommand ==
  ASSUME TypeOK, NEW r, NEW s, NEW V, NEW kind, SlotStep(r, s, V, kind),
         NEW q \in Replicas, NEW t \in Slots
  PROVE  \/ cmd'[q][t] = cmd[q][t]
         \/ cmd[q][t] = NoCommand /\ <<t, cmd'[q][t]>> \in accepts'
<1>1. CASE cmd' = cmd
  BY <1>1
<1>2. ASSUME NEW c \in Commands, cmd' = [cmd EXCEPT ![r][s] = c],
             <<s, c>> \in accepts', cmd[r][s] \in {NoCommand, c}
      PROVE  \/ cmd'[q][t] = cmd[q][t]
             \/ cmd[q][t] = NoCommand /\ <<t, cmd'[q][t]>> \in accepts'
  <2>1. cmd'[q][t] = IF q = r /\ t = s THEN c ELSE cmd[q][t]
    BY <1>2 DEF TypeOK
  <2> QED
    BY <1>2, <2>1
<1> QED
  BY <1>1, <1>2 DEF SlotStep

\* A slot that has a command keeps it, and what is sent and committed stays.
LEMMA Grows ==
  ASSUME TypeOK, SlotsInv, VotesInv, [Next]_vars, NEW q \in Replicas, NEW t \in Slots
  PROVE  /\ cmd[q][t] # NoCommand => cmd'[q][t] = cmd[q][t]
         /\ committed[q] \subseteq committed'[q]
         /\ acceptAcks \subseteq acceptAcks' /\ accepts \subseteq accepts'
<1>1. ASSUME NEW r \in Replicas, NEW s \in Slots, NEW V \in SUBSET Replicas, NEW kind \in Kinds,
             SlotStep(r, s, V, kind)
      PROVE  /\ cmd[q][t] # NoCommand => cmd'[q][t] = cmd[q][t]
             /\ committed[q] \subseteq committed'[q]
             /\ acceptAcks \subseteq acceptAcks' /\ accepts \subseteq accepts'
  <2>1. cmd[q][t] # NoCommand => cmd'[q][t] = cmd[q][t]
    BY <1>1, LearnsCommand
  <2>2. PICK W \in SUBSET Replicas, A \in SUBSET {<<r, s>>}, C \in SUBSET {s}, S \in SUBSET {s} :
          Effect(r, s, V, kind, W, A, C, S)
    BY <1>1 DEF SlotStep, HasEffect
  <2> QED
    BY <1>1, <2>1, <2>2 DEF Effect, SlotStep, TypeOK
<1>2. ASSUME OtherStep
      PROVE  UNCHANGED <<cmd, committed, acceptAcks, accepts>>
  BY <1>2 DEF OtherStep, slotVars, peerMsgs
<1> QED
  BY <1>1, <1>2, StepCases

\* Votes are for the commands the leader has sent, and commits have a majority of them.
LEMMA VotesStep ==
  ASSUME TypeOK, SlotsInv, VotesInv, [Next]_vars PROVE VotesInv'
<1> SUFFICES ASSUME NEW q \in Replicas, NEW t \in Slots
             PROVE  /\ cmd'[q][t] # NoCommand => <<t, cmd'[q][t]>> \in accepts'
                    /\ \A p \in votes'[q][t] : <<p, t>> \in acceptAcks'
                    /\ <<q, t>> \in acceptAcks' => cmd'[q][t] # NoCommand
                    /\ t \in committed'[q] => /\ cmd'[q][t] # NoCommand
                                             /\ Cardinality(votes'[q][t]) >= Majority
  BY DEF VotesInv, Majority
<1>0. /\ cmd[q][t] # NoCommand => <<t, cmd[q][t]>> \in accepts
      /\ \A p \in votes[q][t] : <<p, t>> \in acceptAcks
      /\ <<q, t>> \in acceptAcks => cmd[q][t] # NoCommand
      /\ t \in committed[q] => cmd[q][t] # NoCommand /\ Cardinality(votes[q][t]) >= Majority
  BY DEF VotesInv
<1>1. ASSUME NEW r \in Replicas, NEW s \in Slots, NEW V \in SUBSET Replicas, NEW kind \in Kinds,
             SlotStep(r, s, V, kind)
      PROVE  /\ cmd'[q][t] # NoCommand => <<t, cmd'[q][t]>> \in accepts'
             /\ \A p \in votes'[q][t] : <<p, t>> \in acceptAcks'
             /\ <<q, t>> \in acceptAcks' => cmd'[q][t] # NoCommand
             /\ t \in committed'[q] => /\ cmd'[q][t] # NoCommand
                                      /\ Cardinality(votes'[q][t]) >= Majority
  <2>1. PICK W \in SUBSET Replicas, A \in SUBSET {<<r, s>>}, C \in SUBSET {s}, S \in SUBSET {s} :
          Effect(r, s, V, kind, W, A, C, S)
    BY <1>1 DEF SlotStep, HasEffect
  <2>2. A \cup C \cup S # {} => cmd'[r][s] # NoCommand
    <3>1. proposes'[r] \subseteq Commands
      BY TypeStep DEF TypeOK
    <3> QED
      BY <2>1, <3>1, CommandAssumption DEF Effect
  <2>3. /\ votes'[q][t] = IF q = r /\ t = s THEN W ELSE votes[q][t]
        /\ committed'[q] = IF q = r THEN committed[q] \cup C ELSE committed[q]
        /\ acceptAcks' = acceptAcks \cup A
    BY <2>1 DEF Effect, TypeOK
  <2>4. cmd'[q][t] # NoCommand => <<t, cmd'[q][t]>> \in accepts'
    <3>1. cmd'[q][t] = cmd[q][t] \/ <<t, cmd'[q][t]>> \in accepts'
      BY <1>1, LearnsCommand
    <3> QED
      BY <1>0, <1>1, <3>1 DEF SlotStep
  <2>5. cmd[q][t] # NoCommand => cmd'[q][t] # NoCommand
    BY Grows
  <2>6. \A p \in votes'[q][t] : <<p, t>> \in acceptAcks'
    <3>1. CASE q = r /\ t = s
      <4>1. \A p \in V : <<p, s>> \in acceptAcks
        BY <1>0, <1>1, <3>1 DEF SlotStep
      <4>2. W \subseteq V \cup {r} /\ (W # V => A = {<<r, s>>}) /\ V \subseteq W
        BY <2>1 DEF Effect
      <4> QED
        BY <2>3, <3>1, <4>1, <4>2
    <3> QED
      BY <1>0, <2>3, <3>1
  <2>7. <<q, t>> \in acceptAcks' => cmd'[q][t] # NoCommand
    <3>1. CASE <<q, t>> \in A
      BY <2>2, <3>1
    <3> QED
      BY <1>0, <2>3, <2>5, <3>1
  <2>8. t \in committed'[q] => cmd'[q][t] # NoCommand
    BY <1>0, <2>2, <2>3, <2>5
  <2>9. t \in committed'[q] => Cardinality(votes'[q][t]) >= Majority
    <3>1. CASE q = r /\ t = s /\ t \in committed[q]
      <4>1. votes[r][s] \subseteq W
        BY <1>1, <2>1 DEF SlotStep, Effect
      <4>2. IsFiniteSet(W)
        BY ReplicasAssumption, FS_Subset
      <4>3. /\ IsFiniteSet(votes[r][s])
            /\ Cardinality(votes[r][s]) <= Cardinality(W)
        BY <4>1, <4>2, FS_Subset
      <4>4. Cardinality(votes[r][s]) \in Nat /\ Cardinality(W) \in Nat
        BY <4>2, <4>3, FS_CardinalityType
      <4> QED
        BY <1>0, <2>3, <3>1, <4>3, <4>4, MajorityType
    <3>2. CASE q = r /\ t \in C
      <4>1. t = s /\ Cardinality(W) >= Majority
        BY <2>1, <3>2 DEF Effect
      <4> QED
        BY <2>3, <3>2, <4>1
    <3>3. CASE t \in committed[q] /\ ~(q = r /\ t = s)
      BY <1>0, <2>3, <3>3
    <3> QED
      BY <2>3, <3>1, <3>2, <3>3
  <2> QED
    BY <2>4, <2>6, <2>7, <2>8, <2>9
<1>2. ASSUME OtherStep
      PROVE  UNCHANGED <<cmd, accepts, acceptAcks, votes, committed>>
  BY <1>2 DEF OtherStep, slotVars, peerMsgs
<1> QED
  BY <1>0, <1>1, <1>2, StepCases

\* A replica executes its first slot that it has not executed.
LEMMA LogStep ==
  ASSUME TypeOK, SlotsInv, VotesInv, LogInv, [Next]_vars PROVE LogInv'
<1> SUFFICES ASSUME NEW q \in Replicas
             PROVE  /\ executed'[q] = 0 .. Len(log'[q]) - 1
                    /\ \A t \in executed'[q] : /\ cmd'[q][t] # NoCommand
                                              /\ log'[q][t + 1] = cmd'[q][t]
  BY DEF LogInv
<1>0. /\ executed[q] = 0 .. Len(log[q]) - 1
      /\ \A t \in executed[q] : cmd[q][t] # NoCommand /\ log[q][t + 1] = cmd[q][t]
      /\ executed[q] \subseteq Slots
      /\ log[q] \in Seq(Commands) /\ Len(log[q]) \in Nat
  BY DEF LogInv, TypeOK
<1>1. \A t \in executed[q] : cmd'[q][t] = cmd[q][t]
  BY <1>0, Grows
<1>2. CASE executed'[q] = executed[q] /\ log'[q] = log[q]
  BY <1>0, <1>1, <1>2
<1>3. ASSUME NEW r \in Replicas, NEW s \in Slots, NEW V \in SUBSET Replicas, NEW kind \in Kinds,
             SlotStep(r, s, V, kind)
      PROVE  /\ executed'[q] = 0 .. Len(log'[q]) - 1
             /\ \A t \in executed'[q] : cmd'[q][t] # NoCommand /\ log'[q][t + 1] = cmd'[q][t]
  <2>1. PICK W \in SUBSET Replicas, A \in SUBSET {<<r, s>>}, C \in SUBSET {s}, S \in SUBSET {s} :
          Effect(r, s, V, kind, W, A, C, S)
    BY <1>3 DEF SlotStep, HasEffect
  <2>2. /\ executed' = [executed EXCEPT ![r] = @ \cup S]
        /\ log' = [log EXCEPT ![r] = IF S \subseteq executed[r] THEN @ ELSE Append(@, cmd'[r][s])]
    BY <2>1 DEF Effect, Deliver
  <2>3. CASE q # r \/ S \subseteq executed[r]
    <3>1. executed'[q] = executed[q] /\ log'[q] = log[q]
      BY <2>2, <2>3 DEF TypeOK
    <3> QED
      BY <1>2, <3>1
  <2>4. CASE q = r /\ ~(S \subseteq executed[r])
    <3>1. /\ s \in S /\ s \notin executed[q]
          /\ cmd'[q][s] \in proposes'[q]
          /\ CanDeliver(q, s)
      BY <2>1, <2>4 DEF Effect
    <3>2. cmd'[q][s] \in Commands /\ cmd'[q][s] # NoCommand
      <4>1. proposes'[q] \subseteq Commands
        BY TypeStep DEF TypeOK
      <4> QED
        BY <3>1, <4>1, CommandAssumption
    <3>3. s = Len(log[q])
      <4>1. s > 0 => s - 1 \in executed[q]
        BY <3>1 DEF CanDeliver
      <4>2. s \in Nat
        BY BoundAssumption DEF Slots
      <4> QED
        BY <1>0, <3>1, <4>1, <4>2
    <3>4. executed'[q] = executed[q] \cup {s} /\ log'[q] = Append(log[q], cmd'[q][s])
      BY <2>2, <2>4, <3>1 DEF TypeOK
    <3>5. /\ Len(log'[q]) = Len(log[q]) + 1
          /\ log'[q][s + 1] = cmd'[q][s]
          /\ \A k \in 1 .. Len(log[q]) : log'[q][k] = log[q][k]
      BY <1>0, <3>2, <3>3, <3>4
    <3>6. executed'[q] = 0 .. Len(log'[q]) - 1
      BY <1>0, <3>3, <3>4, <3>5
    <3>7. ASSUME NEW t \in executed'[q]
          PROVE  cmd'[q][t] # NoCommand /\ log'[q][t + 1] = cmd'[q][t]
      <4>1. CASE t = s
        BY <3>2, <3>5, <4>1
      <4>2. CASE t \in executed[q]
        <5>1. t + 1 \in 1 .. Len(log[q])
          BY <1>0, <4>2
        <5> QED
          BY <1>0, <1>1, <3>5, <4>2, <5>1
      <4> QED
        BY <3>4, <4>1, <4>2
    <3> QED
      BY <3>6, <3>7
  <2> QED
    BY <2>3, <2>4
<1>4. ASSUME OtherStep
      PROVE  executed'[q] = executed[q] /\ log'[q] = log[q]
  BY <1>4 DEF OtherStep, slotVars
<1> QED
  BY <1>2, <1>3, <1>4, StepCases

\* What a slot step syncs: the command of the slot, at a witness that has committed it
\* and has its proposal.
LEMMA SlotSyncs ==
  ASSUME TypeOK, NEW r \in Replicas, NEW s \in Slots, NEW V \in SUBSET Replicas,
         NEW kind \in Kinds, SlotStep(r, s, V, kind)
  PROVE  \E D \in SUBSET {cmd'[r][s]} :
           /\ Sync(r, D)
           /\ D # {} => r \in Witnesses /\ s \in committed'[r] /\ cmd'[r][s] \in proposes[r]
<1>1. PICK W \in SUBSET Replicas, A \in SUBSET {<<r, s>>}, C \in SUBSET {s}, S \in SUBSET {s} :
        Effect(r, s, V, kind, W, A, C, S)
  BY DEF SlotStep, HasEffect
<1> DEFINE D == {cmd'[r][t] : t \in {u \in S : r # Leader}}
<1>2. Sync(r, D)
  BY <1>1 DEF Effect, Deliver
<1>3. D \in SUBSET {cmd'[r][s]}
  OBVIOUS
<1>4. ASSUME D # {}
      PROVE  r \in Witnesses /\ s \in committed'[r] /\ cmd'[r][s] \in proposes[r]
  <2>1. s \in S /\ r # Leader
    BY <1>4
  <2>2. CanDeliver(r, s) /\ cmd'[r][s] \in proposes'[r]
    BY <1>1, <2>1 DEF Effect
  <2> QED
    BY <2>1, <2>2 DEF CanDeliver, Witnesses, SlotStep
<1> HIDE DEF D
<1> QED
  BY <1>2, <1>3, <1>4

\* What a witness syncs it has committed.
LEMMA SyncedStep ==
  ASSUME TypeOK, SlotsInv, VotesInv, SyncedInv, [Next]_vars PROVE SyncedInv'
<1> SUFFICES ASSUME NEW q \in Witnesses, NEW c \in synced'[q]
             PROVE  \E t \in committed'[q] : cmd'[q][t] = c
  BY DEF SyncedInv, Witnesses
<1>0. q \in Replicas
  BY DEF Witnesses
<1>1. ASSUME c \in synced[q]
      PROVE  \E t \in committed'[q] : cmd'[q][t] = c
  <2>1. PICK t \in committed[q] : cmd[q][t] = c
    BY <1>1 DEF SyncedInv
  <2>2. t \in Slots
    BY <1>0 DEF TypeOK
  <2>3. cmd[q][t] # NoCommand
    BY <1>0, <2>2 DEF VotesInv
  <2> QED
    BY <1>0, <2>1, <2>2, <2>3, Grows
<1>2. ASSUME NEW r \in Replicas, NEW s \in Slots, NEW V \in SUBSET Replicas, NEW kind \in Kinds,
             SlotStep(r, s, V, kind)
      PROVE  \E t \in committed'[q] : cmd'[q][t] = c
  <2>1. PICK D \in SUBSET {cmd'[r][s]} : /\ Sync(r, D)
                                         /\ D # {} => s \in committed'[r]
    BY <1>2, SlotSyncs
  <2>2. synced'[q] = IF q = r THEN synced[q] \cup D ELSE synced[q]
    BY <1>0, <2>1 DEF Sync, TypeOK
  <2> QED
    BY <1>1, <2>1, <2>2
<1>3. ASSUME OtherStep
      PROVE  synced' = synced
  BY <1>3 DEF OtherStep, AnswerPropose, StorePropose, witnessVars
<1> QED
  BY <1>1, <1>2, <1>3, StepCases

\* One element more is at most one more element.
LEMMA AddAtMostOne ==
  ASSUME NEW T, IsFiniteSet(T), NEW x
  PROVE  IsFiniteSet(T \cup {x}) /\ Cardinality(T \cup {x}) <= Cardinality(T) + 1
<1>1. Cardinality(T) \in Nat
  BY FS_CardinalityType
<1>2. CASE x \in T
  <2>1. T \cup {x} = T
    BY <1>2
  <2> QED
    BY <1>1, <2>1
<1>3. CASE x \notin T
  BY <1>1, <1>3, FS_AddElement
<1> QED
  BY <1>2, <1>3

\* The unsynced commands of a key are finitely many.
LEMMA UnsyncedFinite ==
  ASSUME NEW r, NEW k
  PROVE  /\ IsFiniteSet(UnsyncedOn(r, k)) /\ Cardinality(UnsyncedOn(r, k)) \in Nat
         /\ IsFiniteSet(UnsyncedOn(r, k)') /\ Cardinality(UnsyncedOn(r, k)') \in Nat
<1>1. UnsyncedOn(r, k) \subseteq Commands /\ UnsyncedOn(r, k)' \subseteq Commands
  BY DEF UnsyncedOn
<1> QED
  BY <1>1, CommandAssumption, FS_Subset, FS_CardinalityType

\* Every command a witness stores is answered, or is the one it is about to answer.
LEMMA AnsweredStep ==
  ASSUME TypeOK, SlotsInv, VotesInv, CountInv, [Next]_vars,
         NEW q \in Witnesses, NEW c \in proposes'[q]
  PROVE  c = recording'[q] \/ \E ok \in BOOLEAN : <<q, c, ok>> \in recordAcks'
<1>0. q \in Replicas
  BY DEF Witnesses
<1>1. ASSUME c \in proposes[q], recording' = recording, recordAcks \subseteq recordAcks'
      PROVE  c = recording'[q] \/ \E ok \in BOOLEAN : <<q, c, ok>> \in recordAcks'
  BY <1>1 DEF CountInv
<1>2. ASSUME NEW r \in Replicas, AnswerPropose(r)
      PROVE  c = recording'[q] \/ \E ok \in BOOLEAN : <<q, c, ok>> \in recordAcks'
  <2>1. c \in proposes[q]
    BY <1>2 DEF AnswerPropose
  <2>2. /\ recording' = [recording EXCEPT ![r] = NoCommand]
        /\ recordAcks' = recordAcks \cup {<<r, recording[r], Ok(r, recording[r])>>}
        /\ Ok(r, recording[r]) \in BOOLEAN
    BY <1>2 DEF AnswerPropose, Ok
  <2>3. CASE q = r /\ c = recording[r]
    BY <2>2, <2>3
  <2>4. CASE \E ok \in BOOLEAN : <<q, c, ok>> \in recordAcks
    BY <2>2, <2>4
  <2>5. CASE q # r
    <3>1. recording'[q] = recording[q]
      BY <1>0, <2>2, <2>5 DEF TypeOK
    <3> QED
      BY <2>1, <2>4, <3>1 DEF CountInv
  <2> QED
    BY <2>1, <2>3, <2>4, <2>5 DEF CountInv
<1>3. ASSUME NEW r \in Replicas, NEW d \in Commands, StorePropose(r, d)
      PROVE  c = recording'[q] \/ \E ok \in BOOLEAN : <<q, c, ok>> \in recordAcks'
  <2>1. /\ proposes' = [proposes EXCEPT ![r] = @ \cup {d}]
        /\ recording' = [recording EXCEPT ![r] = d]
        /\ recording[r] = NoCommand
        /\ recordAcks' = recordAcks
    BY <1>3 DEF StorePropose, clientMsgs
  <2>2. c \in proposes[q] => c # NoCommand
    BY <1>0, CommandAssumption DEF TypeOK
  <2> QED
    BY <1>0, <2>1, <2>2 DEF CountInv, TypeOK
<1>4. CASE OtherStep
  <2>1. CASE /\ UNCHANGED <<witnessVars, recording, recordAcks>>
             /\ \A p \in Witnesses : proposes'[p] = proposes[p]
    BY <1>1, <2>1
  <2> QED
    BY <1>2, <1>3, <1>4, <2>1 DEF OtherStep
<1>5. ASSUME NEW r \in Replicas, NEW s \in Slots, NEW V \in SUBSET Replicas, NEW kind \in Kinds,
             SlotStep(r, s, V, kind)
      PROVE  c = recording'[q] \/ \E ok \in BOOLEAN : <<q, c, ok>> \in recordAcks'
  BY <1>1, <1>5 DEF SlotStep
<1> QED
  BY <1>4, <1>5, StepCases

\* Syncing d lowers the count of its key by at most one, and either removes d from the
\* unsynced commands or discounts it early.
LEMMA SyncKeepsCount ==
  ASSUME TypeOK, CountInv, NEW q \in Witnesses, NEW d \in proposes[q], d \notin synced[q],
         Sync(q, {d}), UNCHANGED <<recording, recordAcks>>, NEW k \in Keys
  PROVE  Cardinality(UnsyncedOn(q, k)') <= unsynced'[q][k] + Early(q, k)'
<1> DEFINE U == UnsyncedOn(q, k)
           V == UnsyncedOn(q, k)'
<1> SUFFICES Cardinality(V) <= unsynced'[q][k] + Early(q, k)'
  OBVIOUS
<1>0. q \in Replicas /\ d \in Commands
  BY DEF Witnesses, TypeOK
<1>1. /\ synced'[q] = synced[q] \cup {d}
      /\ unsynced'[q][k] = IF unsynced[q][k] > 0 /\ Key[d] = k THEN unsynced[q][k] - 1
                           ELSE unsynced[q][k]
      /\ unsynced[q][k] \in Nat
  BY <1>0 DEF Sync, TypeOK
<1>2. Cardinality(U) <= unsynced[q][k] + Early(q, k)
  BY DEF CountInv
<1>3. /\ IsFiniteSet(U) /\ Cardinality(U) \in Nat
      /\ IsFiniteSet(V) /\ Cardinality(V) \in Nat
  BY UnsyncedFinite
<1>4. V = U \ {d}
  BY <1>1 DEF UnsyncedOn
<1>5. Early(q, k) \in {0, 1} /\ Early(q, k)' \in {0, 1} /\ Early(q, k) <= Early(q, k)'
  BY <1>1 DEF Early
<1>6. CASE Key[d] # k
  <2>1. d \notin U
    BY <1>6 DEF UnsyncedOn
  <2>2. V = U
    BY <1>4, <2>1
  <2> HIDE DEF U, V
  <2> QED
    BY <1>1, <1>2, <1>3, <1>5, <1>6, <2>2
<1>7. CASE Key[d] = k /\ d \in U
  <2>1. Cardinality(V) = Cardinality(U) - 1
    BY <1>3, <1>4, <1>7, FS_RemoveElement
  <2> HIDE DEF U, V
  <2> QED
    BY <1>1, <1>2, <1>3, <1>5, <2>1
<1>8. CASE Key[d] = k /\ d \notin U
  <2>1. \A ok \in BOOLEAN : <<q, d, ok>> \notin recordAcks
    BY <1>0, <1>8 DEF UnsyncedOn
  <2>2. d = recording[q]
    BY <2>1 DEF CountInv
  <2>3. Early(q, k) = 0 /\ Early(q, k)' = 1
    BY <1>1, <1>8, <2>2 DEF Early
  <2>4. V = U
    BY <1>4, <1>8
  <2> HIDE DEF U, V
  <2> QED
    BY <1>1, <1>2, <1>3, <2>3, <2>4
<1> QED
  BY <1>6, <1>7, <1>8

\* Answering a command counts it.
LEMMA AnswerKeepsCount ==
  ASSUME TypeOK, CountInv, NEW q \in Witnesses, AnswerPropose(q), NEW k \in Keys
  PROVE  Cardinality(UnsyncedOn(q, k)') <= unsynced'[q][k] + Early(q, k)'
<1> DEFINE U == UnsyncedOn(q, k)
           V == UnsyncedOn(q, k)'
           c == recording[q]
<1> SUFFICES Cardinality(V) <= unsynced'[q][k] + Early(q, k)'
  OBVIOUS
<1>0. q \in Replicas /\ c \in Commands /\ Key[c] \in Keys
  BY DEF Witnesses, TypeOK, AnswerPropose, Keys
<1>1. /\ recording'[q] = NoCommand
      /\ recordAcks' = recordAcks \cup {<<q, c, Ok(q, c)>>}
      /\ synced' = synced
      /\ unsynced'[q][k] = IF Key[c] = k THEN unsynced[q][k] + 1 ELSE unsynced[q][k]
      /\ unsynced[q][k] \in Nat
  BY <1>0 DEF AnswerPropose, TypeOK
<1>2. Cardinality(U) <= unsynced[q][k] + Early(q, k)
  BY DEF CountInv
<1>3. /\ IsFiniteSet(U) /\ Cardinality(U) \in Nat
      /\ IsFiniteSet(V) /\ Cardinality(V) \in Nat
  BY UnsyncedFinite
<1>4. Early(q, k)' = 0
  <2>1. NoCommand \notin synced'[q]
    BY <1>0, <1>1, CommandAssumption DEF TypeOK
  <2> QED
    BY <1>1, <2>1 DEF Early
<1>5. U \subseteq V /\ V \subseteq U \cup {c}
  BY <1>1 DEF UnsyncedOn
<1>6. CASE Key[c] # k \/ c \in synced[q]
  <2>1. c \notin V
    BY <1>1, <1>6 DEF UnsyncedOn
  <2>2. V = U
    BY <1>5, <2>1
  <2>3. Early(q, k) = IF Key[c] = k THEN 1 ELSE 0
    BY <1>6 DEF Early
  <2> HIDE DEF U, V, c
  <2> QED
    BY <1>1, <1>2, <1>3, <1>4, <2>2, <2>3
<1>7. CASE Key[c] = k /\ c \notin synced[q]
  <2>1. Early(q, k) = 0
    BY <1>7 DEF Early
  <2>2. IsFiniteSet(U \cup {c}) /\ Cardinality(U \cup {c}) <= Cardinality(U) + 1
    <3> HIDE DEF U, c
    <3> QED
      BY <1>3, AddAtMostOne
  <2>3. Cardinality(V) <= Cardinality(U \cup {c}) /\ Cardinality(U \cup {c}) \in Nat
    BY <1>5, <2>2, FS_Subset, FS_CardinalityType
  <2> HIDE DEF U, V
  <2> QED
    BY <1>1, <1>2, <1>3, <1>4, <1>7, <2>1, <2>2, <2>3
<1> QED
  BY <1>6, <1>7

\* Every step keeps the counts.
LEMMA CountStep ==
  ASSUME TypeOK, SlotsInv, VotesInv, CountInv, [Next]_vars PROVE CountInv'
<1> SUFFICES ASSUME NEW q \in Witnesses, NEW k \in Keys
             PROVE  Cardinality(UnsyncedOn(q, k)') <= unsynced'[q][k] + Early(q, k)'
  BY AnsweredStep DEF CountInv, Witnesses, Keys
<1>0. q \in Replicas
  BY DEF Witnesses
<1>1. ASSUME \A c \in Commands, ok \in BOOLEAN :
               <<q, c, ok>> \in recordAcks' <=> <<q, c, ok>> \in recordAcks,
             synced'[q] = synced[q], unsynced'[q] = unsynced[q],
             recording'[q] = recording[q] \/ recording[q] = NoCommand
      PROVE  Cardinality(UnsyncedOn(q, k)') <= unsynced'[q][k] + Early(q, k)'
  <2>1. UnsyncedOn(q, k)' = UnsyncedOn(q, k)
    BY <1>1 DEF UnsyncedOn
  <2>2. Early(q, k) \in {0, 1} /\ Early(q, k)' \in {0, 1} /\ Early(q, k) <= Early(q, k)'
    <3>1. NoCommand \notin synced[q]
      BY <1>0, CommandAssumption DEF TypeOK
    <3> QED
      BY <1>1, <3>1 DEF Early
  <2>3. Cardinality(UnsyncedOn(q, k)) <= unsynced[q][k] + Early(q, k) /\ unsynced[q][k] \in Nat
    BY <1>0 DEF CountInv, TypeOK
  <2>4. Cardinality(UnsyncedOn(q, k)) \in Nat
    BY UnsyncedFinite
  <2> QED
    BY <1>1, <2>1, <2>2, <2>3, <2>4
<1>2. ASSUME NEW r \in Replicas, NEW s \in Slots, NEW V \in SUBSET Replicas, NEW kind \in Kinds,
             SlotStep(r, s, V, kind)
      PROVE  Cardinality(UnsyncedOn(q, k)') <= unsynced'[q][k] + Early(q, k)'
  <2>1. PICK D \in SUBSET {cmd'[r][s]} :
          /\ Sync(r, D)
          /\ D # {} => cmd'[r][s] \in proposes[r]
    BY <1>2, SlotSyncs
  <2>2. UNCHANGED <<recording, recordAcks>>
    BY <1>2 DEF SlotStep
  <2>3. CASE q # r \/ D \subseteq synced[r]
    <3>1. synced'[q] = synced[q]
      BY <1>0, <2>1, <2>3 DEF Sync, TypeOK
    <3>2. unsynced'[q] = unsynced[q]
      BY <1>0, <2>1, <2>3 DEF Sync, TypeOK
    <3> QED
      BY <1>1, <2>2, <3>1, <3>2
  <2>4. CASE q = r /\ ~(D \subseteq synced[r])
    <3> DEFINE d == cmd'[r][s]
    <3>1. D = {d} /\ d \notin synced[q] /\ d \in proposes[q]
      BY <2>1, <2>4
    <3> HIDE DEF d
    <3> QED
      BY <2>1, <2>2, <2>4, <3>1, SyncKeepsCount
  <2> QED
    BY <2>3, <2>4
<1>3. ASSUME NEW r \in Replicas, AnswerPropose(r)
      PROVE  Cardinality(UnsyncedOn(q, k)') <= unsynced'[q][k] + Early(q, k)'
  <2>1. CASE q = r
    BY <1>3, <2>1, AnswerKeepsCount
  <2>2. CASE q # r
    BY <1>0, <1>1, <1>3, <2>2 DEF AnswerPropose, TypeOK
  <2> QED
    BY <2>1, <2>2
<1>4. ASSUME NEW r \in Replicas, NEW c \in Commands, StorePropose(r, c)
      PROVE  Cardinality(UnsyncedOn(q, k)') <= unsynced'[q][k] + Early(q, k)'
  BY <1>0, <1>1, <1>4 DEF StorePropose, TypeOK, witnessVars, clientMsgs
<1>5. ASSUME OtherStep
      PROVE  Cardinality(UnsyncedOn(q, k)') <= unsynced'[q][k] + Early(q, k)'
  BY <1>1, <1>3, <1>4, <1>5 DEF OtherStep, witnessVars
<1> QED
  BY <1>2, <1>5, StepCases

\* The inductive invariant: one leader gives one slot to one command, replicas and votes
\* follow it, logs grow slot by slot, and a witness counts its unsynced commands.
THEOREM CurpInvariant == Spec => []CurpInv
<1>1. Init => CurpInv
  <2> SUFFICES ASSUME Init PROVE CurpInv
    OBVIOUS
  <2>1. SlotsInv /\ VotesInv /\ SyncedInv
    BY CommandAssumption DEF Init, SlotsInv, VotesInv, SyncedInv, Witnesses
  <2>2. LogInv
    BY DEF Init, LogInv
  <2>3. CountInv
    <3> SUFFICES ASSUME NEW r \in Witnesses, NEW k \in Keys
                 PROVE  Cardinality(UnsyncedOn(r, k)) <= unsynced[r][k] + Early(r, k)
      BY DEF Init, CountInv, Witnesses
    <3>1. UnsyncedOn(r, k) = {}
      BY DEF Init, UnsyncedOn
    <3>2. unsynced[r][k] = 0 /\ Early(r, k) = 0
      BY DEF Init, Early, Witnesses
    <3> QED
      BY <3>1, <3>2, FS_EmptySet
  <2> QED
    BY <2>1, <2>2, <2>3 DEF CurpInv
<1>2. TypeOK /\ CurpInv /\ [Next]_vars => CurpInv'
  BY SlotsStep, VotesStep, LogStep, SyncedStep, CountStep DEF CurpInv
<1> QED
  BY <1>1, <1>2, TypeCorrect, PTL DEF Spec
-------------------------------------------------------------------------------
\* Two replicas that know a slot know the same command.
LEMMA SameCommand ==
  ASSUME CurpInv, NEW r \in Replicas, NEW q \in Replicas, NEW s \in Slots,
         cmd[r][s] # NoCommand, cmd[q][s] # NoCommand
  PROVE  cmd[r][s] = cmd[q][s]
<1> DEFINE a == <<s, cmd[r][s]>>
           b == <<s, cmd[q][s]>>
<1>1. a \in pending \cup accepts /\ b \in pending \cup accepts /\ a[1] = b[1]
  BY DEF CurpInv, VotesInv
<1>2. a = b
  <2> HIDE DEF a, b
  <2> QED
    BY <1>1 DEF CurpInv, SlotsInv
<1> QED
  BY <1>2

\* Every replica executes the same commands in the same order: those of the slots from
\* 0 on, whichever goroutine executes them and whether or not they are committed.
THEOREM ExecutedAlikeHolds == Spec => []ExecutedAlike
<1>1. TypeOK /\ CurpInv => ExecutedAlike
  <2> SUFFICES ASSUME TypeOK, CurpInv, NEW r \in Replicas, NEW q \in Replicas,
                      NEW k \in 1 .. Len(log[r]), k <= Len(log[q])
               PROVE  log[r][k] = log[q][k]
    BY DEF ExecutedAlike
  <2> DEFINE s == k - 1
  <2>1. Len(log[r]) \in Nat /\ Len(log[q]) \in Nat
    BY DEF TypeOK
  <2>2. s \in executed[r] /\ s \in executed[q] /\ s + 1 = k
    BY <2>1 DEF CurpInv, LogInv
  <2>3. s \in Slots
    BY <2>2 DEF TypeOK
  <2> HIDE DEF s
  <2>4. /\ cmd[r][s] # NoCommand /\ log[r][k] = cmd[r][s]
        /\ cmd[q][s] # NoCommand /\ log[q][k] = cmd[q][s]
    BY <2>2 DEF CurpInv, LogInv
  <2> QED
    BY <2>3, <2>4, SameCommand
<1> QED
  BY <1>1, TypeCorrect, CurpInvariant, PTL

\* A commit is held by a majority: the acks it counted are of replicas that hold the
\* command, whatever the order they came in.
THEOREM CommittedIsHeldHolds == Spec => []CommittedIsHeld
<1>1. TypeOK /\ CurpInv => CommittedIsHeld
  <2> SUFFICES ASSUME TypeOK, CurpInv, NEW r \in Replicas, NEW s \in committed[r]
               PROVE  2 * Cardinality({q \in Replicas : <<q, s>> \in acceptAcks /\ cmd[q][s] = cmd[r][s]})
                        > Cardinality(Replicas)
    BY DEF CommittedIsHeld
  <2> DEFINE H == {q \in Replicas : <<q, s>> \in acceptAcks /\ cmd[q][s] = cmd[r][s]}
  <2>1. s \in Slots /\ votes[r][s] \subseteq Replicas
    BY DEF TypeOK
  <2>2. cmd[r][s] # NoCommand /\ Cardinality(votes[r][s]) >= Majority
    BY <2>1 DEF CurpInv, VotesInv
  <2>3. ASSUME NEW q \in votes[r][s] PROVE q \in H
    <3>1. q \in Replicas /\ <<q, s>> \in acceptAcks /\ cmd[q][s] # NoCommand
      BY <2>1, <2>3 DEF CurpInv, VotesInv
    <3> QED
      BY <2>1, <2>2, <3>1, SameCommand
  <2>4. IsFiniteSet(H)
    BY ReplicasAssumption, FS_Subset
  <2>5. /\ IsFiniteSet(votes[r][s]) /\ Cardinality(votes[r][s]) <= Cardinality(H)
    <3> HIDE DEF H
    <3> QED
      BY <2>3, <2>4, FS_Subset
  <2>6. Cardinality(votes[r][s]) \in Nat /\ Cardinality(H) \in Nat
    <3> HIDE DEF H
    <3> QED
      BY <2>4, <2>5, FS_CardinalityType
  <2> SUFFICES 2 * Cardinality(H) > Cardinality(Replicas)
    OBVIOUS
  <2> HIDE DEF H
  <2> QED
    BY <2>2, <2>5, <2>6, MajorityType DEF Majority
<1> QED
  BY <1>1, TypeCorrect, CurpInvariant, PTL

\* Of two conflicting commands that a witness has accepted it has synced one. When it
\* accepts c its count is zero: then it has synced all the commands on the key it answered
\* before, or it has synced c itself, early.
THEOREM WitnessIsExclusiveHolds == Spec => []WitnessIsExclusive
<1>1. Init => WitnessIsExclusive
  BY DEF Init, WitnessIsExclusive
<1>2. ASSUME TypeOK, CurpInv, WitnessIsExclusive, [Next]_vars
      PROVE  WitnessIsExclusive'
  <2> SUFFICES ASSUME NEW r \in Witnesses, NEW c \in Commands, NEW d \in Commands,
                      c # d, Key[c] = Key[d],
                      <<r, c, TRUE>> \in recordAcks', <<r, d, TRUE>> \in recordAcks'
               PROVE  c \in synced'[r] \/ d \in synced'[r]
    BY DEF WitnessIsExclusive, Witnesses
  <2>0. r \in Replicas
    BY DEF Witnesses
  <2>1. TypeOK /\ SlotsInv /\ VotesInv /\ CountInv
    BY <1>2 DEF CurpInv
  <2>2. synced[r] \subseteq synced'[r]
    <3>1. ASSUME NEW q \in Replicas, NEW s \in Slots, NEW V \in SUBSET Replicas,
                 NEW kind \in Kinds, SlotStep(q, s, V, kind)
          PROVE  synced[r] \subseteq synced'[r]
      <4>1. PICK D \in SUBSET {cmd'[q][s]} : Sync(q, D)
        BY <2>1, <3>1, SlotSyncs
      <4> QED
        BY <2>0, <2>1, <4>1 DEF Sync, TypeOK
    <3>2. ASSUME OtherStep PROVE synced' = synced
      BY <3>2 DEF OtherStep, AnswerPropose, StorePropose, witnessVars
    <3> QED
      BY <1>2, <2>1, <3>1, <3>2, StepCases
  <2>3. ASSUME NEW x \in Commands, NEW y \in Commands, Key[x] = Key[y],
               <<r, x, TRUE>> \in recordAcks, AnswerPropose(r), y = recording[r], Ok(r, y)
        PROVE  x \in synced[r] \/ y \in synced[r]
    <3> SUFFICES ASSUME y \notin synced[r], x \notin synced[r] PROVE FALSE
      OBVIOUS
    <3> DEFINE k == Key[y]
    <3>1. k \in Keys
      BY DEF Keys
    <3>2. unsynced[r][k] = 0
      BY <2>3 DEF Ok
    <3>3. Early(r, k) = 0
      BY <2>3 DEF Early
    <3>4. Cardinality(UnsyncedOn(r, k)) <= 0
      BY <2>1, <3>1, <3>2, <3>3 DEF CountInv
    <3>5. UnsyncedOn(r, k) = {}
      BY <3>4, UnsyncedFinite, FS_EmptySet
    <3>6. x \in UnsyncedOn(r, k)
      BY <2>3 DEF UnsyncedOn
    <3> QED
      BY <3>5, <3>6
  <2>4. ASSUME NEW q \in Replicas, AnswerPropose(q)
        PROVE  c \in synced'[r] \/ d \in synced'[r]
    <3>1. recordAcks' = recordAcks \cup {<<q, recording[q], Ok(q, recording[q])>>}
      BY <2>4 DEF AnswerPropose
    <3>2. ASSUME NEW x \in Commands, <<r, x, TRUE>> \in recordAcks'
          PROVE  <<r, x, TRUE>> \in recordAcks \/ (q = r /\ x = recording[r] /\ Ok(r, x))
      <4>1. CASE <<r, x, TRUE>> = <<q, recording[q], Ok(q, recording[q])>>
        BY <4>1
      <4> QED
        BY <3>1, <3>2, <4>1
    <3> QED
      BY <1>2, <2>2, <2>3, <2>4, <3>2 DEF WitnessIsExclusive
  <2>5. CASE recordAcks' = recordAcks
    BY <1>2, <2>2, <2>5 DEF WitnessIsExclusive
  <2>6. ASSUME NEW q \in Replicas, NEW s \in Slots, NEW V \in SUBSET Replicas,
               NEW kind \in Kinds, SlotStep(q, s, V, kind)
        PROVE  recordAcks' = recordAcks
    BY <2>6 DEF SlotStep
  <2>7. CASE OtherStep
    BY <2>4, <2>5, <2>7 DEF OtherStep, StorePropose, clientMsgs
  <2> QED
    BY <1>2, <2>1, <2>5, <2>6, <2>7, StepCases
<1>3. TypeOK /\ CurpInv /\ WitnessIsExclusive /\ [Next]_vars => WitnessIsExclusive'
  BY <1>2
<1> QED
  BY <1>1, <1>3, TypeCorrect, CurpInvariant, PTL DEF Spec

\* Two fast quorums of witnesses have a witness in common.
LEMMA FastQuorumsMeet ==
  ASSUME NEW A \in SUBSET Witnesses, NEW B \in SUBSET Witnesses,
         Cardinality(A) >= ThreeQuarters - 1, Cardinality(B) >= ThreeQuarters - 1
  PROVE  A \cap B # {}
<1>1. IsFiniteSet(Witnesses) /\ Cardinality(Witnesses) = Cardinality(Replicas) - 1
  BY ReplicasAssumption, FS_RemoveElement DEF Witnesses
<1>2. /\ IsFiniteSet(A) /\ IsFiniteSet(B)
      /\ Cardinality(A) \in Nat /\ Cardinality(B) \in Nat
  BY <1>1, FS_Subset, FS_CardinalityType
<1>3. Cardinality(A) + Cardinality(B) > Cardinality(Witnesses)
  BY <1>1, <1>2, MajorityType, ReplicasAssumption DEF ThreeQuarters
<1> QED
  BY <1>1, <1>2, <1>3, FS_MajoritiesIntersect

\* Two conflicting commands are completed on the fast path only if one of them is
\* committed: the witness their quorums share has synced one.
THEOREM FastConflictIsCommittedHolds == Spec => []FastConflictIsCommitted
<1>1. TypeOK /\ CurpInv /\ WitnessIsExclusive => FastConflictIsCommitted
  <2> SUFFICES ASSUME TypeOK, CurpInv, WitnessIsExclusive,
                      NEW c \in Commands, NEW d \in Commands,
                      c # d, Key[c] = Key[d], FastAnswer(c), FastAnswer(d)
               PROVE  \E r \in Replicas : \E s \in committed[r] : cmd[r][s] \in {c, d}
    BY DEF FastConflictIsCommitted
  <2> DEFINE A == {r \in Witnesses : <<r, c, TRUE>> \in recordAcks}
             B == {r \in Witnesses : <<r, d, TRUE>> \in recordAcks}
  <2>1. Cardinality(A) >= ThreeQuarters - 1 /\ Cardinality(B) >= ThreeQuarters - 1
    BY DEF FastAnswer
  <2>2. PICK r \in Witnesses : r \in A /\ r \in B
    <3>1. A \in SUBSET Witnesses /\ B \in SUBSET Witnesses
      OBVIOUS
    <3> HIDE DEF A, B
    <3> QED
      BY <2>1, <3>1, FastQuorumsMeet
  <2>3. c \in synced[r] \/ d \in synced[r]
    BY <2>2 DEF WitnessIsExclusive
  <2>4. PICK s \in committed[r] : cmd[r][s] \in {c, d}
    BY <2>3 DEF CurpInv, SyncedInv
  <2> QED
    BY <2>4 DEF Witnesses
<1> QED
  BY <1>1, TypeCorrect, CurpInvariant, WitnessIsExclusiveHolds, PTL
-------------------------------------------------------------------------------
\* A slot that is learned, and one that is about to be, have the leader's command, and
\* no command has two slots.
LEMMA LearnedAgrees ==
  ASSUME TypeOK', CurpInv', NEW r \in Replicas, NEW s \in executed'[r],
         NEW q \in Replicas, NEW t \in executed'[q],
         s = t \/ cmd'[r][s] = cmd'[q][t]
  PROVE  s = t /\ cmd'[r][s] = cmd'[q][t]
<1>1. s \in Slots /\ t \in Slots
  BY DEF TypeOK
<1>2. cmd'[r][s] # NoCommand /\ cmd'[q][t] # NoCommand
  BY DEF CurpInv, LogInv
<1>3. <<s, cmd'[r][s]>> \in accepts' /\ <<t, cmd'[q][t]>> \in accepts'
  BY <1>1, <1>2 DEF CurpInv, VotesInv
<1> DEFINE a == <<s, cmd'[r][s]>>
           b == <<t, cmd'[q][t]>>
<1>4. a \in accepts' /\ b \in accepts' /\ (a[1] = b[1] \/ a[2] = b[2])
  BY <1>3
<1>5. \A x, y \in accepts' : x[1] = y[1] \/ x[2] = y[2] => x = y
  BY DEF CurpInv, SlotsInv
<1>6. a = b
  <2> HIDE DEF a, b
  <2> QED
    BY <1>4, <1>5
<1> QED
  BY <1>6

\* Every step executes a slot at one replica or none.
LEMMA ExecuteCases ==
  ASSUME TypeOK, CurpInv, [Next]_vars
  PROVE  \/ \E r \in Replicas, s \in Slots : executed' = [executed EXCEPT ![r] = @ \cup {s}]
         \/ executed' = executed
<1>1. ASSUME NEW r \in Replicas, NEW s \in Slots, NEW V \in SUBSET Replicas, NEW kind \in Kinds,
             SlotStep(r, s, V, kind)
      PROVE  executed' \in {[executed EXCEPT ![r] = @ \cup {s}], executed}
  <2>1. PICK W \in SUBSET Replicas, A \in SUBSET {<<r, s>>}, C \in SUBSET {s}, S \in SUBSET {s} :
          Effect(r, s, V, kind, W, A, C, S)
    BY <1>1 DEF SlotStep, HasEffect
  <2>2. executed' = [executed EXCEPT ![r] = @ \cup S]
    BY <2>1 DEF Effect, Deliver
  <2>3. S = {s} \/ S = {}
    OBVIOUS
  <2> QED
    BY <2>2, <2>3 DEF TypeOK
<1>2. ASSUME OtherStep PROVE executed' = executed
  BY <1>2 DEF OtherStep, slotVars
<1> QED
  BY <1>1, <1>2, StepCases DEF CurpInv

\* The replicas implement one log: executing a slot teaches its replica the one command
\* the leader has for it, which no other slot holds, and no other step changes what is
\* learned.
THEOREM Refinement == Spec => ImplementsConsensus
<1>1. Init => Abstract!Init
  BY DEF Init, Abstract!Init, Learned
<1>2. ASSUME TypeOK, CurpInv, TypeOK', CurpInv', [Next]_vars
      PROVE  [Abstract!Next]_Learned
  <2>1. \A r \in Replicas : \A s \in executed[r] : cmd'[r][s] = cmd[r][s]
    BY <1>2, Grows DEF TypeOK, CurpInv, LogInv
  <2>2. ASSUME executed' = executed
        PROVE  Learned' = Learned
    BY <2>1, <2>2 DEF Learned
  <2>3. ASSUME NEW r \in Replicas, NEW s \in Slots,
               executed' = [executed EXCEPT ![r] = @ \cup {s}]
        PROVE  Abstract!Next
    <3> DEFINE c == cmd'[r][s]
    <3>1. s \in executed'[r]
      BY <1>2, <2>3 DEF TypeOK
    <3>2. c \in Commands
      BY <1>2, <3>1 DEF TypeOK, CurpInv, LogInv
    <3>3. \A q \in Replicas : \A t \in executed[q] :
            t \in executed'[q] /\ (s = t \/ c = cmd[q][t] => s = t /\ c = cmd[q][t])
      <4> SUFFICES ASSUME NEW q \in Replicas, NEW t \in executed[q]
                   PROVE  t \in executed'[q] /\ (s = t \/ c = cmd[q][t] => s = t /\ c = cmd[q][t])
        OBVIOUS
      <4>1. t \in executed'[q] /\ cmd'[q][t] = cmd[q][t]
        BY <1>2, <2>1, <2>3 DEF TypeOK
      <4> QED
        BY <1>2, <3>1, <4>1, LearnedAgrees
    <3>4. Learned' = [Learned EXCEPT ![r] = @ \cup {<<s, c>>}]
      <4>1. ASSUME NEW q \in Replicas
            PROVE  Learned'[q] = IF q = r THEN Learned[q] \cup {<<s, c>>} ELSE Learned[q]
        <5>1. Learned'[q] = {<<t, cmd'[q][t]>> : t \in executed'[q]}
          BY DEF Learned
        <5>2. Learned[q] = {<<t, cmd'[q][t]>> : t \in executed[q]}
          BY <2>1 DEF Learned
        <5>3. executed'[q] = IF q = r THEN executed[q] \cup {s} ELSE executed[q]
          BY <1>2, <2>3 DEF TypeOK
        <5> QED
          BY <5>1, <5>2, <5>3
      <4>2. /\ Learned' = [q \in Replicas |-> Learned'[q]]
            /\ Learned = [q \in Replicas |-> Learned[q]]
        BY DEF Learned
      <4> HIDE DEF c
      <4> QED
        BY <4>1, <4>2
    <3>5. Abstract!Learn(r, s, c)
      BY <3>3, <3>4 DEF Abstract!Learn, Abstract!Decided, Learned
    <3> QED
      BY <3>2, <3>5 DEF Abstract!Next
  <2> QED
    BY <1>2, <2>2, <2>3, ExecuteCases
<1>3. TypeOK /\ CurpInv /\ TypeOK' /\ CurpInv' /\ [Next]_vars => [Abstract!Next]_Learned
  BY <1>2
<1> QED
  BY <1>1, <1>3, TypeCorrect, CurpInvariant, PTL
     DEF Spec, ImplementsConsensus, Abstract!Spec
===============================================================================
