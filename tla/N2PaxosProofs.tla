---------------------------- MODULE N2PaxosProofs ----------------------------
(***************************************************************************)
(* Theorems about N2Paxos, for every set of replicas and commands, any     *)
(* number of slots, any assignment of proxies and any set of replicas that *)
(* may stop.                                                               *)
(***************************************************************************)
EXTENDS N2Paxos, FiniteSetTheorems, TLAPS

\* A majority is a number, as the replicas are finitely many.
LEMMA MajorityType == Majority \in Nat
BY ReplicasAssumption, FS_CardinalityType DEF Majority

\* Trying to deliver a slot.
LEMMA TriesType ==
  ASSUME TypeOK, NEW r \in Replicas, NEW s \in Slots, NEW reason, TriesToDeliver(r, s, reason)
  PROVE  /\ delivered' \in [Replicas -> SUBSET Slots]
         /\ executing' \in [Replicas -> SUBSET Slots]
BY DEF TriesToDeliver, TypeOK

\* Taking a command: the slot's command, its own vote, its 2B.
LEMMA TakesType ==
  ASSUME TypeOK, NEW r \in Replicas, NEW s \in Slots, NEW c \in Commands, Takes(r, s, c)
  PROVE  /\ cmd' \in [Replicas -> [Slots -> Commands \cup {NoCommand}]]
         /\ votes' \in [Replicas -> [Slots -> SUBSET Replicas]]
         /\ twoBs' \subseteq Replicas \X Slots
         /\ delivered' \in [Replicas -> SUBSET Slots]
         /\ executing' \in [Replicas -> SUBSET Slots]
<1>1. cmd' \in [Replicas -> [Slots -> Commands \cup {NoCommand}]]
  BY DEF Takes, TypeOK
<1>2. votes' \in [Replicas -> [Slots -> SUBSET Replicas]]
  BY DEF Takes, TypeOK
<1>3. twoBs' \subseteq Replicas \X Slots
  BY DEF Takes, TypeOK
<1>4. /\ delivered' \in [Replicas -> SUBSET Slots]
      /\ executing' \in [Replicas -> SUBSET Slots]
  BY TriesType DEF Takes
<1> QED
  BY <1>1, <1>2, <1>3, <1>4

\* Each step keeps every variable in its type.
LEMMA TypeStep == TypeOK /\ [Next]_vars => TypeOK'
<1> SUFFICES ASSUME TypeOK, [Next]_vars PROVE TypeOK'
  OBVIOUS
<1> USE ReplicasAssumption, CommandAssumption, BoundAssumption
<1>1. ASSUME NEW c \in Commands, LeaderPropose(c)
      PROVE  TypeOK'
  <2>1. lastCmdSlot' \in 0 .. LastSlot + 1
    BY <1>1 DEF LeaderPropose, TypeOK, Slots
  <2>2. proposes' \in [Replicas -> SUBSET Commands]
    BY <1>1 DEF LeaderPropose, TypeOK
  <2>3. pending' \subseteq Slots \X Commands
    BY <1>1 DEF LeaderPropose, TypeOK
  <2> QED
    BY <1>1, <2>1, <2>2, <2>3 DEF LeaderPropose, TypeOK, msgVars, execVars
<1>2. ASSUME NEW r \in Replicas, NEW c \in Commands, FollowerPropose(r, c)
      PROVE  TypeOK'
  <2>1. deliverChan' \in [Replicas -> [Slots -> Nat]]
    BY <1>2 DEF FollowerPropose, WakesUp, TypeOK
  <2>2. proposes' \in [Replicas -> SUBSET Commands]
    BY <1>2 DEF FollowerPropose, TypeOK
  <2> QED
    BY <1>2, <2>1, <2>2 DEF FollowerPropose, TypeOK, msgVars, execVars
<1>3. ASSUME NEW s \in Slots, NEW c \in Commands, HandlePropose(s, c)
      PROVE  TypeOK'
  <2>1. Takes(Leader, s, c)
    BY <1>3 DEF HandlePropose
  <2> QED
    BY <1>3, <2>1, TakesType DEF HandlePropose, TypeOK
<1>4. ASSUME NEW r \in Replicas, NEW s \in Slots, NEW c \in Commands, Handle2A(r, s, c)
      PROVE  TypeOK'
  <2>1. Takes(r, s, c)
    BY <1>4 DEF Handle2A
  <2> QED
    BY <1>4, <2>1, TakesType DEF Handle2A, TypeOK
<1>5. ASSUME NEW r \in Replicas, NEW s \in Slots, NEW q \in Replicas, Handle2B(r, q, s)
      PROVE  TypeOK'
  <2>1. votes' \in [Replicas -> [Slots -> SUBSET Replicas]]
    BY <1>5 DEF Handle2B, TypeOK
  <2>2. TriesToDeliver(r, s, Commits(r, s))
    BY <1>5 DEF Handle2B
  <2> QED
    BY <1>5, <2>1, <2>2, TriesType DEF Handle2B, TypeOK, msgVars
<1>6. ASSUME NEW r \in Replicas, NEW s \in Slots, HandleDeliver(r, s)
      PROVE  TypeOK'
  <2>1. deliverChan' \in [Replicas -> [Slots -> Nat]]
    BY <1>6 DEF HandleDeliver, TypeOK
  <2>2. TriesToDeliver(r, s, TRUE)
    BY <1>6 DEF HandleDeliver
  <2> QED
    BY <1>6, <2>1, <2>2, TriesType DEF HandleDeliver, TypeOK, msgVars
<1>7. ASSUME NEW r \in Replicas, NEW s \in Slots, Execute(r, s)
      PROVE  TypeOK'
  <2>1. deliverChan' \in [Replicas -> [Slots -> Nat]]
    BY <1>7 DEF Execute, WakesUp, TypeOK
  <2>2. log' \in [Replicas -> Seq(Slots)]
    BY <1>7 DEF Execute, TypeOK
  <2>3. answered' \subseteq Commands
    BY <1>7 DEF Execute, TypeOK
  <2>4. executing' \in [Replicas -> SUBSET Slots]
    BY <1>7 DEF Execute, TypeOK
  <2> QED
    BY <1>7, <2>1, <2>2, <2>3, <2>4 DEF Execute, TypeOK, msgVars
<1>8. ASSUME NEW r \in Replicas, Stop(r)
      PROVE  TypeOK'
  BY <1>8 DEF Stop, TypeOK, msgVars, execVars
<1>9. CASE UNCHANGED vars
  BY <1>9 DEF vars, TypeOK, msgVars, execVars
<1> QED
  BY <1>1, <1>2, <1>3, <1>4, <1>5, <1>6, <1>7, <1>8, <1>9 DEF Next, Step

\* Type correctness of the whole state of the replicas, their network and clients.
THEOREM TypeCorrect == Spec => []TypeOK
<1>1. Init => TypeOK
  <2> SUFFICES ASSUME Init PROVE TypeOK
    OBVIOUS
  <2>1. log \in [Replicas -> Seq(Slots)]
    BY DEF Init
  <2> QED
    BY <2>1, BoundAssumption DEF Init, TypeOK, Slots
<1> QED
  BY <1>1, TypeStep, PTL DEF Spec
-------------------------------------------------------------------------------
\* The leader's counter and its dropped duplicates keep slots and commands paired.
LEMMA SlotsStep ==
  ASSUME TypeOK, SlotsInv, [Next]_vars PROVE SlotsInv'
<1>1. ASSUME NEW c \in Commands, LeaderPropose(c)
      PROVE  SlotsInv'
  <2> DEFINE new == <<lastCmdSlot, c>>
  <2>1. /\ pending' \cup twoAs' = (pending \cup twoAs) \cup {new}
        /\ lastCmdSlot' = lastCmdSlot + 1
        /\ lastCmdSlot \in Nat
    BY <1>1 DEF LeaderPropose, Slots, msgVars
  <2>2. proposes'[Leader] = proposes[Leader] \cup {c} /\ c \notin proposes[Leader]
    BY <1>1, ReplicasAssumption DEF LeaderPropose, TypeOK
  <2>3. \A p \in pending \cup twoAs :
          /\ p[1] \in Int /\ p[1] < lastCmdSlot
          /\ p[2] \in proposes[Leader]
    BY DEF SlotsInv, TypeOK, Slots
  <2>4. ASSUME NEW p \in (pending \cup twoAs) \cup {new}
        PROVE  p[1] < lastCmdSlot + 1 /\ p[2] \in proposes'[Leader]
    BY <2>1, <2>2, <2>3, <2>4
  <2>5. ASSUME NEW p \in (pending \cup twoAs) \cup {new},
               NEW q \in (pending \cup twoAs) \cup {new},
               p[1] = q[1] \/ p[2] = q[2]
        PROVE  p = q
    <3>1. CASE p \in pending \cup twoAs /\ q \in pending \cup twoAs
      BY <2>5, <3>1 DEF SlotsInv
    <3>2. \A x \in pending \cup twoAs : x[1] # new[1] /\ x[2] # new[2]
      BY <2>1, <2>2, <2>3
    <3> QED
      BY <2>5, <3>1, <3>2
  <2> HIDE DEF new
  <2> QED
    BY <2>1, <2>4, <2>5 DEF SlotsInv
<1>2. ASSUME NEW r \in Replicas, NEW c \in Commands, FollowerPropose(r, c)
      PROVE  SlotsInv'
  BY <1>2 DEF FollowerPropose, SlotsInv, TypeOK, msgVars
<1>3. ASSUME NEW s \in Slots, NEW c \in Commands, HandlePropose(s, c)
      PROVE  SlotsInv'
  <2>1. pending' \cup twoAs' = pending \cup twoAs
    BY <1>3 DEF HandlePropose
  <2>2. UNCHANGED <<lastCmdSlot, proposes>>
    BY <1>3 DEF HandlePropose
  <2> QED
    BY <2>1, <2>2 DEF SlotsInv
<1>4. CASE UNCHANGED <<lastCmdSlot, proposes, pending, twoAs>>
  BY <1>4 DEF SlotsInv
<1> QED
  BY <1>1, <1>2, <1>3, <1>4
     DEF Next, Step, Handle2A, Handle2B, HandleDeliver, Execute, Stop, vars, msgVars

\* The command of a slot is known once and for all, at each replica, and its votes
\* stay.
LEMMA Grows ==
  ASSUME TypeOK, SlotsInv, VotesInv, [Next]_vars, NEW r \in Replicas, NEW s \in Slots
  PROVE  /\ twoAs \subseteq twoAs'
         /\ cmd[r][s] # NoCommand => cmd'[r][s] = cmd[r][s]
         /\ votes[r][s] \subseteq votes'[r][s]
<1>1. ASSUME NEW t \in Slots, NEW c \in Commands, HandlePropose(t, c)
      PROVE  /\ cmd[r][s] # NoCommand => cmd'[r][s] = cmd[r][s]
             /\ votes[r][s] \subseteq votes'[r][s]
             /\ twoAs \subseteq twoAs'
  <2>1. /\ cmd' = [cmd EXCEPT ![Leader][t] = c]
        /\ votes' = [votes EXCEPT ![Leader][t] = @ \cup {Leader}]
        /\ twoAs' = twoAs \cup {<<t, c>>}
        /\ <<t, c>> \in pending
    BY <1>1 DEF HandlePropose, Takes
  <2>2. cmd[Leader][t] # NoCommand => cmd[Leader][t] = c
    <3> SUFFICES ASSUME cmd[Leader][t] # NoCommand PROVE cmd[Leader][t] = c
      OBVIOUS
    <3>1. <<t, cmd[Leader][t]>> \in twoAs
      BY ReplicasAssumption DEF VotesInv
    <3>2. <<t, cmd[Leader][t]>> = <<t, c>>
      BY <2>1, <3>1 DEF SlotsInv
    <3> QED
      BY <3>2
  <2> QED
    BY <2>1, <2>2 DEF TypeOK
<1>2. ASSUME NEW p \in Replicas, NEW t \in Slots, NEW c \in Commands, Handle2A(p, t, c)
      PROVE  /\ cmd[r][s] # NoCommand => cmd'[r][s] = cmd[r][s]
             /\ votes[r][s] \subseteq votes'[r][s]
             /\ twoAs \subseteq twoAs'
  BY <1>2 DEF Handle2A, Takes, TypeOK
<1>3. ASSUME NEW p \in Replicas, NEW t \in Slots, NEW q \in Replicas, Handle2B(p, q, t)
      PROVE  /\ UNCHANGED <<cmd, twoAs>>
             /\ votes[r][s] \subseteq votes'[r][s]
  BY <1>3 DEF Handle2B, TypeOK, msgVars
<1>4. CASE UNCHANGED <<cmd, votes, twoAs>>
  BY <1>4
<1> QED
  BY <1>1, <1>2, <1>3, <1>4
     DEF Next, Step, LeaderPropose, FollowerPropose, HandleDeliver, Execute, Stop, vars, msgVars

\* A replica that takes what the leader has sent knows it and votes for it.
LEMMA TakesVotes ==
  ASSUME TypeOK, VotesInv, NEW p \in Replicas, NEW t \in Slots, NEW c \in Commands,
         Takes(p, t, c), twoAs \subseteq twoAs', <<t, c>> \in twoAs'
  PROVE  VotesInv'
<1> SUFFICES ASSUME NEW r \in Replicas, NEW s \in Slots
             PROVE  /\ cmd'[r][s] # NoCommand => <<s, cmd'[r][s]>> \in twoAs'
                    /\ \A q \in votes'[r][s] : <<q, s>> \in twoBs'
                    /\ <<r, s>> \in twoBs' => cmd'[r][s] # NoCommand
  BY DEF VotesInv
<1>1. /\ cmd' = [cmd EXCEPT ![p][t] = c]
      /\ votes' = [votes EXCEPT ![p][t] = @ \cup {p}]
      /\ twoBs' = twoBs \cup {<<p, t>>}
  BY DEF Takes
<1>2. /\ cmd[r][s] # NoCommand => <<s, cmd[r][s]>> \in twoAs
      /\ \A q \in votes[r][s] : <<q, s>> \in twoBs
      /\ <<r, s>> \in twoBs => cmd[r][s] # NoCommand
  BY DEF VotesInv
<1>3. cmd'[r][s] = IF r = p /\ s = t THEN c ELSE cmd[r][s]
  BY <1>1 DEF TypeOK
<1>4. votes'[r][s] = IF r = p /\ s = t THEN votes[r][s] \cup {p} ELSE votes[r][s]
  BY <1>1 DEF TypeOK
<1>5. c # NoCommand
  BY CommandAssumption
<1> QED
  BY <1>1, <1>2, <1>3, <1>4, <1>5

\* Votes are for the commands the leader has sent.
LEMMA VotesStep ==
  ASSUME TypeOK, VotesInv, [Next]_vars PROVE VotesInv'
<1>1. ASSUME NEW s \in Slots, NEW c \in Commands, HandlePropose(s, c)
      PROVE  VotesInv'
  BY <1>1, TakesVotes, ReplicasAssumption DEF HandlePropose
<1>2. ASSUME NEW r \in Replicas, NEW s \in Slots, NEW c \in Commands, Handle2A(r, s, c)
      PROVE  VotesInv'
  BY <1>2, TakesVotes DEF Handle2A
<1>3. ASSUME NEW r \in Replicas, NEW s \in Slots, NEW q \in Replicas, Handle2B(r, q, s)
      PROVE  VotesInv'
  BY <1>3 DEF Handle2B, VotesInv, TypeOK, msgVars
<1>4. CASE UNCHANGED <<cmd, votes, twoAs, twoBs>>
  BY <1>4 DEF VotesInv
<1> QED
  BY <1>1, <1>2, <1>3, <1>4
     DEF Next, Step, LeaderPropose, FollowerPropose, HandleDeliver, Execute, Stop, vars, msgVars

\* Every step delivers a slot at one replica (deliver lets it through), executes one,
\* or leaves both alone.
LEMMA DeliverCases ==
  ASSUME TypeOK, [Next]_vars
  PROVE  \/ \E r \in Replicas, s \in Slots :
              /\ CanDeliver(r, s)
              /\ delivered' = [delivered EXCEPT ![r] = @ \cup {s}]
              /\ executing' = [executing EXCEPT ![r] = @ \cup {s}]
              /\ log' = log
         \/ \E r \in Replicas, s \in Slots : Execute(r, s)
         \/ UNCHANGED <<delivered, executing, log>>
<1> DEFINE Delivers ==
      \/ \E r \in Replicas, s \in Slots :
           /\ CanDeliver(r, s)
           /\ delivered' = [delivered EXCEPT ![r] = @ \cup {s}]
           /\ executing' = [executing EXCEPT ![r] = @ \cup {s}]
           /\ log' = log
      \/ UNCHANGED <<delivered, executing, log>>
<1>1. ASSUME NEW r \in Replicas, NEW s \in Slots, NEW reason,
             TriesToDeliver(r, s, reason), log' = log
      PROVE  Delivers
  <2> DEFINE T == {t \in {s} : reason /\ CanDeliver(r, t)}
  <2>1. T = {} \/ (T = {s} /\ CanDeliver(r, s))
    OBVIOUS
  <2>2. /\ delivered' = [delivered EXCEPT ![r] = @ \cup T]
        /\ executing' = [executing EXCEPT ![r] = @ \cup T]
    BY <1>1 DEF TriesToDeliver
  <2> HIDE DEF T
  <2>3. T = {} => delivered' = delivered /\ executing' = executing
    BY <2>2 DEF TypeOK
  <2> QED
    BY <1>1, <2>1, <2>2, <2>3
<1> HIDE DEF Delivers
<1>2. ASSUME NEW s \in Slots, NEW c \in Commands, HandlePropose(s, c)
      PROVE  Delivers
  BY <1>1, <1>2, ReplicasAssumption DEF HandlePropose, Takes
<1>3. ASSUME NEW r \in Replicas, NEW s \in Slots, NEW c \in Commands, Handle2A(r, s, c)
      PROVE  Delivers
  BY <1>1, <1>3 DEF Handle2A, Takes
<1>4. ASSUME NEW r \in Replicas, NEW s \in Slots, NEW q \in Replicas, Handle2B(r, q, s)
      PROVE  Delivers
  BY <1>1, <1>4 DEF Handle2B
<1>5. ASSUME NEW r \in Replicas, NEW s \in Slots, HandleDeliver(r, s)
      PROVE  Delivers
  BY <1>1, <1>5 DEF HandleDeliver
<1>6. Delivers \/ (\E r \in Replicas, s \in Slots : Execute(r, s))
               \/ UNCHANGED <<delivered, executing, log>>
  BY <1>2, <1>3, <1>4, <1>5
     DEF Next, Step, LeaderPropose, FollowerPropose, Stop, vars, execVars
<1> QED
  BY <1>6 DEF Delivers

\* Delivered slots are new ones that deliver lets through or were delivered before.
LEMMA NewlyDelivered ==
  ASSUME TypeOK, [Next]_vars, NEW r \in Replicas, NEW s \in delivered'[r]
  PROVE  s \in delivered[r] \/ CanDeliver(r, s)
<1>1. ASSUME NEW q \in Replicas, NEW t \in Slots, CanDeliver(q, t),
             delivered' = [delivered EXCEPT ![q] = @ \cup {t}]
      PROVE  s \in delivered[r] \/ CanDeliver(r, s)
  BY <1>1 DEF TypeOK
<1>2. ASSUME delivered' = delivered
      PROVE  s \in delivered[r]
  BY <1>2
<1>3. ASSUME NEW q \in Replicas, NEW t \in Slots, Execute(q, t)
      PROVE  s \in delivered[r]
  BY <1>3 DEF Execute
<1> QED
  BY <1>1, <1>2, <1>3, DeliverCases

\* A delivered slot keeps its command and its votes, and a new one has them.
LEMMA DeliveredStep ==
  ASSUME TypeOK, SlotsInv, VotesInv, DeliveredInv, [Next]_vars PROVE DeliveredInv'
<1> SUFFICES ASSUME NEW r \in Replicas, NEW s \in delivered'[r]
             PROVE  /\ cmd'[r][s] # NoCommand
                    /\ r # Leader => Cardinality(votes'[r][s]) >= Majority
  BY DEF DeliveredInv, Majority
<1>1. TypeOK'
  BY TypeStep
<1>2. s \in Slots
  BY <1>1 DEF TypeOK
<1>3. CASE CanDeliver(r, s)
  BY <1>3 DEF CanDeliver, Commits
<1>4. CASE s \in delivered[r]
  <2>1. /\ cmd'[r][s] = cmd[r][s] /\ cmd[r][s] # NoCommand
        /\ votes[r][s] \subseteq votes'[r][s]
        /\ r # Leader => Cardinality(votes[r][s]) >= Majority
    BY <1>2, <1>4, Grows DEF DeliveredInv
  <2>2. votes'[r][s] \subseteq Replicas
    BY <1>1, <1>2 DEF TypeOK
  <2>3. IsFiniteSet(votes'[r][s])
    BY <2>2, ReplicasAssumption, FS_Subset
  <2>4. IsFiniteSet(votes[r][s]) /\ Cardinality(votes[r][s]) <= Cardinality(votes'[r][s])
    BY <2>1, <2>3, FS_Subset
  <2>5. Cardinality(votes[r][s]) \in Nat /\ Cardinality(votes'[r][s]) \in Nat
    BY <2>3, <2>4, FS_CardinalityType
  <2> QED
    BY <2>1, <2>4, <2>5, MajorityType
<1> QED
  BY <1>3, <1>4, NewlyDelivered

\* A slot passes from delivered to executing to the log, once.
LEMMA LogStep ==
  ASSUME TypeOK, LogInv, [Next]_vars PROVE LogInv'
<1>1. ASSUME NEW r \in Replicas, NEW s \in Slots, CanDeliver(r, s),
             delivered' = [delivered EXCEPT ![r] = @ \cup {s}],
             executing' = [executing EXCEPT ![r] = @ \cup {s}], log' = log
      PROVE  LogInv'
  <2>1. s \notin delivered[r]
    BY <1>1 DEF CanDeliver
  <2> QED
    BY <1>1, <2>1 DEF LogInv, TypeOK
<1>2. ASSUME NEW r \in Replicas, NEW s \in Slots, Execute(r, s)
      PROVE  LogInv'
  <2> SUFFICES ASSUME NEW q \in Replicas
               PROVE  /\ executing'[q] \subseteq delivered'[q]
                      /\ \A k \in 1 .. Len(log'[q]) :
                           log'[q][k] \in delivered'[q] \ executing'[q]
                      /\ \A j, k \in 1 .. Len(log'[q]) : log'[q][j] = log'[q][k] => j = k
    BY DEF LogInv
  <2>1. /\ s \in executing[r]
        /\ executing' = [executing EXCEPT ![r] = @ \ {s}]
        /\ log' = [log EXCEPT ![r] = Append(@, s)]
        /\ delivered' = delivered
    BY <1>2 DEF Execute
  <2>2. /\ executing[q] \subseteq delivered[q]
        /\ \A k \in 1 .. Len(log[q]) : log[q][k] \in delivered[q] \ executing[q]
        /\ \A j, k \in 1 .. Len(log[q]) : log[q][j] = log[q][k] => j = k
    BY DEF LogInv
  <2>3. CASE q # r
    BY <2>1, <2>2, <2>3 DEF TypeOK
  <2>4. CASE q = r
    <3>1. log[r] \in Seq(Slots) /\ Len(log[r]) \in Nat
      BY DEF TypeOK
    <3>2. /\ log'[r] = Append(log[r], s)
          /\ executing'[r] = executing[r] \ {s}
      BY <2>1 DEF TypeOK
    <3>3. /\ Len(log'[r]) = Len(log[r]) + 1
          /\ log'[r][Len(log[r]) + 1] = s
          /\ \A k \in 1 .. Len(log[r]) : log'[r][k] = log[r][k]
      BY <3>1, <3>2
    <3>4. \A k \in 1 .. Len(log[r]) : log[r][k] # s
      BY <2>1, <2>2, <2>4
    <3>5. \A k \in 1 .. Len(log'[r]) : k \in 1 .. Len(log[r]) \/ k = Len(log[r]) + 1
      BY <3>1, <3>3
    <3>6. \A k \in 1 .. Len(log'[r]) : log'[r][k] \in delivered[r] \ executing'[r]
      BY <2>1, <2>2, <2>4, <3>2, <3>3, <3>5
    <3>7. \A j, k \in 1 .. Len(log'[r]) : log'[r][j] = log'[r][k] => j = k
      BY <2>2, <2>4, <3>3, <3>4, <3>5
    <3> QED
      BY <2>1, <2>2, <2>4, <3>2, <3>6, <3>7
  <2> QED
    BY <2>3, <2>4
<1>3. CASE UNCHANGED <<delivered, executing, log>>
  BY <1>3 DEF LogInv
<1> QED
  BY <1>1, <1>2, <1>3, DeliverCases

\* The inductive invariant: one leader gives one slot to one command, replicas and
\* votes follow it, and what a replica delivers and executes is what it holds.
THEOREM LeaderInvariant == Spec => []LeaderInv
<1>1. Init => LeaderInv
  BY DEF Init, LeaderInv, SlotsInv, VotesInv, DeliveredInv, LogInv
<1>2. TypeOK /\ LeaderInv /\ [Next]_vars => LeaderInv'
  BY SlotsStep, VotesStep, DeliveredStep, LogStep DEF LeaderInv
<1> QED
  BY <1>1, <1>2, TypeCorrect, PTL DEF Spec
-------------------------------------------------------------------------------
\* Two replicas that know a slot know the same command, and no command has two slots.
LEMMA SameCommand ==
  ASSUME TypeOK, LeaderInv, NEW r \in Replicas, NEW q \in Replicas,
         NEW s \in Slots, NEW t \in Slots,
         cmd[r][s] # NoCommand, cmd[q][t] # NoCommand,
         s = t \/ cmd[r][s] = cmd[q][t]
  PROVE  s = t /\ cmd[r][s] = cmd[q][t]
<1> DEFINE a == <<s, cmd[r][s]>>
           b == <<t, cmd[q][t]>>
<1>1. a \in pending \cup twoAs /\ b \in pending \cup twoAs
  BY DEF LeaderInv, VotesInv
<1>2. a[1] = b[1] \/ a[2] = b[2]
  OBVIOUS
<1>3. \A x, y \in pending \cup twoAs : x[1] = y[1] \/ x[2] = y[2] => x = y
  BY DEF LeaderInv, SlotsInv
<1>4. a = b
  <2> HIDE DEF a, b
  <2> QED
    BY <1>1, <1>2, <1>3
<1> QED
  BY <1>4

\* What a follower delivers is held by a majority: the votes it counted are of
\* replicas that hold the command, and these do not forget it.
THEOREM DeliveredIsHeldHolds == Spec => []DeliveredIsHeld
<1>1. TypeOK /\ LeaderInv => DeliveredIsHeld
  <2> SUFFICES ASSUME TypeOK, LeaderInv, NEW r \in Replicas \ {Leader}, NEW s \in delivered[r]
               PROVE  Cardinality(Holders(r, s)) >= Majority
    BY DEF DeliveredIsHeld
  <2>1. s \in Slots
    BY DEF TypeOK
  <2>2. cmd[r][s] # NoCommand /\ Cardinality(votes[r][s]) >= Majority
    BY DEF LeaderInv, DeliveredInv
  <2>3. votes[r][s] \subseteq Replicas /\ \A q \in votes[r][s] : <<q, s>> \in twoBs
    <3>1. r \in Replicas
      OBVIOUS
    <3>2. votes[r][s] \subseteq Replicas
      BY <2>1, <3>1 DEF TypeOK
    <3>3. \A q \in votes[r][s] : <<q, s>> \in twoBs
      BY <2>1, <3>1 DEF LeaderInv, VotesInv
    <3> QED
      BY <3>2, <3>3
  <2>4. ASSUME NEW q \in votes[r][s] PROVE q \in Holders(r, s)
    <3>1. cmd[q][s] # NoCommand
      BY <2>1, <2>3 DEF LeaderInv, VotesInv
    <3> QED
      BY <2>1, <2>2, <2>3, <3>1, SameCommand DEF Holders
  <2>5. IsFiniteSet(Holders(r, s))
    BY ReplicasAssumption, FS_Subset DEF Holders
  <2>6. /\ IsFiniteSet(votes[r][s])
        /\ Cardinality(votes[r][s]) <= Cardinality(Holders(r, s))
    BY <2>4, <2>5, FS_Subset
  <2>7. Cardinality(votes[r][s]) \in Nat /\ Cardinality(Holders(r, s)) \in Nat
    BY <2>5, <2>6, FS_CardinalityType
  <2> QED
    BY <2>2, <2>6, <2>7, MajorityType
<1> QED
  BY <1>1, TypeCorrect, LeaderInvariant, PTL

\* No replica executes a command twice, however often deliver is attempted for its
\* slot and whatever happens between marking the slot and executing it.
THEOREM ExecutedOnceHolds == Spec => []ExecutedOnce
<1>1. TypeOK /\ LeaderInv => ExecutedOnce
  <2> SUFFICES ASSUME TypeOK, LeaderInv, NEW r \in Replicas,
                      NEW j \in 1 .. Len(log[r]), NEW k \in 1 .. Len(log[r]),
                      cmd[r][log[r][j]] = cmd[r][log[r][k]]
               PROVE  j = k
    BY DEF ExecutedOnce
  <2>1. log[r][j] \in delivered[r] /\ log[r][k] \in delivered[r]
    BY DEF LeaderInv, LogInv
  <2>2. log[r][j] \in Slots /\ log[r][k] \in Slots
    BY <2>1 DEF TypeOK
  <2>3. cmd[r][log[r][j]] # NoCommand /\ cmd[r][log[r][k]] # NoCommand
    BY <2>1 DEF LeaderInv, DeliveredInv
  <2>4. log[r][j] = log[r][k]
    BY <2>2, <2>3, SameCommand
  <2> QED
    BY <2>4 DEF LeaderInv, LogInv
<1> QED
  BY <1>1, TypeCorrect, LeaderInvariant, PTL

\* A slot that is learned, and one that is about to be, have the leader's command.
LEMMA LearnedAgrees ==
  ASSUME TypeOK', LeaderInv', NEW r \in Replicas, NEW s \in delivered'[r],
         NEW q \in Replicas, NEW t \in delivered'[q],
         s = t \/ cmd'[r][s] = cmd'[q][t]
  PROVE  s = t /\ cmd'[r][s] = cmd'[q][t]
<1>1. s \in Slots /\ t \in Slots
  BY DEF TypeOK
<1>2. cmd'[r][s] # NoCommand /\ cmd'[q][t] # NoCommand
  BY DEF LeaderInv, DeliveredInv
<1>3. <<s, cmd'[r][s]>> \in twoAs' /\ <<t, cmd'[q][t]>> \in twoAs'
  BY <1>1, <1>2 DEF LeaderInv, VotesInv
<1> DEFINE a == <<s, cmd'[r][s]>>
           b == <<t, cmd'[q][t]>>
<1>4. a \in twoAs' /\ b \in twoAs' /\ (a[1] = b[1] \/ a[2] = b[2])
  BY <1>3
<1>5. \A x, y \in twoAs' : x[1] = y[1] \/ x[2] = y[2] => x = y
  BY DEF LeaderInv, SlotsInv
<1>6. a = b
  <2> HIDE DEF a, b
  <2> QED
    BY <1>4, <1>5
<1> QED
  BY <1>6

\* The replicas implement one log: delivering a slot teaches its replica the one
\* command the leader has for it, which no other slot holds, and no other step
\* changes what is learned.
THEOREM Refinement == Spec => ImplementsConsensus
<1>1. Init => Abstract!Init
  BY DEF Init, Abstract!Init, Learned
<1>2. ASSUME TypeOK, LeaderInv, TypeOK', LeaderInv', [Next]_vars
      PROVE  [Abstract!Next]_Learned
  <2>1. \A r \in Replicas : \A s \in delivered[r] : cmd'[r][s] = cmd[r][s]
    BY <1>2, Grows DEF TypeOK, LeaderInv, DeliveredInv
  <2>2. ASSUME delivered' = delivered
        PROVE  Learned' = Learned
    BY <2>1, <2>2 DEF Learned
  <2>3. ASSUME NEW r \in Replicas, NEW s \in Slots,
               delivered' = [delivered EXCEPT ![r] = @ \cup {s}]
        PROVE  Abstract!Next
    <3> DEFINE c == cmd'[r][s]
    <3>1. s \in delivered'[r] /\ delivered[r] \subseteq delivered'[r]
      BY <1>2, <2>3 DEF TypeOK
    <3>2. c \in Commands
      BY <1>2, <3>1 DEF TypeOK, LeaderInv, DeliveredInv
    <3>3. \A q \in Replicas : \A t \in delivered[q] :
            t \in delivered'[q] /\ (s = t \/ c = cmd[q][t] => s = t /\ c = cmd[q][t])
      <4> SUFFICES ASSUME NEW q \in Replicas, NEW t \in delivered[q]
                   PROVE  t \in delivered'[q] /\ (s = t \/ c = cmd[q][t] => s = t /\ c = cmd[q][t])
        OBVIOUS
      <4>1. t \in delivered'[q] /\ cmd'[q][t] = cmd[q][t]
        BY <1>2, <2>1, <2>3 DEF TypeOK
      <4> QED
        BY <1>2, <3>1, <4>1, LearnedAgrees
    <3>4. Learned' = [Learned EXCEPT ![r] = @ \cup {<<s, c>>}]
      <4>1. ASSUME NEW q \in Replicas
            PROVE  Learned'[q] = IF q = r THEN Learned[q] \cup {<<s, c>>} ELSE Learned[q]
        <5>1. Learned'[q] = {<<t, cmd'[q][t]>> : t \in delivered'[q]}
          BY DEF Learned
        <5>2. Learned[q] = {<<t, cmd'[q][t]>> : t \in delivered[q]}
          BY <2>1 DEF Learned
        <5>3. delivered'[q] = IF q = r THEN delivered[q] \cup {s} ELSE delivered[q]
          BY <1>2, <2>3 DEF TypeOK
        <5> QED
          BY <5>1, <5>2, <5>3
      <4>2. /\ Learned' = [q \in Replicas |-> Learned'[q]]
            /\ Learned = [q \in Replicas |-> Learned[q]]
        BY DEF Learned
      <4> HIDE DEF c
      <4> QED
        BY <4>1, <4>2
    <3>5. Abstract!Learn(r, s, c)
      BY <3>3, <3>4 DEF Abstract!Learn, Abstract!Decided, Learned
    <3> QED
      BY <3>2, <3>5 DEF Abstract!Next
  <2>4. ASSUME NEW r \in Replicas, NEW s \in Slots, Execute(r, s)
        PROVE  delivered' = delivered
    BY <2>4 DEF Execute
  <2> QED
    BY <1>2, <2>2, <2>3, <2>4, DeliverCases
<1>3. TypeOK /\ LeaderInv /\ TypeOK' /\ LeaderInv' /\ [Next]_vars => [Abstract!Next]_Learned
  BY <1>2
<1> QED
  BY <1>1, <1>3, TypeCorrect, LeaderInvariant, PTL
     DEF Spec, ImplementsConsensus, Abstract!Spec
===============================================================================
