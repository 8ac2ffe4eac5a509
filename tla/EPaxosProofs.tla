----------------------------- MODULE EPaxosProofs ------------------------------
(***************************************************************************)
(* Theorems about the commit protocol of EPaxos, whatever the network      *)
(* loses with a process that stops, and whoever recovers other instances:  *)
(*   - the types;                                                          *)
(*   - the replicas commit an instance that nobody has begun to recover    *)
(*     with the same commands, sequence number and dependencies;           *)
(*   - of two such instances with conflicting commands one depends on the  *)
(*     other, if a batch is one command and any two fast quorums meet.     *)
(***************************************************************************)
EXTENDS EPaxosCommit, FiniteSetTheorems, SequenceTheorems, WellFoundedInduction, TLAPS

\* A set of naturals has a least member.
LEMMA LeastOf ==
  ASSUME NEW T, T \subseteq Nat, T # {}
  PROVE  \E x \in T : \A y \in T : x <= y
<1> DEFINE R == OpToRel(<, Nat)
<1>1. IsWellFoundedOn(R, Nat)
  BY NatLessThanWellFounded
<1>2. \A x, y \in Nat : x < y => <<x, y>> \in R
  BY DEF OpToRel
<1> HIDE DEF R
<1>3. PICK x \in T : \A y \in T : ~(<<y, x>> \in R)
  BY <1>1, WFMin
<1>4. ASSUME NEW y \in T PROVE x <= y
  <2>1. x \in Nat /\ y \in Nat /\ ~(y < x)
    BY <1>2, <1>3
  <2> QED
    BY <2>1
<1> QED
  BY <1>4

\* What Min chooses of a set of naturals.
LEMMA MinIn ==
  ASSUME NEW T, T \subseteq Nat, T # {}
  PROVE  Min(T) \in T
BY LeastOf DEF Min

\* A finite set of integers has a greatest member, which Max chooses.
LEMMA MaxIn ==
  ASSUME NEW T, IsFiniteSet(T), T # {}, T \subseteq Int
  PROVE  Max(T) \in T /\ \A y \in T : y <= Max(T)
<1> DEFINE HasMax(S) == \E x \in S : \A y \in S : y <= x
           Bad == {n \in Nat : \E S \in SUBSET T : S # {} /\ Cardinality(S) = n /\ ~HasMax(S)}
<1>1. ASSUME Bad # {} PROVE FALSE
  <2>1. PICK n \in Bad : \A m \in Bad : n <= m
    BY <1>1, LeastOf
  <2>2. PICK S \in SUBSET T : S # {} /\ Cardinality(S) = n /\ ~HasMax(S)
    BY <2>1
  <2>3. PICK z \in S : TRUE
    BY <2>2
  <2> DEFINE R == S \ {z}
  <2>4. IsFiniteSet(S) /\ IsFiniteSet(R) /\ Cardinality(R) = n - 1 /\ n \in Nat /\ n - 1 \in Nat
    <3>1. IsFiniteSet(S)
      BY <2>2, FS_Subset
    <3>2. IsFiniteSet(R) /\ Cardinality(R) = Cardinality(S) - 1
      BY <2>3, <3>1, FS_RemoveElement
    <3> QED
      BY <2>1, <2>2, <3>1, <3>2, FS_CardinalityType
  <2>5. CASE R = {}
    <3>1. S = {z} /\ z \in Int
      BY <2>2, <2>3, <2>5
    <3>2. HasMax(S)
      BY <3>1
    <3> QED
      BY <2>2, <3>2
  <2>6. CASE R # {}
    <3>1. HasMax(R)
      <4>1. n - 1 \notin Bad
        BY <2>1, <2>4
      <4> QED
        BY <2>4, <2>6, <4>1
    <3>2. PICK x \in R : \A y \in R : y <= x
      BY <3>1
    <3>3. x \in S /\ x \in Int /\ z \in Int /\ S \subseteq Int
      BY <2>2, <2>3, <3>2
    <3>4. CASE z <= x
      <4>1. \A y \in S : y <= x
        BY <3>2, <3>4
      <4> QED
        BY <2>2, <3>3, <4>1
    <3>5. CASE x < z
      <4>1. \A y \in S : y <= z
        BY <3>2, <3>3, <3>5
      <4> QED
        BY <2>2, <2>3, <4>1
    <3> QED
      BY <3>3, <3>4, <3>5
  <2> QED
    BY <2>5, <2>6
<1>2. PICK x \in T : \A y \in T : y <= x
  <2>1. Cardinality(T) \in Nat
    BY FS_CardinalityType
  <2>2. HasMax(T)
    BY <1>1, <2>1
  <2> QED
    BY <2>2
<1>3. \E z \in T : \A y \in T : z >= y
  BY <1>2
<1>4. Max(T) \in T /\ \A y \in T : Max(T) >= y
  BY <1>3 DEF Max
<1> QED
  BY <1>4

\* The values of a function on a finite set are finitely many.
LEMMA FiniteImage ==
  ASSUME NEW f, IsFiniteSet(DOMAIN f)
  PROVE  IsFiniteSet({f[x] : x \in DOMAIN f})
<1> DEFINE S == DOMAIN f
           T == {f[x] : x \in S}
           g == [x \in S |-> f[x]]
<1>1. g \in Surjection(S, T)
  <2>1. g \in [S -> T]
    OBVIOUS
  <2>2. \A t \in T : \E s \in S : g[s] = t
    OBVIOUS
  <2> QED
    BY <2>1, <2>2 DEF Surjection
<1> QED
  BY <1>1, FS_Surjection

(***************************************************************************)
(* The types.                                                              *)
(***************************************************************************)
\* The statuses are ordered.
LEMMA Statuses ==
  /\ NONE = 0 /\ PREACCEPTED = 1 /\ PREACCEPTED_EQ = 2 /\ ACCEPTED = 3 /\ COMMITTED = 4 /\ EXECUTED = 5
BY DEF NONE, PREACCEPTED, PREACCEPTED_EQ, ACCEPTED, COMMITTED, EXECUTED

LEMMA SizeFacts ==
  /\ N \in Nat /\ N >= 1 /\ N <= 7 /\ MaxInstance \in Nat /\ MaxBatch \in Nat
  /\ IsFiniteSet(Replicas) /\ Cardinality(Replicas) = N /\ Replicas \subseteq Nat
<1>1. N \in 1 .. 7 /\ MaxInstance \in Nat /\ MaxBatch \in Nat
  BY SizeAssumption
<1>2. IsFiniteSet(0 .. N - 1) /\ Cardinality(0 .. N - 1) = N
  BY <1>1, FS_Interval
<1> QED
  BY <1>1, <1>2 DEF Replicas

\* The commands of a batch are each on a key.
LEMMA BatchFacts ==
  ASSUME NEW cmds \in Batches
  PROVE  /\ DOMAIN cmds \subseteq Nat \ {0} /\ IsFiniteSet(DOMAIN cmds)
         /\ \A i \in DOMAIN cmds : cmds[i] \in Commands \cup {Noop} /\ Key[cmds[i]] \in Keys
         /\ cmds # Nil
<1>1. CASE cmds = <<Noop>>
  <2>1. DOMAIN cmds = 1 .. 1 /\ cmds[1] = Noop
    BY <1>1
  <2>2. IsFiniteSet(1 .. 1)
    <3>1. 1 .. 1 = {1}
      OBVIOUS
    <3> QED
      BY <3>1, FS_Singleton
  <2>3. cmds # Nil
    BY NilAssumption
  <2> QED
    BY <2>1, <2>2, <2>3 DEF Keys
<1>2. CASE cmds = <<>>
  <2>1. DOMAIN cmds = {} /\ cmds # Nil
    BY <1>2, NilAssumption
  <2> QED
    BY <2>1, FS_EmptySet
<1>3. CASE cmds # <<Noop>> /\ cmds # <<>>
  <2>1. PICK n \in 1 .. MaxBatch : cmds \in [1 .. n -> Commands]
    BY <1>3 DEF Batches
  <2>2. n \in Nat /\ n >= 1 /\ DOMAIN cmds = 1 .. n
    BY <2>1, SizeFacts
  <2>3. IsFiniteSet(1 .. n)
    BY <2>2, FS_Interval
  <2>4. cmds # Nil
    BY NilAssumption
  <2> QED
    BY <2>1, <2>2, <2>3, <2>4 DEF Keys
<1> QED
  BY <1>1, <1>2, <1>3

LEMMA MaxOfFacts ==
  ASSUME NEW a \in Int, NEW b \in Int
  PROVE  MaxOf(a, b) \in {a, b} /\ MaxOf(a, b) >= a /\ MaxOf(a, b) >= b
BY DEF MaxOf

LEMMA InstanceFields ==
  ASSUME NEW i \in Instance
  PROVE  /\ i.cmds \in {Nil} \cup Batches /\ i.bal \in Numbers /\ i.vbal \in Numbers
         /\ i.status \in 0 .. 5 /\ i.seq \in Numbers /\ i.deps \in Deps /\ (i.status >= 1 => i.cmds # Nil)
BY Statuses DEF Instance

LEMMA LBFields ==
  ASSUME NEW b \in LeaderBookkeeping
  PROVE  /\ b.proposals \in SUBSET Commands /\ b.ballot \in Numbers /\ b.allEqual \in BOOLEAN
         /\ b.preAcceptOKs \in Nat /\ b.acceptOKs \in Nat /\ b.prepareReplies \in Seq(PrepareReply)
         /\ b.preparing \in BOOLEAN /\ b.leaderResponded \in BOOLEAN /\ b.lastTriedBallot \in Numbers
         /\ b.cmds \in {Nil} \cup Batches /\ b.status \in 0 .. 5 /\ b.seq \in Numbers /\ b.deps \in Deps
         /\ (b.status >= 1 => b.cmds # Nil) /\ Len(b.prepareReplies) <= N
BY Statuses DEF LeaderBookkeeping

\* The state of the instances, of the attributes and of the rest.
SpaceTypeOK ==
  /\ instanceSpace \in [Replicas -> [InstanceIds -> Instance]]
  /\ lbs \in [Replicas -> [InstanceIds -> LeaderBookkeeping]]
  /\ \A r \in Replicas, id \in InstanceIds :
       lbs[r][id].status >= PREACCEPTED => instanceSpace[r][id].cmds # Nil

AttrTypeOK ==
  /\ conflicts \in [Replicas -> [Replicas -> [Keys -> Conflict]]]
  /\ maxSeqPerKey \in [Replicas -> [Keys -> {-2} \cup Numbers]]

CreatedTypeOK ==
  /\ created \in [Replicas -> [Replicas -> Seq(0 .. MaxInstance)]]
  /\ \A r, q \in Replicas : IsInjective(created[r][q])

MsgTypeOK == msgs \subseteq Message /\ \A m \in msgs : m.from # m.to

LEMMA TypeParts ==
  TypeOK <=> /\ SpaceTypeOK /\ AttrTypeOK /\ CreatedTypeOK /\ MsgTypeOK
             /\ crtInstance \in [Replicas -> Deps] /\ maxRecvBallot \in [Replicas -> Numbers]
             /\ proposeChan \in [Replicas -> SUBSET Commands]
             /\ recoveries \subseteq Replicas \X InstanceIds /\ dead \subseteq Mortal
BY DEF TypeOK, SpaceTypeOK, AttrTypeOK, CreatedTypeOK, MsgTypeOK

\* What a replica knows of the instances is numbers.
LEMMA KnownSeq == TypeOK => \A r \in Replicas, id \in InstanceIds : instanceSpace[r][id].seq \in Numbers
BY InstanceFields DEF TypeOK

\* What UpdateAttributes computes: dependencies and a Seq that are not lower.
LEMMA UpdateAttributesFacts ==
  ASSUME TypeOK, NEW r \in Replicas, NEW cmds \in Batches, NEW seq \in Numbers, NEW deps \in Deps,
         NEW row \in Replicas, NEW known, \A id \in InstanceIds : known[id].seq \in Numbers,
         NEW a, a = UpdateAttributes(known, r, cmds, seq, deps, row)
  PROVE  /\ a.seq \in Numbers /\ a.deps \in Deps /\ a.seq >= seq
         /\ \A q \in Replicas : a.deps[q] >= deps[q]
         /\ \A q \in Replicas : ~(r = row \/ q # row) => a.deps[q] = deps[q]
         /\ \A q \in Replicas, i \in DOMAIN cmds :
              (r = row \/ q # row) /\ DOMAIN cmds = {i} => a.deps[q] >= LastConflict(r, q, cmds[i])
<1> DEFINE Raising(q) == {i \in DOMAIN cmds : LastConflict(r, q, cmds[i]) > deps[q]}
           raised == {q \in Replicas : (r = row \/ q # row) /\ Raising(q) # {}}
           newDeps == [q \in Replicas |-> IF q \in raised THEN LastConflict(r, q, cmds[Min(Raising(q))]) ELSE deps[q]]
           S1 == {seq} \cup {known[<<q, newDeps[q]>>].seq + 1 : q \in raised}
           seq1 == Max(S1)
           S2 == {seq1} \cup {maxSeqPerKey[r][Key[cmds[i]]] + 1 : i \in DOMAIN cmds}
<1>1. a.deps = newDeps /\ a.seq = Max(S2)
  BY DEF UpdateAttributes
<1>2. \A q \in Replicas, i \in DOMAIN cmds : LastConflict(r, q, cmds[i]) \in -1 .. MaxInstance
  <2>1. \A q \in Replicas, k \in Keys : conflicts[r][q][k].last \in -1 .. MaxInstance /\ conflicts[r][q][k].lastWrite \in -1 .. MaxInstance
    BY DEF TypeOK, Conflict
  <2> QED
    BY <2>1, BatchFacts DEF LastConflict
<1>3. \A q \in raised : Min(Raising(q)) \in Raising(q)
  BY BatchFacts, MinIn
<1>4. \A q \in Replicas : newDeps[q] \in -1 .. MaxInstance /\ newDeps[q] >= deps[q] /\ (q \in raised => newDeps[q] > deps[q])
  BY <1>2, <1>3, SizeFacts DEF Deps
<1>5. \A q \in raised : newDeps[q] \in 0 .. MaxInstance
  BY <1>4, SizeFacts DEF Deps
<1>6. newDeps \in Deps
  BY <1>4 DEF Deps
<1>7. seq1 \in Numbers /\ seq1 >= seq
  <2> DEFINE f == [q \in raised |-> known[<<q, newDeps[q]>>].seq + 1]
             T == {f[q] : q \in DOMAIN f}
  <2>1. \A q \in raised : f[q] \in Nat
    <3>1. \A q \in raised : <<q, newDeps[q]>> \in InstanceIds
      BY <1>5 DEF InstanceIds
    <3> QED
      BY <3>1 DEF Numbers
  <2>2. IsFiniteSet(raised)
    BY SizeFacts, FS_Subset
  <2>3. S1 = {seq} \cup T
    OBVIOUS
  <2>4. DOMAIN f = raised
    OBVIOUS
  <2> HIDE DEF raised, newDeps, f, S1
  <2>5. IsFiniteSet(T)
    BY <2>2, <2>4, FiniteImage
  <2>6. T \subseteq Nat
    BY <2>1, <2>4
  <2> HIDE DEF T
  <2>7. IsFiniteSet(S1)
    BY <2>3, <2>5, FS_AddElement
  <2>8. S1 \subseteq Numbers /\ S1 \subseteq Int /\ seq \in S1
    BY <2>3, <2>6 DEF Numbers
  <2>9. seq1 \in S1 /\ seq <= seq1
    BY <2>7, <2>8, MaxIn
  <2> QED
    BY <2>8, <2>9 DEF Numbers
<1>8. a.seq \in Numbers /\ a.seq >= seq
  <2> HIDE DEF seq1
  <2> DEFINE f == [i \in DOMAIN cmds |-> maxSeqPerKey[r][Key[cmds[i]]] + 1]
             T == {f[i] : i \in DOMAIN f}
  <2>1. \A i \in DOMAIN cmds : f[i] \in Numbers
    <3> TAKE i \in DOMAIN cmds
    <3>1. Key[cmds[i]] \in Keys
      BY BatchFacts
    <3>2. maxSeqPerKey[r][Key[cmds[i]]] \in {-2} \cup Numbers
      BY <3>1 DEF TypeOK
    <3> QED
      BY <3>2 DEF Numbers
  <2>2. S2 = {seq1} \cup T
    OBVIOUS
  <2>3. DOMAIN f = DOMAIN cmds
    OBVIOUS
  <2> HIDE DEF f, S2
  <2>4. IsFiniteSet(T)
    BY <2>3, BatchFacts, FiniteImage
  <2>5. T \subseteq Numbers
    BY <2>1, <2>3
  <2> HIDE DEF T
  <2>6. IsFiniteSet(S2)
    BY <2>2, <2>4, FS_AddElement
  <2>7. S2 \subseteq Numbers /\ S2 \subseteq Int /\ seq1 \in S2
    BY <1>7, <2>2, <2>5 DEF Numbers
  <2>8. Max(S2) \in S2 /\ seq1 <= Max(S2)
    BY <2>6, <2>7, MaxIn
  <2>9. Max(S2) \in Numbers
    BY <2>7, <2>8
  <2> HIDE DEF newDeps, raised, Raising
  <2>10. a.seq = Max(S2) /\ seq \in Int /\ seq1 \in Int /\ Max(S2) \in Int
    BY <1>1, <1>7, <2>9 DEF Numbers
  <2> QED
    BY <1>7, <2>8, <2>9, <2>10
<1>9. \A q \in Replicas : ~(r = row \/ q # row) => newDeps[q] = deps[q]
  OBVIOUS
<1>10. ASSUME NEW q \in Replicas, NEW i \in DOMAIN cmds, r = row \/ q # row, DOMAIN cmds = {i}
       PROVE  newDeps[q] >= LastConflict(r, q, cmds[i])
  <2>1. CASE q \in raised
    <3>1. Min(Raising(q)) = i
      BY <1>3, <1>10, <2>1
    <3>2. newDeps[q] = LastConflict(r, q, cmds[i])
      BY <2>1, <3>1
    <3> QED
      BY <1>2, <3>2
  <2>2. CASE q \notin raised
    <3>1. ~(LastConflict(r, q, cmds[i]) > deps[q]) /\ newDeps[q] = deps[q]
      BY <1>10, <2>2
    <3> QED
      BY <1>2, <3>1, SizeFacts DEF Deps
  <2> QED
    BY <2>1, <2>2
<1> QED
  BY <1>1, <1>4, <1>6, <1>8, <1>9, <1>10

\* What UpdateConflicts writes: entries that are not lower, and those of the batch.
LEMMA UpdateConflictsFacts ==
  ASSUME TypeOK, NEW r \in Replicas, NEW cmds \in Batches, NEW seq \in Numbers, NEW id \in InstanceIds,
         UpdateConflicts(r, cmds, id, seq)
  PROVE  /\ AttrTypeOK'
         /\ \A x, q \in Replicas, k \in Keys :
              /\ conflicts'[x][q][k].last >= conflicts[x][q][k].last
              /\ conflicts'[x][q][k].lastWrite >= conflicts[x][q][k].lastWrite
         /\ \A i \in DOMAIN cmds :
              /\ conflicts'[r][id[1]][Key[cmds[i]]].last >= id[2]
              /\ IsWrite(cmds[i]) => conflicts'[r][id[1]][Key[cmds[i]]].lastWrite >= id[2]
<1> DEFINE On(k) == {c \in {cmds[i] : i \in DOMAIN cmds} : Key[c] = k}
           new == [k \in Keys |->
           [last      |-> IF On(k) # {} THEN MaxOf(conflicts[r][id[1]][k].last, id[2]) ELSE conflicts[r][id[1]][k].last,
            lastWrite |-> IF \E c \in On(k) : IsWrite(c) THEN MaxOf(conflicts[r][id[1]][k].lastWrite, id[2])
                          ELSE conflicts[r][id[1]][k].lastWrite]]
<1>1. id[1] \in Replicas /\ id[2] \in 0 .. MaxInstance
  BY DEF InstanceIds
<1>2. conflicts' = [conflicts EXCEPT ![r] = [conflicts[r] EXCEPT ![id[1]] = new]]
  BY DEF UpdateConflicts
<1>3. \A x, q \in Replicas, k \in Keys :
        conflicts[x][q][k].last \in -1 .. MaxInstance /\ conflicts[x][q][k].lastWrite \in -1 .. MaxInstance
        /\ conflicts[x][q][k].lastWrite <= conflicts[x][q][k].last
  BY DEF TypeOK, Conflict
<1>4. \A k \in Keys : /\ new[k] \in Conflict
                      /\ new[k].last >= conflicts[r][id[1]][k].last
                      /\ new[k].lastWrite >= conflicts[r][id[1]][k].lastWrite
                      /\ On(k) # {} => new[k].last >= id[2]
                      /\ (\E c \in On(k) : IsWrite(c)) => new[k].lastWrite >= id[2]
  <2> TAKE k \in Keys
  <2> DEFINE old == conflicts[r][id[1]][k]
  <2>1. old.last \in Int /\ old.lastWrite \in Int /\ id[2] \in Int
    BY <1>1, <1>3
  <2>2. old.last \in -1 .. MaxInstance /\ old.lastWrite \in -1 .. MaxInstance /\ old.lastWrite <= old.last
    BY <1>1, <1>3
  <2>3. /\ new[k].last = IF On(k) # {} THEN MaxOf(old.last, id[2]) ELSE old.last
        /\ new[k].lastWrite = IF \E c \in On(k) : IsWrite(c) THEN MaxOf(old.lastWrite, id[2]) ELSE old.lastWrite
        /\ new[k] = [last |-> new[k].last, lastWrite |-> new[k].lastWrite]
    OBVIOUS
  <2>4. (\E c \in On(k) : IsWrite(c)) => On(k) # {}
    OBVIOUS
  <2> HIDE DEF new, old, On
  <2>5. /\ new[k].last \in -1 .. MaxInstance /\ new[k].lastWrite \in -1 .. MaxInstance
        /\ new[k].lastWrite <= new[k].last /\ new[k].last >= old.last /\ new[k].lastWrite >= old.lastWrite
        /\ On(k) # {} => new[k].last >= id[2]
        /\ (\E c \in On(k) : IsWrite(c)) => new[k].lastWrite >= id[2]
    BY <1>1, <2>1, <2>2, <2>3, <2>4, SizeFacts DEF MaxOf
  <2>6. new[k] \in Conflict
    BY <2>3, <2>5 DEF Conflict
  <2> QED
    BY <2>5, <2>6 DEF old
<1>5. \A x, q \in Replicas : conflicts'[x][q] = IF x = r /\ q = id[1] THEN new ELSE conflicts[x][q]
  BY <1>1, <1>2 DEF TypeOK
<1>6. new \in [Keys -> Conflict]
  BY <1>4
<1>7. conflicts' \in [Replicas -> [Replicas -> [Keys -> Conflict]]]
  BY <1>1, <1>2, <1>6 DEF TypeOK
<1>8. maxSeqPerKey' \in [Replicas -> [Keys -> {-2} \cup Numbers]]
  <2>1. maxSeqPerKey' = [maxSeqPerKey EXCEPT ![r] = [k \in Keys |->
           IF On(k) # {} THEN MaxOf(maxSeqPerKey[r][k], seq) ELSE maxSeqPerKey[r][k]]]
    BY DEF UpdateConflicts
  <2>2. \A k \in Keys : MaxOf(maxSeqPerKey[r][k], seq) \in {-2} \cup Numbers
    BY DEF TypeOK, MaxOf
  <2> QED
    BY <2>1, <2>2 DEF TypeOK
<1>9. \A i \in DOMAIN cmds : Key[cmds[i]] \in Keys /\ cmds[i] \in On(Key[cmds[i]])
  BY BatchFacts
<1> HIDE DEF new, On
<1>10. \A x, q \in Replicas, k \in Keys :
              /\ conflicts'[x][q][k].last >= conflicts[x][q][k].last
              /\ conflicts'[x][q][k].lastWrite >= conflicts[x][q][k].lastWrite
  <2> TAKE x, q \in Replicas, k \in Keys
  <2>1. CASE x = r /\ q = id[1]
    BY <1>4, <1>5, <2>1
  <2>2. CASE ~(x = r /\ q = id[1])
    BY <1>3, <1>5, <2>2
  <2> QED
    BY <2>1, <2>2
<1>11. \A i \in DOMAIN cmds :
          /\ conflicts'[r][id[1]][Key[cmds[i]]].last >= id[2]
          /\ IsWrite(cmds[i]) => conflicts'[r][id[1]][Key[cmds[i]]].lastWrite >= id[2]
  <2> TAKE i \in DOMAIN cmds
  <2>1. conflicts'[r][id[1]] = new
    BY <1>1, <1>5
  <2> QED
    BY <1>4, <1>9, <2>1
<1> QED
  BY <1>7, <1>8, <1>10, <1>11 DEF AttrTypeOK

LEMMA MergeFacts ==
  ASSUME NEW r \in Replicas, NEW a, NEW b, a.seq \in Numbers, b.seq \in Numbers, a.deps \in Deps, b.deps \in Deps
  PROVE  /\ Merge(r, a, b).seq \in Numbers /\ Merge(r, a, b).deps \in Deps /\ Merge(r, a, b).equal \in BOOLEAN
         /\ \A q \in Replicas : /\ Merge(r, a, b).deps[q] >= a.deps[q]
                                /\ q # r => Merge(r, a, b).deps[q] >= b.deps[q]
         /\ Merge(r, a, b).deps[r] = a.deps[r]
<1>1. \A q \in Replicas : a.deps[q] \in -1 .. MaxInstance /\ b.deps[q] \in -1 .. MaxInstance
  BY DEF Deps
<1>2. MaxOf(a.seq, b.seq) \in Numbers
  BY DEF MaxOf
<1> QED
  BY <1>1, <1>2, SizeFacts DEF Merge, MaxOf, Deps

LEMMA LearnsType ==
  ASSUME TypeOK, NEW r \in Replicas, NEW id \in InstanceIds, Learns(r, id)
  PROVE  /\ crtInstance' \in [Replicas -> Deps]
         /\ \A x, q \in Replicas : crtInstance'[x][q] >= crtInstance[x][q]
         /\ crtInstance'[r][id[1]] >= id[2]
<1>1. id[1] \in Replicas /\ id[2] \in 0 .. MaxInstance
  BY DEF InstanceIds
<1>2. \A x, q \in Replicas : crtInstance[x][q] \in -1 .. MaxInstance
  BY DEF TypeOK, Deps
<1>3. MaxOf(crtInstance[r][id[1]], id[2]) \in -1 .. MaxInstance
      /\ MaxOf(crtInstance[r][id[1]], id[2]) >= id[2] /\ MaxOf(crtInstance[r][id[1]], id[2]) >= crtInstance[r][id[1]]
  BY <1>1, <1>2, SizeFacts DEF MaxOf
<1>4. \A x, q \in Replicas : crtInstance'[x][q] = IF x = r /\ q = id[1] THEN MaxOf(crtInstance[r][id[1]], id[2]) ELSE crtInstance[x][q]
  BY <1>1 DEF TypeOK, Deps, Learns
<1>5. crtInstance' \in [Replicas -> Deps]
  BY <1>1, <1>3 DEF TypeOK, Deps, Learns
<1>6. \A x, q \in Replicas : crtInstance'[x][q] >= crtInstance[x][q]
  BY <1>2, <1>3, <1>4
<1> QED
  BY <1>1, <1>3, <1>4, <1>5, <1>6

LEMMA SeesType ==
  ASSUME TypeOK, NEW r \in Replicas, NEW b \in Numbers, Sees(r, b)
  PROVE  maxRecvBallot' \in [Replicas -> Numbers]
BY DEF TypeOK, Sees, MaxOf


\* To a sequence without repetitions a new member is appended.
LEMMA AppendsNew ==
  ASSUME NEW T, NEW s \in Seq(T), IsInjective(s), NEW e \in T, e \notin Range(s)
  PROVE  Append(s, e) \in Seq(T) /\ IsInjective(Append(s, e))
<1> DEFINE n == Len(s)
<1>1. n \in Nat /\ DOMAIN s = 1 .. n /\ DOMAIN Append(s, e) = 1 .. n + 1 /\ Append(s, e) \in Seq(T)
  OBVIOUS
<1>2. \A i \in 1 .. n : s[i] # e
  BY <1>1 DEF Range
<1>3. \A i \in 1 .. n + 1 : Append(s, e)[i] = IF i = n + 1 THEN e ELSE s[i]
  OBVIOUS
<1>4. ASSUME NEW i \in 1 .. n + 1, NEW j \in 1 .. n + 1, Append(s, e)[i] = Append(s, e)[j]
      PROVE  i = j
  BY <1>1, <1>2, <1>3, <1>4 DEF IsInjective
<1> QED
  BY <1>1, <1>4 DEF IsInjective

\* What RemoveAt leaves of a sequence without repetitions.
LEMMA RemoveAtFacts ==
  ASSUME NEW T, NEW s \in Seq(T), IsInjective(s), NEW k \in DOMAIN s
  PROVE  /\ RemoveAt(s, k) \in Seq(T) /\ IsInjective(RemoveAt(s, k))
         /\ s[k] \notin Range(RemoveAt(s, k))
<1> DEFINE n == Len(s)
           a == SubSeq(s, 1, k - 1)
           b == SubSeq(s, k + 1, n)
           t == a \o b
<1>1. n \in Nat /\ DOMAIN s = 1 .. n /\ k \in 1 .. n /\ \A j \in 1 .. n : s[j] \in T
  OBVIOUS
<1>2. RemoveAt(s, k) = t
  BY DEF RemoveAt
<1>3. /\ a \in Seq(T) /\ Len(a) = k - 1 /\ (\A j \in 1 .. k - 1 : a[j] = s[j])
      /\ b \in Seq(T) /\ Len(b) = n - k /\ (\A j \in 1 .. n - k : b[j] = s[j + k])
  <2>1. k - 1 \in Int /\ k + 1 \in Int /\ n \in Int /\ 1 \in Int
    BY <1>1
  <2>2. /\ a \in Seq(T) /\ Len(a) = IF 1 <= k - 1 THEN k - 1 - 1 + 1 ELSE 0
        /\ \A j \in 1 .. k - 1 - 1 + 1 : a[j] = s[1 + j - 1]
    BY <1>1, <2>1, SubSeqProperties
  <2>3. /\ b \in Seq(T) /\ Len(b) = IF k + 1 <= n THEN n - (k + 1) + 1 ELSE 0
        /\ \A j \in 1 .. n - (k + 1) + 1 : b[j] = s[k + 1 + j - 1]
    BY <1>1, <2>1, SubSeqProperties
  <2> HIDE DEF a, b
  <2>4. k - 1 - 1 + 1 = k - 1 /\ n - (k + 1) + 1 = n - k
    BY <1>1
  <2>5. Len(a) = k - 1
    BY <1>1, <2>2
  <2>6. Len(b) = n - k
    <3>1. Len(b) = IF k + 1 <= n THEN n - (k + 1) + 1 ELSE 0
      BY <2>3
    <3>2. k \in Int /\ n \in Int /\ k <= n
      BY <1>1
    <3> DEFINE len == Len(b)
    <3> HIDE DEF len
    <3>3. len = IF k + 1 <= n THEN n - (k + 1) + 1 ELSE 0
      BY <3>1 DEF len
    <3>4. len = n - k
      BY <3>2, <3>3
    <3> QED
      BY <3>4 DEF len
  <2>7. \A j \in 1 .. n - k : k + 1 + j - 1 = j + k
    BY <1>1
  <2>8. \A j \in 1 .. k - 1 : 1 + j - 1 = j
    BY <1>1
  <2> QED
    BY <2>2, <2>3, <2>4, <2>5, <2>6, <2>7, <2>8
<1> HIDE DEF a, b
<1>4. t \in Seq(T) /\ Len(t) = n - 1 /\ DOMAIN t = 1 .. n - 1
  <2>1. t \in Seq(T) /\ Len(t) = Len(a) + Len(b)
    BY <1>3, ConcatProperties
  <2>2. DOMAIN t = 1 .. Len(t)
    BY <2>1, LenProperties
  <2> DEFINE len == Len(t)
             la  == Len(a)
             lb  == Len(b)
  <2>3. len = la + lb /\ la = k - 1 /\ lb = n - k
    BY <1>3, <2>1
  <2>4. k \in Int /\ n \in Int
    BY <1>1
  <2> HIDE DEF len, la, lb, n, t
  <2>5. len = n - 1
    BY <2>3, <2>4
  <2> QED
    BY <2>1, <2>2, <2>5 DEF len
<1>5. ASSUME NEW j \in 1 .. n - 1 PROVE t[j] = IF j < k THEN s[j] ELSE s[j + 1]
  <2>1. CASE j < k
    <3>1. \A i \in 1 .. Len(a) + Len(b) : t[i] = IF i <= Len(a) THEN a[i] ELSE b[i - Len(a)]
      BY <1>3, ConcatProperties
    <3>2. j \in 1 .. Len(a) + Len(b) /\ j <= Len(a) /\ j \in 1 .. k - 1
      BY <1>1, <1>3, <1>5, <2>1
    <3> QED
      BY <1>3, <2>1, <3>1, <3>2
  <2>2. CASE ~(j < k)
    <3>1. j - (k - 1) \in 1 .. n - k /\ b[j - (k - 1)] = s[(j - (k - 1)) + k] /\ (j - (k - 1)) + k = j + 1
      BY <1>1, <1>3, <1>5, <2>2
    <3>2. t[j] = b[j - Len(a)]
      <4>1. \A i \in 1 .. Len(a) + Len(b) : t[i] = IF i <= Len(a) THEN a[i] ELSE b[i - Len(a)]
        BY <1>3, ConcatProperties
      <4>2. j \in 1 .. Len(a) + Len(b) /\ ~(j <= Len(a))
        BY <1>1, <1>3, <1>5, <2>2
      <4> QED
        BY <4>1, <4>2
    <3> QED
      BY <1>3, <2>2, <3>1, <3>2
  <2> QED
    BY <2>1, <2>2
<1> HIDE DEF t
<1> DEFINE f(y) == IF y < k THEN y ELSE y + 1
<1>6. \A j \in 1 .. n - 1 : f(j) \in 1 .. n /\ f(j) # k /\ t[j] = s[f(j)]
  BY <1>1, <1>5
<1>7. ASSUME NEW j \in 1 .. n - 1, NEW l \in 1 .. n - 1, t[j] = t[l] PROVE j = l
  <2>1. f(j) = f(l)
    BY <1>1, <1>6, <1>7 DEF IsInjective
  <2> QED
    BY <1>1, <1>7, <2>1
<1>8. \A j \in 1 .. n - 1 : t[j] # s[k]
  BY <1>1, <1>6 DEF IsInjective
<1> QED
  BY <1>2, <1>4, <1>7, <1>8 DEF IsInjective, Range

LEMMA CreatesType ==
  ASSUME TypeOK, NEW r \in Replicas, NEW id \in InstanceIds, Creates(r, id)
  PROVE  CreatedTypeOK'
<1> DEFINE s == created[r][id[1]]
           t == IF id[2] \in Range(s) THEN s ELSE Append(s, id[2])
<1>1. id[1] \in Replicas /\ id[2] \in 0 .. MaxInstance
  BY DEF InstanceIds
<1>2. s \in Seq(0 .. MaxInstance) /\ IsInjective(s)
  BY <1>1 DEF TypeOK
<1>3. created' = [created EXCEPT ![r] = [created[r] EXCEPT ![id[1]] = t]]
  BY DEF Creates
<1>4. t \in Seq(0 .. MaxInstance) /\ IsInjective(t)
  BY <1>1, <1>2, AppendsNew
<1> HIDE DEF t
<1>5. created' \in [Replicas -> [Replicas -> Seq(0 .. MaxInstance)]]
  BY <1>1, <1>3, <1>4 DEF TypeOK
<1>6. \A x, q \in Replicas : created'[x][q] = IF x = r /\ q = id[1] THEN t ELSE created[x][q]
  BY <1>1, <1>3 DEF TypeOK
<1>7. \A x, q \in Replicas : IsInjective(created'[x][q])
  BY <1>4, <1>6 DEF TypeOK
<1> QED
  BY <1>5, <1>7 DEF CreatedTypeOK

LEMMA MovesLastType ==
  ASSUME TypeOK, NEW r \in Replicas, NEW id \in InstanceIds,
         created' = [created EXCEPT ![r][id[1]] = MovedLast(@, id[2])]
  PROVE  CreatedTypeOK'
<1> DEFINE s == created[r][id[1]]
           i == id[2]
           k == CHOOSE k \in DOMAIN s : s[k] = i
           t == MovedLast(s, i)
<1>1. id[1] \in Replicas /\ i \in 0 .. MaxInstance
  BY DEF InstanceIds
<1>2. s \in Seq(0 .. MaxInstance) /\ IsInjective(s)
  BY <1>1 DEF TypeOK
<1>3. created' = [created EXCEPT ![r] = [created[r] EXCEPT ![id[1]] = t]]
  OBVIOUS
<1>4. t \in Seq(0 .. MaxInstance) /\ IsInjective(t)
  <2>1. CASE i \notin Range(s)
    BY <1>1, <1>2, <2>1, AppendsNew DEF MovedLast
  <2>2. CASE i \in Range(s)
    <3>1. k \in DOMAIN s /\ s[k] = i
      BY <2>2 DEF Range
    <3>2. t = Append(RemoveAt(s, k), i)
      BY <2>2 DEF MovedLast
    <3> HIDE DEF k, t, i, s
    <3>3. /\ RemoveAt(s, k) \in Seq(0 .. MaxInstance) /\ IsInjective(RemoveAt(s, k))
          /\ i \notin Range(RemoveAt(s, k))
      BY <1>2, <3>1, RemoveAtFacts
    <3> QED
      BY <1>1, <3>2, <3>3, AppendsNew
  <2> QED
    BY <2>1, <2>2
<1> HIDE DEF t
<1>5. created' \in [Replicas -> [Replicas -> Seq(0 .. MaxInstance)]]
  BY <1>1, <1>3, <1>4 DEF TypeOK
<1>6. \A x, q \in Replicas : created'[x][q] = IF x = r /\ q = id[1] THEN t ELSE created[x][q]
  BY <1>1, <1>3 DEF TypeOK
<1>7. \A x, q \in Replicas : IsInjective(created'[x][q])
  BY <1>4, <1>6 DEF TypeOK
<1> QED
  BY <1>5, <1>7 DEF CreatedTypeOK

\* A replica sends to others.
LEMMA PeersFacts ==
  ASSUME NEW r \in Replicas, NEW n
  PROVE  Peers(r, n) \subseteq Replicas \ {r}
<1>1. PreferredPeerOrder[r] \in [1 .. Cardinality(Replicas \ {r}) -> Replicas \ {r}]
  BY PeerAssumption DEF SetToSeqs
<1> QED
  BY <1>1 DEF Peers

\* Among n numbers in a row there is one of each residue.
LEMMA ResidueAmong ==
  ASSUME NEW n \in 1 .. 7, NEW m \in Nat, NEW r \in 0 .. n - 1
  PROVE  \E b \in m .. m + n - 1 : b % n = r
<1> DEFINE c == m % n
<1>1. c \in 0 .. n - 1
  BY SMT
<1> DEFINE j == IF c <= r THEN r - c ELSE r - c + n
<1> HIDE DEF c
<1>2. j \in 0 .. n - 1 /\ (j = IF c <= r THEN r - c ELSE r - c + n)
  BY <1>1
<1> HIDE DEF j
<1>3. (m + j) % n = r
  <2>1. j = IF m % n <= r THEN r - (m % n) ELSE r - (m % n) + n
    BY <1>2 DEF c
  <2>2. CASE n = 1
    <3>1. r \in 0 .. 0 /\ j \in 0 .. 0 /\ (j = IF m % 1 <= r THEN r - (m % 1) ELSE r - (m % 1) + 1)
      BY <1>2, <2>1, <2>2
    <3>2. (m + j) % 1 = r
      BY <3>1
    <3> QED
      BY <2>2, <3>2
  <2>3. CASE n = 2
    <3>1. r \in 0 .. 1 /\ j \in 0 .. 1 /\ (j = IF m % 2 <= r THEN r - (m % 2) ELSE r - (m % 2) + 2)
      BY <1>2, <2>1, <2>3
    <3>2. (m + j) % 2 = r
      BY <3>1
    <3> QED
      BY <2>3, <3>2
  <2>4. CASE n = 3
    <3>1. r \in 0 .. 2 /\ j \in 0 .. 2 /\ (j = IF m % 3 <= r THEN r - (m % 3) ELSE r - (m % 3) + 3)
      BY <1>2, <2>1, <2>4
    <3>2. (m + j) % 3 = r
      BY <3>1
    <3> QED
      BY <2>4, <3>2
  <2>5. CASE n = 4
    <3>1. r \in 0 .. 3 /\ j \in 0 .. 3 /\ (j = IF m % 4 <= r THEN r - (m % 4) ELSE r - (m % 4) + 4)
      BY <1>2, <2>1, <2>5
    <3>2. (m + j) % 4 = r
      BY <3>1
    <3> QED
      BY <2>5, <3>2
  <2>6. CASE n = 5
    <3>1. r \in 0 .. 4 /\ j \in 0 .. 4 /\ (j = IF m % 5 <= r THEN r - (m % 5) ELSE r - (m % 5) + 5)
      BY <1>2, <2>1, <2>6
    <3>2. (m + j) % 5 = r
      BY <3>1
    <3> QED
      BY <2>6, <3>2
  <2>7. CASE n = 6
    <3>1. r \in 0 .. 5 /\ j \in 0 .. 5 /\ (j = IF m % 6 <= r THEN r - (m % 6) ELSE r - (m % 6) + 6)
      BY <1>2, <2>1, <2>7
    <3>2. (m + j) % 6 = r
      BY <3>1
    <3> QED
      BY <2>7, <3>2
  <2>8. CASE n = 7
    <3>1. r \in 0 .. 6 /\ j \in 0 .. 6 /\ (j = IF m % 7 <= r THEN r - (m % 7) ELSE r - (m % 7) + 7)
      BY <1>2, <2>1, <2>8
    <3>2. (m + j) % 7 = r
      BY <3>1
    <3> QED
      BY <2>8, <3>2
  <2> QED
    BY <2>2, <2>3, <2>4, <2>5, <2>6, <2>7, <2>8
<1> QED
  BY <1>2, <1>3

LEMMA BallotType ==
  ASSUME TypeOK, NEW r \in Replicas, NEW id \in InstanceIds
  PROVE  MakeBallot(r, id) \in Nat
<1> DEFINE n == IF r = id[1] THEN r ELSE r + N
           m == maxRecvBallot[r]
<1>1. N \in 1 .. 7 /\ r \in 0 .. N - 1 /\ m \in Int /\ n \in Nat
  BY SizeFacts DEF TypeOK, Numbers, Replicas
<1>2. CASE r \notin Leaders \/ n >= m
  BY <1>1, <1>2 DEF MakeBallot
<1>3. CASE ~(r \notin Leaders \/ n >= m)
  <2>1. m \in Nat
    BY <1>1, <1>3
  <2>2. \E b \in m .. m + N - 1 : b % N = r
    BY <1>1, <2>1, ResidueAmong
  <2>3. MakeBallot(r, id) = CHOOSE b \in m .. m + N - 1 : b % N = r
    BY <1>3 DEF MakeBallot
  <2>4. MakeBallot(r, id) \in m .. m + N - 1
    BY <2>2, <2>3
  <2> QED
    BY <1>1, <2>1, <2>4
<1> QED
  BY <1>2, <1>3

\* What a message is made of.
LEMMA MessageFields ==
  ASSUME NEW m \in Message
  PROVE  /\ m.type \in {"preAccept", "preAcceptReply", "accept", "acceptReply", "commit", "prepare", "prepareReply"}
         /\ m.from \in Replicas /\ m.to \in Replicas /\ m.id \in InstanceIds /\ m.ballot \in Numbers
         /\ m.type \in {"preAccept", "commit"} => m.cmds \in Batches
         /\ m.type \in {"preAccept", "commit", "accept", "preAcceptReply"} => m.seq \in Numbers /\ m.deps \in Deps
         /\ m.type = "preAcceptReply" => m.vbal \in Numbers /\ m.status \in 1 .. 5
         /\ m.type = "prepareReply" => m \in PrepareReply /\ m.vbal = 0 /\ m.cmds \in Batches
<1> DEFINE A == [type : {"prepare", "acceptReply"}, from : Replicas, to : Replicas, id : InstanceIds,
                 ballot : Numbers]
           B == [type : {"preAccept", "commit"}, from : Replicas, to : Replicas, id : InstanceIds,
                 ballot : Numbers, cmds : Batches, seq : Numbers, deps : Deps]
           C == [type : {"accept"}, from : Replicas, to : Replicas, id : InstanceIds,
                 ballot : Numbers, seq : Numbers, deps : Deps]
           D == [type : {"preAcceptReply"}, from : Replicas, to : Replicas, id : InstanceIds, ballot : Numbers,
                 vbal : Numbers, seq : Numbers, deps : Deps, status : PREACCEPTED .. EXECUTED]
           R == {x \in PrepareReply : x.vbal = 0 /\ x.cmds # Nil}
<1>1. m \in A \/ m \in B \/ m \in C \/ m \in D \/ m \in R
  BY DEF Message
<1>2. CASE m \in A
  BY <1>2
<1>3. CASE m \in B
  BY <1>3
<1>4. CASE m \in C
  BY <1>4
<1>5. CASE m \in D
  BY <1>5, Statuses
<1>6. CASE m \in R
  BY <1>6 DEF PrepareReply
<1> QED
  BY <1>1, <1>2, <1>3, <1>4, <1>5, <1>6

LEMMA PrepareReplyFields ==
  ASSUME NEW p \in PrepareReply
  PROVE  /\ p.vbal \in Numbers /\ p.status \in 0 .. 5 /\ p.cmds \in {Nil} \cup Batches /\ p.seq \in Numbers
         /\ p.deps \in Deps /\ (p.status >= 1 => p.cmds # Nil)
BY Statuses DEF PrepareReply

\* What is sent is a message to another replica.
LEMMA PreAcceptSent ==
  ASSUME NEW r \in Replicas, NEW id \in InstanceIds, NEW Q \in SUBSET (Replicas \ {r}),
         NEW ballot \in Numbers, NEW cmds \in Batches, NEW seq \in Numbers, NEW deps \in Deps,
         NEW m \in PreAcceptTo(Q, r, id, ballot, cmds, seq, deps)
  PROVE  m \in Message /\ m.type = "preAccept" /\ m.from = r /\ m.to \in Q /\ m.id = id /\ m.from # m.to
         /\ m.ballot = ballot /\ m.cmds = cmds /\ m.seq = seq /\ m.deps = deps
         /\ m = [type |-> "preAccept", from |-> r, to |-> m.to, id |-> id, ballot |-> ballot,
                 cmds |-> cmds, seq |-> seq, deps |-> deps]
<1>1. PICK q \in Q : m = [type |-> "preAccept", from |-> r, to |-> q, id |-> id, ballot |-> ballot,
                          cmds |-> cmds, seq |-> seq, deps |-> deps]
  BY DEF PreAcceptTo
<1>2. q \in Replicas /\ q # r
  BY <1>1
<1> QED
  BY <1>1, <1>2 DEF Message

LEMMA AcceptSent ==
  ASSUME NEW r \in Replicas, NEW id \in InstanceIds, NEW Q \in SUBSET (Replicas \ {r}),
         NEW b \in LeaderBookkeeping, NEW m \in AcceptTo(Q, r, id, b)
  PROVE  m \in Message /\ m.type = "accept" /\ m.from = r /\ m.id = id /\ m.from # m.to
<1>1. PICK q \in Q : m = [type |-> "accept", from |-> r, to |-> q, id |-> id, ballot |-> b.lastTriedBallot,
                          seq |-> b.seq, deps |-> b.deps]
  BY DEF AcceptTo
<1>2. q \in Replicas /\ q # r /\ b.lastTriedBallot \in Numbers /\ b.seq \in Numbers /\ b.deps \in Deps
  BY <1>1, LBFields
<1> QED
  BY <1>1, <1>2 DEF Message

LEMMA CommitSent ==
  ASSUME NEW r \in Replicas, NEW id \in InstanceIds, NEW Q \in SUBSET (Replicas \ {r}),
         NEW b \in LeaderBookkeeping, b.cmds # Nil, NEW m \in CommitTo(Q, r, id, b)
  PROVE  m \in Message /\ m.type = "commit" /\ m.from = r /\ m.id = id /\ m.from # m.to
         /\ m.cmds = b.cmds /\ m.seq = b.seq /\ m.deps = b.deps
<1>1. PICK q \in Q : m = [type |-> "commit", from |-> r, to |-> q, id |-> id, ballot |-> b.ballot,
                          cmds |-> b.cmds, seq |-> b.seq, deps |-> b.deps]
  BY DEF CommitTo
<1>2. q \in Replicas /\ q # r /\ b.ballot \in Numbers /\ b.seq \in Numbers /\ b.deps \in Deps /\ b.cmds \in Batches
  BY <1>1, LBFields
<1> QED
  BY <1>1, <1>2 DEF Message

\* Bookkeeping that has just been made.
LEMMA NewLBType ==
  ASSUME NEW proposals \in SUBSET Commands, NEW deps \in Deps, NEW ballot \in Numbers,
         NEW cmds \in {Nil} \cup Batches, NEW status \in 0 .. 5, NEW seq \in Numbers, status >= 1 => cmds # Nil
  PROVE  NewLB(proposals, deps, ballot, cmds, status, seq) \in LeaderBookkeeping
<1> DEFINE b == NewLB(proposals, deps, ballot, cmds, status, seq)
<1>1. <<>> \in Seq(PrepareReply) /\ Len(<<>>) = 0
  BY EmptySeq
<1>2. -1 \in Numbers /\ 0 \in Nat
  BY DEF Numbers
<1> QED
  BY <1>1, <1>2, SizeFacts, Statuses DEF NewLB, LeaderBookkeeping

\* The attributes of an instance are one write of its replica.
LEMMA SpaceWrite ==
  ASSUME TypeOK, NEW r \in Replicas, NEW id \in InstanceIds, NEW i \in Instance, NEW b \in LeaderBookkeeping,
         instanceSpace' = [instanceSpace EXCEPT ![r][id] = i],
         lbs' = [lbs EXCEPT ![r][id] = b],
         b.status >= 1 => i.cmds # Nil
  PROVE  SpaceTypeOK'
<1>1. instanceSpace' = [instanceSpace EXCEPT ![r] = [instanceSpace[r] EXCEPT ![id] = i]]
      /\ lbs' = [lbs EXCEPT ![r] = [lbs[r] EXCEPT ![id] = b]]
  OBVIOUS
<1>2. instanceSpace' \in [Replicas -> [InstanceIds -> Instance]] /\ lbs' \in [Replicas -> [InstanceIds -> LeaderBookkeeping]]
  BY <1>1 DEF TypeOK
<1>3. \A x \in Replicas, v \in InstanceIds :
        /\ instanceSpace'[x][v] = IF x = r /\ v = id THEN i ELSE instanceSpace[x][v]
        /\ lbs'[x][v] = IF x = r /\ v = id THEN b ELSE lbs[x][v]
  BY <1>1 DEF TypeOK
<1>4. \A x \in Replicas, v \in InstanceIds : lbs'[x][v].status >= 1 => instanceSpace'[x][v].cmds # Nil
  BY <1>3, Statuses DEF TypeOK
<1> QED
  BY <1>2, <1>4, Statuses DEF SpaceTypeOK

\* One of the two may stay as it is.
LEMMA InstanceWrite ==
  ASSUME TypeOK, NEW r \in Replicas, NEW id \in InstanceIds, NEW i \in Instance,
         instanceSpace' = [instanceSpace EXCEPT ![r][id] = i], lbs' = lbs,
         instanceSpace[r][id].cmds # Nil => i.cmds # Nil
  PROVE  SpaceTypeOK'
<1>1. lbs[r][id] \in LeaderBookkeeping /\ (lbs[r][id].status >= 1 => instanceSpace[r][id].cmds # Nil)
  BY Statuses DEF TypeOK
<1>2. lbs' = [lbs EXCEPT ![r][id] = lbs[r][id]]
  BY DEF TypeOK
<1> HIDE DEF TypeOK
<1> QED
  BY <1>1, <1>2, SpaceWrite

LEMMA LBWrite ==
  ASSUME TypeOK, NEW r \in Replicas, NEW id \in InstanceIds, NEW b \in LeaderBookkeeping,
         lbs' = [lbs EXCEPT ![r][id] = b], instanceSpace' = instanceSpace,
         b.status >= 1 => lbs[r][id].status >= 1
  PROVE  SpaceTypeOK'
<1>1. instanceSpace[r][id] \in Instance /\ (lbs[r][id].status >= 1 => instanceSpace[r][id].cmds # Nil)
  BY Statuses DEF TypeOK
<1>2. instanceSpace' = [instanceSpace EXCEPT ![r][id] = instanceSpace[r][id]]
  BY DEF TypeOK
<1> QED
  BY <1>1, <1>2, SpaceWrite

LEMMA StartPhase1Types ==
  ASSUME TypeOK, NEW r \in Replicas, NEW cmds \in Batches, NEW id \in InstanceIds, NEW ballot \in Numbers,
         NEW proposals \in SUBSET Commands, NEW taken \in SUBSET msgs,
         NEW known, \A v \in InstanceIds : known[v].seq \in Numbers,
         StartPhase1(known, r, cmds, id, ballot, proposals, taken)
  PROVE  SpaceTypeOK' /\ AttrTypeOK' /\ CreatedTypeOK' /\ MsgTypeOK'
<1> DEFINE a == UpdateAttributes(known, r, cmds, 0, NoDeps, id[1])
           i == [cmds |-> cmds, bal |-> ballot, vbal |-> ballot, status |-> PREACCEPTED,
                 seq |-> a.seq, deps |-> a.deps]
           b == NewLB(proposals, a.deps, ballot, cmds, PREACCEPTED, -1)
           P == PreAcceptTo(Peers(r, FastQuorumSize - 1), r, id, ballot, cmds, -1, a.deps)
<1>1. id[1] \in Replicas /\ NoDeps \in Deps /\ 0 \in Numbers /\ -1 \in Numbers
  BY SizeFacts DEF InstanceIds, NoDeps, Deps, Numbers
<1>2. a.seq \in Numbers /\ a.deps \in Deps
  BY <1>1, UpdateAttributesFacts
<1>3. /\ instanceSpace' = [instanceSpace EXCEPT ![r][id] = i]
      /\ lbs' = [lbs EXCEPT ![r][id] = b]
      /\ created' = [created EXCEPT ![r][id[1]] = MovedLast(@, id[2])]
      /\ UpdateConflicts(r, cmds, id, a.seq)
      /\ msgs' = (msgs \ taken) \cup P
  BY DEF StartPhase1
<1> HIDE DEF a
<1>4. i \in Instance
  BY <1>2, BatchFacts, Statuses DEF Instance
<1>5. b \in LeaderBookkeeping
  <2>1. PREACCEPTED \in 0 .. 5 /\ cmds \in {Nil} \cup Batches /\ cmds # Nil
    BY BatchFacts, Statuses
  <2> HIDE DEF i, P
  <2> QED
    BY <1>1, <1>2, <2>1, NewLBType
<1>6. \A m \in P : m \in Message /\ m.from # m.to
  <2>1. Peers(r, FastQuorumSize - 1) \in SUBSET (Replicas \ {r})
    BY PeersFacts
  <2> QED
    BY <1>1, <1>2, <2>1, PreAcceptSent
<1>7. i.cmds # Nil
  BY BatchFacts
<1> HIDE DEF i, b, P
<1>8. SpaceTypeOK'
  BY <1>3, <1>4, <1>5, <1>7, SpaceWrite
<1>9. AttrTypeOK'
  BY <1>2, <1>3, UpdateConflictsFacts
<1>10. CreatedTypeOK'
  BY <1>3, MovesLastType
<1>11. MsgTypeOK'
  BY <1>3, <1>6 DEF TypeOK, MsgTypeOK
<1> QED
  BY <1>8, <1>9, <1>10, <1>11

\* A batch of what waits.
LEMMA BatchOf ==
  ASSUME NEW T \in SUBSET Commands, T # {}, Cardinality(T) <= MaxBatch, NEW b \in SetToSeqs(T)
  PROVE  b \in Batches
<1>1. IsFiniteSet(T)
  BY ClientAssumption, FS_Subset
<1>2. Cardinality(T) \in Nat /\ Cardinality(T) # 0
  BY <1>1, FS_CardinalityType, FS_EmptySet
<1>3. Cardinality(T) \in 1 .. MaxBatch
  BY <1>2, SizeFacts
<1>4. b \in [1 .. Cardinality(T) -> Commands]
  BY DEF SetToSeqs
<1> QED
  BY <1>3, <1>4 DEF Batches

\* What the next state is typed by.
LEMMA TypeFrom ==
  ASSUME SpaceTypeOK', AttrTypeOK', CreatedTypeOK', MsgTypeOK', crtInstance' \in [Replicas -> Deps],
         maxRecvBallot' \in [Replicas -> Numbers], proposeChan' \in [Replicas -> SUBSET Commands],
         recoveries' \subseteq Replicas \X InstanceIds, dead' \subseteq Mortal
  PROVE  TypeOK'
BY DEF TypeOK, SpaceTypeOK, AttrTypeOK, CreatedTypeOK, MsgTypeOK

LEMMA AttrUnchanged  == TypeOK /\ UNCHANGED attrVars => AttrTypeOK'
BY DEF TypeOK, AttrTypeOK, attrVars
LEMMA SpaceUnchanged == TypeOK /\ UNCHANGED <<instanceSpace, lbs>> => SpaceTypeOK'
BY DEF TypeOK, SpaceTypeOK
LEMMA CreatedUnchanged == TypeOK /\ UNCHANGED created => CreatedTypeOK'
BY DEF TypeOK, CreatedTypeOK

LEMMA MsgsSent ==
  ASSUME TypeOK, \A m \in msgs' : m \in msgs \/ (m \in Message /\ m.from # m.to)
  PROVE  MsgTypeOK'
BY DEF TypeOK, MsgTypeOK

LEMMA HandleProposeTypes ==
  ASSUME TypeOK, NEW r \in Replicas, HandlePropose(r)
  PROVE  TypeOK'
<1> DEFINE id == <<r, crtInstance[r][r] + 1>>
<1>1. id \in InstanceIds
  <2>1. crtInstance[r][r] \in -1 .. MaxInstance
    BY DEF TypeOK, Deps
  <2> QED
    BY <2>1, SizeFacts DEF HandlePropose, MayPropose, InstanceIds
<1>2. PICK taken \in SUBSET proposeChan[r] : \E batch \in SetToSeqs(taken) :
        /\ taken # {} /\ Cardinality(taken) <= MaxBatch
        /\ proposeChan' = [proposeChan EXCEPT ![r] = @ \ taken]
        /\ StartPhase1(instanceSpace[r], r, batch, id, r, taken, {})
  BY DEF HandlePropose
<1>3. PICK batch \in SetToSeqs(taken) :
        /\ taken # {} /\ Cardinality(taken) <= MaxBatch
        /\ proposeChan' = [proposeChan EXCEPT ![r] = @ \ taken]
        /\ StartPhase1(instanceSpace[r], r, batch, id, r, taken, {})
  BY <1>2
<1>4. taken \in SUBSET Commands
  BY DEF TypeOK
<1>5. batch \in Batches
  BY <1>3, <1>4, BatchOf
<1>6. r \in Numbers /\ {} \in SUBSET msgs
  BY SizeFacts DEF Numbers
<1>7. Learns(r, id) /\ UNCHANGED <<maxRecvBallot, ctrlVars>>
  BY DEF HandlePropose
<1> HIDE DEF id
<1>8. SpaceTypeOK' /\ AttrTypeOK' /\ CreatedTypeOK' /\ MsgTypeOK'
  BY <1>1, <1>3, <1>4, <1>5, <1>6, KnownSeq, StartPhase1Types
<1>9. crtInstance' \in [Replicas -> Deps]
  BY <1>1, <1>7, LearnsType
<1>10. proposeChan' \in [Replicas -> SUBSET Commands]
  BY <1>3 DEF TypeOK
<1> QED
  BY <1>7, <1>8, <1>9, <1>10, TypeFrom DEF TypeOK, ctrlVars

LEMMA HandlePreAcceptTypes ==
  ASSUME TypeOK, NEW r \in Replicas, NEW m \in msgs, m.to = r, HandlePreAccept(r, m)
  PROVE  TypeOK'
<1> DEFINE i == instanceSpace[r][m.id]
           j == IF i.status >= ACCEPTED THEN [i EXCEPT !.bal = m.ballot] ELSE PreAccepted(r, m)
           reply == [type |-> "preAcceptReply", from |-> r, to |-> m.from, id |-> m.id,
                     ballot |-> j.bal, vbal |-> j.vbal, seq |-> j.seq, deps |-> j.deps, status |-> j.status]
<1>1. /\ m \in Message /\ m.type = "preAccept" /\ m.from # m.to
      /\ m.from \in Replicas /\ m.id \in InstanceIds /\ m.id[1] \in Replicas /\ m.ballot \in Numbers
      /\ m.cmds \in Batches /\ m.seq \in Numbers /\ m.deps \in Deps
  BY MessageFields DEF TypeOK, HandlePreAccept, InstanceIds
<1>2. i \in Instance
  BY <1>1 DEF TypeOK
<1>3. maxRecvBallot' \in [Replicas -> Numbers] /\ crtInstance' \in [Replicas -> Deps] /\ CreatedTypeOK'
  BY <1>1, SeesType, LearnsType, CreatesType DEF HandlePreAccept
<1>4. UNCHANGED <<lbs, proposeChan, ctrlVars>>
  BY DEF HandlePreAccept
<1>5. CASE m.ballot < i.bal
  <2>1. msgs' \subseteq msgs /\ UNCHANGED <<instanceSpace, attrVars>>
    BY <1>5 DEF HandlePreAccept
  <2>2. MsgTypeOK'
    BY <2>1, MsgsSent
  <2>3. SpaceTypeOK' /\ AttrTypeOK'
    BY <1>4, <2>1, SpaceUnchanged, AttrUnchanged
  <2> QED
    BY <1>3, <1>4, <2>2, <2>3, TypeFrom DEF TypeOK, ctrlVars
<1>6. CASE ~(m.ballot < i.bal)
  <2>1. /\ instanceSpace' = [instanceSpace EXCEPT ![r][m.id] = j]
        /\ IF i.status >= ACCEPTED THEN UNCHANGED attrVars ELSE UpdateConflicts(r, m.cmds, m.id, m.seq)
        /\ msgs' = (msgs \ {m}) \cup ReplyTo(m, reply)
    BY <1>6 DEF HandlePreAccept
  <2>2. j \in Instance /\ j.cmds # Nil /\ j.status >= 1
    <3>1. CASE i.status >= ACCEPTED
      <4>1. j = [i EXCEPT !.bal = m.ballot] /\ i.status >= 3
        BY <3>1, Statuses
      <4>2. i.cmds # Nil
        BY <1>2, <4>1, InstanceFields
      <4>3. j \in [cmds : {Nil} \cup Batches, bal : Numbers, vbal : Numbers, status : NONE .. EXECUTED,
                   seq : Numbers, deps : Deps]
        BY <1>1, <1>2, <4>1 DEF Instance
      <4>4. j.cmds = i.cmds /\ j.status = i.status
        BY <1>2, <4>1 DEF Instance
      <4> HIDE DEF i, j
      <4> QED
        BY <1>2, <4>1, <4>2, <4>3, <4>4, InstanceFields DEF Instance
    <3>2. CASE ~(i.status >= ACCEPTED)
      <4> DEFINE a == UpdateAttributes(instanceSpace[r], r, m.cmds, m.seq, m.deps, m.id[1])
      <4>1. a.seq \in Numbers /\ a.deps \in Deps
        BY <1>1, KnownSeq, UpdateAttributesFacts
      <4>2. j = [cmds |-> m.cmds, bal |-> m.ballot, vbal |-> m.ballot,
                 status |-> IF a.changed THEN PREACCEPTED ELSE PREACCEPTED_EQ, seq |-> a.seq, deps |-> a.deps]
        BY <3>2 DEF PreAccepted
      <4> HIDE DEF a, i, j
      <4> QED
        BY <1>1, <4>1, <4>2, BatchFacts, Statuses DEF Instance
    <3> QED
      BY <3>1, <3>2
  <2> HIDE DEF j
  <2>3. reply \in Message /\ reply.from # reply.to
    BY <1>1, <2>2, InstanceFields, Statuses DEF Message
  <2>4. SpaceTypeOK'
    BY <1>1, <1>4, <2>1, <2>2, InstanceWrite
  <2>5. AttrTypeOK'
    BY <1>1, <2>1, AttrUnchanged, UpdateConflictsFacts
  <2> HIDE DEF reply
  <2>6. MsgTypeOK'
    <3>1. msgs' \subseteq msgs \cup {reply}
      BY <2>1 DEF ReplyTo
    <3> QED
      BY <2>3, <3>1, MsgsSent
  <2> QED
    BY <1>3, <1>4, <2>4, <2>5, <2>6, TypeFrom DEF TypeOK, ctrlVars
<1> QED
  BY <1>5, <1>6

\* The bookkeeping after a reply: what is merged is not lower.
LEMMA WithReplyFacts ==
  ASSUME NEW r \in Replicas, NEW b \in LeaderBookkeeping, b.status \in {1, 2},
         NEW m \in Message, m.type = "preAcceptReply", NEW c, c = WithPreAcceptReply(r, b, m)
  PROVE  /\ c \in LeaderBookkeeping /\ c.cmds # Nil
         /\ c.cmds = b.cmds /\ c.preAcceptOKs = b.preAcceptOKs + 1
         /\ c.ballot = (IF m.vbal > b.ballot THEN m.vbal ELSE b.ballot)
         /\ c.status = (IF m.vbal > b.ballot THEN m.status ELSE b.status)
         /\ c.status \in {1, 2} =>
              \A q \in Replicas : /\ c.deps[q] >= IF m.vbal > b.ballot THEN m.deps[q] ELSE b.deps[q]
                                  /\ q # r => c.deps[q] >= m.deps[q]
<1> DEFINE d == IF m.vbal > b.ballot
                THEN [b EXCEPT !.ballot = m.vbal, !.seq = m.seq, !.deps = m.deps, !.status = m.status]
                ELSE b
           a == Merge(r, d, m)
           F == [proposals : SUBSET Commands, ballot : Numbers, allEqual : BOOLEAN, preAcceptOKs : Nat,
                 acceptOKs : Nat, prepareReplies : Seq(PrepareReply), preparing : BOOLEAN,
                 leaderResponded : BOOLEAN, lastTriedBallot : Numbers, cmds : {Nil} \cup Batches,
                 status : NONE .. EXECUTED, seq : Numbers, deps : Deps]
<1>1. m.vbal \in Numbers /\ m.status \in 1 .. 5 /\ m.seq \in Numbers /\ m.deps \in Deps
  BY MessageFields
<1>2. b \in F /\ b.cmds # Nil /\ Len(b.prepareReplies) <= N
  BY LBFields DEF LeaderBookkeeping
<1>3. d \in F
  <2>1. CASE m.vbal > b.ballot
    <3>1. d = [b EXCEPT !.ballot = m.vbal, !.seq = m.seq, !.deps = m.deps, !.status = m.status]
      BY <2>1
    <3>2. m.status \in NONE .. EXECUTED
      BY <1>1, Statuses
    <3> HIDE DEF d
    <3> QED
      BY <1>1, <1>2, <3>1, <3>2
  <2>2. CASE ~(m.vbal > b.ballot)
    BY <1>2, <2>2
  <2> QED
    BY <2>1, <2>2
<1>4. /\ d.ballot = (IF m.vbal > b.ballot THEN m.vbal ELSE b.ballot)
      /\ d.status = (IF m.vbal > b.ballot THEN m.status ELSE b.status)
      /\ d.deps = (IF m.vbal > b.ballot THEN m.deps ELSE b.deps)
      /\ d.cmds = b.cmds /\ d.preAcceptOKs = b.preAcceptOKs /\ d.prepareReplies = b.prepareReplies
  BY <1>2
<1>5. c = [d EXCEPT !.preAcceptOKs = @ + 1,
                !.allEqual = @ /\ (N <= 3 \/ a.equal),
                !.seq  = IF d.status <= PREACCEPTED_EQ THEN a.seq ELSE @,
                !.deps = IF d.status <= PREACCEPTED_EQ THEN a.deps ELSE @]
  BY DEF WithPreAcceptReply
<1> HIDE DEF d
<1>6. /\ a.seq \in Numbers /\ a.deps \in Deps /\ a.equal \in BOOLEAN
      /\ \A q \in Replicas : a.deps[q] >= d.deps[q] /\ (q # r => a.deps[q] >= m.deps[q])
  BY <1>1, <1>3, MergeFacts
<1> HIDE DEF a
<1>7. d.seq \in Numbers /\ d.deps \in Deps /\ d.preAcceptOKs \in Nat /\ d.allEqual \in BOOLEAN
  BY <1>3
<1> DEFINE e == d.allEqual /\ (N <= 3 \/ a.equal)
           s == IF d.status <= PREACCEPTED_EQ THEN a.seq ELSE d.seq
           p == IF d.status <= PREACCEPTED_EQ THEN a.deps ELSE d.deps
           n == d.preAcceptOKs + 1
<1>8. c = [d EXCEPT !.preAcceptOKs = n, !.allEqual = e, !.seq = s, !.deps = p]
  BY <1>3, <1>5
<1>9. e \in BOOLEAN /\ s \in Numbers /\ p \in Deps /\ n \in Nat
  BY <1>6, <1>7
<1> HIDE DEF e, s, p, n
<1>10. c \in F
  BY <1>3, <1>8, <1>9
<1>11. /\ c.ballot = d.ballot /\ c.status = d.status /\ c.cmds = d.cmds /\ c.preAcceptOKs = n
       /\ c.prepareReplies = d.prepareReplies /\ c.deps = p
  BY <1>3, <1>8
<1> HIDE DEF F
<1>12. c \in LeaderBookkeeping
  <2>1. c.cmds # Nil /\ Len(c.prepareReplies) <= N
    BY <1>2, <1>4, <1>11
  <2> QED
    BY <1>10, <2>1 DEF F, LeaderBookkeeping
<1>13. c.status \in {1, 2} => p = a.deps
  BY <1>11, Statuses DEF p
<1> QED
  BY <1>2, <1>4, <1>6, <1>11, <1>12, <1>13 DEF n

\* Bookkeeping with another status.
LEMMA LBStatus ==
  ASSUME NEW c \in LeaderBookkeeping, c.cmds # Nil, NEW s \in 0 .. 5, NEW b, b = [c EXCEPT !.status = s]
  PROVE  /\ b \in LeaderBookkeeping /\ b.status = s /\ b.cmds = c.cmds /\ b.seq = c.seq /\ b.deps = c.deps
         /\ b.preAcceptOKs = c.preAcceptOKs /\ b.ballot = c.ballot
<1>1. /\ b.cmds = c.cmds /\ b.prepareReplies = c.prepareReplies /\ b.status = s /\ b.seq = c.seq /\ b.deps = c.deps
      /\ b.preAcceptOKs = c.preAcceptOKs /\ b.ballot = c.ballot
  BY DEF LeaderBookkeeping
<1>2. b \in [proposals : SUBSET Commands, ballot : Numbers, allEqual : BOOLEAN, preAcceptOKs : Nat,
             acceptOKs : Nat, prepareReplies : Seq(PrepareReply), preparing : BOOLEAN,
             leaderResponded : BOOLEAN, lastTriedBallot : Numbers, cmds : {Nil} \cup Batches,
             status : NONE .. EXECUTED, seq : Numbers, deps : Deps]
  BY Statuses DEF LeaderBookkeeping
<1>3. Len(b.prepareReplies) <= N
  BY <1>1, LBFields
<1> QED
  BY <1>1, <1>2, <1>3 DEF LeaderBookkeeping

\* The instance that its leader accepts or commits, and what it sends.
DecidedAt(i, c, s) ==
  [i EXCEPT !.status = s, !.bal = c.ballot, !.cmds = c.cmds, !.deps = c.deps, !.seq = c.seq]
Announces(r, id, c, s) ==
  IF s = COMMITTED THEN CommitTo(Peers(r, N - 1), r, id, c) ELSE AcceptTo(Peers(r, N \div 2), r, id, c)

\* A reply that is not too late: the leader goes on counting, or accepts or commits.
CountsOn(r, m, c) ==
  /\ c.preAcceptOKs < FastQuorumSize - 1
  /\ lbs' = [lbs EXCEPT ![r][m.id] = c]
  /\ msgs' = msgs \ {m} /\ instanceSpace' = instanceSpace
Decides(r, m, c, s) ==
  /\ ~(c.preAcceptOKs < FastQuorumSize - 1)
  /\ lbs' = [lbs EXCEPT ![r][m.id] = [c EXCEPT !.status = s]]
  /\ instanceSpace' = [instanceSpace EXCEPT ![r][m.id] = DecidedAt(instanceSpace[r][m.id], c, s)]
  /\ msgs' = (msgs \ {m}) \cup Announces(r, m.id, c, s)

LEMMA PreAcceptReplyEffect ==
  ASSUME NEW r, NEW m, HandlePreAcceptReply(r, m),
         lbs[r][m.id].lastTriedBallot = m.ballot, lbs[r][m.id].status \in {1, 2},
         NEW c, c = WithPreAcceptReply(r, lbs[r][m.id], m)
  PROVE  CountsOn(r, m, c) \/ Decides(r, m, c, ACCEPTED) \/ Decides(r, m, c, COMMITTED)
<1> DEFINE b == lbs[r][m.id]
           s == IF MayCommitFast(c, m.id) THEN COMMITTED ELSE ACCEPTED
<1>1. ~(b.lastTriedBallot # m.ballot \/ b.status \notin {PREACCEPTED, PREACCEPTED_EQ})
  BY Statuses
<1>2. IF c.preAcceptOKs < FastQuorumSize - 1
      THEN /\ lbs' = [lbs EXCEPT ![r][m.id] = c]
           /\ msgs' = msgs \ {m} /\ UNCHANGED instanceSpace
      ELSE /\ lbs' = [lbs EXCEPT ![r][m.id] = [c EXCEPT !.status = s]]
           /\ instanceSpace' = [instanceSpace EXCEPT ![r][m.id] = DecidedAt(@, c, s)]
           /\ msgs' = (msgs \ {m}) \cup Announces(r, m.id, c, s)
  BY <1>1 DEF HandlePreAcceptReply, DecidedAt, Announces
<1>3. CountsOn(r, m, c) \/ Decides(r, m, c, s)
  BY <1>2 DEF CountsOn, Decides
<1>4. s = ACCEPTED \/ s = COMMITTED
  OBVIOUS
<1> HIDE DEF s
<1> QED
  BY <1>3, <1>4

LEMMA LeaderInstance ==
  ASSUME NEW i \in Instance, NEW c \in LeaderBookkeeping, c.cmds # Nil, NEW s, s = ACCEPTED \/ s = COMMITTED
  PROVE  /\ DecidedAt(i, c, s) \in Instance /\ DecidedAt(i, c, s).cmds = c.cmds
         /\ DecidedAt(i, c, s).deps = c.deps /\ DecidedAt(i, c, s).seq = c.seq
         /\ DecidedAt(i, c, s).status = s
<1> DEFINE j == [i EXCEPT !.status = s, !.bal = c.ballot, !.cmds = c.cmds, !.deps = c.deps, !.seq = c.seq]
<1>1. j.cmds = c.cmds /\ j.deps = c.deps /\ j.seq = c.seq /\ j.status = s
  BY DEF Instance
<1>2. c.cmds \in {Nil} \cup Batches /\ c.ballot \in Numbers /\ c.deps \in Deps /\ c.seq \in Numbers
  BY LBFields
<1>3. s \in NONE .. EXECUTED
  BY Statuses
<1>4. j \in [cmds : {Nil} \cup Batches, bal : Numbers, vbal : Numbers, status : NONE .. EXECUTED,
             seq : Numbers, deps : Deps]
  BY <1>2, <1>3 DEF Instance
<1>5. DecidedAt(i, c, s) = j
  BY DEF DecidedAt
<1> HIDE DEF j
<1> QED
  BY <1>1, <1>4, <1>5 DEF Instance

LEMMA AnnouncesFacts ==
  ASSUME NEW r \in Replicas, NEW id \in InstanceIds, NEW c \in LeaderBookkeeping, c.cmds # Nil,
         NEW s, s = ACCEPTED \/ s = COMMITTED, NEW x \in Announces(r, id, c, s)
  PROVE  /\ x \in Message /\ x.from = r /\ x.to # r /\ x.id = id
         /\ s = ACCEPTED => x.type = "accept"
         /\ s = COMMITTED => x.type = "commit" /\ x.cmds = c.cmds /\ x.seq = c.seq /\ x.deps = c.deps
<1>1. Peers(r, N - 1) \in SUBSET (Replicas \ {r}) /\ Peers(r, N \div 2) \in SUBSET (Replicas \ {r})
  BY PeersFacts
<1>2. CASE s = COMMITTED
  <2>1. x \in CommitTo(Peers(r, N - 1), r, id, c)
    BY <1>2 DEF Announces
  <2>2. s # ACCEPTED
    BY <1>2, Statuses
  <2> QED
    BY <1>1, <2>1, <2>2, CommitSent
<1>3. CASE s # COMMITTED
  <2>1. x \in AcceptTo(Peers(r, N \div 2), r, id, c)
    BY <1>3 DEF Announces
  <2> QED
    BY <1>1, <1>3, <2>1, AcceptSent
<1> QED
  BY <1>2, <1>3

LEMMA HandlePreAcceptReplyTypes ==
  ASSUME TypeOK, NEW r \in Replicas, NEW m \in msgs, m.to = r, HandlePreAcceptReply(r, m)
  PROVE  TypeOK'
<1> DEFINE b == lbs[r][m.id]
           c == WithPreAcceptReply(r, b, m)
           i == instanceSpace[r][m.id]
<1>1. /\ m \in Message /\ m.type = "preAcceptReply" /\ m.from # m.to
      /\ m.from \in Replicas /\ m.id \in InstanceIds /\ m.id[1] \in Replicas /\ m.ballot \in Numbers
  BY MessageFields DEF TypeOK, HandlePreAcceptReply, InstanceIds
<1>2. b \in LeaderBookkeeping /\ i \in Instance
  BY <1>1 DEF TypeOK
<1>3. maxRecvBallot' \in [Replicas -> Numbers] /\ UNCHANGED <<attrVars, rowVars, proposeChan, ctrlVars>>
  BY <1>1, SeesType DEF HandlePreAcceptReply
<1>4. SpaceTypeOK' /\ MsgTypeOK' => TypeOK'
  BY <1>3, AttrUnchanged, CreatedUnchanged, TypeFrom DEF TypeOK, rowVars, ctrlVars
<1>5. CASE b.lastTriedBallot # m.ballot \/ b.status \notin {PREACCEPTED, PREACCEPTED_EQ}
  <2>1. msgs' = msgs \ {m} /\ UNCHANGED <<instanceSpace, lbs>>
    BY <1>5 DEF HandlePreAcceptReply
  <2>2. SpaceTypeOK' /\ MsgTypeOK'
    BY <2>1, SpaceUnchanged, MsgsSent
  <2> QED
    BY <1>4, <2>2
<1>6. CASE ~(b.lastTriedBallot # m.ballot \/ b.status \notin {PREACCEPTED, PREACCEPTED_EQ})
  <2>1. b.status \in {1, 2} /\ b.lastTriedBallot = m.ballot
    BY <1>6, Statuses
  <2>2. c \in LeaderBookkeeping /\ c.cmds # Nil /\ c.cmds = b.cmds
    BY <1>1, <1>2, <2>1, WithReplyFacts
  <2>3. CountsOn(r, m, c) \/ Decides(r, m, c, ACCEPTED) \/ Decides(r, m, c, COMMITTED)
    BY <2>1, PreAcceptReplyEffect
  <2> HIDE DEF c
  <2>4. CASE CountsOn(r, m, c)
    <3>1. b.status >= 1
      BY <2>1
    <3>2. SpaceTypeOK'
      BY <1>1, <2>2, <2>4, <3>1, LBWrite DEF CountsOn
    <3>3. MsgTypeOK'
      BY <2>4, MsgsSent DEF CountsOn
    <3> QED
      BY <1>4, <3>2, <3>3
  <2>5. ASSUME NEW s, s = ACCEPTED \/ s = COMMITTED, Decides(r, m, c, s) PROVE TypeOK'
    <3> DEFINE d == [c EXCEPT !.status = s]
               j == DecidedAt(i, c, s)
    <3>1. s \in 0 .. 5
      BY <2>5, Statuses
    <3>2. d \in LeaderBookkeeping
      BY <2>2, <3>1, LBStatus
    <3>3. j \in Instance /\ j.cmds # Nil
      BY <1>2, <2>2, <2>5, LeaderInstance
    <3>4. lbs' = [lbs EXCEPT ![r][m.id] = d] /\ instanceSpace' = [instanceSpace EXCEPT ![r][m.id] = j]
      BY <2>5 DEF Decides
    <3>5. \A x \in Announces(r, m.id, c, s) : x \in Message /\ x.from # x.to
      BY <1>1, <2>2, <2>5, AnnouncesFacts
    <3>6. MsgTypeOK'
      BY <2>5, <3>5, MsgsSent DEF Decides
    <3> HIDE DEF d, j
    <3>7. SpaceTypeOK'
      BY <1>1, <3>2, <3>3, <3>4, SpaceWrite
    <3> QED
      BY <1>4, <3>6, <3>7
  <2> QED
    BY <2>3, <2>4, <2>5
<1> QED
  BY <1>5, <1>6

LEMMA HandleAcceptTypes ==
  ASSUME TypeOK, NEW r \in Replicas, NEW m \in msgs, m.to = r, HandleAccept(r, m)
  PROVE  TypeOK'
<1> DEFINE i == instanceSpace[r][m.id]
           j == IF m.ballot < i.bal \/ i.status >= COMMITTED THEN i
                ELSE [i EXCEPT !.deps = m.deps, !.seq = m.seq, !.bal = m.ballot, !.vbal = m.ballot]
           reply == [type |-> "acceptReply", from |-> r, to |-> m.from, id |-> m.id, ballot |-> j.bal]
<1>1. /\ m \in Message /\ m.type = "accept" /\ m.from # m.to
      /\ m.from \in Replicas /\ m.id \in InstanceIds /\ m.id[1] \in Replicas /\ m.ballot \in Numbers
      /\ m.seq \in Numbers /\ m.deps \in Deps
  BY MessageFields DEF TypeOK, HandleAccept, InstanceIds
<1>2. i \in Instance
  BY <1>1 DEF TypeOK
<1>3. maxRecvBallot' \in [Replicas -> Numbers] /\ crtInstance' \in [Replicas -> Deps] /\ CreatedTypeOK'
  BY <1>1, SeesType, LearnsType, CreatesType DEF HandleAccept
<1>4. /\ UNCHANGED <<lbs, attrVars, proposeChan, ctrlVars>>
      /\ instanceSpace' = [instanceSpace EXCEPT ![r][m.id] = j]
      /\ msgs' = (msgs \ {m}) \cup ReplyTo(m, reply)
  BY DEF HandleAccept
<1>5. j \in Instance /\ j.cmds = i.cmds
  BY <1>1, <1>2 DEF Instance
<1> HIDE DEF i, j
<1>6. SpaceTypeOK'
  BY <1>1, <1>4, <1>5, InstanceWrite DEF i
<1>7. reply \in Message /\ reply.from # reply.to
  BY <1>1, <1>5, InstanceFields DEF Message
<1> HIDE DEF reply
<1>8. MsgTypeOK'
  <2>1. msgs' \subseteq msgs \cup {reply}
    BY <1>4 DEF ReplyTo
  <2> QED
    BY <1>7, <2>1, MsgsSent
<1>9. AttrTypeOK'
  BY <1>4, AttrUnchanged
<1> QED
  BY <1>3, <1>4, <1>6, <1>8, <1>9, TypeFrom DEF TypeOK, ctrlVars

LEMMA HandleAcceptReplyTypes ==
  ASSUME TypeOK, NEW r \in Replicas, NEW m \in msgs, m.to = r, HandleAcceptReply(r, m)
  PROVE  TypeOK'
<1> DEFINE b == lbs[r][m.id]
           c == [b EXCEPT !.acceptOKs = @ + 1]
           d == [c EXCEPT !.status = COMMITTED]
           i == instanceSpace[r][m.id]
           j == [i EXCEPT !.status = COMMITTED]
           S == CommitTo(Peers(r, N - 1), r, m.id, c)
<1>1. /\ m \in Message /\ m.type = "acceptReply" /\ m.from # m.to
      /\ m.from \in Replicas /\ m.id \in InstanceIds /\ m.id[1] \in Replicas /\ m.ballot \in Numbers
  BY MessageFields DEF TypeOK, HandleAcceptReply, InstanceIds
<1>2. b \in LeaderBookkeeping /\ i \in Instance /\ (b.status >= 1 => i.cmds # Nil)
  BY <1>1, Statuses DEF TypeOK
<1>3. maxRecvBallot' \in [Replicas -> Numbers] /\ UNCHANGED <<attrVars, rowVars, proposeChan, ctrlVars>>
  BY <1>1, SeesType DEF HandleAcceptReply
<1>4. SpaceTypeOK' /\ MsgTypeOK' => TypeOK'
  BY <1>3, AttrUnchanged, CreatedUnchanged, TypeFrom DEF TypeOK, rowVars, ctrlVars
<1>5. CASE b.status # ACCEPTED \/ b.lastTriedBallot # m.ballot
  <2>1. msgs' = msgs \ {m} /\ UNCHANGED <<instanceSpace, lbs>>
    BY <1>5 DEF HandleAcceptReply
  <2>2. SpaceTypeOK' /\ MsgTypeOK'
    BY <2>1, SpaceUnchanged, MsgsSent
  <2> QED
    BY <1>4, <2>2
<1>6. CASE ~(b.status # ACCEPTED \/ b.lastTriedBallot # m.ballot)
  <2>1. IF c.acceptOKs + 1 > N \div 2
        THEN /\ lbs' = [lbs EXCEPT ![r][m.id] = d]
             /\ instanceSpace' = [instanceSpace EXCEPT ![r][m.id].status = COMMITTED]
             /\ msgs' = (msgs \ {m}) \cup S
        ELSE /\ lbs' = [lbs EXCEPT ![r][m.id] = c]
             /\ msgs' = msgs \ {m} /\ UNCHANGED instanceSpace
    BY <1>6 DEF HandleAcceptReply
  <2>2. c \in LeaderBookkeeping /\ c.cmds # Nil /\ c.status = b.status /\ b.status = 3
    <3>1. c.prepareReplies = b.prepareReplies /\ c.cmds = b.cmds /\ c.status = b.status /\ b.status = 3
      BY <1>2, <1>6, Statuses DEF LeaderBookkeeping
    <3>2. c \in [proposals : SUBSET Commands, ballot : Numbers, allEqual : BOOLEAN, preAcceptOKs : Nat,
             acceptOKs : Nat, prepareReplies : Seq(PrepareReply), preparing : BOOLEAN,
             leaderResponded : BOOLEAN, lastTriedBallot : Numbers, cmds : {Nil} \cup Batches,
             status : NONE .. EXECUTED, seq : Numbers, deps : Deps]
      BY <1>2 DEF LeaderBookkeeping
    <3>3. b.cmds # Nil /\ Len(b.prepareReplies) <= N
      BY <1>2, <3>1, LBFields
    <3> HIDE DEF c, b
    <3> QED
      BY <3>1, <3>2, <3>3 DEF LeaderBookkeeping
  <2> HIDE DEF c
  <2>3. CASE c.acceptOKs + 1 > N \div 2
    <3>1. d \in LeaderBookkeeping /\ d.status = COMMITTED
      <4>1. COMMITTED \in 0 .. 5
        BY Statuses
      <4> QED
        BY <2>2, <4>1, LBStatus
    <3>2. j \in Instance /\ j.cmds # Nil
      <4>1. i.cmds # Nil /\ j.cmds = i.cmds /\ j \in [cmds : {Nil} \cup Batches, bal : Numbers, vbal : Numbers, status : NONE .. EXECUTED,
                   seq : Numbers, deps : Deps]
        BY <1>2, <2>2, Statuses DEF Instance
      <4> HIDE DEF i, j
      <4> QED
        BY <4>1 DEF Instance
    <3>3. lbs' = [lbs EXCEPT ![r][m.id] = d] /\ instanceSpace' = [instanceSpace EXCEPT ![r][m.id] = j]
          /\ msgs' = (msgs \ {m}) \cup S
      <4>1. instanceSpace' = [instanceSpace EXCEPT ![r][m.id].status = COMMITTED]
        BY <2>1, <2>3
      <4> QED
        BY <2>1, <2>3, <4>1
    <3>4. \A x \in S : x \in Message /\ x.from # x.to
      <4>1. Peers(r, N - 1) \in SUBSET (Replicas \ {r})
        BY PeersFacts
      <4> QED
        BY <1>1, <2>2, <4>1, CommitSent
    <3> HIDE DEF S, i, j, d
    <3>5. MsgTypeOK'
      BY <3>3, <3>4, MsgsSent
    <3>6. SpaceTypeOK'
      BY <1>1, <3>1, <3>2, <3>3, SpaceWrite
    <3> QED
      BY <1>4, <3>5, <3>6
  <2>4. CASE ~(c.acceptOKs + 1 > N \div 2)
    <3>1. lbs' = [lbs EXCEPT ![r][m.id] = c] /\ instanceSpace' = instanceSpace
      BY <2>1, <2>4
    <3>2. SpaceTypeOK'
      BY <1>1, <2>2, <3>1, LBWrite
    <3>3. MsgTypeOK'
      BY <2>1, <2>4, MsgsSent
    <3> QED
      BY <1>4, <3>2, <3>3
  <2> QED
    BY <2>3, <2>4
<1> QED
  BY <1>5, <1>6

LEMMA HandleCommitTypes ==
  ASSUME TypeOK, NEW r \in Replicas, NEW m \in msgs, m.to = r, HandleCommit(r, m)
  PROVE  TypeOK'
<1> DEFINE i == instanceSpace[r][m.id]
           j == [cmds |-> m.cmds, bal |-> m.ballot, vbal |-> m.ballot, status |-> COMMITTED,
                 seq |-> m.seq, deps |-> m.deps]
           b == lbs[r][m.id]
           d == [b EXCEPT !.proposals = {}]
           again == IF m.id[1] = r /\ m.cmds = <<Noop>> THEN lbs[r][m.id].proposals ELSE {}
<1>1. /\ m \in Message /\ m.type = "commit" /\ m.from # m.to
      /\ m.from \in Replicas /\ m.id \in InstanceIds /\ m.id[1] \in Replicas /\ m.ballot \in Numbers
      /\ m.cmds \in Batches /\ m.seq \in Numbers /\ m.deps \in Deps
  BY MessageFields DEF TypeOK, HandleCommit, InstanceIds
<1>2. i \in Instance /\ b \in LeaderBookkeeping /\ (b.status >= 1 => i.cmds # Nil)
  BY <1>1, Statuses DEF TypeOK
<1>3. maxRecvBallot' \in [Replicas -> Numbers] /\ crtInstance' \in [Replicas -> Deps] /\ CreatedTypeOK'
  BY <1>1, SeesType, LearnsType, CreatesType DEF HandleCommit
<1>4. UNCHANGED ctrlVars /\ msgs' = msgs \ {m}
  BY DEF HandleCommit
<1>5. MsgTypeOK'
  BY <1>4, MsgsSent
<1>6. CASE i.status >= COMMITTED \/ m.ballot < i.bal
  <2>1. UNCHANGED <<instanceSpace, lbs, attrVars, proposeChan>>
    BY <1>6 DEF HandleCommit
  <2>2. SpaceTypeOK' /\ AttrTypeOK'
    BY <2>1, SpaceUnchanged, AttrUnchanged
  <2> QED
    BY <1>3, <1>4, <1>5, <2>1, <2>2, TypeFrom DEF TypeOK, ctrlVars
<1>7. CASE ~(i.status >= COMMITTED \/ m.ballot < i.bal)
  <2>1. /\ instanceSpace' = [instanceSpace EXCEPT ![r][m.id] = j]
        /\ proposeChan' = [proposeChan EXCEPT ![r] = @ \cup again]
        /\ lbs' = (IF again = {} THEN lbs ELSE [lbs EXCEPT ![r][m.id].proposals = {}])
        /\ UpdateConflicts(r, m.cmds, m.id, m.seq)
    BY <1>7 DEF HandleCommit
  <2>2. j \in Instance /\ j.cmds # Nil
    BY <1>1, BatchFacts, Statuses DEF Instance
  <2>3. d \in LeaderBookkeeping
    <3>1. d.prepareReplies = b.prepareReplies /\ d.cmds = b.cmds /\ d.status = b.status
      BY <1>2 DEF LeaderBookkeeping
    <3>2. d \in [proposals : SUBSET Commands, ballot : Numbers, allEqual : BOOLEAN, preAcceptOKs : Nat,
             acceptOKs : Nat, prepareReplies : Seq(PrepareReply), preparing : BOOLEAN,
             leaderResponded : BOOLEAN, lastTriedBallot : Numbers, cmds : {Nil} \cup Batches,
             status : NONE .. EXECUTED, seq : Numbers, deps : Deps]
      BY <1>2 DEF LeaderBookkeeping
    <3> HIDE DEF d, b
    <3> QED
      BY <1>2, <3>1, <3>2 DEF LeaderBookkeeping
  <2>4. again \in SUBSET Commands
    BY <1>2, LBFields
  <2>5. lbs' = [lbs EXCEPT ![r][m.id] = IF again = {} THEN b ELSE d]
    <3>1. CASE again = {}
      BY <1>1, <2>1, <3>1 DEF TypeOK
    <3>2. CASE again # {}
      <4>1. lbs' = [lbs EXCEPT ![r][m.id].proposals = {}]
        BY <2>1, <3>2
      <4> QED
        BY <3>2, <4>1
    <3> QED
      BY <3>1, <3>2
  <2>6. proposeChan' \in [Replicas -> SUBSET Commands]
    BY <2>1, <2>4 DEF TypeOK
  <2> HIDE DEF d, b, j, again
  <2>7. SpaceTypeOK'
    <3>0. instanceSpace' = [instanceSpace EXCEPT ![r][m.id] = j] /\ b \in LeaderBookkeeping /\ m.id \in InstanceIds
      BY <1>1, <1>2, <2>1
    <3>1. CASE again = {}
      <4>1. lbs' = [lbs EXCEPT ![r][m.id] = b]
        BY <2>5, <3>1
      <4> QED
        BY <3>0, <2>2, <4>1, SpaceWrite
    <3>2. CASE again # {}
      <4>1. lbs' = [lbs EXCEPT ![r][m.id] = d]
        BY <2>5, <3>2
      <4> QED
        BY <3>0, <2>2, <2>3, <4>1, SpaceWrite
    <3> QED
      BY <3>1, <3>2
  <2>8. AttrTypeOK'
    BY <1>1, <2>1, UpdateConflictsFacts
  <2> QED
    BY <1>3, <1>4, <1>5, <2>6, <2>7, <2>8, TypeFrom DEF TypeOK, ctrlVars
<1> QED
  BY <1>6, <1>7

LEMMA PrepareReplyType ==
  ASSUME NEW r \in Replicas, NEW to \in Replicas, NEW id \in InstanceIds, NEW i \in Instance
  PROVE  /\ PrepareReplyOf(r, to, id, i) \in PrepareReply
         /\ PrepareReplyOf(r, to, id, i).from = r /\ PrepareReplyOf(r, to, id, i).to = to
         /\ PrepareReplyOf(r, to, id, i).id = id
BY InstanceFields, Statuses DEF PrepareReplyOf, PrepareReply

\* A reply on the wire has a batch, which may be empty, and no vbal.
LEMMA OnWireType ==
  ASSUME NEW p \in PrepareReply
  PROVE  /\ OnWire(p) \in Message
         /\ OnWire(p).from = p.from /\ OnWire(p).to = p.to /\ OnWire(p).id = p.id
<1> DEFINE c == IF p.cmds = Nil THEN <<>> ELSE p.cmds
           n == [p EXCEPT !.vbal = 0, !.cmds = c]
           F == [type : {"prepareReply"}, from : Replicas, to : Replicas, id : InstanceIds, ballot : Numbers,
                 vbal : Numbers, status : NONE .. EXECUTED, cmds : {Nil} \cup Batches, seq : Numbers, deps : Deps]
<1>1. p \in F /\ OnWire(p) = n
  BY DEF PrepareReply, OnWire
<1>2. c \in Batches /\ c # Nil
  <2>1. <<>> \in Batches
    BY DEF Batches
  <2> QED
    BY <1>1, <2>1, NilAssumption
<1> HIDE DEF c
<1>3. 0 \in Numbers
  BY DEF Numbers
<1>4. n \in F
  BY <1>1, <1>2, <1>3
<1>5. n.from = p.from /\ n.to = p.to /\ n.id = p.id /\ n.vbal = 0 /\ n.cmds = c
  BY <1>1
<1> HIDE DEF n
<1>6. n \in PrepareReply
  BY <1>2, <1>4, <1>5 DEF PrepareReply
<1> QED
  BY <1>1, <1>2, <1>5, <1>6 DEF Message

LEMMA StartRecoveryTypes ==
  ASSUME TypeOK, NEW r \in Replicas, NEW id \in InstanceIds, StartRecovery(r, id)
  PROVE  TypeOK'
<1> DEFINE i == instanceSpace[r][id]
           n == MakeBallot(r, id)
           j == [i EXCEPT !.bal = n, !.vbal = n]
           own == PrepareReplyOf(r, r, id, j)
           e == NewLB(lbs[r][id].proposals, i.deps, n, i.cmds, i.status, i.seq)
           b == [e EXCEPT !.ballot = i.vbal, !.prepareReplies = <<own>>, !.leaderResponded = r = id[1]]
           P == {[type |-> "prepare", from |-> r, to |-> q, id |-> id, ballot |-> n] : q \in Replicas \ (dead \cup {r})}
<1>1. n \in Numbers /\ id[1] \in Replicas
  BY BallotType DEF Numbers, InstanceIds
<1>2. i \in Instance /\ lbs[r][id] \in LeaderBookkeeping
  BY DEF TypeOK
<1>3. /\ recoveries' = recoveries \cup {<<r, id>>}
      /\ instanceSpace' = [instanceSpace EXCEPT ![r][id] = j]
      /\ lbs' = [lbs EXCEPT ![r][id] = b]
      /\ Creates(r, id)
      /\ msgs' = msgs \cup P
      /\ UNCHANGED <<attrVars, crtInstance, maxRecvBallot, proposeChan, dead>>
  BY DEF StartRecovery
<1> HIDE DEF n
<1>4. j \in Instance /\ j.cmds = i.cmds
  <2>1. j.cmds = i.cmds /\ j.status = i.status
    BY <1>2 DEF Instance
  <2>2. j \in [cmds : {Nil} \cup Batches, bal : Numbers, vbal : Numbers, status : NONE .. EXECUTED,
               seq : Numbers, deps : Deps]
    BY <1>1, <1>2 DEF Instance
  <2> HIDE DEF i, j
  <2> QED
    BY <1>2, <2>1, <2>2 DEF Instance
<1> HIDE DEF j, i
<1>5. own \in PrepareReply
  BY <1>4, PrepareReplyType
<1>6. e \in LeaderBookkeeping /\ e.status = i.status /\ e.cmds = i.cmds
  <2>1. /\ lbs[r][id].proposals \in SUBSET Commands /\ i.deps \in Deps /\ i.cmds \in {Nil} \cup Batches
        /\ i.status \in 0 .. 5 /\ i.seq \in Numbers /\ (i.status >= 1 => i.cmds # Nil)
    BY <1>2, InstanceFields, LBFields
  <2>2. e \in LeaderBookkeeping
    BY <1>1, <2>1, NewLBType
  <2> QED
    BY <2>2 DEF NewLB
<1> HIDE DEF own, e
<1>7. b \in LeaderBookkeeping /\ b.status = i.status
  <2>1. b.status = i.status /\ b.cmds = i.cmds /\ b.prepareReplies = <<own>>
    BY <1>6 DEF LeaderBookkeeping
  <2>2. <<own>> \in Seq(PrepareReply) /\ Len(<<own>>) = 1
    BY <1>5
  <2>3. i.vbal \in Numbers
    BY <1>2, InstanceFields
  <2>4. b \in [proposals : SUBSET Commands, ballot : Numbers, allEqual : BOOLEAN, preAcceptOKs : Nat,
             acceptOKs : Nat, prepareReplies : Seq(PrepareReply), preparing : BOOLEAN,
             leaderResponded : BOOLEAN, lastTriedBallot : Numbers, cmds : {Nil} \cup Batches,
             status : NONE .. EXECUTED, seq : Numbers, deps : Deps]
    BY <1>6, <2>2, <2>3 DEF LeaderBookkeeping
  <2>5. b.status >= 1 => b.cmds # Nil
    BY <1>2, <2>1, InstanceFields
  <2>6. Len(b.prepareReplies) <= N
    BY <2>1, <2>2, SizeFacts
  <2> HIDE DEF b
  <2> QED
    BY <2>1, <2>4, <2>5, <2>6, Statuses DEF LeaderBookkeeping
<1>8. SpaceTypeOK'
  <2>1. b.status >= 1 => j.cmds # Nil
    BY <1>2, <1>4, <1>7, InstanceFields
  <2> HIDE DEF b
  <2> QED
    BY <1>3, <1>4, <1>7, <2>1, SpaceWrite
<1>9. MsgTypeOK'
  <2>1. \A m \in P : m \in Message /\ m.from # m.to
    BY <1>1 DEF Message
  <2> HIDE DEF P
  <2> QED
    BY <1>3, <2>1, MsgsSent
<1>10. AttrTypeOK' /\ CreatedTypeOK'
  BY <1>3, AttrUnchanged, CreatesType
<1>11. recoveries' \subseteq Replicas \X InstanceIds
  BY <1>3 DEF TypeOK
<1> QED
  BY <1>3, <1>8, <1>9, <1>10, <1>11, TypeFrom DEF TypeOK

LEMMA HandlePrepareTypes ==
  ASSUME TypeOK, NEW r \in Replicas, NEW m \in msgs, m.to = r, HandlePrepare(r, m)
  PROVE  TypeOK'
<1> DEFINE i == instanceSpace[r][m.id]
           n == MaxOf(i.bal, m.ballot)
           j == [i EXCEPT !.bal = n]
           reply == OnWire(PrepareReplyOf(r, m.from, m.id, j))
<1>1. /\ m \in Message /\ m.type = "prepare" /\ m.from # m.to
      /\ m.from \in Replicas /\ m.id \in InstanceIds /\ m.id[1] \in Replicas /\ m.ballot \in Numbers
  BY MessageFields DEF TypeOK, HandlePrepare, InstanceIds
<1>2. i \in Instance
  BY <1>1 DEF TypeOK
<1>3. maxRecvBallot' \in [Replicas -> Numbers] /\ CreatedTypeOK'
  BY <1>1, SeesType, CreatesType DEF HandlePrepare
<1>4. /\ UNCHANGED <<lbs, attrVars, crtInstance, proposeChan, ctrlVars>>
      /\ instanceSpace' = [instanceSpace EXCEPT ![r][m.id] = j]
      /\ msgs' = (msgs \ {m}) \cup ReplyTo(m, reply)
  BY DEF HandlePrepare
<1>5. n \in Numbers
  BY <1>1, <1>2, InstanceFields DEF MaxOf
<1> HIDE DEF n
<1>6. j \in Instance /\ j.cmds = i.cmds
  <2>1. j.cmds = i.cmds /\ j.status = i.status
    BY <1>2 DEF Instance
  <2>2. j \in [cmds : {Nil} \cup Batches, bal : Numbers, vbal : Numbers, status : NONE .. EXECUTED,
               seq : Numbers, deps : Deps]
    BY <1>2, <1>5 DEF Instance
  <2> HIDE DEF i, j
  <2> QED
    BY <1>2, <2>1, <2>2 DEF Instance
<1> HIDE DEF i, j
<1>7. SpaceTypeOK'
  BY <1>1, <1>4, <1>6, InstanceWrite DEF i
<1>8. reply \in Message /\ reply.from # reply.to
  BY <1>1, <1>6, PrepareReplyType, OnWireType
<1> HIDE DEF reply
<1>9. MsgTypeOK'
  <2>1. msgs' \subseteq msgs \cup {reply}
    BY <1>4 DEF ReplyTo
  <2> QED
    BY <1>8, <2>1, MsgsSent
<1>10. AttrTypeOK'
  BY <1>4, AttrUnchanged
<1> QED
  BY <1>3, <1>4, <1>7, <1>9, <1>10, TypeFrom DEF TypeOK, ctrlVars

LEMMA AdoptsType ==
  ASSUME NEW b \in LeaderBookkeeping, NEW replies \in Seq(PrepareReply)
  PROVE  Adopts(b, replies) \in LeaderBookkeeping
<1> DEFINE highest == {k \in DOMAIN replies : /\ replies[k].vbal >= b.ballot
                                        /\ \A j \in DOMAIN replies : replies[j].vbal <= replies[k].vbal}
           p == replies[Max(highest)]
           c == IF highest = {} THEN b
                ELSE [b EXCEPT !.ballot = p.vbal, !.cmds = p.cmds, !.seq = p.seq, !.deps = p.deps, !.status = p.status]
           g == c.leaderResponded \/ \E k \in DOMAIN replies : replies[k].from = replies[k].id[1]
           d == [c EXCEPT !.preparing = FALSE, !.prepareReplies = <<>>, !.leaderResponded = g]
           F == [proposals : SUBSET Commands, ballot : Numbers, allEqual : BOOLEAN, preAcceptOKs : Nat,
             acceptOKs : Nat, prepareReplies : Seq(PrepareReply), preparing : BOOLEAN,
             leaderResponded : BOOLEAN, lastTriedBallot : Numbers, cmds : {Nil} \cup Batches,
             status : NONE .. EXECUTED, seq : Numbers, deps : Deps]
<1>1. Adopts(b, replies) = d
  BY DEF Adopts
<1>2. b \in F /\ (b.status >= 1 => b.cmds # Nil)
  BY LBFields DEF LeaderBookkeeping
<1>3. c \in F /\ (c.status >= 1 => c.cmds # Nil)
  <2>1. CASE highest = {}
    BY <1>2, <2>1
  <2>2. CASE highest # {}
    <3>1. DOMAIN replies = 1 .. Len(replies) /\ Len(replies) \in Nat /\ \A k \in DOMAIN replies : replies[k] \in PrepareReply
      OBVIOUS
    <3>2. highest \subseteq 1 .. Len(replies) /\ highest \subseteq Int /\ IsFiniteSet(highest)
      <4>1. highest \subseteq 1 .. Len(replies)
        BY <3>1
      <4>2. IsFiniteSet(1 .. Len(replies))
        BY <3>1, FS_Interval
      <4> HIDE DEF highest
      <4>3. IsFiniteSet(highest)
        BY <4>1, <4>2, FS_Subset
      <4> QED
        BY <3>1, <4>1, <4>3
    <3> HIDE DEF highest
    <3>3. Max(highest) \in DOMAIN replies
      BY <2>2, <3>1, <3>2, MaxIn
    <3>4. p \in PrepareReply
      BY <3>1, <3>3
    <3>5. c = [b EXCEPT !.ballot = p.vbal, !.cmds = p.cmds, !.seq = p.seq, !.deps = p.deps, !.status = p.status]
      BY <2>2
    <3> HIDE DEF p, c
    <3>6. /\ p.vbal \in Numbers /\ p.status \in 0 .. 5 /\ p.cmds \in {Nil} \cup Batches /\ p.seq \in Numbers
          /\ p.deps \in Deps /\ (p.status >= 1 => p.cmds # Nil) /\ p.status \in NONE .. EXECUTED
      BY <3>4, PrepareReplyFields, Statuses
    <3>7. c.status = p.status /\ c.cmds = p.cmds
      BY <1>2, <3>5
    <3>8. c \in F
      BY <1>2, <3>5, <3>6
    <3> QED
      BY <3>6, <3>7, <3>8
  <2> QED
    BY <2>1, <2>2
<1> HIDE DEF c
<1>4. g \in BOOLEAN
  BY <1>3
<1> HIDE DEF g
<1>5. <<>> \in Seq(PrepareReply) /\ Len(<<>>) = 0
  BY EmptySeq
<1>6. d \in F /\ d.status = c.status /\ d.cmds = c.cmds /\ d.prepareReplies = <<>>
  BY <1>3, <1>4, <1>5
<1> HIDE DEF d
<1> QED
  BY <1>1, <1>3, <1>5, <1>6, Statuses, SizeFacts DEF LeaderBookkeeping

LEMMA HandlePrepareReplyTypes ==
  ASSUME TypeOK, NEW r \in Replicas, NEW m \in msgs, m.to = r, HandlePrepareReply(r, m)
  PROVE  TypeOK'
<1> DEFINE b == lbs[r][m.id]
           replies == Append(b.prepareReplies, m)
           c == Adopts(b, replies)
           s == MaxOf(c.status, ACCEPTED)
           cmds == IF c.cmds = Nil THEN <<Noop>> ELSE c.cmds
           i == [cmds |-> c.cmds, bal |-> b.lastTriedBallot, vbal |-> b.lastTriedBallot,
                 status |-> c.status, seq |-> c.seq, deps |-> c.deps]
           known == [instanceSpace[r] EXCEPT ![m.id] = i]
<1>1. /\ m \in Message /\ m.type = "prepareReply" /\ m.from # m.to /\ m \in PrepareReply
      /\ m.from \in Replicas /\ m.id \in InstanceIds /\ m.id[1] \in Replicas /\ m.ballot \in Numbers
  BY MessageFields DEF TypeOK, HandlePrepareReply, InstanceIds
<1>2. b \in LeaderBookkeeping /\ instanceSpace[r][m.id] \in Instance
  BY <1>1 DEF TypeOK
<1>3. maxRecvBallot' \in [Replicas -> Numbers] /\ UNCHANGED <<crtInstance, proposeChan, ctrlVars>>
  BY <1>1, SeesType DEF HandlePrepareReply
<1>4. SpaceTypeOK' /\ AttrTypeOK' /\ CreatedTypeOK' /\ MsgTypeOK' => TypeOK'
  BY <1>3, TypeFrom DEF TypeOK, ctrlVars
<1>5. replies \in Seq(PrepareReply)
  BY <1>1, <1>2, LBFields
<1>6. CASE ~b.preparing \/ m.ballot # b.lastTriedBallot
  <2>1. msgs' = msgs \ {m} /\ UNCHANGED <<instanceSpace, lbs>> /\ UNCHANGED attrVars /\ UNCHANGED created
    BY <1>6 DEF HandlePrepareReply
  <2> QED
    BY <1>4, <2>1, SpaceUnchanged, AttrUnchanged, CreatedUnchanged, MsgsSent
<1>7. CASE ~(~b.preparing \/ m.ballot # b.lastTriedBallot) /\ Len(replies) < SlowQuorumSize
  <2> DEFINE d == [b EXCEPT !.prepareReplies = replies]
  <2>1. /\ lbs' = [lbs EXCEPT ![r][m.id].prepareReplies = replies]
        /\ msgs' = msgs \ {m} /\ instanceSpace' = instanceSpace /\ UNCHANGED attrVars /\ UNCHANGED created
    BY <1>7 DEF HandlePrepareReply
  <2>2. lbs' = [lbs EXCEPT ![r][m.id] = d]
    BY <2>1
  <2>3. Len(replies) <= N
    <3>1. Len(replies) \in Nat
      BY <1>5
    <3>2. Len(replies) < (N + 1) \div 2
      BY <1>7 DEF SlowQuorumSize
    <3> HIDE DEF replies
    <3>3. (N + 1) \div 2 <= N
      BY SizeFacts
    <3>4. (N + 1) \div 2 \in Nat
      BY SizeFacts
    <3> QED
      BY <3>1, <3>2, <3>3, <3>4, SizeFacts
  <2> HIDE DEF replies
  <2>4. d \in LeaderBookkeeping /\ d.status = b.status
    <3>1. d.prepareReplies = replies /\ d.cmds = b.cmds /\ d.status = b.status
      BY <1>2 DEF LeaderBookkeeping
    <3>2. d \in [proposals : SUBSET Commands, ballot : Numbers, allEqual : BOOLEAN, preAcceptOKs : Nat,
             acceptOKs : Nat, prepareReplies : Seq(PrepareReply), preparing : BOOLEAN,
             leaderResponded : BOOLEAN, lastTriedBallot : Numbers, cmds : {Nil} \cup Batches,
             status : NONE .. EXECUTED, seq : Numbers, deps : Deps]
      BY <1>2, <1>5 DEF LeaderBookkeeping
    <3> HIDE DEF d, b
    <3> QED
      BY <1>2, <2>3, <3>1, <3>2 DEF LeaderBookkeeping
  <2> HIDE DEF d
  <2>5. SpaceTypeOK'
    <3>1. d.status >= 1 => lbs[r][m.id].status >= 1
      BY <2>4
    <3>2. instanceSpace' = instanceSpace /\ m.id \in InstanceIds
      BY <1>1, <2>1
    <3> QED
      BY <2>2, <2>4, <3>1, <3>2, LBWrite
  <2> QED
    BY <1>4, <2>1, <2>5, AttrUnchanged, CreatedUnchanged, MsgsSent
<1>8. CASE ~(~b.preparing \/ m.ballot # b.lastTriedBallot) /\ ~(Len(replies) < SlowQuorumSize)
  <2>1. c \in LeaderBookkeeping
    BY <1>2, <1>5, AdoptsType
  <2>2. \/ StartPhase1(known, r, cmds, m.id, b.lastTriedBallot, b.proposals, {m})
        \/ /\ c.status >= ACCEPTED \/ (c.status # NONE /\ EnoughPreAccepted(r, c, replies))
           /\ lbs' = [lbs EXCEPT ![r][m.id] = [c EXCEPT !.status = s]]
           /\ instanceSpace' = [instanceSpace EXCEPT ![r][m.id] = [i EXCEPT !.status = s]]
           /\ msgs' = (msgs \ {m}) \cup
                IF s = ACCEPTED THEN AcceptTo(Peers(r, N \div 2), r, m.id, c) ELSE {}
           /\ UNCHANGED attrVars /\ UNCHANGED created
    BY <1>8 DEF HandlePrepareReply
  <2> HIDE DEF c
  <2>3. CASE StartPhase1(known, r, cmds, m.id, b.lastTriedBallot, b.proposals, {m})
    <3>1. cmds \in Batches
      <4>1. <<Noop>> \in Batches
        BY DEF Batches
      <4> QED
        BY <2>1, <4>1, LBFields
    <3>2. b.lastTriedBallot \in Numbers /\ b.proposals \in SUBSET Commands /\ {m} \in SUBSET msgs
      BY <1>2, LBFields
    <3>3. \A v \in InstanceIds : known[v].seq \in Numbers
      <4>1. \A v \in InstanceIds : known[v].seq = IF v = m.id THEN c.seq ELSE instanceSpace[r][v].seq
        BY DEF TypeOK
      <4> QED
        BY <2>1, <4>1, KnownSeq, LBFields
    <3> HIDE DEF cmds, b, known
    <3> QED
      BY <1>1, <1>4, <2>3, <3>1, <3>2, <3>3, StartPhase1Types
  <2>4. CASE /\ c.status >= ACCEPTED \/ (c.status # NONE /\ EnoughPreAccepted(r, c, replies))
             /\ lbs' = [lbs EXCEPT ![r][m.id] = [c EXCEPT !.status = s]]
             /\ instanceSpace' = [instanceSpace EXCEPT ![r][m.id] = [i EXCEPT !.status = s]]
             /\ msgs' = (msgs \ {m}) \cup
                  IF s = ACCEPTED THEN AcceptTo(Peers(r, N \div 2), r, m.id, c) ELSE {}
             /\ UNCHANGED attrVars /\ UNCHANGED created
    <3> DEFINE d == [c EXCEPT !.status = s]
               j == [i EXCEPT !.status = s]
               S == IF s = ACCEPTED THEN AcceptTo(Peers(r, N \div 2), r, m.id, c) ELSE {}
    <3>1. c.status \in 0 .. 5 /\ c.status # 0 /\ s \in 0 .. 5 /\ s >= 3
      BY <2>1, <2>4, LBFields, Statuses DEF MaxOf
    <3>2. c.cmds # Nil /\ c.cmds \in {Nil} \cup Batches /\ c.seq \in Numbers /\ c.deps \in Deps
      BY <2>1, <3>1, LBFields
    <3>3. b.lastTriedBallot \in Numbers
      BY <1>2, LBFields
    <3>4. /\ lbs' = [lbs EXCEPT ![r][m.id] = d] /\ instanceSpace' = [instanceSpace EXCEPT ![r][m.id] = j]
          /\ msgs' = (msgs \ {m}) \cup S /\ UNCHANGED attrVars /\ UNCHANGED created
      BY <2>4
    <3> HIDE DEF s
    <3>5. d \in LeaderBookkeeping
      BY <2>1, <3>1, <3>2, LBStatus
    <3>6. j \in Instance /\ j.cmds # Nil
      BY <3>1, <3>2, <3>3, Statuses DEF Instance
    <3>7. \A x \in S : x \in Message /\ x.from # x.to
      <4>1. Peers(r, N \div 2) \in SUBSET (Replicas \ {r})
        BY PeersFacts
      <4> QED
        BY <1>1, <2>1, <4>1, AcceptSent
    <3> HIDE DEF d, j, S
    <3>8. SpaceTypeOK'
      BY <1>1, <3>4, <3>5, <3>6, SpaceWrite
    <3>9. MsgTypeOK'
      BY <3>4, <3>7, MsgsSent
    <3> QED
      BY <1>4, <3>4, <3>8, <3>9, AttrUnchanged, CreatedUnchanged
  <2> QED
    BY <2>2, <2>3, <2>4
<1> QED
  BY <1>6, <1>7, <1>8

LEMMA StopTypes ==
  ASSUME TypeOK, NEW r \in Replicas, Stop(r)
  PROVE  TypeOK'
<1>1. msgs' \subseteq msgs /\ dead' = dead \cup {r} /\ r \in Mortal
      /\ UNCHANGED <<instanceSpace, lbs>> /\ UNCHANGED attrVars /\ UNCHANGED created
      /\ UNCHANGED <<crtInstance, maxRecvBallot, proposeChan, recoveries>>
  BY DEF Stop, rowVars
<1>2. SpaceTypeOK' /\ AttrTypeOK' /\ CreatedTypeOK' /\ MsgTypeOK'
  BY <1>1, SpaceUnchanged, AttrUnchanged, CreatedUnchanged, MsgsSent
<1> QED
  BY <1>1, <1>2, TypeFrom DEF TypeOK

\* What the executor may change of an instance.
LEMMA ExecutesSomeEffect ==
  ASSUME TypeOK, NEW r \in Replicas, ExecutesSome(r)
  PROVE  /\ instanceSpace' \in [Replicas -> [InstanceIds -> Instance]]
         /\ \A x \in Replicas, v \in InstanceIds :
              LET i == instanceSpace[x][v]
                  j == instanceSpace'[x][v]
              IN  /\ j.cmds = i.cmds /\ j.seq = i.seq /\ j.deps = i.deps /\ j.bal = i.bal
                  /\ j.status = i.status \/ (i.status = COMMITTED /\ j.status = EXECUTED)
<1>1. PICK S \in SUBSET {id \in InstanceIds : instanceSpace[r][id].status = COMMITTED} :
        instanceSpace' = [instanceSpace EXCEPT ![r] = [v \in InstanceIds |->
          IF v \in S THEN [instanceSpace[r][v] EXCEPT !.status = EXECUTED] ELSE instanceSpace[r][v]]]
  BY DEF ExecutesSome, MarksExecuted
<1>2. \A x \in Replicas, v \in InstanceIds : instanceSpace'[x][v] =
        IF x = r /\ v \in S THEN [instanceSpace[x][v] EXCEPT !.status = EXECUTED] ELSE instanceSpace[x][v]
  BY <1>1 DEF TypeOK
<1>3. ASSUME NEW x \in Replicas, NEW v \in InstanceIds
      PROVE  LET i == instanceSpace[x][v]
                 j == instanceSpace'[x][v]
             IN  /\ j \in Instance
                 /\ j.cmds = i.cmds /\ j.seq = i.seq /\ j.deps = i.deps /\ j.bal = i.bal
                 /\ j.status = i.status \/ (i.status = COMMITTED /\ j.status = EXECUTED)
  <2> DEFINE i == instanceSpace[x][v]
             j == instanceSpace'[x][v]
  <2>1. i \in Instance
    BY DEF TypeOK
  <2>2. CASE ~(x = r /\ v \in S)
    BY <1>2, <2>1, <2>2
  <2>3. CASE x = r /\ v \in S
    <3>1. j = [i EXCEPT !.status = EXECUTED] /\ i.status = COMMITTED
      BY <1>2, <2>3
    <3> HIDE DEF i, j
    <3>2. j.cmds = i.cmds /\ j.seq = i.seq /\ j.deps = i.deps /\ j.bal = i.bal /\ j.status = EXECUTED
      BY <2>1, <3>1 DEF Instance
    <3>3. i.cmds # Nil
      BY <2>1, <3>1, InstanceFields, Statuses
    <3>4. j \in Instance
      <4>1. j \in [cmds : {Nil} \cup Batches, bal : Numbers, vbal : Numbers, status : NONE .. EXECUTED,
                   seq : Numbers, deps : Deps]
        BY <2>1, <3>1, Statuses DEF Instance
      <4> QED
        BY <3>2, <3>3, <4>1 DEF Instance
    <3> QED
      BY <3>1, <3>2, <3>4 DEF i, j
  <2> QED
    BY <2>2, <2>3
<1>4. instanceSpace' \in [Replicas -> [InstanceIds -> Instance]]
  <2>1. \A x \in Replicas, v \in InstanceIds : instanceSpace'[x][v] \in Instance
    BY <1>3
  <2>2. instanceSpace' = [x \in Replicas |-> instanceSpace'[x]]
    BY <1>1 DEF TypeOK
  <2>3. \A x \in Replicas : instanceSpace'[x] = [v \in InstanceIds |-> instanceSpace'[x][v]]
    BY <1>1 DEF TypeOK
  <2> QED
    BY <2>1, <2>2, <2>3
<1> QED
  BY <1>3, <1>4

LEMMA ExecutesSomeTypes ==
  ASSUME TypeOK, NEW r \in Replicas, ExecutesSome(r)
  PROVE  TypeOK'
<1>1. /\ UNCHANGED lbs /\ UNCHANGED attrVars /\ UNCHANGED created /\ UNCHANGED msgs
      /\ UNCHANGED <<crtInstance, maxRecvBallot, proposeChan, recoveries, dead>>
  BY DEF ExecutesSome, rowVars, ctrlVars
<1>2. SpaceTypeOK'
  <2>1. \A x \in Replicas, v \in InstanceIds : instanceSpace'[x][v].cmds = instanceSpace[x][v].cmds
    BY ExecutesSomeEffect
  <2>2. lbs' = lbs
    BY <1>1
  <2>3. instanceSpace' \in [Replicas -> [InstanceIds -> Instance]]
    BY ExecutesSomeEffect
  <2> QED
    BY <2>1, <2>2, <2>3 DEF TypeOK, SpaceTypeOK
<1>3. AttrTypeOK' /\ CreatedTypeOK' /\ MsgTypeOK'
  BY <1>1, AttrUnchanged, CreatedUnchanged, MsgsSent
<1> QED
  BY <1>1, <1>2, <1>3, TypeFrom DEF TypeOK

LEMMA InitTypes == CommitInit => TypeOK
<1> SUFFICES ASSUME CommitInit PROVE TypeOK
  OBVIOUS
<1>1. -1 \in Numbers /\ NoDeps \in Deps /\ -1 \in -1 .. MaxInstance
  BY SizeFacts DEF Numbers, NoDeps, Deps
<1>2. NewInstance \in Instance
  BY <1>1, Statuses DEF NewInstance, Instance
<1>3. NoLB \in LeaderBookkeeping /\ NoLB.status = 0
  <2>1. {} \in SUBSET Commands /\ Nil \in {Nil} \cup Batches /\ NONE \in 0 .. 5 /\ ~(NONE >= 1)
    BY Statuses
  <2>2. NoLB \in LeaderBookkeeping
    BY <1>1, <2>1, NewLBType DEF NoLB
  <2>3. NoLB.status = NONE
    BY DEF NoLB, NewLB
  <2> QED
    BY <2>2, <2>3, Statuses
<1>4. SpaceTypeOK
  BY <1>2, <1>3, Statuses DEF CommitInit, SpaceTypeOK
<1>5. AttrTypeOK
  BY <1>1 DEF CommitInit, AttrTypeOK, Conflict
<1>6. CreatedTypeOK
  <2>1. \A r, q \in Replicas : created[r][q] = <<>>
    BY DEF CommitInit
  <2>2. <<>> \in Seq(0 .. MaxInstance) /\ IsInjective(<<>>)
    BY EmptySeq DEF IsInjective
  <2> QED
    BY <2>1, <2>2 DEF CommitInit, CreatedTypeOK
<1>7. MsgTypeOK
  BY DEF CommitInit, MsgTypeOK
<1>8. proposeChan \in [Replicas -> SUBSET Commands]
  BY ClientAssumption DEF CommitInit
<1>9. crtInstance \in [Replicas -> Deps] /\ maxRecvBallot \in [Replicas -> Numbers]
      /\ recoveries \subseteq Replicas \X InstanceIds /\ dead \subseteq Mortal
  BY <1>1 DEF CommitInit
<1> QED
  BY <1>4, <1>5, <1>6, <1>7, <1>8, <1>9, TypeParts

LEMMA StepTypes == TypeOK /\ [CommitNext]_commitVars => TypeOK'
<1> SUFFICES ASSUME TypeOK, [CommitNext]_commitVars PROVE TypeOK'
  OBVIOUS
<1>1. CASE CommitNext
  <2>1. PICK r \in Replicas : \/ RunLoop(r)
                              \/ ExecutesSome(r)
                              \/ \E id \in InstanceIds : StartRecovery(r, id)
                              \/ Stop(r)
    BY <1>1 DEF CommitNext
  <2>2. CASE RunLoop(r)
    <3>1. CASE HandlePropose(r)
      BY <3>1, HandleProposeTypes
    <3>2. ASSUME NEW m \in msgs, m.to = r, Receive(r, m) PROVE TypeOK'
      BY <3>2, HandlePreAcceptTypes, HandlePreAcceptReplyTypes, HandleAcceptTypes, HandleAcceptReplyTypes,
         HandleCommitTypes, HandlePrepareTypes, HandlePrepareReplyTypes DEF Receive
    <3> QED
      BY <2>2, <3>1, <3>2 DEF RunLoop
  <2> QED
    BY <2>1, <2>2, ExecutesSomeTypes, StartRecoveryTypes, StopTypes
<1>2. CASE UNCHANGED commitVars
  BY <1>2 DEF commitVars, attrVars, rowVars, ctrlVars, TypeOK
<1> QED
  BY <1>1, <1>2

\* Whatever fails and whoever recovers what: an instance that has a status has commands, so
\* none of the handlers reads attributes that are not there.
THEOREM TypeCorrect == CommitSpec => []TypeOK
<1>1. CommitInit => TypeOK
  BY InitTypes
<1>2. TypeOK /\ [CommitNext]_commitVars => TypeOK'
  BY StepTypes
<1> QED
  BY <1>1, <1>2, PTL DEF CommitSpec

(***************************************************************************)
(* What holds of an instance v that nobody has recovered.  Only its leader *)
(* gets replies about it, so that all there is to know is in the leader's  *)
(* bookkeeping, which stays as it is once the instance is committed.       *)
(***************************************************************************)
Own(v) == lbs[v[1]][v]

SameAttributes(i, b) == i.cmds = b.cmds /\ i.seq = b.seq /\ i.deps = b.deps

\* Of the leader: an instance that it has not proposed is not in its bookkeeping, and what it
\* accepts or commits is what the bookkeeping says.
LeaderInv(v) ==
  /\ v[2] > crtInstance[v[1]][v[1]] => Own(v).status = NONE
  /\ Own(v).status = NONE => Own(v) = NoLB
  /\ Own(v).status <= COMMITTED
  /\ Own(v).status >= ACCEPTED => SameAttributes(instanceSpace[v[1]][v], Own(v))
  /\ instanceSpace[v[1]][v].status >= COMMITTED => Own(v).status = COMMITTED

\* Of another replica r: it never accepts, and what it commits is what the leader has committed.
OtherInv(v, r) ==
  /\ instanceSpace[r][v].status # ACCEPTED
  /\ instanceSpace[r][v].status >= COMMITTED =>
       Own(v).status = COMMITTED /\ SameAttributes(instanceSpace[r][v], Own(v))

\* Of a message about v.
MessageInv(v, m) ==
  /\ Own(v).status # NONE
  /\ \/ m.type \in {"preAccept", "accept", "commit"} /\ m.from = v[1]
     \/ m.type \in {"preAcceptReply", "acceptReply"} /\ m.to = v[1]
  /\ m.type = "preAccept" => m.cmds = Own(v).cmds /\ m.ballot = v[1]
  /\ m.type = "commit" => Own(v).status = COMMITTED /\ SameAttributes(m, Own(v))
  /\ m.type = "preAcceptReply" /\ m.status >= ACCEPTED => Own(v).status = COMMITTED
  /\ m.type = "preAcceptReply" /\ m.status < ACCEPTED => m.vbal = v[1]

InstanceInv(v) ==
  /\ LeaderInv(v)
  /\ \A r \in Replicas \ {v[1]} : OtherInv(v, r)
  /\ \A m \in msgs : m.id = v => MessageInv(v, m)

AgreementInv == TypeOK /\ \A v \in InstanceIds : Unrecovered(v) => InstanceInv(v)

\* One write of replica r, to instance id.
Writes(r, id, i, b) ==
  \A x \in Replicas, v \in InstanceIds :
    /\ instanceSpace'[x][v] = IF x = r /\ v = id THEN i ELSE instanceSpace[x][v]
    /\ lbs'[x][v] = IF x = r /\ v = id THEN b ELSE lbs[x][v]

LEMMA WritesBoth ==
  ASSUME TypeOK, NEW r \in Replicas, NEW id \in InstanceIds, NEW i, NEW b,
         instanceSpace' = [instanceSpace EXCEPT ![r][id] = i],
         lbs' = [lbs EXCEPT ![r][id] = b]
  PROVE  Writes(r, id, i, b)
<1>1. instanceSpace' = [instanceSpace EXCEPT ![r] = [instanceSpace[r] EXCEPT ![id] = i]]
      /\ lbs' = [lbs EXCEPT ![r] = [lbs[r] EXCEPT ![id] = b]]
  OBVIOUS
<1> QED
  BY <1>1 DEF TypeOK, Writes

LEMMA WritesInstance ==
  ASSUME TypeOK, NEW r \in Replicas, NEW id \in InstanceIds, NEW i,
         instanceSpace' = [instanceSpace EXCEPT ![r][id] = i], lbs' = lbs
  PROVE  Writes(r, id, i, lbs[r][id])
<1>1. lbs' = [lbs EXCEPT ![r][id] = lbs[r][id]]
  BY DEF TypeOK
<1> QED
  BY <1>1, WritesBoth

LEMMA WritesLB ==
  ASSUME TypeOK, NEW r \in Replicas, NEW id \in InstanceIds, NEW b,
         lbs' = [lbs EXCEPT ![r][id] = b], instanceSpace' = instanceSpace
  PROVE  Writes(r, id, instanceSpace[r][id], b)
<1>1. instanceSpace' = [instanceSpace EXCEPT ![r][id] = instanceSpace[r][id]]
  BY DEF TypeOK
<1> QED
  BY <1>1, WritesBoth

LEMMA WritesNothing ==
  ASSUME TypeOK, NEW r \in Replicas, NEW id \in InstanceIds, UNCHANGED <<instanceSpace, lbs>>
  PROVE  Writes(r, id, instanceSpace[r][id], lbs[r][id])
BY DEF Writes

\* What a step on another instance leaves of v.
Kept(v) ==
  /\ Own(v)' = Own(v)
  /\ \A m \in msgs' : m.id = v => m \in msgs
  /\ \A x \in Replicas :
       /\ SameAttributes(instanceSpace'[x][v], instanceSpace[x][v])
       /\ \/ instanceSpace'[x][v].status = instanceSpace[x][v].status
          \/ instanceSpace[x][v].status = COMMITTED /\ instanceSpace'[x][v].status = EXECUTED

KeptBut(id) == \A v \in InstanceIds \ {id} : Kept(v)

LEMMA WriteKeeps ==
  ASSUME NEW r \in Replicas, NEW id \in InstanceIds, NEW i, NEW b, Writes(r, id, i, b),
         \A m \in msgs' : m \in msgs \/ m.id = id
  PROVE  KeptBut(id)
BY DEF Writes, KeptBut, Kept, Own, SameAttributes, InstanceIds

\* What is known of the instances and of the conflicts only grows.
Grows ==
  /\ \A x, q \in Replicas : crtInstance'[x][q] >= crtInstance[x][q]
  /\ \A x, q \in Replicas, k \in Keys :
       /\ conflicts'[x][q][k].last >= conflicts[x][q][k].last
       /\ conflicts'[x][q][k].lastWrite >= conflicts[x][q][k].lastWrite

LEMMA RowsStay == TypeOK /\ UNCHANGED crtInstance => \A x, q \in Replicas : crtInstance'[x][q] >= crtInstance[x][q]
<1> SUFFICES ASSUME TypeOK, UNCHANGED crtInstance, NEW x \in Replicas, NEW q \in Replicas
             PROVE  crtInstance'[x][q] >= crtInstance[x][q]
  OBVIOUS
<1>1. crtInstance[x][q] \in Int
  BY SizeFacts DEF TypeOK, Deps
<1> QED
  BY <1>1

LEMMA ConflictsStay ==
  ASSUME TypeOK, UNCHANGED conflicts
  PROVE  \A x, q \in Replicas, k \in Keys :
           /\ conflicts'[x][q][k].last >= conflicts[x][q][k].last
           /\ conflicts'[x][q][k].lastWrite >= conflicts[x][q][k].lastWrite
<1> SUFFICES ASSUME NEW x \in Replicas, NEW q \in Replicas, NEW k \in Keys
             PROVE  /\ conflicts[x][q][k].last >= conflicts[x][q][k].last
                    /\ conflicts[x][q][k].lastWrite >= conflicts[x][q][k].lastWrite
  OBVIOUS
<1>1. conflicts[x][q][k].last \in Int /\ conflicts[x][q][k].lastWrite \in Int
  BY SizeFacts DEF TypeOK, Conflict
<1> QED
  BY <1>1

(***************************************************************************)
(* What each handler does to its instance.                                 *)
(***************************************************************************)
\* A message that comes too late is taken and nothing else.
Ignores(r, m) == Writes(r, m.id, instanceSpace[r][m.id], lbs[r][m.id]) /\ msgs' \subseteq msgs \ {m}

AsPreAccept(m, id, b) ==
  /\ m.type = "preAccept" /\ m.from = id[1] /\ m.to \in Replicas \ {id[1]} /\ m.id = id
  /\ m.ballot = id[1] /\ m.cmds = b.cmds /\ m.deps = b.deps

Proposes(id, i, b) ==
  /\ id[2] = crtInstance[id[1]][id[1]] + 1 /\ crtInstance'[id[1]][id[1]] >= id[2]
  /\ Writes(id[1], id, i, b) /\ i.status = PREACCEPTED
  /\ b \in LeaderBookkeeping /\ b.status = PREACCEPTED /\ b.cmds \in Batches
  /\ b.ballot = -1 /\ b.preAcceptOKs = 0
  /\ b.deps = UpdateAttributes(instanceSpace[id[1]], id[1], b.cmds, 0, NoDeps, id[1]).deps
  /\ \A m \in msgs' : m \in msgs \/ AsPreAccept(m, id, b)
  /\ \A m, n \in msgs' : AsPreAccept(m, id, b) /\ AsPreAccept(n, id, b) /\ m.to = n.to => m \in msgs \/ n \in msgs \/ m = n
  /\ \E seq \in Numbers : UpdateConflicts(id[1], b.cmds, id, seq)

LEMMA ProposeEffect ==
  ASSUME TypeOK, NEW r \in Replicas, HandlePropose(r)
  PROVE  /\ Grows
         /\ \E id \in InstanceIds, i \in Instance, b \in LeaderBookkeeping : id[1] = r /\ Proposes(id, i, b)
<1> DEFINE id == <<r, crtInstance[r][r] + 1>>
<1>1. id \in InstanceIds /\ crtInstance[r][r] \in Int
  <2>1. crtInstance[r][r] \in -1 .. MaxInstance
    BY DEF TypeOK, Deps
  <2> QED
    BY <2>1, SizeFacts DEF HandlePropose, MayPropose, InstanceIds
<1>2. PICK taken \in SUBSET proposeChan[r] : \E batch \in SetToSeqs(taken) :
        /\ taken # {} /\ Cardinality(taken) <= MaxBatch
        /\ proposeChan' = [proposeChan EXCEPT ![r] = @ \ taken]
        /\ StartPhase1(instanceSpace[r], r, batch, id, r, taken, {})
  BY DEF HandlePropose
<1>3. PICK cmds \in SetToSeqs(taken) :
        /\ taken # {} /\ Cardinality(taken) <= MaxBatch
        /\ proposeChan' = [proposeChan EXCEPT ![r] = @ \ taken]
        /\ StartPhase1(instanceSpace[r], r, cmds, id, r, taken, {})
  BY <1>2
<1>4. taken \in SUBSET Commands
  BY DEF TypeOK
<1>5. cmds \in Batches
  BY <1>3, <1>4, BatchOf
<1>6. r \in Numbers /\ Learns(r, id) /\ NoDeps \in Deps /\ 0 \in Numbers /\ -1 \in Numbers
      /\ id[1] = r /\ id[2] = crtInstance[r][r] + 1
  BY SizeFacts DEF Numbers, HandlePropose, NoDeps, Deps
<1> HIDE DEF id
<1> DEFINE a == UpdateAttributes(instanceSpace[r], r, cmds, 0, NoDeps, r)
           i == [cmds |-> cmds, bal |-> r, vbal |-> r, status |-> PREACCEPTED,
                 seq |-> a.seq, deps |-> a.deps]
           b == NewLB(taken, a.deps, r, cmds, PREACCEPTED, -1)
           Q == Peers(r, FastQuorumSize - 1)
           P == PreAcceptTo(Q, r, id, r, cmds, -1, a.deps)
<1>7. a.seq \in Numbers /\ a.deps \in Deps
  BY <1>5, <1>6, KnownSeq, UpdateAttributesFacts
<1>8. /\ instanceSpace' = [instanceSpace EXCEPT ![r][id] = i]
      /\ lbs' = [lbs EXCEPT ![r][id] = b]
      /\ UpdateConflicts(r, cmds, id, a.seq)
      /\ msgs' = msgs \cup P
  BY <1>3, <1>6 DEF StartPhase1
<1> HIDE DEF a
<1>9. i \in Instance /\ i.status = PREACCEPTED
  BY <1>5, <1>6, <1>7, BatchFacts, Statuses DEF Instance
<1>10. b \in LeaderBookkeeping
  <2>1. PREACCEPTED \in 0 .. 5 /\ cmds \in {Nil} \cup Batches /\ cmds # Nil
    BY <1>5, BatchFacts, Statuses
  <2> HIDE DEF i, P
  <2> QED
    BY <1>4, <1>6, <1>7, <2>1, NewLBType
<1>11. b.status = PREACCEPTED /\ b.cmds = cmds /\ b.ballot = -1 /\ b.preAcceptOKs = 0 /\ b.deps = a.deps
  BY DEF NewLB
<1>12. Q \in SUBSET (Replicas \ {r})
  BY PeersFacts
<1> HIDE DEF i, b, Q
<1>13. Writes(r, id, i, b)
  BY <1>1, <1>8, WritesBoth
<1>14. \A m \in P : /\ AsPreAccept(m, id, b)
                    /\ m = [type |-> "preAccept", from |-> r, to |-> m.to, id |-> id, ballot |-> r,
                            cmds |-> cmds, seq |-> -1, deps |-> a.deps]
  BY <1>1, <1>5, <1>6, <1>7, <1>11, <1>12, PreAcceptSent DEF AsPreAccept
<1> HIDE DEF P
<1>15. Grows /\ crtInstance'[r][r] >= id[2]
  BY <1>1, <1>5, <1>6, <1>7, <1>8, LearnsType, UpdateConflictsFacts DEF Grows
<1>16. /\ \A m \in msgs' : m \in msgs \/ AsPreAccept(m, id, b)
       /\ \A m, n \in msgs' : AsPreAccept(m, id, b) /\ AsPreAccept(n, id, b) /\ m.to = n.to => m \in msgs \/ n \in msgs \/ m = n
  <2>1. \A m \in msgs' : m \in msgs \/ m \in P
    BY <1>8
  <2> QED
    BY <1>14, <2>1
<1>17. Proposes(id, i, b)
  BY <1>5, <1>6, <1>7, <1>8, <1>9, <1>10, <1>11, <1>13, <1>15, <1>16 DEF Proposes, a
<1> QED
  BY <1>1, <1>6, <1>9, <1>10, <1>15, <1>17

\* A reply to a PreAccept of an instance that is accepted or committed.
AnswersLate(r, m, j, n) ==
  /\ instanceSpace[r][m.id].status >= ACCEPTED
  /\ Writes(r, m.id, j, lbs[r][m.id])
  /\ SameAttributes(j, instanceSpace[r][m.id]) /\ j.status = instanceSpace[r][m.id].status
  /\ msgs' \subseteq (msgs \ {m}) \cup {n}
  /\ n.type = "preAcceptReply" /\ n.from = r /\ n.to = m.from /\ n.id = m.id /\ n.status = j.status

PreAccepts(r, m, j, n) ==
  /\ instanceSpace[r][m.id].status < ACCEPTED
  /\ Writes(r, m.id, j, lbs[r][m.id])
  /\ j.status \in {PREACCEPTED, PREACCEPTED_EQ}
  /\ UpdateConflicts(r, m.cmds, m.id, m.seq)
  /\ msgs' \subseteq (msgs \ {m}) \cup {n}
  /\ n.type = "preAcceptReply" /\ n.from = r /\ n.to = m.from /\ n.id = m.id /\ n.status = j.status
  /\ n.vbal = m.ballot /\ n.deps = UpdateAttributes(instanceSpace[r], r, m.cmds, m.seq, m.deps, m.id[1]).deps

LEMMA PreAcceptEffect ==
  ASSUME TypeOK, NEW r \in Replicas, NEW m \in msgs, m.to = r, HandlePreAccept(r, m)
  PROVE  /\ Grows /\ m.id \in InstanceIds /\ m.type = "preAccept"
         /\ Ignores(r, m) \/ \E j, n : AnswersLate(r, m, j, n) \/ PreAccepts(r, m, j, n)
<1> DEFINE i == instanceSpace[r][m.id]
           j == IF i.status >= ACCEPTED THEN [i EXCEPT !.bal = m.ballot] ELSE PreAccepted(r, m)
           reply == [type |-> "preAcceptReply", from |-> r, to |-> m.from, id |-> m.id,
                     ballot |-> j.bal, vbal |-> j.vbal, seq |-> j.seq, deps |-> j.deps, status |-> j.status]
<1>1. /\ m \in Message /\ m.type = "preAccept" /\ m.from # m.to
      /\ m.from \in Replicas /\ m.id \in InstanceIds /\ m.id[1] \in Replicas /\ m.ballot \in Numbers
      /\ m.cmds \in Batches /\ m.seq \in Numbers /\ m.deps \in Deps
  BY MessageFields DEF TypeOK, HandlePreAccept, InstanceIds
<1>2. i \in Instance /\ i.status \in 0 .. 5 /\ i.bal \in Int /\ m.ballot \in Int
  BY <1>1, InstanceFields DEF TypeOK, Numbers
<1>3. \A x, q \in Replicas : crtInstance'[x][q] >= crtInstance[x][q]
  BY <1>1, LearnsType DEF HandlePreAccept
<1>4. lbs' = lbs
  BY DEF HandlePreAccept
<1>5. CASE m.ballot < i.bal
  <2>1. msgs' \subseteq msgs \ {m} /\ UNCHANGED <<instanceSpace, attrVars>>
    BY <1>5 DEF HandlePreAccept
  <2>2. Grows
    BY <1>3, <2>1, ConflictsStay DEF Grows, attrVars
  <2>3. Ignores(r, m)
    BY <1>1, <1>4, <2>1, WritesNothing DEF Ignores
  <2> QED
    BY <1>1, <2>2, <2>3
<1>6. CASE ~(m.ballot < i.bal)
  <2>1. /\ instanceSpace' = [instanceSpace EXCEPT ![r][m.id] = j]
        /\ IF i.status >= ACCEPTED THEN UNCHANGED attrVars ELSE UpdateConflicts(r, m.cmds, m.id, m.seq)
        /\ msgs' = (msgs \ {m}) \cup ReplyTo(m, reply)
    BY <1>6 DEF HandlePreAccept
  <2>2. /\ reply.type = "preAcceptReply" /\ reply.from = r /\ reply.to = m.from /\ reply.id = m.id
        /\ reply.status = j.status /\ reply.vbal = j.vbal /\ reply.deps = j.deps
    OBVIOUS
  <2>3. Grows
    BY <1>1, <1>3, <2>1, ConflictsStay, UpdateConflictsFacts DEF Grows, attrVars
  <2>4. CASE i.status >= ACCEPTED
    <3>1. j = [i EXCEPT !.bal = m.ballot]
      BY <2>4
    <3>2. SameAttributes(j, i) /\ j.status = i.status
      BY <1>2, <3>1 DEF Instance, SameAttributes
    <3> HIDE DEF j, reply
    <3>3. Writes(r, m.id, j, lbs[r][m.id])
      BY <1>1, <1>4, <2>1, WritesInstance
    <3>4. msgs' \subseteq (msgs \ {m}) \cup {reply}
      BY <2>1 DEF ReplyTo
    <3>5. AnswersLate(r, m, j, reply)
      BY <2>2, <2>4, <3>2, <3>3, <3>4 DEF AnswersLate
    <3> QED
      BY <1>1, <2>3, <3>5
  <2>5. CASE ~(i.status >= ACCEPTED)
    <3> DEFINE a == UpdateAttributes(instanceSpace[r], r, m.cmds, m.seq, m.deps, m.id[1])
               s == IF a.changed THEN PREACCEPTED ELSE PREACCEPTED_EQ
    <3>1. j = [cmds |-> m.cmds, bal |-> m.ballot, vbal |-> m.ballot, status |-> s, seq |-> a.seq, deps |-> a.deps]
      BY <2>5 DEF PreAccepted
    <3>2. s \in {PREACCEPTED, PREACCEPTED_EQ}
      OBVIOUS
    <3> HIDE DEF j, reply, a, s
    <3>3. j.status \in {PREACCEPTED, PREACCEPTED_EQ} /\ j.vbal = m.ballot /\ j.deps = a.deps
      BY <3>1, <3>2
    <3>4. Writes(r, m.id, j, lbs[r][m.id])
      BY <1>1, <1>4, <2>1, WritesInstance
    <3>5. msgs' \subseteq (msgs \ {m}) \cup {reply}
      BY <2>1 DEF ReplyTo
    <3>6. i.status < ACCEPTED
      BY <1>2, <2>5, Statuses
    <3>7. UpdateConflicts(r, m.cmds, m.id, m.seq)
      BY <2>1, <2>5
    <3>8. PreAccepts(r, m, j, reply)
      BY <2>2, <3>3, <3>4, <3>5, <3>6, <3>7 DEF PreAccepts, a
    <3> QED
      BY <1>1, <2>3, <3>8
  <2> QED
    BY <2>4, <2>5
<1> QED
  BY <1>5, <1>6

\* A reply is counted in the bookkeeping b: it becomes c.
Adds(r, m, b, c) ==
  /\ b.status \in {PREACCEPTED, PREACCEPTED_EQ}
  /\ c \in LeaderBookkeeping /\ c.cmds = b.cmds /\ c.preAcceptOKs = b.preAcceptOKs + 1
  /\ c.ballot = (IF m.vbal > b.ballot THEN m.vbal ELSE b.ballot)
  /\ m.status < ACCEPTED =>
       \A q \in Replicas : /\ c.deps[q] >= IF m.vbal > b.ballot THEN m.deps[q] ELSE b.deps[q]
                           /\ q # r => c.deps[q] >= m.deps[q]

\* The leader goes on counting, or accepts or commits.
AddsOnly(r, m, b, c) ==
  /\ Adds(r, m, b, c) /\ (m.status < ACCEPTED => c.status \in {PREACCEPTED, PREACCEPTED_EQ})
  /\ Writes(r, m.id, instanceSpace[r][m.id], c) /\ msgs' \subseteq msgs \ {m}

AsDecision(x, r, id, c) ==
  /\ x.from = r /\ x.to # r /\ x.id = id
  /\ \/ x.type = "accept"
     \/ x.type = "commit" /\ c.status = COMMITTED /\ SameAttributes(x, c)

AddsLast(r, m, b, c, j) ==
  /\ Adds(r, m, b, c) /\ c.status \in {ACCEPTED, COMMITTED} /\ c.preAcceptOKs >= FastQuorumSize - 1
  /\ Writes(r, m.id, j, c) /\ j.status = c.status /\ SameAttributes(j, c)
  /\ \A x \in msgs' : x \in msgs \ {m} \/ AsDecision(x, r, m.id, c)

LEMMA PreAcceptReplyEffects ==
  ASSUME TypeOK, NEW r \in Replicas, NEW m \in msgs, m.to = r, HandlePreAcceptReply(r, m)
  PROVE  /\ Grows /\ m.id \in InstanceIds /\ m.type = "preAcceptReply"
         /\ \/ Ignores(r, m)
            \/ \E c : AddsOnly(r, m, lbs[r][m.id], c)
            \/ \E c, j : AddsLast(r, m, lbs[r][m.id], c, j)
<1> DEFINE b == lbs[r][m.id]
           c == WithPreAcceptReply(r, b, m)
           i == instanceSpace[r][m.id]
<1>1. /\ m \in Message /\ m.type = "preAcceptReply" /\ m.from # m.to
      /\ m.from \in Replicas /\ m.id \in InstanceIds /\ m.status \in 1 .. 5
  BY MessageFields DEF TypeOK, HandlePreAcceptReply
<1>2. b \in LeaderBookkeeping /\ i \in Instance
  BY <1>1 DEF TypeOK
<1>3. Grows
  BY RowsStay, ConflictsStay DEF HandlePreAcceptReply, Grows, attrVars, rowVars
<1>4. CASE b.lastTriedBallot # m.ballot \/ b.status \notin {PREACCEPTED, PREACCEPTED_EQ}
  <2>1. msgs' \subseteq msgs \ {m} /\ UNCHANGED <<instanceSpace, lbs>>
    BY <1>4 DEF HandlePreAcceptReply
  <2> QED
    BY <1>1, <1>3, <2>1, WritesNothing DEF Ignores
<1>5. CASE ~(b.lastTriedBallot # m.ballot \/ b.status \notin {PREACCEPTED, PREACCEPTED_EQ})
  <2>1. b.status \in {1, 2} /\ b.lastTriedBallot = m.ballot
    BY <1>5, Statuses
  <2>2. /\ c \in LeaderBookkeeping /\ c.cmds # Nil
        /\ c.cmds = b.cmds /\ c.preAcceptOKs = b.preAcceptOKs + 1
        /\ c.ballot = (IF m.vbal > b.ballot THEN m.vbal ELSE b.ballot)
        /\ c.status = (IF m.vbal > b.ballot THEN m.status ELSE b.status)
        /\ c.status \in {1, 2} =>
              \A q \in Replicas : /\ c.deps[q] >= IF m.vbal > b.ballot THEN m.deps[q] ELSE b.deps[q]
                                  /\ q # r => c.deps[q] >= m.deps[q]
    BY <1>1, <1>2, <2>1, WithReplyFacts
  <2>3. CountsOn(r, m, c) \/ Decides(r, m, c, ACCEPTED) \/ Decides(r, m, c, COMMITTED)
    BY <2>1, PreAcceptReplyEffect
  <2> HIDE DEF c
  <2>4. m.status < ACCEPTED => c.status \in {1, 2}
    BY <1>1, <2>1, <2>2, Statuses
  <2>5. Adds(r, m, b, c)
    BY <2>1, <2>2, <2>4, Statuses DEF Adds
  <2>6. CASE CountsOn(r, m, c)
    <3>1. Writes(r, m.id, i, c)
      BY <1>1, <2>6, WritesLB DEF CountsOn
    <3>2. AddsOnly(r, m, b, c)
      BY <2>4, <2>5, <2>6, <3>1, Statuses DEF AddsOnly, CountsOn
    <3> QED
      BY <1>1, <1>3, <2>2, <3>2
  <2>7. ASSUME NEW s, s = ACCEPTED \/ s = COMMITTED, Decides(r, m, c, s)
        PROVE  \E d, j : AddsLast(r, m, b, d, j)
    <3> DEFINE d == [c EXCEPT !.status = s]
               j == DecidedAt(i, c, s)
    <3>1. s \in 0 .. 5
      BY <2>7, Statuses
    <3>2. /\ d \in LeaderBookkeeping /\ d.status = s /\ d.cmds = c.cmds /\ d.seq = c.seq /\ d.deps = c.deps
          /\ d.preAcceptOKs = c.preAcceptOKs /\ d.ballot = c.ballot
      BY <2>2, <3>1, LBStatus
    <3>3. j.status = s /\ j.cmds = c.cmds /\ j.seq = c.seq /\ j.deps = c.deps
      BY <1>2, <2>2, <2>7, LeaderInstance
    <3>4. /\ lbs' = [lbs EXCEPT ![r][m.id] = d] /\ instanceSpace' = [instanceSpace EXCEPT ![r][m.id] = j]
          /\ msgs' = (msgs \ {m}) \cup Announces(r, m.id, c, s) /\ ~(c.preAcceptOKs < FastQuorumSize - 1)
      BY <2>7 DEF Decides
    <3> HIDE DEF d, j
    <3>5. \A x \in Announces(r, m.id, c, s) : AsDecision(x, r, m.id, d)
      <4>1. \A x \in Announces(r, m.id, c, s) :
              /\ x.from = r /\ x.to # r /\ x.id = m.id
              /\ s = ACCEPTED => x.type = "accept"
              /\ s = COMMITTED => x.type = "commit" /\ x.cmds = c.cmds /\ x.seq = c.seq /\ x.deps = c.deps
        BY <1>1, <2>2, <2>7, AnnouncesFacts
      <4> QED
        BY <2>7, <3>2, <4>1 DEF AsDecision, SameAttributes
    <3>6. Writes(r, m.id, j, d)
      BY <1>1, <3>4, WritesBoth
    <3>7. Adds(r, m, b, d)
      BY <2>5, <3>2 DEF Adds
    <3>8. FastQuorumSize \in Int /\ c.preAcceptOKs \in Int
      BY <2>2, LBFields, SizeFacts DEF FastQuorumSize, FailuresTolerated
    <3>9. d.preAcceptOKs >= FastQuorumSize - 1
      BY <3>2, <3>4, <3>8
    <3>10. AddsLast(r, m, b, d, j)
      BY <2>7, <3>2, <3>3, <3>4, <3>5, <3>6, <3>7, <3>9 DEF AddsLast, SameAttributes
    <3> QED
      BY <3>2, <3>10
  <2> QED
    BY <1>1, <1>3, <2>3, <2>6, <2>7
<1> QED
  BY <1>4, <1>5

\* An Accept changes the attributes of an instance that is not committed.
TakesAccept(r, m, j, n) ==
  /\ Writes(r, m.id, j, lbs[r][m.id])
  /\ j.status = instanceSpace[r][m.id].status
  /\ j.status >= COMMITTED => SameAttributes(j, instanceSpace[r][m.id])
  /\ msgs' \subseteq (msgs \ {m}) \cup {n}
  /\ n.type = "acceptReply" /\ n.to = m.from /\ n.id = m.id

LEMMA AcceptEffect ==
  ASSUME TypeOK, NEW r \in Replicas, NEW m \in msgs, m.to = r, HandleAccept(r, m)
  PROVE  /\ Grows /\ m.id \in InstanceIds /\ m.type = "accept"
         /\ \E j, n : TakesAccept(r, m, j, n)
<1> DEFINE i == instanceSpace[r][m.id]
           j == IF m.ballot < i.bal \/ i.status >= COMMITTED THEN i
                ELSE [i EXCEPT !.deps = m.deps, !.seq = m.seq, !.bal = m.ballot, !.vbal = m.ballot]
           n == [type |-> "acceptReply", from |-> r, to |-> m.from, id |-> m.id, ballot |-> j.bal]
<1>1. m \in Message /\ m.type = "accept" /\ m.id \in InstanceIds /\ m.id[1] \in Replicas
  BY MessageFields DEF TypeOK, HandleAccept, InstanceIds
<1>2. i \in Instance
  BY <1>1 DEF TypeOK
<1>3. Grows
  BY <1>1, LearnsType, ConflictsStay DEF HandleAccept, Grows, attrVars
<1>4. /\ UNCHANGED lbs /\ instanceSpace' = [instanceSpace EXCEPT ![r][m.id] = j]
      /\ msgs' = (msgs \ {m}) \cup ReplyTo(m, n)
  BY DEF HandleAccept
<1>5. j.status = i.status /\ (j.status >= COMMITTED => SameAttributes(j, i))
  BY <1>2 DEF Instance, SameAttributes
<1>6. n.type = "acceptReply" /\ n.to = m.from /\ n.id = m.id
  OBVIOUS
<1> HIDE DEF j, n
<1>7. Writes(r, m.id, j, lbs[r][m.id])
  BY <1>1, <1>4, WritesInstance
<1>8. msgs' \subseteq (msgs \ {m}) \cup {n}
  BY <1>4 DEF ReplyTo
<1>9. TakesAccept(r, m, j, n)
  BY <1>5, <1>6, <1>7, <1>8 DEF TakesAccept
<1> QED
  BY <1>1, <1>3, <1>9

\* An AcceptReply is counted, and at a majority the instance is committed as it is.
CountsAccept(r, m, b, c, j) ==
  /\ b.status = ACCEPTED /\ c.status \in {ACCEPTED, COMMITTED}
  /\ c.cmds = b.cmds /\ c.seq = b.seq /\ c.deps = b.deps
  /\ c.preAcceptOKs = b.preAcceptOKs /\ c.ballot = b.ballot
  /\ Writes(r, m.id, j, c) /\ SameAttributes(j, instanceSpace[r][m.id])
  /\ \/ j.status = instanceSpace[r][m.id].status
     \/ j.status = COMMITTED /\ c.status = COMMITTED
  /\ \A x \in msgs' : x \in msgs \ {m} \/ AsDecision(x, r, m.id, c)

LEMMA AcceptReplyEffect ==
  ASSUME TypeOK, NEW r \in Replicas, NEW m \in msgs, m.to = r, HandleAcceptReply(r, m)
  PROVE  /\ Grows /\ m.id \in InstanceIds /\ m.type = "acceptReply"
         /\ Ignores(r, m) \/ \E c, j : CountsAccept(r, m, lbs[r][m.id], c, j)
<1> DEFINE b == lbs[r][m.id]
           c == [b EXCEPT !.acceptOKs = @ + 1]
           d == [c EXCEPT !.status = COMMITTED]
           i == instanceSpace[r][m.id]
           j == [i EXCEPT !.status = COMMITTED]
           S == CommitTo(Peers(r, N - 1), r, m.id, c)
<1>1. m \in Message /\ m.type = "acceptReply" /\ m.id \in InstanceIds /\ m.id[1] \in Replicas
  BY MessageFields DEF TypeOK, HandleAcceptReply, InstanceIds
<1>2. b \in LeaderBookkeeping /\ i \in Instance
  BY <1>1 DEF TypeOK
<1>3. Grows
  BY RowsStay, ConflictsStay DEF HandleAcceptReply, Grows, attrVars, rowVars
<1>4. CASE b.status # ACCEPTED \/ b.lastTriedBallot # m.ballot
  <2>1. msgs' \subseteq msgs \ {m} /\ UNCHANGED <<instanceSpace, lbs>>
    BY <1>4 DEF HandleAcceptReply
  <2> QED
    BY <1>1, <1>3, <2>1, WritesNothing DEF Ignores
<1>5. CASE ~(b.status # ACCEPTED \/ b.lastTriedBallot # m.ballot)
  <2>1. IF c.acceptOKs + 1 > N \div 2
        THEN /\ lbs' = [lbs EXCEPT ![r][m.id] = d]
             /\ instanceSpace' = [instanceSpace EXCEPT ![r][m.id].status = COMMITTED]
             /\ msgs' = (msgs \ {m}) \cup S
        ELSE /\ lbs' = [lbs EXCEPT ![r][m.id] = c]
             /\ msgs' = msgs \ {m} /\ UNCHANGED instanceSpace
    BY <1>5 DEF HandleAcceptReply
  <2>2. /\ c.status = b.status /\ c.cmds = b.cmds /\ c.seq = b.seq /\ c.deps = b.deps
        /\ c.preAcceptOKs = b.preAcceptOKs /\ c.ballot = b.ballot /\ b.status = ACCEPTED
        /\ d.status = COMMITTED /\ d.cmds = b.cmds /\ d.seq = b.seq /\ d.deps = b.deps
        /\ d.preAcceptOKs = b.preAcceptOKs /\ d.ballot = b.ballot
    BY <1>2, <1>5 DEF LeaderBookkeeping
  <2>3. SameAttributes(j, i) /\ j.status = COMMITTED /\ SameAttributes(i, i)
    BY <1>2 DEF Instance, SameAttributes
  <2> HIDE DEF c
  <2>4. CASE c.acceptOKs + 1 > N \div 2
    <3>1. lbs' = [lbs EXCEPT ![r][m.id] = d] /\ instanceSpace' = [instanceSpace EXCEPT ![r][m.id] = j]
          /\ msgs' = (msgs \ {m}) \cup S
      <4>1. instanceSpace' = [instanceSpace EXCEPT ![r][m.id].status = COMMITTED]
        BY <2>1, <2>4
      <4> QED
        BY <2>1, <2>4, <4>1
    <3>2. \A x \in S : AsDecision(x, r, m.id, d)
      <4>1. Peers(r, N - 1) \in SUBSET (Replicas \ {r})
        BY PeersFacts
      <4>2. ASSUME NEW x \in S
            PROVE  x.from = r /\ x.to # r /\ x.id = m.id /\ x.type = "commit"
                   /\ x.cmds = c.cmds /\ x.seq = c.seq /\ x.deps = c.deps
        <5>1. PICK q \in Peers(r, N - 1) :
                x = [type |-> "commit", from |-> r, to |-> q, id |-> m.id, ballot |-> c.ballot,
                     cmds |-> c.cmds, seq |-> c.seq, deps |-> c.deps]
          BY DEF CommitTo
        <5>2. q # r
          BY <4>1
        <5> QED
          BY <5>1, <5>2
      <4> QED
        BY <2>2, <4>2 DEF AsDecision, SameAttributes
    <3> HIDE DEF d, j, S
    <3>3. Writes(r, m.id, j, d)
      BY <1>1, <3>1, WritesBoth
    <3>4. CountsAccept(r, m, b, d, j)
      BY <2>2, <2>3, <3>1, <3>2, <3>3 DEF CountsAccept
    <3> QED
      BY <1>1, <1>3, <3>4
  <2>5. CASE ~(c.acceptOKs + 1 > N \div 2)
    <3>1. Writes(r, m.id, i, c)
      BY <1>1, <2>1, <2>5, WritesLB
    <3>2. CountsAccept(r, m, b, c, i)
      BY <2>1, <2>2, <2>3, <2>5, <3>1 DEF CountsAccept
    <3> QED
      BY <1>1, <1>3, <3>2
  <2> QED
    BY <2>4, <2>5
<1> QED
  BY <1>4, <1>5

TakesCommit(r, m, j, b) ==
  /\ Writes(r, m.id, j, b) /\ j.status = COMMITTED /\ SameAttributes(j, m) /\ msgs' \subseteq msgs \ {m}

LEMMA CommitEffect ==
  ASSUME TypeOK, NEW r \in Replicas, NEW m \in msgs, m.to = r, HandleCommit(r, m)
  PROVE  /\ Grows /\ m.id \in InstanceIds /\ m.type = "commit"
         /\ Ignores(r, m) \/ \E j, b : TakesCommit(r, m, j, b)
<1> DEFINE i == instanceSpace[r][m.id]
           j == [cmds |-> m.cmds, bal |-> m.ballot, vbal |-> m.ballot, status |-> COMMITTED,
                 seq |-> m.seq, deps |-> m.deps]
           b == lbs[r][m.id]
           d == [b EXCEPT !.proposals = {}]
           again == IF m.id[1] = r /\ m.cmds = <<Noop>> THEN lbs[r][m.id].proposals ELSE {}
<1>1. /\ m \in Message /\ m.type = "commit" /\ m.id \in InstanceIds /\ m.id[1] \in Replicas
      /\ m.cmds \in Batches /\ m.seq \in Numbers
  BY MessageFields DEF TypeOK, HandleCommit, InstanceIds
<1>2. \A x, q \in Replicas : crtInstance'[x][q] >= crtInstance[x][q]
  BY <1>1, LearnsType DEF HandleCommit
<1>3. msgs' \subseteq msgs \ {m}
  BY DEF HandleCommit
<1>4. CASE i.status >= COMMITTED \/ m.ballot < i.bal
  <2>1. UNCHANGED <<instanceSpace, lbs>> /\ UNCHANGED attrVars
    BY <1>4 DEF HandleCommit
  <2>2. Grows
    BY <1>2, <2>1, ConflictsStay DEF Grows, attrVars
  <2> QED
    BY <1>1, <1>3, <2>1, <2>2, WritesNothing DEF Ignores
<1>5. CASE ~(i.status >= COMMITTED \/ m.ballot < i.bal)
  <2>1. /\ instanceSpace' = [instanceSpace EXCEPT ![r][m.id] = j]
        /\ lbs' = (IF again = {} THEN lbs ELSE [lbs EXCEPT ![r][m.id].proposals = {}])
        /\ UpdateConflicts(r, m.cmds, m.id, m.seq)
    BY <1>5 DEF HandleCommit
  <2>2. Grows
    BY <1>1, <1>2, <2>1, UpdateConflictsFacts DEF Grows
  <2>3. j.status = COMMITTED /\ SameAttributes(j, m)
    BY DEF SameAttributes
  <2>4. lbs' = lbs \/ lbs' = [lbs EXCEPT ![r][m.id] = d]
    <3>1. CASE again = {}
      BY <2>1, <3>1
    <3>2. CASE again # {}
      <4>1. lbs' = [lbs EXCEPT ![r][m.id].proposals = {}]
        BY <2>1, <3>2
      <4> QED
        BY <4>1
    <3> QED
      BY <3>1, <3>2
  <2> HIDE DEF j, d
  <2>5. Writes(r, m.id, j, b) \/ Writes(r, m.id, j, d)
    BY <1>1, <2>1, <2>4, WritesBoth, WritesInstance
  <2> QED
    BY <1>1, <1>3, <2>2, <2>3, <2>5 DEF TakesCommit
<1> QED
  BY <1>4, <1>5

\* The steps of recoveries concern one instance.
LEMMA PrepareEffect ==
  ASSUME TypeOK, NEW r \in Replicas, NEW m \in msgs, m.to = r, HandlePrepare(r, m)
  PROVE  Grows /\ KeptBut(m.id) /\ m.id \in InstanceIds /\ m.type = "prepare"
<1> DEFINE i == [instanceSpace[r][m.id] EXCEPT !.bal = MaxOf(@, m.ballot)]
           n == OnWire(PrepareReplyOf(r, m.from, m.id, i))
<1>1. m \in Message /\ m.type = "prepare" /\ m.id \in InstanceIds
  BY MessageFields DEF TypeOK, HandlePrepare
<1>2. Grows
  BY RowsStay, ConflictsStay DEF HandlePrepare, Grows, attrVars
<1>3. /\ UNCHANGED lbs /\ instanceSpace' = [instanceSpace EXCEPT ![r][m.id] = i]
      /\ msgs' = (msgs \ {m}) \cup ReplyTo(m, n)
  BY DEF HandlePrepare
<1>4. n.id = m.id
  BY DEF PrepareReplyOf, OnWire
<1> HIDE DEF i, n
<1>5. Writes(r, m.id, i, lbs[r][m.id])
  BY <1>1, <1>3, WritesInstance
<1>6. \A x \in msgs' : x \in msgs \/ x.id = m.id
  BY <1>3, <1>4 DEF ReplyTo
<1> QED
  BY <1>1, <1>2, <1>5, <1>6, WriteKeeps

LEMMA StartPhase1Effect ==
  ASSUME TypeOK, NEW r \in Replicas, NEW cmds \in Batches, NEW id \in InstanceIds, NEW ballot, NEW proposals,
         NEW taken \in SUBSET msgs, NEW known, \A v \in InstanceIds : known[v].seq \in Numbers,
         StartPhase1(known, r, cmds, id, ballot, proposals, taken), UNCHANGED crtInstance
  PROVE  Grows /\ KeptBut(id)
<1> DEFINE a == UpdateAttributes(known, r, cmds, 0, NoDeps, id[1])
           i == [cmds |-> cmds, bal |-> ballot, vbal |-> ballot, status |-> PREACCEPTED,
                 seq |-> a.seq, deps |-> a.deps]
           b == NewLB(proposals, a.deps, ballot, cmds, PREACCEPTED, -1)
           P == PreAcceptTo(Peers(r, FastQuorumSize - 1), r, id, ballot, cmds, -1, a.deps)
<1>1. id[1] \in Replicas /\ NoDeps \in Deps /\ 0 \in Numbers
  BY SizeFacts DEF InstanceIds, NoDeps, Deps, Numbers
<1>2. a.seq \in Numbers
  BY <1>1, UpdateAttributesFacts
<1>3. /\ instanceSpace' = [instanceSpace EXCEPT ![r][id] = i]
      /\ lbs' = [lbs EXCEPT ![r][id] = b]
      /\ UpdateConflicts(r, cmds, id, a.seq)
      /\ msgs' = (msgs \ taken) \cup P
  BY DEF StartPhase1
<1>4. \A m \in P : m.id = id
  BY DEF PreAcceptTo
<1> HIDE DEF a, i, b, P
<1>5. Writes(r, id, i, b)
  BY <1>3, WritesBoth
<1>6. \A x \in msgs' : x \in msgs \/ x.id = id
  BY <1>3, <1>4
<1>7. Grows
  BY <1>2, <1>3, RowsStay, UpdateConflictsFacts DEF Grows
<1> QED
  BY <1>5, <1>6, <1>7, WriteKeeps

LEMMA PrepareReplyEffect ==
  ASSUME TypeOK, NEW r \in Replicas, NEW m \in msgs, m.to = r, HandlePrepareReply(r, m)
  PROVE  Grows /\ KeptBut(m.id) /\ m.id \in InstanceIds /\ m.type = "prepareReply"
<1> DEFINE b == lbs[r][m.id]
           replies == Append(b.prepareReplies, m)
           c == Adopts(b, replies)
           s == MaxOf(c.status, ACCEPTED)
           cmds == IF c.cmds = Nil THEN <<Noop>> ELSE c.cmds
           i == instanceSpace[r][m.id]
           n == [cmds |-> c.cmds, bal |-> b.lastTriedBallot, vbal |-> b.lastTriedBallot,
                 status |-> c.status, seq |-> c.seq, deps |-> c.deps]
           known == [instanceSpace[r] EXCEPT ![m.id] = n]
<1>1. m \in Message /\ m.type = "prepareReply" /\ m.id \in InstanceIds /\ m \in PrepareReply
  BY MessageFields DEF TypeOK, HandlePrepareReply
<1>2. UNCHANGED crtInstance /\ b \in LeaderBookkeeping
  BY <1>1 DEF HandlePrepareReply, TypeOK
<1>3. UNCHANGED attrVars => Grows
  BY <1>2, RowsStay, ConflictsStay DEF Grows, attrVars
<1>4. CASE ~b.preparing \/ m.ballot # b.lastTriedBallot
  <2>1. msgs' \subseteq msgs /\ UNCHANGED <<instanceSpace, lbs>> /\ UNCHANGED attrVars
    BY <1>4 DEF HandlePrepareReply
  <2>2. Writes(r, m.id, i, b)
    BY <1>1, <2>1, WritesNothing
  <2> QED
    BY <1>1, <1>3, <2>1, <2>2, WriteKeeps
<1>5. CASE ~(~b.preparing \/ m.ballot # b.lastTriedBallot) /\ Len(replies) < SlowQuorumSize
  <2> DEFINE d == [b EXCEPT !.prepareReplies = replies]
  <2>1. /\ lbs' = [lbs EXCEPT ![r][m.id].prepareReplies = replies]
        /\ msgs' \subseteq msgs /\ instanceSpace' = instanceSpace /\ UNCHANGED attrVars
    BY <1>5 DEF HandlePrepareReply
  <2>2. lbs' = [lbs EXCEPT ![r][m.id] = d]
    BY <2>1
  <2> HIDE DEF d, replies
  <2>3. Writes(r, m.id, i, d)
    BY <1>1, <2>1, <2>2, WritesLB
  <2> QED
    BY <1>1, <1>3, <2>1, <2>3, WriteKeeps
<1>6. CASE ~(~b.preparing \/ m.ballot # b.lastTriedBallot) /\ ~(Len(replies) < SlowQuorumSize)
  <2>1. \/ StartPhase1(known, r, cmds, m.id, b.lastTriedBallot, b.proposals, {m})
        \/ /\ lbs' = [lbs EXCEPT ![r][m.id] = [c EXCEPT !.status = s]]
           /\ instanceSpace' = [instanceSpace EXCEPT ![r][m.id] = [n EXCEPT !.status = s]]
           /\ msgs' = (msgs \ {m}) \cup
                IF s = ACCEPTED THEN AcceptTo(Peers(r, N \div 2), r, m.id, c) ELSE {}
           /\ UNCHANGED attrVars
    BY <1>6 DEF HandlePrepareReply
  <2>2. replies \in Seq(PrepareReply)
    BY <1>1, <1>2, LBFields
  <2>3. c \in LeaderBookkeeping
    BY <1>2, <2>2, AdoptsType
  <2> HIDE DEF c, replies
  <2>4. cmds \in Batches
    <3>1. <<Noop>> \in Batches
      BY DEF Batches
    <3> QED
      BY <2>3, <3>1, LBFields
  <2> HIDE DEF cmds
  <2>5. CASE StartPhase1(known, r, cmds, m.id, b.lastTriedBallot, b.proposals, {m})
    <3>1. {m} \in SUBSET msgs
      OBVIOUS
    <3>2. \A v \in InstanceIds : known[v].seq \in Numbers
      <4>1. \A v \in InstanceIds : known[v].seq = IF v = m.id THEN c.seq ELSE instanceSpace[r][v].seq
        BY DEF TypeOK
      <4> QED
        BY <2>3, <4>1, KnownSeq, LBFields
    <3> HIDE DEF known
    <3> QED
      BY <1>1, <1>2, <2>4, <2>5, <3>1, <3>2, StartPhase1Effect
  <2>6. CASE /\ lbs' = [lbs EXCEPT ![r][m.id] = [c EXCEPT !.status = s]]
             /\ instanceSpace' = [instanceSpace EXCEPT ![r][m.id] = [n EXCEPT !.status = s]]
             /\ msgs' = (msgs \ {m}) \cup
                  IF s = ACCEPTED THEN AcceptTo(Peers(r, N \div 2), r, m.id, c) ELSE {}
             /\ UNCHANGED attrVars
    <3> DEFINE d == [c EXCEPT !.status = s]
               j == [n EXCEPT !.status = s]
               S == IF s = ACCEPTED THEN AcceptTo(Peers(r, N \div 2), r, m.id, c) ELSE {}
    <3>1. /\ lbs' = [lbs EXCEPT ![r][m.id] = d] /\ instanceSpace' = [instanceSpace EXCEPT ![r][m.id] = j]
          /\ msgs' = (msgs \ {m}) \cup S /\ UNCHANGED attrVars
      BY <2>6
    <3>2. \A x \in S : x.id = m.id
      BY DEF AcceptTo
    <3> HIDE DEF d, j, S
    <3>3. Writes(r, m.id, j, d)
      BY <1>1, <3>1, WritesBoth
    <3>4. \A x \in msgs' : x \in msgs \/ x.id = m.id
      BY <3>1, <3>2
    <3> QED
      BY <1>1, <1>3, <3>1, <3>3, <3>4, WriteKeeps
  <2> QED
    BY <2>1, <2>5, <2>6
<1> QED
  BY <1>4, <1>5, <1>6

LEMMA StartRecoveryEffect ==
  ASSUME TypeOK, NEW r \in Replicas, NEW id \in InstanceIds, StartRecovery(r, id)
  PROVE  Grows /\ KeptBut(id) /\ recoveries' = recoveries \cup {<<r, id>>}
<1>1. PICK j, b : /\ instanceSpace' = [instanceSpace EXCEPT ![r][id] = j]
                  /\ lbs' = [lbs EXCEPT ![r][id] = b]
  BY DEF StartRecovery
<1>2. /\ \A x \in msgs' : x \in msgs \/ x.id = id
      /\ UNCHANGED <<attrVars, crtInstance>> /\ recoveries' = recoveries \cup {<<r, id>>}
  BY DEF StartRecovery
<1>3. Writes(r, id, j, b)
  BY <1>1, WritesBoth
<1>4. Grows
  BY <1>2, RowsStay, ConflictsStay DEF Grows, attrVars
<1> QED
  BY <1>2, <1>3, <1>4, WriteKeeps

\* Steps that keep every instance.
LEMMA StopEffect ==
  ASSUME TypeOK, NEW r \in Replicas, Stop(r)
  PROVE  Grows /\ (\A v \in InstanceIds : Kept(v)) /\ recoveries' = recoveries
<1>1. msgs' \subseteq msgs /\ UNCHANGED <<instanceSpace, lbs, attrVars, rowVars, recoveries>>
  BY DEF Stop
<1>2. Grows
  BY <1>1, RowsStay, ConflictsStay DEF Grows, attrVars, rowVars
<1>3. \A v \in InstanceIds : Kept(v)
  BY <1>1 DEF Kept, Own, SameAttributes
<1> QED
  BY <1>1, <1>2, <1>3

LEMMA ExecuteEffect ==
  ASSUME TypeOK, NEW r \in Replicas, ExecutesSome(r)
  PROVE  Grows /\ (\A v \in InstanceIds : Kept(v)) /\ recoveries' = recoveries
<1>1. UNCHANGED <<lbs, attrVars, rowVars, msgs, recoveries>>
  BY DEF ExecutesSome, ctrlVars
<1>2. Grows
  BY <1>1, RowsStay, ConflictsStay DEF Grows, attrVars, rowVars
<1>3. ASSUME NEW v \in InstanceIds PROVE Kept(v)
  <2>1. \A x \in Replicas :
          /\ instanceSpace'[x][v].cmds = instanceSpace[x][v].cmds
          /\ instanceSpace'[x][v].seq = instanceSpace[x][v].seq
          /\ instanceSpace'[x][v].deps = instanceSpace[x][v].deps
          /\ \/ instanceSpace'[x][v].status = instanceSpace[x][v].status
             \/ instanceSpace[x][v].status = COMMITTED /\ instanceSpace'[x][v].status = EXECUTED
    BY ExecutesSomeEffect
  <2> QED
    BY <1>1, <2>1 DEF Kept, Own, SameAttributes
<1> QED
  BY <1>1, <1>2, <1>3

LEMMA StutterEffect ==
  ASSUME TypeOK, UNCHANGED commitVars
  PROVE  Grows /\ (\A v \in InstanceIds : Kept(v)) /\ recoveries' = recoveries
<1>1. UNCHANGED <<instanceSpace, lbs, conflicts, crtInstance, msgs, recoveries>>
  BY DEF commitVars, attrVars, rowVars, ctrlVars
<1>2. Grows
  BY <1>1, RowsStay, ConflictsStay DEF Grows
<1>3. \A v \in InstanceIds : Kept(v)
  BY <1>1 DEF Kept, Own, SameAttributes
<1> QED
  BY <1>1, <1>2, <1>3

(***************************************************************************)
(* Every step keeps what holds of the instances that are not recovered.    *)
(***************************************************************************)
LEMMA OwnFacts ==
  ASSUME TypeOK, NEW v \in InstanceIds
  PROVE  /\ v[1] \in Replicas /\ v[2] \in 0 .. MaxInstance /\ v[1] \in Nat
         /\ Own(v) \in LeaderBookkeeping /\ Own(v).status \in 0 .. 5
         /\ \A r \in Replicas : instanceSpace[r][v] \in Instance /\ instanceSpace[r][v].status \in 0 .. 5
         /\ \A r, q \in Replicas : crtInstance[r][q] \in Int
<1>1. v[1] \in Replicas /\ v[2] \in 0 .. MaxInstance /\ v[1] \in Nat
  BY SizeFacts DEF InstanceIds
<1>2. Own(v) \in LeaderBookkeeping /\ \A r \in Replicas : instanceSpace[r][v] \in Instance
  BY <1>1 DEF TypeOK, Own
<1>3. \A r, q \in Replicas : crtInstance[r][q] \in Int
  BY SizeFacts DEF TypeOK, Deps
<1> QED
  BY <1>1, <1>2, <1>3, InstanceFields, LBFields

LEMMA RowsGrow ==
  ASSUME TypeOK', NEW l \in Replicas
  PROVE  crtInstance'[l][l] \in Int /\ (Grows => crtInstance'[l][l] >= crtInstance[l][l])
<1>1. \A r, q \in Replicas : crtInstance'[r][q] \in Int
  BY SizeFacts DEF TypeOK, Deps
<1> QED
  BY <1>1 DEF Grows

LEMMA KeptInv ==
  ASSUME TypeOK, TypeOK', NEW v \in InstanceIds, Kept(v), Grows, InstanceInv(v)
  PROVE  InstanceInv(v)'
<1>1. /\ v[1] \in Replicas /\ v[2] \in Int /\ Own(v).status \in 0 .. 5
      /\ \A r \in Replicas : instanceSpace[r][v].status \in 0 .. 5
      /\ crtInstance[v[1]][v[1]] \in Int /\ crtInstance'[v[1]][v[1]] \in Int
      /\ crtInstance'[v[1]][v[1]] >= crtInstance[v[1]][v[1]]
  <2>1. \A r, q \in Replicas : crtInstance'[r][q] \in Int
    BY SizeFacts DEF TypeOK, Deps
  <2> QED
    BY <2>1, OwnFacts, SizeFacts DEF Grows
<1>2. Own(v)' = Own(v)
  BY DEF Kept
<1>3. LeaderInv(v)'
  BY <1>1, <1>2, Statuses DEF InstanceInv, LeaderInv, Kept, SameAttributes
<1>4. ASSUME NEW r \in Replicas \ {v[1]} PROVE OtherInv(v, r)'
  <2>1. OtherInv(v, r)
    BY DEF InstanceInv
  <2> QED
    BY <1>1, <1>2, <2>1, Statuses DEF OtherInv, Kept, SameAttributes
<1>5. ASSUME NEW m \in msgs', m.id = v PROVE MessageInv(v, m)'
  <2>1. MessageInv(v, m)
    BY <1>5 DEF InstanceInv, Kept
  <2> QED
    BY <1>2, <2>1 DEF MessageInv
<1> QED
  BY <1>3, <1>4, <1>5 DEF InstanceInv

\* A write to instance v, as its leader's bookkeeping and the replicas see it.
LEMMA WriteTo ==
  ASSUME NEW r \in Replicas, NEW v \in InstanceIds, NEW i, NEW b, Writes(r, v, i, b), v[1] \in Replicas
  PROVE  /\ Own(v)' = IF r = v[1] THEN b ELSE Own(v)
         /\ \A x \in Replicas : instanceSpace'[x][v] = IF x = r THEN i ELSE instanceSpace[x][v]
BY DEF Writes, Own

LEMMA ProposeInv ==
  ASSUME TypeOK, TypeOK', NEW v \in InstanceIds, NEW i, NEW b, Proposes(v, i, b), InstanceInv(v)
  PROVE  InstanceInv(v)'
<1> DEFINE l == v[1]
<1>1. /\ l \in Replicas /\ v[2] \in Int /\ Own(v).status \in 0 .. 5
      /\ \A r \in Replicas : instanceSpace[r][v].status \in 0 .. 5
      /\ crtInstance[l][l] \in Int
  BY OwnFacts, SizeFacts
<1>2. crtInstance'[l][l] \in Int
  BY <1>1, RowsGrow
<1>3. Own(v).status = NONE
  BY <1>1 DEF Proposes, InstanceInv, LeaderInv
<1>4. Own(v)' = b /\ \A x \in Replicas : instanceSpace'[x][v] = IF x = l THEN i ELSE instanceSpace[x][v]
  BY <1>1, WriteTo DEF Proposes
<1>5. b.status = PREACCEPTED /\ i.status = PREACCEPTED /\ crtInstance'[l][l] >= v[2]
  BY DEF Proposes
<1>6. LeaderInv(v)'
  BY <1>1, <1>2, <1>4, <1>5, Statuses DEF LeaderInv
<1>7. ASSUME NEW r \in Replicas \ {l} PROVE OtherInv(v, r)'
  <2>1. OtherInv(v, r)
    BY DEF InstanceInv
  <2>2. instanceSpace'[r][v].status < ACCEPTED
    BY <1>1, <1>3, <1>4, <2>1, Statuses DEF OtherInv
  <2> QED
    BY <1>1, <1>4, <2>2, Statuses DEF OtherInv
<1>8. ASSUME NEW m \in msgs', m.id = v PROVE MessageInv(v, m)'
  <2>1. m \notin msgs
    BY <1>3, <1>8 DEF InstanceInv, MessageInv
  <2>2. AsPreAccept(m, v, b)
    BY <2>1 DEF Proposes
  <2> QED
    BY <1>4, <1>5, <2>2, Statuses DEF MessageInv, AsPreAccept
<1> QED
  BY <1>6, <1>7, <1>8 DEF InstanceInv

LEMMA IgnoresKeeps ==
  ASSUME TypeOK, NEW r \in Replicas, NEW m \in msgs, m.id \in InstanceIds, Ignores(r, m)
  PROVE  \A v \in InstanceIds : Kept(v)
BY DEF Ignores, Writes, Kept, Own, SameAttributes, InstanceIds

\* What r writes for a message of the leader of v, which is another replica.
LEMMA AtOther ==
  ASSUME TypeOK, NEW v \in InstanceIds, NEW m \in msgs, m.id = v, m.type \in {"preAccept", "accept", "commit"},
         InstanceInv(v)
  PROVE  m.from = v[1] /\ m.to # v[1] /\ MessageInv(v, m)
BY DEF TypeOK, InstanceInv, MessageInv

LEMMA PreAcceptInv ==
  ASSUME TypeOK, TypeOK', Grows, NEW r \in Replicas, NEW m \in msgs, m.to = r, m.id \in InstanceIds,
         m.type = "preAccept", NEW j, NEW n, AnswersLate(r, m, j, n) \/ PreAccepts(r, m, j, n), InstanceInv(m.id)
  PROVE  InstanceInv(m.id)'
<1> DEFINE v == m.id
           l == v[1]
<1>1. /\ l \in Replicas /\ v[2] \in Int /\ Own(v).status \in 0 .. 5
      /\ \A x \in Replicas : instanceSpace[x][v].status \in 0 .. 5
      /\ crtInstance[l][l] \in Int
  BY OwnFacts, SizeFacts
<1>2. crtInstance'[l][l] \in Int /\ crtInstance'[l][l] >= crtInstance[l][l]
  BY <1>1, RowsGrow
<1>3. m.from = l /\ r # l /\ MessageInv(v, m)
  BY AtOther
<1>4. Own(v)' = Own(v) /\ \A x \in Replicas : instanceSpace'[x][v] = IF x = r THEN j ELSE instanceSpace[x][v]
  BY <1>1, <1>3, WriteTo DEF AnswersLate, PreAccepts
<1>5. LeaderInv(v)'
  BY <1>1, <1>2, <1>3, <1>4 DEF InstanceInv, LeaderInv
<1>6. \/ j.status < ACCEPTED
      \/ j.status = instanceSpace[r][v].status /\ SameAttributes(j, instanceSpace[r][v])
  BY Statuses DEF AnswersLate, PreAccepts
<1>7. ASSUME NEW x \in Replicas \ {l} PROVE OtherInv(v, x)'
  <2>1. OtherInv(v, x)
    BY DEF InstanceInv
  <2>2. CASE x # r
    BY <1>4, <2>1, <2>2 DEF OtherInv
  <2>3. CASE x = r
    <3>1. instanceSpace'[x][v] = j
      BY <1>4, <2>3
    <3>2. CASE j.status < ACCEPTED
      <4>1. j.status \in 0 .. 5
        BY <1>4, <2>3, OwnFacts, Statuses DEF AnswersLate, PreAccepts
      <4> QED
        BY <3>1, <3>2, <4>1, Statuses DEF OtherInv
    <3>3. CASE j.status = instanceSpace[r][v].status /\ SameAttributes(j, instanceSpace[r][v])
      BY <1>4, <2>1, <2>3, <3>1, <3>3 DEF OtherInv, SameAttributes
    <3> QED
      BY <1>6, <3>2, <3>3
  <2> QED
    BY <2>2, <2>3
<1>8. MessageInv(v, n)
  <2>1. n.type = "preAcceptReply" /\ n.to = l /\ Own(v).status # NONE
    BY <1>3 DEF AnswersLate, PreAccepts, MessageInv
  <2>2. CASE AnswersLate(r, m, j, n)
    <3>1. n.status >= COMMITTED
      BY <1>1, <1>3, <2>2, Statuses DEF AnswersLate, InstanceInv, OtherInv
    <3>2. n.status \in 0 .. 5 /\ instanceSpace[r][v].status >= COMMITTED
      BY <1>1, <2>2, <3>1 DEF AnswersLate
    <3>3. Own(v).status = COMMITTED /\ ~(n.status < ACCEPTED)
      BY <1>3, <3>1, <3>2, Statuses DEF InstanceInv, OtherInv
    <3> QED
      BY <2>1, <3>3 DEF MessageInv
  <2>3. CASE PreAccepts(r, m, j, n)
    <3>1. n.vbal = l /\ ~(n.status >= ACCEPTED)
      BY <1>3, <2>3, Statuses DEF PreAccepts, MessageInv
    <3> QED
      BY <2>1, <3>1 DEF MessageInv
  <2> QED
    BY <2>2, <2>3
<1>9. ASSUME NEW x \in msgs', x.id = v PROVE MessageInv(v, x)'
  <2>1. x \in msgs \/ x = n
    BY DEF AnswersLate, PreAccepts
  <2>2. MessageInv(v, x)
    BY <1>8, <1>9, <2>1 DEF InstanceInv
  <2> QED
    BY <1>4, <2>2 DEF MessageInv
<1> QED
  BY <1>5, <1>7, <1>9 DEF InstanceInv

\* The bookkeeping changes before the instance is committed: who commits it, and what is left.
LEMMA LeaderStepInv ==
  ASSUME TypeOK, TypeOK', Grows, NEW v \in InstanceIds, NEW m \in msgs, NEW c, NEW j,
         Writes(v[1], v, j, c), InstanceInv(v),
         Own(v).status \in {PREACCEPTED, PREACCEPTED_EQ, ACCEPTED}, c.cmds = Own(v).cmds,
         c.status \in {PREACCEPTED, PREACCEPTED_EQ, ACCEPTED, COMMITTED},
         c.status >= ACCEPTED => SameAttributes(j, c),
         j.status >= COMMITTED => c.status = COMMITTED,
         \A x \in msgs' : x \in msgs \ {m} \/ AsDecision(x, v[1], v, c)
  PROVE  InstanceInv(v)'
<1> DEFINE l == v[1]
<1>1. /\ l \in Replicas /\ v[2] \in Int /\ Own(v).status \in 0 .. 5
      /\ \A x \in Replicas : instanceSpace[x][v].status \in 0 .. 5
      /\ crtInstance[l][l] \in Int
  BY OwnFacts, SizeFacts
<1>2. crtInstance'[l][l] \in Int /\ crtInstance'[l][l] >= crtInstance[l][l]
  BY <1>1, RowsGrow
<1>3. Own(v)' = c /\ \A x \in Replicas : instanceSpace'[x][v] = IF x = l THEN j ELSE instanceSpace[x][v]
  BY <1>1, WriteTo
<1>4. c.status # NONE /\ c.status <= COMMITTED /\ Own(v).status # NONE /\ Own(v).status # COMMITTED
  BY Statuses
<1>5. LeaderInv(v)'
  BY <1>1, <1>2, <1>3, <1>4 DEF InstanceInv, LeaderInv
<1>6. ASSUME NEW x \in Replicas \ {l} PROVE OtherInv(v, x)'
  <2>1. OtherInv(v, x)
    BY DEF InstanceInv
  <2>2. ~(instanceSpace'[x][v].status >= COMMITTED) /\ instanceSpace'[x][v].status # ACCEPTED
    BY <1>3, <1>4, <2>1 DEF OtherInv
  <2> QED
    BY <2>2 DEF OtherInv
<1>7. ASSUME NEW x \in msgs', x.id = v PROVE MessageInv(v, x)'
  <2>1. CASE x \in msgs
    <3>1. MessageInv(v, x)
      BY <1>7, <2>1 DEF InstanceInv
    <3> QED
      BY <1>3, <1>4, <3>1 DEF MessageInv
  <2>2. CASE AsDecision(x, l, v, c)
    BY <1>3, <1>4, <2>2 DEF MessageInv, AsDecision, SameAttributes
  <2> QED
    BY <2>1, <2>2
<1> QED
  BY <1>5, <1>6, <1>7 DEF InstanceInv

LEMMA PreAcceptReplyInv ==
  ASSUME TypeOK, TypeOK', Grows, NEW r \in Replicas, NEW m \in msgs, m.to = r, m.id \in InstanceIds,
         m.type = "preAcceptReply", InstanceInv(m.id), NEW c, NEW j,
         AddsOnly(r, m, lbs[r][m.id], c) \/ AddsLast(r, m, lbs[r][m.id], c, j)
  PROVE  InstanceInv(m.id)' /\ r = m.id[1] /\ m.status < ACCEPTED /\ m.vbal = m.id[1]
<1> DEFINE v == m.id
           l == v[1]
<1>1. MessageInv(v, m) /\ r = l
  BY DEF InstanceInv, MessageInv
<1>2. lbs[r][v] = Own(v) /\ v[1] \in Replicas /\ m.status \in 1 .. 5 /\ instanceSpace[r][v].status \in 0 .. 5
  BY <1>1, OwnFacts, MessageFields DEF Own, TypeOK
<1>3. Own(v).status \in {PREACCEPTED, PREACCEPTED_EQ} /\ c.cmds = Own(v).cmds
  BY <1>2 DEF AddsOnly, AddsLast, Adds
<1>4. m.status < ACCEPTED /\ m.vbal = l
  BY <1>1, <1>2, <1>3, Statuses DEF MessageInv
<1>5. ~(instanceSpace[l][v].status >= COMMITTED)
  BY <1>3, Statuses DEF InstanceInv, LeaderInv
<1>6. CASE AddsOnly(r, m, lbs[r][v], c)
  <2>1. /\ Writes(l, v, instanceSpace[l][v], c) /\ c.status \in {PREACCEPTED, PREACCEPTED_EQ}
        /\ \A x \in msgs' : x \in msgs \ {m} \/ AsDecision(x, l, v, c)
    BY <1>1, <1>4, <1>6 DEF AddsOnly
  <2>2. ~(c.status >= ACCEPTED)
    BY <2>1, Statuses
  <2> HIDE DEF v, l
  <2>3. InstanceInv(v)'
    BY <1>3, <1>5, <2>1, <2>2, LeaderStepInv DEF v, l
  <2> QED
    BY <1>1, <1>4, <2>3 DEF v, l
<1>7. CASE AddsLast(r, m, lbs[r][v], c, j)
  <2>1. /\ Writes(l, v, j, c) /\ c.status \in {ACCEPTED, COMMITTED} /\ j.status = c.status /\ SameAttributes(j, c)
        /\ \A x \in msgs' : x \in msgs \ {m} \/ AsDecision(x, l, v, c)
    BY <1>1, <1>7 DEF AddsLast
  <2>2. j.status >= COMMITTED => c.status = COMMITTED
    BY <2>1, Statuses
  <2>3. InstanceInv(v)'
    BY <1>3, <2>1, <2>2, LeaderStepInv
  <2> QED
    BY <1>1, <1>4, <2>3
<1> QED
  BY <1>6, <1>7

LEMMA AcceptReplyInv ==
  ASSUME TypeOK, TypeOK', Grows, NEW r \in Replicas, NEW m \in msgs, m.to = r, m.id \in InstanceIds,
         m.type = "acceptReply", InstanceInv(m.id), NEW c, NEW j, CountsAccept(r, m, lbs[r][m.id], c, j)
  PROVE  InstanceInv(m.id)' /\ r = m.id[1]
<1> DEFINE v == m.id
           l == v[1]
<1>1. MessageInv(v, m) /\ r = l
  BY DEF InstanceInv, MessageInv
<1>2. lbs[r][v] = Own(v) /\ v[1] \in Replicas /\ instanceSpace[l][v].status \in 0 .. 5
  BY <1>1, OwnFacts DEF Own
<1>3. /\ Own(v).status = ACCEPTED /\ c.status \in {ACCEPTED, COMMITTED} /\ SameAttributes(c, Own(v))
      /\ Writes(l, v, j, c) /\ SameAttributes(j, instanceSpace[l][v])
      /\ j.status = instanceSpace[l][v].status \/ (j.status = COMMITTED /\ c.status = COMMITTED)
      /\ \A x \in msgs' : x \in msgs \ {m} \/ AsDecision(x, l, v, c)
  BY <1>1, <1>2 DEF CountsAccept, SameAttributes
<1>4. SameAttributes(instanceSpace[l][v], Own(v)) /\ ~(instanceSpace[l][v].status >= COMMITTED)
  BY <1>3, Statuses DEF InstanceInv, LeaderInv
<1>5. SameAttributes(j, c) /\ (j.status >= COMMITTED => c.status = COMMITTED) /\ c.cmds = Own(v).cmds
  BY <1>3, <1>4 DEF SameAttributes
<1>6. InstanceInv(v)'
  BY <1>3, <1>5, LeaderStepInv
<1> QED
  BY <1>1, <1>6

\* Another replica writes what an Accept or a Commit says.
LEMMA OtherStepInv ==
  ASSUME TypeOK, TypeOK', Grows, NEW r \in Replicas, NEW m \in msgs, m.to = r, m.id \in InstanceIds,
         InstanceInv(m.id), NEW j, NEW n,
         \/ m.type = "accept" /\ TakesAccept(r, m, j, n)
         \/ m.type = "commit" /\ \E b : TakesCommit(r, m, j, b)
  PROVE  /\ InstanceInv(m.id)' /\ Own(m.id)' = Own(m.id) /\ KeptBut(m.id)
         /\ \A x \in msgs' : x \in msgs \/ x.type = "acceptReply"
<1> DEFINE v == m.id
           l == v[1]
<1>1. /\ l \in Replicas /\ v[2] \in Int /\ Own(v).status \in 0 .. 5
      /\ \A x \in Replicas : instanceSpace[x][v].status \in 0 .. 5
      /\ crtInstance[l][l] \in Int
  BY OwnFacts, SizeFacts
<1>2. crtInstance'[l][l] \in Int /\ crtInstance'[l][l] >= crtInstance[l][l]
  BY <1>1, RowsGrow
<1>3. m.from = l /\ r # l /\ MessageInv(v, m) /\ OtherInv(v, r)
  <2>1. m.from = l /\ r # l /\ MessageInv(v, m)
    BY AtOther
  <2> QED
    BY <2>1 DEF InstanceInv
<1>4. PICK b : Writes(r, v, j, b)
  BY DEF TakesAccept, TakesCommit
<1>5. Own(v)' = Own(v) /\ \A x \in Replicas : instanceSpace'[x][v] = IF x = r THEN j ELSE instanceSpace[x][v]
  BY <1>1, <1>3, <1>4, WriteTo
<1>6. LeaderInv(v)'
  BY <1>1, <1>2, <1>3, <1>5 DEF InstanceInv, LeaderInv
<1>7. j.status # ACCEPTED /\ (j.status >= COMMITTED => Own(v).status = COMMITTED /\ SameAttributes(j, Own(v)))
  <2>1. CASE m.type = "accept" /\ TakesAccept(r, m, j, n)
    BY <1>3, <2>1 DEF TakesAccept, OtherInv, SameAttributes
  <2>2. CASE m.type = "commit" /\ \E d : TakesCommit(r, m, j, d)
    BY <1>3, <2>2, Statuses DEF TakesCommit, MessageInv, SameAttributes
  <2> QED
    BY <2>1, <2>2
<1>8. ASSUME NEW x \in Replicas \ {l} PROVE OtherInv(v, x)'
  <2>1. OtherInv(v, x)
    BY DEF InstanceInv
  <2> QED
    BY <1>5, <1>7, <2>1 DEF OtherInv
<1>9. \A x \in msgs' : x \in msgs \/ (x.type = "acceptReply" /\ x.to = l /\ x.id = v)
  BY <1>3 DEF TakesAccept, TakesCommit
<1>10. ASSUME NEW x \in msgs', x.id = v PROVE MessageInv(v, x)'
  <2>1. MessageInv(v, x)
    <3>1. CASE x \in msgs
      BY <1>10, <3>1 DEF InstanceInv
    <3>2. CASE x.type = "acceptReply" /\ x.to = l
      BY <1>3, <3>2 DEF MessageInv
    <3> QED
      BY <1>9, <3>1, <3>2
  <2> QED
    BY <1>5, <2>1 DEF MessageInv
<1>11. KeptBut(v)
  BY <1>4, <1>9, WriteKeeps
<1> QED
  BY <1>5, <1>6, <1>8, <1>9, <1>10, <1>11 DEF InstanceInv

\* A message that is not too late is taken.
MessageStep(m) ==
  \/ m.type = "preAccept" /\ \E j, n : AnswersLate(m.to, m, j, n) \/ PreAccepts(m.to, m, j, n)
  \/ m.type = "preAcceptReply" /\ \E c, j : AddsOnly(m.to, m, lbs[m.to][m.id], c) \/ AddsLast(m.to, m, lbs[m.to][m.id], c, j)
  \/ m.type = "accept" /\ \E j, n : TakesAccept(m.to, m, j, n)
  \/ m.type = "acceptReply" /\ \E c, j : CountsAccept(m.to, m, lbs[m.to][m.id], c, j)
  \/ m.type = "commit" /\ \E j, b : TakesCommit(m.to, m, j, b)

\* A step of somebody who recovers the instance.
RecoveryStep(id) ==
  ~Unrecovered(id)' \/ \E m \in msgs : m.id = id /\ m.type \in {"prepare", "prepareReply"}

\* All that a step may do.
LEMMA StepEffects ==
  ASSUME TypeOK, [CommitNext]_commitVars
  PROVE  /\ Grows /\ recoveries \subseteq recoveries'
         /\ \/ \A v \in InstanceIds : Kept(v)
            \/ \E id \in InstanceIds : KeptBut(id) /\ RecoveryStep(id)
            \/ \E id \in InstanceIds, i \in Instance, b \in LeaderBookkeeping : Proposes(id, i, b)
            \/ \E m \in msgs : m.id \in InstanceIds /\ m.to \in Replicas /\ MessageStep(m)
<1>1. CASE UNCHANGED commitVars
  BY <1>1, StutterEffect
<1>2. CASE CommitNext
  <2>1. PICK r \in Replicas : \/ RunLoop(r)
                              \/ ExecutesSome(r)
                              \/ \E id \in InstanceIds : StartRecovery(r, id)
                              \/ Stop(r)
    BY <1>2 DEF CommitNext
  <2>2. CASE ExecutesSome(r)
    BY <2>2, ExecuteEffect
  <2>3. CASE Stop(r)
    BY <2>3, StopEffect
  <2>4. CASE \E id \in InstanceIds : StartRecovery(r, id)
    <3>1. PICK id \in InstanceIds : StartRecovery(r, id)
      BY <2>4
    <3>2. Grows /\ KeptBut(id) /\ recoveries' = recoveries \cup {<<r, id>>}
      BY <3>1, StartRecoveryEffect
    <3>3. ~Unrecovered(id)'
      BY <3>2 DEF Unrecovered
    <3> QED
      BY <3>2, <3>3 DEF RecoveryStep
  <2>5. CASE HandlePropose(r)
    <3>1. recoveries' = recoveries
      BY <2>5 DEF HandlePropose, ctrlVars
    <3> QED
      BY <2>5, <3>1, ProposeEffect
  <2>6. CASE \E m \in msgs : m.to = r /\ Receive(r, m)
    <3>1. PICK m \in msgs : m.to = r /\ Receive(r, m)
      BY <2>6
    <3>2. recoveries' = recoveries
      BY <3>1 DEF Receive, HandlePreAccept, HandlePreAcceptReply, HandleAccept, HandleAcceptReply,
                  HandleCommit, HandlePrepare, HandlePrepareReply, ctrlVars
    <3>3. Grows /\ m.id \in InstanceIds
      BY <3>1, PreAcceptEffect, PreAcceptReplyEffects, AcceptEffect, AcceptReplyEffect, CommitEffect,
         PrepareEffect, PrepareReplyEffect DEF Receive
    <3>4. CASE Ignores(r, m)
      BY <3>2, <3>3, <3>4, IgnoresKeeps
    <3>5. CASE HandlePrepare(r, m) \/ HandlePrepareReply(r, m)
      <4>1. KeptBut(m.id) /\ m.type \in {"prepare", "prepareReply"}
        BY <3>1, <3>5, PrepareEffect, PrepareReplyEffect
      <4> QED
        BY <3>2, <3>3, <4>1 DEF RecoveryStep
    <3>6. CASE ~Ignores(r, m) /\ ~(HandlePrepare(r, m) \/ HandlePrepareReply(r, m))
      <4>1. CASE HandlePreAccept(r, m)
        <5>1. m.type = "preAccept" /\ \E j, n : AnswersLate(m.to, m, j, n) \/ PreAccepts(m.to, m, j, n)
          BY <3>1, <3>6, <4>1, PreAcceptEffect
        <5> QED
          BY <3>1, <3>2, <3>3, <5>1 DEF MessageStep
      <4>2. CASE HandlePreAcceptReply(r, m)
        <5>1. m.type = "preAcceptReply" /\ \E c, j : AddsOnly(r, m, lbs[r][m.id], c) \/ AddsLast(r, m, lbs[r][m.id], c, j)
          BY <3>1, <3>6, <4>2, PreAcceptReplyEffects
        <5> QED
          BY <3>1, <3>2, <3>3, <5>1 DEF MessageStep
      <4>3. CASE HandleAccept(r, m)
        <5>1. m.type = "accept" /\ \E j, n : TakesAccept(m.to, m, j, n)
          BY <3>1, <4>3, AcceptEffect
        <5> QED
          BY <3>1, <3>2, <3>3, <5>1 DEF MessageStep
      <4>4. CASE HandleAcceptReply(r, m)
        <5>1. m.type = "acceptReply" /\ \E c, j : CountsAccept(r, m, lbs[r][m.id], c, j)
          BY <3>1, <3>6, <4>4, AcceptReplyEffect
        <5> QED
          BY <3>1, <3>2, <3>3, <5>1 DEF MessageStep
      <4>5. CASE HandleCommit(r, m)
        <5>1. m.type = "commit" /\ \E j, b : TakesCommit(m.to, m, j, b)
          BY <3>1, <3>6, <4>5, CommitEffect
        <5> QED
          BY <3>1, <3>2, <3>3, <5>1 DEF MessageStep
      <4> QED
        BY <3>1, <3>6, <4>1, <4>2, <4>3, <4>4, <4>5 DEF Receive
    <3> QED
      BY <3>4, <3>5, <3>6
  <2> QED
    BY <2>1, <2>2, <2>3, <2>4, <2>5, <2>6 DEF RunLoop
<1> QED
  BY <1>1, <1>2

\* They concern one instance.
LEMMA ProposeKeeps ==
  ASSUME TypeOK, NEW id \in InstanceIds, NEW i, NEW b, Proposes(id, i, b)
  PROVE  KeptBut(id)
<1>1. id[1] \in Replicas
  BY DEF InstanceIds
<1>2. \A m \in msgs' : m \in msgs \/ m.id = id
  BY DEF Proposes, AsPreAccept
<1> QED
  BY <1>1, <1>2, WriteKeeps DEF Proposes

LEMMA MessageKeeps ==
  ASSUME TypeOK, NEW m \in msgs, m.id \in InstanceIds, m.to \in Replicas, MessageStep(m)
  PROVE  KeptBut(m.id)
<1>1. PICK i, b : Writes(m.to, m.id, i, b)
  BY DEF MessageStep, AnswersLate, PreAccepts, AddsOnly, AddsLast, TakesAccept, CountsAccept, TakesCommit
<1>2. \A x \in msgs' : x \in msgs \/ x.id = m.id
  BY DEF MessageStep, AnswersLate, PreAccepts, AddsOnly, AddsLast, TakesAccept, CountsAccept, TakesCommit, AsDecision
<1> QED
  BY <1>1, <1>2, WriteKeeps

LEMMA MessageInvStep ==
  ASSUME TypeOK, TypeOK', Grows, NEW m \in msgs, m.id \in InstanceIds, m.to \in Replicas, MessageStep(m),
         InstanceInv(m.id)
  PROVE  InstanceInv(m.id)'
<1>1. CASE m.type = "preAccept"
  BY <1>1, PreAcceptInv DEF MessageStep
<1>2. CASE m.type = "preAcceptReply"
  BY <1>2, PreAcceptReplyInv DEF MessageStep
<1>3. CASE m.type = "accept"
  BY <1>3, OtherStepInv DEF MessageStep
<1>4. CASE m.type = "acceptReply"
  BY <1>4, AcceptReplyInv DEF MessageStep
<1>5. CASE m.type = "commit"
  BY <1>5, OtherStepInv DEF MessageStep
<1> QED
  BY <1>1, <1>2, <1>3, <1>4, <1>5 DEF MessageStep

LEMMA InitAgreement == CommitInit => AgreementInv
<1> SUFFICES ASSUME CommitInit PROVE AgreementInv
  OBVIOUS
<1>1. TypeOK
  BY InitTypes
<1>2. ASSUME NEW v \in InstanceIds PROVE InstanceInv(v)
  <2>1. v[1] \in Replicas
    BY DEF InstanceIds
  <2>2. /\ Own(v) = NoLB /\ msgs = {}
        /\ \A r \in Replicas : instanceSpace[r][v].status = 0
    BY <2>1, Statuses DEF CommitInit, Own, NewInstance
  <2>3. NoLB.status = 0
    BY Statuses DEF NoLB, NewLB
  <2>4. LeaderInv(v)
    BY <2>1, <2>2, <2>3, Statuses DEF LeaderInv
  <2>5. \A r \in Replicas : OtherInv(v, r)
    BY <2>2, Statuses DEF OtherInv
  <2> QED
    BY <2>2, <2>4, <2>5 DEF InstanceInv
<1> QED
  BY <1>1, <1>2 DEF AgreementInv

LEMMA AgreementStep == AgreementInv /\ [CommitNext]_commitVars => AgreementInv'
<1> SUFFICES ASSUME AgreementInv, [CommitNext]_commitVars PROVE AgreementInv'
  OBVIOUS
<1>1. TypeOK /\ TypeOK'
  BY StepTypes DEF AgreementInv
<1>2. Grows /\ recoveries \subseteq recoveries'
  BY <1>1, StepEffects
<1>3. ASSUME NEW v \in InstanceIds, Unrecovered(v)' PROVE InstanceInv(v)'
  <2>1. InstanceInv(v)
    BY <1>2, <1>3 DEF AgreementInv, Unrecovered
  <2>2. CASE Kept(v)
    BY <1>1, <1>2, <2>1, <2>2, KeptInv
  <2>3. CASE \E id \in InstanceIds : KeptBut(id) /\ RecoveryStep(id)
    <3>1. PICK id \in InstanceIds : KeptBut(id) /\ RecoveryStep(id)
      BY <2>3
    <3>2. id # v
      BY <1>3, <2>1, <3>1 DEF RecoveryStep, InstanceInv, MessageInv
    <3> QED
      BY <2>2, <3>1, <3>2 DEF KeptBut
  <2>4. CASE \E id \in InstanceIds, i \in Instance, b \in LeaderBookkeeping : Proposes(id, i, b)
    <3>1. PICK id \in InstanceIds, i \in Instance, b \in LeaderBookkeeping : Proposes(id, i, b)
      BY <2>4
    <3>2. CASE id = v
      BY <1>1, <2>1, <3>1, <3>2, ProposeInv
    <3>3. CASE id # v
      BY <1>1, <2>2, <3>1, <3>3, ProposeKeeps DEF KeptBut
    <3> QED
      BY <3>2, <3>3
  <2>5. CASE \E m \in msgs : m.id \in InstanceIds /\ m.to \in Replicas /\ MessageStep(m)
    <3>1. PICK m \in msgs : m.id \in InstanceIds /\ m.to \in Replicas /\ MessageStep(m)
      BY <2>5
    <3>2. CASE m.id = v
      BY <1>1, <1>2, <2>1, <3>1, <3>2, MessageInvStep
    <3>3. CASE m.id # v
      BY <1>1, <2>2, <3>1, <3>3, MessageKeeps DEF KeptBut
    <3> QED
      BY <3>2, <3>3
  <2> QED
    BY <1>1, <2>2, <2>3, <2>4, <2>5, StepEffects
<1> QED
  BY <1>1, <1>3 DEF AgreementInv

\* What the replicas commit of an unrecovered instance is what its leader's bookkeeping says.
LEMMA CommittedAsOwn ==
  ASSUME AgreementInv, NEW v \in InstanceIds, Unrecovered(v), NEW r \in Replicas, IsCommitted(r, v)
  PROVE  Own(v).status = COMMITTED /\ SameAttributes(instanceSpace[r][v], Own(v))
<1>1. LeaderInv(v) /\ (r # v[1] => OtherInv(v, r))
  BY DEF AgreementInv, InstanceInv
<1>2. CASE r = v[1]
  BY <1>1, <1>2, Statuses DEF LeaderInv, IsCommitted
<1>3. CASE r # v[1]
  BY <1>1, <1>3 DEF OtherInv, IsCommitted
<1> QED
  BY <1>2, <1>3

LEMMA AgreementOfInv == AgreementInv => \A v \in InstanceIds : Unrecovered(v) => AgreementOn(v)
BY CommittedAsOwn DEF AgreementOn, SameAttributes

\* Whatever messages are lost and whoever stops, and whatever happens to the other instances: an
\* instance that nobody has begun to recover is committed alike by all.
THEOREM UnrecoveredAgree == CommitSpec => [](\A v \in InstanceIds : Unrecovered(v) => AgreementOn(v))
<1>1. CommitInit => AgreementInv
  BY InitAgreement
<1>2. AgreementInv /\ [CommitNext]_commitVars => AgreementInv'
  BY AgreementStep
<1>3. AgreementInv => \A v \in InstanceIds : Unrecovered(v) => AgreementOn(v)
  BY AgreementOfInv
<1> QED
  BY <1>1, <1>2, <1>3, PTL DEF CommitSpec

\* The replicas agree as long as nobody has begun a recovery.
THEOREM AgreementHolds == CommitSpec => [](recoveries = {} => Agreement)
<1> DEFINE Agree == \A v \in InstanceIds : Unrecovered(v) => AgreementOn(v)
           None == recoveries = {}
<1>1. Agree => (None => Agreement)
  BY DEF Agreement, Unrecovered
<1>2. CommitSpec => []Agree
  BY UnrecoveredAgree
<1> HIDE DEF Agree, None
<1>3. CommitSpec => [](None => Agreement)
  BY <1>1, <1>2, PTL
<1> QED
  BY <1>3 DEF None

(***************************************************************************)
(* The order of conflicting instances.  S stands for the replicas whose    *)
(* PreAcceptReply the leader of v has counted.                             *)
(***************************************************************************)
\* The messages of the vote on v, and who votes.
VoteMsgs(v) == {m \in msgs : m.id = v /\ m.type \in {"preAccept", "preAcceptReply"}}
Voter(m) == IF m.type = "preAccept" THEN m.to ELSE m.from
Counts(m) == m.type = "preAccept" \/ m.status < ACCEPTED

AtLeast(d, e) == \A q \in Replicas : d[q] >= e[q]

\* Each replica votes once, and what the leader merges does not fall.
VoteInv(v, S) ==
  /\ S \subseteq Replicas \ {v[1]} /\ Cardinality(S) = Own(v).preAcceptOKs
  /\ Own(v).status >= ACCEPTED => Cardinality(S) >= 1 /\ Cardinality(S) >= FastQuorumSize - 1
  /\ Own(v).ballot \in {-1, v[1]}
  /\ \A m \in VoteMsgs(v) : Voter(m) \notin S
  /\ \A m, n \in VoteMsgs(v) : Voter(m) = Voter(n) => m = n
  /\ \A m \in VoteMsgs(v) : Own(v).ballot = -1 /\ Counts(m) => AtLeast(m.deps, Own(v).deps)

\* Replica x has voted for v with dependencies d: its reply is under way, or it is counted, or
\* x is the leader.
Holds(x, v, S, d) ==
  /\ Own(v).status >= PREACCEPTED
  /\ \/ x \in S \cup {v[1]} /\ d = Own(v).deps
     \/ \E m \in VoteMsgs(v) : m.type = "preAcceptReply" /\ m.from = x /\ m.status < ACCEPTED /\ d = m.deps

\* What x has registered of an instance it has voted for.
RegisterInv(v, S) ==
  \A x \in Replicas, d \in Deps : Holds(x, v, S, d) =>
    \A k \in DOMAIN Own(v).cmds :
      LET c == Own(v).cmds[k]
          e == conflicts[x][v[1]][Key[c]]
      IN  e.last >= v[2] /\ (IsWrite(c) => e.lastWrite >= v[2])

\* A replica that has voted for two conflicting instances of different rows has made one of them
\* depend on the other.
PairInv(v, w, S, T) ==
  v[1] # w[1] /\ Own(v).status >= PREACCEPTED /\ Own(w).status >= PREACCEPTED
    /\ Conflicting(Own(v).cmds, Own(w).cmds) =>
  \A x \in Replicas, d, e \in Deps :
    Holds(x, v, S, d) /\ Holds(x, w, T, e) => d[w[1]] >= w[2] \/ e[v[1]] >= v[2]

\* The later of two conflicting instances of a row depends on the earlier one.
RowInv(v, w) ==
  v[1] = w[1] /\ v[2] < w[2] /\ Own(v).status >= PREACCEPTED /\ Own(w).status >= PREACCEPTED
    /\ Conflicting(Own(v).cmds, Own(w).cmds) => Own(w).deps[v[1]] >= v[2]

\* For some Q: Q[v] has voted for v.
OrderInv(Q) ==
  \A v \in InstanceIds : Unrecovered(v) =>
    /\ VoteInv(v, Q[v]) /\ RegisterInv(v, Q[v])
    /\ \A w \in InstanceIds : Unrecovered(w) => PairInv(v, w, Q[v], Q[w]) /\ RowInv(v, w)

OrderedInv == AgreementInv /\ \E Q \in [InstanceIds -> SUBSET Replicas] : OrderInv(Q)

LEMMA DepsInt == \A d \in Deps, q \in Replicas : d[q] \in Int
BY SizeFacts DEF Deps

\* A batch of at most one command.
LEMMA SingleCommand ==
  ASSUME MaxBatch <= 1, NEW cmds \in Batches
  PROVE  DOMAIN cmds \subseteq {1}
<1>1. CASE cmds = <<Noop>> \/ cmds = <<>>
  <2>1. DOMAIN <<Noop>> = 1 .. 1 /\ DOMAIN <<>> = {}
    OBVIOUS
  <2> QED
    BY <1>1, <2>1
<1>2. CASE cmds # <<Noop>> /\ cmds # <<>>
  <2>1. PICK n \in 1 .. MaxBatch : cmds \in [1 .. n -> Commands]
    BY <1>2 DEF Batches
  <2>2. n = 1
    BY <2>1, SizeFacts
  <2>3. DOMAIN cmds = 1 .. 1
    BY <2>1, <2>2
  <2> QED
    BY <2>3
<1> QED
  BY <1>1, <1>2

LEMMA ConflictOfSingles ==
  ASSUME MaxBatch <= 1, NEW b \in Batches, NEW c \in Batches
  PROVE  /\ Conflicting(b, c) <=> Conflicting(c, b)
         /\ Conflicting(b, c) => /\ DOMAIN b = {1} /\ DOMAIN c = {1}
                                 /\ Key[b[1]] = Key[c[1]] /\ (IsWrite(b[1]) \/ IsWrite(c[1]))
<1>1. DOMAIN b \subseteq {1} /\ DOMAIN c \subseteq {1}
  BY SingleCommand
<1>2. \A x, y : ConflictingCommands(x, y) <=> ConflictingCommands(y, x)
  BY DEF ConflictingCommands
<1> QED
  BY <1>1, <1>2 DEF Conflicting, ConflictingCommands

\* A vote as it was, or with higher dependencies.
HeldBefore(x, v, S, e) ==
  \E d \in Deps : Holds(x, v, S, d) /\ \A q \in Replicas \ {v[1]} : e[q] >= d[q]

\* A vote of this step: what x knows of the other rows is among its dependencies.
NewVote(v, x, e) ==
  \A k \in DOMAIN Own(v)'.cmds :
    LET c == Own(v)'.cmds[k]
        i == conflicts'[x][v[1]][Key[c]]
    IN  /\ i.last >= v[2] /\ (IsWrite(c) => i.lastWrite >= v[2])
        /\ \A q \in Replicas : x = v[1] \/ q # v[1] => e[q] >= LastConflict(x, q, c)

\* What a step does to the votes on an instance.
Advances(v, S, T) ==
  /\ Own(v).status >= PREACCEPTED =>
       Own(v)'.cmds = Own(v).cmds /\ AtLeast(Own(v)'.deps, Own(v).deps)
  /\ \A x \in Replicas, e \in Deps : Holds(x, v, T, e)' => HeldBefore(x, v, S, e) \/ NewVote(v, x, e)

Stays(v, S, T) ==
  /\ Own(v)'.status >= PREACCEPTED => Own(v).status >= PREACCEPTED
  /\ Own(v).status >= PREACCEPTED =>
       Own(v)'.cmds = Own(v).cmds /\ AtLeast(Own(v)'.deps, Own(v).deps)
  /\ \A x \in Replicas, e \in Deps : Holds(x, v, T, e)' => HeldBefore(x, v, S, e)

LEMMA StaysAdvances == \A v, S, T : Stays(v, S, T) => Advances(v, S, T)
BY DEF Stays, Advances

LEMMA OwnBatch ==
  ASSUME TypeOK, NEW v \in InstanceIds, Own(v).status >= PREACCEPTED
  PROVE  Own(v).cmds \in Batches /\ Own(v).deps \in Deps
BY OwnFacts, LBFields, Statuses

LEMMA RegisterStep ==
  ASSUME TypeOK, TypeOK', Grows, MaxBatch <= 1, NEW v \in InstanceIds, NEW S, NEW T,
         Advances(v, S, T), RegisterInv(v, S)
  PROVE  RegisterInv(v, T)'
<1> SUFFICES ASSUME NEW x \in Replicas, NEW e \in Deps, Holds(x, v, T, e)', NEW k \in DOMAIN Own(v)'.cmds
             PROVE  LET c == Own(v)'.cmds[k]
                        i == conflicts'[x][v[1]][Key[c]]
                    IN  i.last >= v[2] /\ (IsWrite(c) => i.lastWrite >= v[2])
  BY DEF RegisterInv, IsWrite
<1>1. CASE NewVote(v, x, e)
  BY <1>1 DEF NewVote
<1>2. CASE HeldBefore(x, v, S, e)
  <2>1. PICK d \in Deps : Holds(x, v, S, d)
    BY <1>2 DEF HeldBefore
  <2>2. Own(v).status >= PREACCEPTED
    BY <2>1 DEF Holds
  <2>3. Own(v).cmds \in Batches /\ Own(v)'.cmds = Own(v).cmds
    BY <2>2, OwnBatch DEF Advances
  <2> DEFINE c == Own(v).cmds[k]
             i == conflicts[x][v[1]][Key[c]]
             j == conflicts'[x][v[1]][Key[c]]
  <2>4. Key[c] \in Keys /\ v[1] \in Replicas /\ v[2] \in Int
    BY <2>3, BatchFacts, OwnFacts, SizeFacts
  <2>5. i.last >= v[2] /\ (IsWrite(c) => i.lastWrite >= v[2])
    <3>1. k \in DOMAIN Own(v).cmds
      BY <2>3
    <3> QED
      BY <2>1, <3>1 DEF RegisterInv
  <2>6. j.last >= i.last /\ j.lastWrite >= i.lastWrite
    BY <2>4 DEF Grows
  <2>7. i.last \in Int /\ i.lastWrite \in Int /\ j.last \in Int /\ j.lastWrite \in Int
    <3>1. i \in Conflict /\ j \in Conflict
      BY <2>4 DEF TypeOK
    <3> QED
      BY <3>1, SizeFacts DEF Conflict
  <2> QED
    BY <2>3, <2>4, <2>5, <2>6, <2>7
<1> QED
  BY <1>1, <1>2 DEF Advances

\* x knows of the instance of another row that conflicts with its command.
LEMMA KnownConflict ==
  ASSUME TypeOK, MaxBatch <= 1, NEW w \in InstanceIds, NEW T, RegisterInv(w, T),
         NEW x \in Replicas, NEW f \in Deps, Holds(x, w, T, f), NEW b \in Batches, Conflicting(b, Own(w).cmds)
  PROVE  DOMAIN b = {1} /\ LastConflict(x, w[1], b[1]) >= w[2]
<1>1. Own(w).cmds \in Batches
  BY OwnBatch DEF Holds
<1>2. /\ DOMAIN b = {1} /\ DOMAIN Own(w).cmds = {1}
      /\ Key[b[1]] = Key[Own(w).cmds[1]] /\ (IsWrite(b[1]) \/ IsWrite(Own(w).cmds[1]))
  BY <1>1, ConflictOfSingles
<1> QED
  BY <1>2 DEF RegisterInv, LastConflict

LEMMA LastConflictType ==
  ASSUME TypeOK, NEW x \in Replicas, NEW q \in Replicas, NEW b \in Batches, 1 \in DOMAIN b
  PROVE  LastConflict(x, q, b[1]) \in Int
<1>1. Key[b[1]] \in Keys
  BY BatchFacts
<1>2. conflicts[x][q][Key[b[1]]] \in Conflict
  BY <1>1 DEF TypeOK
<1> QED
  BY <1>2, SizeFacts DEF LastConflict, Conflict

LEMMA PairStep ==
  ASSUME TypeOK, TypeOK', Grows, MaxBatch <= 1, NEW v \in InstanceIds, NEW w \in InstanceIds,
         NEW S, NEW S2, NEW T, NEW T2, Advances(v, S, S2), Stays(w, T, T2), RegisterInv(w, T), PairInv(v, w, S, T)
  PROVE  PairInv(v, w, S2, T2)'
<1> SUFFICES ASSUME v[1] # w[1], Own(v)'.status >= PREACCEPTED, Own(w)'.status >= PREACCEPTED,
                    Conflicting(Own(v)'.cmds, Own(w)'.cmds),
                    NEW x \in Replicas, NEW d \in Deps, NEW e \in Deps, Holds(x, v, S2, d)', Holds(x, w, T2, e)'
             PROVE  d[w[1]] >= w[2] \/ e[v[1]] >= v[2]
  BY DEF PairInv, Conflicting, ConflictingCommands, IsWrite
<1>1. /\ v[1] \in Replicas /\ w[1] \in Replicas /\ v[2] \in Int /\ w[2] \in Int
      /\ \A q \in Replicas : d[q] \in Int /\ e[q] \in Int
  BY OwnFacts, SizeFacts, DepsInt
<1>2. Own(w).status >= PREACCEPTED /\ Own(w)'.cmds = Own(w).cmds
  BY DEF Stays
<1>3. PICK f \in Deps : Holds(x, w, T, f) /\ \A q \in Replicas \ {w[1]} : e[q] >= f[q]
  BY DEF Stays, HeldBefore
<1>4. e[v[1]] >= f[v[1]] /\ f[v[1]] \in Int
  BY <1>1, <1>3, DepsInt
<1>5. CASE HeldBefore(x, v, S, d)
  <2>1. PICK g \in Deps : Holds(x, v, S, g) /\ \A q \in Replicas \ {v[1]} : d[q] >= g[q]
    BY <1>5 DEF HeldBefore
  <2>2. Own(v).status >= PREACCEPTED /\ Own(v)'.cmds = Own(v).cmds
    BY <2>1 DEF Holds, Advances
  <2>3. g[w[1]] >= w[2] \/ f[v[1]] >= v[2]
    BY <1>2, <1>3, <2>1, <2>2 DEF PairInv
  <2>4. d[w[1]] >= g[w[1]] /\ g[w[1]] \in Int
    BY <1>1, <2>1, DepsInt
  <2> QED
    BY <1>1, <1>4, <2>3, <2>4
<1>6. CASE NewVote(v, x, d)
  <2>1. Own(v)'.cmds \in Batches
    <3>1. lbs'[v[1]][v] \in LeaderBookkeeping
      BY <1>1 DEF TypeOK
    <3>2. lbs'[v[1]][v].status >= 1
      BY Statuses DEF Own
    <3> QED
      BY <3>1, <3>2, LBFields DEF Own
  <2>2. /\ 1 \in DOMAIN Own(v)'.cmds
        /\ LastConflict(x, w[1], Own(v)'.cmds[1]) >= w[2] /\ LastConflict(x, w[1], Own(v)'.cmds[1]) \in Int
    BY <1>1, <1>2, <1>3, <2>1, KnownConflict, LastConflictType
  <2>3. d[w[1]] >= LastConflict(x, w[1], Own(v)'.cmds[1])
    BY <1>1, <1>6, <2>2 DEF NewVote
  <2> QED
    BY <1>1, <2>2, <2>3
<1> QED
  BY <1>5, <1>6 DEF Advances

\* Steps after which the votes are those from before.
VotesKept(v) ==
  /\ Own(v)'.cmds = Own(v).cmds /\ Own(v)'.deps = Own(v).deps
  /\ Own(v)'.preAcceptOKs = Own(v).preAcceptOKs /\ Own(v)'.ballot = Own(v).ballot
  /\ Own(v)'.status >= PREACCEPTED <=> Own(v).status >= PREACCEPTED
  /\ Own(v)'.status >= ACCEPTED <=> Own(v).status >= ACCEPTED
  /\ VoteMsgs(v)' \subseteq VoteMsgs(v)

LEMMA AtLeastSame == \A d \in Deps : AtLeast(d, d)
BY DepsInt DEF AtLeast

LEMMA HeldAlready ==
  ASSUME NEW v \in InstanceIds, NEW S, NEW x \in Replicas, NEW e \in Deps, Holds(x, v, S, e)
  PROVE  HeldBefore(x, v, S, e)
<1>1. \A q \in Replicas : e[q] >= e[q]
  BY DepsInt
<1> QED
  BY <1>1 DEF HeldBefore

LEMMA VotesKeptStep ==
  ASSUME TypeOK, NEW v \in InstanceIds, NEW S, VotesKept(v), VoteInv(v, S)
  PROVE  VoteInv(v, S)' /\ Stays(v, S, S)
<1>1. VoteInv(v, S)'
  BY DEF VotesKept, VoteInv, AtLeast, Counts, Voter
<1>2. Own(v).deps \in Deps
  BY OwnFacts, LBFields
<1>3. ASSUME NEW x \in Replicas, NEW e \in Deps, Holds(x, v, S, e)' PROVE HeldBefore(x, v, S, e)
  <2>1. Holds(x, v, S, e)
    BY <1>3 DEF VotesKept, Holds
  <2> QED
    BY <2>1, HeldAlready
<1> QED
  BY <1>1, <1>2, <1>3, AtLeastSame DEF VotesKept, Stays

LEMMA KeptVotes ==
  ASSUME NEW v \in InstanceIds, Kept(v)
  PROVE  VotesKept(v)
BY DEF Kept, VotesKept, VoteMsgs

\* The messages of the vote.
LEMMA VoteMsgsType ==
  ASSUME TypeOK, NEW v \in InstanceIds, NEW m \in VoteMsgs(v)
  PROVE  /\ m \in msgs /\ m \in Message /\ m.id = v /\ m.deps \in Deps /\ m.from # m.to
         /\ m.from \in Replicas /\ m.to \in Replicas /\ m.type \in {"preAccept", "preAcceptReply"}
         /\ m.type = "preAcceptReply" => m.status \in 1 .. 5
BY MessageFields DEF TypeOK, VoteMsgs

\* A PreAccept is answered.
LEMMA AnswerStep ==
  ASSUME TypeOK, TypeOK', NEW v \in InstanceIds, NEW S, VoteInv(v, S), Own(v)' = Own(v),
         NEW m \in VoteMsgs(v), m.type = "preAccept", NEW n, n.type = "preAcceptReply", n.from = m.to,
         VoteMsgs(v)' \subseteq (VoteMsgs(v) \ {m}) \cup {n},
         Counts(n) => AtLeast(n.deps, m.deps)
  PROVE  VoteInv(v, S)'
<1>1. Voter(n) = Voter(m) /\ Counts(m)
  BY DEF Voter, Counts
<1>2. \A x \in VoteMsgs(v)' : Voter(x) \notin S
  BY <1>1 DEF VoteInv
<1>3. \A x, y \in VoteMsgs(v)' : Voter(x) = Voter(y) => x = y
  BY <1>1 DEF VoteInv
<1>4. ASSUME NEW x \in VoteMsgs(v)', Own(v).ballot = -1, Counts(x) PROVE AtLeast(x.deps, Own(v).deps)
  <2>1. CASE x \in VoteMsgs(v)
    BY <1>4, <2>1 DEF VoteInv
  <2>2. CASE x = n
    <3>1. AtLeast(n.deps, m.deps) /\ AtLeast(m.deps, Own(v).deps)
      BY <1>1, <1>4, <2>2 DEF VoteInv
    <3>2. n.deps \in Deps
      <4>1. n \in msgs' /\ msgs' \subseteq Message
        BY <2>2 DEF VoteMsgs, TypeOK
      <4> QED
        BY <4>1, MessageFields
    <3>3. m.deps \in Deps /\ Own(v).deps \in Deps
      BY VoteMsgsType, OwnFacts, LBFields
    <3>4. ASSUME NEW q \in Replicas PROVE n.deps[q] >= Own(v).deps[q]
      <4>1. n.deps[q] >= m.deps[q] /\ m.deps[q] >= Own(v).deps[q]
        BY <3>1 DEF AtLeast
      <4>2. n.deps[q] \in Int /\ m.deps[q] \in Int /\ Own(v).deps[q] \in Int
        BY <3>2, <3>3, DepsInt
      <4> QED
        BY <4>1, <4>2
    <3> QED
      BY <2>2, <3>4 DEF AtLeast
  <2> QED
    BY <2>1, <2>2
<1> QED
  BY <1>2, <1>3, <1>4 DEF VoteInv

LEMMA PreAcceptVotes ==
  ASSUME TypeOK, TypeOK', MaxBatch <= 1, NEW m \in msgs, m.id \in InstanceIds, m.to \in Replicas,
         m.type = "preAccept", NEW j, NEW n, AnswersLate(m.to, m, j, n) \/ PreAccepts(m.to, m, j, n),
         InstanceInv(m.id), NEW S, VoteInv(m.id, S)
  PROVE  /\ VoteInv(m.id, S)' /\ Advances(m.id, S, S) /\ Own(m.id)' = Own(m.id)
<1> DEFINE v == m.id
           l == v[1]
           r == m.to
<1>1. m.from = l /\ r # l /\ MessageInv(v, m) /\ l \in Replicas
  BY AtOther, OwnFacts
<1>2. Own(v)' = Own(v)
  BY <1>1, WriteTo DEF AnswersLate, PreAccepts
<1>3. m \in VoteMsgs(v) /\ m.cmds = Own(v).cmds /\ m.cmds \in Batches /\ m.seq \in Numbers /\ m.deps \in Deps
  BY <1>1, MessageFields DEF VoteMsgs, MessageInv, TypeOK
<1>4. /\ VoteMsgs(v)' \subseteq (VoteMsgs(v) \ {m}) \cup {n}
      /\ n.type = "preAcceptReply" /\ n.from = r
  BY DEF AnswersLate, PreAccepts, VoteMsgs
<1>5. Own(v).deps \in Deps
  BY OwnFacts, LBFields
<1>6. ASSUME AnswersLate(r, m, j, n)
      PROVE  ~Counts(n)
  <2>1. n.status \in 0 .. 5 /\ n.status >= ACCEPTED
    BY <1>6, OwnFacts DEF AnswersLate
  <2> QED
    BY <1>4, <2>1, Statuses DEF Counts
<1>7. ASSUME PreAccepts(r, m, j, n)
      PROVE  AtLeast(n.deps, m.deps) /\ NewVote(v, r, n.deps)
  <2> DEFINE a == UpdateAttributes(instanceSpace[r], r, m.cmds, m.seq, m.deps, l)
             cmds == m.cmds
             seq == m.seq
             deps == m.deps
             known == instanceSpace[r]
  <2>1. n.deps = a.deps
    BY <1>7 DEF PreAccepts
  <2>2. /\ r \in Replicas /\ l \in Replicas /\ a = UpdateAttributes(known, r, cmds, seq, deps, l)
        /\ cmds \in Batches /\ seq \in Numbers /\ deps \in Deps
        /\ \A id \in InstanceIds : known[id].seq \in Numbers
    BY <1>1, <1>3, KnownSeq
  <2>3. /\ \A q \in Replicas : a.deps[q] >= deps[q]
        /\ \A q \in Replicas, i \in DOMAIN cmds :
             (r = l \/ q # l) /\ DOMAIN cmds = {i} => a.deps[q] >= LastConflict(r, q, cmds[i])
    <3> HIDE DEF a, l, r, cmds, seq, deps, known
    <3> QED
      BY <2>2, UpdateAttributesFacts
  <2>4. ASSUME NEW k \in DOMAIN m.cmds
        PROVE  /\ \A q \in Replicas : q # l => n.deps[q] >= LastConflict(r, q, m.cmds[k])
               /\ conflicts'[r][l][Key[m.cmds[k]]].last >= v[2]
               /\ IsWrite(m.cmds[k]) => conflicts'[r][l][Key[m.cmds[k]]].lastWrite >= v[2]
    <3>1. DOMAIN m.cmds = {k}
      BY <1>3, <2>4, SingleCommand
    <3>2. UpdateConflicts(r, m.cmds, v, m.seq)
      BY <1>7 DEF PreAccepts
    <3>3. \A q \in Replicas : q # l => n.deps[q] >= LastConflict(r, q, m.cmds[k])
      BY <2>1, <2>3, <3>1
    <3> QED
      BY <1>3, <3>2, <3>3, UpdateConflictsFacts
  <2>5. AtLeast(n.deps, m.deps)
    BY <2>1, <2>3 DEF AtLeast
  <2> QED
    BY <1>1, <1>2, <1>3, <2>4, <2>5 DEF NewVote
<1>8. VoteInv(v, S)'
  <2>1. Counts(n) => AtLeast(n.deps, m.deps)
    BY <1>6, <1>7
  <2> HIDE DEF v, l, r
  <2> QED
    BY <1>2, <1>3, <1>4, <2>1, AnswerStep DEF v, r
<1>9. ASSUME NEW x \in Replicas, NEW e \in Deps, Holds(x, v, S, e)'
      PROVE  HeldBefore(x, v, S, e) \/ NewVote(v, x, e)
  <2>1. CASE Holds(x, v, S, e)
    BY <2>1, HeldAlready
  <2>2. CASE ~Holds(x, v, S, e)
    <3>1. n.from = x /\ n.status < ACCEPTED /\ e = n.deps
      BY <1>2, <1>4, <1>9, <2>2 DEF Holds
    <3>2. PreAccepts(r, m, j, n)
      BY <1>6, <3>1 DEF Counts
    <3> QED
      BY <1>4, <1>7, <3>1, <3>2
  <2> QED
    BY <2>1, <2>2
<1> QED
  BY <1>2, <1>5, <1>8, <1>9, AtLeastSame DEF Advances

LEMMA ProposeVotes ==
  ASSUME TypeOK, TypeOK', MaxBatch <= 1, NEW v \in InstanceIds, NEW i, NEW b \in LeaderBookkeeping, Proposes(v, i, b),
         InstanceInv(v), NEW S, VoteInv(v, S)
  PROVE  /\ VoteInv(v, S)' /\ Advances(v, S, S) /\ Own(v)' = b /\ Own(v).status = NONE
         /\ NewVote(v, v[1], b.deps)
<1> DEFINE l == v[1]
<1>1. l \in Replicas /\ v[2] \in Int /\ crtInstance[l][l] \in Int
  BY OwnFacts, SizeFacts
<1>2. Own(v).status = NONE /\ Own(v) = NoLB
  BY <1>1 DEF Proposes, InstanceInv, LeaderInv
<1>3. Own(v)' = b
  BY <1>1, WriteTo DEF Proposes
<1>4. S = {}
  <2>1. Cardinality(S) = 0 /\ S \subseteq Replicas
    BY <1>2 DEF VoteInv, NoLB, NewLB
  <2> QED
    BY <2>1, SizeFacts, FS_Subset, FS_EmptySet
<1>5. /\ b.status = PREACCEPTED /\ b.ballot = -1 /\ b.preAcceptOKs = 0
      /\ b.cmds \in Batches /\ b.deps \in Deps
  BY LBFields DEF Proposes
<1>6. ASSUME NEW x \in msgs', x.id = v PROVE x \notin msgs /\ AsPreAccept(x, v, b)
  <2>1. x \notin msgs
    BY <1>2, <1>6 DEF InstanceInv, MessageInv
  <2> QED
    BY <2>1 DEF Proposes
<1>7. \A x \in VoteMsgs(v)' : x \in msgs' /\ x \notin msgs /\ AsPreAccept(x, v, b)
  BY <1>6 DEF VoteMsgs
<1>8. VoteInv(v, S)'
  <2>1. \A x \in VoteMsgs(v)' : x.type = "preAccept" /\ x.deps = b.deps
    BY <1>7 DEF AsPreAccept
  <2>2. \A x, y \in VoteMsgs(v)' : Voter(x) = Voter(y) => x = y
    BY <1>7, <2>1 DEF Proposes, Voter
  <2>3. Cardinality(S) = 0 /\ S \subseteq Replicas \ {l}
    BY <1>4, FS_EmptySet
  <2>4. ~(b.status >= ACCEPTED)
    BY <1>5, Statuses
  <2> QED
    BY <1>3, <1>4, <1>5, <2>1, <2>2, <2>3, <2>4, AtLeastSame DEF VoteInv
<1>9. NewVote(v, l, b.deps)
  <2> DEFINE a == UpdateAttributes(instanceSpace[l], l, b.cmds, 0, NoDeps, l)
             known == instanceSpace[l]
  <2>1. /\ b.deps = a.deps /\ NoDeps \in Deps /\ 0 \in Numbers /\ a = UpdateAttributes(known, l, b.cmds, 0, NoDeps, l)
        /\ \A id \in InstanceIds : known[id].seq \in Numbers
    <3>1. b.deps = a.deps
      BY DEF Proposes
    <3>2. NoDeps \in Deps /\ 0 \in Numbers
      BY SizeFacts DEF NoDeps, Deps, Numbers
    <3>3. \A id \in InstanceIds : known[id].seq \in Numbers
      BY <1>1, KnownSeq
    <3> QED
      BY <3>1, <3>2, <3>3
  <2>2. \A q \in Replicas, k \in DOMAIN b.cmds :
             (l = l \/ q # l) /\ DOMAIN b.cmds = {k} => a.deps[q] >= LastConflict(l, q, b.cmds[k])
    <3> HIDE DEF a, known
    <3> QED
      BY <1>1, <1>5, <2>1, UpdateAttributesFacts
  <2>3. PICK seq \in Numbers : UpdateConflicts(l, b.cmds, v, seq)
    BY DEF Proposes
  <2>4. ASSUME NEW k \in DOMAIN b.cmds
        PROVE  /\ \A q \in Replicas : b.deps[q] >= LastConflict(l, q, b.cmds[k])
               /\ conflicts'[l][l][Key[b.cmds[k]]].last >= v[2]
               /\ IsWrite(b.cmds[k]) => conflicts'[l][l][Key[b.cmds[k]]].lastWrite >= v[2]
    <3>1. DOMAIN b.cmds = {k}
      BY <1>5, <2>4, SingleCommand
    <3>2. \A q \in Replicas : b.deps[q] >= LastConflict(l, q, b.cmds[k])
      BY <2>1, <2>2, <3>1
    <3> QED
      BY <1>1, <1>5, <2>3, <3>2, UpdateConflictsFacts
  <2> QED
    BY <1>1, <1>3, <2>4 DEF NewVote
<1>10. ASSUME NEW x \in Replicas, NEW e \in Deps, Holds(x, v, S, e)' PROVE NewVote(v, x, e)
  <2>1. \A y \in VoteMsgs(v)' : y.type # "preAcceptReply"
    BY <1>7 DEF AsPreAccept
  <2>2. x = l /\ e = b.deps
    BY <1>3, <1>4, <1>10, <2>1 DEF Holds
  <2> QED
    BY <1>9, <2>2
<1>11. ~(Own(v).status >= PREACCEPTED)
  BY <1>2, Statuses
<1> QED
  BY <1>2, <1>3, <1>8, <1>9, <1>10, <1>11 DEF Advances

LEMMA CountVotes ==
  ASSUME TypeOK, TypeOK', Grows, NEW m \in msgs, m.id \in InstanceIds, m.to \in Replicas,
         m.type = "preAcceptReply", InstanceInv(m.id), NEW c, NEW j,
         AddsOnly(m.to, m, lbs[m.to][m.id], c) \/ AddsLast(m.to, m, lbs[m.to][m.id], c, j),
         NEW S, VoteInv(m.id, S)
  PROVE  VoteInv(m.id, S \cup {m.from})' /\ Stays(m.id, S, S \cup {m.from})
<1> DEFINE v == m.id
           l == v[1]
           T == S \cup {m.from}
           b == Own(v)
<1>1. m.to = l /\ m.status < ACCEPTED /\ m.vbal = l /\ l \in Replicas /\ l \in Nat
  BY PreAcceptReplyInv, OwnFacts
<1>2. lbs[m.to][v] = b
  BY <1>1 DEF Own
<1>3. /\ Adds(l, m, b, c) /\ \E i : Writes(l, v, i, c)
      /\ \/ c.status \in {PREACCEPTED, PREACCEPTED_EQ}
         \/ c.status \in {ACCEPTED, COMMITTED} /\ c.preAcceptOKs >= FastQuorumSize - 1
      /\ \A x \in msgs' : x \in msgs \ {m} \/ x.type \in {"accept", "commit"}
  BY <1>1, <1>2 DEF AddsOnly, AddsLast, AsDecision
<1>4. Own(v)' = c
  BY <1>1, <1>3, WriteTo
<1>5. m \in VoteMsgs(v) /\ Voter(m) = m.from /\ Counts(m) /\ m.deps \in Deps /\ m.from \in Replicas \ {l}
  <2>1. m \in VoteMsgs(v)
    BY DEF VoteMsgs
  <2> QED
    BY <1>1, <2>1, VoteMsgsType DEF Voter, Counts
<1>6. VoteMsgs(v)' \subseteq VoteMsgs(v) \ {m}
  BY <1>3 DEF VoteMsgs
<1>7. /\ c \in LeaderBookkeeping /\ c.deps \in Deps /\ b \in LeaderBookkeeping /\ b.deps \in Deps
      /\ b.preAcceptOKs \in Nat /\ b.ballot \in {-1, l}
  BY <1>3, OwnFacts, LBFields DEF Adds, VoteInv
<1>8. c.ballot = l /\ c.cmds = b.cmds
  BY <1>1, <1>3, <1>7 DEF Adds
<1>9. \A q \in Replicas : c.deps[q] >= b.deps[q] /\ (q # l => c.deps[q] >= m.deps[q])
  <2>1. \A q \in Replicas : /\ c.deps[q] >= IF m.vbal > b.ballot THEN m.deps[q] ELSE b.deps[q]
                            /\ q # l => c.deps[q] >= m.deps[q]
    BY <1>1, <1>3 DEF Adds
  <2>2. CASE b.ballot = -1
    <3>1. AtLeast(m.deps, b.deps) /\ m.vbal > b.ballot
      BY <1>1, <1>5, <2>2 DEF VoteInv
    <3>2. ASSUME NEW q \in Replicas PROVE c.deps[q] >= b.deps[q]
      <4>1. c.deps[q] >= m.deps[q] /\ m.deps[q] >= b.deps[q]
        BY <2>1, <3>1 DEF AtLeast
      <4>2. c.deps[q] \in Int /\ m.deps[q] \in Int /\ b.deps[q] \in Int
        BY <1>5, <1>7, DepsInt
      <4> QED
        BY <4>1, <4>2
    <3> QED
      BY <2>1, <3>2
  <2>3. CASE b.ballot = l
    BY <1>1, <2>1, <2>3
  <2> QED
    BY <1>7, <2>2, <2>3
<1>10. VoteInv(v, T)'
  <2>1. T \subseteq Replicas \ {l} /\ m.from \notin S /\ Cardinality(S) = b.preAcceptOKs
    BY <1>5 DEF VoteInv
  <2>2. Cardinality(T) = c.preAcceptOKs
    <3>1. IsFiniteSet(S)
      BY <2>1, SizeFacts, FS_Subset
    <3>2. Cardinality(T) = Cardinality(S) + 1
      BY <2>1, <3>1, FS_AddElement
    <3> QED
      BY <1>3, <2>1, <3>2 DEF Adds
  <2>3. c.status >= ACCEPTED => c.preAcceptOKs >= 1 /\ c.preAcceptOKs >= FastQuorumSize - 1
    BY <1>3, <1>7, Statuses DEF Adds
  <2>4. \A x \in VoteMsgs(v)' : Voter(x) \notin T
    BY <1>5, <1>6 DEF VoteInv
  <2>5. \A x, y \in VoteMsgs(v)' : Voter(x) = Voter(y) => x = y
    BY <1>6 DEF VoteInv
  <2>6. c.ballot # -1
    BY <1>1, <1>8
  <2> HIDE DEF T, b
  <2> QED
    BY <1>4, <1>8, <2>1, <2>2, <2>3, <2>4, <2>5, <2>6 DEF VoteInv
<1>11. ASSUME NEW x \in Replicas, NEW e \in Deps, Holds(x, v, T, e)' PROVE HeldBefore(x, v, S, e)
  <2>1. b.status >= PREACCEPTED
    BY <1>3, Statuses DEF Adds
  <2>2. CASE x \in S \cup {l} /\ e = c.deps
    <3>1. Holds(x, v, S, b.deps)
      BY <2>1, <2>2 DEF Holds
    <3> QED
      BY <1>7, <1>9, <2>2, <3>1 DEF HeldBefore
  <2>3. CASE x = m.from /\ e = c.deps
    <3>1. Holds(x, v, S, m.deps)
      BY <1>1, <1>5, <2>1, <2>3 DEF Holds
    <3> QED
      BY <1>5, <1>9, <2>3, <3>1 DEF HeldBefore
  <2>4. CASE \E y \in VoteMsgs(v)' : y.type = "preAcceptReply" /\ y.from = x /\ y.status < ACCEPTED /\ e = y.deps
    <3>1. Holds(x, v, S, e)
      BY <1>6, <2>1, <2>4 DEF Holds
    <3> QED
      BY <3>1, HeldAlready
  <2> QED
    BY <1>4, <1>11, <2>2, <2>3, <2>4 DEF Holds
<1>12. Own(v).status >= PREACCEPTED
  BY <1>3, Statuses DEF Adds
<1> QED
  BY <1>4, <1>8, <1>9, <1>10, <1>11, <1>12 DEF Stays, AtLeast

\* The messages of the other kinds keep the votes.
LEMMA OtherVotes ==
  ASSUME TypeOK, TypeOK', Grows, NEW m \in msgs, m.id \in InstanceIds, m.to \in Replicas, MessageStep(m),
         m.type \in {"accept", "acceptReply", "commit"}, InstanceInv(m.id)
  PROVE  VotesKept(m.id)
<1> DEFINE v == m.id
<1>1. CASE m.type = "acceptReply"
  <2>1. PICK c, j : CountsAccept(m.to, m, lbs[m.to][v], c, j)
    BY <1>1 DEF MessageStep
  <2>2. m.to = v[1] /\ v[1] \in Replicas
    BY <1>1, <2>1, AcceptReplyInv, OwnFacts
  <2>3. lbs[m.to][v] = Own(v) /\ Own(v)' = c
    BY <2>1, <2>2, WriteTo DEF Own, CountsAccept
  <2>4. VoteMsgs(v)' \subseteq VoteMsgs(v)
    BY <2>1 DEF CountsAccept, AsDecision, VoteMsgs
  <2> QED
    BY <2>1, <2>3, <2>4, Statuses DEF CountsAccept, VotesKept
<1>2. CASE m.type \in {"accept", "commit"}
  <2>1. /\ Own(v)' = Own(v) /\ \A x \in msgs' : x \in msgs \/ x.type = "acceptReply"
    <3>1. PICK j, n : \/ m.type = "accept" /\ TakesAccept(m.to, m, j, n)
                      \/ m.type = "commit" /\ \E b : TakesCommit(m.to, m, j, b)
      BY <1>2 DEF MessageStep
    <3> QED
      BY <3>1, OtherStepInv
  <2> QED
    BY <2>1 DEF VotesKept, VoteMsgs
<1> QED
  BY <1>1, <1>2

(***************************************************************************)
(* The instances of a row, and all that a step does to the order.          *)
(***************************************************************************)
\* The instance was proposed before, or is not.
Settled(v) ==
  /\ Own(v)'.status >= PREACCEPTED => Own(v).status >= PREACCEPTED
  /\ Own(v).status >= PREACCEPTED => Own(v)'.cmds = Own(v).cmds /\ AtLeast(Own(v)'.deps, Own(v).deps)

\* It is proposed by this step.
ProposedNow(v) == v[2] > crtInstance[v[1]][v[1]] /\ NewVote(v, v[1], Own(v)'.deps)

LEMMA OwnBatchNext ==
  ASSUME TypeOK', NEW v \in InstanceIds, Own(v)'.status >= PREACCEPTED
  PROVE  Own(v)'.cmds \in Batches /\ Own(v)'.deps \in Deps
<1>1. v[1] \in Replicas
  BY DEF InstanceIds
<1>2. lbs'[v[1]][v] \in LeaderBookkeeping
  BY <1>1 DEF TypeOK
<1>3. lbs'[v[1]][v].status >= 1
  BY Statuses DEF Own
<1> QED
  BY <1>2, <1>3, LBFields DEF Own

LEMMA PairSymmetric ==
  ASSUME TypeOK', MaxBatch <= 1, NEW v \in InstanceIds, NEW w \in InstanceIds, NEW S, NEW T, PairInv(v, w, S, T)'
  PROVE  PairInv(w, v, T, S)'
<1> SUFFICES ASSUME w[1] # v[1], Own(w)'.status >= PREACCEPTED, Own(v)'.status >= PREACCEPTED,
                    Conflicting(Own(w)'.cmds, Own(v)'.cmds),
                    NEW x \in Replicas, NEW d \in Deps, NEW e \in Deps, Holds(x, w, T, d)', Holds(x, v, S, e)'
             PROVE  d[v[1]] >= v[2] \/ e[w[1]] >= w[2]
  BY DEF PairInv, Conflicting, ConflictingCommands, IsWrite
<1>1. Own(v)'.cmds \in Batches /\ Own(w)'.cmds \in Batches
  BY OwnBatchNext
<1>2. Conflicting(Own(v)'.cmds, Own(w)'.cmds)
  BY <1>1, ConflictOfSingles
<1> QED
  BY <1>2 DEF PairInv, Conflicting, ConflictingCommands, IsWrite

LEMMA RowGrows ==
  ASSUME TypeOK, TypeOK', NEW v \in InstanceIds, NEW w \in InstanceIds, Settled(v), Settled(w), RowInv(v, w)
  PROVE  RowInv(v, w)'
<1> SUFFICES ASSUME v[1] = w[1], v[2] < w[2], Own(v)'.status >= PREACCEPTED, Own(w)'.status >= PREACCEPTED,
                    Conflicting(Own(v)'.cmds, Own(w)'.cmds)
             PROVE  Own(w)'.deps[v[1]] >= v[2]
  BY DEF RowInv, Conflicting, ConflictingCommands, IsWrite
<1>1. /\ Own(v).status >= PREACCEPTED /\ Own(w).status >= PREACCEPTED
      /\ Own(v)'.cmds = Own(v).cmds /\ Own(w)'.cmds = Own(w).cmds /\ AtLeast(Own(w)'.deps, Own(w).deps)
  BY DEF Settled
<1>2. Own(w).deps[v[1]] >= v[2]
  BY <1>1 DEF RowInv
<1>3. v[1] \in Replicas /\ v[2] \in Int /\ Own(w).deps \in Deps /\ Own(w)'.deps \in Deps
  BY <1>1, OwnFacts, OwnBatch, OwnBatchNext, SizeFacts
<1>4. Own(w).deps[v[1]] \in Int /\ Own(w)'.deps[v[1]] \in Int /\ Own(w)'.deps[v[1]] >= Own(w).deps[v[1]]
  BY <1>1, <1>3, DepsInt DEF AtLeast
<1> QED
  BY <1>2, <1>3, <1>4

\* The leader knows of the earlier instances of its row.
LEMMA RowProposed ==
  ASSUME TypeOK, TypeOK', MaxBatch <= 1, NEW v \in InstanceIds, NEW w \in InstanceIds, Settled(v), ProposedNow(w),
         NEW S, RegisterInv(v, S)
  PROVE  RowInv(v, w)'
<1> SUFFICES ASSUME v[1] = w[1], v[2] < w[2], Own(v)'.status >= PREACCEPTED, Own(w)'.status >= PREACCEPTED,
                    Conflicting(Own(v)'.cmds, Own(w)'.cmds)
             PROVE  Own(w)'.deps[v[1]] >= v[2]
  BY DEF RowInv, Conflicting, ConflictingCommands, IsWrite
<1>1. Own(v).status >= PREACCEPTED /\ Own(v)'.cmds = Own(v).cmds
  BY DEF Settled
<1>2. /\ v[1] \in Replicas /\ v[2] \in Int /\ Own(v).deps \in Deps /\ Own(v).cmds \in Batches
      /\ Own(w)'.deps \in Deps /\ Own(w)'.cmds \in Batches
  BY <1>1, OwnFacts, OwnBatch, OwnBatchNext, SizeFacts
<1>3. Holds(v[1], v, S, Own(v).deps) /\ Conflicting(Own(w)'.cmds, Own(v).cmds)
  BY <1>1, <1>2, ConflictOfSingles DEF Holds
<1> DEFINE known == LastConflict(v[1], v[1], Own(w)'.cmds[1])
<1>4. 1 \in DOMAIN Own(w)'.cmds /\ known >= v[2] /\ known \in Int
  BY <1>2, <1>3, KnownConflict, LastConflictType
<1>5. Own(w)'.deps[v[1]] >= known /\ Own(w)'.deps[v[1]] \in Int
  BY <1>2, <1>4, DepsInt DEF ProposedNow, NewVote
<1> QED
  BY <1>2, <1>4, <1>5

\* There is no later instance than the one proposed.
LEMMA RowLatest ==
  ASSUME TypeOK, NEW v \in InstanceIds, NEW w \in InstanceIds, ProposedNow(v), LeaderInv(w), Settled(w)
  PROVE  RowInv(v, w)'
<1> SUFFICES ASSUME v[1] = w[1], v[2] < w[2], Own(w)'.status >= PREACCEPTED
             PROVE  FALSE
  BY DEF RowInv
<1>1. v[1] \in Replicas /\ v[2] \in Int /\ w[2] \in Int /\ crtInstance[v[1]][v[1]] \in Int
  BY OwnFacts, SizeFacts
<1>2. w[2] > crtInstance[w[1]][w[1]]
  BY <1>1 DEF ProposedNow
<1>3. Own(w).status = NONE
  BY <1>2 DEF LeaderInv
<1>4. Own(w).status >= PREACCEPTED
  BY DEF Settled
<1> QED
  BY <1>3, <1>4, Statuses

\* A step: at most the votes on one instance, id, advance.
VotesStep(Q, R, id) ==
  \A v \in InstanceIds : Unrecovered(v)' =>
    /\ VoteInv(v, R[v])'
    /\ v # id => Stays(v, Q[v], R[v])
    /\ Advances(v, Q[v], R[v]) /\ (Settled(v) \/ ProposedNow(v))

LEMMA StaysSettled == \A v, S, T : Stays(v, S, T) => Settled(v)
BY DEF Stays, Settled

LEMMA OrderFromVotes ==
  ASSUME MaxBatch <= 1, AgreementInv, TypeOK', Grows, recoveries \subseteq recoveries',
         NEW Q, NEW R, NEW id \in InstanceIds, OrderInv(Q), VotesStep(Q, R, id)
  PROVE  OrderInv(R)'
<1>1. TypeOK
  BY DEF AgreementInv
<1> SUFFICES ASSUME NEW v \in InstanceIds, Unrecovered(v)'
             PROVE  /\ VoteInv(v, R[v])' /\ RegisterInv(v, R[v])'
                    /\ \A w \in InstanceIds : Unrecovered(w)' => PairInv(v, w, R[v], R[w])' /\ RowInv(v, w)'
  BY DEF OrderInv
<1>2. \A w \in InstanceIds : Unrecovered(w)' => Unrecovered(w)
  BY DEF Unrecovered
<1>3. /\ VoteInv(v, R[v])' /\ Advances(v, Q[v], R[v]) /\ RegisterInv(v, Q[v])
      /\ v # id => Stays(v, Q[v], R[v])
      /\ Settled(v) \/ ProposedNow(v)
  BY <1>2 DEF VotesStep, OrderInv
<1>4. RegisterInv(v, R[v])'
  BY <1>1, <1>3, RegisterStep
<1>5. ASSUME NEW w \in InstanceIds, Unrecovered(w)'
      PROVE  PairInv(v, w, R[v], R[w])' /\ RowInv(v, w)'
  <2>1. /\ Advances(w, Q[w], R[w]) /\ RegisterInv(w, Q[w])
        /\ w # id => Stays(w, Q[w], R[w])
        /\ Settled(w) \/ ProposedNow(w)
    BY <1>2, <1>5 DEF VotesStep, OrderInv
  <2>2. PairInv(v, w, Q[v], Q[w]) /\ PairInv(w, v, Q[w], Q[v]) /\ RowInv(v, w) /\ LeaderInv(w)
    BY <1>2, <1>5 DEF OrderInv, AgreementInv, InstanceInv
  <2>3. CASE v = w
    <3>1. ~(v[2] < v[2])
      BY <1>1, OwnFacts, SizeFacts
    <3> QED
      BY <2>3, <3>1 DEF PairInv, RowInv
  <2>4. CASE v # w /\ w # id
    <3>1. Stays(w, Q[w], R[w]) /\ Settled(w)
      BY <2>1, <2>4, StaysSettled
    <3>2. PairInv(v, w, R[v], R[w])'
      BY <1>1, <1>3, <2>1, <2>2, <3>1, PairStep
    <3>3. RowInv(v, w)'
      BY <1>1, <1>3, <2>2, <3>1, RowGrows, RowLatest
    <3> QED
      BY <3>2, <3>3
  <2>5. CASE v # w /\ w = id
    <3>1. Stays(v, Q[v], R[v]) /\ Settled(v)
      BY <1>3, <2>5, StaysSettled
    <3>2. PairInv(w, v, R[w], R[v])'
      BY <1>1, <1>3, <2>1, <2>2, <3>1, PairStep
    <3>3. PairInv(v, w, R[v], R[w])'
      BY <3>2, PairSymmetric
    <3>4. RowInv(v, w)'
      BY <1>1, <1>3, <2>1, <2>2, <3>1, RowGrows, RowProposed
    <3> QED
      BY <3>3, <3>4
  <2> QED
    BY <2>3, <2>4, <2>5
<1> QED
  BY <1>3, <1>4, <1>5

LEMMA KeptVotesStep ==
  ASSUME TypeOK, NEW v \in InstanceIds, Kept(v), NEW S, VoteInv(v, S)
  PROVE  VoteInv(v, S)' /\ Stays(v, S, S) /\ Advances(v, S, S) /\ Settled(v)
BY KeptVotes, VotesKeptStep, StaysAdvances, StaysSettled

LEMMA SettledSame ==
  ASSUME TypeOK, NEW v \in InstanceIds, Own(v)' = Own(v)
  PROVE  Settled(v)
<1>1. Own(v).deps \in Deps
  BY OwnFacts, LBFields
<1> QED
  BY <1>1, AtLeastSame DEF Settled

\* Whose votes a message adds to those counted for its instance.
LEMMA MessageVotes ==
  ASSUME MaxBatch <= 1, TypeOK, TypeOK', Grows, NEW m \in msgs, m.id \in InstanceIds, m.to \in Replicas,
         MessageStep(m), InstanceInv(m.id), NEW S \in SUBSET Replicas, VoteInv(m.id, S)
  PROVE  \E T \in SUBSET Replicas : VoteInv(m.id, T)' /\ Advances(m.id, S, T) /\ Settled(m.id)
<1>1. CASE m.type = "preAccept"
  <2>1. PICK j, n : AnswersLate(m.to, m, j, n) \/ PreAccepts(m.to, m, j, n)
    BY <1>1 DEF MessageStep
  <2>2. VoteInv(m.id, S)' /\ Advances(m.id, S, S) /\ Own(m.id)' = Own(m.id)
    BY <1>1, <2>1, PreAcceptVotes
  <2> QED
    BY <2>2, SettledSame
<1>2. CASE m.type = "preAcceptReply"
  <2>1. PICK c, j : AddsOnly(m.to, m, lbs[m.to][m.id], c) \/ AddsLast(m.to, m, lbs[m.to][m.id], c, j)
    BY <1>2 DEF MessageStep
  <2>2. VoteInv(m.id, S \cup {m.from})' /\ Stays(m.id, S, S \cup {m.from})
    BY <1>2, <2>1, CountVotes
  <2>3. m \in VoteMsgs(m.id)
    BY <1>2 DEF VoteMsgs
  <2>4. S \cup {m.from} \in SUBSET Replicas
    BY <2>3, VoteMsgsType
  <2> QED
    BY <2>2, <2>4, StaysAdvances, StaysSettled
<1>3. CASE m.type \in {"accept", "acceptReply", "commit"}
  <2>1. VoteInv(m.id, S)' /\ Stays(m.id, S, S)
    BY <1>3, OtherVotes, VotesKeptStep
  <2> QED
    BY <2>1, StaysAdvances, StaysSettled
<1> QED
  BY <1>1, <1>2, <1>3 DEF MessageStep

LEMMA VotesOfStep ==
  ASSUME MaxBatch <= 1, AgreementInv, TypeOK', [CommitNext]_commitVars,
         NEW Q \in [InstanceIds -> SUBSET Replicas], OrderInv(Q)
  PROVE  \E R \in [InstanceIds -> SUBSET Replicas], id \in InstanceIds : VotesStep(Q, R, id)
<1>1. TypeOK
  BY DEF AgreementInv
<1>2. Grows /\ recoveries \subseteq recoveries'
  BY <1>1, StepEffects
<1>3. \A v \in InstanceIds : Unrecovered(v)' => Unrecovered(v) /\ VoteInv(v, Q[v]) /\ InstanceInv(v)
  BY <1>2 DEF Unrecovered, OrderInv, AgreementInv
<1>4. ASSUME NEW v \in InstanceIds, Unrecovered(v)', Kept(v)
      PROVE  VoteInv(v, Q[v])' /\ Stays(v, Q[v], Q[v]) /\ Advances(v, Q[v], Q[v]) /\ Settled(v)
  BY <1>1, <1>3, <1>4, KeptVotesStep
<1>5. CASE \A v \in InstanceIds : Kept(v)
  <2>1. PICK id : id \in InstanceIds
    <3>1. <<0, 0>> \in InstanceIds
      BY SizeFacts DEF InstanceIds, Replicas
    <3> QED
      BY <3>1
  <2>2. VotesStep(Q, Q, id)
    BY <1>4, <1>5 DEF VotesStep
  <2> QED
    BY <2>1, <2>2
<1>6. CASE \E id \in InstanceIds : KeptBut(id) /\ RecoveryStep(id)
  <2>1. PICK id \in InstanceIds : KeptBut(id) /\ RecoveryStep(id)
    BY <1>6
  <2>2. ~Unrecovered(id)'
    BY <1>3, <2>1 DEF RecoveryStep, InstanceInv, MessageInv
  <2>3. VotesStep(Q, Q, id)
    BY <1>4, <2>1, <2>2 DEF VotesStep, KeptBut
  <2> QED
    BY <2>3
<1>7. CASE \E id \in InstanceIds, i \in Instance, b \in LeaderBookkeeping : Proposes(id, i, b)
  <2>1. PICK id \in InstanceIds, i \in Instance, b \in LeaderBookkeeping : Proposes(id, i, b)
    BY <1>7
  <2>2. KeptBut(id)
    BY <1>1, <2>1, ProposeKeeps
  <2>3. ASSUME Unrecovered(id)'
        PROVE  VoteInv(id, Q[id])' /\ Advances(id, Q[id], Q[id]) /\ ProposedNow(id)
    <3>1. /\ VoteInv(id, Q[id])' /\ Advances(id, Q[id], Q[id]) /\ Own(id)' = b
          /\ NewVote(id, id[1], b.deps)
      BY <1>1, <1>3, <2>1, <2>3, ProposeVotes
    <3>2. id[2] > crtInstance[id[1]][id[1]]
      BY <1>1, <2>1, OwnFacts, SizeFacts DEF Proposes
    <3> QED
      BY <3>1, <3>2 DEF ProposedNow
  <2>4. VotesStep(Q, Q, id)
    BY <1>4, <2>2, <2>3 DEF VotesStep, KeptBut
  <2> QED
    BY <2>4
<1>8. CASE \E m \in msgs : m.id \in InstanceIds /\ m.to \in Replicas /\ MessageStep(m)
  <2>1. PICK m \in msgs : m.id \in InstanceIds /\ m.to \in Replicas /\ MessageStep(m)
    BY <1>8
  <2>2. KeptBut(m.id)
    BY <1>1, <2>1, MessageKeeps
  <2>3. PICK T \in SUBSET Replicas :
          Unrecovered(m.id)' => VoteInv(m.id, T)' /\ Advances(m.id, Q[m.id], T) /\ Settled(m.id)
    <3>1. CASE Unrecovered(m.id)'
      BY <1>1, <1>2, <1>3, <2>1, <3>1, MessageVotes
    <3>2. CASE ~Unrecovered(m.id)'
      BY <3>2
    <3> QED
      BY <3>1, <3>2
  <2> DEFINE R == [Q EXCEPT ![m.id] = T]
  <2>4. R \in [InstanceIds -> SUBSET Replicas] /\ R[m.id] = T /\ \A v \in InstanceIds \ {m.id} : R[v] = Q[v]
    BY <2>1
  <2> HIDE DEF R
  <2>5. VotesStep(Q, R, m.id)
    <3> SUFFICES ASSUME NEW v \in InstanceIds, Unrecovered(v)'
                 PROVE  /\ VoteInv(v, R[v])'
                        /\ v # m.id => Stays(v, Q[v], R[v])
                        /\ Advances(v, Q[v], R[v]) /\ (Settled(v) \/ ProposedNow(v))
      BY DEF VotesStep
    <3>1. CASE v = m.id
      BY <2>3, <2>4, <3>1
    <3>2. CASE v # m.id
      <4>1. Kept(v) /\ R[v] = Q[v]
        BY <2>2, <2>4, <3>2 DEF KeptBut
      <4> QED
        BY <1>4, <4>1
    <3> QED
      BY <3>1, <3>2
  <2> QED
    BY <2>1, <2>4, <2>5
<1> QED
  BY <1>1, <1>5, <1>6, <1>7, <1>8, StepEffects

LEMMA OrderStep ==
  ASSUME MaxBatch <= 1
  PROVE  OrderedInv /\ [CommitNext]_commitVars => OrderedInv'
<1> SUFFICES ASSUME OrderedInv, [CommitNext]_commitVars PROVE OrderedInv'
  OBVIOUS
<1>1. AgreementInv /\ AgreementInv'
  BY AgreementStep DEF OrderedInv
<1>2. TypeOK /\ TypeOK'
  BY <1>1 DEF AgreementInv
<1>3. Grows /\ recoveries \subseteq recoveries'
  BY <1>2, StepEffects
<1>4. PICK Q \in [InstanceIds -> SUBSET Replicas] : OrderInv(Q)
  BY DEF OrderedInv
<1>5. PICK R \in [InstanceIds -> SUBSET Replicas], id \in InstanceIds : VotesStep(Q, R, id)
  BY <1>1, <1>2, <1>4, VotesOfStep
<1>6. OrderInv(R)'
  BY <1>1, <1>2, <1>3, <1>4, <1>5, OrderFromVotes
<1> QED
  BY <1>1, <1>5, <1>6 DEF OrderedInv

LEMMA InitOrder == CommitInit => OrderedInv
<1> SUFFICES ASSUME CommitInit PROVE OrderedInv
  OBVIOUS
<1>1. AgreementInv
  BY InitAgreement
<1> DEFINE Q == [v \in InstanceIds |-> {}]
<1>2. ASSUME NEW v \in InstanceIds
      PROVE  Own(v) = NoLB /\ VoteMsgs(v) = {} /\ ~(Own(v).status >= PREACCEPTED) /\ ~(Own(v).status >= ACCEPTED)
  <2>1. Own(v) = NoLB
    BY DEF CommitInit, Own, InstanceIds
  <2>2. VoteMsgs(v) = {}
    BY DEF CommitInit, VoteMsgs
  <2> QED
    BY <2>1, <2>2, Statuses DEF NoLB, NewLB
<1>3. ASSUME NEW v \in InstanceIds PROVE VoteInv(v, {})
  BY <1>2, FS_EmptySet DEF VoteInv, NoLB, NewLB
<1>4. OrderInv(Q)
  BY <1>2, <1>3 DEF OrderInv, RegisterInv, PairInv, RowInv, Holds
<1>5. Q \in [InstanceIds -> SUBSET Replicas]
  OBVIOUS
<1> QED
  BY <1>1, <1>4, <1>5 DEF OrderedInv

(***************************************************************************)
(* Two fast quorums have a replica in common, but with 4 or 6 replicas     *)
(* they need not.                                                          *)
(***************************************************************************)
LEMMA FastQuorumsMeet ==
  ASSUME N \notin {4, 6}, NEW l \in Replicas, NEW k \in Replicas,
         NEW S \in SUBSET (Replicas \ {l}), Cardinality(S) >= 1, Cardinality(S) >= FastQuorumSize - 1,
         NEW T \in SUBSET (Replicas \ {k}), Cardinality(T) >= 1, Cardinality(T) >= FastQuorumSize - 1
  PROVE  (S \cup {l}) \cap (T \cup {k}) # {}
<1> DEFINE A == S \cup {l}
           B == T \cup {k}
<1>1. IsFiniteSet(S) /\ IsFiniteSet(T) /\ Cardinality(S) \in Nat /\ Cardinality(T) \in Nat
  <2>1. S \in SUBSET Replicas /\ T \in SUBSET Replicas
    OBVIOUS
  <2> QED
    BY <2>1, SizeFacts, FS_Subset, FS_CardinalityType
<1>2. /\ IsFiniteSet(A) /\ Cardinality(A) = Cardinality(S) + 1
      /\ IsFiniteSet(B) /\ Cardinality(B) = Cardinality(T) + 1
  BY <1>1, FS_AddElement
<1> SUFFICES ASSUME A \cap B = {} PROVE FALSE
  OBVIOUS
<1> HIDE DEF A, B
<1>3. Cardinality(A \cup B) = Cardinality(A) + Cardinality(B)
  <2>1. Cardinality(A \cap B) = 0
    BY FS_EmptySet
  <2>2. Cardinality(A \cup B) = Cardinality(A) + Cardinality(B) - Cardinality(A \cap B)
    BY <1>2, FS_Union
  <2> QED
    BY <1>1, <1>2, <2>1, <2>2
<1>4. Cardinality(A \cup B) <= N
  <2>1. A \cup B \in SUBSET Replicas
    BY DEF A, B
  <2> QED
    BY <2>1, SizeFacts, FS_Subset
<1>5. /\ N \in {1, 2, 3, 5, 7}
      /\ N = 3 => FastQuorumSize = 2
      /\ N = 5 => FastQuorumSize = 3
      /\ N = 7 => FastQuorumSize = 5
  BY SizeFacts DEF FastQuorumSize, FailuresTolerated
<1>6. Cardinality(S) + Cardinality(T) + 2 <= N
  BY <1>1, <1>2, <1>3, <1>4
<1> QED
  BY <1>1, <1>5, <1>6

LEMMA OrderedOfInv ==
  ASSUME MaxBatch <= 1, N \notin {4, 6}, OrderedInv,
         NEW v \in InstanceIds, NEW w \in InstanceIds, Unrecovered(v), Unrecovered(w)
  PROVE  OrderedOn(v, w)
<1> SUFFICES ASSUME NEW r \in Replicas, NEW s \in Replicas, v # w, IsCommitted(r, v), IsCommitted(s, w),
                    Conflicting(instanceSpace[r][v].cmds, instanceSpace[s][w].cmds)
             PROVE  instanceSpace[r][v].deps[w[1]] >= w[2] \/ instanceSpace[s][w].deps[v[1]] >= v[2]
  BY DEF OrderedOn
<1>1. AgreementInv /\ TypeOK
  BY DEF OrderedInv, AgreementInv
<1>2. PICK Q \in [InstanceIds -> SUBSET Replicas] : OrderInv(Q)
  BY DEF OrderedInv
<1>3. /\ Own(v).status = COMMITTED /\ SameAttributes(instanceSpace[r][v], Own(v))
      /\ Own(w).status = COMMITTED /\ SameAttributes(instanceSpace[s][w], Own(w))
  BY <1>1, CommittedAsOwn
<1>4. Own(v).status >= PREACCEPTED /\ Own(v).status >= ACCEPTED /\ Own(w).status >= PREACCEPTED /\ Own(w).status >= ACCEPTED
  BY <1>3, Statuses
<1>5. /\ Own(v).cmds \in Batches /\ Own(v).deps \in Deps /\ Own(w).cmds \in Batches /\ Own(w).deps \in Deps
      /\ v[1] \in Replicas /\ w[1] \in Replicas /\ v[2] \in Int /\ w[2] \in Int
  BY <1>1, <1>4, OwnBatch, OwnFacts, SizeFacts
<1>6. Conflicting(Own(v).cmds, Own(w).cmds) /\ Conflicting(Own(w).cmds, Own(v).cmds)
  BY <1>3, <1>5, ConflictOfSingles DEF SameAttributes
<1> SUFFICES Own(v).deps[w[1]] >= w[2] \/ Own(w).deps[v[1]] >= v[2]
  BY <1>3 DEF SameAttributes
<1>7. CASE v[1] = w[1]
  <2>1. v[2] # w[2]
    BY <1>7 DEF InstanceIds
  <2>2. RowInv(v, w) /\ RowInv(w, v)
    BY <1>2 DEF OrderInv
  <2> QED
    BY <1>4, <1>5, <1>6, <1>7, <2>1, <2>2 DEF RowInv
<1>8. CASE v[1] # w[1]
  <2>1. VoteInv(v, Q[v]) /\ VoteInv(w, Q[w]) /\ PairInv(v, w, Q[v], Q[w])
    BY <1>2 DEF OrderInv
  <2>2. PICK x : x \in (Q[v] \cup {v[1]}) \cap (Q[w] \cup {w[1]})
    BY <1>4, <1>5, <2>1, FastQuorumsMeet DEF VoteInv
  <2>3. x \in Replicas /\ Holds(x, v, Q[v], Own(v).deps) /\ Holds(x, w, Q[w], Own(w).deps)
    BY <1>2, <1>4, <1>5, <2>2 DEF Holds
  <2> QED
    BY <1>4, <1>5, <1>6, <1>8, <2>1, <2>3 DEF PairInv
<1> QED
  BY <1>7, <1>8

\* Of two committed instances with conflicting commands that nobody has begun to recover, one
\* depends on the other.  Two replicas that propose without having seen each other's instance have
\* a replica in common in their fast quorums: it answers one of them after it has seen the other.
\* With batches it is false, because updateAttributes stops at the first command of the batch
\* that raises a dependency; with 4 or 6 replicas it is false, because two fast quorums may be disjoint.
THEOREM UnrecoveredOrdered ==
  ASSUME MaxBatch <= 1, N \notin {4, 6}
  PROVE  CommitSpec => [](\A v, w \in InstanceIds : Unrecovered(v) /\ Unrecovered(w) => OrderedOn(v, w))
<1>1. CommitInit => OrderedInv
  BY InitOrder
<1>2. OrderedInv /\ [CommitNext]_commitVars => OrderedInv'
  BY OrderStep
<1>3. OrderedInv => \A v, w \in InstanceIds : Unrecovered(v) /\ Unrecovered(w) => OrderedOn(v, w)
  BY OrderedOfInv
<1> QED
  BY <1>1, <1>2, <1>3, PTL DEF CommitSpec

\* All conflicting instances that are committed are ordered, as long as nobody has begun a recovery.
THEOREM ConflictsAreOrderedHolds ==
  ASSUME MaxBatch <= 1, N \notin {4, 6}
  PROVE  CommitSpec => [](recoveries = {} => ConflictsAreOrdered)
<1> DEFINE Ordered == \A v, w \in InstanceIds : Unrecovered(v) /\ Unrecovered(w) => OrderedOn(v, w)
           None == recoveries = {}
<1>1. Ordered => (None => ConflictsAreOrdered)
  BY DEF ConflictsAreOrdered, Unrecovered
<1>2. CommitSpec => []Ordered
  BY UnrecoveredOrdered
<1> HIDE DEF Ordered, None
<1>3. CommitSpec => [](None => ConflictsAreOrdered)
  BY <1>1, <1>2, PTL
<1> QED
  BY <1>3 DEF None
===============================================================================
