------------------------ MODULE ProducerAccountProofs ------------------------
(***************************************************************************)
(* The numbers the producer keeps, for every set of partitions and         *)
(* records, every configuration and every pattern of faults: the buffer's  *)
(* permits, types and bounds are accounted for (BufferIsAccounted); and,   *)
(* with no two partitions of one index, by which answers are read, the     *)
(* broker sees no hole in the sequence numbers (SequencesHaveNoGap).       *)
(* They rest on the invariants of ProducerProofs.                          *)
(***************************************************************************)
EXTENDS ProducerProofs

-----------------------------------------------------------------------------
(* The account of the buffer.                                              *)

(* Induction over the natural numbers, for a set of them.                  *)
LEMMA NatSetInduction ==
  ASSUME NEW T, 0 \in T, \A n \in Nat : n \in T => n + 1 \in T
  PROVE  Nat \subseteq T
<1> SUFFICES ASSUME Nat \ T # {} PROVE FALSE OBVIOUS
<1>1. PICK x \in Nat \ T : \A y \in Nat \ T : ~ (<<y, x>> \in OpToRel(<, Nat))
  BY NatLessThanWellFounded, WFMin
<1>2. \A y \in Nat \ T : ~ (y < x) BY <1>1 DEF OpToRel
<1>3. x \in Nat /\ x \notin T /\ x # 0 OBVIOUS
<1>4. x - 1 \in Nat /\ x - 1 < x BY <1>3
<1>5. x - 1 \in T BY <1>2, <1>4
<1>6. (x - 1) + 1 \in T BY <1>4, <1>5
<1> QED BY <1>3, <1>6

-----------------------------------------------------------------------------
(* Sums of sizes *)

(* The record a sum takes next, and the sum taken so.                      *)
One(s) == CHOOSE x \in s : TRUE

SumIter(R, it) == it = [s \in SUBSET R |-> IF s = {} THEN 0 ELSE Size[One(s)] + it[s \ {One(s)}]]

(* Sets of records are finite.                                             *)
LEMMA SmallSets ==
  ASSUME NEW s \in SUBSET Records, s # {}
  PROVE  /\ One(s) \in s /\ s \ {One(s)} \in SUBSET Records
         /\ Cardinality(s) \in Nat /\ Cardinality(s) # 0
         /\ \A x \in s : Cardinality(s \ {x}) = Cardinality(s) - 1
<1>1. IsFiniteSet(Records) BY FS_Interval, RecordsAssumption DEF Records
<1>2. IsFiniteSet(s) BY <1>1, FS_Subset
<1>3. Cardinality(s) \in Nat /\ Cardinality(s) # 0 BY <1>2, FS_CardinalityType, FS_EmptySet
<1>4. \A x \in s : Cardinality(s \ {x}) = Cardinality(s) - 1 BY <1>2, FS_RemoveElement
<1>5. One(s) \in s BY DEF One
<1> QED BY <1>3, <1>4, <1>5

LEMMA EmptyCard == Cardinality({}) = 0
BY FS_EmptySet

(* A sum over sets of records exists: by induction over how many they      *)
(* hold.                                                                   *)
LEMMA SumExists == \E it : SumIter(Records, it)
<1> DEFINE Turn1(it, s) == it[s] = IF s = {} THEN 0 ELSE Size[One(s)] + it[s \ {One(s)}]
           T == {n \in Nat : \E it : \A s \in SUBSET Records : Cardinality(s) <= n => Turn1(it, s)}
<1>0. \A s \in SUBSET Records : Cardinality(s) \in Nat /\ (s # {} => Cardinality(s) # 0)
  BY SmallSets, EmptyCard
<1>1. 0 \in T
  <2> DEFINE it == [s \in SUBSET Records |-> 0]
  <2>1. ASSUME NEW s \in SUBSET Records, Cardinality(s) <= 0 PROVE Turn1(it, s)
    <3>1. s = {} BY <1>0, <2>1
    <3> QED BY <3>1
  <2> HIDE DEF Turn1, it
  <2> QED BY <2>1
<1>2. ASSUME NEW n \in Nat, n \in T PROVE n + 1 \in T
  <2>1. PICK it : \A s \in SUBSET Records : Cardinality(s) <= n => Turn1(it, s) BY <1>2
  <2> DEFINE more == [s \in SUBSET Records |-> IF Cardinality(s) <= n THEN it[s]
                        ELSE Size[One(s)] + it[s \ {One(s)}]]
  <2>2. ASSUME NEW s \in SUBSET Records, Cardinality(s) <= n + 1 PROVE Turn1(more, s)
    <3>1. CASE s = {}
      <4>1. Cardinality(s) <= n BY <3>1, EmptyCard
      <4> QED BY <3>1, <4>1, <2>1
    <3>2. CASE s # {}
      <4>1. /\ One(s) \in s /\ s \ {One(s)} \in SUBSET Records
            /\ Cardinality(s) \in Nat
            /\ Cardinality(s \ {One(s)}) = Cardinality(s) - 1
        BY <3>2, SmallSets
      <4>2. Cardinality(s \ {One(s)}) <= n BY <4>1, <2>2
      <4>3. more[s \ {One(s)}] = it[s \ {One(s)}] BY <4>1, <4>2
      <4>4. more[s] = Size[One(s)] + it[s \ {One(s)}] BY <2>1, <3>2
      <4> QED BY <3>2, <4>3, <4>4
    <3> QED BY <3>1, <3>2
  <2> HIDE DEF Turn1, more
  <2> QED BY <2>2
<1> HIDE DEF T
<1>3. Cardinality(Records) \in T BY <1>0, <1>1, <1>2, NatSetInduction
<1>4. PICK it : \A s \in SUBSET Records : Cardinality(s) <= Cardinality(Records) => Turn1(it, s) BY <1>3 DEF T
<1>5. \A s \in SUBSET Records : Cardinality(s) <= Cardinality(Records)
  <2>1. IsFiniteSet(Records) BY FS_Interval, RecordsAssumption DEF Records
  <2> QED BY <2>1, FS_Subset
<1> DEFINE f == [s \in SUBSET Records |-> it[s]]
<1>6. SumIter(Records, f)
  <2>1. ASSUME NEW s \in SUBSET Records
        PROVE  f[s] = IF s = {} THEN 0 ELSE Size[One(s)] + f[s \ {One(s)}]
    <3>1. it[s] = IF s = {} THEN 0 ELSE Size[One(s)] + it[s \ {One(s)}] BY <1>4, <1>5
    <3>2. s # {} => s \ {One(s)} \in SUBSET Records OBVIOUS
    <3> QED BY <3>1, <3>2
  <2> QED BY <2>1 DEF SumIter
<1> QED BY <1>6

(* Permits is that sum.                                                    *)
LEMMA PermitsSum ==
  ASSUME NEW R
  PROVE  Permits(R) = (CHOOSE it : SumIter(R, it))[R]
BY DEF Permits, MapThenSumSet, MapThenFoldSet, SumIter, One

(* And there is one only.                                                  *)
LEMMA SumUnique ==
  ASSUME NEW R \in SUBSET Records, NEW f, SumIter(Records, f)
  PROVE  Permits(R) = f[R]
<1> DEFINE g == [s \in SUBSET R |-> f[s]]
<1>1. SumIter(R, g)
  <2>1. ASSUME NEW s \in SUBSET R
        PROVE  g[s] = IF s = {} THEN 0 ELSE Size[One(s)] + g[s \ {One(s)}]
    <3>1. s \in SUBSET Records /\ s \ {One(s)} \in SUBSET R OBVIOUS
    <3>2. f[s] = IF s = {} THEN 0 ELSE Size[One(s)] + f[s \ {One(s)}] BY <3>1 DEF SumIter
    <3> QED BY <3>1, <3>2
  <2> QED BY <2>1 DEF SumIter
<1> DEFINE it == CHOOSE h : SumIter(R, h)
<1>2. SumIter(R, it) BY <1>1
<1>3. PICK i : i = it OBVIOUS
<1>4. SumIter(R, i) /\ Permits(R) = i[R] BY <1>2, <1>3, PermitsSum
<1> DEFINE T == {n \in Nat : \A s \in SUBSET R : Cardinality(s) <= n => i[s] = f[s]}
<1>5. \A s \in SUBSET R : /\ Cardinality(s) \in Nat /\ (s # {} => Cardinality(s) # 0)
                          /\ s # {} => s \ {One(s)} \in SUBSET R /\ Cardinality(s \ {One(s)}) = Cardinality(s) - 1
  BY SmallSets, EmptyCard
<1>6. \A s \in SUBSET R : /\ i[s] = IF s = {} THEN 0 ELSE Size[One(s)] + i[s \ {One(s)}]
                          /\ f[s] = IF s = {} THEN 0 ELSE Size[One(s)] + f[s \ {One(s)}]
  <2>1. \A s \in SUBSET R : i[s] = IF s = {} THEN 0 ELSE Size[One(s)] + i[s \ {One(s)}] BY <1>4 DEF SumIter
  <2>2. \A s \in SUBSET Records : f[s] = IF s = {} THEN 0 ELSE Size[One(s)] + f[s \ {One(s)}] BY DEF SumIter
  <2> QED BY <2>1, <2>2
<1>7. 0 \in T
  <2>1. ASSUME NEW s \in SUBSET R, Cardinality(s) <= 0 PROVE i[s] = f[s]
    <3>0. Cardinality(s) \in Nat /\ (s # {} => Cardinality(s) # 0) BY <1>5
    <3>1. s = {} BY <2>1, <3>0
    <3> QED BY <1>6, <3>1
  <2> QED BY <2>1
<1>8. ASSUME NEW n \in Nat, n \in T PROVE n + 1 \in T
  <2>1. ASSUME NEW s \in SUBSET R, Cardinality(s) <= n + 1 PROVE i[s] = f[s]
    <3>1. CASE s = {} BY <1>6, <3>1
    <3>2. CASE s # {}
      <4>1. s \ {One(s)} \in SUBSET R /\ Cardinality(s \ {One(s)}) <= n BY <1>5, <2>1, <3>2
      <4>2. i[s \ {One(s)}] = f[s \ {One(s)}] BY <1>8, <4>1
      <4>3. /\ i[s] = Size[One(s)] + i[s \ {One(s)}]
            /\ f[s] = Size[One(s)] + f[s \ {One(s)}]
        BY <1>6, <3>2
      <4> QED BY <4>2, <4>3
    <3> QED BY <3>1, <3>2
  <2> QED BY <2>1
<1> HIDE DEF T
<1>9. Cardinality(R) \in T BY <1>5, <1>7, <1>8, NatSetInduction
<1>10. i[R] = f[R] BY <1>5, <1>9 DEF T
<1> QED BY <1>4, <1>10

(* The sum does not depend on the order in which it is taken.              *)
LEMMA PermitsStep ==
  /\ Permits({}) = 0
  /\ \A R \in SUBSET Records : /\ Permits(R) \in Nat
                               /\ \A x \in R : Permits(R) = Size[x] + Permits(R \ {x})
<1>1. PICK f : SumIter(Records, f) BY SumExists
<1>2. \A R \in SUBSET Records : Permits(R) = f[R] BY <1>1, SumUnique
<1>3. \A s \in SUBSET Records : f[s] = IF s = {} THEN 0 ELSE Size[One(s)] + f[s \ {One(s)}]
  BY <1>1 DEF SumIter
<1> DEFINE AnySum(s) == f[s] \in Nat /\ \A x \in s : f[s] = Size[x] + f[s \ {x}]
           T == {n \in Nat : \A s \in SUBSET Records : Cardinality(s) <= n => AnySum(s)}
<1>4. \A s \in SUBSET Records : Cardinality(s) \in Nat /\ (s # {} => Cardinality(s) # 0)
  BY SmallSets, EmptyCard
<1>5. f[{}] = 0 BY <1>3
<1>6. 0 \in T
  <2>1. ASSUME NEW s \in SUBSET Records, Cardinality(s) <= 0 PROVE AnySum(s)
    <3>1. s = {} BY <1>4, <2>1
    <3> QED BY <1>5, <3>1
  <2> HIDE DEF AnySum
  <2> QED BY <2>1
<1>7. ASSUME NEW n \in Nat, n \in T PROVE n + 1 \in T
  <2>1. ASSUME NEW s \in SUBSET Records, Cardinality(s) <= n + 1 PROVE AnySum(s)
    <3>1. CASE s = {} BY <1>5, <3>1
    <3>2. CASE s # {}
      <4> DEFINE c == One(s)
      <4>1. /\ c \in s /\ Cardinality(s) \in Nat
            /\ \A x \in s : Cardinality(s \ {x}) = Cardinality(s) - 1 /\ s \ {x} \in SUBSET Records
        BY <3>2, SmallSets
      <4>2. \A x \in s : AnySum(s \ {x})
        <5>1. \A x \in s : Cardinality(s \ {x}) <= n BY <2>1, <4>1
        <5> QED BY <1>7, <4>1, <5>1
      <4>3. f[s] = Size[c] + f[s \ {c}] BY <1>3, <3>2
      <4>4. \A x \in s : Size[x] \in Nat BY RecordsAssumption
      <4>5. f[s] \in Nat
        <5>1. f[s \ {c}] \in Nat /\ Size[c] \in Nat BY <4>1, <4>2, <4>4
        <5> HIDE DEF c
        <5> QED BY <4>3, <5>1
      <4> HIDE DEF c
      <4>6. ASSUME NEW x \in s PROVE f[s] = Size[x] + f[s \ {x}]
        <5>1. CASE x = c BY <4>3, <5>1
        <5>2. CASE x # c
          <6>1. x \in s \ {c} /\ c \in s \ {x} /\ (s \ {c}) \ {x} = (s \ {x}) \ {c} BY <4>1, <5>2
          <6>2. f[s \ {c}] = Size[x] + f[(s \ {c}) \ {x}] BY <4>1, <4>2, <6>1
          <6>3. f[s \ {x}] = Size[c] + f[(s \ {x}) \ {c}] BY <4>1, <4>2, <6>1
          <6>4. (s \ {c}) \ {x} \in SUBSET Records /\ Cardinality((s \ {c}) \ {x}) <= n
            <7>1. s \ {c} \in SUBSET Records /\ s \ {c} # {} BY <6>1
            <7>2. Cardinality((s \ {c}) \ {x}) = Cardinality(s \ {c}) - 1 /\ Cardinality(s \ {c}) = Cardinality(s) - 1
              BY <4>1, <6>1, <7>1, SmallSets
            <7> QED BY <2>1, <4>1, <7>2
          <6>5. f[(s \ {c}) \ {x}] \in Nat BY <1>7, <6>4
          <6>6. PICK k, a, b : k = f[(s \ {c}) \ {x}] /\ a = Size[x] /\ b = Size[c] OBVIOUS
          <6>7. k \in Nat /\ a \in Nat /\ b \in Nat BY <4>1, <4>4, <6>5, <6>6
          <6>8. f[s] = b + (a + k) /\ f[s \ {x}] = b + k BY <4>3, <6>1, <6>2, <6>3, <6>6
          <6>9. b + (a + k) = a + (b + k) BY <6>7
          <6> QED BY <6>6, <6>8, <6>9
        <5> QED BY <5>1, <5>2
      <4> QED BY <4>5, <4>6
    <3> QED BY <3>1, <3>2
  <2> HIDE DEF AnySum
  <2> QED BY <2>1
<1> HIDE DEF T
<1>8. Nat \subseteq T BY <1>6, <1>7, NatSetInduction
<1>9. \A s \in SUBSET Records : AnySum(s)
  <2> SUFFICES ASSUME NEW s \in SUBSET Records PROVE AnySum(s) OBVIOUS
  <2>1. PICK n : n = Cardinality(s) OBVIOUS
  <2>2. n \in Nat /\ n <= n BY <1>4, <2>1
  <2> HIDE DEF AnySum
  <2>3. \A u \in SUBSET Records : Cardinality(u) <= n => AnySum(u) BY <1>8, <2>2 DEF T
  <2> QED BY <2>1, <2>2, <2>3
<1>10. \A R \in SUBSET Records : \A x \in R : R \ {x} \in SUBSET Records OBVIOUS
<1> QED BY <1>2, <1>5, <1>9, <1>10

(* Sums of records apart, and of some of them.                             *)
LEMMA PermitsUnion ==
  ASSUME NEW A \in SUBSET Records, NEW B \in SUBSET Records, A \cap B = {}
  PROVE  Permits(A \cup B) = Permits(A) + Permits(B)
<1> DEFINE T == {n \in Nat : \A s \in SUBSET B : Cardinality(s) <= n => Permits(A \cup s) = Permits(A) + Permits(s)}
<1>1. \A s \in SUBSET B : Cardinality(s) \in Nat /\ (s # {} => Cardinality(s) # 0) BY SmallSets, EmptyCard
<1>2. Permits(A) \in Nat /\ Permits({}) = 0 BY PermitsStep
<1>3. 0 \in T
  <2>1. ASSUME NEW s \in SUBSET B, Cardinality(s) <= 0 PROVE Permits(A \cup s) = Permits(A) + Permits(s)
    <3>1. s = {} BY <1>1, <2>1
    <3>2. A \cup s = A BY <3>1
    <3> QED BY <1>2, <3>1, <3>2
  <2> QED BY <2>1
<1>4. ASSUME NEW n \in Nat, n \in T PROVE n + 1 \in T
  <2>1. ASSUME NEW s \in SUBSET B, Cardinality(s) <= n + 1 PROVE Permits(A \cup s) = Permits(A) + Permits(s)
    <3>1. CASE s = {}
      <4>1. A \cup s = A BY <3>1
      <4> QED BY <1>2, <3>1, <4>1
    <3>2. CASE s # {}
      <4>1. PICK x \in s : TRUE BY <3>2
      <4> DEFINE u == s \ {x}
      <4>2. u \in SUBSET B /\ Cardinality(u) <= n
        <5>1. Cardinality(u) = Cardinality(s) - 1 BY <3>2, SmallSets
        <5> QED BY <1>1, <2>1, <5>1
      <4>3. Permits(A \cup u) = Permits(A) + Permits(u) BY <1>4, <4>2
      <4>4. /\ x \in A \cup s /\ (A \cup s) \ {x} = A \cup u
            /\ A \cup s \in SUBSET Records /\ s \in SUBSET Records /\ u \in SUBSET Records
        BY <4>1
      <4> HIDE DEF u
      <4>5. Permits(A \cup s) = Size[x] + Permits(A \cup u) BY <4>4, PermitsStep
      <4>6. Permits(s) = Size[x] + Permits(u) BY <4>1, <4>4, PermitsStep DEF u
      <4>7. Size[x] \in Nat /\ Permits(u) \in Nat BY <4>4, RecordsAssumption, PermitsStep
      <4> QED BY <1>2, <4>3, <4>5, <4>6, <4>7
    <3> QED BY <3>1, <3>2
  <2> QED BY <2>1
<1> HIDE DEF T
<1>5. Cardinality(B) \in T BY <1>1, <1>3, <1>4, NatSetInduction
<1> QED BY <1>1, <1>5 DEF T

(* The permits of a set are those of a part of it and those of the rest.   *)
LEMMA PermitsPart ==
  ASSUME NEW R \in SUBSET Records, NEW D \in SUBSET R
  PROVE  /\ Permits(R) = Permits(R \ D) + Permits(D)
         /\ Permits(R) \in Nat /\ Permits(D) \in Nat /\ Permits(R \ D) \in Nat /\ Permits(D) <= Permits(R)
<1>1. /\ (R \ D) \cup D = R /\ (R \ D) \cap D = {}
      /\ R \ D \in SUBSET Records /\ D \in SUBSET Records
  OBVIOUS
<1>2. Permits((R \ D) \cup D) = Permits(R \ D) + Permits(D) BY <1>1, PermitsUnion
<1>3. Permits(R) \in Nat /\ Permits(D) \in Nat /\ Permits(R \ D) \in Nat BY <1>1, PermitsStep
<1>4. Permits(R) = Permits(R \ D) + Permits(D) BY <1>1, <1>2
<1> QED BY <1>3, <1>4

(* The permits of one record are its size.                                 *)
LEMMA PermitsOne ==
  ASSUME NEW r \in Records
  PROVE  Permits({r}) = Size[r] /\ Size[r] \in Nat
<1>1. {r} \in SUBSET Records /\ {r} \ {r} = {} /\ Size[r] \in Nat BY RecordsAssumption
<1>2. Permits({r}) = Size[r] + Permits({r} \ {r}) BY <1>1, PermitsStep
<1>3. Permits({}) = 0 BY PermitsStep
<1> QED BY <1>1, <1>2, <1>3

-----------------------------------------------------------------------------
(* The permits.  A step resolves the records X, which held permits, and    *)
(* gives the permits back.                                                 *)
Pays(X) ==
  /\ free' = free + Permits(X)
  /\ \A r \in X : r \in Records /\ Carried(r) /\ outcome'[r] # Pending
  /\ \A r \in Records : r \notin X => outcome'[r] = outcome[r]

PermitInv == FlushInv /\ PendingInv /\ free \in Int /\ PermitsConserved

LEMMA ToldIs ==
  \A k : k # "pending" => Told(k) # Pending
BY DEF Told, Pending

(* Records D that give their permits back keep the account.                *)
LEMMA Conserve ==
  ASSUME NEW f \in Int, NEW H \in SUBSET Records, NEW D \in SUBSET H, f + Permits(H) = BufferMemory
  PROVE  f + Permits(D) \in Int /\ (f + Permits(D)) + Permits(H \ D) = BufferMemory
<1>1. Permits(H) = Permits(H \ D) + Permits(D) /\ Permits(D) \in Nat /\ Permits(H \ D) \in Nat BY PermitsPart
<1> QED BY <1>1

(* Permits are held by records.                                            *)
LEMMA HeldIs ==
  ASSUME HandedOver
  PROVE  Held \in SUBSET Records
<1>1. ToSet(accepted) \subseteq Records BY ToSetType DEF HandedOver
<1>2. holding \subseteq Records BY RecordsAssumption DEF HandedOver, Records
<1> QED BY <1>1, <1>2 DEF Held

(* A step that resolves records and pays for them keeps the account.       *)
LEMMA PaysKeeps ==
  ASSUME PermitInv, NEW X, Pays(X), UNCHANGED <<holding, accepted>>
  PROVE  free' \in Int /\ PermitsConserved'
<1>0. HandedOver /\ Placed BY DEF PermitInv, PendingInv, CustodyInv
<1>1. Held \in SUBSET Records BY <1>0, HeldIs
<1>2. \A r \in X : r \in ToSet(accepted) /\ outcome[r] = Pending /\ r \notin holding
  <2>1. ASSUME NEW r \in X PROVE r \in ToSet(accepted) /\ outcome[r] = Pending /\ r \notin holding
    <3>1. r \in Records /\ Carried(r) BY DEF Pays
    <3>2. r \in ToSet(accepted) BY <1>0, <3>1, WaitingOrCarried
    <3>3. outcome[r] = Pending BY <3>1 DEF PermitInv, PendingInv
    <3> QED BY <1>0, <3>2, <3>3 DEF HandedOver
  <2> QED BY <2>1
<1>3. X \in SUBSET Held BY <1>2 DEF Held
<1>4. Held' = Held \ X
  <2>1. Held' = holding \cup {r \in ToSet(accepted) : outcome'[r] = Pending} BY DEF Held
  <2>2. ToSet(accepted) \subseteq Records BY <1>0, ToSetType DEF HandedOver
  <2>3. \A r \in ToSet(accepted) : outcome'[r] = Pending <=> outcome[r] = Pending /\ r \notin X
    BY <2>2 DEF Pays
  <2> QED BY <1>2, <2>1, <2>3 DEF Held
<1>5. free \in Int /\ free + Permits(Held) = BufferMemory /\ free' = free + Permits(X)
  BY DEF PermitInv, PermitsConserved, Pays
<1>6. free + Permits(X) \in Int /\ (free + Permits(X)) + Permits(Held \ X) = BufferMemory
  <2>1. PICK f, H : f = free /\ H = Held OBVIOUS
  <2>2. f \in Int /\ H \in SUBSET Records /\ X \in SUBSET H /\ f + Permits(H) = BufferMemory
    BY <1>1, <1>3, <1>5, <2>1
  <2>3. f + Permits(X) \in Int /\ (f + Permits(X)) + Permits(H \ X) = BufferMemory BY <2>2, Conserve
  <2> QED BY <2>1, <2>3
<1>7. PermitsConserved' <=> free' + Permits(Held') = BufferMemory BY DEF PermitsConserved
<1> QED BY <1>4, <1>5, <1>6, <1>7

(* So does a step that touches no permit.                                  *)
LEMMA SamePermits ==
  ASSUME PermitInv, free' = free, Held' = Held
  PROVE  free' \in Int /\ PermitsConserved'
<1>1. PermitsConserved' <=> free' + Permits(Held') = BufferMemory BY DEF PermitsConserved
<1> QED BY <1>1 DEF PermitInv, PermitsConserved

(* The turn of an actor whose buffers hold what they held, and N.          *)
LEMMA TurnPays ==
  ASSUME CustodyInv, NEW A, ActorOK(A), NEW F, NEW C, Turn(A, F, C),
         \A r \in Buffered(A) : Carried(r)
  PROVE  \E X : Pays(X)
<1> DEFINE X == Overdue(A, overdue)
<1>1. /\ outcome' = [r \in Records |-> IF r \in X THEN Told("expired") ELSE outcome[r]]
      /\ free' = free + Permits(X)
  <2>1. Resolve([r \in X |-> Told("expired")]) BY DEF Turn
  <2>2. DOMAIN [r \in X |-> Told("expired")] = X OBVIOUS
  <2>3. /\ outcome' = [r \in Records |-> IF r \in X THEN [y \in X |-> Told("expired")][r] ELSE outcome[r]]
        /\ free' = free + Permits(X)
    BY <2>1, <2>2 DEF Resolve
  <2> QED BY <2>3
<1>2. X \subseteq Buffered(A) /\ \A r \in Buffered(A) : r \in Records BY BufferedHome DEF Overdue
<1> HIDE DEF X
<1>3. Told("expired") # Pending BY ToldIs
<1>4. Pays(X) BY <1>1, <1>2, <1>3 DEF Pays
<1> QED BY <1>4

(* Every step of the actor resolves records that it buffered, and pays.    *)
LEMMA ActorPays ==
  ASSUME CustodyInv, free \in Int, ActorNext
  PROVE  \E X : Pays(X)
<1>0. ActorOK(actor) /\ Shapes /\ Placed BY DEF CustodyInv, Shapes
<1>1. \A r \in Buffered(actor) : Carried(r) BY DEF Carried, InHand
<1>2. CASE HandleAppend
  <2>1. /\ commands # <<>> /\ Head(commands).type = "append"
        /\ Turn(append(actor, Head(commands).id), flush, closing)
    BY <1>2 DEF HandleAppend
  <2>2. PICK h \in Records : Head(commands) = AppendCommand(h) /\ Head(commands).id = h
    BY <1>0, <2>1, HeadCommand
  <2>3. InChannel(h) BY <1>0, <2>1, <2>2, HeadCommand DEF InChannel
  <2>4. h \notin Buffered(actor) BY <1>0, <2>3 DEF Placed
  <2> DEFINE A == append(actor, h)
  <2>5. ActorOK(A) /\ \A r : r \in Buffered(A) <=> r \in Buffered(actor) \/ r = h BY <1>0, <2>4, AppendActor
  <2>6. Turn(A, flush, closing) BY <2>1, <2>2
  <2> HIDE DEF A
  <2>7. \A r \in Buffered(A) : Carried(r) BY <1>1, <2>3, <2>5 DEF Carried
  <2> QED BY <2>5, <2>6, <2>7, TurnPays
<1>3. ASSUME NEW A, ActorOK(A), \A r : r \in Buffered(A) <=> r \in Buffered(actor),
             NEW F, NEW C, Turn(A, F, C)
      PROVE  \E X : Pays(X)
  BY <1>1, <1>3, TurnPays
<1>4. CASE HandleFlush BY <1>0, <1>3, <1>4, CloseActor DEF HandleFlush, close_all
<1>5. CASE HandleClosed BY <1>0, <1>3, <1>5, CloseActor DEF HandleClosed, close_all
<1>6. ASSUME NEW c \in completions, HandleCompleted(c) PROVE \E X : Pays(X)
  BY <1>0, <1>3, <1>6, SettleActor DEF HandleCompleted
<1>7. ASSUME NEW lingered \in SUBSET Partitions, Wake(lingered) PROVE \E X : Pays(X)
  BY <1>0, <1>3, <1>7, CloseActor DEF Wake, close_expired
<1>8. CASE ClaimOk \/ ClaimRetriable
  <2>1. free' = free /\ outcome' = outcome BY <1>8 DEF ClaimOk, ClaimRetriable
  <2>2. free \in Int => free + Permits({}) = free BY PermitsStep
  <2> QED BY <2>1, <2>2 DEF Pays
<1>9. CASE ClaimTerminal
  <2> DEFINE X == Buffered(actor)
  <2>1. Resolve([r \in X |-> Told("unsent")]) BY <1>9 DEF ClaimTerminal
  <2>2. DOMAIN [r \in X |-> Told("unsent")] = X OBVIOUS
  <2>3. /\ outcome' = [r \in Records |-> IF r \in X THEN [y \in X |-> Told("unsent")][r] ELSE outcome[r]]
        /\ free' = free + Permits(X)
    BY <2>1, <2>2 DEF Resolve
  <2>4. \A r \in X : r \in Records /\ Carried(r) BY <1>0, <1>1, BufferedHome
  <2> HIDE DEF X
  <2>5. Told("unsent") # Pending BY ToldIs
  <2>6. Pays(X) BY <2>3, <2>4, <2>5 DEF Pays
  <2> QED BY <2>6
<1> QED BY <1>2, <1>4, <1>5, <1>6, <1>7, <1>8, <1>9 DEF ActorNext

(* And every step of a task, records of its own batches.                   *)
LEMMA TaskPays ==
  ASSUME CustodyInv, free \in Int, TaskNext
  PROVE  \E X : Pays(X)
<1>0. PICK t \in tasks : TaskStep(t) BY DEF TaskNext
<1>1. TaskOK(t) BY DEF CustodyInv, Shapes
<1>2. ASSUME NEW P, P \subseteq DOMAIN t.batch, \A p \in P : t.res[p].kind # "unencodable"
      PROVE  \A r \in BatchRecords(t, P) : r \in Records /\ Carried(r)
  <2>1. ASSUME NEW r \in BatchRecords(t, P) PROVE r \in Records /\ Carried(r)
    <3>1. PICK p \in P : r \in ToSet(t.batch[p].recs) BY DEF BatchRecords
    <3>2. p \in DOMAIN t.batch /\ t.res[p].kind # "unencodable" BY <1>2
    <3>3. r \in Records BY <1>1, <3>1, <3>2, TaskRecords
    <3>4. r \in OnTask BY <3>1, <3>2, OnTaskIs
    <3> QED BY <3>3, <3>4 DEF Carried, InHand
  <2> QED BY <2>1
<1>3. CASE Encode(t)
  <2> DEFINE bad == {p \in t.live : ToSet(t.batch[p].recs) \cap Unencodable # {}}
             X == BatchRecords(t, bad)
  <2>1. t.attempt = 0 /\ Resolve([r \in X |-> Told("unsent")]) BY <1>3 DEF Encode
  <2>2. DOMAIN [r \in X |-> Told("unsent")] = X OBVIOUS
  <2>3. /\ outcome' = [r \in Records |-> IF r \in X THEN [y \in X |-> Told("unsent")][r] ELSE outcome[r]]
        /\ free' = free + Permits(X)
    BY <2>1, <2>2 DEF Resolve
  <2>4. bad \subseteq DOMAIN t.batch /\ \A p \in bad : t.res[p].kind # "unencodable" BY <1>1 DEF TaskOK
  <2> HIDE DEF bad
  <2>5. \A r \in X : r \in Records /\ Carried(r) BY <1>2, <2>4
  <2> HIDE DEF X
  <2>6. Told("unsent") # Pending BY ToldIs
  <2>7. Pays(X) BY <2>3, <2>5, <2>6 DEF Pays
  <2> QED BY <2>7
<1>4. CASE Judge(t)
  <2> DEFINE P == {p \in DOMAIN t.batch : t.res[p].kind # "unencodable"}
             X == BatchRecords(t, P)
             results == [r \in X |-> Verdict(t, r)]
  <2>1. \/ free' = free /\ outcome' = outcome
        \/ Resolve(results)
    BY <1>4 DEF Judge
  <2>2. CASE free' = free /\ outcome' = outcome
    <3>1. free + Permits({}) = free BY PermitsStep
    <3> QED BY <2>2, <3>1 DEF Pays
  <2>3. CASE Resolve(results)
    <3>1. DOMAIN results = X /\ \A r \in X : results[r] = Verdict(t, r) OBVIOUS
    <3>2. P \subseteq DOMAIN t.batch /\ \A p \in P : t.res[p].kind # "unencodable" OBVIOUS
    <3> HIDE DEF P
    <3>3. \A r \in X : r \in Records /\ Carried(r) BY <1>2, <3>2
    <3>4. \A r \in X : Verdict(t, r) # Pending
      <4>1. \A r \in X : \E p \in P : r \in ToSet(t.batch[p].recs) BY DEF BatchRecords
      <4> HIDE DEF X
      <4> QED BY <1>1, <3>2, <4>1, VerdictKind
    <3> HIDE DEF X, results
    <3>5. /\ outcome' = [r \in Records |-> IF r \in X THEN results[r] ELSE outcome[r]]
          /\ free' = free + Permits(X)
      BY <2>3, <3>1 DEF Resolve
    <3>6. Pays(X) BY <3>1, <3>3, <3>4, <3>5 DEF Pays
    <3> QED BY <3>6
  <2> QED BY <2>1, <2>2, <2>3
<1>5. CASE \E G \in SUBSET t.live : RouteFails(t, G) \/ Respond(t, G) \/ LoseRequest(t, G)
  <2>1. free' = free /\ outcome' = outcome BY <1>5 DEF RouteFails, Respond, LoseRequest
  <2>2. free + Permits({}) = free BY PermitsStep
  <2> QED BY <2>1, <2>2 DEF Pays
<1> QED BY <1>0, <1>3, <1>4, <1>5 DEF TaskStep

(* A caller takes permits, or returns those it holds.                      *)
LEMMA CallerConserves ==
  ASSUME PermitInv, CallerNext
  PROVE  free' \in Int /\ PermitsConserved'
<1>0. HandedOver /\ HandedOver' /\ Held \in SUBSET Records /\ free \in Int /\ free + Permits(Held) = BufferMemory
  <2>1. HandedOver /\ free \in Int /\ free + Permits(Held) = BufferMemory
    BY DEF PermitInv, PendingInv, CustodyInv, PermitsConserved
  <2>2. HandedOver' BY <2>1, HandedStep DEF Next
  <2> QED BY <2>1, <2>2, HeldIs
<1>1. PermitsConserved' <=> free' + Permits(Held') = BufferMemory BY DEF PermitsConserved
<1>2. /\ ToSet(waiters) \cup holding \cup ToSet(accepted) \subseteq Records
      /\ \A r \in ToSet(waiters) \cup holding : outcome[r] = Pending /\ r \notin ToSet(accepted)
      /\ ToSet(waiters) \cap holding = {}
  <2>1. 1..submitted \subseteq Records BY <1>0, RecordsAssumption DEF HandedOver, Records
  <2>2. ToSet(waiters) \cup holding \cup ToSet(accepted) \subseteq Records BY <1>0, <2>1 DEF HandedOver
  <2>3. \A r \in ToSet(waiters) \cup holding : outcome[r] = Pending BY <2>2 DEF PermitInv, PendingInv, Waiting
  <2> QED BY <1>0, <2>2, <2>3 DEF HandedOver
<1>3. CASE Submit
  <2> DEFINE n == submitted + 1
  <2>1. /\ UNCHANGED <<holding, accepted, free>> /\ submitted < NumRecords
        /\ outcome' = outcome \/ outcome' = [outcome EXCEPT ![n] = Told("refused")]
    BY <1>3 DEF Submit
  <2>2. n \notin ToSet(accepted)
    <3>1. n \notin 1..submitted BY <1>0 DEF HandedOver
    <3> QED BY <1>0, <3>1 DEF HandedOver
  <2> HIDE DEF n
  <2>3. \A r \in ToSet(accepted) : outcome'[r] = outcome[r]
    <3>1. \A r \in ToSet(accepted) : [outcome EXCEPT ![n] = Told("refused")][r] = outcome[r] BY <2>2
    <3> QED BY <2>1, <3>1
  <2>4. Held' = Held BY <2>1, <2>3 DEF Held
  <2> QED BY <2>1, <2>4, SamePermits
<1>4. CASE AcquirePermit
  <2> DEFINE h == Head(waiters)
  <2>1. /\ waiters # <<>> /\ holding' = holding \cup {h} /\ free' = free - Size[h]
        /\ UNCHANGED <<accepted, outcome>>
    BY <1>4 DEF AcquirePermit
  <2>2. h \in ToSet(waiters)
    <3>1. waiters \in Seq(Records) BY <1>0 DEF HandedOver
    <3>2. 1 \in DOMAIN waiters /\ h = waiters[1] BY <2>1, <3>1
    <3> QED BY <3>2 DEF ToSet
  <2> HIDE DEF h
  <2>3. h \in Records /\ h \notin Held BY <1>2, <2>2 DEF Held
  <2>4. Held' = Held \cup {h} BY <2>1 DEF Held
  <2>5. Permits(Held \cup {h}) = Permits(Held) + Size[h] /\ Size[h] \in Nat
    <3>1. {h} \in SUBSET Records /\ Held \cap {h} = {} BY <2>3
    <3>2. Permits(Held \cup {h}) = Permits(Held) + Permits({h}) BY <1>0, <3>1, PermitsUnion
    <3> QED BY <2>3, <3>2, PermitsOne
  <2>6. Permits(Held) \in Nat BY <1>0, PermitsStep
  <2>7. free' + Permits(Held') = (free - Size[h]) + (Permits(Held) + Size[h]) BY <2>1, <2>4, <2>5
  <2> QED BY <1>0, <1>1, <2>1, <2>5, <2>6, <2>7
<1>5. CASE DropHandles \/ \E f \in Flushes : CallFlush(f)
  <2>1. UNCHANGED <<free, holding, accepted, outcome>> BY <1>5 DEF DropHandles, CallFlush
  <2>2. Held' = Held BY <2>1 DEF Held
  <2> QED BY <2>1, <2>2, SamePermits
<1>6. ASSUME NEW r \in Records, Enqueue(r) PROVE free' \in Int /\ PermitsConserved'
  <2>1. /\ r \in holding /\ holding' = holding \ {r} /\ accepted' = Append(accepted, r)
        /\ UNCHANGED <<free, outcome>>
    BY <1>6 DEF Enqueue
  <2>2. accepted \in Seq(Records) BY <1>0 DEF HandedOver
  <2>3. ToSet(accepted') = ToSet(accepted) \cup {r} BY <2>1, <2>2, ToSetAppend
  <2>4. Held' = (holding \ {r}) \cup {x \in ToSet(accepted) \cup {r} : outcome[x] = Pending}
    BY <2>1, <2>3 DEF Held
  <2>5. Held' = Held BY <1>2, <2>1, <2>4 DEF Held
  <2> QED BY <2>1, <2>5, SamePermits
<1>7. ASSUME NEW r \in Records, PermitTimeout(r) \/ CancelAppend(r) PROVE free' \in Int /\ PermitsConserved'
  <2>1. \A k : \A x \in ToSet(accepted) : r \notin ToSet(accepted) => [outcome EXCEPT ![r] = Told(k)][x] = outcome[x]
    OBVIOUS
  <2>2. CASE r \in ToSet(waiters) /\ UNCHANGED <<holding, free, accepted>>
    <3>1. \E k : outcome' = [outcome EXCEPT ![r] = Told(k)] BY <1>7 DEF PermitTimeout, CancelAppend
    <3>2. \A x \in ToSet(accepted) : outcome'[x] = outcome[x] BY <1>2, <2>1, <2>2, <3>1
    <3>3. Held' = Held BY <2>2, <3>2 DEF Held
    <3> QED BY <2>2, <3>3, SamePermits
  <2>3. CASE r \in holding /\ holding' = holding \ {r} /\ free' = free + Size[r] /\ accepted' = accepted
    <3>1. \E k : outcome' = [outcome EXCEPT ![r] = Told(k)] BY <1>7 DEF PermitTimeout, CancelAppend
    <3>2. \A x \in ToSet(accepted) : outcome'[x] = outcome[x] BY <1>2, <2>1, <2>3, <3>1
    <3>3. Held' = Held \ {r} BY <1>2, <2>3, <3>2 DEF Held
    <3>4. {r} \in SUBSET Held BY <2>3 DEF Held
    <3>5. Permits({r}) = Size[r] BY PermitsOne
    <3>6. PICK f, H : f = free /\ H = Held OBVIOUS
    <3>7. f \in Int /\ H \in SUBSET Records /\ {r} \in SUBSET H /\ f + Permits(H) = BufferMemory
      BY <1>0, <3>4, <3>6
    <3>8. f + Permits({r}) \in Int /\ (f + Permits({r})) + Permits(H \ {r}) = BufferMemory BY <3>7, Conserve
    <3> QED BY <1>1, <2>3, <3>3, <3>5, <3>6, <3>8
  <2> QED BY <1>7, <2>2, <2>3 DEF PermitTimeout, CancelAppend
<1> QED BY <1>3, <1>4, <1>5, <1>6, <1>7 DEF CallerNext

(* The account of the permits is inductive.                                *)
LEMMA PermitStep == PermitInv /\ [Next]_vars => PermitInv'
<1> SUFFICES ASSUME PermitInv, [Next]_vars PROVE PermitInv' OBVIOUS
<1>1. CustodyInv /\ FlushInv' /\ PendingInv' /\ free \in Int
  BY FlushStep, PendingStep DEF PermitInv, PendingInv
<1>2. CASE CallerNext BY <1>1, <1>2, CallerConserves DEF PermitInv
<1>3. CASE ActorNext \/ TaskNext
  <2>1. \E X : Pays(X) BY <1>1, <1>3, ActorPays, TaskPays
  <2>2. UNCHANGED <<holding, accepted>>
    BY <1>3 DEF ActorNext, HandleAppend, HandleFlush, HandleClosed, HandleCompleted, Wake, ClaimOk,
         ClaimRetriable, ClaimTerminal, TaskNext, TaskStep, Encode, Judge, RouteFails, Respond,
         LoseRequest, callerVars
  <2> QED BY <1>1, <2>1, <2>2, PaysKeeps DEF PermitInv
<1>4. CASE ClusterNext \/ DeadlinePasses \/ Stopped \/ UNCHANGED vars
  <2>1. UNCHANGED <<free, holding, accepted, outcome>>
    BY <1>4 DEF ClusterNext, GhostArrives, Forget, DeadlinePasses, Stopped, vars, callerVars
  <2>2. Held' = Held BY <2>1 DEF Held
  <2> QED BY <1>1, <2>1, <2>2, SamePermits DEF PermitInv
<1> QED BY <1>2, <1>3, <1>4 DEF Next

LEMMA PermitInit == Init => PermitInv
<1> SUFFICES ASSUME Init PROVE PermitInv OBVIOUS
<1>1. FlushInv /\ PendingInv BY FlushInit, PendingInit
<1>2. free = BufferMemory /\ BufferMemory \in Nat /\ holding = {} /\ accepted = <<>>
  BY LimitsAssumption DEF Init
<1>3. Held = {} BY <1>2 DEF Held, ToSet
<1>4. Permits(Held) = 0 BY <1>3, PermitsStep
<1> QED BY <1>1, <1>2, <1>4 DEF PermitInv, PermitsConserved

-----------------------------------------------------------------------------
(* The batches and the types.                                              *)

(* A batch of several records fits a batch and a request.                  *)
Fits(b) == Len(b) > 1 => Bytes(b) <= BatchSize /\ Bytes(b) <= MaxRequest

(* An actor state: batches that fit, numbers that are numbers.             *)
BuffersFit(A) ==
  \A p \in Partitions : /\ Fits(A.open[p])
                        /\ \A i \in DOMAIN A.pending[p] : A.pending[p][i] # <<>> /\ Fits(A.pending[p][i])

(* A table with one entry for each partition.                              *)
Tabled(f) == f = [p \in Partitions |-> f[p]]

Numbers(A) ==
  /\ A.next \in [Partitions -> Nat] /\ A.identity \in Nat
  /\ Tabled(A.open) /\ Tabled(A.pending)

Sound(A) == ActorOK(A) /\ BuffersFit(A) /\ Numbers(A)

(* A batch weighs what its records hold.                                   *)
LEMMA BytesIs ==
  ASSUME NEW b \in Seq(Records)
  PROVE  Bytes(b) = Permits(ToSet(b)) /\ ToSet(b) \in SUBSET Records /\ Bytes(b) \in Nat
<1>1. Bytes(b) = Permits(ToSet(b)) BY DEF Bytes, Permits
<1>2. ToSet(b) \in SUBSET Records BY ToSetType
<1> QED BY <1>1, <1>2, PermitsStep

LEMMA EmptyFits == Fits(<<>>)
BY DEF Fits

(* One more record.                                                        *)
LEMMA AppendFits ==
  ASSUME NEW b \in Seq(Records), NEW r \in Records,
         b = <<>> \/ (~(Bytes(b) + Size[r] > BatchSize) /\ ~(Bytes(b) + Size[r] > MaxRequest))
  PROVE  Fits(Append(b, r))
<1> DEFINE a == Append(b, r)
<1>1. a \in Seq(Records) /\ Len(a) = Len(b) + 1 /\ Len(b) \in Nat OBVIOUS
<1>2. CASE b = <<>>
  <2>1. Len(a) = 1 BY <1>1, <1>2
  <2> HIDE DEF a
  <2>2. ~(Len(a) > 1) BY <2>1
  <2>3. Fits(a) BY <2>2 DEF Fits
  <2> QED BY <2>3 DEF a
<1>3. CASE ~(Bytes(b) + Size[r] > BatchSize) /\ ~(Bytes(b) + Size[r] > MaxRequest)
  <2>1. ToSet(a) = ToSet(b) \cup {r} BY ToSetAppend
  <2> HIDE DEF a
  <2>2. /\ Bytes(a) = Permits(ToSet(b) \cup {r}) /\ Bytes(a) \in Nat /\ Bytes(b) = Permits(ToSet(b))
        /\ ToSet(b) \in SUBSET Records /\ Bytes(b) \in Nat
    BY <1>1, <2>1, BytesIs
  <2>3. Bytes(a) <= Bytes(b) + Size[r] /\ Size[r] \in Nat
    <3>1. Permits({r}) = Size[r] /\ Size[r] \in Nat BY PermitsOne
    <3>2. CASE r \in ToSet(b)
      <4>1. ToSet(b) \cup {r} = ToSet(b) BY <3>2
      <4>2. Bytes(a) = Bytes(b) BY <2>2, <4>1
      <4> QED BY <2>2, <3>1, <4>2
    <3>3. CASE r \notin ToSet(b)
      <4>1. {r} \in SUBSET Records /\ ToSet(b) \cap {r} = {} BY <3>3
      <4>2. Permits(ToSet(b) \cup {r}) = Permits(ToSet(b)) + Permits({r}) BY <2>2, <4>1, PermitsUnion
      <4>3. Bytes(a) = Bytes(b) + Size[r] BY <2>2, <3>1, <4>2
      <4> QED BY <2>2, <3>1, <4>3
    <3> QED BY <3>2, <3>3
  <2>4. BatchSize \in Nat /\ MaxRequest \in Nat BY LimitsAssumption
  <2>5. Bytes(a) <= BatchSize /\ Bytes(a) <= MaxRequest BY <1>3, <2>2, <2>3, <2>4
  <2>6. Fits(a) BY <2>5 DEF Fits
  <2> QED BY <2>6 DEF a
<1> QED BY <1>2, <1>3

(* Some of the records.                                                    *)
LEMMA RetainFits ==
  ASSUME NEW b \in Seq(Records), Fits(b), NEW K \in SUBSET DOMAIN b
  PROVE  Retain(b, K) \in Seq(Records) /\ Fits(Retain(b, K))
<1> DEFINE c == Retain(b, K)
<1>1. c \in Seq(Records) /\ \A x : x \in ToSet(c) <=> \E i \in K : b[i] = x BY RetainKeeps
<1>2. Len(b) \in Nat /\ DOMAIN b = 1..Len(b) OBVIOUS
<1>3. Cardinality(K) \in Nat /\ Cardinality(K) <= Len(b)
  <2>1. IsFiniteSet(1..Len(b)) /\ Cardinality(1..Len(b)) = Len(b)
    <3>1. \A n \in Nat : IsFiniteSet(1..n) /\ Cardinality(1..n) = IF 1 > n THEN 0 ELSE n - 1 + 1
      BY FS_Interval
    <3>2. \A n \in Nat : Cardinality(1..n) = n BY <3>1
    <3> QED BY <1>2, <3>1, <3>2
  <2> QED BY <1>2, <2>1, FS_Subset, FS_CardinalityType
<1>4. Len(c) = Cardinality(K)
  <2>1. DOMAIN c = 1..Cardinality(K) BY DEF Retain
  <2>2. DOMAIN c = 1..Len(c) /\ Len(c) \in Nat BY <1>1
  <2> QED BY <1>3, <2>1, <2>2
<1>5. ToSet(c) \in SUBSET ToSet(b) BY <1>1 DEF ToSet
<1> HIDE DEF c
<1>6. Bytes(c) <= Bytes(b) /\ Bytes(c) \in Nat /\ Bytes(b) \in Nat
  <2>1. /\ Bytes(c) = Permits(ToSet(c)) /\ Bytes(b) = Permits(ToSet(b)) /\ ToSet(b) \in SUBSET Records
        /\ Bytes(c) \in Nat /\ Bytes(b) \in Nat
    BY <1>1, BytesIs
  <2> QED BY <1>5, <2>1, PermitsPart
<1>7. Len(c) > 1 => Len(b) > 1 BY <1>2, <1>3, <1>4
<1>8. BatchSize \in Nat /\ MaxRequest \in Nat BY LimitsAssumption
<1>9. Fits(c) BY <1>6, <1>7, <1>8 DEF Fits
<1> QED BY <1>1, <1>9 DEF c

(* Closing keeps the bounds.                                               *)
LEMMA CloseFits ==
  ASSUME NEW A, ActorOK(A), NEW S, BuffersFit(A)
  PROVE  BuffersFit(Close(A, S))
<1> DEFINE pending == [p \in Partitions |->
             IF p \in S /\ A.open[p] # <<>> THEN Append(A.pending[p], A.open[p]) ELSE A.pending[p]]
           open == [p \in Partitions |-> IF p \in S THEN <<>> ELSE A.open[p]]
           B == Close(A, S)
<1>1. B.open = open /\ B.pending = pending BY DEF Close, ActorOK, Fields
<1> HIDE DEF B
<1>2. ASSUME NEW p \in Partitions
      PROVE  /\ Fits(open[p])
             /\ \A i \in DOMAIN pending[p] : pending[p][i] # <<>> /\ Fits(pending[p][i])
  <2>1. /\ Fits(A.open[p])
        /\ \A i \in DOMAIN A.pending[p] : A.pending[p][i] # <<>> /\ Fits(A.pending[p][i])
    BY DEF BuffersFit
  <2>2. Fits(open[p]) BY <2>1, EmptyFits
  <2>3. CASE p \in S /\ A.open[p] # <<>>
    <3> DEFINE o == A.open[p]
               q == A.pending[p]
    <3>1. pending[p] = Append(q, o) /\ o # <<>> BY <2>3
    <3>2. o \in Seq(Records) /\ q \in Seq(Seq(Records)) BY DEF ActorOK, BufferOK
    <3> HIDE DEF o, q, pending
    <3>3. \A i \in DOMAIN Append(q, o) : (i \in DOMAIN q /\ Append(q, o)[i] = q[i]) \/ Append(q, o)[i] = o
      BY <3>2
    <3>4. Fits(o) /\ \A i \in DOMAIN q : q[i] # <<>> /\ Fits(q[i]) BY <2>1 DEF o, q
    <3>5. \A i \in DOMAIN Append(q, o) : Append(q, o)[i] # <<>> /\ Fits(Append(q, o)[i]) BY <3>1, <3>3, <3>4
    <3> QED BY <2>2, <3>1, <3>5
  <2>4. CASE ~(p \in S /\ A.open[p] # <<>>)
    <3>1. pending[p] = A.pending[p] BY <2>4
    <3> QED BY <2>1, <2>2, <3>1
  <2> QED BY <2>3, <2>4
<1> HIDE DEF open, pending
<1> QED BY <1>1, <1>2 DEF BuffersFit, B

(* So does appending: a record that would overflow opens another batch.    *)
LEMMA AppendBuffersFit ==
  ASSUME NEW A, ActorOK(A), NEW r \in Records, r \notin Buffered(A), BuffersFit(A)
  PROVE  BuffersFit(append(A, r))
<1> DEFINE p == PartitionOf[r]
           wouldBe == Bytes(A.open[p]) + Size[r]
           overflow == A.open[p] # <<>> /\ (wouldBe > BatchSize \/ wouldBe > MaxRequest)
           B == IF overflow THEN Close(A, {p}) ELSE A
           C == [B EXCEPT !.open[p] = Append(@, r)]
<1>0. p \in Partitions BY RecordsAssumption
<1>1. ActorOK(B) /\ BuffersFit(B) /\ \A x : x \in Buffered(B) <=> x \in Buffered(A) BY CloseActor, CloseFits
<1>2. append(A, r) = IF Bytes(C.open[p]) >= BatchSize THEN Close(C, {p}) ELSE C BY DEF append
<1>3. B.open[p] = <<>> \/ (~(Bytes(B.open[p]) + Size[r] > BatchSize) /\ ~(Bytes(B.open[p]) + Size[r] > MaxRequest))
  <2>1. CASE overflow
    <3>1. Close(A, {p}).open = [s \in Partitions |-> IF s \in {p} THEN <<>> ELSE A.open[s]]
      BY DEF Close, ActorOK, Fields
    <3>2. Close(A, {p}).open[p] = <<>> BY <1>0, <3>1
    <3> QED BY <2>1, <3>2
  <2>2. CASE ~overflow BY <2>2
  <2> QED BY <2>1, <2>2
<1> HIDE DEF B
<1>4. /\ DOMAIN C = Fields /\ C.pending = B.pending /\ DOMAIN C.open = Partitions
      /\ C.open[p] = Append(B.open[p], r)
      /\ \A s \in Partitions : s # p => C.open[s] = B.open[s]
  BY <1>0, <1>1 DEF ActorOK, Fields
<1> HIDE DEF C
<1>5. BufferOK(B.open[p], B.pending[p], p) /\ ~In(B.open[p], B.pending[p], r)
  BY <1>0, <1>1, BufferedIn DEF ActorOK
<1>6. BufferOK(C.open[p], C.pending[p], p) BY <1>4, <1>5, AppendBuffer
<1>7. Fits(C.open[p])
  <2>1. PICK b : b = B.open[p] OBVIOUS
  <2>2. b \in Seq(Records) /\ (b = <<>> \/ (~(Bytes(b) + Size[r] > BatchSize) /\ ~(Bytes(b) + Size[r] > MaxRequest)))
    BY <1>3, <1>5, <2>1 DEF BufferOK
  <2>3. Fits(Append(b, r)) BY <2>2, AppendFits
  <2> QED BY <1>4, <2>1, <2>3
<1> HIDE DEF p
<1>8. ActorOK(C) /\ BuffersFit(C) BY <1>0, <1>1, <1>4, <1>6, <1>7 DEF ActorOK, BuffersFit
<1> QED BY <1>2, <1>8, CloseFits

(* A batch that loses records still fits.                                  *)
LEMMA DropFits ==
  ASSUME NEW b \in Seq(Records), Fits(b), NEW k
  PROVE  drop_expired(b, k) \in Seq(Records) /\ Fits(drop_expired(b, k))
<1> DEFINE K == {i \in DOMAIN b : b[i] > k}
<1>1. K \in SUBSET DOMAIN b /\ drop_expired(b, k) = Retain(b, K) BY DEF drop_expired
<1> HIDE DEF K
<1> QED BY <1>1, RetainFits

(* So do the batches after the overdue records left them.                  *)
LEMMA ExpireFits ==
  ASSUME NEW A, ActorOK(A), NEW k \in Nat, BuffersFit(A)
  PROVE  BuffersFit(expire_overdue(A, k))
<1> DEFINE B == ExpireKeepingEmpty(A, k)
           left(p) == {i \in DOMAIN B.pending[p] : B.pending[p][i] # <<>>}
           C == [B EXCEPT !.pending = [p \in Partitions |-> Retain(B.pending[p], left(p))]]
<1>1. expire_overdue(A, k) = IF Overdue(A, k) = {} THEN A ELSE C BY DEF expire_overdue
<1>2. BuffersFit(C)
  <2>1. /\ DOMAIN B = Fields
        /\ B.open = [p \in Partitions |-> drop_expired(A.open[p], k)]
        /\ B.pending = [p \in Partitions |-> [i \in DOMAIN A.pending[p] |-> drop_expired(A.pending[p][i], k)]]
    BY DEF ExpireKeepingEmpty, ActorOK, Fields
  <2> HIDE DEF B
  <2>2. /\ C.open = B.open
        /\ C.pending = [p \in Partitions |-> Retain(B.pending[p], left(p))]
    BY <2>1 DEF Fields
  <2> HIDE DEF C
  <2>3. ASSUME NEW p \in Partitions
        PROVE  /\ Fits(C.open[p])
               /\ \A i \in DOMAIN C.pending[p] : C.pending[p][i] # <<>> /\ Fits(C.pending[p][i])
    <3> DEFINE o == A.open[p]
               q == A.pending[p]
               e == [i \in DOMAIN q |-> drop_expired(q[i], k)]
               l == {i \in DOMAIN e : e[i] # <<>>}
    <3>1. /\ o \in Seq(Records) /\ q \in Seq(Seq(Records)) /\ Fits(o)
          /\ \A i \in DOMAIN q : Fits(q[i])
      BY DEF ActorOK, BufferOK, BuffersFit
    <3>2. B.pending[p] = e BY <2>1
    <3>3. C.open[p] = drop_expired(o, k) /\ C.pending[p] = Retain(e, l) BY <2>1, <2>2, <3>2
    <3> HIDE DEF o, q
    <3>4. Fits(drop_expired(o, k)) BY <3>1, DropFits
    <3>5. \A i \in DOMAIN q : drop_expired(q[i], k) \in Seq(Records) /\ Fits(drop_expired(q[i], k))
      BY <3>1, DropFits
    <3>6. e \in Seq(Seq(Records)) /\ \A i \in DOMAIN e : Fits(e[i])
      <4>1. DOMAIN q = 1..Len(q) /\ Len(q) \in Nat BY <3>1
      <4>2. e \in [1..Len(q) -> Seq(Records)] BY <3>5, <4>1
      <4> QED BY <3>5, <4>1, <4>2
    <3>7. l \in SUBSET DOMAIN e /\ \A i \in l : e[i] # <<>> OBVIOUS
    <3> HIDE DEF e, l
    <3>8. /\ Retain(e, l) \in Seq(Seq(Records))
          /\ \A x : x \in ToSet(Retain(e, l)) <=> \E i \in l : e[i] = x
      BY <3>6, <3>7, RetainKeeps
    <3>9. \A i \in DOMAIN Retain(e, l) : Retain(e, l)[i] \in ToSet(Retain(e, l)) BY DEF ToSet
    <3>10. \A i \in DOMAIN Retain(e, l) : Retain(e, l)[i] # <<>> /\ Fits(Retain(e, l)[i])
      BY <3>6, <3>7, <3>8, <3>9
    <3> QED BY <3>3, <3>4, <3>10
  <2> QED BY <2>3 DEF BuffersFit
<1> QED BY <1>1, <1>2

(* What the turns do to the numbers.                                       *)
Counts(c) ==
  /\ c.parts \subseteq Partitions /\ DOMAIN c.released \subseteq c.parts /\ c.reset \in BOOLEAN
  /\ \A p \in DOMAIN c.released : c.released[p] \in Nat

(* The sequence numbers and the identity, step by step.                    *)
LEMMA SameNumbers ==
  ASSUME NEW A, NEW B, Numbers(A), B.next = A.next, B.identity = A.identity,
         Tabled(B.open), Tabled(B.pending)
  PROVE  Numbers(B)
BY DEF Numbers

LEMMA CloseTabled ==
  ASSUME NEW A, DOMAIN A = Fields, NEW S
  PROVE  Tabled(Close(A, S).open) /\ Tabled(Close(A, S).pending)
<1>1. /\ Close(A, S).open = [p \in Partitions |-> IF p \in S THEN <<>> ELSE A.open[p]]
      /\ Close(A, S).pending = [p \in Partitions |->
            IF p \in S /\ A.open[p] # <<>> THEN Append(A.pending[p], A.open[p]) ELSE A.pending[p]]
  BY DEF Close, Fields
<1> QED BY <1>1 DEF Tabled

LEMMA CloseNumbers ==
  ASSUME NEW A, ActorOK(A), NEW S, Numbers(A)
  PROVE  Numbers(Close(A, S))
<1>1. Close(A, S).next = A.next /\ Close(A, S).identity = A.identity BY DEF Close, ActorOK, Fields
<1>2. Tabled(Close(A, S).open) /\ Tabled(Close(A, S).pending) BY CloseTabled DEF ActorOK
<1> QED BY <1>1, <1>2, SameNumbers

LEMMA AppendNumbers ==
  ASSUME NEW A, ActorOK(A), NEW r \in Records, Numbers(A)
  PROVE  Numbers(append(A, r))
<1> DEFINE p == PartitionOf[r]
           wouldBe == Bytes(A.open[p]) + Size[r]
           overflow == A.open[p] # <<>> /\ (wouldBe > BatchSize \/ wouldBe > MaxRequest)
           B == IF overflow THEN Close(A, {p}) ELSE A
           C == [B EXCEPT !.open[p] = Append(@, r)]
           D == Close(C, {p})
<1>1. ActorOK(B) /\ Numbers(B) BY CloseActor, CloseNumbers
<1>2. append(A, r) = IF Bytes(C.open[p]) >= BatchSize THEN D ELSE C BY DEF append
<1> HIDE DEF B
<1>3. /\ DOMAIN C = Fields /\ C.next = B.next /\ C.identity = B.identity
      /\ C.pending = B.pending /\ C.open = [B.open EXCEPT ![p] = Append(@, r)]
  BY <1>1 DEF ActorOK, Fields
<1> HIDE DEF C
<1>7. Tabled(C.open) /\ Tabled(C.pending)
  <2>1. Tabled(B.open) /\ Tabled(B.pending) BY <1>1 DEF Numbers
  <2>2. PICK f : f = B.open OBVIOUS
  <2>3. f = [q \in Partitions |-> f[q]] BY <2>1, <2>2 DEF Tabled
  <2>4. DOMAIN f = Partitions BY <2>3
  <2>5. PICK g : g = [f EXCEPT ![p] = Append(@, r)] OBVIOUS
  <2>6. g = [q \in Partitions |-> g[q]] BY <2>4, <2>5
  <2> QED BY <1>3, <2>1, <2>2, <2>5, <2>6 DEF Tabled
<1>8. Tabled(D.open) /\ Tabled(D.pending) BY <1>3, CloseTabled
<1>4. D.next = C.next /\ D.identity = C.identity BY <1>3 DEF Close, Fields
<1> HIDE DEF D
<1>5. Numbers(C) BY <1>1, <1>3, <1>7, SameNumbers
<1>6. Numbers(D) BY <1>4, <1>5, <1>8, SameNumbers
<1> QED BY <1>2, <1>5, <1>6

LEMMA ExpireNumbers ==
  ASSUME NEW A, ActorOK(A), NEW k, Numbers(A)
  PROVE  Numbers(expire_overdue(A, k))
<1> DEFINE B == ExpireKeepingEmpty(A, k)
           left(p) == {i \in DOMAIN B.pending[p] : B.pending[p][i] # <<>>}
           C == [B EXCEPT !.pending = [p \in Partitions |-> Retain(B.pending[p], left(p))]]
<1>1. expire_overdue(A, k) = IF Overdue(A, k) = {} THEN A ELSE C BY DEF expire_overdue
<1>2. DOMAIN B = Fields /\ B.next = A.next /\ B.identity = A.identity
  BY DEF ExpireKeepingEmpty, ActorOK, Fields
<1>5. Tabled(B.open) BY DEF ExpireKeepingEmpty, ActorOK, Fields, Tabled
<1> HIDE DEF B
<1>3. /\ C.next = B.next /\ C.identity = B.identity /\ C.open = B.open
      /\ C.pending = [p \in Partitions |-> Retain(B.pending[p], left(p))]
  BY <1>2 DEF Fields
<1> HIDE DEF C
<1>6. Tabled(C.pending) BY <1>3 DEF Tabled
<1>4. Numbers(C) BY <1>2, <1>3, <1>5, <1>6, SameNumbers
<1> QED BY <1>1, <1>4

(* Numbers that come back were reserved, so they are numbers.              *)
LEMMA SettleNumbers ==
  ASSUME NEW A, ActorOK(A), Numbers(A), NEW c, Counts(c)
  PROVE  Numbers(settle(A, c))
<1> DEFINE B == settle(A, c)
           next == [p \in Partitions |-> IF c.reset THEN 0
                      ELSE IF p \in DOMAIN c.released THEN c.released[p] ELSE A.next[p]]
<1>1. /\ B.next = next
      /\ B.identity = IF c.reset THEN NoIdentity ELSE A.identity
      /\ B.open = A.open /\ B.pending = A.pending
  BY DEF settle, ActorOK, Fields
<1>2. next \in [Partitions -> Nat] BY DEF Counts, Numbers
<1> HIDE DEF B, next
<1> QED BY <1>1, <1>2 DEF Numbers, NoIdentity, B

LEMMA FailNumbers ==
  ASSUME NEW A, ActorOK(A), Numbers(A)
  PROVE  Numbers(fail_buffered(A)) /\ BuffersFit(fail_buffered(A))
<1> DEFINE B == fail_buffered(A)
<1>1. /\ B.next = A.next /\ B.identity = A.identity
      /\ B.open = [p \in Partitions |-> <<>>] /\ B.pending = [p \in Partitions |-> <<>>]
  BY DEF fail_buffered, ActorOK, Fields
<1> HIDE DEF B
<1>2. BuffersFit(B) BY <1>1, EmptyFits DEF BuffersFit
<1>4. Tabled(B.open) /\ Tabled(B.pending) BY <1>1 DEF Tabled
<1>3. Numbers(B) BY <1>1, <1>4, SameNumbers
<1> QED BY <1>2, <1>3 DEF B

(* A batch as it is stamped.                                               *)
StampOK(b) == b \in BatchType /\ b.recs # <<>> /\ Fits(b.recs)

(* What a sound actor leaves.                                              *)
Soundly ==
  /\ Sound(actor')
  /\ \A t \in tasks' : t \in tasks \/
       /\ t.attempt = 0 /\ \A p \in DOMAIN t.batch : StampOK(t.batch[p]) /\ t.res[p] = Due

(* Dispatch stamps batches that fit, with numbers that are numbers.        *)
LEMMA ProceedSoundly ==
  ASSUME NEW A, Sound(A), NEW F, NEW C, Proceed(A, F, C)
  PROVE  Soundly
<1>0. ActorOK(A) /\ BuffersFit(A) /\ Numbers(A) BY DEF Sound
<1>1. PICK leader \in [Ready(A) -> Leaders] :
        actor' = dispatch_ready(A) /\ tasks' = tasks \cup Spawned(A, leader)
  BY DEF Proceed
<1>2. \A t \in Spawned(A, leader) : Fresh(t, A) BY <1>0, SpawnedFresh
<1>3. Ready(A) \subseteq Partitions /\ \A p \in Ready(A) : A.pending[p] # <<>> BY DEF Ready
<1> DEFINE next == [p \in Partitions |-> IF p \in Ready(A) THEN Reserve(A, p) ELSE A.next[p]]
<1>4. /\ actor'.open = A.open /\ actor'.identity = A.identity /\ actor'.next = next
      /\ actor'.pending = [p \in Partitions |-> IF p \in Ready(A) THEN Tail(A.pending[p]) ELSE A.pending[p]]
  BY <1>0, <1>1 DEF dispatch_ready, ActorOK, Fields
<1>5. ASSUME NEW p \in Ready(A)
      PROVE  /\ Head(A.pending[p]) # <<>> /\ Fits(Head(A.pending[p])) /\ Len(Head(A.pending[p])) \in Nat
             /\ \A i \in DOMAIN Tail(A.pending[p]) : Tail(A.pending[p])[i] # <<>> /\ Fits(Tail(A.pending[p])[i])
  <2> DEFINE q == A.pending[p]
  <2>1. q \in Seq(Seq(Records)) /\ q # <<>> /\ \A i \in DOMAIN q : q[i] # <<>> /\ Fits(q[i])
    BY <1>0, <1>3 DEF ActorOK, BufferOK, BuffersFit
  <2> HIDE DEF q
  <2>2. /\ 1 \in DOMAIN q /\ Head(q) = q[1] /\ q[1] \in Seq(Records)
        /\ \A i \in DOMAIN Tail(q) : i + 1 \in DOMAIN q /\ Tail(q)[i] = q[i + 1]
    BY <2>1
  <2>3. Len(Head(q)) \in Nat BY <2>2
  <2> QED BY <2>1, <2>2, <2>3 DEF q
<1>6. next \in [Partitions -> Nat]
  <2>1. ASSUME NEW p \in Partitions PROVE next[p] \in Nat
    <3>1. A.next[p] \in Nat BY <1>0 DEF Numbers
    <3>2. ASSUME p \in Ready(A) PROVE Reserve(A, p) \in Nat BY <1>5, <3>1, <3>2 DEF Reserve
    <3> QED BY <3>1, <3>2
  <2> QED BY <2>1
<1>7. ActorOK(actor') BY <1>0, <1>1, DispatchActor
<1>8. BuffersFit(actor') BY <1>0, <1>4, <1>5 DEF BuffersFit
<1>9. Numbers(actor')
  <2>1. A.identity \in Nat /\ Tabled(A.open) BY <1>0 DEF Numbers
  <2>2. Tabled(actor'.pending) BY <1>4 DEF Tabled
  <2> HIDE DEF next
  <2> QED BY <1>4, <1>6, <2>1, <2>2 DEF Numbers
<1>10. ASSUME NEW t \in Spawned(A, leader)
       PROVE  t.attempt = 0 /\ \A p \in DOMAIN t.batch : StampOK(t.batch[p]) /\ t.res[p] = Due
  <2>1. t.attempt = 0 /\ \A p \in DOMAIN t.batch : p \in Ready(A) /\ t.batch[p] = Stamped(A, p) /\ t.res[p] = Due
    BY <1>2 DEF Fresh
  <2>2. ASSUME NEW p \in Ready(A) PROVE StampOK(Stamped(A, p))
    <3>1. Stamped(A, p).recs = Head(A.pending[p]) /\ Stamped(A, p).pid = A.identity /\ Stamped(A, p).base = A.next[p]
      BY DEF Stamped
    <3>2. A.identity \in Nat /\ A.next[p] \in Nat BY <1>0, <1>3 DEF Numbers
    <3>3. Head(A.pending[p]) \in Seq(Records) BY <1>0, DispatchBuffer, <1>3 DEF ActorOK
    <3>4. Stamped(A, p) \in BatchType BY <3>2, <3>3 DEF Stamped, BatchType
    <3> QED BY <1>5, <3>1, <3>4 DEF StampOK
  <2> QED BY <2>1, <2>2
<1> QED BY <1>1, <1>7, <1>8, <1>9, <1>10 DEF Soundly, Sound

LEMMA TurnSoundly ==
  ASSUME NEW A, Sound(A), NEW F, NEW C, overdue \in Nat, Turn(A, F, C)
  PROVE  Soundly
<1> DEFINE B == expire_overdue(A, overdue)
<1>1. Sound(B) BY ExpireActor, ExpireFits, ExpireNumbers DEF Sound
<1>2. \/ actor' = B /\ tasks' = tasks
      \/ Proceed(B, F, C)
  BY DEF Turn
<1> HIDE DEF B
<1>3. CASE actor' = B /\ tasks' = tasks BY <1>1, <1>3 DEF Soundly
<1> QED BY <1>1, <1>2, <1>3, ProceedSoundly

(* Every step of the actor leaves it sound.                                *)
LEMMA ActorSoundly ==
  ASSUME CustodyInv, ActorNext, Sound(actor), \A c \in completions : Counts(c), issued \in Nat
  PROVE  Soundly
<1>0. ActorOK(actor) /\ Shapes /\ Placed /\ overdue \in Nat /\ BuffersFit(actor) /\ Numbers(actor)
  BY DEF CustodyInv, Shapes, HandedOver, Sound
<1>1. CASE HandleAppend
  <2>1. /\ commands # <<>> /\ Head(commands).type = "append"
        /\ Turn(append(actor, Head(commands).id), flush, closing)
    BY <1>1 DEF HandleAppend
  <2>2. PICK h \in Records : Head(commands) = AppendCommand(h) /\ Head(commands).id = h
    BY <1>0, <2>1, HeadCommand
  <2>3. h \notin Buffered(actor)
    <3>1. InChannel(h) BY <1>0, <2>1, <2>2, HeadCommand DEF InChannel
    <3> QED BY <1>0, <3>1 DEF Placed
  <2> DEFINE A == append(actor, h)
  <2>5. Sound(A) BY <1>0, <2>3, AppendActor, AppendBuffersFit, AppendNumbers DEF Sound
  <2>6. Turn(A, flush, closing) BY <2>1, <2>2
  <2> HIDE DEF A
  <2> QED BY <1>0, <2>5, <2>6, TurnSoundly
<1>2. ASSUME NEW S, NEW F, NEW C, Turn(Close(actor, S), F, C) PROVE Soundly
  <2> DEFINE A == Close(actor, S)
  <2>1. Sound(A) /\ Turn(A, F, C) BY <1>0, <1>2, CloseActor, CloseFits, CloseNumbers DEF Sound
  <2> HIDE DEF A
  <2> QED BY <1>0, <2>1, TurnSoundly
<1>3. HandleFlush => Soundly BY <1>2 DEF HandleFlush, close_all
<1>4. HandleClosed => Soundly BY <1>2 DEF HandleClosed, close_all
<1>5. \A lingered \in SUBSET Partitions : Wake(lingered) => Soundly BY <1>2 DEF Wake, close_expired
<1>6. ASSUME NEW c \in completions, HandleCompleted(c) PROVE Soundly
  <2> DEFINE A == settle(actor, c)
  <2>1. A.open = actor.open /\ A.pending = actor.pending BY <1>0 DEF settle, ActorOK, Fields
  <2>2. ActorOK(A) /\ Turn(A, flush, closing) /\ Numbers(A)
    BY <1>0, <1>6, SettleActor, SettleNumbers DEF HandleCompleted
  <2> HIDE DEF A
  <2>3. Sound(A) BY <1>0, <2>1, <2>2 DEF BuffersFit, Sound
  <2> QED BY <1>0, <2>2, <2>3, TurnSoundly
<1>7. CASE ClaimOk
  <2> DEFINE A == [actor EXCEPT !.identity = issued + 1]
  <2>1. /\ DOMAIN A = Fields /\ A.open = actor.open /\ A.pending = actor.pending /\ A.next = actor.next
        /\ A.identity = issued + 1
    BY <1>0 DEF ActorOK, Fields
  <2>2. Proceed(A, flush, closing) BY <1>7 DEF ClaimOk
  <2> HIDE DEF A
  <2>3. ActorOK(A) BY <1>0, <2>1, SameBuffers
  <2>4. BuffersFit(A) BY <1>0, <2>1 DEF BuffersFit
  <2>5. Numbers(A) BY <1>0, <2>1 DEF Numbers
  <2> QED BY <2>2, <2>3, <2>4, <2>5, ProceedSoundly DEF Sound
<1>8. CASE ClaimRetriable BY <1>8, ProceedSoundly DEF ClaimRetriable
<1>9. CASE ClaimTerminal
  <2> DEFINE A == fail_buffered(actor)
  <2>1. Proceed(A, flush, closing) /\ Sound(A) BY <1>0, <1>9, FailActor, FailNumbers DEF ClaimTerminal, Sound
  <2> HIDE DEF A
  <2> QED BY <2>1, ProceedSoundly
<1> QED BY <1>1, <1>3, <1>4, <1>5, <1>6, <1>7, <1>8, <1>9 DEF ActorNext

(* What is known of a batch.                                               *)
ResultOK(x) ==
  x \in ResultType /\ (x.kind = "ack" => x.off \in Nat) /\ (x.kind = "due" => x = Due)

TaskSound(t) ==
  /\ t.attempt \in 0..MaxAttempts
  /\ \A p \in DOMAIN t.batch : /\ StampOK(t.batch[p]) /\ ResultOK(t.res[p])
                               /\ t.res[p].kind = "due" => p \in t.live

OutcomeOK(o) == o \in {Told(k) : k \in OutcomeKinds} \/ (o.kind = "ok" /\ o.off \in Nat)

(* The results there are.                                                  *)
LEMMA DueOK == ResultOK(Due) /\ Due.kind = "due"
BY DEF Due, ResultOK, ResultType

LEMMA NoneOK == ResultOK([kind |-> "unencodable", err |-> "none", off |-> -1])
BY DEF ResultOK, ResultType

LEMMA RefusedOK ==
  ASSUME NEW k \in {"rejected", "ambiguous"},
         NEW err \in VerdictClasses \cup FailureClasses \cup {"OutOfOrder", "UnknownPid", "none"}
  PROVE  LET x == [kind |-> k, err |-> err, off |-> -1]
         IN  ResultOK(x) /\ x.kind = k
BY DEF ResultOK, ResultType

(* An acknowledgement carries an offset.                                   *)
LEMMA BaseOffsetNat ==
  ASSUME LogsOK, NEW p \in Partitions, NEW n \in Nat, NEW b
  PROVE  BaseOffset(log[p], n, b) \in Nat
<1>1. Listing(log[p]) /\ \A i \in DOMAIN log[p] : EntryOK(log[p][i], p) BY DEF LogsOK
<1>2. Len(log[p]) \in Nat /\ DOMAIN log[p] = 1..Len(log[p]) BY <1>1 DEF Listing
<1>3. LogEnd(log[p]) \in Nat
  <2>1. PICK l : l = log[p] OBVIOUS
  <2>2. Listing(l) /\ \A i \in DOMAIN l : EntryOK(l[i], p) BY <1>1, <2>1
  <2>3. CASE l = <<>> BY <2>1, <2>3 DEF LogEnd
  <2>4. CASE l # <<>>
    <3>1. Len(l) \in DOMAIN l /\ Last(l) = l[Len(l)] BY <2>2, <2>4 DEF Listing, Last
    <3>2. EntryOK(Last(l), p) BY <2>2, <3>1
    <3>3. PICK e : e = Last(l) OBVIOUS
    <3>4. e.off \in Nat /\ e.recs \in Seq(Records) BY <3>2, <3>3 DEF EntryOK
    <3>5. Len(e.recs) \in Nat BY <3>4
    <3>6. LogEnd(l) = e.off + Len(e.recs) BY <2>4, <3>3 DEF LogEnd
    <3> QED BY <2>1, <3>4, <3>5, <3>6
  <2> QED BY <2>3, <2>4
<1> DEFINE D == Duplicates(log[p], n, b)
<1>4. \A d \in D : d.off \in Nat
  <2>1. \A d \in D : \E i \in (n + 1)..Len(log[p]) : d = log[p][i] BY DEF Duplicates
  <2>2. \A i \in (n + 1)..Len(log[p]) : i \in DOMAIN log[p] BY <1>2
  <2> QED BY <1>1, <2>1, <2>2 DEF EntryOK
<1>5. IsDuplicate(log[p], n, b) => D # {} BY DEF IsDuplicate
<1> HIDE DEF D
<1>6. D # {} => (CHOOSE d \in D : TRUE) \in D OBVIOUS
<1>7. D # {} => (CHOOSE d \in D : TRUE).off \in Nat BY <1>4, <1>6
<1> QED BY <1>3, <1>5, <1>7 DEF BaseOffset, D

(* The broker's answers are results.                                       *)
LEMMA AnswerTyped ==
  ASSUME LogsOK, NEW p \in Partitions, forgotten[p] \in Nat, NEW b, NEW a \in Answers(p, b)
  PROVE  ResultOK(a.res) /\ a.res.kind # "due"
<1> DEFINE fresh == MayAppend(log[p], forgotten[p], b)
           dup == IsDuplicate(log[p], forgotten[p], b)
           no(err) == [kind |-> "rejected", err |-> err, off |-> -1]
           base == BaseOffset(log[p], forgotten[p], b)
           refusal == Refusal(log[p], forgotten[p], b)
           Errs == VerdictClasses \cup FailureClasses \cup {"OutOfOrder", "UnknownPid", "none"}
<1>1. base \in Nat BY BaseOffsetNat
<1>2. refusal \in Errs BY DEF Refusal
<1>3. \/ \E err \in Verdicts \cap {"Moved", "Busy", "Fatal"} : a = [res |-> no(err), append |-> FALSE]
      \/ \E err \in Verdicts \cap {"AfterAppend"} : a = [res |-> no(err), append |-> fresh]
      \/ a = [res |-> no(refusal), append |-> FALSE]
      \/ a = [res |-> [kind |-> "ack", err |-> "none", off |-> base], append |-> fresh]
      \/ \E x \in BOOLEAN : a = [res |-> [kind |-> "ambiguous", err |-> "Unanswered", off |-> -1], append |-> x]
  BY DEF Answers
<1> HIDE DEF fresh, dup, base, refusal
<1>4. \/ \E err \in Errs : a.res = no(err)
      \/ a.res = [kind |-> "ack", err |-> "none", off |-> base]
      \/ a.res = [kind |-> "ambiguous", err |-> "Unanswered", off |-> -1]
  <2>1. {"Moved", "Busy", "Fatal", "AfterAppend"} \subseteq Errs BY DEF VerdictClasses
  <2> HIDE DEF Errs
  <2>2. CASE \E err \in Verdicts \cap {"Moved", "Busy", "Fatal"} : a = [res |-> no(err), append |-> FALSE]
    <3>1. PICK err \in Verdicts \cap {"Moved", "Busy", "Fatal"} : a = [res |-> no(err), append |-> FALSE]
      BY <2>2
    <3>2. a.res = no(err) /\ err \in Errs BY <2>1, <3>1
    <3> QED BY <3>2
  <2>3. CASE \E err \in Verdicts \cap {"AfterAppend"} : a = [res |-> no(err), append |-> fresh]
    <3>1. PICK err \in Verdicts \cap {"AfterAppend"} : a = [res |-> no(err), append |-> fresh] BY <2>3
    <3>2. a.res = no(err) /\ err \in Errs BY <2>1, <3>1
    <3> QED BY <3>2
  <2>4. CASE a = [res |-> no(refusal), append |-> FALSE]
    <3>1. a.res = no(refusal) BY <2>4
    <3> QED BY <1>2, <3>1
  <2>5. CASE a = [res |-> [kind |-> "ack", err |-> "none", off |-> base], append |-> fresh] BY <2>5
  <2>6. CASE \E x \in BOOLEAN : a = [res |-> [kind |-> "ambiguous", err |-> "Unanswered", off |-> -1], append |-> x]
    BY <2>6
  <2> QED BY <1>3, <2>2, <2>3, <2>4, <2>5, <2>6
<1>5. CASE \E err \in Errs : a.res = no(err) BY <1>5, RefusedOK
<1>6. CASE a.res = [kind |-> "ack", err |-> "none", off |-> base]
  <2>1. a.res \in ResultType /\ a.res.kind = "ack" /\ a.res.off = base BY <1>1, <1>6 DEF ResultType
  <2> QED BY <1>1, <2>1 DEF ResultOK
<1>7. CASE a.res = [kind |-> "ambiguous", err |-> "Unanswered", off |-> -1]
  <2>1. "Unanswered" \in Errs BY DEF VerdictClasses
  <2> QED BY <1>7, <2>1, RefusedOK
<1> QED BY <1>4, <1>5, <1>6, <1>7

(* Results for the batches G of a task.                                    *)
LEMMA AnsweredSound ==
  ASSUME Shapes, \A v \in tasks : TaskSound(v), NEW t \in tasks, NEW G, G \subseteq Unanswered(t), NEW result,
         \A p \in G : result[p].kind \in ResultKinds \ {"unencodable", "due"} /\ ResultOK(result[p]),
         tasks' = WithResults(t, G, result)
  PROVE  \A v \in tasks' : TaskSound(v)
<1>1. PICK u : Answered(u, t, G, result) /\ tasks' = (tasks \ {t}) \cup {u} BY ResultsRecorded DEF Shapes
<1>2. TaskSound(u)
  <2>1. u.attempt = t.attempt /\ u.batch = t.batch /\ u.live = t.live BY <1>1 DEF Answered, Succeeds
  <2>2. ASSUME NEW p \in DOMAIN t.batch
        PROVE  /\ StampOK(t.batch[p]) /\ ResultOK(u.res[p])
               /\ u.res[p].kind = "due" => p \in t.live
    BY <1>1 DEF Answered, TaskSound
  <2> QED BY <2>1, <2>2 DEF TaskSound
<1> QED BY <1>1, <1>2

(* An answered request leaves its task sound.                              *)
LEMMA RespondSound ==
  ASSUME Shapes, \A v \in tasks : TaskSound(v), \A p \in Partitions : forgotten[p] \in Nat,
         NEW t \in tasks, NEW G, Respond(t, G)
  PROVE  \A v \in tasks' : TaskSound(v)
<1>0. G \subseteq Unanswered(t) /\ G \subseteq Partitions /\ LogsOK BY DEF Respond, Unanswered, Shapes, TaskOK
<1>1. PICK ans : 
       LET answered == {p \in G : ans[p].res.err # "Unanswered"} IN
       /\ \A p \in G : ans[p] \in Answers(p, t.batch[p])
       /\ \E kept \in [{p[2] : p \in answered} -> answered] :
            /\ \A i \in DOMAIN kept : kept[i][2] = i
            /\ tasks' = WithResults(t, G, read_response(G, ans, kept))
  BY DEF Respond
<1> DEFINE answered == {p \in G : ans[p].res.err # "Unanswered"}
<1>2. PICK kept \in [{p[2] : p \in answered} -> answered] :
            tasks' = WithResults(t, G, read_response(G, ans, kept))
  BY <1>1
<1> DEFINE result == read_response(G, ans, kept)
           missing == [kind |-> "ambiguous", err |-> "Unanswered", off |-> -1]
<1>3. \A p \in G : ResultOK(ans[p].res) /\ ans[p].res.kind \in {"rejected", "ack", "ambiguous"}
  <2>1. \A p \in G : ans[p] \in Answers(p, t.batch[p]) BY <1>1
  <2>2. \A p \in G : ResultOK(ans[p].res) BY <1>0, <2>1, AnswerTyped
  <2> QED BY <2>1, <2>2, AnswerKinds
<1>4. ResultOK(missing) /\ missing.kind = "ambiguous"
  <2>1. "Unanswered" \in VerdictClasses \cup FailureClasses \cup {"OutOfOrder", "UnknownPid", "none"}
    BY DEF VerdictClasses
  <2> QED BY <2>1, RefusedOK
<1>5. ASSUME NEW p \in G PROVE ResultOK(result[p]) /\ result[p].kind \in {"rejected", "ack", "ambiguous"}
  <2>1. answered \subseteq G OBVIOUS
  <2> HIDE DEF answered
  <2>2. (\E q \in answered : result[p] = ans[q].res) \/ result[p] = missing
    <3>1. CASE p[2] \in DOMAIN kept
      <4>1. kept[p[2]] \in answered BY <1>2, <3>1
      <4>2. result[p] = ans[kept[p[2]]].res BY <3>1 DEF read_response
      <4> HIDE DEF result
      <4> QED BY <4>1, <4>2
    <3>2. CASE p[2] \notin DOMAIN kept BY <3>2 DEF read_response
    <3> QED BY <3>1, <3>2
  <2> HIDE DEF result, missing
  <2> QED BY <1>3, <1>4, <2>1, <2>2
<1>6. tasks' = WithResults(t, G, result) BY <1>2
<1> HIDE DEF result
<1>7. \A p \in G : result[p].kind \in ResultKinds \ {"unencodable", "due"} /\ ResultOK(result[p])
  BY <1>5 DEF ResultKinds
<1> QED BY <1>0, <1>6, <1>7, AnsweredSound

(* So does one that failed or was lost.                                    *)
LEMMA FailureSound ==
  ASSUME Shapes, \A v \in tasks : TaskSound(v), NEW t \in tasks, NEW G,
         RouteFails(t, G) \/ LoseRequest(t, G)
  PROVE  \A v \in tasks' : TaskSound(v)
<1>1. /\ G \subseteq Unanswered(t)
      /\ \E k \in {"rejected", "ambiguous"} :
           \E err \in VerdictClasses \cup FailureClasses \cup {"OutOfOrder", "UnknownPid", "none"} :
             tasks' = WithResults(t, G, [p \in G |-> [kind |-> k, err |-> err, off |-> -1]])
  <2>1. CASE RouteFails(t, G) BY <2>1, FaultsAssumption DEF RouteFails
  <2>2. CASE LoseRequest(t, G) BY <2>2, FaultsAssumption DEF LoseRequest
  <2> QED BY <2>1, <2>2
<1>2. PICK k \in {"rejected", "ambiguous"}, 
           err \in VerdictClasses \cup FailureClasses \cup {"OutOfOrder", "UnknownPid", "none"} :
             tasks' = WithResults(t, G, [p \in G |-> [kind |-> k, err |-> err, off |-> -1]])
  BY <1>1
<1> DEFINE result == [p \in G |-> [kind |-> k, err |-> err, off |-> -1]]
<1>3. \A p \in G : result[p].kind \in ResultKinds \ {"unencodable", "due"} /\ ResultOK(result[p])
  <2>1. LET x == [kind |-> k, err |-> err, off |-> -1] IN ResultOK(x) /\ x.kind = k BY RefusedOK
  <2> QED BY <2>1 DEF ResultKinds
<1>4. tasks' = WithResults(t, G, result) BY <1>2
<1> HIDE DEF result
<1> QED BY <1>1, <1>3, <1>4, AnsweredSound

(* The completion of a task gives back numbers it had reserved.            *)
LEMMA CompletedCounts ==
  ASSUME NEW t, DOMAIN t.batch \subseteq Partitions, \A p \in DOMAIN t.batch : StampOK(t.batch[p])
  PROVE  Counts(Completed(t))
<1> DEFINE R == {q \in DOMAIN t.batch : Failed(t, q) /\ t.batch[q].pid # NoIdentity}
           c == Completed(t)
<1>1. /\ c.parts = DOMAIN t.batch /\ c.released = [p \in R |-> t.batch[p].base]
      /\ c.reset = (\E p \in DOMAIN t.batch : invalidates_producer_state(t.res[p].err))
  BY DEF Completed
<1>2. R \subseteq DOMAIN t.batch OBVIOUS
<1>3. \A p \in DOMAIN t.batch : t.batch[p].base \in Nat BY DEF StampOK, BatchType
<1> HIDE DEF c, R
<1> QED BY <1>1, <1>2, <1>3 DEF Counts, c

(* What a task leaves: sound tasks, completions that count, callers told   *)
(* what there is to tell.                                                  *)
TaskSoundly ==
  /\ \A v \in tasks' : TaskSound(v)
  /\ \A c \in completions' : c \in completions \/ Counts(c)
  /\ \A r \in Records : outcome'[r] = outcome[r] \/ OutcomeOK(outcome'[r])

(* Encoding, and telling the callers of what could not be encoded.         *)
LEMMA EncodeSound ==
  ASSUME Shapes, \A v \in tasks : TaskSound(v), NEW t \in tasks, Encode(t)
  PROVE  TaskSoundly
<1> DEFINE bad == {p \in t.live : ToSet(t.batch[p].recs) \cap Unencodable # {}}
           none == [kind |-> "unencodable", err |-> "none", off |-> -1]
           u   == [t EXCEPT !.live = @ \ bad, !.attempt = 1,
                            !.res = [p \in DOMAIN @ |-> IF p \in bad THEN none ELSE Due]]
<1>1. /\ t.attempt = 0
      /\ tasks' = (tasks \ {t}) \cup (IF u.live = {} THEN {} ELSE {u})
      /\ completions' = IF u.live = {} THEN completions \cup {Completed(u)} ELSE completions
      /\ outcome' = [r \in Records |-> IF r \in BatchRecords(t, bad) THEN Told("unsent") ELSE outcome[r]]
  BY DEF Encode, Resolve
<1>2. TaskOK(t) /\ TaskSound(t) BY DEF Shapes
<1>3. t.live = DOMAIN t.batch /\ DOMAIN t.batch \subseteq Partitions BY <1>1, <1>2 DEF TaskOK
<1>4. ResultOK(none) /\ none.kind = "unencodable" BY NoneOK
<1> HIDE DEF bad, none
<1>5. /\ u.batch = t.batch /\ u.live = t.live \ bad /\ u.attempt = 1
      /\ \A p \in DOMAIN t.batch : u.res[p] = IF p \in bad THEN none ELSE Due
  BY <1>2 DEF TaskOK, TaskFields
<1> HIDE DEF u
<1>6. TaskSound(u)
  <2>1. u.attempt \in 0..MaxAttempts BY <1>5, FaultsAssumption
  <2>2. ASSUME NEW p \in DOMAIN t.batch
        PROVE  StampOK(t.batch[p]) /\ ResultOK(u.res[p]) /\ (u.res[p].kind = "due" => p \in u.live)
    <3>1. StampOK(t.batch[p]) BY <1>2 DEF TaskSound
    <3>2. CASE p \in bad BY <1>4, <1>5, <3>1, <3>2
    <3>3. CASE p \notin bad BY <1>3, <1>5, <3>1, <3>3, DueOK
    <3> QED BY <3>2, <3>3
  <2> QED BY <1>5, <2>1, <2>2 DEF TaskSound
<1>7. Counts(Completed(u))
  <2>1. DOMAIN u.batch \subseteq Partitions /\ \A p \in DOMAIN u.batch : StampOK(u.batch[p])
    BY <1>3, <1>5, <1>6 DEF TaskSound
  <2> QED BY <2>1, CompletedCounts
<1>8. OutcomeOK(Told("unsent")) BY DEF OutcomeOK, OutcomeKinds
<1>9. \A r \in Records : outcome'[r] = outcome[r] \/ outcome'[r] = Told("unsent") BY <1>1
<1> QED BY <1>1, <1>6, <1>7, <1>8, <1>9 DEF TaskSoundly

(* What a caller is told when its task returns: never that nothing is      *)
(* known.                                                                  *)
LEMMA VerdictOK ==
  ASSUME NEW t, TaskOK(t), TaskSound(t), t.attempt > 0, Unanswered(t) = {},
         NEW p \in DOMAIN t.batch, NEW r \in ToSet(t.batch[p].recs), t.res[p].kind # "unencodable"
  PROVE  OutcomeOK(Verdict(t, r))
<1>1. /\ PartitionOf[r] = p /\ t.res[p].kind \in ResultKinds /\ t.batch[p].recs \in Seq(Records)
  BY DEF TaskOK, BatchOK
<1>2. ResultOK(t.res[p]) /\ (t.res[p].kind = "due" => p \in t.live) BY DEF TaskSound
<1>3. t.res[p].kind # "due" BY <1>2 DEF Unanswered, ResultOK
<1>4. CASE t.res[p].kind = "ack"
  <2> DEFINE s == t.batch[p].recs
             i == CHOOSE j \in DOMAIN s : s[j] = r
  <2>1. i \in DOMAIN s /\ s[i] = r BY DEF ToSet
  <2>2. Verdict(t, r) = Acked(t.res[p].off + i - 1) BY <1>1, <1>4 DEF Verdict
  <2> HIDE DEF i
  <2>3. i \in Nat /\ i >= 1 BY <1>1, <2>1
  <2>4. t.res[p].off \in Nat BY <1>2, <1>4 DEF ResultOK
  <2>5. t.res[p].off + i - 1 \in Nat BY <2>3, <2>4
  <2>6. PICK o \in Nat : Verdict(t, r) = Acked(o) BY <2>2, <2>5
  <2> QED BY <2>6 DEF Acked, OutcomeOK
<1>5. CASE t.res[p].kind # "ack"
  <2>1. Verdict(t, r) = Told(t.res[p].kind) BY <1>1, <1>5 DEF Verdict
  <2>2. t.res[p].kind \in OutcomeKinds BY <1>1, <1>3, <1>5 DEF ResultKinds, OutcomeKinds
  <2> QED BY <2>1, <2>2 DEF OutcomeOK
<1> QED BY <1>4, <1>5

(* A round's end: another round of what may be retried, or the verdicts.   *)
LEMMA JudgeSound ==
  ASSUME Shapes, \A v \in tasks : TaskSound(v), NEW t \in tasks, Judge(t)
  PROVE  TaskSoundly
<1>0. TaskOK(t) /\ TaskSound(t) /\ t.attempt > 0 /\ Unanswered(t) = {} BY DEF Shapes, Judge
<1> DEFINE D == {p \in DOMAIN t.batch : t.res[p].kind # "unencodable"}
           again(retry) == [t EXCEPT !.live = retry,
                               !.res = [p \in DOMAIN @ |-> IF p \in retry THEN Due ELSE @[p]],
                               !.attempt = Min({@ + 1, MaxAttempts})]
<1>1. \/ \E retry \in SUBSET t.live :
           tasks' = (tasks \ {t}) \cup {again(retry)} /\ outcome' = outcome /\ completions' = completions
      \/ /\ tasks' = tasks \ {t} /\ completions' = completions \cup {Completed(t)}
         /\ outcome' = [r \in Records |-> IF r \in BatchRecords(t, D) THEN Verdict(t, r) ELSE outcome[r]]
  <2> DEFINE retry(inTime) == {p \in t.live : Failed(t, p) /\ retriable(t, p, inTime)}
  <2>1. \/ \E inTime \in BOOLEAN :
             tasks' = (tasks \ {t}) \cup {again(retry(inTime))} /\ outcome' = outcome /\ completions' = completions
        \/ /\ tasks' = tasks \ {t} /\ completions' = completions \cup {Completed(t)}
           /\ outcome' = [r \in Records |-> IF r \in BatchRecords(t, D) THEN Verdict(t, r) ELSE outcome[r]]
    BY DEF Judge, Resolve
  <2>2. \A inTime : retry(inTime) \in SUBSET t.live OBVIOUS
  <2> HIDE DEF retry, again, D
  <2> QED BY <2>1, <2>2
<1>2. ASSUME NEW retry \in SUBSET t.live, tasks' = (tasks \ {t}) \cup {again(retry)},
             outcome' = outcome, completions' = completions
      PROVE  TaskSoundly
  <2> DEFINE u == again(retry)
  <2>1. /\ u.batch = t.batch /\ u.live = retry
        /\ u.attempt = Min({t.attempt + 1, MaxAttempts})
        /\ \A p \in DOMAIN t.batch : u.res[p] = IF p \in retry THEN Due ELSE t.res[p]
    BY <1>0 DEF TaskOK, TaskFields
  <2>2. u.attempt \in 0..MaxAttempts
    <3>1. t.attempt + 1 \in Nat /\ MaxAttempts \in Nat BY <1>0, FaultsAssumption DEF TaskOK
    <3>2. Min({t.attempt + 1, MaxAttempts}) \in Nat /\ Min({t.attempt + 1, MaxAttempts}) <= MaxAttempts
      <4>1. PICK a \in Nat, b \in Nat : a = t.attempt + 1 /\ b = MaxAttempts BY <3>1
      <4>2. \E m \in {a, b} : \A x \in {a, b} : m <= x
        <5>1. a <= b \/ b <= a OBVIOUS
        <5> QED BY <5>1
      <4>3. Min({a, b}) \in {a, b} /\ \A x \in {a, b} : Min({a, b}) <= x BY <4>2 DEF Min
      <4> QED BY <4>1, <4>3
    <3> QED BY <2>1, <3>1, <3>2
  <2>3. tasks' = (tasks \ {t}) \cup {u} BY <1>2
  <2> HIDE DEF u
  <2>4. ASSUME NEW p \in DOMAIN t.batch
        PROVE  StampOK(t.batch[p]) /\ ResultOK(u.res[p]) /\ (u.res[p].kind = "due" => p \in u.live)
    <3>1. StampOK(t.batch[p]) /\ ResultOK(t.res[p]) /\ (t.res[p].kind = "due" => p \in t.live)
      BY <1>0 DEF TaskSound
    <3>2. t.res[p].kind # "due" BY <1>0, <3>1 DEF Unanswered, ResultOK
    <3>3. CASE p \in retry BY <2>1, <3>1, <3>3, DueOK
    <3>4. CASE p \notin retry BY <2>1, <3>1, <3>2, <3>4
    <3> QED BY <3>3, <3>4
  <2>5. TaskSound(u) BY <2>1, <2>2, <2>4 DEF TaskSound
  <2> QED BY <1>2, <2>3, <2>5 DEF TaskSoundly
<1>3. ASSUME tasks' = tasks \ {t}, completions' = completions \cup {Completed(t)},
             outcome' = [r \in Records |-> IF r \in BatchRecords(t, D) THEN Verdict(t, r) ELSE outcome[r]]
      PROVE  TaskSoundly
  <2>1. Counts(Completed(t))
    <3>1. DOMAIN t.batch \subseteq Partitions /\ \A p \in DOMAIN t.batch : StampOK(t.batch[p])
      BY <1>0 DEF TaskSound, TaskOK
    <3> QED BY <3>1, CompletedCounts
  <2>2. ASSUME NEW r \in BatchRecords(t, D) PROVE OutcomeOK(Verdict(t, r))
    <3>1. PICK p \in DOMAIN t.batch : t.res[p].kind # "unencodable" /\ r \in ToSet(t.batch[p].recs)
      BY DEF BatchRecords
    <3> QED BY <1>0, <3>1, VerdictOK
  <2> HIDE DEF D
  <2>3. \A r \in Records : outcome'[r] = outcome[r] \/ (r \in BatchRecords(t, D) /\ outcome'[r] = Verdict(t, r))
    BY <1>3
  <2> QED BY <1>3, <2>1, <2>2, <2>3 DEF TaskSoundly
<1> HIDE DEF again, D
<1> QED BY <1>1, <1>2, <1>3

LEMMA TaskSteps ==
  ASSUME Shapes, \A v \in tasks : TaskSound(v), \A p \in Partitions : forgotten[p] \in Nat, TaskNext
  PROVE  TaskSoundly
<1>0. PICK t \in tasks : TaskStep(t) BY DEF TaskNext
<1>1. CASE Encode(t) \/ Judge(t) BY <1>1, EncodeSound, JudgeSound
<1>2. ASSUME NEW G, RouteFails(t, G) \/ Respond(t, G) \/ LoseRequest(t, G)
      PROVE  TaskSoundly
  <2>1. completions' = completions /\ outcome' = outcome BY <1>2 DEF RouteFails, Respond, LoseRequest
  <2>2. \A v \in tasks' : TaskSound(v) BY <1>2, RespondSound, FailureSound
  <2> QED BY <2>1, <2>2 DEF TaskSoundly
<1> QED BY <1>0, <1>1, <1>2 DEF TaskStep

Controls ==
  /\ handles \in BOOLEAN /\ closing \in BOOLEAN /\ pc \in {"select", "claim", "stopped"}
  /\ issued \in Nat /\ overdue \in 0..NumRecords
  /\ \A p \in Partitions : forgotten[p] \in Nat
  /\ DOMAIN forgotten = Partitions

Reported ==
  /\ \A t \in tasks : TaskSound(t)
  /\ \A c \in completions : Counts(c)
  /\ \A r \in Records : OutcomeOK(outcome[r])

(* The inductive invariant: permits, bounds and types.                     *)
AccountInv == PermitInv /\ free \in Nat /\ Controls /\ Sound(actor) /\ Reported

(* The variables that steer the actor, step by step.                       *)
LEMMA TurnControls ==
  ASSUME Controls, NEW A, NEW F, NEW C \in BOOLEAN, Turn(A, F, C)
  PROVE  closing' \in BOOLEAN /\ pc' \in {"select", "claim", "stopped"} /\ issued' \in Nat
BY DEF Turn, Proceed, Controls

LEMMA ActorControls ==
  ASSUME Controls, ActorNext
  PROVE  Controls'
<1>0. closing \in BOOLEAN /\ issued \in Nat BY DEF Controls
<1>1. UNCHANGED <<handles, overdue, forgotten>>
  BY DEF ActorNext, HandleAppend, HandleFlush, HandleClosed, HandleCompleted, Wake, ClaimOk,
         ClaimRetriable, ClaimTerminal, callerVars, brokerVars
<1>2. \/ \E A, F : \E C \in BOOLEAN : Turn(A, F, C)
      \/ ClaimOk \/ ClaimRetriable \/ ClaimTerminal
  BY <1>0 DEF ActorNext, HandleAppend, HandleFlush, HandleClosed, HandleCompleted, Wake
<1>3. closing' \in BOOLEAN /\ pc' \in {"select", "claim", "stopped"} /\ issued' \in Nat
  <2>1. CASE \E A, F : \E C \in BOOLEAN : Turn(A, F, C) BY <2>1, TurnControls
  <2>2. ASSUME NEW A, NEW F, Proceed(A, F, closing)
        PROVE  closing' \in BOOLEAN /\ pc' \in {"select", "claim", "stopped"}
    BY <1>0, <2>2 DEF Proceed
  <2>3. CASE ClaimOk
    <3>1. issued' = issued + 1 /\ \E A : Proceed(A, flush, closing) BY <2>3 DEF ClaimOk
    <3> QED BY <1>0, <2>2, <3>1
  <2>4. CASE ClaimRetriable \/ ClaimTerminal
    <3>1. issued' = issued /\ \E A : Proceed(A, flush, closing) BY <2>4 DEF ClaimRetriable, ClaimTerminal
    <3> QED BY <1>0, <2>2, <3>1
  <2> QED BY <1>2, <2>1, <2>3, <2>4
<1> QED BY <1>1, <1>3 DEF Controls

(* The types of what the actor, the callers and the others report.         *)
LEMMA ActorReports ==
  ASSUME CustodyInv, Controls, Sound(actor), Reported, ActorNext
  PROVE  Sound(actor)' /\ Reported'
<1>0. \A t \in tasks : TaskOK(t) BY DEF CustodyInv, Shapes
<1>1. Soundly BY ActorSoundly DEF Reported, Controls
<1>2. \A t \in tasks' : TaskSound(t)
  <2>1. CustodyInv' BY CustodyStep DEF Next
  <2>2. ASSUME NEW t \in tasks', t.attempt = 0,
               \A p \in DOMAIN t.batch : StampOK(t.batch[p]) /\ t.res[p] = Due
        PROVE  TaskSound(t)
    <3>1. TaskOK(t) BY <2>1 DEF CustodyInv, Shapes
    <3>2. t.live = DOMAIN t.batch BY <2>2, <3>1 DEF TaskOK
    <3>3. t.attempt \in 0..MaxAttempts BY <2>2, FaultsAssumption
    <3> QED BY <2>2, <3>2, <3>3, DueOK DEF TaskSound
  <2> QED BY <1>1, <2>2 DEF Soundly, Reported
<1>3. completions' \subseteq completions
  BY DEF ActorNext, HandleAppend, HandleFlush, HandleClosed, HandleCompleted, Wake, ClaimOk,
         ClaimRetriable, ClaimTerminal
<1>4. \A r \in Records : OutcomeOK(outcome'[r])
  <2>1. PICK N, X, T, F : Steps(N, X, T, F) BY ActorSteps
  <2>2. PICK k \in {"expired", "unsent"} :
          outcome' = [r \in Records |-> IF r \in X THEN Told(k) ELSE outcome[r]]
    BY <2>1 DEF Steps, Moves
  <2>3. OutcomeOK(Told(k)) BY DEF OutcomeOK, OutcomeKinds
  <2> QED BY <2>2, <2>3 DEF Reported
<1> QED BY <1>1, <1>2, <1>3, <1>4 DEF Soundly, Reported

LEMMA CallerReports ==
  ASSUME CustodyInv, Controls, Sound(actor), Reported, CallerNext
  PROVE  Controls' /\ Sound(actor)' /\ Reported'
<1>0. HandedOver /\ Shapes BY DEF CustodyInv
<1>1. UNCHANGED <<actor, tasks>> BY <1>0, CallerIs
<1>2. UNCHANGED <<closing, pc, issued, overdue, forgotten, completions>> /\ handles' \in BOOLEAN
  BY DEF CallerNext, Submit, AcquirePermit, DropHandles, PermitTimeout, Enqueue, CancelAppend,
         CallFlush, actorVars, brokerVars, Controls
<1>3. \A r \in Records : OutcomeOK(outcome'[r])
  <2>1. CASE outcome' = outcome BY <2>1 DEF Reported
  <2>2. ASSUME NEW x, NEW k, Tells(x, k) PROVE \A r \in Records : OutcomeOK(outcome'[r])
    <3>1. outcome' = [outcome EXCEPT ![x] = Told(k)] /\ k \in {"refused", "expired", "cancelled"}
      BY <2>2 DEF Tells
    <3>2. OutcomeOK(Told(k)) BY <3>1 DEF OutcomeOK, OutcomeKinds
    <3>3. outcome = [r \in Records |-> outcome[r]] BY <1>0 DEF Shapes
    <3>4. \A r \in Records : outcome'[r] = outcome[r] \/ outcome'[r] = Told(k) BY <3>1, <3>3
    <3> QED BY <3>2, <3>4 DEF Reported
  <2> QED BY <1>0, <2>1, <2>2, CallerIs DEF Quiet, Accepts, Flushing
<1> QED BY <1>1, <1>2, <1>3 DEF Controls, Reported

LEMMA OtherReports ==
  ASSUME CustodyInv, Controls, Sound(actor), Reported, TaskNext \/ ClusterNext \/ DeadlinePasses \/ Stopped \/ UNCHANGED vars
  PROVE  Controls' /\ Sound(actor)' /\ Reported'
<1>0. HandedOver /\ Shapes /\ LogsOK BY DEF CustodyInv, Shapes
<1>1. CASE TaskNext
  <2>1. UNCHANGED <<handles, closing, pc, issued, overdue, forgotten, actor>>
    BY <1>1 DEF TaskNext, TaskStep, Encode, Judge, RouteFails, Respond, LoseRequest, callerVars, actorVars, brokerVars
  <2>2. TaskSoundly BY <1>0, <1>1, TaskSteps DEF Reported, Controls
  <2> QED BY <2>1, <2>2 DEF TaskSoundly, Reported, Controls
<1>2. ASSUME NEW g \in ghosts, GhostArrives(g) PROVE Controls' /\ Sound(actor)' /\ Reported'
  BY <1>2 DEF GhostArrives, callerVars, actorVars, Reported, Controls
<1>3. ASSUME NEW p \in Partitions, Forget(p) PROVE Controls' /\ Sound(actor)' /\ Reported'
  <2>1. UNCHANGED <<handles, closing, pc, issued, overdue, actor, tasks, completions, outcome>>
    BY <1>3 DEF Forget, callerVars, actorVars
  <2>2. forgotten' = [forgotten EXCEPT ![p] = Len(log[p])] BY <1>3 DEF Forget
  <2>3. Len(log[p]) \in Nat BY <1>0 DEF LogsOK, Listing
  <2> QED BY <2>1, <2>2, <2>3 DEF Reported, Controls
<1>4. CASE DeadlinePasses
  <2> DEFINE ahead == {r \in (overdue + 1)..submitted : outcome[r] = Pending}
  <2>1. ahead # {} /\ overdue' = Min(ahead)
        /\ UNCHANGED <<handles, closing, pc, issued, forgotten, actor, tasks, completions, outcome>>
    BY <1>4 DEF DeadlinePasses, callerVars, actorVars, brokerVars
  <2>2. ahead \in SUBSET Records
    <3>1. (overdue + 1)..submitted \subseteq Records BY <1>0, RecordsAssumption DEF HandedOver, Records
    <3> QED BY <3>1
  <2> HIDE DEF ahead
  <2>3. Min(ahead) \in Records BY <2>1, <2>2, SmallestRecord
  <2>4. overdue' \in 0..NumRecords BY <2>1, <2>3, RecordsAssumption DEF Records
  <2> QED BY <2>1, <2>4 DEF Reported, Controls
<1>5. CASE Stopped \/ UNCHANGED vars
  BY <1>5 DEF Stopped, vars, callerVars, actorVars, brokerVars, Reported, Controls
<1> QED BY <1>1, <1>2, <1>3, <1>4, <1>5 DEF ClusterNext

(* The semaphore never hands out a permit it does not have.                *)
LEMMA FreeStep ==
  ASSUME CustodyInv, free \in Nat, [Next]_vars
  PROVE  free' \in Nat
<1>0. HandedOver BY DEF CustodyInv
<1>1. \A r \in Records : Size[r] \in Nat BY RecordsAssumption
<1>2. CASE AcquirePermit
  <2>1. waiters # <<>> /\ waiters \in Seq(Records) /\ free >= Size[Head(waiters)] /\ free' = free - Size[Head(waiters)]
    BY <1>0, <1>2 DEF AcquirePermit, HandedOver
  <2>2. Head(waiters) \in Records BY <2>1
  <2>3. PICK n \in Nat : n = Size[Head(waiters)] BY <1>1, <2>2
  <2> QED BY <2>1, <2>3
<1>3. ASSUME NEW r \in Records, CancelAppend(r) PROVE free' \in Nat
  <2>1. free' = free \/ free' = free + Size[r] BY <1>3 DEF CancelAppend
  <2>2. PICK n \in Nat : n = Size[r] BY <1>1
  <2> QED BY <2>1, <2>2
<1>4. CASE ActorNext \/ TaskNext
  <2>1. PICK X : Pays(X)
    <3>1. free \in Int OBVIOUS
    <3> QED BY <1>4, <3>1, ActorPays, TaskPays
  <2>2. X \in SUBSET Records /\ free' = free + Permits(X) BY <2>1 DEF Pays
  <2>3. Permits(X) \in Nat BY <2>2, PermitsStep
  <2> QED BY <2>2, <2>3
<1>5. CASE \/ Submit \/ DropHandles \/ (\E r \in Records : PermitTimeout(r) \/ Enqueue(r))
           \/ (\E f \in Flushes : CallFlush(f)) \/ ClusterNext \/ DeadlinePasses \/ Stopped \/ UNCHANGED vars
  <2>1. free' = free
    BY <1>5 DEF Submit, DropHandles, PermitTimeout, Enqueue, CallFlush, ClusterNext, GhostArrives, Forget,
                DeadlinePasses, Stopped, vars
  <2> QED BY <2>1
<1> QED BY <1>2, <1>3, <1>4, <1>5 DEF Next, CallerNext

(* The inductive invariant is one.                                         *)
LEMMA AccountStep == AccountInv /\ [Next]_vars => AccountInv'
<1> SUFFICES ASSUME AccountInv, [Next]_vars PROVE AccountInv' OBVIOUS
<1>1. PermitInv' /\ CustodyInv /\ free' \in Nat
  <2>1. CustodyInv /\ free \in Nat /\ PermitInv BY DEF AccountInv, PermitInv, PendingInv
  <2> QED BY <2>1, FreeStep, PermitStep
<1>2. Controls /\ Sound(actor) /\ Reported BY DEF AccountInv
<1>3. CASE CallerNext BY <1>1, <1>2, <1>3, CallerReports DEF AccountInv
<1>4. CASE ActorNext BY <1>1, <1>2, <1>4, ActorReports, ActorControls DEF AccountInv
<1>5. CASE TaskNext \/ ClusterNext \/ DeadlinePasses \/ Stopped \/ UNCHANGED vars
  BY <1>1, <1>2, <1>5, OtherReports DEF AccountInv
<1> QED BY <1>3, <1>4, <1>5 DEF Next

LEMMA AccountInit == Init => AccountInv
<1> SUFFICES ASSUME Init PROVE AccountInv OBVIOUS
<1>1. PermitInv /\ free \in Nat BY PermitInit, LimitsAssumption DEF Init
<1>2. Controls
  <2>1. handles = TRUE /\ closing = FALSE /\ pc = "select" /\ issued = 0 /\ overdue = 0
        /\ forgotten = [p \in Partitions |-> 0]
    BY DEF Init
  <2>2. 0 \in 0..NumRecords BY RecordsAssumption
  <2> QED BY <2>1, <2>2 DEF Controls
<1>3. Sound(actor)
  <2>1. ActorOK(actor) BY CustodyInit DEF CustodyInv, Shapes
  <2>2. /\ actor.open = [p \in Partitions |-> <<>>] /\ actor.pending = [p \in Partitions |-> <<>>]
        /\ actor.next = [p \in Partitions |-> 0] /\ actor.identity = NoIdentity
    BY DEF Init, NewActor
  <2>3. BuffersFit(actor) BY <2>2, EmptyFits DEF BuffersFit
  <2>4. Numbers(actor) BY <2>2 DEF Numbers, NoIdentity, Tabled
  <2> QED BY <2>1, <2>3, <2>4 DEF Sound
<1>4. Reported
  <2>1. OutcomeOK(Pending)
    <3>1. Pending = Told("pending") /\ "pending" \in OutcomeKinds BY DEF Pending, Told, OutcomeKinds
    <3> QED BY <3>1 DEF OutcomeOK
  <2> QED BY <2>1 DEF Init, Reported
<1> QED BY <1>1, <1>2, <1>3, <1>4 DEF AccountInv

(* It gives the types; that no permit is lent twice gives the range of     *)
(* free.                                                                   *)
LEMMA AccountTypes ==
  ASSUME AccountInv
  PROVE  TypeOK
<1>0. /\ FlushInv /\ CustodyInv /\ free \in Nat /\ PermitsConserved
      /\ Controls /\ Sound(actor) /\ Reported
      /\ InFlightInv /\ Shapes /\ HandedOver /\ Placed
  BY DEF AccountInv, PermitInv, PendingInv, CustodyInv
<1>1. submitted \in 0..NumRecords /\ waiters \in Seq(Records) /\ holding \subseteq Records
  <2>1. submitted \in 0..NumRecords /\ waiters \in Seq(Records) /\ holding \subseteq 1..submitted
    BY <1>0 DEF HandedOver
  <2>2. 1..submitted \subseteq Records BY <2>1, RecordsAssumption DEF Records
  <2> QED BY <2>1, <2>2
<1>2. free \in 0..BufferMemory
  <2>1. Held \in SUBSET Records
    <3>1. ToSet(accepted) \subseteq Records BY <1>0, ToSetType DEF HandedOver
    <3> QED BY <1>1, <3>1 DEF Held
  <2>2. Permits(Held) \in Nat BY <2>1, PermitsStep
  <2>3. free + Permits(Held) = BufferMemory BY <1>0 DEF PermitsConserved
  <2>4. PICK f \in Nat, n \in Nat, b \in Nat : f = free /\ n = Permits(Held) /\ b = BufferMemory /\ f + n = b
    BY <1>0, <2>2, <2>3, LimitsAssumption
  <2>5. f \in 0..b BY <2>4
  <2> QED BY <2>4, <2>5
<1>3. \A i \in DOMAIN commands :
       commands[i] \in {AppendCommand(r) : r \in Records} \cup {FlushCommand(f) : f \in Flushes}
  <2>1. commands \in Seq(Commands) BY <1>0 DEF Placed
  <2>2. \A i \in DOMAIN commands : commands[i] \in Commands BY <2>1
  <2> QED BY <2>2 DEF Commands
<1>4. \A r \in Records : \/ outcome[r] \in {Told(k) : k \in OutcomeKinds}
                         \/ (outcome[r].kind = "ok" /\ outcome[r].off \in Nat)
  BY <1>0 DEF Reported, OutcomeOK
<1>5. /\ actor.open \in [Partitions -> Seq(Records)]
      /\ actor.pending \in [Partitions -> Seq(Seq(Records))]
      /\ actor.next \in [Partitions -> Nat] /\ actor.identity \in Nat
  <2>1. ActorOK(actor) /\ Numbers(actor) BY <1>0 DEF Sound
  <2>2. DOMAIN actor.open = Partitions /\ DOMAIN actor.pending = Partitions
        /\ \A p \in Partitions : actor.open[p] \in Seq(Records) /\ actor.pending[p] \in Seq(Seq(Records))
    BY <2>1 DEF ActorOK, BufferOK
  <2>3. actor.open = [p \in Partitions |-> actor.open[p]] /\ actor.pending = [p \in Partitions |-> actor.pending[p]]
    BY <2>1 DEF Numbers, Tabled
  <2> QED BY <2>1, <2>2, <2>3 DEF Numbers
<1>6. \A t \in tasks :
       /\ DOMAIN t.batch \subseteq Partitions /\ DOMAIN t.batch = DOMAIN t.res
       /\ t.live \subseteq DOMAIN t.batch /\ t.attempt \in 0..MaxAttempts
       /\ \A p \in DOMAIN t.batch : /\ t.batch[p] \in BatchType
                                    /\ t.res[p] \in ResultType
  <2> SUFFICES ASSUME NEW t \in tasks
               PROVE  /\ DOMAIN t.batch \subseteq Partitions /\ DOMAIN t.batch = DOMAIN t.res
                      /\ t.live \subseteq DOMAIN t.batch /\ t.attempt \in 0..MaxAttempts
                      /\ \A p \in DOMAIN t.batch : /\ t.batch[p] \in BatchType
                                                   /\ t.res[p] \in ResultType
    OBVIOUS
  <2>1. TaskOK(t) /\ TaskSound(t) BY <1>0 DEF Shapes, Reported
  <2>2. \A p \in DOMAIN t.batch : t.batch[p] \in BatchType /\ t.res[p] \in ResultType
    BY <2>1 DEF TaskSound, StampOK, ResultOK
  <2>3. t.attempt \in 0..MaxAttempts BY <2>1 DEF TaskSound
  <2> QED BY <2>1, <2>2, <2>3 DEF TaskOK
<1>7. \A c \in completions :
       /\ c.parts \subseteq Partitions /\ DOMAIN c.released \subseteq c.parts
       /\ c.reset \in BOOLEAN
  BY <1>0 DEF Reported, Counts
<1>8. actor.inflight \subseteq Partitions
  <2>1. actor.inflight = (UNION {DOMAIN t.batch : t \in tasks}) \cup (UNION {c.parts : c \in completions})
    BY <1>0 DEF InFlightInv, OneBatchPerPartition
  <2> QED BY <1>6, <1>7, <2>1
<1>9. flush \in [Flushes -> {"idle", "queued", "waiting", "done"}] BY <1>0 DEF FlushInv
<1>10. /\ handles \in BOOLEAN /\ closing \in BOOLEAN /\ overdue \in 0..NumRecords
       /\ pc \in {"select", "claim", "stopped"} /\ issued \in Nat
  BY <1>0 DEF Controls
<1> QED BY <1>1, <1>2, <1>3, <1>4, <1>5, <1>6, <1>7, <1>8, <1>9, <1>10 DEF TypeOK

(* And the bounds of every batch.                                          *)
LEMMA AccountBounds ==
  ASSUME AccountInv
  PROVE  BatchesWithinBounds
<1> DEFINE fine(b) == /\ b # <<>>
                      /\ Len(b) > 1 => Bytes(b) <= BatchSize /\ Bytes(b) <= MaxRequest
<1>0. Sound(actor) /\ Reported BY DEF AccountInv
<1>1. ASSUME NEW p \in Partitions, NEW i \in DOMAIN Buffers(p) PROVE fine(Buffers(p)[i])
  <2>1. PICK o, q : o = actor.open[p] /\ q = actor.pending[p] OBVIOUS
  <2>2. o \in Seq(Records) /\ q \in Seq(Seq(Records)) /\ Fits(o)
        /\ \A j \in DOMAIN q : q[j] # <<>> /\ Fits(q[j])
    BY <1>0, <2>1 DEF Sound, ActorOK, BufferOK, BuffersFit
  <2>3. Buffers(p) = q \o (IF o = <<>> THEN <<>> ELSE <<o>>) BY <2>1 DEF Buffers
  <2>4. (\E j \in DOMAIN q : Buffers(p)[i] = q[j]) \/ (o # <<>> /\ Buffers(p)[i] = o)
    <3>1. CASE o = <<>>
      <4>1. q \o <<>> = q BY <2>2
      <4>2. Buffers(p) = q BY <2>3, <3>1, <4>1
      <4> QED BY <4>2
    <3>2. CASE o # <<>>
      <4>1. Buffers(p) = q \o <<o>> BY <2>3, <3>2
      <4>2. <<o>> \in Seq(Seq(Records)) /\ Len(<<o>>) = 1 BY <2>2
      <4>3. Buffers(p) \in Seq(Seq(Records)) /\ Len(Buffers(p)) = Len(q) + 1 BY <2>2, <4>1, <4>2
      <4>4. i \in 1..(Len(q) + 1) /\ Len(q) \in Nat BY <2>2, <4>3
      <4>5. CASE i <= Len(q)
        <5>1. i \in DOMAIN q BY <2>2, <4>4, <4>5
        <5>2. Buffers(p)[i] = q[i] BY <2>2, <4>1, <4>2, <4>4, <4>5
        <5> QED BY <5>1, <5>2
      <4>6. CASE i > Len(q)
        <5>1. Buffers(p)[i] = <<o>>[i - Len(q)] /\ i - Len(q) = 1 BY <2>2, <4>1, <4>2, <4>4, <4>6
        <5>2. Buffers(p)[i] = o BY <5>1
        <5> QED BY <3>2, <5>2
      <4> QED BY <4>4, <4>5, <4>6
    <3> QED BY <3>1, <3>2
  <2> QED BY <2>2, <2>4 DEF Fits
<1>2. ASSUME NEW t \in tasks, NEW b \in Batches(t) PROVE fine(b.recs)
  <2>1. PICK p \in DOMAIN t.batch : b = t.batch[p] BY DEF Batches
  <2>2. StampOK(t.batch[p]) BY <1>0 DEF Reported, TaskSound
  <2> QED BY <2>1, <2>2 DEF StampOK, Fits
<1> QED BY <1>1, <1>2 DEF BatchesWithinBounds

(* The buffer is accounted for on every path (BufferAccounted), for every  *)
(* configuration, input and pattern of faults: the semaphore's free        *)
(* permits and those of the records in hand add up to buffer_memory; an    *)
(* accepted record is in the channel, in a batch or on a task until it is  *)
(* resolved; no batch of several records outgrows batch_size or            *)
(* max_request_size.                                                       *)
THEOREM BufferIsAccounted == Spec => []BufferAccounted
<1>1. Init => AccountInv BY AccountInit
<1>2. AccountInv /\ [Next]_vars => AccountInv' BY AccountStep
<1>3. AccountInv => BufferAccounted
  <2> SUFFICES ASSUME AccountInv PROVE BufferAccounted OBVIOUS
  <2>1. FlushInv /\ PendingInv /\ PermitsConserved BY DEF AccountInv, PermitInv
  <2>2. NothingLost BY <2>1, NothingLostHolds
  <2> QED BY <2>1, <2>2, AccountTypes, AccountBounds DEF BufferAccounted
<1> QED BY <1>1, <1>2, <1>3, PTL DEF Spec

-----------------------------------------------------------------------------
(* The sequence numbers.                                                   *)

(* No record in a log was reported as failed.                              *)
Settled == \A r \in Records : Written(r) => outcome[r].kind \in {"pending", "ok"}

(* The number a log expects next of the one producer that writes to it.    *)
Expected(l) == IF l = <<>> THEN 0 ELSE l[Len(l)].base + Len(l[Len(l)].recs)

LastIs(l, b) == l # <<>> /\ Same(b, l[Len(l)])

(* The batch of p on the task t is next in line or the last one written.   *)
InLine(A, t, p) ==
  LET b == t.batch[p] IN
  /\ p \in A.inflight
  /\ ~invalidates_producer_state(t.res[p].err)
  /\ b.pid = A.identity /\ A.next[p] = b.base + Len(b.recs)
  /\ b.base = Expected(log[p]) \/ LastIs(log[p], b)
  /\ t.res[p].kind = "ack" => LastIs(log[p], b)
  /\ t.res[p].kind = "unencodable" => b.base = Expected(log[p])

(* What a completion gives back of p, or keeps.                            *)
Back(A, c, p) ==
  /\ p \in A.inflight
  /\ (IF p \in DOMAIN c.released THEN c.released[p] ELSE A.next[p]) = Expected(log[p])

(* The log of p was written in line.                                       *)
WrittenInLine(A, p) ==
  \A i \in DOMAIN log[p] :
    /\ log[p][i].pid = A.identity /\ A.identity # NoIdentity /\ log[p][i].base \in Nat
    /\ log[p][i].base + Len(log[p][i].recs) <= Expected(log[p])

Lined(A, T, C) ==
  /\ \A t \in T : \A p \in DOMAIN t.batch : InLine(A, t, p)
  /\ \A c \in C : ~c.reset /\ \A p \in c.parts : Back(A, c, p)
  /\ \A p \in Partitions : WrittenInLine(A, p) /\ (p \notin A.inflight => A.next[p] = Expected(log[p]))
  /\ \A g \in ghosts : g.batch.pid = A.identity /\ g.batch.recs # <<>>

Waits == pc = "claim" => actor.identity = NoIdentity

AcksWritten == \A r \in Records : outcome[r].kind = "ok" => Written(r)

GapInv ==
  /\ AccountInv /\ OnceInv /\ Waits
  /\ Settled /\ forgets = 0 => Lined(actor, tasks, completions) /\ AcksWritten

-----------------------------------------------------------------------------
(* A log that was written in line.                                         *)
GoodLog(l, p, id) ==
  /\ Listing(l)
  /\ \A i \in DOMAIN l : /\ EntryOK(l[i], p) /\ l[i].pid = id /\ id # NoIdentity /\ l[i].base \in Nat
                         /\ l[i].base + Len(l[i].recs) <= Expected(l)

(* A batch that is next in line, or the last one written.                  *)
Fine(b, l, p, id) ==
  /\ StampOK(b) /\ BatchOK(b, p) /\ b.pid = id /\ id # NoIdentity
  /\ b.base = Expected(l) \/ LastIs(l, b)

LEMMA LogSize ==
  ASSUME NEW l, NEW p, NEW id, GoodLog(l, p, id)
  PROVE  /\ Len(l) \in Nat /\ DOMAIN l = 1..Len(l) /\ (l # <<>> => Len(l) \in DOMAIN l)
         /\ Expected(l) \in Nat
         /\ \A i \in DOMAIN l : Len(l[i].recs) \in Nat
<1>1. l \in Seq({l[i] : i \in DOMAIN l}) BY DEF GoodLog, Listing
<1>2. Len(l) \in Nat /\ DOMAIN l = 1..Len(l) /\ (l # <<>> => Len(l) \in DOMAIN l) BY <1>1
<1>3. \A i \in DOMAIN l : Len(l[i].recs) \in Nat /\ l[i].base \in Nat
  <2>1. \A i \in DOMAIN l : l[i].recs \in Seq(Records) /\ l[i].base \in Nat BY DEF GoodLog, EntryOK
  <2> QED BY <2>1
<1>4. Expected(l) \in Nat
  <2>1. CASE l = <<>> BY <2>1 DEF Expected
  <2>2. CASE l # <<>>
    <3>1. PICK n \in DOMAIN l : n = Len(l) BY <1>2, <2>2
    <3>2. Expected(l) = l[n].base + Len(l[n].recs) BY <2>2, <3>1 DEF Expected
    <3>3. l[n].base \in Nat /\ Len(l[n].recs) \in Nat BY <1>3
    <3> QED BY <3>2, <3>3
  <2> QED BY <2>1, <2>2
<1> QED BY <1>2, <1>3, <1>4

LEMMA FineSize ==
  ASSUME NEW b, NEW l, NEW p, NEW id, Fine(b, l, p, id)
  PROVE  b.base \in Nat /\ Len(b.recs) \in Nat /\ Len(b.recs) > 0 /\ b.recs \in Seq(Records)
<1>1. b.base \in Nat /\ b.recs \in Seq(Records) /\ b.recs # <<>> BY DEF Fine, StampOK, BatchType
<1> QED BY <1>1

(* The last one written is a duplicate, and nothing else in line is.       *)
LEMMA DuplicateIsLast ==
  ASSUME NEW l, NEW p, NEW id, GoodLog(l, p, id), NEW b, Fine(b, l, p, id)
  PROVE  IsDuplicate(l, 0, b) <=> LastIs(l, b)
<1>1. Len(l) \in Nat /\ DOMAIN l = 1..Len(l) /\ (l # <<>> => Len(l) \in DOMAIN l) /\ Expected(l) \in Nat
  BY LogSize
<1>2. b.base \in Nat /\ Len(b.recs) \in Nat /\ Len(b.recs) > 0 /\ b.pid # NoPid
  BY FineSize DEF Fine, NoPid, NoIdentity
<1>3. ASSUME LastIs(l, b) PROVE IsDuplicate(l, 0, b)
  <2>1. Len(l) \in (0 + 1)..Len(l) /\ Same(b, l[Len(l)]) BY <1>1, <1>3 DEF LastIs
  <2>2. l[Len(l)] \in Duplicates(l, 0, b) BY <2>1 DEF Duplicates, Same
  <2> QED BY <1>2, <2>2 DEF IsDuplicate
<1>4. ASSUME IsDuplicate(l, 0, b) PROVE LastIs(l, b)
  <2>1. PICK i \in (0 + 1)..Len(l) : l[i].base = b.base /\ Len(l[i].recs) = Len(b.recs)
    BY <1>4 DEF IsDuplicate, Duplicates
  <2>2. i \in DOMAIN l BY <1>1
  <2>3. l[i].base + Len(l[i].recs) <= Expected(l) BY <2>2 DEF GoodLog
  <2>4. b.base # Expected(l) BY <1>1, <1>2, <2>1, <2>3
  <2> QED BY <2>4 DEF Fine
<1> QED BY <1>3, <1>4

(* The broker sees no hole.                                                *)
LEMMA NoHole ==
  ASSUME NEW l, NEW p, NEW id, GoodLog(l, p, id), NEW b, Fine(b, l, p, id)
  PROVE  /\ \/ IsDuplicate(l, 0, b)
            \/ IF Known(l, 0, b) THEN InSequence(l, 0, b) ELSE b.base = 0
         /\ ~MayRefuse(l, 0, b)
<1>1. Len(l) \in Nat /\ DOMAIN l = 1..Len(l) /\ (l # <<>> => Len(l) \in DOMAIN l) BY LogSize
<1> DEFINE R == Remembered(l, 0, b.pid)
<1>2. R = 1..Len(l)
  <2>1. \A i \in 1..Len(l) : l[i].pid = b.pid BY <1>1 DEF GoodLog, Fine
  <2>2. R = {i \in (0 + 1)..Len(l) : l[i].pid = b.pid} BY DEF Remembered
  <2>3. \A i : i \in (0 + 1)..Len(l) <=> i \in 1..Len(l) BY <1>1
  <2>4. \A i : i \in R <=> i \in 1..Len(l) BY <2>1, <2>2, <2>3
  <2> HIDE DEF R
  <2> QED BY <2>4
<1>3. Known(l, 0, b) <=> R # {} BY DEF Known
<1>4. InSequence(l, 0, b) <=> b.base = l[Max(R)].base + Len(l[Max(R)].recs) BY DEF InSequence
<1> HIDE DEF R
<1>5. ASSUME b.base = Expected(l) PROVE IF Known(l, 0, b) THEN InSequence(l, 0, b) ELSE b.base = 0
  <2>1. CASE l = <<>>
    <3>1. R = {} BY <1>2, <2>1
    <3> QED BY <1>3, <1>5, <2>1, <3>1 DEF Expected
  <2>2. CASE l # <<>>
    <3>1. Len(l) \in R /\ \A i \in R : Len(l) >= i BY <1>1, <1>2, <2>2
    <3>2. Max(R) \in R /\ \A i \in R : Max(R) >= i BY <3>1 DEF Max
    <3>3. Max(R) = Len(l) BY <1>1, <1>2, <3>1, <3>2
    <3>4. InSequence(l, 0, b) BY <1>4, <1>5, <2>2, <3>3 DEF Expected
    <3> QED BY <1>3, <3>1, <3>4
  <2> QED BY <2>1, <2>2
<1>6. \/ IsDuplicate(l, 0, b)
      \/ IF Known(l, 0, b) THEN InSequence(l, 0, b) ELSE b.base = 0
  BY <1>5, DuplicateIsLast DEF Fine
<1>7. ~MayRefuse(l, 0, b) BY <1>6 DEF MayRefuse
<1> QED BY <1>6, <1>7

(* A batch in line is appended in line.                                    *)
LEMMA AppendInLine ==
  ASSUME NEW l, NEW p, NEW id, GoodLog(l, p, id), NEW b, Fine(b, l, p, id), MayAppend(l, 0, b)
  PROVE  /\ b.base = Expected(l) /\ ~LastIs(l, b)
         /\ GoodLog(AppendBatch(l, b), p, id)
         /\ LastIs(AppendBatch(l, b), b) /\ Expected(AppendBatch(l, b)) = b.base + Len(b.recs)
<1>0. Len(l) \in Nat /\ DOMAIN l = 1..Len(l) /\ Expected(l) \in Nat /\ \A i \in DOMAIN l : Len(l[i].recs) \in Nat
  BY LogSize
<1>1. b.base \in Nat /\ Len(b.recs) \in Nat /\ Len(b.recs) > 0 /\ b.pid # NoPid /\ BatchOK(b, p)
      /\ b.pid = id /\ id # NoIdentity
  BY FineSize DEF Fine, NoPid, NoIdentity
<1>2. b.base = Expected(l) /\ ~LastIs(l, b) BY <1>1, DuplicateIsLast DEF MayAppend, Fine
<1>3. PICK m, n : m = AppendBatch(l, b) /\ n = Len(l) + 1 OBVIOUS
<1>4. Extends(l, m, b) /\ \A i \in DOMAIN m : EntryOK(m[i], p) BY <1>1, <1>3, EntryAppended DEF GoodLog
<1>5. /\ Listing(m) /\ DOMAIN m = 1..n
      /\ \A i \in DOMAIN l : m[i] = l[i]
      /\ \A i \in DOMAIN m : i \in DOMAIN l \/ i = n
      /\ m[n].recs = b.recs /\ m[n].pid = b.pid /\ m[n].base = b.base
  BY <1>3, <1>4 DEF Extends
<1>6. Len(m) = n /\ m # <<>>
  <2>1. m \in Seq({m[i] : i \in DOMAIN m}) BY <1>5 DEF Listing
  <2>2. n \in DOMAIN m BY <1>0, <1>3, <1>5
  <2> QED BY <1>0, <1>3, <1>5, <2>1, <2>2
<1>7. LastIs(m, b) BY <1>5, <1>6 DEF LastIs, Same
<1>8. Expected(m) = b.base + Len(b.recs) BY <1>5, <1>6 DEF Expected
<1>9. ASSUME NEW i \in DOMAIN m
      PROVE  m[i].pid = id /\ m[i].base \in Nat /\ m[i].base + Len(m[i].recs) <= Expected(m)
  <2>1. CASE i \in DOMAIN l
    <3>1. m[i] = l[i] /\ l[i].pid = id /\ l[i].base \in Nat /\ l[i].base + Len(l[i].recs) <= Expected(l) /\ Len(l[i].recs) \in Nat
      BY <1>0, <1>5, <2>1 DEF GoodLog
    <3>2. PICK x \in Nat, y \in Nat : x = l[i].base /\ y = Len(l[i].recs) BY <3>1
    <3>3. x + y <= b.base + Len(b.recs) BY <1>0, <1>1, <1>2, <3>1, <3>2
    <3> QED BY <1>8, <3>1, <3>2, <3>3
  <2>2. CASE i = n BY <1>1, <1>5, <1>8, <2>2
  <2> QED BY <1>5, <2>1, <2>2
<1>10. GoodLog(m, p, id) BY <1>1, <1>4, <1>5, <1>9 DEF GoodLog
<1> QED BY <1>2, <1>3, <1>7, <1>8, <1>10

(* What was written stays written, and what its caller was told stands.    *)
LEMMA StaysWritten ==
  ASSUME CustodyInv, [Next]_vars
  PROVE  \A r : Written(r) => Written(r)'
<1>1. Grows BY LogsGrow
<1> QED BY <1>1 DEF Grows, Written

LEMMA OutcomesKept ==
  ASSUME PermitInv, [Next]_vars, NEW r \in Records, Written(r)
  PROVE  outcome'[r] = outcome[r] \/ outcome[r] = Pending
<1>0. CustodyInv /\ Shapes /\ HandedOver /\ Placed /\ PendingInv /\ free \in Int
  BY DEF PermitInv, PendingInv, CustodyInv
<1>1. r \in ToSet(accepted) BY <1>0 DEF Placed, Away
<1>2. CASE CallerNext
  <2>1. outcome' = outcome \/ \E x, k : Tells(x, k) BY <1>0, <1>2, CallerIs DEF Quiet, Accepts, Flushing
  <2>2. ASSUME NEW x, NEW k, Tells(x, k) PROVE outcome'[r] = outcome[r]
    <3>1. x # r /\ outcome' = [outcome EXCEPT ![x] = Told(k)] BY <1>1, <2>2 DEF Tells
    <3> QED BY <1>0, <3>1 DEF Shapes
  <2> QED BY <2>1, <2>2
<1>3. CASE ActorNext \/ TaskNext
  <2>1. PICK X : Pays(X) BY <1>0, <1>3, ActorPays, TaskPays
  <2> QED BY <1>0, <2>1 DEF Pays, PendingInv
<1>4. CASE ClusterNext \/ DeadlinePasses \/ Stopped \/ UNCHANGED vars
  BY <1>4 DEF ClusterNext, GhostArrives, Forget, DeadlinePasses, Stopped, vars
<1> QED BY <1>2, <1>3, <1>4 DEF Next

LEMMA SettledBefore ==
  ASSUME PermitInv, OnceInv, OnceInv', [Next]_vars, Settled', forgets' = 0
  PROVE  Settled /\ forgets = 0
<1>1. CustodyInv BY DEF OnceInv
<1>2. Settled
  <2> SUFFICES ASSUME NEW r \in Records, Written(r) PROVE outcome[r].kind \in {"pending", "ok"} BY DEF Settled
  <2>1. Written(r)' BY <1>1, StaysWritten
  <2>2. outcome'[r].kind \in {"pending", "ok"} BY <2>1 DEF Settled
  <2>3. Pending.kind = "pending" BY DEF Pending
  <2> QED BY <2>2, <2>3, OutcomesKept
<1>3. forgets = 0
  <2>1. forgets \in Nat BY DEF OnceInv
  <2>2. forgets' = forgets \/ forgets' = forgets + 1
    <3>1. CASE CallerNext
      BY <3>1 DEF CallerNext, Submit, AcquirePermit, DropHandles, PermitTimeout, Enqueue, CancelAppend, CallFlush, brokerVars
    <3>2. CASE ActorNext
      BY <3>2 DEF ActorNext, HandleAppend, HandleFlush, HandleClosed, HandleCompleted, Wake, ClaimOk,
                  ClaimRetriable, ClaimTerminal, brokerVars
    <3>3. CASE TaskNext
      BY <3>3 DEF TaskNext, TaskStep, Encode, Judge, RouteFails, Respond, LoseRequest, brokerVars
    <3>4. CASE ClusterNext \/ DeadlinePasses \/ Stopped \/ UNCHANGED vars
      BY <3>4 DEF ClusterNext, GhostArrives, Forget, DeadlinePasses, Stopped, vars, brokerVars
    <3> QED BY <3>1, <3>2, <3>3, <3>4 DEF Next
  <2> QED BY <2>1, <2>2
<1> QED BY <1>2, <1>3

-----------------------------------------------------------------------------
(* What the invariant gives for one partition.                             *)
LEMMA LinedLogs ==
  ASSUME CustodyInv, Lined(actor, tasks, completions), NEW p \in Partitions
  PROVE  GoodLog(log[p], p, actor.identity)
<1>1. Listing(log[p]) /\ \A i \in DOMAIN log[p] : EntryOK(log[p][i], p) BY DEF CustodyInv, Shapes, LogsOK
<1>2. WrittenInLine(actor, p) BY DEF Lined
<1> QED BY <1>1, <1>2 DEF WrittenInLine, GoodLog

LEMMA LinedTask ==
  ASSUME OnceInv, Reported, Lined(actor, tasks, completions), NEW t \in tasks, NEW p \in DOMAIN t.batch
  PROVE  /\ p \in Partitions /\ BatchOK(t.batch[p], p) /\ InLine(actor, t, p)
         /\ Fine(t.batch[p], log[p], p, actor.identity)
<1>1. TaskOK(t) /\ TaskSound(t) BY DEF OnceInv, CustodyInv, Shapes, Reported
<1>2. p \in Partitions /\ BatchOK(t.batch[p], p) /\ StampOK(t.batch[p]) BY <1>1 DEF TaskOK, TaskSound
<1>3. InLine(actor, t, p) BY DEF Lined
<1>4. t.batch[p] \in OnWire(p) BY OnWireIs
<1>5. t.batch[p].pid # NoPid BY <1>2, <1>4 DEF OnceInv
<1>6. /\ t.batch[p].pid = actor.identity
      /\ t.batch[p].base = Expected(log[p]) \/ LastIs(log[p], t.batch[p])
  BY <1>3 DEF InLine
<1> QED BY <1>2, <1>3, <1>5, <1>6 DEF Fine, NoPid, NoIdentity

(* A task goes on: its batch is next in line or written by now.            *)
TaskGoesOn(t, u) ==
  /\ t \in tasks /\ Succeeds(u, t) /\ tasks' = (tasks \ {t}) \cup {u}
  /\ UNCHANGED <<actor, completions>>
  /\ \A p \in Partitions :
       \/ log'[p] = log[p]
       \/ /\ p \in DOMAIN t.batch /\ MayAppend(log[p], 0, t.batch[p])
          /\ log'[p] = AppendBatch(log[p], t.batch[p])
          /\ u.res[p].kind # "unencodable"
  /\ \A p \in DOMAIN t.batch :
       /\ ~invalidates_producer_state(u.res[p].err)
       /\ u.res[p].kind = "ack" => LastIs(log'[p], t.batch[p])
       /\ u.res[p].kind = "unencodable" => t.batch[p].base = Expected(log[p])
  /\ \A g \in ghosts' : g.batch.pid = actor.identity /\ g.batch.recs # <<>>

LEMMA TaskLine ==
  ASSUME OnceInv, Reported, Lined(actor, tasks, completions), NEW t, NEW u, TaskGoesOn(t, u)
  PROVE  Lined(actor, tasks, completions)'
<1>0. /\ t \in tasks /\ u.batch = t.batch /\ tasks' = (tasks \ {t}) \cup {u}
      /\ actor' = actor /\ completions' = completions
      /\ \A g \in ghosts' : g.batch.pid = actor.identity /\ g.batch.recs # <<>>
  BY DEF TaskGoesOn, Succeeds
<1>1. OneBatchPerPartition /\ CustodyInv BY DEF OnceInv, CustodyInv, InFlightInv
<1>2. ASSUME NEW p \in Partitions, p \notin DOMAIN t.batch PROVE log'[p] = log[p] BY <1>2 DEF TaskGoesOn
<1>3. ASSUME NEW p \in Partitions PROVE WrittenInLine(actor, p)'
  <2>1. GoodLog(log[p], p, actor.identity) BY <1>1, LinedLogs
  <2>2. GoodLog(log'[p], p, actor.identity)
    <3>1. CASE log'[p] = log[p] BY <2>1, <3>1
    <3>2. CASE p \in DOMAIN t.batch /\ MayAppend(log[p], 0, t.batch[p]) /\ log'[p] = AppendBatch(log[p], t.batch[p])
      <4>1. Fine(t.batch[p], log[p], p, actor.identity) BY <1>0, <3>2, LinedTask
      <4>2. PICK l, b, id : l = log[p] /\ b = t.batch[p] /\ id = actor.identity OBVIOUS
      <4>3. GoodLog(AppendBatch(l, b), p, id) BY <2>1, <3>2, <4>1, <4>2, AppendInLine
      <4> QED BY <3>2, <4>2, <4>3
    <3> QED BY <3>1, <3>2 DEF TaskGoesOn
  <2> QED BY <1>0, <2>2 DEF GoodLog, WrittenInLine
<1>4. ASSUME NEW v \in tasks', NEW p \in DOMAIN v.batch PROVE InLine(actor, v, p)'
  <2>1. CASE v \in tasks /\ v # t
    <3>1. p \notin DOMAIN t.batch BY <1>0, <1>1, <2>1 DEF OneBatchPerPartition
    <3>2. p \in Partitions /\ InLine(actor, v, p) BY <2>1, LinedTask
    <3>3. log'[p] = log[p] BY <1>2, <3>1, <3>2
    <3> QED BY <1>0, <3>2, <3>3 DEF InLine
  <2>2. CASE v = u
    <3>1. p \in DOMAIN t.batch /\ u.batch[p] = t.batch[p] BY <1>0, <2>2
    <3>2. p \in Partitions /\ InLine(actor, t, p) /\ Fine(t.batch[p], log[p], p, actor.identity)
      BY <1>0, <3>1, LinedTask
    <3>3. PICK b, l, m, id : b = t.batch[p] /\ l = log[p] /\ m = log'[p] /\ id = actor.identity OBVIOUS
    <3>4. /\ p \in actor.inflight /\ b.pid = id /\ actor.next[p] = b.base + Len(b.recs)
          /\ b.base = Expected(l) \/ LastIs(l, b)
      BY <3>2, <3>3 DEF InLine
    <3>5. /\ ~invalidates_producer_state(u.res[p].err)
          /\ u.res[p].kind = "ack" => LastIs(m, b)
          /\ u.res[p].kind = "unencodable" => b.base = Expected(l)
      BY <3>1, <3>3 DEF TaskGoesOn
    <3>6. \/ m = l
          \/ m = AppendBatch(l, b) /\ MayAppend(l, 0, b) /\ u.res[p].kind # "unencodable"
      BY <3>2, <3>3 DEF TaskGoesOn
    <3>7. /\ b.base = Expected(m) \/ LastIs(m, b)
          /\ u.res[p].kind = "unencodable" => b.base = Expected(m)
      <4>1. CASE m = l BY <3>4, <3>5, <4>1
      <4>2. CASE m = AppendBatch(l, b) /\ MayAppend(l, 0, b) /\ u.res[p].kind # "unencodable"
        <5>1. GoodLog(l, p, id) /\ Fine(b, l, p, id) BY <1>1, <3>2, <3>3, LinedLogs
        <5>2. LastIs(m, b) BY <4>2, <5>1, AppendInLine
        <5> QED BY <4>2, <5>2
      <4> QED BY <3>6, <4>1, <4>2
    <3> QED BY <1>0, <2>2, <3>1, <3>3, <3>4, <3>5, <3>7 DEF InLine
  <2> QED BY <1>0, <2>1, <2>2
<1>5. ASSUME NEW c \in completions PROVE ~c.reset /\ \A p \in c.parts : Back(actor, c, p)'
  <2>1. ~c.reset /\ \A p \in c.parts : Back(actor, c, p) BY DEF Lined
  <2>2. ASSUME NEW p \in c.parts PROVE Back(actor, c, p)'
    <3>1. Counts(c) /\ p \notin DOMAIN t.batch BY <1>0, <1>1 DEF OneBatchPerPartition, Reported
    <3>2. log'[p] = log[p] BY <1>2, <3>1 DEF Counts
    <3> QED BY <1>0, <2>1, <3>2 DEF Back
  <2> QED BY <2>1, <2>2
<1>6. ASSUME NEW p \in Partitions, p \notin actor.inflight PROVE actor.next[p] = Expected(log'[p])
  <2>1. p \notin DOMAIN t.batch BY <1>0, <1>6, LinedTask DEF InLine
  <2>2. log'[p] = log[p] BY <1>2, <2>1
  <2> QED BY <1>6, <2>2 DEF Lined
<1> QED BY <1>0, <1>3, <1>4, <1>5, <1>6 DEF Lined

(* Nothing that the line is about changes.                                 *)
LEMMA SameLine ==
  ASSUME Lined(actor, tasks, completions), UNCHANGED <<actor, tasks, completions>>,
         \A p \in Partitions : log'[p] = log[p], \A g \in ghosts' : g \in ghosts,
         \A t \in tasks : DOMAIN t.batch \subseteq Partitions, \A c \in completions : c.parts \subseteq Partitions
  PROVE  Lined(actor, tasks, completions)'
<1>1. \A t \in tasks : \A p \in DOMAIN t.batch : InLine(actor, t, p)'
  <2> SUFFICES ASSUME NEW t \in tasks, NEW p \in DOMAIN t.batch PROVE InLine(actor, t, p)' OBVIOUS
  <2>1. InLine(actor, t, p) /\ log'[p] = log[p] BY DEF Lined
  <2> QED BY <2>1 DEF InLine
<1>2. \A c \in completions : ~c.reset /\ \A p \in c.parts : Back(actor, c, p)'
  <2> SUFFICES ASSUME NEW c \in completions PROVE ~c.reset /\ \A p \in c.parts : Back(actor, c, p)' OBVIOUS
  <2>1. ~c.reset /\ \A p \in c.parts : Back(actor, c, p) /\ log'[p] = log[p] BY DEF Lined
  <2> QED BY <2>1 DEF Back
<1>3. ASSUME NEW p \in Partitions
      PROVE  WrittenInLine(actor, p)' /\ (p \notin actor.inflight => actor.next[p] = Expected(log'[p]))
  <2>1. log'[p] = log[p] /\ WrittenInLine(actor, p) /\ (p \notin actor.inflight => actor.next[p] = Expected(log[p]))
    BY DEF Lined
  <2> QED BY <2>1 DEF WrittenInLine
<1>4. \A g \in ghosts' : g.batch.pid = actor.identity /\ g.batch.recs # <<>> BY DEF Lined
<1> QED BY <1>1, <1>2, <1>3, <1>4 DEF Lined

(* A task is done: what failed is given back, what was written is kept.    *)
LEMMA FinishLine ==
  ASSUME OnceInv, Reported, Lined(actor, tasks, completions), NEW t \in tasks, NEW u, u.batch = t.batch,
         tasks' = tasks \ {t}, completions' = completions \cup {Completed(u)}, UNCHANGED <<actor, log, ghosts>>,
         \A p \in DOMAIN t.batch :
           /\ ~invalidates_producer_state(u.res[p].err)
           /\ IF Failed(u, p) THEN t.batch[p].base = Expected(log[p]) ELSE LastIs(log[p], t.batch[p])
  PROVE  Lined(actor, tasks, completions)'
<1> DEFINE c == Completed(u)
           R == {q \in DOMAIN u.batch : Failed(u, q) /\ u.batch[q].pid # NoIdentity}
<1>1. /\ c.parts = DOMAIN t.batch /\ c.released = [p \in R |-> u.batch[p].base]
      /\ c.reset = (\E p \in DOMAIN u.batch : invalidates_producer_state(u.res[p].err))
  BY DEF Completed
<1>2. ~c.reset BY <1>1
<1>3. ASSUME NEW p \in DOMAIN t.batch PROVE Back(actor, c, p)'
  <2>1. p \in Partitions /\ InLine(actor, t, p) /\ Fine(t.batch[p], log[p], p, actor.identity) BY LinedTask
  <2>2. /\ t.batch[p].pid # NoIdentity /\ p \in actor.inflight
        /\ actor.next[p] = t.batch[p].base + Len(t.batch[p].recs)
    BY <2>1 DEF InLine, Fine
  <2>3. CASE Failed(u, p)
    <3>1. p \in R /\ t.batch[p].base = Expected(log[p]) BY <2>2, <2>3
    <3>2. p \in DOMAIN c.released /\ c.released[p] = t.batch[p].base BY <1>1, <3>1
    <3> HIDE DEF c, R
    <3> QED BY <2>2, <3>1, <3>2 DEF Back
  <2>4. CASE ~Failed(u, p)
    <3>1. p \notin DOMAIN c.released /\ LastIs(log[p], t.batch[p]) BY <1>1, <2>4
    <3>2. Expected(log[p]) = actor.next[p] BY <2>2, <3>1 DEF LastIs, Same, Expected
    <3> HIDE DEF c, R
    <3> QED BY <2>2, <3>1, <3>2 DEF Back
  <2> QED BY <2>3, <2>4
<1>4. ASSUME NEW p \in c.parts PROVE Back(actor, c, p)' BY <1>1, <1>3, <1>4
<1>5. \A x \in completions' : x \in completions \/ x = c OBVIOUS
<1> HIDE DEF c
<1>6. ASSUME NEW x \in completions' PROVE ~x.reset /\ \A p \in x.parts : Back(actor, x, p)'
  <2>1. CASE x \in completions BY <2>1 DEF Lined, Back
  <2>2. CASE x = c BY <1>2, <1>4, <2>2
  <2> QED BY <1>5, <2>1, <2>2
<1>7. \A v \in tasks' : \A p \in DOMAIN v.batch : InLine(actor, v, p)' BY DEF Lined, InLine
<1>8. \A p \in Partitions : WrittenInLine(actor, p)' /\ (p \notin actor.inflight => actor.next[p] = Expected(log[p]))
  BY DEF Lined, WrittenInLine
<1>9. \A g \in ghosts' : g.batch.pid = actor.identity /\ g.batch.recs # <<>> BY DEF Lined
<1> QED BY <1>6, <1>7, <1>8, <1>9 DEF Lined

(* A batch whose records were reported as failed is not in the log.        *)
LEMMA ReportedNotLast ==
  ASSUME Shapes', Settled', NEW p \in Partitions, NEW b, b.recs \in Seq(Records), b.recs # <<>>,
         \A r \in ToSet(b.recs) : outcome'[r].kind \notin {"pending", "ok"}
  PROVE  ~LastIs(log'[p], b)
<1> SUFFICES ASSUME LastIs(log'[p], b) PROVE FALSE OBVIOUS
<1>1. PICK l, n : l = log'[p] /\ n = Len(l) OBVIOUS
<1>2. l \in Seq({l[i] : i \in DOMAIN l}) /\ l # <<>> /\ l[n].recs = b.recs
  BY <1>1 DEF Shapes, LogsOK, Listing, LastIs, Same
<1>3. n \in DOMAIN l BY <1>1, <1>2
<1>4. b.recs[1] \in ToSet(b.recs) /\ b.recs[1] \in Records
  <2>1. 1 \in DOMAIN b.recs OBVIOUS
  <2> QED BY <2>1 DEF ToSet
<1>5. Written(b.recs[1])' BY <1>1, <1>2, <1>3, <1>4 DEF Written
<1> QED BY <1>4, <1>5 DEF Settled

LEMMA InvalidErrors ==
  /\ ~invalidates_producer_state(Due.err) /\ ~invalidates_producer_state("none")
  /\ \A e \in VerdictClasses \cup FailureClasses : ~invalidates_producer_state(e)
BY DEF Due, invalidates_producer_state, VerdictClasses, FailureClasses

(* What encoding does, once more with its results.                         *)
LEMMA EncodeLine ==
  ASSUME OnceInv, Reported, Lined(actor, tasks, completions), Shapes', Settled', NEW t \in tasks, Encode(t)
  PROVE  Lined(actor, tasks, completions)'
<1> DEFINE bad == {p \in t.live : ToSet(t.batch[p].recs) \cap Unencodable # {}}
           none == [kind |-> "unencodable", err |-> "none", off |-> -1]
           u   == [t EXCEPT !.live = @ \ bad, !.attempt = 1,
                            !.res = [p \in DOMAIN @ |-> IF p \in bad THEN none ELSE Due]]
<1>0. Shapes /\ TaskOK(t) /\ TaskSound(t) BY DEF OnceInv, CustodyInv, Shapes, Reported
<1>1. /\ t.attempt = 0
      /\ tasks' = (tasks \ {t}) \cup (IF u.live = {} THEN {} ELSE {u})
      /\ completions' = IF u.live = {} THEN completions \cup {Completed(u)} ELSE completions
      /\ outcome' = [r \in Records |-> IF r \in BatchRecords(t, bad) THEN Told("unsent") ELSE outcome[r]]
  BY DEF Encode, Resolve
<1>2. UNCHANGED <<actor, log, ghosts>> BY DEF Encode, actorVars, brokerVars
<1>3. /\ DOMAIN u = TaskFields /\ u.batch = t.batch /\ u.live = t.live \ bad /\ u.attempt = 1
      /\ DOMAIN u.res = DOMAIN t.batch
      /\ \A p \in DOMAIN t.batch : u.res[p] = IF p \in bad THEN none ELSE Due
  BY <1>0 DEF TaskOK, TaskFields
<1>4. t.live = DOMAIN t.batch BY <1>0, <1>1 DEF TaskOK
<1>5. bad \subseteq t.live OBVIOUS
<1>6. none.kind = "unencodable" /\ none.err = "none" /\ Due.kind = "due" BY DEF Due
<1> HIDE DEF bad, none, u
<1>7. ASSUME NEW p \in bad PROVE t.batch[p].base = Expected(log[p])
  <2>1. p \in DOMAIN t.batch /\ p \in Partitions /\ InLine(actor, t, p) /\ StampOK(t.batch[p])
    BY <1>0, <1>4, <1>5, LinedTask DEF TaskSound
  <2>2. \A r \in ToSet(t.batch[p].recs) : outcome'[r].kind \notin {"pending", "ok"}
    <3>1. \A r \in ToSet(t.batch[p].recs) : r \in BatchRecords(t, bad) /\ r \in Records
      BY <1>0, <2>1, TaskRecords DEF BatchRecords
    <3>2. Told("unsent").kind = "unsent" BY DEF Told
    <3> QED BY <1>1, <3>1, <3>2
  <2>3. t.batch[p].recs \in Seq(Records) /\ t.batch[p].recs # <<>> BY <2>1 DEF StampOK, BatchType
  <2>4. ~LastIs(log'[p], t.batch[p])
    <3>1. PICK b : b = t.batch[p] OBVIOUS
    <3>2. b.recs \in Seq(Records) /\ b.recs # <<>> /\ \A r \in ToSet(b.recs) : outcome'[r].kind \notin {"pending", "ok"}
      BY <2>2, <2>3, <3>1
    <3> QED BY <2>1, <3>1, <3>2, ReportedNotLast
  <2> QED BY <1>2, <2>1, <2>4 DEF InLine
<1>8. CASE u.live # {}
  <2>1. Succeeds(u, t)
    <3>1. /\ \A p \in DOMAIN t.batch : u.res[p].kind \in ResultKinds
          /\ \A p \in u.live : u.res[p].kind # "unencodable"
      BY <1>3, <1>4, <1>6 DEF ResultKinds
    <3>2. TaskOK(u) BY <1>0, <1>3, <1>5, <3>1 DEF TaskOK
    <3> QED BY <1>3, <3>2 DEF Succeeds
  <2>2. \A p \in DOMAIN t.batch :
          /\ ~invalidates_producer_state(u.res[p].err)
          /\ u.res[p].kind = "ack" => LastIs(log'[p], t.batch[p])
          /\ u.res[p].kind = "unencodable" => t.batch[p].base = Expected(log[p])
    BY <1>3, <1>6, <1>7, InvalidErrors
  <2>3. \A g \in ghosts' : g.batch.pid = actor.identity /\ g.batch.recs # <<>> BY <1>2 DEF Lined
  <2>4. TaskGoesOn(t, u) BY <1>1, <1>2, <1>8, <2>1, <2>2, <2>3 DEF TaskGoesOn
  <2> QED BY <2>4, TaskLine
<1>9. CASE u.live = {}
  <2>1. bad = DOMAIN t.batch BY <1>3, <1>4, <1>5, <1>9
  <2>2. \A p \in DOMAIN t.batch :
           /\ ~invalidates_producer_state(u.res[p].err)
           /\ IF Failed(u, p) THEN t.batch[p].base = Expected(log[p]) ELSE LastIs(log[p], t.batch[p])
    BY <1>3, <1>6, <1>7, <2>1, InvalidErrors DEF Failed
  <2>3. tasks' = tasks \ {t} /\ completions' = completions \cup {Completed(u)} BY <1>1, <1>9
  <2> QED BY <1>2, <1>3, <2>2, <2>3, FinishLine
<1> QED BY <1>8, <1>9

(* The end of a round.                                                     *)
LEMMA JudgeLine ==
  ASSUME OnceInv, Reported, Lined(actor, tasks, completions), Shapes', Settled', NEW t \in tasks, Judge(t)
  PROVE  Lined(actor, tasks, completions)'
<1>0. Shapes /\ TaskOK(t) /\ TaskSound(t) /\ t.attempt > 0 /\ Unanswered(t) = {}
  BY DEF OnceInv, CustodyInv, Shapes, Reported, Judge
<1> DEFINE D == {p \in DOMAIN t.batch : t.res[p].kind # "unencodable"}
<1>1. UNCHANGED <<actor, log, ghosts>> BY DEF Judge, actorVars, brokerVars
<1>3. ASSUME NEW p \in DOMAIN t.batch
      PROVE  /\ p \in Partitions /\ InLine(actor, t, p) /\ StampOK(t.batch[p])
             /\ ~invalidates_producer_state(t.res[p].err)
             /\ t.res[p].kind = "ack" => LastIs(log[p], t.batch[p])
             /\ t.res[p].kind = "unencodable" => t.batch[p].base = Expected(log[p])
  <2>1. p \in Partitions /\ InLine(actor, t, p) /\ StampOK(t.batch[p]) BY <1>0, LinedTask DEF TaskSound
  <2> QED BY <2>1 DEF InLine
<1>4. ASSUME NEW u, NEW retry, Retried(t, u, retry)
      PROVE  Lined(actor, tasks, completions)'
  <2>1. /\ Succeeds(u, t) /\ tasks' = (tasks \ {t}) \cup {u} /\ completions' = completions
        /\ \A p \in DOMAIN t.batch : u.res[p] = Due \/ u.res[p] = t.res[p]
    BY <1>4 DEF Retried
  <2>2. \A p \in DOMAIN t.batch :
          /\ ~invalidates_producer_state(u.res[p].err)
          /\ u.res[p].kind = "ack" => LastIs(log'[p], t.batch[p])
          /\ u.res[p].kind = "unencodable" => t.batch[p].base = Expected(log[p])
    <3>1. Due.kind = "due" BY DEF Due
    <3> QED BY <1>1, <1>3, <2>1, <3>1, InvalidErrors
  <2>3. \A g \in ghosts' : g.batch.pid = actor.identity /\ g.batch.recs # <<>> BY <1>1 DEF Lined
  <2>4. TaskGoesOn(t, u) BY <1>1, <1>4, <2>1, <2>2, <2>3 DEF TaskGoesOn
  <2> QED BY <2>4, TaskLine
<1>5. ASSUME tasks' = tasks \ {t}, completions' = completions \cup {Completed(t)},
             outcome' = [r \in Records |-> IF r \in BatchRecords(t, D) THEN Verdict(t, r) ELSE outcome[r]]
      PROVE  Lined(actor, tasks, completions)'
  <2>1. ASSUME NEW p \in DOMAIN t.batch
        PROVE  IF Failed(t, p) THEN t.batch[p].base = Expected(log[p]) ELSE LastIs(log[p], t.batch[p])
    <3>1. /\ t.res[p].kind \in ResultKinds /\ ResultOK(t.res[p]) /\ (t.res[p].kind = "due" => p \in t.live)
          /\ t.batch[p].recs \in Seq(Records) /\ t.batch[p].recs # <<>>
      BY <1>0 DEF TaskOK, TaskSound, StampOK, BatchType
    <3>2. t.res[p].kind # "due" BY <1>0, <3>1 DEF Unanswered, ResultOK
    <3>3. CASE t.res[p].kind \in {"ack", "unencodable"} BY <1>3, <3>3 DEF Failed
    <3>4. CASE t.res[p].kind \in {"rejected", "ambiguous"}
      <4>1. \A r \in ToSet(t.batch[p].recs) : outcome'[r].kind \notin {"pending", "ok"}
        <5>1. ASSUME NEW r \in ToSet(t.batch[p].recs) PROVE outcome'[r].kind \notin {"pending", "ok"}
          <6>1. r \in Records /\ PartitionOf[r] = p BY <1>0, TaskRecords
          <6>2. r \in BatchRecords(t, D) BY <3>4 DEF BatchRecords
          <6>3. outcome'[r] = Verdict(t, r) BY <1>5, <6>1, <6>2
          <6>4. Verdict(t, r) = Told(t.res[p].kind) BY <3>4, <6>1 DEF Verdict
          <6>5. Told(t.res[p].kind).kind = t.res[p].kind BY DEF Told
          <6> QED BY <3>4, <6>3, <6>4, <6>5
        <5> QED BY <5>1
      <4>2. ~LastIs(log'[p], t.batch[p])
        <5>1. PICK b : b = t.batch[p] OBVIOUS
        <5>2. b.recs \in Seq(Records) /\ b.recs # <<>> /\ \A r \in ToSet(b.recs) : outcome'[r].kind \notin {"pending", "ok"}
          BY <3>1, <4>1, <5>1
        <5> QED BY <1>3, <5>1, <5>2, ReportedNotLast
      <4> QED BY <1>1, <1>3, <3>4, <4>2 DEF Failed, InLine
    <3> QED BY <3>1, <3>2, <3>3, <3>4 DEF ResultKinds
  <2>2. \A p \in DOMAIN t.batch : ~invalidates_producer_state(t.res[p].err) BY <1>3
  <2> QED BY <1>1, <1>5, <2>1, <2>2, FinishLine
<1>6. CASE Returned(t) BY <1>5, <1>6 DEF Returned
<1> QED BY <1>0, <1>4, <1>6, JudgeIs

(* Results for the batches G of a task.                                    *)
LEMMA AnsweredLine ==
  ASSUME OnceInv, Reported, Lined(actor, tasks, completions), NEW t \in tasks, NEW G, G \subseteq Unanswered(t),
         NEW result, tasks' = WithResults(t, G, result), UNCHANGED <<actor, completions>>,
         \A p \in G : /\ result[p].kind \in {"rejected", "ack", "ambiguous"}
                      /\ ~invalidates_producer_state(result[p].err)
                      /\ result[p].kind = "ack" => LastIs(log'[p], t.batch[p]),
         \A p \in Partitions :
           \/ log'[p] = log[p]
           \/ /\ p \in G /\ MayAppend(log[p], 0, t.batch[p])
              /\ log'[p] = AppendBatch(log[p], t.batch[p]),
         \A g \in ghosts' : g.batch.pid = actor.identity /\ g.batch.recs # <<>>
  PROVE  Lined(actor, tasks, completions)'
<1>0. TaskOK(t) /\ G \subseteq DOMAIN t.batch /\ DOMAIN t.batch \subseteq Partitions
  BY DEF OnceInv, CustodyInv, Shapes, TaskOK, Unanswered
<1>1. PICK u : Answered(u, t, G, result) /\ tasks' = (tasks \ {t}) \cup {u}
  <2>1. \A p \in G : result[p].kind \in ResultKinds \ {"unencodable"} BY DEF ResultKinds
  <2> QED BY <1>0, <2>1, ResultsRecorded
<1>2. Succeeds(u, t) /\ \A p \in DOMAIN t.batch : u.res[p] = IF p \in G THEN result[p] ELSE t.res[p]
  BY <1>1 DEF Answered
<1>3. ASSUME NEW p \in DOMAIN t.batch
      PROVE  /\ ~invalidates_producer_state(u.res[p].err)
             /\ u.res[p].kind = "ack" => LastIs(log'[p], t.batch[p])
             /\ u.res[p].kind = "unencodable" => t.batch[p].base = Expected(log[p])
  <2>1. CASE p \in G BY <1>2, <2>1
  <2>2. CASE p \notin G
    <3>1. u.res[p] = t.res[p] /\ log'[p] = log[p] BY <1>0, <1>2, <2>2
    <3>2. InLine(actor, t, p) BY LinedTask
    <3> QED BY <3>1, <3>2 DEF InLine
  <2> QED BY <2>1, <2>2
<1>4. \A p \in Partitions :
       \/ log'[p] = log[p]
       \/ /\ p \in DOMAIN t.batch /\ MayAppend(log[p], 0, t.batch[p])
          /\ log'[p] = AppendBatch(log[p], t.batch[p])
          /\ u.res[p].kind # "unencodable"
  BY <1>0, <1>2
<1>5. TaskGoesOn(t, u) BY <1>1, <1>2, <1>3, <1>4 DEF TaskGoesOn
<1> QED BY <1>5, TaskLine

(* Nothing was sent, or nothing came back.                                 *)
LEMMA FailureLine ==
  ASSUME OnceInv, Reported, Lined(actor, tasks, completions), NEW t \in tasks, NEW G,
         RouteFails(t, G) \/ LoseRequest(t, G)
  PROVE  Lined(actor, tasks, completions)'
<1>0. G \subseteq Unanswered(t) /\ UNCHANGED <<actor, completions, log>>
  BY DEF RouteFails, LoseRequest, actorVars, brokerVars
<1>1. \E k \in {"rejected", "ambiguous"} : \E err \in VerdictClasses \cup FailureClasses :
        tasks' = WithResults(t, G, [p \in G |-> [kind |-> k, err |-> err, off |-> -1]])
  <2>1. CASE RouteFails(t, G) BY <2>1, FaultsAssumption DEF RouteFails
  <2>2. CASE LoseRequest(t, G) BY <2>2, FaultsAssumption DEF LoseRequest
  <2> QED BY <2>1, <2>2
<1>2. PICK k \in {"rejected", "ambiguous"}, err \in VerdictClasses \cup FailureClasses :
        tasks' = WithResults(t, G, [p \in G |-> [kind |-> k, err |-> err, off |-> -1]])
  BY <1>1
<1> DEFINE result == [p \in G |-> [kind |-> k, err |-> err, off |-> -1]]
<1>3. \A p \in G : result[p].kind = k /\ result[p].err = err OBVIOUS
<1>4. tasks' = WithResults(t, G, result) BY <1>2
<1> HIDE DEF result
<1>5. \A p \in G : /\ result[p].kind \in {"rejected", "ack", "ambiguous"}
                   /\ ~invalidates_producer_state(result[p].err)
                   /\ result[p].kind = "ack" => LastIs(log'[p], t.batch[p])
  BY <1>3, InvalidErrors
<1>6. \A g \in ghosts' : g.batch.pid = actor.identity /\ g.batch.recs # <<>>
  <2>1. \A g \in ghosts : g.batch.pid = actor.identity /\ g.batch.recs # <<>> BY DEF Lined
  <2>2. CASE RouteFails(t, G) BY <2>1, <2>2 DEF RouteFails, brokerVars
  <2>3. CASE LoseRequest(t, G)
    <3>1. ghosts' = ghosts \cup {[part |-> p, batch |-> t.batch[p]] : p \in G} BY <2>3 DEF LoseRequest
    <3>2. \A p \in G : t.batch[p].pid = actor.identity /\ t.batch[p].recs # <<>>
      <4>1. G \subseteq DOMAIN t.batch BY <1>0 DEF OnceInv, CustodyInv, Shapes, TaskOK, Unanswered
      <4>2. \A p \in DOMAIN t.batch : t.batch[p].recs # <<>> BY DEF Reported, TaskSound, StampOK
      <4> QED BY <4>1, <4>2, LinedTask DEF InLine
    <3> QED BY <2>1, <3>1, <3>2
  <2> QED BY <2>2, <2>3
<1> QED BY <1>0, <1>4, <1>5, <1>6, AnsweredLine

(* The broker answers: it has nothing to refuse.                           *)
LEMMA RespondLine ==
  ASSUME OneIndexEach, OnceInv, Reported, Lined(actor, tasks, completions), forgets = 0,
         NEW t \in tasks, NEW G, Respond(t, G)
  PROVE  Lined(actor, tasks, completions)'
<1>0. /\ G \subseteq Unanswered(t) /\ UNCHANGED <<actor, completions, ghosts>>
      /\ G \subseteq DOMAIN t.batch /\ G \subseteq Partitions
      /\ CustodyInv /\ \A p \in Partitions : forgotten[p] = 0
  BY DEF Respond, actorVars, OnceInv, CustodyInv, Shapes, TaskOK, Unanswered
<1>1. PICK result : Faithful(t, G, result) BY <1>0, RespondFaithful
<1>2. /\ tasks' = WithResults(t, G, result)
      /\ \A p \in G : result[p].kind \in {"rejected", "ack", "ambiguous"}
  BY <1>1 DEF Faithful
<1>3. \A p \in Partitions :
           \/ log'[p] = log[p]
           \/ /\ p \in G /\ MayAppend(log[p], 0, t.batch[p])
              /\ log'[p] = AppendBatch(log[p], t.batch[p])
  BY <1>0, <1>1 DEF Faithful
<1>4. ASSUME NEW p \in G
      PROVE  /\ ~invalidates_producer_state(result[p].err)
             /\ result[p].kind = "ack" => LastIs(log'[p], t.batch[p])
  <2>1. PICK b, l, m, id : b = t.batch[p] /\ l = log[p] /\ m = log'[p] /\ id = actor.identity OBVIOUS
  <2>2. GoodLog(l, p, id) /\ Fine(b, l, p, id) BY <1>0, <2>1, LinedLogs, LinedTask
  <2>3. ~MayRefuse(l, 0, b) BY <2>2, NoHole
  <2>4. ~invalidates_producer_state(result[p].err) BY <1>0, <1>1, <2>1, <2>3 DEF Faithful
  <2>5. ASSUME result[p].kind = "ack" PROVE LastIs(m, b)
    <3>1. m = l \/ (MayAppend(l, 0, b) /\ m = AppendBatch(l, b)) BY <1>0, <1>3, <2>1
    <3>2. m = AppendBatch(l, b) \/ IsDuplicate(l, 0, b) BY <1>0, <1>1, <2>1, <2>5 DEF Faithful
    <3>3. CASE MayAppend(l, 0, b) /\ m = AppendBatch(l, b) BY <2>2, <3>3, AppendInLine
    <3>4. CASE m = l /\ IsDuplicate(l, 0, b) BY <2>2, <3>4, DuplicateIsLast
    <3>5. CASE m = l /\ m = AppendBatch(l, b)
      <4>1. Listing(l) /\ (\A i \in DOMAIN l : EntryOK(l[i], p)) /\ BatchOK(b, p) BY <2>2 DEF GoodLog, Fine
      <4>2. Extends(l, m, b) BY <3>5, <4>1, EntryAppended
      <4> QED BY <3>5, <4>2 DEF Extends
    <3> QED BY <3>1, <3>2, <3>3, <3>4, <3>5
  <2> QED BY <2>1, <2>4, <2>5
<1>5. \A g \in ghosts' : g.batch.pid = actor.identity /\ g.batch.recs # <<>> BY <1>0 DEF Lined
<1> QED BY <1>0, <1>2, <1>3, <1>4, <1>5, AnsweredLine

(* A request nobody waits for arrives: it is a copy of what a task sends,  *)
(* or of what the log has.                                                 *)
LEMMA GhostLine ==
  ASSUME PermitInv, OnceInv, Reported, Lined(actor, tasks, completions), AcksWritten, forgets = 0, Settled',
         NEW g \in ghosts, GhostArrives(g)
  PROVE  Lined(actor, tasks, completions)'
<1>0. /\ UNCHANGED <<actor, tasks, completions, outcome>> /\ Shapes /\ Placed /\ FlushInv /\ PendingInv
      /\ forgotten[g.part] = 0 /\ g.part \in Partitions /\ BatchOK(g.batch, g.part)
  BY DEF GhostArrives, actorVars, OnceInv, CustodyInv, Shapes, GhostOK, PermitInv
<1>1. Arrives(g) BY <1>0, GhostIs
<1>2. PICK p, b : p = g.part /\ b = g.batch OBVIOUS
<1>3. /\ ghosts' = ghosts \ {g}
      /\ \A q \in Partitions : \/ log'[q] = log[q]
                               \/ q = p /\ MayAppend(log[q], 0, b) /\ log'[q] = AppendBatch(log[q], b)
  BY <1>0, <1>1, <1>2 DEF Arrives
<1>4. \A h \in ghosts' : h \in ghosts /\ h.batch.pid = actor.identity /\ h.batch.recs # <<>> BY <1>3 DEF Lined
<1>5. CASE \A q \in Partitions : log'[q] = log[q]
  <2>1. \A t \in tasks : DOMAIN t.batch \subseteq Partitions BY <1>0 DEF Shapes, TaskOK
  <2>2. \A c \in completions : c.parts \subseteq Partitions BY DEF Reported, Counts
  <2> QED BY <1>0, <1>4, <1>5, <2>1, <2>2, SameLine
<1>6. ASSUME MayAppend(log[p], 0, b), log'[p] = AppendBatch(log[p], b)
      PROVE  Lined(actor, tasks, completions)'
  <2>0. b \in OnWire(p) /\ b.pid # NoPid /\ p \in Partitions
    <3>1. b \in OnWire(p) BY <1>2, OnWireIs
    <3> QED BY <1>0, <1>2, <3>1 DEF OnceInv
  <2>1. PICK r \in ToSet(b.recs) : r \in Records
    <3>1. b.recs # <<>> BY <1>2 DEF Lined
    <3>2. b.recs \in Seq(Records) BY <1>0, <1>2 DEF BatchOK
    <3>3. 1 \in DOMAIN b.recs /\ b.recs[1] \in Records BY <3>1, <3>2
    <3> QED BY <3>3 DEF ToSet
  <2>2. Written(r)' /\ Ghostly(r) /\ PartitionOf[r] = p
    <3>1. Extends(log[p], log'[p], b)
      <4>1. Listing(log[p]) /\ (\A i \in DOMAIN log[p] : EntryOK(log[p][i], p)) /\ BatchOK(b, p)
        BY <1>0, <1>2, <2>0 DEF Shapes, LogsOK
      <4> QED BY <1>6, <4>1, EntryAppended
    <3>2. \E i \in DOMAIN log'[p] : r \in ToSet(log'[p][i].recs) BY <2>1, <3>1, ExtendedHolds
    <3>3. Written(r)' BY <2>0, <3>2 DEF Written
    <3>4. Ghostly(r) BY <1>2, <2>1 DEF Ghostly
    <3>5. PartitionOf[r] = p BY <1>0, <1>2, <2>1 DEF BatchOK
    <3> QED BY <3>3, <3>4, <3>5
  <2>3. outcome[r].kind \in {"pending", "ok"} BY <1>0, <2>1, <2>2 DEF Settled
  <2>4. CASE outcome[r].kind = "ok"
    <3>1. Written(r) BY <2>1, <2>4 DEF AcksWritten
    <3>0. PICK q \in Partitions : \E i \in DOMAIN log[q] : r \in ToSet(log[q][i].recs) BY <3>1 DEF Written
    <3>2. PICK i \in DOMAIN log[q] : r \in ToSet(log[q][i].recs) BY <3>0
    <3>3. q = p BY <1>0, <2>2, <3>2 DEF Shapes, LogsOK, EntryOK
    <3>4. Share(b, log[p][i]) BY <2>1, <3>2, <3>3 DEF Share
    <3>5. Same(b, log[p][i]) BY <2>0, <3>2, <3>3, <3>4 DEF OnceInv
    <3>6. PICK l : l = log[p] OBVIOUS
    <3>7. i \in (0 + 1)..Len(l)
      <4>1. l \in Seq({l[j] : j \in DOMAIN l}) BY <1>0, <2>0, <3>6 DEF Shapes, LogsOK, Listing
      <4> QED BY <3>2, <3>3, <3>6, <4>1
    <3>8. l[i] \in Duplicates(l, 0, b) BY <3>5, <3>6, <3>7 DEF Duplicates, Same
    <3>9. IsDuplicate(l, 0, b) BY <2>0, <3>8 DEF IsDuplicate
    <3> QED BY <1>6, <2>0, <3>6, <3>9 DEF MayAppend
  <2>5. CASE outcome[r].kind = "pending"
    <3>1. outcome[r] = Pending
      <4>1. OutcomeOK(outcome[r]) BY <2>1 DEF Reported
      <4> QED BY <2>5, <4>1 DEF OutcomeOK, Told, Pending
    <3>2. r \in OnTask
      <4>1. r \in ToSet(accepted) /\ ~InChannel(r) /\ r \notin Buffered(actor)
        BY <1>0, <2>1, <2>2 DEF Placed, Away
      <4>2. InChannel(r) \/ InHand(r) BY <1>0, <3>1, <4>1 DEF FlushInv
      <4> QED BY <4>1, <4>2 DEF InHand
    <3>3. PICK t \in tasks : \E q \in DOMAIN t.batch : t.res[q].kind # "unencodable" /\ r \in ToSet(t.batch[q].recs)
      BY <3>2, OnTaskIs
    <3>4. p \in DOMAIN t.batch /\ t.res[p].kind # "unencodable" /\ r \in ToSet(t.batch[p].recs) /\ TaskOK(t)
      BY <1>0, <2>2, <3>3, TaskRecords DEF Shapes
    <3>5. Same(b, t.batch[p])
      <4>1. t.batch[p] \in OnWire(p) /\ Share(b, t.batch[p]) BY <2>1, <3>4, OnWireIs DEF Share
      <4> QED BY <2>0, <4>1 DEF OnceInv
    <3>6. PICK c : c = t.batch[p] OBVIOUS
    <3>7. MayAppend(log[p], 0, c) /\ log'[p] = AppendBatch(log[p], c)
      <4>1. AppendBatch(log[p], c) = AppendBatch(log[p], b) BY <3>5, <3>6 DEF AppendBatch, Same
      <4>2. MayAppend(log[p], 0, c)
        BY <1>6, <3>5, <3>6 DEF MayAppend, IsDuplicate, Duplicates, Known, Remembered, InSequence, Same
      <4> QED BY <1>6, <4>1, <4>2
    <3>8. Fine(c, log[p], p, actor.identity) /\ GoodLog(log[p], p, actor.identity)
      BY <3>4, <3>6, LinedTask, LinedLogs DEF OnceInv
    <3>9. ~LastIs(log[p], c) /\ LastIs(log'[p], c)
      <4>1. PICK l, id : l = log[p] /\ id = actor.identity OBVIOUS
      <4> QED BY <3>7, <3>8, <4>1, AppendInLine
    <3>10. ASSUME NEW q \in DOMAIN t.batch
           PROVE  /\ ~invalidates_producer_state(t.res[q].err)
                  /\ t.res[q].kind = "ack" => LastIs(log'[q], t.batch[q])
                  /\ t.res[q].kind = "unencodable" => t.batch[q].base = Expected(log[q])
      <4>1. InLine(actor, t, q) /\ q \in Partitions BY LinedTask
      <4>2. q # p => log'[q] = log[q] BY <1>3, <4>1
      <4> QED BY <3>6, <3>9, <4>1, <4>2 DEF InLine
    <3>11. TaskGoesOn(t, t)
      <4>1. tasks' = (tasks \ {t}) \cup {t} /\ Succeeds(t, t) BY <1>0, <3>4 DEF Succeeds
      <4>2. \A q \in Partitions :
               \/ log'[q] = log[q]
               \/ /\ q \in DOMAIN t.batch /\ MayAppend(log[q], 0, t.batch[q])
                  /\ log'[q] = AppendBatch(log[q], t.batch[q])
                  /\ t.res[q].kind # "unencodable"
        BY <1>3, <3>4, <3>6, <3>7
      <4> QED BY <1>0, <1>4, <3>10, <4>1, <4>2 DEF TaskGoesOn
    <3> QED BY <3>11, TaskLine
  <2> QED BY <2>3, <2>4, <2>5
<1> QED BY <1>0, <1>2, <1>3, <1>5, <1>6

-----------------------------------------------------------------------------
(* The actor.                                                              *)

(* What the line is about in an actor state.                               *)
LEMMA LinedSame ==
  ASSUME NEW A, NEW B, NEW T, NEW C, Lined(A, T, C),
         B.inflight = A.inflight, B.next = A.next, B.identity = A.identity
  PROVE  Lined(B, T, C)
<1>1. \A t \in T : \A p \in DOMAIN t.batch : InLine(B, t, p) BY DEF Lined, InLine
<1>2. \A c \in C : ~c.reset /\ \A p \in c.parts : Back(B, c, p) BY DEF Lined, Back
<1>3. \A p \in Partitions : WrittenInLine(B, p) /\ (p \notin B.inflight => B.next[p] = Expected(log[p]))
  BY DEF Lined, WrittenInLine
<1>4. \A g \in ghosts : g.batch.pid = B.identity /\ g.batch.recs # <<>> BY DEF Lined
<1> QED BY <1>1, <1>2, <1>3, <1>4 DEF Lined

Keeps(A, B) == B.inflight = A.inflight /\ B.next = A.next /\ B.identity = A.identity

LEMMA CloseKeeps ==
  ASSUME NEW A, DOMAIN A = Fields, NEW S
  PROVE  DOMAIN Close(A, S) = Fields /\ Keeps(A, Close(A, S))
BY DEF Close, Fields, Keeps

LEMMA AppendKeeps ==
  ASSUME NEW A, DOMAIN A = Fields, NEW r
  PROVE  Keeps(A, append(A, r))
<1> DEFINE p == PartitionOf[r]
           wouldBe == Bytes(A.open[p]) + Size[r]
           overflow == A.open[p] # <<>> /\ (wouldBe > BatchSize \/ wouldBe > MaxRequest)
           B == IF overflow THEN Close(A, {p}) ELSE A
           C == [B EXCEPT !.open[p] = Append(@, r)]
<1>1. append(A, r) = IF Bytes(C.open[p]) >= BatchSize THEN Close(C, {p}) ELSE C BY DEF append
<1>2. DOMAIN B = Fields /\ Keeps(A, B) BY CloseKeeps DEF Keeps
<1> HIDE DEF B
<1>3. DOMAIN C = Fields /\ Keeps(A, C) BY <1>2 DEF Fields, Keeps
<1> HIDE DEF C
<1>4. Keeps(C, Close(C, {p})) BY <1>3, CloseKeeps
<1> QED BY <1>1, <1>3, <1>4 DEF Keeps

LEMMA ExpireKeeps ==
  ASSUME NEW A, DOMAIN A = Fields, NEW k
  PROVE  Keeps(A, expire_overdue(A, k))
<1> DEFINE B == ExpireKeepingEmpty(A, k)
           left(p) == {i \in DOMAIN B.pending[p] : B.pending[p][i] # <<>>}
           C == [B EXCEPT !.pending = [p \in Partitions |-> Retain(B.pending[p], left(p))]]
<1>1. expire_overdue(A, k) = IF Overdue(A, k) = {} THEN A ELSE C BY DEF expire_overdue
<1>2. DOMAIN B = Fields /\ Keeps(A, B) BY DEF ExpireKeepingEmpty, Fields, Keeps
<1> HIDE DEF B
<1>3. Keeps(A, C) BY <1>2 DEF Fields, Keeps
<1> HIDE DEF C
<1> QED BY <1>1, <1>3 DEF Keeps

(* Dispatch: what it takes is next in line.                                *)
LEMMA DispatchLine ==
  ASSUME Idempotent, NEW A, Sound(A), A.inflight \subseteq Partitions, NEW T, NEW C, Lined(A, T, C), NEW leader
  PROVE  Lined(dispatch_ready(A), T \cup Spawned(A, leader), C)
<1>0. ActorOK(A) /\ Numbers(A) /\ DOMAIN A = Fields BY DEF Sound, ActorOK
<1> DEFINE B == dispatch_ready(A)
           next == [p \in Partitions |-> IF p \in Ready(A) THEN Reserve(A, p) ELSE A.next[p]]
<1>1. B.inflight = A.inflight \cup Ready(A) /\ B.identity = A.identity /\ B.next = next
  BY <1>0 DEF dispatch_ready, Fields
<1>2. Ready(A) \subseteq Partitions /\ Ready(A) \cap A.inflight = {} /\ (Ready(A) # {} => A.identity # NoIdentity)
  BY DEF Ready
<1>3. \A p \in Partitions : B.next[p] = IF p \in Ready(A) THEN Reserve(A, p) ELSE A.next[p] BY <1>1
<1>4. \A t \in Spawned(A, leader) : Fresh(t, A) BY <1>0, SpawnedFresh
<1> HIDE DEF B, next
<1>6. ASSUME NEW p, p \in A.inflight PROVE B.next[p] = A.next[p] /\ p \in B.inflight BY <1>1, <1>2, <1>3, <1>6
<1>7. ASSUME NEW t \in T, NEW p \in DOMAIN t.batch PROVE InLine(B, t, p)
  <2>1. InLine(A, t, p) BY DEF Lined
  <2> QED BY <1>1, <1>6, <2>1 DEF InLine
<1>8. ASSUME NEW t \in Spawned(A, leader), NEW p \in DOMAIN t.batch PROVE InLine(B, t, p)
  <2>1. p \in Ready(A) /\ p \in Partitions /\ t.batch[p] = Stamped(A, p) /\ t.res[p] = Due
    BY <1>2, <1>4 DEF Fresh
  <2>2. PICK b : b = t.batch[p] /\ b.recs = Head(A.pending[p]) /\ b.pid = A.identity /\ b.base = A.next[p]
    BY <2>1 DEF Stamped
  <2>3. A.identity # NoIdentity /\ p \notin A.inflight BY <1>2, <2>1
  <2>4. B.next[p] = b.base + Len(b.recs) BY <1>3, <2>1, <2>2, <2>3 DEF Reserve
  <2>5. b.base = Expected(log[p]) BY <2>1, <2>2, <2>3 DEF Lined
  <2>6. Due.kind = "due" BY DEF Due
  <2> QED BY <1>1, <2>1, <2>2, <2>4, <2>5, <2>6, InvalidErrors DEF InLine
<1>9. ASSUME NEW c \in C PROVE ~c.reset /\ \A p \in c.parts : Back(B, c, p)
  <2>1. ~c.reset /\ \A p \in c.parts : Back(A, c, p) BY DEF Lined
  <2> QED BY <1>6, <2>1 DEF Back
<1>10. ASSUME NEW p \in Partitions
       PROVE  WrittenInLine(B, p) /\ (p \notin B.inflight => B.next[p] = Expected(log[p]))
  <2>1. WrittenInLine(A, p) /\ (p \notin A.inflight => A.next[p] = Expected(log[p])) BY DEF Lined
  <2> QED BY <1>1, <1>3, <2>1 DEF WrittenInLine
<1>11. \A g \in ghosts : g.batch.pid = B.identity /\ g.batch.recs # <<>> BY <1>1 DEF Lined
<1>12. Lined(B, T \cup Spawned(A, leader), C) BY <1>7, <1>8, <1>9, <1>10, <1>11 DEF Lined
<1> QED BY <1>12 DEF B

(* The rest of a turn.                                                     *)
LEMMA ProceedLine ==
  ASSUME Idempotent, NEW A, Sound(A), A.inflight \subseteq Partitions, NEW C, Lined(A, tasks, C),
         NEW F, NEW K, Proceed(A, F, K)
  PROVE  Lined(actor', tasks', C) /\ pc' # "claim"
<1>1. PICK leader \in [Ready(A) -> Leaders] :
        actor' = dispatch_ready(A) /\ tasks' = tasks \cup Spawned(A, leader)
  BY DEF Proceed
<1>2. pc' # "claim" BY DEF Proceed
<1>3. Lined(dispatch_ready(A), tasks \cup Spawned(A, leader), C) BY DispatchLine
<1> QED BY <1>1, <1>2, <1>3

LEMMA TurnLine ==
  ASSUME Idempotent, NEW A, Sound(A), A.inflight \subseteq Partitions, NEW C, Lined(A, tasks, C),
         overdue \in Nat, NEW F, NEW K, Turn(A, F, K)
  PROVE  Lined(actor', tasks', C)
<1> DEFINE B == expire_overdue(A, overdue)
<1>1. Sound(B) BY ExpireActor, ExpireFits, ExpireNumbers DEF Sound
<1>2. Keeps(A, B) BY ExpireKeeps DEF Sound, ActorOK
<1>3. \/ actor' = B /\ tasks' = tasks
      \/ Proceed(B, F, K)
  BY DEF Turn
<1> HIDE DEF B
<1>4. Lined(B, tasks, C) /\ B.inflight \subseteq Partitions BY <1>2, LinedSame DEF Keeps
<1> QED BY <1>1, <1>3, <1>4, ProceedLine

LEMMA TurnWaits ==
  ASSUME NEW A, NEW F, NEW K, Turn(A, F, K), pc' = "claim"
  PROVE  actor'.identity = NoIdentity
BY DEF Turn, Proceed, blocked_on_identity

(* A completion gives the numbers back that the log expects.               *)
LEMMA SettleLine ==
  ASSUME NEW A, DOMAIN A = Fields, NEW T, NEW C, Lined(A, T, C), NEW c \in C, Counts(c),
         \A t \in T : DOMAIN t.batch \cap c.parts = {} /\ DOMAIN t.batch \subseteq Partitions,
         \A d \in C : d.parts \subseteq Partitions /\ (d # c => d.parts \cap c.parts = {})
  PROVE  Lined(settle(A, c), T, C \ {c})
<1> DEFINE B == settle(A, c)
           next == [p \in Partitions |->
                      IF c.reset THEN 0
                      ELSE IF p \in DOMAIN c.released THEN c.released[p] ELSE A.next[p]]
<1>1. /\ B.inflight = A.inflight \ c.parts /\ B.next = next
      /\ B.identity = IF c.reset THEN NoIdentity ELSE A.identity
  BY DEF settle, Fields
<1>2. ~c.reset /\ \A p \in c.parts : Back(A, c, p) BY DEF Lined
<1>3. \A p \in Partitions : B.next[p] = IF p \in DOMAIN c.released THEN c.released[p] ELSE A.next[p]
  BY <1>1, <1>2
<1>4. B.identity = A.identity /\ DOMAIN c.released \subseteq c.parts /\ c.parts \subseteq Partitions
  BY <1>1, <1>2 DEF Counts
<1> HIDE DEF B, next
<1>5. \A p \in Partitions : p \notin c.parts => B.next[p] = A.next[p] /\ (p \in B.inflight <=> p \in A.inflight)
  BY <1>1, <1>3, <1>4
<1>6. ASSUME NEW t \in T, NEW p \in DOMAIN t.batch PROVE InLine(B, t, p)
  <2>1. InLine(A, t, p) /\ p \in Partitions /\ p \notin c.parts BY DEF Lined
  <2> QED BY <1>4, <1>5, <2>1 DEF InLine
<1>7. ASSUME NEW d \in C, d # c PROVE ~d.reset /\ \A p \in d.parts : Back(B, d, p)
  <2>1. ~d.reset /\ \A p \in d.parts : Back(A, d, p) /\ p \in Partitions /\ p \notin c.parts BY <1>7 DEF Lined
  <2> QED BY <1>5, <2>1 DEF Back
<1>8. ASSUME NEW p \in Partitions
      PROVE  WrittenInLine(B, p) /\ (p \notin B.inflight => B.next[p] = Expected(log[p]))
  <2>1. WrittenInLine(A, p) /\ (p \notin A.inflight => A.next[p] = Expected(log[p])) BY DEF Lined
  <2>2. CASE p \in c.parts
    <3>1. B.next[p] = Expected(log[p]) BY <1>2, <1>3, <2>2 DEF Back
    <3> QED BY <1>4, <2>1, <3>1 DEF WrittenInLine
  <2>3. CASE p \notin c.parts BY <1>4, <1>5, <2>1, <2>3 DEF WrittenInLine
  <2> QED BY <2>2, <2>3
<1>9. \A g \in ghosts : g.batch.pid = B.identity /\ g.batch.recs # <<>> BY <1>4 DEF Lined
<1>10. Lined(B, T, C \ {c}) BY <1>6, <1>7, <1>8, <1>9 DEF Lined
<1> QED BY <1>10 DEF B

(* A new identity: nothing was written or sent without one.                *)
LEMMA ClaimLine ==
  ASSUME OnceInv, Lined(actor, tasks, completions), actor.identity = NoIdentity, NEW B,
         B.inflight = actor.inflight, B.next = actor.next
  PROVE  Lined(B, tasks, completions)
<1>1. ASSUME NEW t \in tasks PROVE DOMAIN t.batch = {}
  <2>1. ASSUME NEW p \in DOMAIN t.batch PROVE FALSE
    <3>1. InLine(actor, t, p) /\ p \in Partitions BY DEF Lined, OnceInv, CustodyInv, Shapes, TaskOK
    <3>2. t.batch[p] \in OnWire(p) BY OnWireIs
    <3>3. t.batch[p].pid # NoPid BY <3>1, <3>2 DEF OnceInv
    <3> QED BY <3>1, <3>3 DEF InLine, NoPid, NoIdentity
  <2> QED BY <2>1
<1>2. ASSUME NEW g \in ghosts PROVE FALSE
  <2>1. g.part \in Partitions BY DEF OnceInv, CustodyInv, Shapes, GhostOK
  <2>2. g.batch \in OnWire(g.part) BY OnWireIs
  <2>3. g.batch.pid # NoPid BY <2>1, <2>2 DEF OnceInv
  <2> QED BY <2>3 DEF Lined, NoPid, NoIdentity
<1>3. ASSUME NEW p \in Partitions PROVE DOMAIN log[p] = {}
  <2>1. WrittenInLine(actor, p) BY DEF Lined
  <2> QED BY <2>1 DEF WrittenInLine
<1>4. \A c \in completions : ~c.reset /\ \A p \in c.parts : Back(B, c, p) BY DEF Lined, Back
<1>5. \A p \in Partitions : p \notin B.inflight => B.next[p] = Expected(log[p]) BY DEF Lined
<1> QED BY <1>1, <1>2, <1>3, <1>4, <1>5 DEF Lined, WrittenInLine

(* Every step of the actor.                                                *)
LEMMA ActorLine ==
  ASSUME Idempotent, AccountInv, OnceInv, Waits, Lined(actor, tasks, completions), ActorNext
  PROVE  Lined(actor, tasks, completions)'
<1>0. /\ Sound(actor) /\ ActorOK(actor) /\ DOMAIN actor = Fields /\ BuffersFit(actor) /\ Numbers(actor)
      /\ Shapes /\ Placed /\ overdue \in Nat /\ issued \in Nat /\ Reported /\ OneBatchPerPartition
  BY DEF AccountInv, Sound, ActorOK, OnceInv, CustodyInv, HandedOver, Controls, InFlightInv
<1>1. actor.inflight \subseteq Partitions
  <2>1. \A t \in tasks : DOMAIN t.batch \subseteq Partitions BY <1>0 DEF Shapes, TaskOK
  <2>2. \A c \in completions : c.parts \subseteq Partitions BY <1>0 DEF Reported, Counts
  <2> QED BY <1>0, <2>1, <2>2 DEF OneBatchPerPartition
<1>2. log' = log /\ ghosts' = ghosts
  BY DEF ActorNext, HandleAppend, HandleFlush, HandleClosed, HandleCompleted, Wake, ClaimOk,
         ClaimRetriable, ClaimTerminal, brokerVars
<1>3. ASSUME Lined(actor', tasks', completions') PROVE Lined(actor, tasks, completions)'
  BY <1>2, <1>3 DEF Lined, InLine, Back, WrittenInLine
<1>4. ASSUME NEW A, Sound(A), Keeps(actor, A), NEW F, NEW K,
             Turn(A, F, K) \/ Proceed(A, F, K), completions' = completions
      PROVE  Lined(actor, tasks, completions)'
  <2>1. Lined(A, tasks, completions) /\ A.inflight \subseteq Partitions BY <1>1, <1>4, LinedSame DEF Keeps
  <2>2. Lined(actor', tasks', completions) BY <1>0, <1>4, <2>1, TurnLine, ProceedLine
  <2> QED BY <1>3, <1>4, <2>2
<1>5. CASE HandleAppend
  <2>1. /\ commands # <<>> /\ Head(commands).type = "append" /\ completions' = completions
        /\ Turn(append(actor, Head(commands).id), flush, closing)
    BY <1>5 DEF HandleAppend
  <2>2. PICK h \in Records : Head(commands) = AppendCommand(h) /\ Head(commands).id = h
    BY <1>0, <2>1, HeadCommand
  <2>3. h \notin Buffered(actor)
    <3>1. InChannel(h) BY <1>0, <2>1, <2>2, HeadCommand DEF InChannel
    <3> QED BY <1>0, <3>1 DEF Placed
  <2> DEFINE A == append(actor, h)
  <2>5. Sound(A) BY <1>0, <2>3, AppendActor, AppendBuffersFit, AppendNumbers DEF Sound
  <2>6. Turn(A, flush, closing) /\ Keeps(actor, A) BY <1>0, <2>1, <2>2, AppendKeeps
  <2> HIDE DEF A
  <2> QED BY <1>4, <2>1, <2>5, <2>6
<1>6. ASSUME NEW S, NEW F, NEW K, Turn(Close(actor, S), F, K), completions' = completions
      PROVE  Lined(actor, tasks, completions)'
  <2> DEFINE A == Close(actor, S)
  <2>1. Sound(A) /\ Turn(A, F, K) /\ Keeps(actor, A)
    BY <1>0, <1>6, CloseActor, CloseFits, CloseNumbers, CloseKeeps DEF Sound
  <2> HIDE DEF A
  <2> QED BY <1>4, <1>6, <2>1
<1>7. HandleFlush => Lined(actor, tasks, completions)' BY <1>6 DEF HandleFlush, close_all
<1>8. HandleClosed => Lined(actor, tasks, completions)' BY <1>6 DEF HandleClosed, close_all
<1>9. \A lingered \in SUBSET Partitions : Wake(lingered) => Lined(actor, tasks, completions)'
  BY <1>6 DEF Wake, close_expired
<1>10. ASSUME NEW c \in completions, HandleCompleted(c) PROVE Lined(actor, tasks, completions)'
  <2> DEFINE A == settle(actor, c)
  <2>1. A.open = actor.open /\ A.pending = actor.pending /\ A.inflight = actor.inflight \ c.parts
    BY <1>0 DEF settle, Fields
  <2>2. Counts(c) /\ \A d \in completions : d.parts \subseteq Partitions BY <1>0 DEF Reported, Counts
  <2>3. ActorOK(A) /\ Turn(A, flush, closing) /\ Numbers(A) /\ completions' = completions \ {c}
    BY <1>0, <1>10, <2>2, SettleActor, SettleNumbers DEF HandleCompleted
  <2>4. Lined(A, tasks, completions \ {c})
    <3>1. \A t \in tasks : DOMAIN t.batch \cap c.parts = {} /\ DOMAIN t.batch \subseteq Partitions
      BY <1>0 DEF OneBatchPerPartition, Shapes, TaskOK
    <3>2. \A d \in completions : d.parts \subseteq Partitions /\ (d # c => d.parts \cap c.parts = {})
      BY <1>0, <2>2 DEF OneBatchPerPartition
    <3> QED BY <1>0, <2>2, <3>1, <3>2, SettleLine
  <2> HIDE DEF A
  <2>5. Sound(A) /\ A.inflight \subseteq Partitions BY <1>0, <1>1, <2>1, <2>3 DEF BuffersFit, Sound
  <2>6. Lined(actor', tasks', completions \ {c}) BY <1>0, <2>3, <2>4, <2>5, TurnLine
  <2> QED BY <1>3, <2>3, <2>6
<1>11. CASE ClaimOk
  <2> DEFINE A == [actor EXCEPT !.identity = issued + 1]
  <2>1. /\ DOMAIN A = Fields /\ A.open = actor.open /\ A.pending = actor.pending /\ A.next = actor.next
        /\ A.identity = issued + 1 /\ A.inflight = actor.inflight
    BY <1>0 DEF Fields
  <2>2. Proceed(A, flush, closing) /\ pc = "claim" /\ completions' = completions BY <1>11 DEF ClaimOk
  <2> HIDE DEF A
  <2>3. ActorOK(A) BY <1>0, <2>1, SameBuffers
  <2>4. BuffersFit(A) BY <1>0, <2>1 DEF BuffersFit
  <2>5. Numbers(A) BY <1>0, <2>1 DEF Numbers
  <2>6. Lined(A, tasks, completions) BY <2>1, <2>2, ClaimLine DEF Waits
  <2>7. Lined(actor', tasks', completions) BY <1>1, <2>1, <2>2, <2>3, <2>4, <2>5, <2>6, ProceedLine DEF Sound
  <2> QED BY <1>3, <2>2, <2>7
<1>12. CASE ClaimRetriable
  <2>1. Proceed(actor, flush, closing) /\ completions' = completions /\ Keeps(actor, actor)
    BY <1>12 DEF ClaimRetriable, Keeps
  <2> QED BY <1>0, <1>4, <2>1
<1>13. CASE ClaimTerminal
  <2> DEFINE A == fail_buffered(actor)
  <2>1. Proceed(A, flush, closing) /\ Sound(A) /\ completions' = completions
    BY <1>0, <1>13, FailActor, FailNumbers DEF ClaimTerminal, Sound
  <2>2. Keeps(actor, A) BY <1>0 DEF fail_buffered, Fields, Keeps
  <2> HIDE DEF A
  <2> QED BY <1>4, <2>1, <2>2
<1> QED BY <1>5, <1>7, <1>8, <1>9, <1>10, <1>11, <1>12, <1>13 DEF ActorNext

(* A turn that has to wait for a producer id has none.                     *)
LEMMA WaitsStep ==
  ASSUME Waits, [Next]_vars
  PROVE  Waits'
<1>1. ASSUME NEW A, NEW F, NEW K, Turn(A, F, K) PROVE Waits' BY <1>1, TurnWaits DEF Waits
<1>2. ASSUME NEW A, NEW F, NEW K, Proceed(A, F, K) PROVE Waits'
  <2>1. pc' # "claim" BY <1>2 DEF Proceed
  <2> QED BY <2>1 DEF Waits
<1>3. CASE ActorNext
  BY <1>1, <1>2, <1>3 DEF ActorNext, HandleAppend, HandleFlush, HandleClosed, HandleCompleted, Wake, ClaimOk,
                          ClaimRetriable, ClaimTerminal
<1>4. CASE CallerNext
  BY <1>4 DEF CallerNext, Submit, AcquirePermit, DropHandles, PermitTimeout, Enqueue, CancelAppend,
              CallFlush, actorVars, Waits
<1>5. CASE TaskNext
  BY <1>5 DEF TaskNext, TaskStep, Encode, Judge, RouteFails, Respond, LoseRequest, actorVars, Waits
<1>6. CASE ClusterNext \/ DeadlinePasses \/ Stopped \/ UNCHANGED vars
  BY <1>6 DEF ClusterNext, GhostArrives, Forget, DeadlinePasses, Stopped, vars, actorVars, Waits
<1> QED BY <1>3, <1>4, <1>5, <1>6 DEF Next

(* The last batch of a log, and its records.                               *)
LEMMA LastWritten ==
  ASSUME Shapes, NEW p \in Partitions, NEW b, LastIs(log[p], b), NEW r \in ToSet(b.recs)
  PROVE  Written(r)
<1>1. Listing(log[p]) BY DEF Shapes, LogsOK
<1>2. Len(log[p]) \in DOMAIN log[p]
  <2>1. log[p] \in Seq({log[p][i] : i \in DOMAIN log[p]}) /\ log[p] # <<>> BY <1>1 DEF Listing, LastIs
  <2> QED BY <2>1
<1>3. log[p][Len(log[p])].recs = b.recs BY DEF LastIs, Same
<1> QED BY <1>2, <1>3 DEF Written

(* A record is acknowledged when it is in the log.                         *)
LEMMA AcksStep ==
  ASSUME OnceInv, Reported, Lined(actor, tasks, completions), AcksWritten, [Next]_vars
  PROVE  AcksWritten'
<1>0. CustodyInv /\ Shapes /\ HandedOver BY DEF OnceInv, CustodyInv
<1>1. \A k : Told(k).kind = k BY DEF Told
<1>2. \A r : Written(r) => Written(r)' BY <1>0, StaysWritten
<1>3. ASSUME \A r \in Records : outcome'[r] = outcome[r] \/ outcome'[r].kind # "ok" \/ Written(r) PROVE AcksWritten'
  <2> SUFFICES ASSUME NEW r \in Records, outcome'[r].kind = "ok" PROVE Written(r)' BY DEF AcksWritten
  <2>1. Written(r) BY <1>3 DEF AcksWritten
  <2> QED BY <1>2, <2>1
<1>4. CASE outcome' = outcome BY <1>3, <1>4
<1>5. CASE CallerNext
  <2>1. outcome' = outcome \/ \E x, k : Tells(x, k) BY <1>0, <1>5, CallerIs DEF Quiet, Accepts, Flushing
  <2>2. ASSUME NEW x, NEW k, Tells(x, k) PROVE AcksWritten'
    <3>1. x \in Records /\ k # "ok" /\ outcome' = [outcome EXCEPT ![x] = Told(k)] BY <2>2 DEF Tells
    <3>2. \A r \in Records : outcome'[r] = outcome[r] \/ outcome'[r] = Told(k) BY <1>0, <3>1 DEF Shapes
    <3>3. Told(k).kind # "ok" BY <1>1, <3>1
    <3> QED BY <1>3, <3>2, <3>3
  <2> QED BY <1>4, <2>1, <2>2
<1>6. CASE ActorNext
  <2>1. PICK N, X, T, F : Steps(N, X, T, F) BY <1>0, <1>6, ActorSteps
  <2>2. PICK k \in {"expired", "unsent"} :
          outcome' = [r \in Records |-> IF r \in X THEN Told(k) ELSE outcome[r]]
    BY <2>1 DEF Steps, Moves
  <2> QED BY <1>1, <1>3, <2>2
<1>7. ASSUME NEW t \in tasks, Encode(t) PROVE AcksWritten'
  <2>1. PICK u, bad : Encoded(t, u, bad) BY <1>0, <1>7, EncodeIs
  <2>2. outcome' = [r \in Records |-> IF r \in BatchRecords(t, bad) THEN Told("unsent") ELSE outcome[r]]
    BY <2>1 DEF Encoded
  <2> QED BY <1>1, <1>3, <2>2
<1>8. ASSUME NEW t \in tasks, Judge(t) PROVE AcksWritten'
  <2>0. TaskOK(t) BY <1>0 DEF Shapes
  <2>1. CASE Returned(t)
    <3> DEFINE D == {p \in DOMAIN t.batch : t.res[p].kind # "unencodable"}
    <3>1. outcome' = [r \in Records |-> IF r \in BatchRecords(t, D) THEN Verdict(t, r) ELSE outcome[r]]
      BY <2>1 DEF Returned
    <3>2. ASSUME NEW r \in BatchRecords(t, D), Verdict(t, r).kind = "ok" PROVE Written(r)
      <4>1. PICK p \in D : r \in ToSet(t.batch[p].recs) BY DEF BatchRecords
      <4>2. t.res[p].kind = "ack"
        <5>1. t.res[p].kind \in ResultKinds /\ "ok" \notin ResultKinds BY <2>0 DEF TaskOK, ResultKinds
        <5> QED BY <2>0, <3>2, <4>1, <5>1, VerdictKind
      <4>3. p \in Partitions /\ InLine(actor, t, p) BY LinedTask
      <4>4. LastIs(log[p], t.batch[p]) BY <4>2, <4>3 DEF InLine
      <4> QED BY <1>0, <4>1, <4>3, <4>4, LastWritten
    <3> HIDE DEF D
    <3>3. \A r \in Records : outcome'[r] = outcome[r] \/ outcome'[r].kind # "ok" \/ Written(r) BY <3>1, <3>2
    <3> QED BY <1>3, <3>3
  <2>2. CASE \E u, retry : Retried(t, u, retry) BY <1>4, <2>2 DEF Retried
  <2> QED BY <1>0, <1>8, <2>1, <2>2, JudgeIs
<1>9. CASE TaskNext
  <2>1. PICK t \in tasks : TaskStep(t) BY <1>9 DEF TaskNext
  <2>2. Encode(t) \/ Judge(t) \/ outcome' = outcome BY <2>1 DEF TaskStep, RouteFails, Respond, LoseRequest
  <2> QED BY <1>4, <1>7, <1>8, <2>2
<1>10. CASE ClusterNext \/ DeadlinePasses \/ Stopped \/ UNCHANGED vars
  BY <1>4, <1>10 DEF ClusterNext, GhostArrives, Forget, DeadlinePasses, Stopped, vars
<1> QED BY <1>5, <1>6, <1>9, <1>10 DEF Next

(* Steps that leave the numbers alone.                                     *)
LEMMA OthersLine ==
  ASSUME CustodyInv, Reported, Lined(actor, tasks, completions), UNCHANGED <<actor, tasks, completions, log, ghosts>>
  PROVE  Lined(actor, tasks, completions)'
<1>1. \A t \in tasks : DOMAIN t.batch \subseteq Partitions BY DEF CustodyInv, Shapes, TaskOK
<1>2. \A c \in completions : c.parts \subseteq Partitions BY DEF Reported, Counts
<1>3. (\A p \in Partitions : log'[p] = log[p]) /\ \A g \in ghosts' : g \in ghosts OBVIOUS
<1> QED BY <1>1, <1>2, <1>3, SameLine

LEMMA LineStep ==
  ASSUME Idempotent, OneIndexEach, AccountInv, OnceInv, Waits, Lined(actor, tasks, completions), AcksWritten,
         forgets = 0, forgets' = 0, Shapes', Settled', [Next]_vars
  PROVE  Lined(actor, tasks, completions)'
<1>0. CustodyInv /\ Reported /\ HandedOver /\ PermitInv BY DEF AccountInv, OnceInv, CustodyInv
<1>1. CASE CallerNext
  <2>1. UNCHANGED <<actor, tasks, log, ghosts>> BY <1>0, <1>1, CallerIs
  <2>2. completions' = completions
    BY <1>1 DEF CallerNext, Submit, AcquirePermit, DropHandles, PermitTimeout, Enqueue, CancelAppend, CallFlush
  <2> QED BY <1>0, <2>1, <2>2, OthersLine
<1>2. CASE ActorNext BY <1>2, ActorLine
<1>3. CASE TaskNext
  <2>1. PICK t \in tasks : TaskStep(t) BY <1>3 DEF TaskNext
  <2>2. CASE Encode(t) BY <1>0, <2>2, EncodeLine
  <2>3. CASE Judge(t) BY <1>0, <2>3, JudgeLine
  <2>4. ASSUME NEW G, RouteFails(t, G) \/ LoseRequest(t, G) PROVE Lined(actor, tasks, completions)'
    BY <1>0, <2>4, FailureLine
  <2>5. ASSUME NEW G, Respond(t, G) PROVE Lined(actor, tasks, completions)' BY <1>0, <2>5, RespondLine
  <2> QED BY <2>1, <2>2, <2>3, <2>4, <2>5 DEF TaskStep
<1>4. ASSUME NEW g \in ghosts, GhostArrives(g) PROVE Lined(actor, tasks, completions)'
  BY <1>0, <1>4, GhostLine
<1>5. ASSUME NEW p \in Partitions, Forget(p) PROVE FALSE
  <2>1. forgets' = forgets + 1 BY <1>5 DEF Forget
  <2> QED BY <2>1
<1>6. CASE DeadlinePasses \/ Stopped \/ UNCHANGED vars
  <2>1. UNCHANGED <<actor, tasks, completions, log, ghosts>>
    BY <1>6 DEF DeadlinePasses, Stopped, vars, actorVars, brokerVars
  <2> QED BY <1>0, <2>1, OthersLine
<1> QED BY <1>1, <1>2, <1>3, <1>4, <1>5, <1>6 DEF Next, ClusterNext

LEMMA GapStep ==
  ASSUME Idempotent, OneIndexEach
  PROVE  GapInv /\ [Next]_vars => GapInv'
<1> SUFFICES ASSUME GapInv, [Next]_vars PROVE GapInv' OBVIOUS
<1>1. AccountInv /\ OnceInv /\ Waits BY DEF GapInv
<1>2. AccountInv' /\ OnceInv' /\ Waits' BY <1>1, AccountStep, OnceStep, WaitsStep
<1>3. ASSUME Settled', forgets' = 0 PROVE Lined(actor, tasks, completions)' /\ AcksWritten'
  <2>1. PermitInv /\ Reported /\ Shapes' BY <1>1, <1>2 DEF AccountInv, OnceInv, CustodyInv
  <2>2. Settled /\ forgets = 0 BY <1>1, <1>2, <1>3, <2>1, SettledBefore
  <2>3. Lined(actor, tasks, completions) /\ AcksWritten BY <2>2 DEF GapInv
  <2> QED BY <1>1, <1>3, <2>1, <2>2, <2>3, LineStep, AcksStep
<1> QED BY <1>2, <1>3 DEF GapInv

LEMMA GapInit == Init => GapInv
<1> SUFFICES ASSUME Init PROVE GapInv OBVIOUS
<1>1. AccountInv /\ OnceInv BY AccountInit, OnceInit
<1>2. /\ tasks = {} /\ completions = {} /\ ghosts = {} /\ pc = "select" /\ actor = NewActor
      /\ log = [p \in Partitions |-> <<>>] /\ outcome = [r \in Records |-> Pending]
  BY DEF Init
<1>3. Waits /\ AcksWritten BY <1>2 DEF Waits, AcksWritten, Pending
<1>4. ASSUME NEW p \in Partitions PROVE WrittenInLine(actor, p) /\ actor.next[p] = Expected(log[p])
  <2>1. log[p] = <<>> /\ actor.next[p] = 0 BY <1>2 DEF NewActor
  <2> QED BY <2>1 DEF WrittenInLine, Expected
<1>5. Lined(actor, tasks, completions) BY <1>2, <1>4 DEF Lined
<1> QED BY <1>1, <1>3, <1>5 DEF GapInv

LEMMA NoGap ==
  ASSUME GapInv
  PROVE  NoSequenceGap
<1> SUFFICES ASSUME InDoubt = {}, forgets = 0, NEW t \in tasks, NEW p \in t.live
             PROVE  LET b == t.batch[p] IN
                    \/ IsDuplicate(log[p], 0, b)
                    \/ IF Known(log[p], 0, b) THEN InSequence(log[p], 0, b) ELSE b.base = 0
  BY DEF NoSequenceGap
<1>1. OnceInv /\ CustodyInv /\ Shapes /\ Reported /\ p \in DOMAIN t.batch
  BY DEF GapInv, AccountInv, OnceInv, CustodyInv, Shapes, TaskOK
<1>2. Settled
  <2> SUFFICES ASSUME NEW r \in Records, Written(r) PROVE outcome[r].kind \in {"pending", "ok"} BY DEF Settled
  <2>1. PICK q \in Partitions : \E i \in DOMAIN log[q] : r \in ToSet(log[q][i].recs) BY DEF Written
  <2>2. PICK i \in DOMAIN log[q] : r \in ToSet(log[q][i].recs) BY <2>1
  <2>3. EntryOK(log[q][i], q) BY <1>1 DEF Shapes, LogsOK
  <2>4. PartitionOf[r] = q BY <2>2, <2>3, ToSetType DEF EntryOK
  <2>5. r \in RecordsIn(log[PartitionOf[r]]) BY <2>2, <2>4 DEF RecordsIn
  <2> QED BY <2>5 DEF InDoubt
<1>3. Lined(actor, tasks, completions) BY <1>2 DEF GapInv
<1>4. p \in Partitions /\ Fine(t.batch[p], log[p], p, actor.identity) BY <1>1, <1>3, LinedTask
<1>5. GoodLog(log[p], p, actor.identity) BY <1>1, <1>3, <1>4, LinedLogs
<1> QED BY <1>4, <1>5, NoHole

(* Sequence numbers.  As long as no record that is in a log was reported   *)
(* as failed and no broker has forgotten the producer, every batch that a  *)
(* send task carries under a producer id is the one the broker expects     *)
(* next of that id, or one it already has: released numbers (settle,       *)
(* Completed) are given to the next batch, and a number that was used is   *)
(* never given back.  Responses are read by partition index, so a request  *)
(* has no two partitions of the same index.                                *)
THEOREM SequencesHaveNoGap ==
  ASSUME OneIndexEach
  PROVE  Spec => []NoSequenceGap
<1>1. CASE Idempotent
  <2>1. Init => GapInv BY GapInit
  <2>2. GapInv /\ [Next]_vars => GapInv' BY <1>1, GapStep
  <2>3. GapInv => NoSequenceGap BY NoGap
  <2> QED BY <2>1, <2>2, <2>3, PTL DEF Spec
<1>2. CASE ~Idempotent
  <2> DEFINE I == CustodyInv /\ Anonymous
  <2>1. Init => I BY CustodyInit DEF Init, NewActor, Anonymous
  <2>2. I /\ [Next]_vars => I' BY <1>2, CustodyStep, AnonymousStep
  <2>3. I => NoSequenceGap
    <3> SUFFICES ASSUME I, NEW t \in tasks, NEW p \in t.live PROVE t.batch[p].pid = NoIdentity
      BY DEF NoSequenceGap
    <3>1. p \in DOMAIN t.batch BY DEF CustodyInv, Shapes, TaskOK
    <3> QED BY <3>1 DEF Anonymous, NoPid, NoIdentity
  <2> HIDE DEF I
  <2> QED BY <2>1, <2>2, <2>3, PTL DEF Spec
<1> QED BY <1>1, <1>2
=============================================================================
