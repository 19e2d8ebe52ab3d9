---------------------------- MODULE DecodeProofs ----------------------------
(***************************************************************************)
(* Lemmas about the decoder and about a partition's log, for every log a   *)
(* broker can hold, every visibility and every size of an answer.  The     *)
(* proofs of the consumer and of the reader both rest on them.             *)
(***************************************************************************)
EXTENDS RecordBatch, WellFoundedInduction, FiniteSetTheorems, TLAPS

(* Induction over the natural numbers, for a set of them.                  *)
LEMMA NatSetInduction ==
  ASSUME NEW T, 0 \in T, \A n \in Nat : n \in T => n + 1 \in T
  PROVE  Nat \subseteq T
<1> SUFFICES ASSUME Nat \ T # {} PROVE FALSE OBVIOUS
<1>1. PICK x \in Nat \ T : \A y \in Nat \ T : ~ (<<y, x>> \in OpToRel(<, Nat))
  BY NatLessThanWellFounded, WFMin
<1>2. \A y \in Nat \ T : ~ (y < x) BY <1>1 DEF OpToRel
<1>3. x \in Nat /\ x \notin T /\ x # 0 OBVIOUS
<1>4. x - 1 \in Nat /\ x - 1 < x BY <1>3
<1>5. x - 1 \in T BY <1>2, <1>4
<1>6. (x - 1) + 1 \in T BY <1>4, <1>5
<1> QED BY <1>3, <1>6

LEMMA LeastOf ==
  ASSUME NEW S, S \subseteq Nat, S # {}
  PROVE  Min(S) \in S /\ \A y \in S : Min(S) <= y
<1>1. PICK x \in S : \A y \in S : ~ (<<y, x>> \in OpToRel(<, Nat)) BY NatLessThanWellFounded, WFMin
<1>2. x \in Nat /\ \A y \in S : y \in Nat /\ ~ (y < x) BY <1>1 DEF OpToRel
<1>3. \A y \in S : x <= y BY <1>2
<1> QED BY <1>3 DEF Min

LEMMA GreatestOf ==
  ASSUME NEW S, NEW n \in Nat, S \subseteq 0..n, S # {}
  PROVE  Max(S) \in S /\ \A y \in S : Max(S) >= y
<1> DEFINE up == {k \in Nat : \A y \in S : y <= k}
<1>1. n \in up OBVIOUS
<1>2. Min(up) \in up /\ \A y \in up : Min(up) <= y BY <1>1, LeastOf
<1>3. PICK k \in Nat : /\ \A y \in S : y <= k
                       /\ \A j \in Nat : (\A y \in S : y <= j) => k <= j
  BY <1>2
<1>4. k \in S
  <2> SUFFICES ASSUME k \notin S PROVE FALSE OBVIOUS
  <2>1. \A y \in S : y <= k - 1 BY <1>3
  <2>2. k - 1 \in Nat
    <3>1. PICK y \in S : TRUE OBVIOUS
    <3>2. y \in Nat /\ y <= k - 1 BY <2>1, <3>1
    <3> QED BY <3>2
  <2> QED BY <1>3, <2>1, <2>2
<1> QED BY <1>3, <1>4 DEF Max

-----------------------------------------------------------------------------
(* The loop of decode_partition, turn by turn.                             *)
DecodeIter(base, s, S, it) ==
  it = [t \in SUBSET S |-> IF t = {} THEN base ELSE DecodeBatch(it[t \ {Max(t)}], s[Max(t)])]

LEMMA DecodeIterExists ==
  ASSUME NEW base, NEW s, NEW n \in Nat
  PROVE  \E it : DecodeIter(base, s, 1..n, it)
<1> DEFINE T == {k \in Nat : \E it : DecodeIter(base, s, 1..k, it)}
<1>1. 0 \in T
  <2>1. SUBSET (1..0) = {{}} OBVIOUS
  <2>2. DecodeIter(base, s, 1..0, [t \in SUBSET (1..0) |-> base]) BY <2>1 DEF DecodeIter
  <2> QED BY <2>2
<1>2. ASSUME NEW k \in Nat, k \in T
      PROVE  k + 1 \in T
  <2>1. PICK it : DecodeIter(base, s, 1..k, it) BY <1>2
  <2> DEFINE more == [t \in SUBSET (1..(k + 1)) |->
                        IF k + 1 \in t THEN DecodeBatch(it[t \ {k + 1}], s[k + 1]) ELSE it[t]]
  <2>2. ASSUME NEW t \in SUBSET (1..(k + 1))
        PROVE  more[t] = IF t = {} THEN base ELSE DecodeBatch(more[t \ {Max(t)}], s[Max(t)])
    <3>1. CASE k + 1 \in t
      <4>1. Max(t) = k + 1
        <5>1. Max(t) \in t /\ \A y \in t : Max(t) >= y
          <6>1. t \subseteq 0..(k + 1) /\ t # {} /\ k + 1 \in Nat BY <3>1
          <6> QED BY <6>1, GreatestOf
        <5>2. Max(t) \in 1..(k + 1) /\ Max(t) >= k + 1 BY <5>1, <3>1
        <5> QED BY <5>2
      <4>2. t \ {k + 1} \in SUBSET (1..(k + 1)) /\ k + 1 \notin t \ {k + 1} OBVIOUS
      <4>3. more[t \ {k + 1}] = it[t \ {k + 1}] BY <4>2
      <4> QED BY <3>1, <4>1, <4>3
    <3>2. CASE k + 1 \notin t
      <4>1. t \in SUBSET (1..k) BY <3>2
      <4>2. it[t] = IF t = {} THEN base ELSE DecodeBatch(it[t \ {Max(t)}], s[Max(t)])
        BY <2>1, <4>1 DEF DecodeIter
      <4>3. t # {} => more[t \ {Max(t)}] = it[t \ {Max(t)}]
        <5>1. t \ {Max(t)} \in SUBSET (1..(k + 1)) /\ k + 1 \notin t \ {Max(t)} BY <3>2
        <5> QED BY <5>1
      <4>4. more[t] = it[t] BY <3>2
      <4> QED BY <4>2, <4>3, <4>4
    <3> QED BY <3>1, <3>2
  <2>3. DecodeIter(base, s, 1..(k + 1), more) BY <2>2 DEF DecodeIter
  <2> QED BY <2>3
<1> HIDE DEF T
<1>3. n \in T BY <1>1, <1>2, NatSetInduction
<1> QED BY <1>3 DEF T

DecodeAll(base, s) == FoldLeft(DecodeBatch, base, s)

LEMMA DecodeTurns ==
  ASSUME NEW base, NEW s, NEW n \in Nat, DOMAIN s = 1..n
  PROVE  \E r : /\ r[0] = base
                /\ \A i \in 1..n : r[i] = DecodeBatch(r[i - 1], s[i])
                /\ DecodeAll(base, s) = r[n]
<1> DEFINE it == CHOOSE it : DecodeIter(base, s, 1..n, it)
<1>1. DecodeAll(base, s) = it[1..n] BY Zenon DEF DecodeAll, FoldLeft, MapThenFoldSet, DecodeIter
<1>2. DecodeIter(base, s, 1..n, it) BY DecodeIterExists
<1> HIDE DEF it
<1> DEFINE r == [i \in 0..n |-> it[1..i]]
<1>3. ASSUME NEW i \in 1..n
      PROVE  r[i] = DecodeBatch(r[i - 1], s[i])
  <2>1. (1..i) \in SUBSET (1..n) /\ 1..i # {} OBVIOUS
  <2>2. Max(1..i) = i
    <3>1. 1..i \subseteq 0..i /\ i \in Nat OBVIOUS
    <3>2. Max(1..i) \in 1..i /\ \A y \in 1..i : Max(1..i) >= y BY <2>1, <3>1, GreatestOf
    <3> QED BY <3>2
  <2>3. (1..i) \ {i} = 1..(i - 1) OBVIOUS
  <2>4. it[1..i] = DecodeBatch(it[1..(i - 1)], s[i]) BY <1>2, <2>1, <2>2, <2>3 DEF DecodeIter
  <2>5. r[i] = it[1..i] /\ r[i - 1] = it[1..(i - 1)] OBVIOUS
  <2> QED BY <2>4, <2>5
<1>4. r[0] = base
  <2>1. {} \in SUBSET (1..n) /\ 1..0 = {} OBVIOUS
  <2> QED BY <1>2, <2>1 DEF DecodeIter
<1>5. r[n] = it[1..n] OBVIOUS
<1> HIDE DEF r
<1> QED BY <1>1, <1>3, <1>4, <1>5

Sorted(s) == \A i, j \in DOMAIN s : i < j => s[i] < s[j]

(* A set of numbers has its elements in order.                             *)
LEMMA AscendingExists ==
  ASSUME NEW n \in Nat, NEW S \in SUBSET (0..n)
  PROVE  \E s \in [1..Cardinality(S) -> S] : Sorted(s)
<1> DEFINE T == {k \in Nat : \A R \in SUBSET (0..(k - 1)) :
                   \E s \in [1..Cardinality(R) -> R] : Sorted(s)}
<1>1. 0 \in T
  <2>1. \A R \in SUBSET (0..(0 - 1)) : R = {} OBVIOUS
  <2>2. Cardinality({}) = 0 BY FS_EmptySet
  <2>3. [i \in 1..0 |-> 0] \in [1..0 -> {}] /\ Sorted([i \in 1..0 |-> 0]) BY DEF Sorted
  <2> QED BY <2>1, <2>2, <2>3
<1>2. ASSUME NEW k \in Nat, k \in T
      PROVE  k + 1 \in T
  <2> SUFFICES ASSUME NEW R \in SUBSET (0..k)
               PROVE  \E s \in [1..Cardinality(R) -> R] : Sorted(s)
    OBVIOUS
  <2>1. CASE k \notin R
    <3>1. R \in SUBSET (0..(k - 1)) BY <2>1
    <3> QED BY <1>2, <3>1
  <2>2. CASE k \in R
    <3> DEFINE Q == R \ {k}
               m == Cardinality(Q)
    <3>1. IsFiniteSet(R)
      <4>1. IsFiniteSet(0..k) BY FS_Interval
      <4> QED BY <4>1, FS_Subset
    <3>2. IsFiniteSet(Q) /\ m = Cardinality(R) - 1 /\ m \in Nat /\ Cardinality(R) \in Nat
      BY <3>1, <2>2, FS_RemoveElement, FS_CardinalityType
    <3>3. Q \in SUBSET (0..(k - 1)) OBVIOUS
    <3>4. PICK s \in [1..m -> Q] : Sorted(s) BY <1>2, <3>3
    <3> HIDE DEF m
    <3> DEFINE t == [i \in 1..(m + 1) |-> IF i = m + 1 THEN k ELSE s[i]]
    <3>5. t \in [1..(m + 1) -> R] BY <3>2, <3>4, <2>2
    <3>6. Sorted(t)
      <4> SUFFICES ASSUME NEW i \in 1..(m + 1), NEW j \in 1..(m + 1), i < j
                   PROVE  t[i] < t[j]
        BY DEF Sorted
      <4>1. i \in 1..m /\ t[i] = s[i] /\ s[i] \in Q BY <3>2, <3>4
      <4>2. CASE j = m + 1
        <5>1. s[i] \in 0..(k - 1) /\ t[j] = k BY <4>1, <4>2, <3>3
        <5> QED BY <4>1, <5>1
      <4>3. CASE j # m + 1
        <5>1. j \in 1..m /\ t[j] = s[j] BY <3>2, <4>3
        <5> QED BY <3>4, <4>1, <5>1 DEF Sorted
      <4> QED BY <4>2, <4>3
    <3>7. m + 1 = Cardinality(R) BY <3>2
    <3> HIDE DEF t
    <3> QED BY <3>5, <3>6, <3>7
  <2> QED BY <2>1, <2>2
<1> HIDE DEF T
<1>3. n + 1 \in T BY <1>1, <1>2, NatSetInduction
<1>4. (n + 1) - 1 = n OBVIOUS
<1> QED BY <1>3, <1>4 DEF T

(* The offsets of a batch, in order and all of them.                       *)
LEMMA AscendingFacts ==
  ASSUME NEW n \in Nat, NEW S \in SUBSET (0..n)
  PROVE  /\ Ascending(S) \in Seq(S) /\ Sorted(Ascending(S))
         /\ \A x \in S : \E i \in DOMAIN Ascending(S) : Ascending(S)[i] = x
<1> DEFINE m == Cardinality(S)
           s == Ascending(S)
<1>1. IsFiniteSet(S) /\ m \in Nat
  <2>1. IsFiniteSet(0..n) BY FS_Interval
  <2> QED BY <2>1, FS_Subset, FS_CardinalityType
<1>2. s \in [1..m -> S] /\ Sorted(s) BY AscendingExists DEF Ascending, Sorted
<1> HIDE DEF s
<1>3. s \in Injection(1..m, S)
  <2>1. \A i, j \in 1..m : s[i] = s[j] => i = j
    <3> SUFFICES ASSUME NEW i \in 1..m, NEW j \in 1..m, s[i] = s[j], i # j
                 PROVE  FALSE
      OBVIOUS
    <3>1. s[i] \in Nat /\ s[j] \in Nat
      <4>1. s[i] \in S /\ s[j] \in S BY <1>2
      <4>2. s[i] \in 0..n /\ s[j] \in 0..n BY <4>1
      <4> QED BY <4>2
    <3>2. i < j \/ j < i BY <1>1
    <3> QED BY <1>2, <3>1, <3>2 DEF Sorted
  <2> QED BY <1>2, <2>1 DEF Injection, IsInjective
<1>4. Cardinality(1..m) = m BY <1>1, FS_Interval
<1>5. s \in Surjection(1..m, S) BY <1>1, <1>3, <1>4, FS_Injection
<1>6. \A x \in S : \E i \in 1..m : s[i] = x BY <1>5 DEF Surjection
<1>7. s \in Seq(S) BY <1>1, <1>2
<1> QED BY <1>2, <1>6, <1>7 DEF s

(* The batches of a log, one and two at a time.                            *)
LEMMA LogOne ==
  ASSUME NEW L, IsLog(L), NEW i \in DOMAIN L
  PROVE  /\ Len(L) \in Nat /\ DOMAIN L = 1..Len(L)
         /\ L[i].base \in Nat /\ L[i].last \in Nat /\ L[i].base <= L[i].last
         /\ L[i].offs \subseteq L[i].base..L[i].last
         /\ L[i].control \in BOOLEAN /\ L[i].aborted \in BOOLEAN /\ L[i].tx \in Nat
         /\ L[i].pid \in Nat /\ L[i].health \in {"ok", "corrupt", "header"}
         /\ L[i].control \/ L[i].aborted => L[i].tx # 0
<1>1. L \in Seq(BatchRecord) /\ IsBatch(L[i]) BY DEF IsLog
<1>2. L[i] \in BatchRecord BY <1>1
<1>3. Len(L) \in Nat /\ DOMAIN L = 1..Len(L) BY <1>1
<1> QED BY <1>1, <1>2, <1>3 DEF IsBatch, BatchRecord

LEMMA LogTwo ==
  ASSUME NEW L, IsLog(L), NEW i \in DOMAIN L, NEW j \in DOMAIN L, i < j
  PROVE  /\ L[i].last < L[j].base
         /\ L[i].tx # 0 /\ L[i].tx = L[j].tx =>
              L[i].pid = L[j].pid /\ L[i].aborted = L[j].aborted /\ ~L[i].control
         /\ L[i].tx # 0 /\ L[j].tx # 0 /\ L[i].tx # L[j].tx /\ L[i].pid = L[j].pid =>
              \E k \in i..(j - 1) : L[k].tx = L[i].tx /\ L[k].control
BY DEF IsLog

LEMMA BatchOrder ==
  ASSUME NEW L, IsLog(L), NEW i \in DOMAIN L, NEW j \in DOMAIN L
  PROVE  /\ L[i].base <= L[j].base => i <= j
         /\ L[i].base < L[j].base => i < j
         /\ L[i].last <= L[j].last => i <= j
         /\ i <= j => L[i].base <= L[j].base /\ L[i].last <= L[j].last
<1>1. i \in Nat /\ j \in Nat BY LogOne
<1>2. /\ L[i].base \in Nat /\ L[i].last \in Nat /\ L[i].base <= L[i].last
      /\ L[j].base \in Nat /\ L[j].last \in Nat /\ L[j].base <= L[j].last
  BY LogOne
<1>3. (i < j => L[i].last < L[j].base) /\ (j < i => L[j].last < L[i].base) BY LogTwo
<1> QED BY <1>1, <1>2, <1>3

(* A stretch of a log: the batches an answer holds.                        *)
Stretch(L, lo, n, from, stable) ==
  /\ lo \in Nat /\ n \in Nat /\ lo + n <= Len(L)
  /\ \A i \in 1..n : L[lo + i].last >= from /\ L[lo + i].base < stable
  /\ \A i \in 1..lo : L[i].last < from

Part(L, lo, n) == [i \in 1..n |-> L[lo + i]]

(* An answer that is not cut short holds the whole rest of the log.        *)
Sends(L, from, stable, budget, answer, lo, n) ==
  /\ Stretch(L, lo, n, from, stable) /\ n <= budget /\ answer.sent = Part(L, lo, n)
  /\ ~answer.cut /\ n > 0 =>
       \A i \in DOMAIN L : L[i].last >= from /\ L[i].base < stable => i <= lo + n

LEMMA AnswerFacts ==
  ASSUME NEW L, IsLog(L), NEW from \in Int, NEW stable \in Int, NEW budget \in Nat
  PROVE  \E lo, n : Sends(L, from, stable, budget, Answer(L, from, stable, budget), lo, n)
<1> DEFINE ahead == {i \in DOMAIN L : L[i].last >= from /\ L[i].base < stable}
           whole == IF Max(ahead) - Min(ahead) < budget THEN Max(ahead) ELSE Min(ahead) + budget - 1
           answer == Answer(L, from, stable, budget)
           sent  == answer.sent
           cut   == answer.cut
<1>1. Len(L) \in Nat /\ DOMAIN L = 1..Len(L) /\ L \in Seq(BatchRecord) BY DEF IsLog
<1>2. /\ sent = IF ahead = {} THEN <<>> ELSE SubSeq(L, Min(ahead), whole)
      /\ cut <=> (ahead # {} /\ budget > 0 /\ whole < Max(ahead))
  BY DEF Answer
<1> SUFFICES \E lo, n : /\ Stretch(L, lo, n, from, stable) /\ n <= budget /\ sent = Part(L, lo, n)
                        /\ ~cut /\ n > 0 =>
                             \A i \in DOMAIN L : L[i].last >= from /\ L[i].base < stable => i <= lo + n
  BY DEF Sends
<1> HIDE DEF answer, sent, cut
<1>3. CASE ahead = {}
  <2>1. sent = [i \in 1..0 |-> L[0 + i]] BY <1>2, <1>3
  <2>2. Stretch(L, 0, 0, from, stable) BY <1>1 DEF Stretch
  <2> QED BY <2>1, <2>2 DEF Part
<1>4. CASE ahead # {}
  <2>1. ahead \subseteq Nat /\ ahead \subseteq 0..Len(L) BY <1>1
  <2>2. Min(ahead) \in ahead /\ \A y \in ahead : Min(ahead) <= y BY <1>4, <2>1, LeastOf
  <2>3. Max(ahead) \in ahead /\ \A y \in ahead : Max(ahead) >= y BY <1>1, <1>4, <2>1, GreatestOf
  <2>4. PICK a, z : a = Min(ahead) /\ z = Max(ahead) OBVIOUS
  <2>5. /\ a \in 1..Len(L) /\ z \in 1..Len(L) /\ a <= z
        /\ L[a].last >= from /\ L[a].base < stable /\ L[z].last >= from /\ L[z].base < stable
        /\ \A i \in DOMAIN L : L[i].last >= from /\ L[i].base < stable => a <= i /\ i <= z
    BY <1>1, <2>2, <2>3, <2>4
  <2>6. PICK e : e = whole OBVIOUS
  <2>7. e \in (a - 1)..z /\ e - a + 1 <= budget BY <1>1, <2>4, <2>5, <2>6
  <2> DEFINE lo == a - 1
             n == e - a + 1
  <2>8. sent = SubSeq(L, a, e) BY <1>2, <1>4, <2>4, <2>6
  <2>14. ~cut /\ n > 0 => e = z
    <3>1. cut <=> (budget > 0 /\ e < z) BY <1>2, <1>4, <2>4, <2>6
    <3> HIDE DEF ahead, whole
    <3>2. a \in Int /\ e \in Int /\ z \in Int /\ e <= z BY <1>1, <2>5, <2>7
    <3> QED BY <2>7, <3>1, <3>2
  <2> HIDE DEF ahead, whole
  <2>9. lo \in Nat /\ n \in Nat /\ lo + n <= Len(L) /\ lo + n = e BY <1>1, <2>5, <2>7
  <2>10. ASSUME NEW i \in 1..n
         PROVE  L[lo + i].last >= from /\ L[lo + i].base < stable
    <3>1. PICK m : m = lo + i OBVIOUS
    <3>2. m \in DOMAIN L /\ a <= m /\ m <= z /\ a \in DOMAIN L /\ z \in DOMAIN L BY <1>1, <2>5, <2>7, <3>1
    <3>3. L[a].last <= L[m].last /\ L[m].base <= L[z].base BY <3>2, BatchOrder
    <3>4. L[m].last \in Nat /\ L[m].base \in Nat /\ L[a].last \in Nat /\ L[z].base \in Nat BY <3>2, LogOne
    <3>5. L[m].last >= from /\ L[m].base < stable BY <2>5, <3>3, <3>4
    <3> QED BY <3>1, <3>5
  <2>11. ASSUME NEW i \in 1..lo
         PROVE  L[i].last < from
    <3>1. i \in DOMAIN L /\ a \in DOMAIN L /\ i <= a /\ ~(a <= i) BY <1>1, <2>5
    <3>2. ~(L[i].last >= from /\ L[i].base < stable) BY <2>5, <3>1
    <3>3. L[i].base <= L[a].base BY <3>1, BatchOrder
    <3>4. L[i].last \in Nat /\ L[i].base \in Nat /\ L[a].base \in Nat BY <3>1, LogOne
    <3> QED BY <2>5, <3>2, <3>3, <3>4
  <2>12. sent = [i \in 1..n |-> L[lo + i]]
    <3>1. sent = [i \in 1..n |-> L[a + i - 1]] BY <1>1, <2>5, <2>7, <2>8
    <3>2. \A i \in 1..n : a + i - 1 = lo + i BY <2>5
    <3> QED BY <3>1, <3>2
  <2>13. Stretch(L, lo, n, from, stable) BY <2>9, <2>10, <2>11 DEF Stretch
  <2>15. n <= budget BY <2>7
  <2>16. ASSUME ~cut, n > 0
         PROVE  \A i \in DOMAIN L : L[i].last >= from /\ L[i].base < stable => i <= lo + n
    BY <2>5, <2>9, <2>14, <2>16
  <2> HIDE DEF lo, n
  <2> QED BY <2>12, <2>13, <2>15, <2>16 DEF Part
<1> QED BY <1>3, <1>4

LEMMA LogEndFacts ==
  ASSUME NEW L, IsLog(L)
  PROVE  LogEnd(L) \in Nat /\ \A i \in DOMAIN L : L[i].last < LogEnd(L)
<1>1. Len(L) \in Nat /\ DOMAIN L = 1..Len(L) /\ L \in Seq(BatchRecord) BY DEF IsLog
<1>2. CASE L = <<>> BY <1>2 DEF LogEnd
<1>3. CASE L # <<>>
  <2>1. Len(L) \in DOMAIN L /\ LogEnd(L) = L[Len(L)].last + 1 BY <1>1, <1>3 DEF LogEnd, Last
  <2>2. L[Len(L)].last \in Nat BY <2>1, LogOne
  <2>3. \A i \in DOMAIN L : L[i].last <= L[Len(L)].last /\ L[i].last \in Nat BY <1>1, <2>1, BatchOrder, LogOne
  <2> QED BY <2>1, <2>2, <2>3
<1> QED BY <1>2, <1>3

(* The first offset of a transaction nothing has ended yet.                *)
OpenAt(L, i) ==
  L[i].tx # 0 /\ ~\E j \in DOMAIN L : L[j].tx = L[i].tx /\ L[j].control

LEMMA LastStableFacts ==
  ASSUME NEW L, IsLog(L)
  PROVE  \/ /\ \A i \in DOMAIN L : ~OpenAt(L, i)
            /\ LastStable(L) = LogEnd(L)
         \/ \E i \in DOMAIN L : /\ OpenAt(L, i) /\ LastStable(L) = L[i].base
                                /\ \A j \in DOMAIN L : OpenAt(L, j) => L[i].base <= L[j].base
<1> DEFINE all  == ToSet(L)
           open == {b.base : b \in {c \in all : c.tx # 0 /\ ~\E d \in all : d.tx = c.tx /\ d.control}}
<1>1. LastStable(L) = IF open = {} THEN LogEnd(L) ELSE Min(open) BY DEF LastStable, Min
<1>2. open = {L[i].base : i \in {j \in DOMAIN L : OpenAt(L, j)}} BY DEF ToSet, OpenAt
<1> HIDE DEF open
<1>3. open \subseteq Nat BY <1>2, LogOne
<1>4. CASE open = {} BY <1>1, <1>2, <1>4
<1>5. CASE open # {}
  <2>1. Min(open) \in open /\ \A y \in open : Min(open) <= y BY <1>3, <1>5, LeastOf
  <2>2. PICK i \in DOMAIN L : OpenAt(L, i) /\ Min(open) = L[i].base BY <1>2, <2>1
  <2>3. \A j \in DOMAIN L : OpenAt(L, j) => L[i].base <= L[j].base BY <1>2, <2>1, <2>2
  <2> QED BY <1>1, <1>5, <2>2, <2>3
<1> QED BY <1>4, <1>5

(* What begins before the usable end of a log ends before it.              *)
LEMMA EndForFacts ==
  ASSUME NEW L, IsLog(L), NEW v
  PROVE  /\ EndFor(L, v) \in Nat /\ EndFor(L, v) <= LogEnd(L)
         /\ \A i \in DOMAIN L : L[i].base < EndFor(L, v) => L[i].last < EndFor(L, v)
<1>1. LogEnd(L) \in Nat /\ \A i \in DOMAIN L : L[i].last < LogEnd(L) BY LogEndFacts
<1>2. EndFor(L, v) = LogEnd(L) \/ \E i \in DOMAIN L : EndFor(L, v) = L[i].base BY LastStableFacts DEF EndFor
<1>3. CASE EndFor(L, v) = LogEnd(L) BY <1>1, <1>3
<1>4. ASSUME NEW i \in DOMAIN L, EndFor(L, v) = L[i].base
      PROVE  /\ EndFor(L, v) \in Nat /\ EndFor(L, v) <= LogEnd(L)
             /\ \A j \in DOMAIN L : L[j].base < EndFor(L, v) => L[j].last < EndFor(L, v)
  <2>1. L[i].base \in Nat /\ L[i].last \in Nat /\ L[i].base <= L[i].last BY LogOne
  <2>2. L[i].last < LogEnd(L) BY <1>1
  <2>3. \A j \in DOMAIN L : L[j].base < L[i].base => L[j].last < L[i].base BY BatchOrder, LogTwo
  <2> QED BY <1>1, <1>4, <2>1, <2>2, <2>3
<1> QED BY <1>2, <1>3, <1>4

(* A span of the answer is that of an aborted transaction of the log.      *)
IsSpan(L, lo, n, from, c) ==
  /\ L[c].tx # 0 /\ L[c].aborted /\ ~L[c].control
  /\ \A d \in DOMAIN L : L[d].tx = L[c].tx => L[c].base <= L[d].base /\ (L[d].control => L[d].last >= from)
  /\ \E k \in 1..n : L[lo + k].last >= L[c].base

LEMMA SpansOf ==
  ASSUME NEW L, NEW lo, NEW n, NEW from
  PROVE  /\ \A s \in AbortedTransactions(L, Part(L, lo, n), from) :
              \E c \in DOMAIN L : /\ s.pid = L[c].pid /\ s.first = L[c].base
                                  /\ IsSpan(L, lo, n, from, c)
         /\ \A c \in DOMAIN L : IsSpan(L, lo, n, from, c) =>
              \E s \in AbortedTransactions(L, Part(L, lo, n), from) :
                 s.pid = L[c].pid /\ s.first = L[c].base
<1> DEFINE fits(b) == /\ b.tx # 0 /\ b.aborted /\ ~b.control
                      /\ \A d \in ToSet(L) :
                           d.tx = b.tx => b.base <= d.base /\ (d.control => d.last >= from)
                      /\ \E d \in ToSet(Part(L, lo, n)) : d.last >= b.base
<1>1. AbortedTransactions(L, Part(L, lo, n), from)
        = {[pid |-> b.pid, first |-> b.base] : b \in {c \in ToSet(L) : fits(c)}}
  BY DEF AbortedTransactions
<1>2. ASSUME NEW c \in DOMAIN L
      PROVE  fits(L[c]) <=> IsSpan(L, lo, n, from, c)
  <2>1. \A x : (\E d \in ToSet(Part(L, lo, n)) : d.last >= x) <=> \E k \in 1..n : L[lo + k].last >= x
    BY DEF ToSet, Part
  <2>2. (\A d \in ToSet(L) : d.tx = L[c].tx => L[c].base <= d.base /\ (d.control => d.last >= from))
        <=> (\A d \in DOMAIN L : L[d].tx = L[c].tx => L[c].base <= L[d].base /\ (L[d].control => L[d].last >= from))
    BY DEF ToSet
  <2> QED BY <2>1, <2>2 DEF IsSpan
<1>3. ToSet(L) = {L[c] : c \in DOMAIN L} BY DEF ToSet
<1> HIDE DEF fits
<1>4. ASSUME NEW s \in AbortedTransactions(L, Part(L, lo, n), from)
      PROVE  \E c \in DOMAIN L : /\ s.pid = L[c].pid /\ s.first = L[c].base
                                 /\ IsSpan(L, lo, n, from, c)
  <2>1. PICK b \in {c \in ToSet(L) : fits(c)} : s = [pid |-> b.pid, first |-> b.base] BY <1>1
  <2>2. PICK c \in DOMAIN L : b = L[c] BY <1>3, <2>1
  <2>3. IsSpan(L, lo, n, from, c) BY <1>2, <2>1, <2>2
  <2> QED BY <2>1, <2>2, <2>3
<1>5. ASSUME NEW c \in DOMAIN L, IsSpan(L, lo, n, from, c)
      PROVE  \E s \in AbortedTransactions(L, Part(L, lo, n), from) :
                s.pid = L[c].pid /\ s.first = L[c].base
  <2>1. L[c] \in {b \in ToSet(L) : fits(b)} BY <1>2, <1>3, <1>5
  <2>2. [pid |-> L[c].pid, first |-> L[c].base] \in AbortedTransactions(L, Part(L, lo, n), from) BY <1>1, <2>1
  <2> QED BY <2>2
<1> QED BY <1>4, <1>5

Spans(L, lo, n, from, v) ==
  IF v = "CommittedOnly" THEN AbortedTransactions(L, Part(L, lo, n), from) ELSE {}

(* The walk over the answer is inside a span of the producer pid.          *)
Inside(L, lo, S, pid, i) ==
  \E s \in S : /\ s.pid = pid /\ s.first <= L[lo + i].base
               /\ \A k \in 1..i : L[lo + k].control /\ L[lo + k].pid = pid => L[lo + k].base < s.first

(* decode_partition hides what was aborted, and nothing else.              *)
LEMMA HiddenRight ==
  ASSUME NEW L, IsLog(L), NEW lo, NEW n, NEW from \in Int, NEW stable \in Int, NEW v,
         Stretch(L, lo, n, from, stable),
         NEW i \in 1..n, ~L[lo + i].control, L[lo + i].tx # 0
  PROVE  Inside(L, lo, Spans(L, lo, n, from, v), L[lo + i].pid, i)
           <=> (v = "CommittedOnly" /\ L[lo + i].aborted)
<1>1. /\ lo \in Nat /\ n \in Nat /\ Len(L) \in Nat /\ DOMAIN L = 1..Len(L) /\ lo + n <= Len(L)
      /\ \A k \in 1..n : lo + k \in DOMAIN L /\ L[lo + k].last >= from /\ L[lo + k].base < stable
      /\ \A k \in 1..lo : L[k].last < from
  <2>1. Len(L) \in Nat /\ DOMAIN L = 1..Len(L) BY DEF IsLog
  <2>2. /\ lo \in Nat /\ n \in Nat /\ lo + n <= Len(L)
        /\ \A k \in 1..n : L[lo + k].last >= from /\ L[lo + k].base < stable
        /\ \A k \in 1..lo : L[k].last < from
    BY DEF Stretch
  <2>3. \A k \in 1..n : lo + k \in 1..Len(L) BY <2>1, <2>2
  <2> QED BY <2>1, <2>2, <2>3
<1>2. PICK m : m = lo + i OBVIOUS
<1>3. m \in DOMAIN L /\ m \in Nat /\ ~L[m].control /\ L[m].tx # 0 /\ L[m].last >= from /\ L[m].base < stable
  BY <1>1, <1>2
<1>4. L[m].base \in Nat /\ L[m].last \in Nat /\ L[m].base <= L[m].last BY <1>3, LogOne
<1>5. ASSUME v = "CommittedOnly", L[m].aborted
      PROVE  Inside(L, lo, Spans(L, lo, n, from, v), L[m].pid, i)
  <2> DEFINE same == {j \in DOMAIN L : L[j].tx = L[m].tx}
  <2>1. same \subseteq Nat /\ m \in same BY <1>1, <1>3
  <2>2. Min(same) \in same /\ \A y \in same : Min(same) <= y BY <2>1, LeastOf
  <2>3. PICK c \in DOMAIN L : L[c].tx = L[m].tx /\ \A j \in DOMAIN L : L[j].tx = L[m].tx => c <= j BY <2>2
  <2>4. c <= m /\ L[c].base <= L[m].base /\ c \in Nat BY <1>1, <1>3, <2>3, BatchOrder
  <2>5. L[c].aborted /\ ~L[c].control /\ L[c].pid = L[m].pid
    <3>1. CASE c = m BY <1>3, <1>5, <3>1
    <3>2. CASE c < m BY <1>3, <1>5, <2>3, <3>2, LogTwo
    <3> QED BY <1>3, <2>4, <3>1, <3>2
  <2>6. ASSUME NEW d \in DOMAIN L, L[d].tx = L[c].tx
        PROVE  L[c].base <= L[d].base /\ (L[d].control => L[d].last >= from)
    <3>1. L[c].base <= L[d].base BY <2>3, <2>6, BatchOrder
    <3>2. ASSUME L[d].control
          PROVE  L[d].last >= from
      <4>1. ~(d < m) BY <1>3, <2>3, <2>6, <3>2, LogTwo
      <4>2. m <= d BY <1>1, <1>3, <4>1
      <4>3. L[m].last <= L[d].last /\ L[d].last \in Nat BY <1>3, <4>2, BatchOrder, LogOne
      <4> QED BY <1>3, <1>4, <4>3
    <3> QED BY <3>1, <3>2
  <2>7. \E k \in 1..n : L[lo + k].last >= L[c].base
    <3>1. L[m].last >= L[c].base
      <4>1. L[c].base \in Nat BY LogOne
      <4> QED BY <1>4, <2>4, <4>1
    <3> QED BY <1>2, <3>1
  <2>8. IsSpan(L, lo, n, from, c) BY <1>3, <2>3, <2>5, <2>6, <2>7 DEF IsSpan
  <2>9. PICK s \in AbortedTransactions(L, Part(L, lo, n), from) : s.pid = L[c].pid /\ s.first = L[c].base
    BY <2>8, SpansOf
  <2>10. s \in Spans(L, lo, n, from, v) BY <1>5, <2>9 DEF Spans
  <2>11. ASSUME NEW k \in 1..i, L[lo + k].control, L[lo + k].pid = L[m].pid
         PROVE  L[lo + k].base < s.first
    <3>1. PICK x : x = lo + k OBVIOUS
    <3>2. x \in DOMAIN L /\ x <= m /\ L[x].control /\ L[x].pid = L[m].pid /\ x \in Nat
      BY <1>1, <1>2, <2>11, <3>1
    <3>3. L[x].tx # 0 /\ x # m /\ x < m BY <1>3, <3>2, LogOne
    <3>4. L[x].tx # L[m].tx BY <1>3, <3>2, <3>3, LogTwo
    <3>5. SUFFICES ASSUME ~(L[x].base < L[c].base)
                   PROVE  FALSE
      BY <2>9, <3>1
    <3>6. L[x].base \in Nat /\ L[c].base \in Nat BY <3>2, LogOne
    <3>7. c <= x /\ c # x /\ c < x BY <2>3, <2>4, <3>2, <3>4, <3>5, <3>6, BatchOrder
    <3>8. PICK y \in c..(x - 1) : L[y].tx = L[c].tx /\ L[y].control
      BY <1>3, <2>3, <2>5, <3>2, <3>3, <3>4, <3>7, LogTwo
    <3>9. y \in DOMAIN L /\ y < m BY <1>1, <1>3, <2>4, <3>2, <3>3, <3>8
    <3> QED BY <1>3, <2>3, <3>8, <3>9, LogTwo
  <2>12. s.pid = L[m].pid /\ s.first <= L[lo + i].base BY <1>2, <2>4, <2>5, <2>9
  <2> QED BY <2>10, <2>11, <2>12 DEF Inside
<1>6. ASSUME Inside(L, lo, Spans(L, lo, n, from, v), L[m].pid, i)
      PROVE  v = "CommittedOnly" /\ L[m].aborted
  <2>1. PICK s \in Spans(L, lo, n, from, v) :
          /\ s.pid = L[m].pid /\ s.first <= L[lo + i].base
          /\ \A k \in 1..i : L[lo + k].control /\ L[lo + k].pid = L[m].pid => L[lo + k].base < s.first
    BY <1>6 DEF Inside
  <2>2. v = "CommittedOnly" /\ s \in AbortedTransactions(L, Part(L, lo, n), from) BY <2>1 DEF Spans
  <2>3. PICK c \in DOMAIN L : s.pid = L[c].pid /\ s.first = L[c].base /\ IsSpan(L, lo, n, from, c)
    BY <2>2, SpansOf
  <2>4. /\ L[c].tx # 0 /\ L[c].aborted /\ ~L[c].control /\ L[c].pid = L[m].pid
        /\ \A d \in DOMAIN L : L[d].tx = L[c].tx /\ L[d].control => L[d].last >= from
    BY <2>1, <2>3 DEF IsSpan
  <2>5. c <= m /\ c \in Nat BY <1>1, <1>2, <1>3, <2>1, <2>3, BatchOrder
  <2>6. CASE c = m BY <2>2, <2>4, <2>6
  <2>7. CASE c < m
    <3>1. CASE L[c].tx = L[m].tx BY <1>3, <2>2, <2>4, <2>7, <3>1, LogTwo
    <3>2. CASE L[c].tx # L[m].tx
      <4>1. PICK x \in c..(m - 1) : L[x].tx = L[c].tx /\ L[x].control BY <1>3, <2>4, <2>7, <3>2, LogTwo
      <4>2. x \in DOMAIN L /\ x \in Nat /\ x < m /\ c <= x BY <1>1, <1>3, <2>5, <4>1
      <4>3. L[x].last >= from /\ L[c].base <= L[x].base BY <2>4, <4>1, <4>2, BatchOrder
      <4>4. L[x].last \in Nat /\ L[x].base \in Nat /\ L[c].base \in Nat BY <4>2, LogOne
      <4>5. ~(x \in 1..lo) BY <1>1, <4>3, <4>4
      <4>6. x - lo \in 1..i /\ lo + (x - lo) = x BY <1>1, <1>2, <4>2, <4>5
      <4>7. L[x].pid = L[m].pid
        <5>1. CASE c = x BY <2>4, <5>1
        <5>2. CASE c < x BY <2>4, <4>1, <4>2, <5>2, LogTwo
        <5> QED BY <2>5, <4>2, <5>1, <5>2
      <4>8. L[x].base < s.first BY <2>1, <4>1, <4>6, <4>7
      <4> QED BY <2>3, <4>3, <4>4, <4>8
    <3> QED BY <3>1, <3>2
  <2> QED BY <1>3, <2>5, <2>6, <2>7
<1> QED BY <1>2, <1>5, <1>6

(* One turn of decode_partition, field by field.                           *)
AccShape(acc) ==
  DOMAIN acc = {"outcomes", "control", "hidden", "broken", "spans", "producers"}
Oks(b) == [i \in DOMAIN Ascending(b.offs) |-> Ok(Ascending(b.offs)[i])]
Hidden(acc, b) == b.tx # 0 /\ b.pid \in hiding(acc, b)

LEMMA TurnBroken ==
  ASSUME NEW acc, NEW b, acc.broken
  PROVE  DecodeBatch(acc, b) = acc
BY DEF DecodeBatch

LEMMA TurnHeader ==
  ASSUME NEW acc, AccShape(acc), NEW b, ~acc.broken, b.health = "header"
  PROVE  LET d == DecodeBatch(acc, b)
         IN /\ AccShape(d) /\ d.broken
            /\ d.outcomes = Append(acc.outcomes, Malformed(b.base, Unknown))
BY DEF DecodeBatch, AccShape

LEMMA TurnOther ==
  ASSUME NEW acc, AccShape(acc), NEW b, ~acc.broken, b.health # "header"
  PROVE  LET d == DecodeBatch(acc, b)
         IN /\ AccShape(d) /\ ~d.broken
            /\ d.spans = {s \in acc.spans : s.first > b.base}
            /\ d.producers = IF b.control THEN hiding(acc, b) \ {b.pid} ELSE hiding(acc, b)
            /\ d.outcomes = IF b.control \/ Hidden(acc, b) THEN acc.outcomes
                            ELSE IF b.health = "corrupt"
                            THEN Append(acc.outcomes, Malformed(b.base, b.last))
                            ELSE acc.outcomes \o Oks(b)
<1> DEFINE now == [acc EXCEPT !.spans = {s \in acc.spans : s.first > b.base},
                              !.producers = hiding(acc, b)]
<1>1. /\ DOMAIN now = DOMAIN acc /\ now.spans = {s \in acc.spans : s.first > b.base}
      /\ now.producers = hiding(acc, b) /\ now.outcomes = acc.outcomes /\ now.broken = acc.broken
  BY DEF AccShape
<1>2. DecodeBatch(acc, b) =
        IF b.control THEN [now EXCEPT !.control = @ + 1, !.producers = @ \ {b.pid}]
        ELSE IF Hidden(acc, b) THEN [now EXCEPT !.hidden = @ + (b.last - b.base + 1)]
        ELSE IF b.health = "corrupt"
        THEN [now EXCEPT !.outcomes = Append(@, Malformed(b.base, b.last))]
        ELSE [now EXCEPT !.outcomes = @ \o Oks(b)]
  BY <1>1 DEF DecodeBatch, Hidden, Oks
<1> HIDE DEF now
<1>3. CASE b.control BY <1>1, <1>2, <1>3 DEF AccShape
<1>4. CASE ~b.control /\ Hidden(acc, b) BY <1>1, <1>2, <1>4 DEF AccShape
<1>5. CASE ~b.control /\ ~Hidden(acc, b) /\ b.health = "corrupt" BY <1>1, <1>2, <1>5 DEF AccShape
<1>6. CASE ~b.control /\ ~Hidden(acc, b) /\ b.health # "corrupt" BY <1>1, <1>2, <1>6 DEF AccShape
<1> QED BY <1>3, <1>4, <1>5, <1>6

-----------------------------------------------------------------------------
(* What the outcomes of the first batches of an answer are.                *)
Outcome == [ok : BOOLEAN, offset : Nat, last : Int]
Seen(b, v) == ~b.control /\ b.health = "ok" /\ ~(v = "CommittedOnly" /\ b.aborted)
From(x, b, v) ==
  /\ x.offset \in b.base..b.last
  /\ x.ok => x.last = x.offset /\ x.offset \in b.offs /\ Seen(b, v)
  /\ ~x.ok => x.offset = b.base /\ x.last \in {Unknown, b.last} /\ b.health # "ok"

Rising(outs) == \A j, k \in DOMAIN outs : j < k => outs[j].offset < outs[k].offset
OutInv(L, lo, v, outs, i) ==
  /\ outs \in Seq(Outcome) /\ Rising(outs)
  /\ \A k \in DOMAIN outs : \E m \in 1..i : From(outs[k], L[lo + m], v)
Has(outs, o) == \E k \in DOMAIN outs : outs[k].ok /\ outs[k].offset = o
Complete(L, lo, v, outs, broken, i) ==
  \A m \in 1..i : Seen(L[lo + m], v) => \A o \in L[lo + m].offs :
    Has(outs, o) \/ (broken /\ \A k \in DOMAIN outs : outs[k].offset < o)

(* All that came before a batch lies before it.                            *)
LEMMA OutBefore ==
  ASSUME NEW L, IsLog(L), NEW lo \in Nat, NEW v, NEW outs, NEW i \in Nat, lo + i + 1 <= Len(L),
         OutInv(L, lo, v, outs, i)
  PROVE  \A k \in DOMAIN outs : outs[k].offset < L[lo + (i + 1)].base
<1> SUFFICES ASSUME NEW k \in DOMAIN outs
             PROVE  outs[k].offset < L[lo + (i + 1)].base
  OBVIOUS
<1>1. PICK m \in 1..i : From(outs[k], L[lo + m], v) BY DEF OutInv
<1>2. PICK x, y : x = lo + m /\ y = lo + (i + 1) OBVIOUS
<1>3. Len(L) \in Nat /\ DOMAIN L = 1..Len(L) BY DEF IsLog
<1>4. x \in DOMAIN L /\ y \in DOMAIN L /\ x < y BY <1>2, <1>3
<1>5. L[x].last < L[y].base BY <1>4, LogTwo
<1>6. L[x].last \in Nat /\ L[x].base \in Nat /\ L[y].base \in Nat BY <1>4, LogOne
<1>7. outs[k].offset \in L[x].base..L[x].last BY <1>1, <1>2 DEF From
<1> QED BY <1>2, <1>5, <1>6, <1>7

(* A batch adds outcomes of its own, in order.                             *)
LEMMA OutGrows ==
  ASSUME NEW L, IsLog(L), NEW lo \in Nat, NEW v, NEW outs, NEW i \in Nat, lo + i + 1 <= Len(L),
         OutInv(L, lo, v, outs, i), NEW e \in Seq(Outcome), Rising(e),
         \A k \in DOMAIN e : From(e[k], L[lo + (i + 1)], v)
  PROVE  /\ OutInv(L, lo, v, outs \o e, i + 1)
         /\ \A o : Has(outs, o) \/ Has(e, o) => Has(outs \o e, o)
<1> DEFINE all == outs \o e
           b == L[lo + (i + 1)]
<1>1. /\ outs \in Seq(Outcome) /\ Rising(outs)
      /\ \A k \in DOMAIN outs : \E m \in 1..i : From(outs[k], L[lo + m], v)
  BY DEF OutInv
<1>2. /\ all \in Seq(Outcome) /\ Len(all) = Len(outs) + Len(e)
      /\ Len(outs) \in Nat /\ Len(e) \in Nat /\ Len(all) \in Nat
      /\ DOMAIN outs = 1..Len(outs) /\ DOMAIN e = 1..Len(e) /\ DOMAIN all = 1..Len(all)
  BY <1>1
<1>3. /\ \A k \in DOMAIN outs : k \in DOMAIN all /\ all[k] = outs[k]
      /\ \A k \in DOMAIN e : Len(outs) + k \in DOMAIN all /\ all[Len(outs) + k] = e[k]
      /\ \A k \in DOMAIN all : k \in DOMAIN outs \/ (k - Len(outs) \in DOMAIN e /\ all[k] = e[k - Len(outs)])
  BY <1>1, <1>2
<1>4. \A k \in DOMAIN outs : outs[k].offset < b.base BY OutBefore
<1>5. b.base \in Nat
  <2>1. lo + (i + 1) \in DOMAIN L
    <3>1. Len(L) \in Nat /\ DOMAIN L = 1..Len(L) BY DEF IsLog
    <3> QED BY <3>1
  <2> QED BY <2>1, LogOne
<1>6. /\ \A k \in DOMAIN outs : outs[k].offset \in Nat
      /\ \A k \in DOMAIN e : e[k].offset \in Nat /\ b.base <= e[k].offset
  <2>1. \A k \in DOMAIN outs : outs[k] \in Outcome BY <1>1
  <2>2. \A k \in DOMAIN e : e[k] \in Outcome OBVIOUS
  <2> QED BY <1>5, <2>1, <2>2 DEF From, Outcome
<1> HIDE DEF all, b
<1>7. Rising(all)
  <2> SUFFICES ASSUME NEW j \in DOMAIN all, NEW k \in DOMAIN all, j < k
               PROVE  all[j].offset < all[k].offset
    BY DEF Rising
  <2>1. CASE k \in DOMAIN outs
    <3>1. j \in DOMAIN outs BY <1>2, <2>1
    <3> QED BY <1>1, <1>3, <2>1, <3>1 DEF Rising
  <2>2. CASE k \notin DOMAIN outs
    <3>1. PICK n \in DOMAIN e : n = k - Len(outs) /\ all[k] = e[n] BY <1>3, <2>2
    <3>2. CASE j \in DOMAIN outs BY <1>3, <1>4, <1>5, <1>6, <3>1, <3>2
    <3>3. CASE j \notin DOMAIN outs
      <4>1. PICK m \in DOMAIN e : m = j - Len(outs) /\ all[j] = e[m] BY <1>3, <3>3
      <4>2. m < n BY <1>2, <3>1, <4>1
      <4> QED BY <3>1, <4>1, <4>2 DEF Rising
    <3> QED BY <3>2, <3>3
  <2> QED BY <2>1, <2>2
<1>8. ASSUME NEW k \in DOMAIN all
      PROVE  \E m \in 1..(i + 1) : From(all[k], L[lo + m], v)
  <2>1. CASE k \in DOMAIN outs
    <3>1. PICK m \in 1..i : From(outs[k], L[lo + m], v) BY <1>1, <2>1
    <3>2. m \in 1..(i + 1) OBVIOUS
    <3> QED BY <1>3, <2>1, <3>1, <3>2
  <2>2. CASE k \notin DOMAIN outs
    <3>1. PICK n \in DOMAIN e : all[k] = e[n] BY <1>3, <2>2
    <3>2. i + 1 \in 1..(i + 1) OBVIOUS
    <3> QED BY <3>1, <3>2
  <2> QED BY <2>1, <2>2
<1>9. OutInv(L, lo, v, all, i + 1) BY <1>2, <1>7, <1>8 DEF OutInv
<1>10. \A o : Has(outs, o) \/ Has(e, o) => Has(all, o) BY <1>3 DEF Has
<1> QED BY <1>9, <1>10 DEF all

(* Which spans are still ahead of the walk, and which it is in.            *)
HideInv(L, lo, S, acc, i) ==
  ~acc.broken =>
    /\ acc.spans = {s \in S : i = 0 \/ s.first > L[lo + i].base}
    /\ \A pid : pid \in acc.producers <=> i # 0 /\ Inside(L, lo, S, pid, i)

(* Some span of pid has begun by the next batch, and none of its markers   *)
(* came since.                                                             *)
Reached(L, lo, S, pid, i) ==
  \E s \in S : /\ s.pid = pid /\ s.first <= L[lo + (i + 1)].base
               /\ \A k \in 1..i : L[lo + k].control /\ L[lo + k].pid = pid => L[lo + k].base < s.first

LEMMA HidingInside ==
  ASSUME NEW L, IsLog(L), NEW lo \in Nat, NEW S, \A s \in S : s.first \in Int,
         NEW i \in Nat, lo + i + 1 <= Len(L), NEW acc, ~acc.broken, HideInv(L, lo, S, acc, i)
  PROVE  \A pid : pid \in hiding(acc, L[lo + (i + 1)]) <=> Reached(L, lo, S, pid, i)
<1> DEFINE b == L[lo + (i + 1)]
           free(s, pid) == \A k \in 1..i : L[lo + k].control /\ L[lo + k].pid = pid => L[lo + k].base < s.first
<1>1. Len(L) \in Nat /\ DOMAIN L = 1..Len(L) BY DEF IsLog
<1>2. lo + (i + 1) \in DOMAIN L BY <1>1
<1>3. \A k \in 1..i : /\ lo + k \in DOMAIN L /\ L[lo + k].base \in Nat /\ L[lo + k].base < b.base
                      /\ L[lo + k].base <= L[lo + i].base
  <2> SUFFICES ASSUME NEW k \in 1..i
               PROVE  /\ lo + k \in DOMAIN L /\ L[lo + k].base \in Nat /\ L[lo + k].base < b.base
                      /\ L[lo + k].base <= L[lo + i].base
    OBVIOUS
  <2>1. PICK x, y, z : x = lo + k /\ y = lo + i /\ z = lo + (i + 1) OBVIOUS
  <2>2. x \in DOMAIN L /\ y \in DOMAIN L /\ z \in DOMAIN L /\ x <= y /\ x < z BY <1>1, <2>1
  <2>3. L[x].base <= L[y].base /\ L[x].last < L[z].base BY <2>2, BatchOrder, LogTwo
  <2>4. L[x].base \in Nat /\ L[x].last \in Nat /\ L[x].base <= L[x].last /\ L[z].base \in Nat BY <2>2, LogOne
  <2>5. L[x].base < L[z].base BY <2>3, <2>4
  <2> QED BY <2>1, <2>2, <2>3, <2>4, <2>5
<1>4. b.base \in Nat BY <1>2, LogOne
<1>5. /\ acc.spans = {s \in S : i = 0 \/ s.first > L[lo + i].base}
      /\ \A pid : pid \in acc.producers <=> i # 0 /\ Inside(L, lo, S, pid, i)
  BY DEF HideInv
<1>6. i # 0 => L[lo + i].base \in Nat /\ L[lo + i].base < b.base
  <2>1. i # 0 => i \in 1..i OBVIOUS
  <2> QED BY <1>3, <2>1
<1> HIDE DEF b
<1>7. ASSUME NEW pid, pid \in hiding(acc, b)
      PROVE  \E s \in S : s.pid = pid /\ s.first <= b.base /\ free(s, pid)
  <2>1. CASE pid \in acc.producers
    <3>1. PICK s \in S : i # 0 /\ s.pid = pid /\ s.first <= L[lo + i].base /\ free(s, pid)
      BY <1>5, <2>1 DEF Inside
    <3> QED BY <1>4, <1>6, <3>1
  <2>2. CASE \E s \in acc.spans : s.first <= b.base /\ s.pid = pid
    <3>1. PICK s \in S : (i = 0 \/ s.first > L[lo + i].base) /\ s.first <= b.base /\ s.pid = pid BY <1>5, <2>2
    <3>2. ASSUME NEW k \in 1..i
          PROVE  L[lo + k].base < s.first
      <4>1. i # 0 /\ s.first > L[lo + i].base /\ s.first \in Int BY <3>1
      <4>2. L[lo + k].base \in Nat /\ L[lo + k].base <= L[lo + i].base /\ L[lo + i].base \in Nat
        BY <1>3, <1>6, <4>1
      <4> QED BY <4>1, <4>2
    <3> QED BY <3>1, <3>2
  <2> QED BY <1>7, <2>1, <2>2 DEF hiding
<1>8. ASSUME NEW pid, NEW s \in S, s.pid = pid, s.first <= b.base, free(s, pid)
      PROVE  pid \in hiding(acc, b)
  <2>1. CASE i # 0 /\ s.first <= L[lo + i].base
    <3>1. pid \in acc.producers BY <1>5, <1>8, <2>1 DEF Inside
    <3> QED BY <3>1 DEF hiding
  <2>2. CASE i = 0 \/ s.first > L[lo + i].base
    <3>1. s \in acc.spans BY <1>5, <2>2
    <3> QED BY <1>8, <3>1 DEF hiding
  <2> QED BY <1>6, <2>1, <2>2
<1> QED BY <1>7, <1>8 DEF b, Reached

LEMMA HideStep ==
  ASSUME NEW L, IsLog(L), NEW lo \in Nat, NEW S, \A s \in S : s.first \in Int,
         NEW i \in Nat, lo + i + 1 <= Len(L), NEW acc, AccShape(acc), HideInv(L, lo, S, acc, i)
  PROVE  HideInv(L, lo, S, DecodeBatch(acc, L[lo + (i + 1)]), i + 1)
<1> DEFINE b == L[lo + (i + 1)]
           d == DecodeBatch(acc, b)
<1>1. CASE acc.broken BY <1>1, TurnBroken DEF HideInv
<1>2. CASE ~acc.broken /\ b.health = "header" BY <1>2, TurnHeader DEF HideInv
<1>3. CASE ~acc.broken /\ b.health # "header"
  <2>1. /\ ~d.broken /\ d.spans = {s \in acc.spans : s.first > b.base}
        /\ d.producers = IF b.control THEN hiding(acc, b) \ {b.pid} ELSE hiding(acc, b)
    BY <1>3, TurnOther
  <2>2. \A pid : pid \in hiding(acc, b) <=> Reached(L, lo, S, pid, i) BY <1>3, HidingInside
  <2>3. Len(L) \in Nat /\ DOMAIN L = 1..Len(L) /\ lo + (i + 1) \in DOMAIN L
    <3>1. Len(L) \in Nat /\ DOMAIN L = 1..Len(L) BY DEF IsLog
    <3> QED BY <3>1
  <2>4. b.base \in Nat /\ b.control \in BOOLEAN BY <2>3, LogOne
  <2>5. acc.spans = {s \in S : i = 0 \/ s.first > L[lo + i].base} BY <1>3 DEF HideInv
  <2>6. i # 0 => L[lo + i].base \in Nat /\ L[lo + i].base <= b.base
    <3> SUFFICES ASSUME i # 0 PROVE L[lo + i].base \in Nat /\ L[lo + i].base <= b.base OBVIOUS
    <3>1. PICK x, y : x = lo + i /\ y = lo + (i + 1) OBVIOUS
    <3>2. x \in DOMAIN L /\ y \in DOMAIN L /\ x <= y BY <2>3, <3>1
    <3> QED BY <3>1, <3>2, LogOne, BatchOrder
  <2> HIDE DEF d
  <2>7. d.spans = {s \in S : i + 1 = 0 \/ s.first > b.base}
    <3>1. \A s \in S : s.first > b.base => i = 0 \/ s.first > L[lo + i].base BY <2>4, <2>6
    <3> QED BY <2>1, <2>5, <3>1
  <2>8. ASSUME NEW pid
        PROVE  pid \in d.producers <=> Inside(L, lo, S, pid, i + 1)
    <3>1. 1..(i + 1) = (1..i) \cup {i + 1} OBVIOUS
    <3>2. ~(b.control /\ b.pid = pid) => (Inside(L, lo, S, pid, i + 1) <=> Reached(L, lo, S, pid, i))
      BY <3>1 DEF Inside, Reached
    <3>3. b.control /\ b.pid = pid => ~Inside(L, lo, S, pid, i + 1)
      <4>1. \A s \in S : s.first <= b.base => ~(b.base < s.first) BY <2>4
      <4>2. i + 1 \in 1..(i + 1) OBVIOUS
      <4> QED BY <4>1, <4>2 DEF Inside
    <3> QED BY <2>1, <2>2, <3>2, <3>3
  <2>9. i + 1 # 0 OBVIOUS
  <2> QED BY <2>7, <2>8, <2>9 DEF HideInv, d, b
<1> QED BY <1>1, <1>2, <1>3

(* The inductive invariant of the loop.                                    *)
(* A batch without a header ends the walk, and is its last outcome.        *)
EndsBroken(outs) == outs # <<>> /\ ~outs[Len(outs)].ok

DecodeInv(L, lo, S, v, acc, i) ==
  /\ acc.broken => EndsBroken(acc.outcomes)
  /\ AccShape(acc) /\ OutInv(L, lo, v, acc.outcomes, i)
  /\ Complete(L, lo, v, acc.outcomes, acc.broken, i) /\ HideInv(L, lo, S, acc, i)

LEMMA OksFacts ==
  ASSUME NEW L, IsLog(L), NEW m \in DOMAIN L, NEW v, Seen(L[m], v)
  PROVE  /\ Oks(L[m]) \in Seq(Outcome) /\ Rising(Oks(L[m]))
         /\ \A k \in DOMAIN Oks(L[m]) : From(Oks(L[m])[k], L[m], v)
         /\ \A o \in L[m].offs : Has(Oks(L[m]), o)
<1> DEFINE b == L[m]
           s == Ascending(b.offs)
           e == Oks(b)
<1>1. b.last \in Nat /\ b.base \in Nat /\ b.offs \subseteq b.base..b.last BY LogOne
<1>2. b.offs \in SUBSET (0..b.last) BY <1>1
<1>3. s \in Seq(b.offs) /\ Sorted(s) /\ \A x \in b.offs : \E i \in DOMAIN s : s[i] = x
  BY <1>1, <1>2, AscendingFacts
<1>4. e = [i \in DOMAIN s |-> Ok(s[i])] BY DEF Oks
<1> HIDE DEF s, e, b
<1>5. /\ DOMAIN e = DOMAIN s /\ DOMAIN s = 1..Len(s) /\ Len(s) \in Nat
      /\ \A i \in DOMAIN s : s[i] \in b.offs
  BY <1>3, <1>4
<1>6. \A i \in DOMAIN s : e[i].ok = TRUE /\ e[i].offset = s[i] /\ e[i].last = s[i] /\ e[i] \in Outcome
  <2>1. \A i \in DOMAIN s : s[i] \in Nat /\ s[i] \in Int BY <1>1, <1>5
  <2> QED BY <1>4, <2>1 DEF Ok, Outcome
<1>7. e \in Seq(Outcome) BY <1>4, <1>5, <1>6
<1>8. Rising(e) BY <1>3, <1>5, <1>6 DEF Rising, Sorted
<1>9. \A k \in DOMAIN e : From(e[k], b, v) BY <1>1, <1>5, <1>6 DEF From, b
<1>10. \A o \in b.offs : Has(e, o) BY <1>3, <1>5, <1>6 DEF Has
<1> QED BY <1>7, <1>8, <1>9, <1>10 DEF e, b

LEMMA SpanStarts ==
  ASSUME NEW L, IsLog(L), NEW lo, NEW n, NEW from, NEW v
  PROVE  \A s \in Spans(L, lo, n, from, v) : s.first \in Int
<1> SUFFICES ASSUME NEW s \in Spans(L, lo, n, from, v)
             PROVE  s.first \in Int
  OBVIOUS
<1>1. s \in AbortedTransactions(L, Part(L, lo, n), from) BY DEF Spans
<1>2. PICK c \in DOMAIN L : s.first = L[c].base BY <1>1, SpansOf
<1>3. L[c].base \in Nat BY LogOne
<1> QED BY <1>2, <1>3

(* What the decoder hides of a batch that is no marker.                    *)
LEMMA HiddenIs ==
  ASSUME NEW L, IsLog(L), NEW lo, NEW n, NEW from \in Int, NEW stable \in Int, NEW v,
         Stretch(L, lo, n, from, stable), NEW i \in Nat, i + 1 <= n, NEW acc, ~acc.broken,
         HideInv(L, lo, Spans(L, lo, n, from, v), acc, i), ~L[lo + (i + 1)].control
  PROVE  Hidden(acc, L[lo + (i + 1)]) <=> (v = "CommittedOnly" /\ L[lo + (i + 1)].aborted)
<1> DEFINE S == Spans(L, lo, n, from, v)
           b == L[lo + (i + 1)]
<1>1. /\ lo \in Nat /\ n \in Nat /\ lo + n <= Len(L) /\ Len(L) \in Nat
      /\ DOMAIN L = 1..Len(L)
  BY DEF Stretch, IsLog
<1>2. lo + (i + 1) \in DOMAIN L /\ lo + i + 1 <= Len(L) /\ i + 1 \in 1..n BY <1>1
<1>3. \A s \in S : s.first \in Int BY SpanStarts
<1>4. \A pid : pid \in hiding(acc, b) <=> Reached(L, lo, S, pid, i)
  <2> HIDE DEF S
  <2> QED BY <1>1, <1>2, <1>3, HidingInside DEF S
<1>5. Inside(L, lo, S, b.pid, i + 1) <=> Reached(L, lo, S, b.pid, i)
  <2>1. 1..(i + 1) = (1..i) \cup {i + 1} OBVIOUS
  <2> QED BY <2>1 DEF Inside, Reached
<1>6. b.tx # 0 => (Inside(L, lo, S, b.pid, i + 1) <=> (v = "CommittedOnly" /\ b.aborted)) BY <1>2, HiddenRight
<1>7. b.tx = 0 => ~b.aborted BY <1>2, LogOne
<1> HIDE DEF S, b
<1>8. Hidden(acc, b) <=> (v = "CommittedOnly" /\ b.aborted) BY <1>4, <1>5, <1>6, <1>7 DEF Hidden
<1> QED BY <1>8 DEF b

(* A batch that adds nothing.                                              *)
LEMMA OutStays ==
  ASSUME NEW L, NEW lo \in Nat, NEW v, NEW outs, NEW i \in Nat, OutInv(L, lo, v, outs, i)
  PROVE  OutInv(L, lo, v, outs, i + 1)
<1>1. \A m \in 1..i : m \in 1..(i + 1) OBVIOUS
<1> QED BY <1>1 DEF OutInv

LEMMA CompleteStays ==
  ASSUME NEW L, NEW lo \in Nat, NEW v, NEW outs, NEW i \in Nat, NEW more, NEW br,
         Complete(L, lo, v, outs, FALSE, i),
         \A o : Has(outs, o) => Has(more, o),
         Seen(L[lo + (i + 1)], v) => \A o \in L[lo + (i + 1)].offs : Has(more, o)
  PROVE  Complete(L, lo, v, more, br, i + 1)
<1>1. \A m \in 1..(i + 1) : m \in 1..i \/ m = i + 1 OBVIOUS
<1> QED BY <1>1 DEF Complete

LEMMA OneOutcome ==
  ASSUME NEW x \in Outcome, NEW outs \in Seq(Outcome)
  PROVE  /\ <<x>> \in Seq(Outcome) /\ Rising(<<x>>) /\ Append(outs, x) = outs \o <<x>>
         /\ DOMAIN <<x>> = {1} /\ <<x>>[1] = x
BY DEF Rising

LEMMA DecodeStep ==
  ASSUME NEW L, IsLog(L), NEW lo, NEW n, NEW from \in Int, NEW stable \in Int, NEW v,
         Stretch(L, lo, n, from, stable), NEW i \in Nat, i + 1 <= n, NEW acc,
         DecodeInv(L, lo, Spans(L, lo, n, from, v), v, acc, i)
  PROVE  DecodeInv(L, lo, Spans(L, lo, n, from, v), v, DecodeBatch(acc, L[lo + (i + 1)]), i + 1)
<1> DEFINE S == Spans(L, lo, n, from, v)
           m == lo + (i + 1)
           b == L[m]
           d == DecodeBatch(acc, b)
<1>1. /\ lo \in Nat /\ n \in Nat /\ lo + n <= Len(L) /\ Len(L) \in Nat
      /\ DOMAIN L = 1..Len(L)
  BY DEF Stretch, IsLog
<1>2. m \in DOMAIN L /\ lo + i + 1 <= Len(L) BY <1>1
<1>3. \A s \in S : s.first \in Int BY SpanStarts
<1>4. /\ AccShape(acc) /\ OutInv(L, lo, v, acc.outcomes, i)
      /\ Complete(L, lo, v, acc.outcomes, acc.broken, i) /\ HideInv(L, lo, S, acc, i)
      /\ acc.broken => EndsBroken(acc.outcomes)
  BY DEF DecodeInv
<1>5. HideInv(L, lo, S, d, i + 1)
  <2> HIDE DEF S
  <2> QED BY <1>1, <1>2, <1>3, <1>4, HideStep
<1>9. OutInv(L, lo, v, acc.outcomes, i) BY <1>4
<1>6. acc.outcomes \in Seq(Outcome) BY <1>4 DEF OutInv
<1>7. /\ b.base \in Nat /\ b.last \in Nat /\ b.base <= b.last /\ b.control \in BOOLEAN
      /\ b.health \in {"ok", "corrupt", "header"}
  BY <1>2, LogOne
<1>10. ASSUME NEW e \in Seq(Outcome), Rising(e), \A k \in DOMAIN e : From(e[k], b, v)
       PROVE  /\ OutInv(L, lo, v, acc.outcomes \o e, i + 1)
              /\ \A o : Has(acc.outcomes, o) \/ Has(e, o) => Has(acc.outcomes \o e, o)
  <2>1. PICK outs : outs = acc.outcomes OBVIOUS
  <2>2. lo \in Nat /\ lo + i + 1 <= Len(L) /\ OutInv(L, lo, v, outs, i) BY <1>1, <1>2, <1>9, <2>1
  <2>3. \A k \in DOMAIN e : From(e[k], L[lo + (i + 1)], v) BY <1>10
  <2>4. /\ OutInv(L, lo, v, outs \o e, i + 1)
        /\ \A o : Has(outs, o) \/ Has(e, o) => Has(outs \o e, o)
    BY <1>10, <2>2, <2>3, OutGrows
  <2> QED BY <2>1, <2>4
<1>8. /\ AccShape(d) /\ OutInv(L, lo, v, d.outcomes, i + 1) /\ Complete(L, lo, v, d.outcomes, d.broken, i + 1)
      /\ d.broken => EndsBroken(d.outcomes)
  <2>1. CASE acc.broken
    <3>1. d = acc BY <2>1, TurnBroken
    <3>2. OutInv(L, lo, v, acc.outcomes, i + 1) BY <1>1, <1>4, OutStays
    <3>3. Complete(L, lo, v, acc.outcomes, acc.broken, i + 1)
      <4>1. \A k \in DOMAIN acc.outcomes : acc.outcomes[k].offset < b.base BY <1>1, <1>2, <1>4, OutBefore
      <4>2. \A k \in DOMAIN acc.outcomes : acc.outcomes[k].offset \in Nat
        <5>1. \A k \in DOMAIN acc.outcomes : acc.outcomes[k] \in Outcome BY <1>6
        <5> QED BY <5>1 DEF Outcome
      <4>3. \A o \in b.offs : \A k \in DOMAIN acc.outcomes : acc.outcomes[k].offset < o
        <5>1. \A o \in b.offs : o \in Nat /\ b.base <= o BY <1>2, <1>7, LogOne
        <5> QED BY <1>7, <4>1, <4>2, <5>1
      <4>4. \A q \in 1..(i + 1) : q \in 1..i \/ q = i + 1 OBVIOUS
      <4> QED BY <1>4, <2>1, <4>3, <4>4 DEF Complete
    <3> QED BY <1>4, <3>1, <3>2, <3>3
  <2>2. CASE ~acc.broken /\ b.health = "header"
    <3> DEFINE x == Malformed(b.base, Unknown)
    <3>1. AccShape(d) /\ d.broken /\ d.outcomes = Append(acc.outcomes, x) BY <1>4, <2>2, TurnHeader
    <3>2. x \in Outcome /\ ~x.ok /\ x.offset = b.base /\ x.last = Unknown
      BY <1>7 DEF Malformed, Unknown, Outcome
    <3>3. From(x, b, v) BY <1>7, <2>2, <3>2 DEF From
    <3> HIDE DEF x
    <3>4. /\ <<x>> \in Seq(Outcome) /\ Rising(<<x>>) /\ d.outcomes = acc.outcomes \o <<x>>
          /\ DOMAIN <<x>> = {1} /\ <<x>>[1] = x
      BY <1>6, <3>1, <3>2, OneOutcome
    <3>5. /\ OutInv(L, lo, v, d.outcomes, i + 1)
          /\ \A o : Has(acc.outcomes, o) => Has(d.outcomes, o)
      <4>1. PICK e : e = <<x>> OBVIOUS
      <4>2. /\ e \in Seq(Outcome) /\ Rising(e) /\ d.outcomes = acc.outcomes \o e
            /\ \A k \in DOMAIN e : From(e[k], b, v)
        BY <3>3, <3>4, <4>1
      <4>3. /\ OutInv(L, lo, v, acc.outcomes \o e, i + 1)
            /\ \A o : Has(acc.outcomes, o) \/ Has(e, o) => Has(acc.outcomes \o e, o)
        BY <1>10, <4>2
      <4> HIDE DEF d
      <4> QED BY <4>2, <4>3
    <3>6. ~Seen(b, v) BY <2>2 DEF Seen
    <3>7. Complete(L, lo, v, acc.outcomes, FALSE, i) BY <1>4, <2>2 DEF Complete
    <3>9. EndsBroken(d.outcomes)
      <4>1. /\ Len(d.outcomes) = Len(acc.outcomes) + 1 /\ d.outcomes[Len(acc.outcomes) + 1] = x
            /\ d.outcomes # <<>>
        BY <1>6, <3>1
      <4> QED BY <3>2, <4>1 DEF EndsBroken
    <3>8. Complete(L, lo, v, d.outcomes, d.broken, i + 1) BY <1>1, <3>5, <3>6, <3>7, CompleteStays
    <3> QED BY <3>1, <3>5, <3>8, <3>9
  <2>3. CASE ~acc.broken /\ b.health # "header"
    <3>1. /\ AccShape(d) /\ ~d.broken
          /\ d.outcomes = IF b.control \/ Hidden(acc, b) THEN acc.outcomes
                          ELSE IF b.health = "corrupt"
                          THEN Append(acc.outcomes, Malformed(b.base, b.last))
                          ELSE acc.outcomes \o Oks(b)
      BY <1>4, <2>3, TurnOther
    <3>2. ~b.control => (Hidden(acc, b) <=> (v = "CommittedOnly" /\ b.aborted)) BY <1>4, <2>3, HiddenIs
    <3>3. Complete(L, lo, v, acc.outcomes, FALSE, i) BY <1>4, <2>3 DEF Complete
    <3>4. CASE b.control \/ Hidden(acc, b)
      <4>1. d.outcomes = acc.outcomes /\ ~Seen(b, v) BY <3>1, <3>2, <3>4 DEF Seen
      <4>2. OutInv(L, lo, v, d.outcomes, i + 1) BY <1>1, <1>4, <4>1, OutStays
      <4>3. Complete(L, lo, v, d.outcomes, d.broken, i + 1) BY <1>1, <3>3, <4>1, CompleteStays
      <4> QED BY <3>1, <4>2, <4>3
    <3>5. CASE ~(b.control \/ Hidden(acc, b)) /\ b.health = "corrupt"
      <4> DEFINE x == Malformed(b.base, b.last)
      <4>1. d.outcomes = Append(acc.outcomes, x) BY <3>1, <3>5
      <4>2. x \in Outcome /\ ~x.ok /\ x.offset = b.base /\ x.last = b.last BY <1>7 DEF Malformed, Outcome
      <4>3. From(x, b, v) BY <1>7, <3>5, <4>2 DEF From
      <4> HIDE DEF x
      <4>4. /\ <<x>> \in Seq(Outcome) /\ Rising(<<x>>) /\ d.outcomes = acc.outcomes \o <<x>>
            /\ DOMAIN <<x>> = {1} /\ <<x>>[1] = x
        BY <1>6, <4>1, <4>2, OneOutcome
      <4>5. /\ OutInv(L, lo, v, d.outcomes, i + 1)
            /\ \A o : Has(acc.outcomes, o) => Has(d.outcomes, o)
        <5>1. PICK e : e = <<x>> OBVIOUS
        <5>2. /\ e \in Seq(Outcome) /\ Rising(e) /\ d.outcomes = acc.outcomes \o e
              /\ \A k \in DOMAIN e : From(e[k], b, v)
          BY <4>3, <4>4, <5>1
        <5>3. /\ OutInv(L, lo, v, acc.outcomes \o e, i + 1)
              /\ \A o : Has(acc.outcomes, o) \/ Has(e, o) => Has(acc.outcomes \o e, o)
          BY <1>10, <5>2
        <5> HIDE DEF d
        <5> QED BY <5>2, <5>3
      <4>6. ~Seen(b, v) BY <3>5 DEF Seen
      <4>7. Complete(L, lo, v, d.outcomes, d.broken, i + 1) BY <1>1, <3>3, <4>5, <4>6, CompleteStays
      <4> QED BY <3>1, <4>5, <4>7
    <3>6. CASE ~(b.control \/ Hidden(acc, b)) /\ b.health # "corrupt"
      <4>1. d.outcomes = acc.outcomes \o Oks(b) /\ Seen(b, v) BY <1>7, <2>3, <3>1, <3>2, <3>6 DEF Seen
      <4>2. /\ Oks(b) \in Seq(Outcome) /\ Rising(Oks(b))
            /\ \A k \in DOMAIN Oks(b) : From(Oks(b)[k], b, v)
            /\ \A o \in b.offs : Has(Oks(b), o)
        BY <1>2, <4>1, OksFacts
      <4>3. /\ OutInv(L, lo, v, d.outcomes, i + 1)
            /\ \A o : Has(acc.outcomes, o) \/ Has(Oks(b), o) => Has(d.outcomes, o)
        <5>1. PICK e : e = Oks(b) OBVIOUS
        <5>2. e \in Seq(Outcome) /\ Rising(e) /\ \A k \in DOMAIN e : From(e[k], b, v) BY <4>2, <5>1
        <5>3. /\ OutInv(L, lo, v, acc.outcomes \o e, i + 1)
              /\ \A o : Has(acc.outcomes, o) \/ Has(e, o) => Has(acc.outcomes \o e, o)
          BY <1>10, <5>2
        <5> HIDE DEF d
        <5> QED BY <4>1, <5>1, <5>3
      <4>4. Complete(L, lo, v, d.outcomes, d.broken, i + 1) BY <1>1, <3>3, <4>2, <4>3, CompleteStays
      <4> QED BY <3>1, <4>3, <4>4
    <3> QED BY <3>4, <3>5, <3>6
  <2> QED BY <2>1, <2>2, <2>3
<1> QED BY <1>5, <1>8 DEF DecodeInv

(* What decode_partition makes of an answer: outcomes of the batches sent, *)
(* in order and complete up to a batch without a header, and when there    *)
(* are none, whether anything was sent or cut off.                         *)
Decodes(L, v, answer, d, lo, n, broken) ==
  /\ OutInv(L, lo, v, d.outcomes, n) /\ Complete(L, lo, v, d.outcomes, broken, n)
  /\ broken => EndsBroken(d.outcomes)
  /\ n = 0 => d.control = 0 /\ d.hidden = 0
  /\ d.outcomes = <<>> /\ ~d.truncated => ~answer.cut

LEMMA Decoded ==
  ASSUME NEW L, IsLog(L), NEW from \in Int, NEW stable \in Int, NEW budget \in Nat, NEW v
  PROVE  \E lo, n, broken :
           /\ Sends(L, from, stable, budget, Answer(L, from, stable, budget), lo, n)
           /\ Decodes(L, v, Answer(L, from, stable, budget),
                      decode_partition(Answer(L, from, stable, budget), v), lo, n, broken)
<1> DEFINE answer == Answer(L, from, stable, budget)
           result == decode_partition(answer, v)
<1>0. PICK lo, n : Sends(L, from, stable, budget, answer, lo, n) BY AnswerFacts
<1>1. Stretch(L, lo, n, from, stable) /\ answer.sent = Part(L, lo, n) BY <1>0 DEF Sends
<1> DEFINE S == Spans(L, lo, n, from, v)
           s == Part(L, lo, n)
           base == NothingDecoded(S)
<1>2. answer.sent = s BY <1>1
<1>3. answer.aborted = AbortedTransactions(L, answer.sent, from) BY DEF Answer
<1> HIDE DEF answer
<1>4. /\ result.outcomes = DecodeAll(base, s).outcomes
      /\ result.control = DecodeAll(base, s).control /\ result.hidden = DecodeAll(base, s).hidden
      /\ result.truncated = (answer.cut /\ ~DecodeAll(base, s).broken)
  BY <1>2, <1>3 DEF decode_partition, Spans, DecodeAll
<1>5. n \in Nat /\ DOMAIN s = 1..n /\ lo \in Nat BY <1>1 DEF Stretch, Part
<1> HIDE DEF S, s, base, result
<1>6. PICK r : /\ r[0] = base
               /\ \A i \in 1..n : r[i] = DecodeBatch(r[i - 1], s[i])
               /\ DecodeAll(base, s) = r[n]
  BY <1>5, DecodeTurns
<1> DEFINE T == {i \in Nat : i <= n => DecodeInv(L, lo, S, v, r[i], i)}
<1>7. 0 \in T
  <2>1. /\ AccShape(base) /\ base.outcomes = <<>> /\ ~base.broken /\ base.spans = S
        /\ base.producers = {}
    BY DEF base, NothingDecoded, AccShape
  <2>2. OutInv(L, lo, v, base.outcomes, 0) BY <2>1 DEF OutInv, Rising
  <2>3. Complete(L, lo, v, base.outcomes, base.broken, 0) BY DEF Complete
  <2>4. HideInv(L, lo, S, base, 0) BY <2>1 DEF HideInv
  <2> QED BY <1>6, <2>1, <2>2, <2>3, <2>4 DEF DecodeInv
<1>8. ASSUME NEW i \in Nat, i \in T
      PROVE  i + 1 \in T
  <2> SUFFICES ASSUME i + 1 <= n
               PROVE  DecodeInv(L, lo, S, v, r[i + 1], i + 1)
    OBVIOUS
  <2>1. DecodeInv(L, lo, S, v, r[i], i) BY <1>5, <1>8
  <2>2. i + 1 \in 1..n /\ (i + 1) - 1 = i BY <1>5
  <2>3. s[i + 1] = L[lo + (i + 1)] BY <2>2 DEF s, Part
  <2>4. r[i + 1] = DecodeBatch(r[i], L[lo + (i + 1)]) BY <1>6, <2>2, <2>3
  <2>5. DecodeInv(L, lo, S, v, DecodeBatch(r[i], L[lo + (i + 1)]), i + 1) BY <1>1, <2>1, DecodeStep DEF S
  <2> QED BY <2>4, <2>5
<1> HIDE DEF T
<1>9. n \in T BY <1>5, <1>7, <1>8, NatSetInduction
<1>10. DecodeInv(L, lo, S, v, r[n], n) BY <1>5, <1>9 DEF T
<1>11. /\ OutInv(L, lo, v, result.outcomes, n) /\ Complete(L, lo, v, result.outcomes, r[n].broken, n)
       /\ r[n].broken => EndsBroken(result.outcomes)
  BY <1>4, <1>6, <1>10 DEF DecodeInv
<1>12. n = 0 => result.control = 0 /\ result.hidden = 0 BY <1>4, <1>6 DEF base, NothingDecoded
<1>13. result.outcomes = <<>> /\ ~result.truncated => ~answer.cut BY <1>4, <1>6, <1>11 DEF EndsBroken
<1>14. Decodes(L, v, answer, result, lo, n, r[n].broken) BY <1>11, <1>12, <1>13 DEF Decodes
<1> QED BY <1>0, <1>14 DEF result, answer

-----------------------------------------------------------------------------
LEMMA VisibleIs ==
  ASSUME NEW L, NEW v, NEW o
  PROVE  o \in VisibleOffsets(L, v) <=> \E m \in DOMAIN L : o \in L[m].offs /\ Seen(L[m], v)
BY DEF VisibleOffsets, Seen, ToSet

LEMMA VisibleNat ==
  ASSUME NEW L, IsLog(L), NEW v, NEW o \in VisibleOffsets(L, v)
  PROVE  o \in Nat /\ o < LogEnd(L)
<1>1. PICK m \in DOMAIN L : o \in L[m].offs BY VisibleIs
<1>2. L[m].offs \subseteq L[m].base..L[m].last /\ L[m].base \in Nat /\ L[m].last \in Nat BY LogOne
<1>3. L[m].last < LogEnd(L) /\ LogEnd(L) \in Nat BY LogEndFacts
<1>4. o \in Nat /\ o <= L[m].last BY <1>1, <1>2
<1> QED BY <1>2, <1>3, <1>4

(* The first batch is deleted.                                             *)
LEMMA TailFacts ==
  ASSUME NEW L, IsLog(L), Len(L) > 1
  PROVE  LET M == Tail(L)
         IN /\ M \in Seq(BatchRecord) /\ DOMAIN M = 1..Len(M) /\ Len(M) = Len(L) - 1 /\ Len(M) \in Nat
            /\ Len(L) \in Nat /\ DOMAIN L = 1..Len(L) /\ 1 \in DOMAIN L
            /\ \A i \in DOMAIN M : i \in Nat /\ i + 1 \in DOMAIN L /\ M[i] = L[i + 1]
            /\ \A j \in DOMAIN L : j \in Nat /\ (j = 1 \/ (j - 1 \in DOMAIN M /\ M[j - 1] = L[j]))
            /\ LogEnd(M) = LogEnd(L)
            /\ Head(L) = L[1]
<1> DEFINE M == Tail(L)
<1>1. L \in Seq(BatchRecord) /\ Len(L) \in Nat /\ DOMAIN L = 1..Len(L) /\ L # <<>> BY DEF IsLog
<1>2. /\ M \in Seq(BatchRecord) /\ DOMAIN M = 1..Len(M) /\ Len(M) = Len(L) - 1
      /\ \A i \in 1..(Len(L) - 1) : M[i] = L[i + 1]
  BY <1>1
<1>3. Head(L) = L[1] BY <1>1
<1> HIDE DEF M
<1>4. /\ \A i \in DOMAIN M : i \in Nat /\ i + 1 \in DOMAIN L /\ M[i] = L[i + 1]
      /\ Len(M) \in Nat /\ 1 \in DOMAIN L /\ Len(M) # 0
  BY <1>1, <1>2
<1>5. ASSUME NEW j \in DOMAIN L
      PROVE  j \in Nat /\ (j = 1 \/ (j - 1 \in DOMAIN M /\ M[j - 1] = L[j]))
  <2>1. j \in Nat BY <1>1
  <2>2. CASE j # 1
    <3>1. j - 1 \in 1..(Len(L) - 1) BY <1>1, <2>1, <2>2
    <3>2. M[j - 1] = L[(j - 1) + 1] /\ (j - 1) + 1 = j BY <1>2, <2>1, <3>1
    <3> QED BY <1>2, <2>1, <3>1, <3>2
  <2> QED BY <2>1, <2>2
<1>6. LogEnd(M) = LogEnd(L)
  <2>1. M # <<>> /\ Len(M) \in DOMAIN M BY <1>2, <1>4
  <2>2. M[Len(M)] = L[Len(L)]
    <3>1. M[Len(M)] = L[Len(M) + 1] /\ Len(M) + 1 = Len(L) BY <1>1, <1>2, <1>4, <2>1
    <3> QED BY <3>1
  <2> QED BY <1>1, <2>1, <2>2 DEF LogEnd, Last
<1> QED BY <1>1, <1>2, <1>3, <1>4, <1>5, <1>6 DEF M

LEMMA TailIsLog ==
  ASSUME NEW L, IsLog(L), Len(L) > 1
  PROVE  IsLog(Tail(L))
<1> DEFINE M == Tail(L)
<1>1. /\ M \in Seq(BatchRecord)
      /\ \A i \in DOMAIN M : i \in Nat /\ i + 1 \in DOMAIN L /\ M[i] = L[i + 1]
      /\ \A j \in DOMAIN L : j \in Nat /\ (j = 1 \/ (j - 1 \in DOMAIN M /\ M[j - 1] = L[j]))
      /\ DOMAIN L = 1..Len(L) /\ Len(L) \in Nat
  BY TailFacts
<1> HIDE DEF M
<1>2. \A i \in DOMAIN M : IsBatch(M[i]) BY <1>1 DEF IsLog
<1>3. ASSUME NEW i \in DOMAIN M, NEW j \in DOMAIN M, i < j
      PROVE  LET x == M[i]
                 y == M[j]
             IN /\ x.last < y.base
                /\ x.tx # 0 /\ x.tx = y.tx => x.pid = y.pid /\ x.aborted = y.aborted /\ ~x.control
                /\ x.tx # 0 /\ y.tx # 0 /\ x.tx # y.tx /\ x.pid = y.pid =>
                     \E k \in i..(j - 1) : M[k].tx = x.tx /\ M[k].control
  <2>1. i \in Nat /\ j \in Nat /\ i + 1 \in DOMAIN L /\ j + 1 \in DOMAIN L /\ M[i] = L[i + 1] /\ M[j] = L[j + 1]
    BY <1>1
  <2>2. PICK i1 \in DOMAIN L, j1 \in DOMAIN L : i1 = i + 1 /\ j1 = j + 1 BY <2>1
  <2>3. i1 < j1 BY <1>3, <2>1, <2>2
  <2>4. /\ L[i1].last < L[j1].base
        /\ L[i1].tx # 0 /\ L[i1].tx = L[j1].tx =>
             L[i1].pid = L[j1].pid /\ L[i1].aborted = L[j1].aborted /\ ~L[i1].control
        /\ L[i1].tx # 0 /\ L[j1].tx # 0 /\ L[i1].tx # L[j1].tx /\ L[i1].pid = L[j1].pid =>
             \E k \in i1..(j1 - 1) : L[k].tx = L[i1].tx /\ L[k].control
    BY <2>3, LogTwo
  <2>5. M[i] = L[i1] /\ M[j] = L[j1] BY <2>1, <2>2
  <2>6. ASSUME NEW k \in i1..(j1 - 1), L[k].tx = L[i1].tx, L[k].control
        PROVE  \E m \in i..(j - 1) : M[m].tx = L[i1].tx /\ M[m].control
    <3>1. k \in DOMAIN L /\ k # 1 /\ k - 1 \in i..(j - 1) BY <1>1, <2>1, <2>2
    <3>2. M[k - 1] = L[k] BY <1>1, <3>1
    <3> QED BY <2>6, <3>1, <3>2
  <2> QED BY <2>4, <2>5, <2>6
<1>4. IsLog(M) BY <1>1, <1>2, <1>3 DEF IsLog
<1> QED BY <1>4 DEF M

LEMMA TailStable ==
  ASSUME NEW L, IsLog(L), Len(L) > 1, NEW v
  PROVE  /\ EndFor(L, v) <= EndFor(Tail(L), v)
         /\ L[1].last < LastStable(L) => EndFor(L, v) = EndFor(Tail(L), v)
<1> DEFINE M == Tail(L)
<1>1. /\ \A i \in DOMAIN M : i \in Nat /\ i + 1 \in DOMAIN L /\ M[i] = L[i + 1]
      /\ \A j \in DOMAIN L : j \in Nat /\ (j = 1 \/ (j - 1 \in DOMAIN M /\ M[j - 1] = L[j]))
      /\ LogEnd(M) = LogEnd(L) /\ 1 \in DOMAIN L /\ DOMAIN M = 1..Len(M)
  BY TailFacts
<1>2. IsLog(M) BY TailIsLog
<1>3. LogEnd(L) \in Nat /\ LastStable(L) <= LogEnd(L) /\ LastStable(L) \in Nat
  <2>1. EndFor(L, "CommittedOnly") <= LogEnd(L) /\ EndFor(L, "CommittedOnly") \in Nat BY EndForFacts
  <2> QED BY <2>1, LogEndFacts DEF EndFor
<1> HIDE DEF M
<1>4. ASSUME NEW i \in DOMAIN M, OpenAt(M, i)
      PROVE  OpenAt(L, i + 1)
  <2>1. PICK i1 \in DOMAIN L : i1 = i + 1 /\ M[i] = L[i1] /\ i1 > 1 BY <1>1
  <2>2. L[i1].tx # 0 BY <1>4, <2>1 DEF OpenAt
  <2>3. ASSUME NEW j \in DOMAIN L, L[j].tx = L[i1].tx, L[j].control
        PROVE  FALSE
    <3>1. CASE j = 1
      <4>1. ~L[1].control BY <1>1, <2>1, <2>2, <2>3, <3>1, LogTwo
      <4> QED BY <2>3, <3>1, <4>1
    <3>2. CASE j - 1 \in DOMAIN M /\ M[j - 1] = L[j] BY <1>4, <2>1, <2>3, <3>2 DEF OpenAt
    <3> QED BY <1>1, <3>1, <3>2
  <2>4. OpenAt(L, i1) BY <2>2, <2>3 DEF OpenAt
  <2> QED BY <2>1, <2>4
<1>5. LastStable(L) <= LastStable(M)
  <2>1. CASE LastStable(M) = LogEnd(M) BY <1>1, <1>3, <2>1
  <2>2. ASSUME NEW i \in DOMAIN M, OpenAt(M, i), LastStable(M) = M[i].base
        PROVE  LastStable(L) <= LastStable(M)
    <3>1. PICK k \in DOMAIN L : k = i + 1 BY <1>1
    <3>2. OpenAt(L, k) /\ M[i] = L[k] BY <1>1, <1>4, <2>2, <3>1
    <3>3. PICK j \in DOMAIN L : LastStable(L) = L[j].base /\ \A m \in DOMAIN L : OpenAt(L, m) => L[j].base <= L[m].base
      BY <3>2, LastStableFacts
    <3> QED BY <2>2, <3>2, <3>3
  <2> QED BY <1>2, <2>1, <2>2, LastStableFacts
<1>6. LogEnd(L) <= LogEnd(M) BY <1>1, <1>3
<1>7. ASSUME L[1].last < LastStable(L)
      PROVE  LastStable(L) = LastStable(M)
  <2>1. LastStable(M) \in Nat /\ LastStable(M) <= LogEnd(M)
    <3>1. EndFor(M, "CommittedOnly") <= LogEnd(M) /\ EndFor(M, "CommittedOnly") \in Nat BY <1>2, EndForFacts
    <3> QED BY <3>1 DEF EndFor
  <2>2. CASE LastStable(L) = LogEnd(L) BY <1>1, <1>3, <1>5, <2>1, <2>2
  <2>3. ASSUME NEW j \in DOMAIN L, OpenAt(L, j), LastStable(L) = L[j].base
        PROVE  LastStable(M) <= LastStable(L)
    <3>1. L[1].base \in Nat /\ L[1].last \in Nat /\ L[1].base <= L[1].last BY <1>1, LogOne
    <3>2. j # 1 BY <1>7, <2>3, <3>1
    <3>3. PICK i \in DOMAIN M : i = j - 1 /\ M[i] = L[j] BY <1>1, <3>2
    <3>4. OpenAt(M, i) BY <1>1, <2>3, <3>3 DEF OpenAt
    <3>5. PICK k \in DOMAIN M : LastStable(M) = M[k].base /\ \A m \in DOMAIN M : OpenAt(M, m) => M[k].base <= M[m].base
      BY <1>2, <3>4, LastStableFacts
    <3> QED BY <2>3, <3>3, <3>4, <3>5
  <2> QED BY <1>3, <1>5, <2>1, <2>2, <2>3, LastStableFacts
<1> QED BY <1>1, <1>5, <1>6, <1>7 DEF EndFor, M

(* A batch outside every transaction is appended.                          *)
Continues(L, b) ==
  b \in BatchRecord /\ IsBatch(b) /\ b.base = LogEnd(L) /\ b.tx = 0 /\ ~b.control

LEMMA AppendFacts ==
  ASSUME NEW L, IsLog(L), NEW b, Continues(L, b)
  PROVE  LET M == Append(L, b)
         IN /\ M \in Seq(BatchRecord) /\ DOMAIN M = 1..(Len(L) + 1)
            /\ Len(M) = Len(L) + 1 /\ DOMAIN L = 1..Len(L) /\ Len(L) \in Nat
            /\ \A i \in DOMAIN L : i \in DOMAIN M /\ M[i] = L[i]
            /\ Len(L) + 1 \in DOMAIN M /\ M[Len(L) + 1] = b
            /\ \A i \in DOMAIN M : i \in DOMAIN L \/ i = Len(L) + 1
            /\ LogEnd(M) = b.last + 1 /\ b.last \in Nat /\ LogEnd(L) \in Nat /\ LogEnd(L) <= b.last
<1> DEFINE M == Append(L, b)
<1>1. L \in Seq(BatchRecord) /\ b \in BatchRecord BY DEF IsLog, Continues
<1>2. /\ M \in Seq(BatchRecord) /\ DOMAIN M = 1..(Len(L) + 1)
      /\ Len(M) = Len(L) + 1 /\ DOMAIN L = 1..Len(L) /\ Len(L) \in Nat
      /\ \A i \in DOMAIN L : i \in DOMAIN M /\ M[i] = L[i]
      /\ M[Len(L) + 1] = b
  BY <1>1
<1> HIDE DEF M
<1>3. Len(L) + 1 \in DOMAIN M /\ \A i \in DOMAIN M : i \in DOMAIN L \/ i = Len(L) + 1 BY <1>2
<1>4. LogEnd(M) = b.last + 1
  <2>1. M # <<>> BY <1>2
  <2> QED BY <1>2, <2>1 DEF LogEnd, Last
<1>5. b.last \in Nat /\ LogEnd(L) \in Nat /\ LogEnd(L) <= b.last BY <1>1 DEF Continues, IsBatch, BatchRecord
<1> QED BY <1>2, <1>3, <1>4, <1>5 DEF M

LEMMA AppendIsLog ==
  ASSUME NEW L, IsLog(L), NEW b, Continues(L, b)
  PROVE  IsLog(Append(L, b))
<1> DEFINE M == Append(L, b)
           n == LogEnd(L)
<1>1. n \in Nat /\ \A i \in DOMAIN L : L[i].last < n BY LogEndFacts
<1>2. b.base = n /\ ~b.control /\ b.tx = 0 BY DEF Continues
<1>3. /\ M \in Seq(BatchRecord) /\ DOMAIN L = 1..Len(L) /\ Len(L) \in Nat
      /\ \A i \in DOMAIN L : M[i] = L[i]
      /\ M[Len(L) + 1] = b
      /\ \A i \in DOMAIN M : i \in DOMAIN L \/ i = Len(L) + 1
  BY AppendFacts
<1> HIDE DEF M, n
<1>4. \A i \in DOMAIN M : IsBatch(M[i])
  <2>1. IsBatch(b) BY DEF Continues
  <2>2. \A i \in DOMAIN L : IsBatch(L[i]) BY DEF IsLog
  <2> QED BY <1>3, <2>1, <2>2
<1>5. ASSUME NEW i \in DOMAIN M, NEW j \in DOMAIN M, i < j
      PROVE  LET x == M[i]
                 y == M[j]
             IN /\ x.last < y.base
                /\ x.tx # 0 /\ x.tx = y.tx => x.pid = y.pid /\ x.aborted = y.aborted /\ ~x.control
                /\ x.tx # 0 /\ y.tx # 0 /\ x.tx # y.tx /\ x.pid = y.pid =>
                     \E k \in i..(j - 1) : M[k].tx = x.tx /\ M[k].control
  <2>1. i \in DOMAIN L BY <1>3, <1>5
  <2>2. CASE j = Len(L) + 1 BY <1>1, <1>2, <1>3, <2>1, <2>2
  <2>3. CASE j \in DOMAIN L
    <3>1. \A k \in i..(j - 1) : k \in DOMAIN L BY <1>3, <2>1, <2>3
    <3>2. M[i] = L[i] /\ M[j] = L[j] /\ \A k \in i..(j - 1) : M[k] = L[k] BY <1>3, <2>1, <2>3, <3>1
    <3>3. /\ L[i].last < L[j].base
          /\ L[i].tx # 0 /\ L[i].tx = L[j].tx =>
               L[i].pid = L[j].pid /\ L[i].aborted = L[j].aborted /\ ~L[i].control
          /\ L[i].tx # 0 /\ L[j].tx # 0 /\ L[i].tx # L[j].tx /\ L[i].pid = L[j].pid =>
               \E k \in i..(j - 1) : L[k].tx = L[i].tx /\ L[k].control
      BY <1>5, <2>1, <2>3, LogTwo
    <3> QED BY <3>2, <3>3
  <2> QED BY <1>3, <2>2, <2>3
<1>6. IsLog(M) BY <1>3, <1>4, <1>5 DEF IsLog
<1> QED BY <1>6 DEF M

(* The usable end moves only if it was the end of the log.                 *)
LEMMA AppendStable ==
  ASSUME NEW L, IsLog(L), NEW b, Continues(L, b), NEW v
  PROVE  /\ EndFor(L, v) <= EndFor(Append(L, b), v)
         /\ EndFor(L, v) = EndFor(Append(L, b), v) \/ EndFor(L, v) = LogEnd(L)
<1> DEFINE M == Append(L, b)
<1>1. /\ DOMAIN L = 1..Len(L) /\ Len(L) \in Nat
      /\ \A i \in DOMAIN L : i \in DOMAIN M /\ M[i] = L[i]
      /\ M[Len(L) + 1].tx = 0 /\ ~M[Len(L) + 1].control
      /\ \A i \in DOMAIN M : i \in DOMAIN L \/ i = Len(L) + 1
      /\ LogEnd(L) <= LogEnd(M)
  <2>1. /\ DOMAIN L = 1..Len(L) /\ Len(L) \in Nat
        /\ \A i \in DOMAIN L : i \in DOMAIN M /\ M[i] = L[i]
        /\ M[Len(L) + 1] = b
        /\ \A i \in DOMAIN M : i \in DOMAIN L \/ i = Len(L) + 1
        /\ LogEnd(M) = b.last + 1 /\ b.last \in Nat /\ LogEnd(L) \in Nat /\ LogEnd(L) <= b.last
    BY AppendFacts
  <2> HIDE DEF M
  <2>2. M[Len(L) + 1].tx = 0 /\ ~M[Len(L) + 1].control BY <2>1 DEF Continues
  <2> QED BY <2>1, <2>2
<1>2. IsLog(M) BY AppendIsLog
<1>3. LogEnd(L) \in Nat /\ LogEnd(M) \in Nat /\ LastStable(L) <= LogEnd(L) /\ LastStable(L) \in Nat
  <2>1. EndFor(L, "CommittedOnly") <= LogEnd(L) /\ EndFor(L, "CommittedOnly") \in Nat BY EndForFacts
  <2> QED BY <1>2, <2>1, LogEndFacts DEF EndFor
<1> HIDE DEF M
<1>4. \A i \in DOMAIN M : OpenAt(M, i) => i \in DOMAIN L /\ OpenAt(L, i) BY <1>1 DEF OpenAt
<1>5. ASSUME NEW i \in DOMAIN L, OpenAt(L, i)
      PROVE  OpenAt(M, i)
  <2>1. L[i].tx # 0 /\ M[i] = L[i] BY <1>1, <1>5 DEF OpenAt
  <2>2. ASSUME NEW j \in DOMAIN M, M[j].tx = L[i].tx, M[j].control
        PROVE  FALSE
    <3>1. j \in DOMAIN L /\ M[j] = L[j] BY <1>1, <2>2
    <3> QED BY <1>5, <2>2, <3>1 DEF OpenAt
  <2> QED BY <2>1, <2>2 DEF OpenAt
<1>6. LastStable(L) = LastStable(M) \/ (LastStable(L) = LogEnd(L) /\ LastStable(M) = LogEnd(M))
  <2>1. CASE \A i \in DOMAIN L : ~OpenAt(L, i)
    <3>1. \A i \in DOMAIN M : ~OpenAt(M, i) BY <1>4, <2>1
    <3> QED BY <1>2, <2>1, <3>1, LastStableFacts
  <2>2. ASSUME NEW z \in DOMAIN L, OpenAt(L, z)
        PROVE  LastStable(L) = LastStable(M)
    <3>1. PICK i \in DOMAIN L : OpenAt(L, i) /\ LastStable(L) = L[i].base
                                /\ \A j \in DOMAIN L : OpenAt(L, j) => L[i].base <= L[j].base
      BY <2>2, LastStableFacts
    <3>2. z \in DOMAIN M /\ OpenAt(M, z) BY <1>1, <1>5, <2>2
    <3>3. PICK k \in DOMAIN M : OpenAt(M, k) /\ LastStable(M) = M[k].base
                                /\ \A j \in DOMAIN M : OpenAt(M, j) => M[k].base <= M[j].base
      BY <1>2, <3>2, LastStableFacts
    <3>4. k \in DOMAIN L /\ OpenAt(L, k) /\ M[k] = L[k] /\ i \in DOMAIN M /\ OpenAt(M, i) /\ M[i] = L[i]
      BY <1>1, <1>4, <1>5, <3>1, <3>3
    <3>5. L[i].base \in Nat /\ L[k].base \in Nat /\ L[i].base <= L[k].base /\ L[k].base <= L[i].base
      BY <3>1, <3>3, <3>4, LogOne
    <3> QED BY <3>1, <3>3, <3>4, <3>5
  <2> QED BY <2>1, <2>2
<1>7. EndFor(L, v) <= EndFor(M, v) /\ (EndFor(L, v) = EndFor(M, v) \/ EndFor(L, v) = LogEnd(L))
  BY <1>1, <1>3, <1>6 DEF EndFor
<1> QED BY <1>7 DEF M
=============================================================================
