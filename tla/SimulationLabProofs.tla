------------------------ MODULE SimulationLabProofs ------------------------
(***************************************************************************)
(* Proofs about a simulation run.  What it reports, for any plans, labels   *)
(* and scores: the area under the ROC curve counts the pairs of a fraud and *)
(* another payment in the order of their scores.  And what its rules tell   *)
(* apart, for any run of the scenarios: which plans they can judge, and     *)
(* that the generators make such plans.                                     *)
(***************************************************************************)
EXTENDS SimulationLab, PaymentHistoryProofs

(***************************************************************************)
(* The order of the payments.                                               *)
(***************************************************************************)
(* A run's outcomes: as many as payments, with labels, scores and alarms.   *)
OutcomeOK(o) ==
  /\ o.fraud \in BOOLEAN /\ o.flagged \in BOOLEAN /\ o.score \in 0..100
  /\ o.flagged <=> o.score > 60

OutcomesOK(s) ==
  /\ Len(s) \in Nat /\ DOMAIN s = 1..Len(s)
  /\ \A i \in DOMAIN s : OutcomeOK(s[i])

LEMMA OutcomesType ==
  ASSUME NEW s, OutcomesOK(s)
  PROVE  /\ Len(s) \in Nat /\ DOMAIN s = 1..Len(s)
         /\ \A i \in DOMAIN s : i \in Int /\ s[i].score \in Int /\ s[i].fraud \in BOOLEAN
<1>1. \A o : OutcomeOK(o) => o.score \in 0..100 /\ o.fraud \in BOOLEAN
  BY Zenon DEF OutcomeOK
<1>2. \A i \in DOMAIN s : OutcomeOK(s[i])
  BY Zenon DEF OutcomesOK
<1>3. Len(s) \in Nat /\ DOMAIN s = 1..Len(s)
  BY Zenon DEF OutcomesOK
<1>4. \A i \in DOMAIN s : s[i].fraud \in BOOLEAN /\ s[i].score \in 0..100
  BY <1>1, <1>2, Zenon
<1>5. \A i \in DOMAIN s : i \in Int
  BY <1>3
<1>6. \A n \in 0..100 : n \in Int
  OBVIOUS
<1>. QED
  BY <1>3, <1>4, <1>5, <1>6, Zenon

(* The payments before payment i, and how many they are.                    *)
Front(s, i) == {j \in DOMAIN s : Ahead(s, j, i)}

Place(s, i) == Cardinality(Front(s, i))

LEMMA OrderIsTotal ==
  ASSUME NEW s, OutcomesOK(s), NEW i \in DOMAIN s, NEW j \in DOMAIN s
  PROVE  /\ ~ Ahead(s, i, i)
         /\ i # j => Ahead(s, i, j) \/ Ahead(s, j, i)
         /\ \A k \in DOMAIN s : Ahead(s, i, j) /\ Ahead(s, j, k) => Ahead(s, i, k)
<1>1. \A k \in DOMAIN s : k \in Int /\ s[k].score \in Int
  BY OutcomesType
<1>. QED
  BY <1>1 DEF Ahead

(* Places are numbers below the number of payments.                         *)
LEMMA PlaceType ==
  ASSUME NEW s, OutcomesOK(s), NEW i \in DOMAIN s
  PROVE  /\ IsFiniteSet(Front(s, i))
         /\ Place(s, i) \in Nat /\ Place(s, i) < Len(s)
<1>1. IsFiniteSet(DOMAIN s) /\ Cardinality(DOMAIN s) = Len(s)
  <2>1. 1 \in Int /\ Len(s) \in Int /\ (1 > Len(s) => Len(s) = 0) /\ Len(s) - 1 + 1 = Len(s)
    BY DEF OutcomesOK
  <2>. QED
    BY <2>1, FS_Interval DEF OutcomesOK
<1>2. Front(s, i) \in SUBSET ((DOMAIN s) \ {i})
  BY OrderIsTotal DEF Front
<1>3. /\ IsFiniteSet((DOMAIN s) \ {i})
      /\ Cardinality((DOMAIN s) \ {i}) = Len(s) - 1
  BY <1>1, FS_RemoveElement
<1>4. IsFiniteSet(Front(s, i)) /\ Cardinality(Front(s, i)) <= Len(s) - 1
  BY <1>2, <1>3, FS_Subset
<1>5. Cardinality(Front(s, i)) \in Nat
  BY <1>4, FS_CardinalityType
<1>. QED
  BY <1>4, <1>5 DEF Place, OutcomesOK

(* A payment before another has a lower place, and no two have the same.    *)
LEMMA PlaceOrders ==
  ASSUME NEW s, OutcomesOK(s), NEW i \in DOMAIN s, NEW j \in DOMAIN s
  PROVE  /\ Ahead(s, i, j) => Place(s, i) < Place(s, j)
         /\ Place(s, i) = Place(s, j) => i = j
         /\ Place(s, i) < Place(s, j) => Ahead(s, i, j)
<1>1. ASSUME NEW a \in DOMAIN s, NEW b \in DOMAIN s, Ahead(s, a, b)
      PROVE  Place(s, a) < Place(s, b)
  <2>1. Front(s, a) \in SUBSET Front(s, b) /\ a \in Front(s, b) /\ a \notin Front(s, a)
    BY <1>1, OrderIsTotal DEF Front
  <2>2. IsFiniteSet(Front(s, b)) /\ Place(s, a) \in Nat /\ Place(s, b) \in Nat
    BY PlaceType
  <2>3. Place(s, a) <= Place(s, b) /\ Place(s, a) # Place(s, b)
    BY <2>1, <2>2, FS_Subset DEF Place
  <2>. QED
    BY <2>2, <2>3
<1>2. Place(s, i) \in Nat /\ Place(s, j) \in Nat
  BY PlaceType
<1>3. i # j => Ahead(s, i, j) \/ Ahead(s, j, i)
  BY OrderIsTotal
<1>4. Ahead(s, i, j) => Place(s, i) < Place(s, j)
  BY <1>1
<1>5. Ahead(s, j, i) => Place(s, j) < Place(s, i)
  BY <1>1
<1>. QED
  BY <1>2, <1>3, <1>4, <1>5

(* The payment at a place.                                                  *)
At(s, k) == CHOOSE i \in DOMAIN s : Place(s, i) = k - 1

LEMMA AtPlace ==
  ASSUME NEW s, OutcomesOK(s), NEW k \in DOMAIN s
  PROVE  At(s, k) \in DOMAIN s /\ Place(s, At(s, k)) = k - 1
<1>. DEFINE n == Len(s)
           p == [i \in DOMAIN s |-> Place(s, i) + 1]
<1>1. n \in Nat /\ DOMAIN s = 1..n /\ IsFiniteSet(1..n)
  BY FS_Interval DEF OutcomesOK
<1>2. \A i \in DOMAIN s : Place(s, i) \in Nat /\ Place(s, i) + 1 \in 1..n
  BY <1>1, PlaceType
<1>3. p \in [1..n -> 1..n]
  BY <1>1, <1>2
<1>4. \A i, j \in 1..n : p[i] = p[j] => i = j
  BY <1>1, <1>2, PlaceOrders
<1>5. p \in Injection(1..n, 1..n)
  BY <1>3, <1>4 DEF Injection, IsInjective
<1>6. p \in Surjection(1..n, 1..n)
  BY <1>1, <1>5, FS_Injection
<1>7. PICK i \in 1..n : p[i] = k
  BY <1>1, <1>6 DEF Surjection
<1>8. i \in DOMAIN s /\ Place(s, i) = k - 1
  BY <1>1, <1>2, <1>7
<1>. QED
  BY <1>8 DEF At

(* The ranked outcomes.                                                     *)
LEMMA RankedIs ==
  ASSUME NEW s
  PROVE  Ranked(s) = [k \in DOMAIN s |-> s[At(s, k)]]
<1>. DEFINE before == [i \in DOMAIN s |-> Cardinality({j \in DOMAIN s : Ahead(s, j, i)})]
           chosen(k) == CHOOSE i \in DOMAIN s : before[i] = k - 1
<1>1. \A k \in DOMAIN s : chosen(k) = At(s, k)
  BY DEF At, Place, Front
<1>2. Ranked(s) = [k \in DOMAIN s |-> s[chosen(k)]]
  BY DEF Ranked
<1>. HIDE DEF chosen
<1>. QED
  BY <1>1, <1>2

(***************************************************************************)
(* The area: the loop of _roc_auc is a recursive function, which exists and *)
(* counts.                                                                  *)
(***************************************************************************)
Start == [tp |-> 0, fp |-> 0, area |-> 0]

Turn(prev, fraud) ==
  LET tp == prev.tp + (IF fraud THEN 1 ELSE 0)
      fp == prev.fp + (IF fraud THEN 0 ELSE 1)
  IN [tp |-> tp, fp |-> fp, area |-> prev.area + (fp - prev.fp) * (tp + prev.tp)]

Loop(r, g, n) ==
  g = [k \in 0..n |-> IF k = 0 THEN Start ELSE Turn(g[k - 1], r[k].fraud)]

LEMMA LoopExists ==
  ASSUME NEW r, NEW n \in Nat
  PROVE  \E g : Loop(r, g, n)
<1>. DEFINE Bad == {m \in Nat : ~ \E g : Loop(r, g, m)}
<1>1. SUFFICES ASSUME Bad # {} PROVE FALSE
  OBVIOUS
<1>2. PICK m \in Bad : \A l \in Bad : m <= l
  <2>1. Bad \in SUBSET Nat
    OBVIOUS
  <2>. HIDE DEF Bad
  <2>. QED
    BY <1>1, <2>1, FirstExists
<1>3. CASE m = 0
  <2>. DEFINE g == [k \in 0..0 |-> Start]
  <2>1. Loop(r, g, 0)
    BY DEF Loop
  <2>. QED
    BY <1>2, <1>3, <2>1
<1>4. CASE m # 0
  <2>1. m \in Nat /\ m - 1 \in Nat /\ m - 1 \notin Bad
    BY <1>2, <1>4
  <2>2. PICK g : Loop(r, g, m - 1)
    BY <2>1
  <2>. DEFINE h == [k \in 0..m |-> IF k = m THEN Turn(g[m - 1], r[m].fraud) ELSE g[k]]
  <2>3. \A k \in 0..m - 1 : g[k] = IF k = 0 THEN Start ELSE Turn(g[k - 1], r[k].fraud)
    BY <2>2, Zenon DEF Loop
  <2>4. \A k \in 0..m : k # m => k \in 0..m - 1 /\ h[k] = g[k]
    BY <2>1
  <2>5. \A k \in 0..m : k # 0 => k - 1 \in 0..m /\ h[k - 1] = g[k - 1]
    BY <2>1
  <2>6. h[m] = Turn(g[m - 1], r[m].fraud)
    BY <2>1
  <2>7. h = [k \in 0..m |-> h[k]]
    OBVIOUS
  <2>. HIDE DEF h
  <2>8. \A k \in 0..m : h[k] = IF k = 0 THEN Start ELSE Turn(h[k - 1], r[k].fraud)
    <3>. SUFFICES ASSUME NEW k \in 0..m
                  PROVE  h[k] = IF k = 0 THEN Start ELSE Turn(h[k - 1], r[k].fraud)
      OBVIOUS
    <3>1. CASE k = m
      <4>1. h[m - 1] = g[m - 1]
        BY <1>4, <2>1, <2>5
      <4>. QED
        BY <1>4, <2>6, <3>1, <4>1
    <3>2. CASE k # m
      <4>1. h[k] = g[k] /\ g[k] = IF k = 0 THEN Start ELSE Turn(g[k - 1], r[k].fraud)
        BY <2>3, <2>4, <3>2
      <4>2. k # 0 => h[k - 1] = g[k - 1]
        BY <2>5
      <4>. QED
        BY <4>1, <4>2
    <3>. QED
      BY <3>1, <3>2
  <2>9. Loop(r, h, m)
    BY <2>7, <2>8, Zenon DEF Loop
  <2>. QED
    BY <1>2, <2>9
<1>. QED
  BY <1>3, <1>4

LEMMA RocIsLoop ==
  ASSUME NEW r, Len(r) \in Nat
  PROVE  \E g : Loop(r, g, Len(r)) /\ RocLoop(r) = g[Len(r)]
<1>1. RocLoop(r) = (CHOOSE g : Loop(r, g, Len(r)))[Len(r)]
  BY DEF RocLoop, Loop, Turn, Start
<1>2. \E g : Loop(r, g, Len(r))
  BY LoopExists
<1>. QED
  BY <1>1, <1>2

(* Among the first k payments, the frauds, and the pairs of a fraud and a   *)
(* later other payment.                                                     *)
Frauds(r, k) == {a \in 1..k : r[a].fraud}

Ordered(r, k) ==
  {p \in (1..k) \X (1..k) : r[p[1]].fraud /\ ~ r[p[2]].fraud /\ p[1] < p[2]}

LEMMA CountsFinite ==
  ASSUME NEW r, NEW k \in Nat
  PROVE  /\ IsFiniteSet(Frauds(r, k)) /\ Cardinality(Frauds(r, k)) \in Nat
         /\ IsFiniteSet(Ordered(r, k)) /\ Cardinality(Ordered(r, k)) \in Nat
<1>1. IsFiniteSet(1..k)
  BY FS_Interval
<1>2. IsFiniteSet((1..k) \X (1..k))
  BY <1>1, FS_Product
<1>3. Frauds(r, k) \in SUBSET (1..k) /\ Ordered(r, k) \in SUBSET ((1..k) \X (1..k))
  BY DEF Frauds, Ordered
<1>4. IsFiniteSet(Frauds(r, k)) /\ IsFiniteSet(Ordered(r, k))
  BY <1>1, <1>2, <1>3, FS_Subset
<1>. QED
  BY <1>4, FS_CardinalityType

(* One more payment: a fraud is one more; another makes a pair with each.   *)
LEMMA CountsGrow ==
  ASSUME NEW r, NEW k \in Nat, k # 0
  PROVE  /\ r[k].fraud =>
              /\ Cardinality(Frauds(r, k)) = Cardinality(Frauds(r, k - 1)) + 1
              /\ Ordered(r, k) = Ordered(r, k - 1)
         /\ ~ r[k].fraud =>
              /\ Frauds(r, k) = Frauds(r, k - 1)
              /\ Cardinality(Ordered(r, k)) =
                   Cardinality(Ordered(r, k - 1)) + Cardinality(Frauds(r, k - 1))
<1>1. k - 1 \in Nat /\ 1..k = (1..k - 1) \cup {k} /\ k \notin 1..k - 1
  OBVIOUS
<1>2. ASSUME r[k].fraud
      PROVE  /\ Cardinality(Frauds(r, k)) = Cardinality(Frauds(r, k - 1)) + 1
             /\ Ordered(r, k) = Ordered(r, k - 1)
  <2>1. Frauds(r, k) = Frauds(r, k - 1) \cup {k} /\ k \notin Frauds(r, k - 1)
    BY <1>1, <1>2 DEF Frauds
  <2>2. Cardinality(Frauds(r, k)) = Cardinality(Frauds(r, k - 1)) + 1
    BY <1>1, <2>1, CountsFinite, FS_AddElement
  <2>3. \A p \in (1..k) \X (1..k) :
          r[p[1]].fraud /\ ~ r[p[2]].fraud /\ p[1] < p[2] => p \in (1..k - 1) \X (1..k - 1)
    BY <1>1, <1>2
  <2>4. (1..k - 1) \X (1..k - 1) \subseteq (1..k) \X (1..k)
    BY <1>1
  <2>5. Ordered(r, k) = Ordered(r, k - 1)
    BY <2>3, <2>4, Zenon DEF Ordered
  <2>. QED
    BY <2>2, <2>5
<1>3. ASSUME ~ r[k].fraud
      PROVE  /\ Frauds(r, k) = Frauds(r, k - 1)
             /\ Cardinality(Ordered(r, k)) =
                  Cardinality(Ordered(r, k - 1)) + Cardinality(Frauds(r, k - 1))
  <2>. DEFINE new == Frauds(r, k - 1) \X {k}
  <2>1. Frauds(r, k) = Frauds(r, k - 1)
    BY <1>1, <1>3 DEF Frauds
  <2>2. Ordered(r, k) = Ordered(r, k - 1) \cup new
    <3>1. \A p \in Ordered(r, k) : p \in Ordered(r, k - 1) \/ p \in new
      BY <1>1, <1>3 DEF Ordered, Frauds
    <3>2. \A p \in Ordered(r, k - 1) : p \in Ordered(r, k)
      BY <1>1 DEF Ordered
    <3>3. \A p \in new : p \in Ordered(r, k)
      BY <1>1, <1>3 DEF Ordered, Frauds
    <3>. QED
      BY <3>1, <3>2, <3>3
  <2>3. Ordered(r, k - 1) \cap new = {}
    BY <1>1 DEF Ordered
  <2>4. /\ IsFiniteSet(new)
        /\ Cardinality(new) = Cardinality(Frauds(r, k - 1))
    <3>1. IsFiniteSet({k}) /\ Cardinality({k}) = 1
      BY FS_Singleton
    <3>2. IsFiniteSet(Frauds(r, k - 1)) /\ Cardinality(Frauds(r, k - 1)) \in Nat
      BY <1>1, CountsFinite
    <3>3. /\ IsFiniteSet(new)
          /\ Cardinality(new) = Cardinality(Frauds(r, k - 1)) * Cardinality({k})
      BY <3>1, <3>2, FS_Product
    <3>. QED
      BY <3>1, <3>2, <3>3
  <2>. HIDE DEF new
  <2>5. Cardinality(Ordered(r, k)) =
          Cardinality(Ordered(r, k - 1)) + Cardinality(new) - Cardinality({})
    BY <1>1, <2>2, <2>3, <2>4, CountsFinite, FS_Union
  <2>6. Cardinality({}) = 0 /\ Cardinality(Ordered(r, k - 1)) \in Nat
        /\ Cardinality(Frauds(r, k - 1)) \in Nat
    BY <1>1, CountsFinite, FS_EmptySet
  <2>. QED
    BY <2>1, <2>4, <2>5, <2>6
<1>. QED
  BY <1>2, <1>3

(* The loop counts the frauds, and twice the ordered pairs.                 *)
Counted(r, g, k) ==
  /\ g[k].fp \in Int
  /\ g[k].tp = Cardinality(Frauds(r, k))
  /\ g[k].area = 2 * Cardinality(Ordered(r, k))

LEMMA LoopCounts ==
  ASSUME NEW r, NEW n \in Nat, NEW g, Loop(r, g, n),
         \A k \in 1..n : r[k].fraud \in BOOLEAN
  PROVE  Counted(r, g, n)
<1>. DEFINE Bad == {k \in 0..n : ~ Counted(r, g, k)}
<1>1. SUFFICES ASSUME Bad # {} PROVE FALSE
  BY DEF Counted
<1>2. PICK k \in Bad : \A l \in Bad : k <= l
  <2>1. Bad \in SUBSET Nat
    OBVIOUS
  <2>. HIDE DEF Bad
  <2>. QED
    BY <1>1, <2>1, FirstExists
<1>3. k \in 0..n /\ k \in Nat /\ ~ Counted(r, g, k)
  BY <1>2
<1>4. g[k] = IF k = 0 THEN Start ELSE Turn(g[k - 1], r[k].fraud)
  BY <1>3, Zenon DEF Loop
<1>5. CASE k = 0
  <2>1. 1..0 = {}
    OBVIOUS
  <2>2. Frauds(r, 0) = {} /\ Ordered(r, 0) = {}
    BY <2>1 DEF Frauds, Ordered
  <2>3. g[k].fp = 0 /\ g[k].tp = 0 /\ g[k].area = 0
    BY <1>4, <1>5 DEF Start
  <2>. QED
    BY <1>3, <1>5, <2>2, <2>3, FS_EmptySet DEF Counted
<1>6. CASE k # 0
  <2>. DEFINE tp == Cardinality(Frauds(r, k - 1))
             pairs == Cardinality(Ordered(r, k - 1))
  <2>1. k - 1 \in 0..n /\ k - 1 \in Nat /\ k \in 1..n /\ k - 1 < k
    BY <1>3, <1>6
  <2>2. Counted(r, g, k - 1)
    BY <1>2, <2>1
  <2>3. tp \in Nat /\ pairs \in Nat
    BY <2>1, CountsFinite
  <2>4. g[k - 1].fp \in Int /\ g[k - 1].tp = tp /\ g[k - 1].area = 2 * pairs
    BY <2>2 DEF Counted
  <2>5. g[k] = Turn(g[k - 1], r[k].fraud)
    BY <1>4, <1>6
  <2>6. CASE r[k].fraud = TRUE
    <3>1. /\ g[k].tp = tp + 1 /\ g[k].fp = g[k - 1].fp + 0
          /\ g[k].area = 2 * pairs + ((g[k - 1].fp + 0) - g[k - 1].fp) * ((tp + 1) + tp)
      BY <2>4, <2>5, <2>6 DEF Turn
    <3>2. /\ Cardinality(Frauds(r, k)) = tp + 1
          /\ Cardinality(Ordered(r, k)) = pairs
      BY <1>3, <1>6, <2>6, CountsGrow
    <3>. HIDE DEF tp, pairs
    <3>3. ((g[k - 1].fp + 0) - g[k - 1].fp) = 0
      BY <2>4
    <3>4. g[k].area = 2 * pairs
      BY <2>3, <3>1, <3>3
    <3>. QED
      BY <1>3, <2>3, <2>4, <3>1, <3>2, <3>4 DEF Counted
  <2>7. CASE r[k].fraud = FALSE
    <3>1. /\ g[k].tp = tp + 0 /\ g[k].fp = g[k - 1].fp + 1
          /\ g[k].area = 2 * pairs + ((g[k - 1].fp + 1) - g[k - 1].fp) * ((tp + 0) + tp)
      BY <2>4, <2>5, <2>7 DEF Turn
    <3>2. /\ Cardinality(Frauds(r, k)) = tp
          /\ Cardinality(Ordered(r, k)) = pairs + tp
      BY <1>3, <1>6, <2>7, CountsGrow
    <3>. HIDE DEF tp, pairs
    <3>3. ((g[k - 1].fp + 1) - g[k - 1].fp) = 1
      BY <2>4
    <3>4. g[k].area = 2 * (pairs + tp)
      BY <2>3, <3>1, <3>3
    <3>. QED
      BY <1>3, <2>3, <2>4, <3>1, <3>2, <3>4 DEF Counted
  <2>. QED
    BY <2>1, <2>6, <2>7
<1>. QED
  BY <1>5, <1>6

(***************************************************************************)
(* The pairs that the area counts are those in the order of the payments.   *)
(***************************************************************************)
InOrder(s) ==
  {p \in (DOMAIN s) \X (DOMAIN s) : s[p[1]].fraud /\ ~ s[p[2]].fraud /\ Ahead(s, p[1], p[2])}

LEMMA InOrderFinite ==
  ASSUME NEW s, OutcomesOK(s)
  PROVE  /\ IsFiniteSet((DOMAIN s) \X (DOMAIN s))
         /\ IsFiniteSet(InOrder(s)) /\ Cardinality(InOrder(s)) \in Nat
<1>1. IsFiniteSet(DOMAIN s)
  <2>1. 1 \in Int /\ Len(s) \in Int
    BY DEF OutcomesOK
  <2>. QED
    BY <2>1, FS_Interval DEF OutcomesOK
<1>2. IsFiniteSet((DOMAIN s) \X (DOMAIN s))
  BY <1>1, FS_Product
<1>3. InOrder(s) \in SUBSET ((DOMAIN s) \X (DOMAIN s))
  BY DEF InOrder
<1>. QED
  BY <1>2, <1>3, FS_Subset, FS_CardinalityType

(* Ranking keeps the length and the outcomes, at the places.                *)
LEMMA RankedKeeps ==
  ASSUME NEW s, OutcomesOK(s)
  PROVE  /\ Len(Ranked(s)) = Len(s) /\ DOMAIN Ranked(s) = 1..Len(s)
         /\ \A k \in 1..Len(s) : At(s, k) \in DOMAIN s /\ Ranked(s)[k] = s[At(s, k)]
<1>1. Ranked(s) = [k \in DOMAIN s |-> s[At(s, k)]]
  BY RankedIs
<1>2. Len(s) \in Nat /\ DOMAIN s = 1..Len(s)
  BY DEF OutcomesOK
<1>3. \A k \in DOMAIN s : At(s, k) \in DOMAIN s
  BY AtPlace
<1>4. DOMAIN Ranked(s) = 1..Len(s)
  BY <1>1, <1>2
<1>5. Len(Ranked(s)) = Len(s)
  <2>. DEFINE r == Ranked(s)
  <2>1. r \in Seq({s[i] : i \in DOMAIN s})
    <3>1. r \in [1..Len(s) -> {s[i] : i \in DOMAIN s}]
      BY <1>1, <1>2, <1>3
    <3>. QED
      BY <1>2, <3>1, SeqDef
  <2>2. Len(r) \in Nat /\ DOMAIN r = 1..Len(r)
    BY <2>1, LenProperties
  <2>. HIDE DEF r
  <2>. QED
    BY <1>2, <1>4, <2>2
<1>. QED
  BY <1>1, <1>2, <1>3, <1>4, <1>5

(* Which place has which payment.                                           *)
LEMMA AtIsInverse ==
  ASSUME NEW s, OutcomesOK(s), NEW i \in DOMAIN s
  PROVE  Place(s, i) + 1 \in DOMAIN s /\ At(s, Place(s, i) + 1) = i
<1>1. Place(s, i) + 1 \in DOMAIN s /\ Place(s, i) \in Nat
  BY PlaceType DEF OutcomesOK
<1>2. At(s, Place(s, i) + 1) \in DOMAIN s /\ Place(s, At(s, Place(s, i) + 1)) = Place(s, i)
  <2>. DEFINE k == Place(s, i) + 1
  <2>1. At(s, k) \in DOMAIN s /\ Place(s, At(s, k)) = k - 1
    BY <1>1, AtPlace
  <2>. QED
    BY <1>1, <2>1
<1>. DEFINE a == At(s, Place(s, i) + 1)
<1>3. a \in DOMAIN s /\ Place(s, a) = Place(s, i)
  BY <1>2
<1>. HIDE DEF a
<1>4. a = i
  BY <1>3, PlaceOrders
<1>. QED
  BY <1>1, <1>4 DEF a

LEMMA SameCount ==
  ASSUME NEW s, OutcomesOK(s)
  PROVE  Cardinality(Ordered(Ranked(s), Len(s))) = Cardinality(InOrder(s))
<1>. DEFINE r == Ranked(s)
           S == InOrder(s)
           T == Ordered(r, Len(s))
           f == [p \in T |-> <<At(s, p[1]), At(s, p[2])>>]
<1>1. Len(s) \in Nat /\ DOMAIN s = 1..Len(s)
  BY DEF OutcomesOK
<1>2. \A k \in DOMAIN s : At(s, k) \in DOMAIN s /\ Place(s, At(s, k)) = k - 1 /\ r[k] = s[At(s, k)]
  BY <1>1, AtPlace, RankedKeeps
<1>. HIDE DEF r
<1>3. \A k, l \in DOMAIN s : Ahead(s, At(s, k), At(s, l)) <=> k < l
  <2>. SUFFICES ASSUME NEW k \in DOMAIN s, NEW l \in DOMAIN s
                PROVE  Ahead(s, At(s, k), At(s, l)) <=> k < l
    OBVIOUS
  <2>1. k \in Int /\ l \in Int
    BY <1>1
  <2>2. k < l <=> Place(s, At(s, k)) < Place(s, At(s, l))
    BY <1>2, <2>1
  <2>. QED
    BY <1>2, <2>2, PlaceOrders
<1>4. ASSUME NEW k \in DOMAIN s, NEW l \in DOMAIN s
      PROVE  <<k, l>> \in T <=> <<At(s, k), At(s, l)>> \in S
  BY <1>1, <1>2, <1>3 DEF Ordered, InOrder
<1>5. T \in SUBSET ((DOMAIN s) \X (DOMAIN s)) /\ S \in SUBSET ((DOMAIN s) \X (DOMAIN s))
  BY <1>1 DEF Ordered, InOrder
<1>6. f \in [T -> S]
  <2>. HIDE DEF T, S
  <2>. SUFFICES ASSUME NEW p \in T PROVE <<At(s, p[1]), At(s, p[2])>> \in S
    BY DEF f
  <2>1. PICK k \in DOMAIN s, l \in DOMAIN s : p = <<k, l>>
    BY <1>5
  <2>. QED
    BY <1>4, <2>1
<1>7. \A p, q \in T : f[p] = f[q] => p = q
  <2>. HIDE DEF T, S
  <2>. SUFFICES ASSUME NEW p \in T, NEW q \in T,
                       At(s, p[1]) = At(s, q[1]), At(s, p[2]) = At(s, q[2])
                PROVE  p = q
    BY DEF f
  <2>1. PICK k \in DOMAIN s, l \in DOMAIN s : p = <<k, l>>
    BY <1>5
  <2>2. PICK m \in DOMAIN s, n \in DOMAIN s : q = <<m, n>>
    BY <1>5
  <2>3. k \in Int /\ l \in Int /\ m \in Int /\ n \in Int
    BY <1>1
  <2>4. k - 1 = m - 1 /\ l - 1 = n - 1
    BY <1>2, <2>1, <2>2
  <2>. QED
    BY <2>1, <2>2, <2>3, <2>4
<1>8. \A q \in S : \E p \in T : f[p] = q
  <2>. SUFFICES ASSUME NEW q \in S PROVE \E p \in T : f[p] = q
    OBVIOUS
  <2>. HIDE DEF T, S
  <2>1. PICK i \in DOMAIN s, j \in DOMAIN s : q = <<i, j>>
    BY <1>5
  <2>. DEFINE k == Place(s, i) + 1
             l == Place(s, j) + 1
  <2>2. k \in DOMAIN s /\ At(s, k) = i /\ l \in DOMAIN s /\ At(s, l) = j
    BY AtIsInverse
  <2>. HIDE DEF k, l
  <2>3. <<k, l>> \in T
    BY <1>4, <2>1, <2>2
  <2>. QED
    BY <2>1, <2>2, <2>3 DEF f
<1>. HIDE DEF T, S, f
<1>9. f \in Surjection(T, S) /\ f \in Injection(T, S)
  BY <1>6, <1>7, <1>8 DEF Surjection, Injection, IsInjective
<1>10. IsFiniteSet(S)
  BY InOrderFinite DEF S
<1>11. Cardinality(T) = Cardinality(S)
  BY <1>9, <1>10, FS_Injection
<1>. QED
  BY <1>11 DEF S, T, r

(* The area is twice the number of those pairs.                             *)
LEMMA AreaCounts ==
  ASSUME NEW s, OutcomesOK(s)
  PROVE  RocLoop(Ranked(s)).area = 2 * Cardinality(InOrder(s))
<1>. DEFINE r == Ranked(s)
<1>1. Len(r) = Len(s) /\ Len(r) \in Nat
  BY RankedKeeps DEF OutcomesOK
<1>2. \A k \in 1..Len(r) : r[k].fraud \in BOOLEAN
  BY <1>1, RankedKeeps, OutcomesType
<1>3. Cardinality(Ordered(r, Len(r))) = Cardinality(InOrder(s))
  BY <1>1, SameCount
<1>. HIDE DEF r
<1>4. PICK g : Loop(r, g, Len(r)) /\ RocLoop(r) = g[Len(r)]
  BY <1>1, RocIsLoop
<1>5. Counted(r, g, Len(r))
  BY <1>1, <1>2, <1>4, LoopCounts
<1>6. RocLoop(r).area = 2 * Cardinality(InOrder(s))
  BY <1>3, <1>4, <1>5 DEF Counted
<1>. QED
  BY <1>6 DEF r

(* So are the sets of pairs of the property, which differ in ties.          *)
Above(s) ==
  {p \in (DOMAIN s) \X (DOMAIN s) :
     s[p[1]].fraud /\ ~ s[p[2]].fraud /\ s[p[1]].score > s[p[2]].score}

Tied(s) ==
  {p \in (DOMAIN s) \X (DOMAIN s) :
     s[p[1]].fraud /\ ~ s[p[2]].fraud /\ s[p[1]].score >= s[p[2]].score}

LEMMA PairsAre ==
  ASSUME NEW s
  PROVE  Pairs(s, >) = Cardinality(Above(s)) /\ Pairs(s, >=) = Cardinality(Tied(s))
  BY DEF Pairs, Above, Tied

LEMMA TiesDecide ==
  ASSUME NEW s, OutcomesOK(s)
  PROVE  /\ Cardinality(Above(s)) \in Nat /\ Cardinality(Tied(s)) \in Nat
         /\ Cardinality(Above(s)) <= Cardinality(InOrder(s))
         /\ Cardinality(InOrder(s)) <= Cardinality(Tied(s))
<1>1. \A i \in DOMAIN s : i \in Int /\ s[i].score \in Int
  BY OutcomesType
<1>2. Above(s) \in SUBSET InOrder(s)
  BY DEF Above, InOrder, Ahead
<1>3. InOrder(s) \in SUBSET Tied(s)
  BY <1>1 DEF Tied, InOrder, Ahead
<1>4. Tied(s) \in SUBSET ((DOMAIN s) \X (DOMAIN s))
  BY DEF Tied
<1>5. IsFiniteSet(Tied(s)) /\ IsFiniteSet(InOrder(s)) /\ IsFiniteSet(Above(s))
  BY <1>2, <1>4, InOrderFinite, FS_Subset
<1>. QED
  BY <1>2, <1>3, <1>5, FS_Subset, FS_CardinalityType

(* Every alarm that was right is above every payment that passed.           *)
LEMMA AlarmsAbove ==
  ASSUME NEW s, OutcomesOK(s)
  PROVE  Confused(s, TRUE, TRUE) * Confused(s, FALSE, FALSE) <= Cardinality(Above(s))
<1>. DEFINE P == {i \in DOMAIN s : s[i].fraud = TRUE /\ s[i].flagged = TRUE}
           N == {i \in DOMAIN s : s[i].fraud = FALSE /\ s[i].flagged = FALSE}
<1>1. \A i \in P : s[i].score > 60
  BY Zenon DEF OutcomesOK, OutcomeOK
<1>2. \A i \in N : ~ (s[i].score > 60)
  BY Zenon DEF OutcomesOK, OutcomeOK
<1>3. \A i \in DOMAIN s : s[i].score \in Int
  BY OutcomesType
<1>4. P \X N \in SUBSET Above(s)
  <2>1. \A i \in P, j \in N : s[i].score > s[j].score
    BY <1>1, <1>2, <1>3
  <2>2. P \in SUBSET DOMAIN s /\ N \in SUBSET DOMAIN s
    OBVIOUS
  <2>3. (\A i \in P : s[i].fraud) /\ (\A i \in N : ~ s[i].fraud)
    OBVIOUS
  <2>. HIDE DEF P, N
  <2>. QED
    BY <2>1, <2>2, <2>3 DEF Above
<1>5. IsFiniteSet(DOMAIN s)
  <2>1. 1 \in Int /\ Len(s) \in Int
    BY DEF OutcomesOK
  <2>. QED
    BY <2>1, FS_Interval DEF OutcomesOK
<1>6. IsFiniteSet(P) /\ IsFiniteSet(N)
  BY <1>5, FS_Subset
<1>7. IsFiniteSet(Above(s))
  BY InOrderFinite, FS_Subset DEF Above
<1>8. Confused(s, TRUE, TRUE) = Cardinality(P) /\ Confused(s, FALSE, FALSE) = Cardinality(N)
  BY DEF Confused
<1>. HIDE DEF P, N
<1>9. Cardinality(P \X N) = Cardinality(P) * Cardinality(N)
  BY <1>6, FS_Product
<1>10. Cardinality(P \X N) <= Cardinality(Above(s))
  BY <1>4, <1>7, FS_Subset
<1>. QED
  BY <1>8, <1>9, <1>10

(* So a report of any outcomes is sound.                                    *)
LEMMA MetricsSound ==
  ASSUME NEW s, OutcomesOK(s)
  PROVE  /\ Metrics(s).roc >= 2 * Pairs(s, >)
         /\ Metrics(s).roc <= 2 * Pairs(s, >=)
         /\ Metrics(s).roc >= 2 * Metrics(s).tp * Metrics(s).tn
<1>. DEFINE roc == Metrics(s).roc
           tp == Confused(s, TRUE, TRUE)
           tn == Confused(s, FALSE, FALSE)
           above == Cardinality(Above(s))
           tied == Cardinality(Tied(s))
           inOrder == Cardinality(InOrder(s))
<1>1. roc = 2 * inOrder /\ Metrics(s).tp = tp /\ Metrics(s).tn = tn
  BY AreaCounts DEF Metrics
<1>2. Pairs(s, >) = above /\ Pairs(s, >=) = tied
  BY PairsAre
<1>3. above \in Nat /\ tied \in Nat /\ inOrder \in Nat /\ above <= inOrder /\ inOrder <= tied
  BY TiesDecide, InOrderFinite
<1>4. tp * tn <= above /\ tp \in Nat /\ tn \in Nat
  <2>1. IsFiniteSet(DOMAIN s)
    <3>1. 1 \in Int /\ Len(s) \in Int
      BY DEF OutcomesOK
    <3>. QED
      BY <3>1, FS_Interval DEF OutcomesOK
  <2>2. \A a, b : IsFiniteSet({i \in DOMAIN s : s[i].fraud = a /\ s[i].flagged = b})
    <3>1. \A a, b : {i \in DOMAIN s : s[i].fraud = a /\ s[i].flagged = b} \in SUBSET DOMAIN s
      OBVIOUS
    <3>. QED
      BY <2>1, <3>1, FS_Subset
  <2>3. tp \in Nat /\ tn \in Nat
    BY <2>2, FS_CardinalityType DEF Confused
  <2>. QED
    BY <2>3, AlarmsAbove
<1>. HIDE DEF roc, tp, tn, above, tied, inOrder
<1>5. 2 * tp * tn = 2 * (tp * tn) /\ tp * tn \in Nat
  BY <1>4
<1>6. roc >= 2 * above /\ roc <= 2 * tied /\ roc >= 2 * tp * tn
  BY <1>1, <1>3, <1>4, <1>5
<1>. QED
  BY <1>1, <1>2, <1>6 DEF roc

(***************************************************************************)
(* The run.                                                                 *)
(***************************************************************************)
Outcomes ==
  {o \in [fraud : BOOLEAN, flagged : BOOLEAN, score : 0..100] : OutcomeOK(o)}

LabInv ==
  /\ LogOK
  /\ arrived \in 0..Len(plan)
  /\ outcomes \in Seq(Outcomes)
  /\ report # NoReport => arrived = Len(plan) /\ report = Metrics(outcomes)

LEMMA OutcomesAreOK ==
  ASSUME outcomes \in Seq(Outcomes) PROVE OutcomesOK(outcomes)
<1>1. Len(outcomes) \in Nat /\ DOMAIN outcomes = 1..Len(outcomes)
  BY LenProperties
<1>2. \A i \in DOMAIN outcomes : outcomes[i] \in Outcomes
  BY <1>1, ElementOfSeq
<1>3. \A o \in Outcomes : OutcomeOK(o)
  BY Zenon DEF Outcomes
<1>. QED
  BY <1>1, <1>2, <1>3, Zenon DEF OutcomesOK

(* A payment is an alarm when its score is above 60.                        *)
LEMMA Alarm ==
  ASSUME NEW f \in BOOLEAN, NEW score \in 0..100
  PROVE  [fraud |-> f, flagged |-> Decide(score) \in {"BLOCK", "REVIEW"}, score |-> score]
           \in Outcomes
<1>. DEFINE o == [fraud |-> f, flagged |-> Decide(score) \in {"BLOCK", "REVIEW"}, score |-> score]
<1>1. Decide(score) \in {"BLOCK", "REVIEW"} <=> score > 60
  BY DEF Decide
<1>2. o.fraud = f /\ o.score = score /\ o.flagged = (Decide(score) \in {"BLOCK", "REVIEW"})
  BY Zenon
<1>3. (Decide(score) \in {"BLOCK", "REVIEW"}) \in BOOLEAN
  OBVIOUS
<1>4. o \in [fraud : BOOLEAN, flagged : BOOLEAN, score : 0..100]
  BY <1>3, Zenon
<1>. HIDE DEF o
<1>5. o.flagged <=> o.score > 60
  BY <1>1, <1>2, Zenon
<1>6. OutcomeOK(o)
  BY <1>4, <1>5, Zenon DEF OutcomeOK
<1>7. o \in Outcomes
  BY <1>4, <1>6, Zenon DEF Outcomes
<1>. QED
  BY <1>7 DEF o

LEMMA InitLabInv == LabInit => LabInv
  BY InitHistoryInv DEF LabInit, LabInv, HistoryInv

LEMMA SimulateInv == LabInv /\ SimulatePayment => LabInv'
<1>. SUFFICES ASSUME LabInv, SimulatePayment PROVE LabInv'
  OBVIOUS
<1>. DEFINE r == plan[arrived + 1]
           score == Score(Features(r), DetectorsOf("rules_only"))
           o == [fraud |-> r.fraud, flagged |-> Decide(score) \in {"BLOCK", "REVIEW"},
                 score |-> score]
           entry == [request |-> r, status |-> FinalStatus(Decide(score))]
<1>1. LogOK /\ Len(plan) \in Nat /\ DOMAIN plan = 1..Len(plan)
  BY PlanType DEF LabInv
<1>2. arrived + 1 \in 1..Len(plan) /\ arrived' \in 0..Len(plan) /\ arrived' = arrived + 1
  <2>1. arrived < Len(plan) /\ arrived' = arrived + 1 /\ arrived \in 0..Len(plan)
    BY Zenon DEF LabInv, SimulatePayment
  <2>. HIDE DEF r, score, o, entry
  <2>. QED
    BY <1>1, <2>1
<1>3. r \in Requests /\ r.fraud \in BOOLEAN
  BY <1>1, <1>2, LabAssumption DEF Requests, LogOK
<1>4. score \in 0..100
  <2>1. Features(r) \in Context
    BY <1>1, <1>3, FeaturesType
  <2>2. Points(Features(r), DetectorsOf("rules_only"))
          <= Points(Features(r), DetectorsOf("rules_only"))
    BY <2>1, PointsType
  <2>. QED
    BY <2>1, <2>2, ScoreMonotone
<1>5. o \in Outcomes
  BY <1>3, <1>4, Alarm
<1>6. /\ log' = Append(log, entry) /\ outcomes' = Append(outcomes, o)
      /\ plan' = plan /\ old' = old /\ report' = report
  BY DEF SimulatePayment
<1>7. entry \in Entries
  BY <1>3 DEF Entries, FinalStatus
<1>. HIDE DEF o, entry, r, score
<1>8. LogOK'
  <2>1. Requests' = Requests /\ Entries' = Entries
    BY <1>6 DEF Entries, Requests
  <2>2. log' \in Seq(Entries) /\ Len(log') = Len(log) + 1 /\ Len(log) \in Nat
    BY <1>1, <1>6, <1>7 DEF LogOK
  <2>. QED
    BY <1>1, <1>6, <2>1, <2>2 DEF LogOK
<1>9. outcomes' \in Seq(Outcomes)
  BY <1>5, <1>6 DEF LabInv
<1>10. report' = NoReport
  <2>1. arrived < Len(plan)
    BY DEF SimulatePayment
  <2>2. arrived # Len(plan)
    BY <1>1, <2>1
  <2>. QED
    BY <1>6, <2>2 DEF LabInv
<1>11. NoReport' = NoReport
  BY DEF NoReport
<1>. QED
  BY <1>2, <1>6, <1>8, <1>9, <1>10, <1>11 DEF LabInv

LEMMA NextLabInv == LabInv /\ [LabNext]_labVars => LabInv'
<1>. SUFFICES ASSUME LabInv, [LabNext]_labVars PROVE LabInv'
  OBVIOUS
<1>1. CASE SimulatePayment
  BY <1>1, SimulateInv
<1>2. CASE FinishRun
  BY <1>2 DEF FinishRun, historyVars, LabInv, LogOK, Entries, Requests, NoReport
<1>3. CASE UNCHANGED labVars
  BY <1>3 DEF labVars, historyVars, LabInv, LogOK, Entries, Requests, NoReport
<1>. QED
  BY <1>1, <1>2, <1>3 DEF LabNext

(* Whatever the payments, labels and scores of a run, the reported area     *)
(* under the curve counts the pairs in the right order, with the ties       *)
(* decided by the order of arrival, and is at least that of the alarms      *)
(* (metrics.py:97-116, runner.py).                                          *)
THEOREM ReportIsSound == LabSpec => []ReportSound
<1>1. LabInv => ReportSound
  BY OutcomesAreOK, MetricsSound DEF LabInv, ReportSound
<1>. QED
  BY <1>1, InitLabInv, NextLabInv, PTL DEF LabSpec

(***************************************************************************)
(* The rules on the payments of a run.                                      *)
(***************************************************************************)
Rules == DetectorsOf("rules_only")

LEMMA RulesAre == Rules = Detectors \ {"ml"}
  BY DEF Rules, DetectorsOf

(* The points of one detector.                                              *)
LEMMA SilentPoints ==
  ASSUME NEW x, NEW d, SignalOf(d, x) = Silent PROVE PointsOf(d, x, Rules) = 0
<1>1. Silent.value = 0
  BY DEF Silent, Raise
<1>2. Weight(Silent.severity) * 0 = 0
  <2>1. Silent.severity = "LOW"
    BY DEF Silent, Raise
  <2>. QED
    BY <2>1, Weights
<1>. QED
  BY <1>1, <1>2 DEF PointsOf

LEMMA RaisedPoints ==
  ASSUME NEW x, NEW d \in Detectors, d # "ml", NEW n, NEW s, NEW v, SignalOf(d, x) = Raise(n, s, v)
  PROVE  PointsOf(d, x, Rules) = Weight(s) * v
<1>1. d \in Rules
  BY RulesAre
<1>2. Raise(n, s, v).severity = s /\ Raise(n, s, v).value = v
  BY DEF Raise
<1>. QED
  BY <1>1, <1>2 DEF PointsOf

(* The points of a legitimate payment: its device is new and its amount has *)
(* no history, or its amount is at most eight times the average.            *)
Bland(x) ==
  /\ ~ x.micro /\ x.velocity <= 5 /\ x.distance <= 1000 /\ x.failures < 3
  /\ x.ipCustomers <= 5
  /\ \/ x.newDevice /\ x.multiple = 0
     \/ ~ x.newDevice /\ x.deviceCustomers <= 3 /\ x.multiple <= 80

LEMMA LegitPoints ==
  ASSUME NEW x \in Context, Bland(x)
  PROVE  Points(x, Rules) <= 360000
<1>1. /\ PointsOf("velocity", x, Rules) = 0 /\ PointsOf("geography", x, Rules) = 0
      /\ PointsOf("failures", x, Rules) = 0 /\ PointsOf("ip", x, Rules) = 0
      /\ PointsOf("micro", x, Rules) = 0
  <2>1. VelocityAnomaly(x) = Silent
    BY ContextType DEF Bland, VelocityAnomaly
  <2>2. GeographicAnomaly(x) = Silent
    BY ContextType DEF Bland, GeographicAnomaly
  <2>3. FailedPaymentSequence(x) = Silent
    BY ContextType DEF Bland, FailedPaymentSequence
  <2>4. SharedIp(x) = Silent
    BY ContextType DEF Bland, SharedIp
  <2>5. MicroTransaction(x) = Silent
    BY DEF Bland, MicroTransaction
  <2>. QED
    BY <2>1, <2>2, <2>3, <2>4, <2>5, Signals, SilentPoints, Zenon
<1>2. PointsOf("ml", x, Rules) = 0
  BY RulesAre DEF PointsOf
<1>3. PointsOf("amount", x, Rules) + PointsOf("device", x, Rules) <= 360000
  <2>1. CASE x.newDevice /\ x.multiple = 0
    <3>1. AmountAnomaly(x) = Silent
      BY <2>1 DEF AmountAnomaly
    <3>2. PointsOf("amount", x, Rules) = 0
      BY <3>1, Signals, SilentPoints, Zenon
    <3>3. SignalOf("device", x) = Raise("new_device", "MEDIUM", 3600)
      BY <2>1, Signals DEF DeviceAnomaly
    <3>4. PointsOf("device", x, Rules) = 45 * 3600
      BY <3>3, RaisedPoints, Weights DEF Detectors
    <3>. QED
      BY <3>2, <3>4
  <2>2. CASE ~ x.newDevice /\ x.deviceCustomers <= 3 /\ x.multiple <= 80
    <3>1. DeviceAnomaly(x) = Silent
      BY <2>2, ContextType DEF DeviceAnomaly
    <3>2. PointsOf("device", x, Rules) = 0
      BY <3>1, Signals, SilentPoints, Zenon
    <3>3. CASE x.multiple > 50
      <4>1. Least(60 * x.multiple, One) \in Nat /\ Least(60 * x.multiple, One) <= 4800
        BY <2>2, <3>3, ContextType DEF Least, One
      <4>2. SignalOf("amount", x) = Raise("amount_anomaly", "HIGH", Least(60 * x.multiple, One))
        BY <3>3, Signals DEF AmountAnomaly
      <4>3. PointsOf("amount", x, Rules) = 75 * Least(60 * x.multiple, One)
        BY <4>2, RaisedPoints, Weights DEF Detectors
      <4>. QED
        BY <3>2, <4>1, <4>3
    <3>4. CASE ~ (x.multiple > 50)
      <4>1. AmountAnomaly(x) = Silent
        BY <3>4 DEF AmountAnomaly
      <4>2. PointsOf("amount", x, Rules) = 0
        BY <4>1, Signals, SilentPoints, Zenon
      <4>. QED
        BY <3>2, <4>2
    <3>. QED
      BY <3>3, <3>4
  <2>. QED
    BY <2>1, <2>2 DEF Bland
<1>4. /\ PointsOf("amount", x, Rules) \in Nat /\ PointsOf("device", x, Rules) \in Nat
  BY PointsOfType DEF Detectors
<1>. QED
  BY <1>1, <1>2, <1>3, <1>4 DEF Points

LEMMA LegitScore ==
  ASSUME NEW x \in Context, Bland(x)
  PROVE  ~ (Score(x, Rules) > 60)
<1>1. Points(x, Rules) \in Nat /\ Points(x, Rules) <= 360000
  BY LegitPoints, PointsType
<1>2. RoundHalfEven(Points(x, Rules)) \in Nat /\ RoundHalfEven(Points(x, Rules)) <= 60
  <2>1. RoundHalfEven(360000) = 60
    BY DEF RoundHalfEven, One
  <2>. QED
    BY <1>1, <2>1, RoundMonotone, RoundType
<1>. QED
  BY <1>2 DEF Score, Least

(* A payment more than 5000 kilometres from home raises the alarm.          *)
LEMMA FarScore ==
  ASSUME NEW x \in Context, x.distance > 5000
  PROVE  Score(x, Rules) > 60
<1>1. SignalOf("geography", x) = Raise("geographic_anomaly", "HIGH", 6000)
  BY Signals DEF GeographicAnomaly, One
<1>2. PointsOf("geography", x, Rules) = 450000
  BY <1>1, RaisedPoints, Weights DEF Detectors
<1>3. Points(x, Rules) \in Nat /\ Points(x, Rules) >= 450000
  BY <1>2, PointsOfType DEF Points, Detectors
<1>4. RoundHalfEven(Points(x, Rules)) \in Nat /\ RoundHalfEven(Points(x, Rules)) >= 75
  <2>1. RoundHalfEven(450000) = 75
    BY DEF RoundHalfEven, One
  <2>. QED
    BY <1>3, <2>1, RoundMonotone, RoundType
<1>. QED
  BY <1>4 DEF Score, Least

(***************************************************************************)
(* The features of a payment whose customer has a bland past.               *)
(***************************************************************************)
(* A sum of terms that are at least an eighth of a number.                  *)
LEMMA SumsAtLeast ==
  ASSUME NEW S, IsFiniteSet(S), NEW v, NEW g, Sums(v, g, S), NEW c \in Nat,
         \A x \in S : v[x] \in Nat /\ c <= 8 * v[x]
  PROVE  c * Cardinality(S) <= 8 * g[S]
<1>. DEFINE Fits(s) == g[s] \in Nat /\ c * Cardinality(s) <= 8 * g[s]
           Bad == {s \in SUBSET S : ~ Fits(s)}
<1>1. SUFFICES ASSUME Bad # {} PROVE FALSE
  OBVIOUS
<1>2. PICK s \in Bad : \A u \in Bad : ~ (u \subseteq s /\ u # s)
  <2>1. Bad \subseteq SUBSET S
    OBVIOUS
  <2>. HIDE DEF Bad
  <2>. QED
    BY <1>1, <2>1, Minimal
<1>3. g[s] = IF s = {} THEN 0 ELSE v[Pick(s)] + g[Rest(s)]
  BY <1>2, SumsAt
<1>4. s # {}
  <2>1. c * 0 = 0 /\ c * 0 <= 8 * 0
    OBVIOUS
  <2>2. Cardinality({}) = 0
    BY FS_EmptySet
  <2>3. s = {} => g[s] = 0 /\ Cardinality(s) = 0
    BY <1>3, <2>2
  <2>4. s = {} => Fits(s)
    BY <2>1, <2>3
  <2>5. ~ Fits(s)
    BY <1>2
  <2>. QED
    BY <2>4, <2>5
<1>5. Pick(s) \in S /\ Fits(Rest(s))
  BY <1>2, <1>4, RestIsSmaller
<1>6. Cardinality(s) \in Nat /\ Cardinality(s) > 0 /\ Cardinality(Rest(s)) = Cardinality(s) - 1
  <2>1. IsFiniteSet(s)
    BY <1>2, FS_Subset
  <2>2. Cardinality(s) \in Nat /\ Cardinality(s) # 0
    BY <1>4, <2>1, FS_EmptySet, FS_CardinalityType
  <2>3. Cardinality(Rest(s)) = Cardinality(s) - 1
    BY <1>4, <2>1, RestIsSmaller, FS_RemoveElement DEF Rest
  <2>. QED
    BY <2>2, <2>3
<1>7. ASSUME NEW n \in Nat PROVE c + c * (n - 1) = c * n
  OBVIOUS
<1>8. ~ Fits(s)
  BY <1>2
<1>9. v[Pick(s)] \in Nat /\ c <= 8 * v[Pick(s)]
  BY <1>5
<1>. QED
  BY <1>3, <1>4, <1>5, <1>6, <1>7, <1>8, <1>9

(* A share of the average, rounded up, from a share of the total.           *)
LEMMA ShareBound ==
  ASSUME NEW m \in Nat, NEW total \in Nat \ {0}, m <= 80 * total
  PROVE  (m + total - 1) \div total <= 80
<1>. DEFINE q == (m + total - 1) \div total
           e == m + total - 1
<1>1. e \in Nat /\ e < 81 * total
  OBVIOUS
<1>2. q \in Nat /\ q * total <= e
  OBVIOUS
<1>. HIDE DEF q, e
<1>3. q * total < 81 * total
  BY <1>1, <1>2
<1>4. ~ (q >= 81)
  <2>. SUFFICES ASSUME q >= 81 PROVE FALSE
    OBVIOUS
  <2>1. q * total >= 81 * total
    BY <1>2
  <2>. QED
    BY <1>1, <1>2, <1>3, <2>1
<1>5. q <= 80
  BY <1>2, <1>4
<1>. QED
  BY <1>5 DEF q

(* The amount is at most eight times the average when it is at most eight   *)
(* times each.                                                              *)
LEMMA MultipleBound ==
  ASSUME LogOK, NEW r \in Requests, \A i \in Earlier(r) : r.amount <= 8 * Paid(i).amount
  PROVE  /\ Multiple(r) <= 80
         /\ Earlier(r) = {} => Multiple(r) = 0
<1>. DEFINE S == Earlier(r)
           total == TotalOf("amount", S)
           n == Cardinality(S)
<1>1. S \in SUBSET DOMAIN log
  BY DEF Earlier
<1>2. IsFiniteSet(S) /\ n \in Nat /\ r.amount \in Nat /\ \A i \in S : Paid(i).amount \in Nat
  BY <1>1, IndexSets, LogType, RequestType
<1>3. PICK g : total = g[S] /\ Sums([i \in S |-> Paid(i)["amount"]], g, S)
  BY <1>2, TotalIsSum
<1>4. total \in Nat
  BY <1>2, TotalType
<1>5. r.amount * n <= 8 * total
  <2>. DEFINE v == [i \in S |-> Paid(i)["amount"]]
  <2>1. \A i \in S : v[i] \in Nat /\ r.amount <= 8 * v[i]
    BY <1>2
  <2>. HIDE DEF v, S
  <2>. QED
    BY <1>2, <1>3, <2>1, SumsAtLeast DEF v
<1>6. S = {} => total = 0
  BY <1>3, SumsAt
<1>7. Multiple(r) = IF total = 0 THEN 0 ELSE (10 * r.amount * n + total - 1) \div total
  BY DEF Multiple
<1>. HIDE DEF S, total, n
<1>8. 10 * r.amount * n = 10 * (r.amount * n) /\ r.amount * n \in Nat
  BY <1>2
<1>9. 10 * r.amount * n \in Nat /\ 10 * r.amount * n <= 80 * total
  BY <1>4, <1>5, <1>8
<1>10. total # 0 => (10 * r.amount * n + total - 1) \div total <= 80
  BY <1>4, <1>9, ShareBound
<1>. QED
  BY <1>6, <1>7, <1>10 DEF S

(* The distance of a payment from a customer's only place, 0.               *)
LEMMA DistanceFromHome ==
  ASSUME LogOK, NEW r \in Requests, r.place \in Nat,
         \A i \in Earlier(r) : Paid(i).place = 0
  PROVE  /\ Distance(r) \in {0, r.place}
         /\ Earlier(r) # {} /\ (\A i \in Earlier(r) : Completed(i)) => Distance(r) = r.place
<1>. DEFINE E == {i \in Earlier(r) : Paid(i).place # Absent /\ Completed(i)}
           S == Newest(E, 10)
<1>1. S \in SUBSET E /\ E \in SUBSET Earlier(r) /\ Earlier(r) \in SUBSET DOMAIN log
  BY DEF Newest, Earlier
<1>2. r.place # Absent
  BY HistoryAssumption
<1>3. S = {} => Distance(r) = 0
  BY DEF Distance
<1>4. S # {} => Distance(r) = r.place
  <2>. SUFFICES ASSUME S # {} PROVE Distance(r) = r.place
    OBVIOUS
  <2>1. IsFiniteSet(S) /\ Cardinality(S) \in Nat /\ Cardinality(S) > 0
    BY <1>1, IndexSets
  <2>2. PICK g : TotalOf("place", S) = g[S] /\ Sums([i \in S |-> Paid(i)["place"]], g, S)
    BY <2>1, TotalIsSum
  <2>3. TotalOf("place", S) = 0 * Cardinality(S)
    <3>. DEFINE v == [i \in S |-> Paid(i)["place"]]
    <3>1. \A i \in S : v[i] = 0
      BY <1>1
    <3>. HIDE DEF S, v
    <3>. QED
      BY <2>1, <2>2, <3>1, SumsConstant DEF v
  <2>4. TotalOf("place", S) \div Cardinality(S) = 0
    BY <2>1, <2>3, MeanOfOne
  <2>5. Distance(r) = Most(r.place - 0, 0 - r.place)
    BY <1>2, <2>4 DEF Distance
  <2>. QED
    BY <2>5 DEF Most
<1>5. ASSUME Earlier(r) # {}, \A i \in Earlier(r) : Completed(i) PROVE S # {}
  <2>1. 0 # Absent
    BY HistoryAssumption
  <2>2. E = Earlier(r)
    BY <1>5, <2>1
  <2>3. Len(log) \in Nat /\ Earlier(r) \in SUBSET (1..Len(log))
    BY <1>1, LogType
  <2>4. PICK i \in Earlier(r) : \A j \in Earlier(r) : j <= i
    BY <1>5, <2>3, LastExists
  <2>5. {j \in Earlier(r) : j > i} = {}
    BY <2>3, <2>4
  <2>. QED
    BY <2>2, <2>4, <2>5, FS_EmptySet DEF Newest
<1>. HIDE DEF S
<1>. QED
  BY <1>3, <1>4, <1>5

(* No payment of the log failed, so no sequence of failures is found.       *)
LEMMA NoFailures ==
  ASSUME LogOK, NEW r PROVE Failures(r) = 0
<1>. DEFINE S == Newest(Earlier(r), 10)
           F == {i \in S : \A j \in S : j >= i => log[j].status = "failed"}
<1>1. S \in SUBSET DOMAIN log
  BY DEF Newest, Earlier
<1>2. \A i \in S : i >= i /\ log[i].status # "failed"
  BY <1>1, LogType
<1>. HIDE DEF S
<1>3. F = {}
  BY <1>2
<1>4. Failures(r) = Cardinality(F)
  BY DEF Failures, S
<1>. QED
  BY <1>3, <1>4, FS_EmptySet

(* Recent payments of the customer are among the earlier ones.              *)
LEMMA VelocityBound ==
  ASSUME LogOK, NEW r
  PROVE  /\ Features(r).velocity <= Cardinality(Earlier(r))
         /\ Features(r).velocity \in Nat /\ Cardinality(Earlier(r)) \in Nat
<1>1. {i \in Earlier(r) : i > old} \in SUBSET Earlier(r) /\ Earlier(r) \in SUBSET DOMAIN log
  BY DEF Earlier
<1>2. Features(r).velocity = Cardinality({i \in Earlier(r) : i > old})
  BY DEF Features
<1>. QED
  BY <1>1, <1>2, IndexSets, FS_Subset

(***************************************************************************)
(* Plans on which the rules tell frauds from other payments.                *)
(***************************************************************************)
(* The earlier payments of the customer of payment i.                       *)
Past(p, i) == {j \in 1..i - 1 : p[j].customer = p[i].customer}

(* A legitimate payment: at home, five earlier ones at most, all of them    *)
(* legitimate, from the same device and address, and with amounts of the    *)
(* same size; nobody else has the device once it is known.                  *)
BlandAt(p, i) ==
  /\ p[i].amount >= 250 /\ p[i].place = 0 /\ Cardinality(Past(p, i)) <= 5
  /\ \A j \in Past(p, i) :
       /\ ~ p[j].fraud /\ p[j].device = p[i].device /\ p[j].ip = p[i].ip
       /\ p[j].place = 0 /\ p[i].amount <= 8 * p[j].amount
  /\ Past(p, i) # {} =>
       \A j \in 1..i - 1 : p[j].device = p[i].device => p[j].customer = p[i].customer

(* An attack from far away: on a customer who was at home before.           *)
FarAt(p, i) == Past(p, i) # {} /\ \A j \in Past(p, i) : p[j].place = 0

Separable(p) ==
  \A i \in DOMAIN p :
    /\ ~ p[i].fraud => BlandAt(p, i)
    /\ p[i].place = Far => FarAt(p, i)

(* The payments so far are those of the plan, and those that were no alarm  *)
(* were completed.                                                          *)
Simulated ==
  /\ LogOK /\ Len(log) < Len(plan)
  /\ \A i \in 1..Len(log) : Paid(i) = plan[i]

LEMMA EarlierIsPast ==
  ASSUME Simulated, NEW k, k = Len(log) + 1
  PROVE  /\ k \in DOMAIN plan /\ plan[k] \in Requests
         /\ Earlier(plan[k]) = Past(plan, k) /\ Past(plan, k) = Before(k)
         /\ Before(k) \in SUBSET (1..Len(log)) /\ DOMAIN log = 1..Len(log) /\ Len(log) \in Nat
<1>1. Len(log) \in Nat /\ DOMAIN log = 1..Len(log) /\ Len(plan) \in Nat
      /\ DOMAIN plan = 1..Len(plan)
  BY LogType, PlanType DEF Simulated
<1>2. k \in DOMAIN plan /\ plan[k] \in Requests
  BY <1>1 DEF Simulated, Requests
<1>3. 1..k - 1 = 1..Len(log)
  BY <1>1
<1>4. Past(plan, k) = Before(k) /\ Before(k) \in SUBSET (1..Len(log))
  BY <1>3 DEF Past, Before
<1>5. Earlier(plan[k]) = Past(plan, k)
  BY <1>1, <1>3 DEF Earlier, Past, Simulated
<1>. QED
  BY <1>1, <1>2, <1>4, <1>5

(* Customers at an address: those of the log, and more as time goes by.     *)
LEMMA AddressSharing ==
  ASSUME Simulated, NEW k, k = Len(log) + 1
  PROVE  /\ CustomersOf("ip", plan[k]) <= Most(1, Neighbours(k))
         /\ Neighbours(k) \in Nat
         /\ \A i \in 1..Len(log) :
              plan[i].ip = plan[k].ip => Neighbours(i) \in Nat /\ Neighbours(i) <= Neighbours(k)
<1>. DEFINE J(i) == {j \in 1..i - 1 : plan[j].ip = plan[i].ip}
           C(i) == {plan[j].customer : j \in J(i)}
<1>1. DOMAIN log = 1..Len(log) /\ Len(log) \in Nat
  BY EarlierIsPast
<1>2. \A i \in 1..k : IsFiniteSet(C(i))
  <2>. SUFFICES ASSUME NEW i \in 1..k PROVE IsFiniteSet(C(i))
    OBVIOUS
  <2>. DEFINE f == [j \in J(i) |-> plan[j].customer]
  <2>1. IsFiniteSet(1..i - 1)
    BY <1>1, FS_Interval
  <2>2. IsFiniteSet(J(i))
    BY <2>1, FS_Subset
  <2>3. f \in Surjection(J(i), C(i))
    BY DEF Surjection
  <2>. HIDE DEF f, J, C
  <2>. QED
    BY <2>2, <2>3, FS_Surjection
<1>3. \A i \in 1..k : Neighbours(i) = Cardinality(C(i))
  BY DEF Neighbours
<1>4. \A i \in 1..Len(log) : plan[i].ip = plan[k].ip => C(i) \in SUBSET C(k)
  <2>. SUFFICES ASSUME NEW i \in 1..Len(log), plan[i].ip = plan[k].ip PROVE C(i) \in SUBSET C(k)
    OBVIOUS
  <2>1. J(i) \in SUBSET J(k)
    BY <1>1
  <2>. HIDE DEF J
  <2>. QED
    BY <2>1
<1>5. k \in 1..k /\ \A i \in 1..Len(log) : i \in 1..k
  BY <1>1
<1>6. CustomersOf("ip", plan[k]) \in {1, Most(1, Cardinality(C(k)))}
  <2>. DEFINE D == {j \in DOMAIN log : Paid(j)["ip"] = plan[k]["ip"]}
  <2>1. D = J(k)
    BY <1>1 DEF Simulated
  <2>2. {Paid(j).customer : j \in D} = C(k)
    BY <1>1, <2>1 DEF Simulated
  <2>3. CustomersOf("ip", plan[k]) =
          IF plan[k]["ip"] = Absent THEN 1 ELSE Most(1, Cardinality({Paid(j).customer : j \in D}))
    BY DEF CustomersOf
  <2>. HIDE DEF D, C
  <2>. QED
    BY <2>2, <2>3
<1>. HIDE DEF C
<1>7. \A i \in 1..k : Cardinality(C(i)) \in Nat
  BY <1>2, FS_CardinalityType
<1>8. \A i \in 1..Len(log) : plan[i].ip = plan[k].ip => Cardinality(C(i)) <= Cardinality(C(k))
  BY <1>2, <1>4, <1>5, FS_Subset
<1>. QED
  BY <1>3, <1>5, <1>6, <1>7, <1>8 DEF Most

(* A device that a customer has used without being refused is not new, and  *)
(* if nobody else uses it no one shares it.                                 *)
LEMMA KnownDevice ==
  ASSUME Simulated, NEW k, k = Len(log) + 1, plan[k].device # Absent, Past(plan, k) # {},
         \A j \in Past(plan, k) : plan[j].device = plan[k].device /\ Completed(j),
         \A j \in 1..k - 1 : plan[j].device = plan[k].device => plan[j].customer = plan[k].customer
  PROVE  ~ NewDevice(plan[k]) /\ CustomersOf("device", plan[k]) <= 3
<1>. DEFINE r == plan[k]
           D == {j \in DOMAIN log : Paid(j)["device"] = r["device"]}
           C == {Paid(j).customer : j \in D}
<1>1. /\ Earlier(r) = Past(plan, k) /\ Past(plan, k) \in SUBSET (1..Len(log))
      /\ DOMAIN log = 1..Len(log) /\ Len(log) \in Nat
  BY EarlierIsPast
<1>2. \A j \in 1..Len(log) : Paid(j) = plan[j] /\ j \in 1..k - 1
  BY <1>1 DEF Simulated
<1>3. ~ NewDevice(r)
  BY <1>1, <1>2 DEF NewDevice
<1>4. C \in SUBSET {r.customer}
  BY <1>1, <1>2
<1>5. CustomersOf("device", r) = Most(1, Cardinality(C))
  BY DEF CustomersOf
<1>. HIDE DEF C
<1>6. Cardinality(C) \in Nat /\ Cardinality(C) <= 1
  <2>1. IsFiniteSet({r.customer}) /\ Cardinality({r.customer}) = 1
    BY FS_Singleton
  <2>2. IsFiniteSet(C) /\ Cardinality(C) <= Cardinality({r.customer})
    BY <1>4, <2>1, FS_Subset
  <2>. QED
    BY <2>1, <2>2, FS_CardinalityType
<1>. QED
  BY <1>3, <1>5, <1>6 DEF Most

(* The next payment: no alarm for a legitimate one at an address of five    *)
(* customers at most, an alarm for an attack from far away.                 *)
LEMMA LegitJudged ==
  ASSUME Simulated, NEW k, k = Len(log) + 1, BlandAt(plan, k), Neighbours(k) <= 5,
         plan[k].device # Absent,
         \A i \in 1..Len(log) : ~ plan[i].fraud /\ Neighbours(i) <= 5 => Completed(i)
  PROVE  ~ (Score(Features(plan[k]), Rules) > 60)
<1>. DEFINE r == plan[k]
           P == Past(plan, k)
<1>1. /\ r \in Requests /\ Earlier(r) = P /\ P \in SUBSET (1..Len(log)) /\ Len(log) \in Nat
      /\ LogOK /\ \A i \in 1..Len(log) : Paid(i) = plan[i]
  BY EarlierIsPast DEF Simulated
<1>2. \A j \in P : ~ plan[j].fraud /\ plan[j].device = r.device /\ plan[j].ip = r.ip
                   /\ plan[j].place = 0 /\ r.amount <= 8 * plan[j].amount
  BY DEF BlandAt
<1>3. \A j \in P : Completed(j)
  <2>. SUFFICES ASSUME NEW j \in P PROVE Completed(j)
    OBVIOUS
  <2>1. j \in 1..Len(log) /\ plan[j].ip = plan[k].ip /\ ~ plan[j].fraud
    BY <1>1, <1>2
  <2>2. Neighbours(j) <= 5
    BY <2>1, AddressSharing
  <2>. QED
    BY <2>1, <2>2
<1>4. r.amount >= 250 /\ r.place = 0 /\ Cardinality(P) <= 5
      /\ (P # {} => \A j \in 1..k - 1 : plan[j].device = r.device => plan[j].customer = r.customer)
  BY DEF BlandAt
<1>5. Features(r) \in Context /\ (Features(r).micro <=> r.amount < 250)
  BY <1>1, FeaturesType
<1>6. r.amount \in Nat
  BY <1>1, RequestType
<1>7. /\ Features(r).multiple = Multiple(r) /\ Features(r).distance = Distance(r)
      /\ Features(r).failures = Failures(r) /\ Features(r).ipCustomers = CustomersOf("ip", r)
      /\ Features(r).newDevice = NewDevice(r)
      /\ Features(r).deviceCustomers = CustomersOf("device", r)
  BY DEF Features
<1>. HIDE DEF r, P
<1>8. ~ Features(r).micro
  <2>1. ~ (r.amount < 250)
    BY <1>4, <1>6
  <2>. QED
    BY <1>5, <2>1, Zenon
<1>9. Features(r).velocity <= 5
  BY <1>1, <1>4, VelocityBound
<1>10. Features(r).distance <= 1000
  <2>1. \A i \in Earlier(r) : Paid(i).place = 0
    BY <1>1, <1>2
  <2>2. Distance(r) = 0
    BY <1>1, <1>4, <2>1, DistanceFromHome
  <2>. QED
    BY <1>7, <2>2
<1>11. Features(r).failures < 3
  BY <1>1, <1>7, NoFailures
<1>12. Features(r).ipCustomers <= 5
  <2>1. CustomersOf("ip", r) <= Most(1, Neighbours(k)) /\ Neighbours(k) \in Nat
        /\ CustomersOf("ip", r) \in Nat
    BY <1>1, AddressSharing, CustomersType DEF r
  <2>. QED
    BY <1>7, <2>1 DEF Most
<1>13. \A i \in Earlier(r) : r.amount <= 8 * Paid(i).amount
  BY <1>1, <1>2
<1>14. CASE P = {}
  <2>1. NewDevice(r)
    BY <1>1, <1>14 DEF NewDevice
  <2>2. Multiple(r) = 0
    BY <1>1, <1>13, <1>14, MultipleBound
  <2>3. Features(r).newDevice /\ Features(r).multiple = 0
    BY <1>7, <2>1, <2>2
  <2>4. Bland(Features(r))
    BY <1>8, <1>9, <1>10, <1>11, <1>12, <2>3, Zenon DEF Bland
  <2>. QED
    BY <1>5, <2>4, LegitScore DEF r
<1>15. CASE P # {}
  <2>1. ~ NewDevice(r) /\ CustomersOf("device", r) <= 3
    BY <1>2, <1>3, <1>4, <1>15, KnownDevice DEF r, P
  <2>2. Multiple(r) <= 80
    BY <1>1, <1>13, MultipleBound
  <2>3. ~ Features(r).newDevice /\ Features(r).deviceCustomers <= 3 /\ Features(r).multiple <= 80
    BY <1>7, <2>1, <2>2, Zenon
  <2>4. Bland(Features(r))
    BY <1>8, <1>9, <1>10, <1>11, <1>12, <2>3, Zenon DEF Bland
  <2>. QED
    BY <1>5, <2>4, LegitScore DEF r
<1>. QED
  BY <1>14, <1>15

LEMMA FarJudged ==
  ASSUME Simulated, NEW k, k = Len(log) + 1, FarAt(plan, k), plan[k].place = Far,
         \A i \in Before(k) : Completed(i)
  PROVE  Score(Features(plan[k]), Rules) > 60
<1>. DEFINE r == plan[k]
<1>1. /\ r \in Requests /\ Earlier(r) = Before(k) /\ Before(k) \in SUBSET (1..Len(log))
      /\ Past(plan, k) = Before(k)
      /\ LogOK /\ \A i \in 1..Len(log) : Paid(i) = plan[i]
  BY EarlierIsPast DEF Simulated
<1>2. Earlier(r) # {} /\ \A i \in Earlier(r) : Paid(i).place = 0 /\ Completed(i)
  BY <1>1 DEF FarAt
<1>3. r.place = 9000 /\ r.place \in Nat
  BY DEF Far
<1>. HIDE DEF r
<1>4. Distance(r) = 9000
  BY <1>1, <1>2, <1>3, DistanceFromHome
<1>5. Features(r) \in Context /\ Features(r).distance = Distance(r)
  BY <1>1, FeaturesType DEF Features
<1>. QED
  BY <1>4, <1>5, FarScore DEF r

(* The run follows the plan, and what was no alarm was completed.           *)
RunInv ==
  /\ Len(log) = arrived /\ Len(outcomes) = arrived
  /\ \A i \in 1..arrived : Paid(i) = plan[i]
  /\ \A i \in 1..arrived : ~ outcomes[i].flagged => Completed(i)
  /\ RulesSeparate

LEMMA InitRunInv == LabInit => RunInv
  BY DEF LabInit, HistoryInit, RunInv, RulesSeparate

LEMMA SimulateRunInv ==
  ASSUME \A p \in Plans : Separable(p)
  PROVE  LabInv /\ RunInv /\ SimulatePayment => RunInv'
<1>. SUFFICES ASSUME LabInv, RunInv, SimulatePayment PROVE RunInv'
  OBVIOUS
<1>0. PICK k : k = arrived + 1
  OBVIOUS
<1>. DEFINE r == plan[k]
           score == Score(Features(r), Rules)
           flagged == Decide(score) \in {"BLOCK", "REVIEW"}
           o == [fraud |-> r.fraud, flagged |-> flagged, score |-> score]
           status == FinalStatus(Decide(score))
           entry == [request |-> r, status |-> status]
<1>1. /\ plan' = plan /\ arrived' = k
      /\ log' = Append(log, entry) /\ outcomes' = Append(outcomes, o)
  BY <1>0 DEF SimulatePayment, Rules
<1>2. /\ arrived < Len(plan) /\ arrived = Len(log) /\ arrived = Len(outcomes) /\ arrived \in Nat
      /\ log \in Seq(Entries) /\ outcomes \in Seq(Outcomes)
      /\ DOMAIN log = 1..arrived /\ DOMAIN outcomes = 1..arrived
  <2>1. arrived < Len(plan)
    BY DEF SimulatePayment
  <2>2. LogOK /\ Len(log) \in Nat /\ DOMAIN log = 1..Len(log)
    BY LogType DEF LabInv
  <2>3. outcomes \in Seq(Outcomes) /\ DOMAIN outcomes = 1..Len(outcomes)
    BY LenProperties DEF LabInv
  <2>. QED
    BY <2>1, <2>2, <2>3 DEF LabInv, RunInv, LogOK
<1>3. Simulated /\ k = Len(log) + 1
  BY <1>0, <1>2 DEF Simulated, LabInv, RunInv
<1>4. k \in DOMAIN plan /\ r \in Requests /\ Before(k) \in SUBSET (1..arrived)
  BY <1>0, <1>2, <1>3, EarlierIsPast
<1>5. plan \in Plans /\ Separable(plan)
  BY DEF LabInv, LogOK
<1>6. r.device # Absent /\ r.fraud \in BOOLEAN
  BY <1>4, <1>5, LabAssumption
<1>7. score \in 0..100 /\ (flagged <=> score > 60) /\ (~ flagged => status = "completed")
  <2>1. Features(r) \in Context
    BY <1>3, <1>4, FeaturesType DEF Simulated
  <2>2. Points(Features(r), Rules) <= Points(Features(r), Rules)
    BY <2>1, PointsType
  <2>3. score \in 0..100
    BY <2>1, <2>2, ScoreMonotone
  <2>. HIDE DEF score
  <2>. QED
    BY <2>3 DEF Decide, FinalStatus
<1>8. ASSUME ~ r.fraud, Neighbours(k) <= 5 PROVE ~ flagged
  <2>1. BlandAt(plan, k)
    BY <1>4, <1>5, <1>8 DEF Separable
  <2>2. \A i \in 1..Len(log) : ~ plan[i].fraud /\ Neighbours(i) <= 5 => Completed(i)
    <3>. SUFFICES ASSUME NEW i \in 1..Len(log), ~ plan[i].fraud, Neighbours(i) <= 5
                  PROVE  Completed(i)
      OBVIOUS
    <3>1. i \in DOMAIN outcomes /\ i \in 1..arrived /\ i \in DOMAIN log
      BY <1>0, <1>2, Zenon
    <3>2. ~ (Neighbours(i) > 5)
      <4>1. plan[i].ip = plan[i].ip /\ Neighbours(i) \in Nat
        <5>. DEFINE J == {j \in 1..i - 1 : plan[j].ip = plan[i].ip}
                   C == {plan[j].customer : j \in J}
                   f == [j \in J |-> plan[j].customer]
        <5>1. IsFiniteSet(1..i - 1)
          BY <1>0, <1>2, FS_Interval
        <5>2. IsFiniteSet(J)
          BY <5>1, FS_Subset
        <5>3. f \in Surjection(J, C)
          BY DEF Surjection
        <5>4. Neighbours(i) = Cardinality(C)
          BY DEF Neighbours
        <5>. HIDE DEF f, J, C
        <5>. QED
          BY <5>2, <5>3, <5>4, FS_Surjection, FS_CardinalityType
      <4>. QED
        BY <4>1
    <3>3. ~ outcomes[i].flagged
      BY <3>1, <3>2 DEF RunInv, RulesSeparate
    <3>. QED
      BY <3>1, <3>3 DEF RunInv
  <2>3. ~ (score > 60)
    BY <1>3, <1>6, <1>8, <2>1, <2>2, LegitJudged
  <2>. QED
    BY <1>7, <2>3, Zenon
<1>9. ASSUME r.place = Far, \A i \in Before(k) : Completed(i) PROVE flagged
  <2>1. FarAt(plan, k)
    BY <1>4, <1>5, <1>9 DEF Separable
  <2>2. score > 60
    BY <1>3, <1>9, <2>1, FarJudged
  <2>. QED
    BY <1>7, <2>2, Zenon
<1>10. entry \in Entries /\ o \in Outcomes
  <2>1. entry \in Entries
    BY <1>4 DEF Entries, FinalStatus
  <2>2. o \in Outcomes
    BY <1>6, <1>7, Alarm
  <2>. QED
    BY <2>1, <2>2
<1>11. /\ Len(log') = k /\ Len(outcomes') = k /\ DOMAIN outcomes' = 1..k /\ DOMAIN outcomes = 1..arrived
       /\ log'[k] = entry /\ outcomes'[k] = o
       /\ \A i \in 1..arrived : log'[i] = log[i] /\ outcomes'[i] = outcomes[i]
  <2>. HIDE DEF r, o, entry
  <2>. QED
    BY <1>0, <1>1, <1>2, <1>10, AppendProperties
<1>12. /\ entry.request = r /\ entry.status = status /\ o.flagged = flagged
  BY Zenon
<1>. HIDE DEF r, score, o, entry, status, flagged
<1>13. \A i \in 1..k : i = k \/ i \in 1..arrived
  BY <1>0, <1>2
<1>14. \A i \in 1..k : (Paid(i) = plan[i])'
  BY <1>1, <1>11, <1>12, <1>13 DEF Paid, RunInv, r
<1>15. \A i \in 1..arrived : Completed(i)' <=> Completed(i)
  BY <1>11 DEF Completed
<1>16. \A i \in 1..k : (~ outcomes[i].flagged => Completed(i))'
  <2>1. ~ outcomes'[k].flagged => Completed(k)'
    <3>1. ~ outcomes'[k].flagged <=> ~ flagged
      BY <1>11, <1>12
    <3>2. Completed(k)' <=> status = "completed"
      BY <1>11, <1>12 DEF Completed
    <3>. QED
      BY <1>7, <3>1, <3>2, Zenon
  <2>2. ASSUME NEW i \in 1..arrived PROVE ~ outcomes'[i].flagged => Completed(i)'
    <3>1. ~ outcomes[i].flagged => Completed(i)
      BY DEF RunInv
    <3>. QED
      BY <1>11, <1>15, <3>1
  <2>. QED
    BY <1>13, <2>1, <2>2
<1>17. \A i \in 1..k : (Neighbours(i) = Neighbours(i)') /\ (Before(i) = Before(i)')
  BY <1>1 DEF Neighbours, Before
<1>18. RulesSeparate'
  <2>. SUFFICES ASSUME NEW i \in 1..k
                PROVE  (/\ ~ plan[i].fraud /\ outcomes[i].flagged => Neighbours(i) > 5
                        /\ plan[i].place = Far /\ (\A j \in Before(i) : Completed(j))
                             => outcomes[i].flagged)'
    BY <1>11 DEF RulesSeparate
  <2>1. CASE i = k
    <3>1. ~ plan[k].fraud /\ flagged => Neighbours(k) > 5
      <4>1. Neighbours(k) \in Nat
        BY <1>3, AddressSharing
      <4>. QED
        BY <1>8, <4>1 DEF r
    <3>2. (\A j \in Before(k) : Completed(j)') => \A j \in Before(k) : Completed(j)
      BY <1>4, <1>15
    <3>3. plan[k].place = Far /\ (\A j \in Before(k) : Completed(j)') => flagged
      BY <1>9, <3>2 DEF r
    <3>4. outcomes'[k].flagged = flagged
      BY <1>11, <1>12
    <3>. QED
      BY <1>1, <1>17, <2>1, <3>1, <3>3, <3>4
  <2>2. CASE i \in 1..arrived
    <3>1. i \in DOMAIN outcomes /\ outcomes'[i] = outcomes[i]
      BY <1>11, <2>2
    <3>2. Before(i) \in SUBSET (1..arrived)
      BY <1>0, <1>2, <2>2 DEF Before
    <3>3. (\A j \in Before(i) : Completed(j)') => \A j \in Before(i) : Completed(j)
      BY <1>15, <3>2
    <3>4. /\ ~ plan[i].fraud /\ outcomes[i].flagged => Neighbours(i) > 5
          /\ plan[i].place = Far /\ (\A j \in Before(i) : Completed(j)) => outcomes[i].flagged
      BY <3>1 DEF RunInv, RulesSeparate
    <3>. QED
      BY <1>1, <1>17, <3>1, <3>3, <3>4
  <2>. QED
    BY <1>13, <2>1, <2>2
<1>. QED
  BY <1>1, <1>11, <1>14, <1>16, <1>18 DEF RunInv

LEMMA NextRunInv ==
  ASSUME \A p \in Plans : Separable(p)
  PROVE  LabInv /\ RunInv /\ [LabNext]_labVars => RunInv'
<1>. SUFFICES ASSUME LabInv, RunInv, [LabNext]_labVars PROVE RunInv'
  OBVIOUS
<1>1. CASE SimulatePayment
  BY <1>1, SimulateRunInv
<1>2. CASE UNCHANGED <<plan, arrived, log, outcomes>>
  BY <1>2 DEF RunInv, RulesSeparate, Paid, Completed, Neighbours, Before
<1>3. CASE FinishRun
  BY <1>2, <1>3 DEF FinishRun, historyVars
<1>4. CASE UNCHANGED labVars
  BY <1>2, <1>4 DEF labVars, historyVars
<1>. QED
  BY <1>1, <1>3, <1>4 DEF LabNext

(* On separable plans the rules tell frauds from other payments.            *)
LEMMA SeparablePlans ==
  ASSUME \A p \in Plans : Separable(p)
  PROVE  LabSpec => []RulesSeparate
<1>1. LabInv /\ RunInv /\ [LabNext]_labVars => RunInv'
  BY NextRunInv
<1>2. RunInv => RulesSeparate
  BY DEF RunInv
<1>. QED
  BY <1>1, <1>2, InitLabInv, NextLabInv, InitRunInv, PTL DEF LabSpec

(***************************************************************************)
(* The generators make separable plans.                                     *)
(***************************************************************************)
(* The length of a function on 1..n.                                        *)
Numbered(f, n) == f = [k \in 1..n |-> f[k]]

LEMMA LengthOf ==
  ASSUME NEW f, NEW n \in Nat, Numbered(f, n)
  PROVE  /\ Len(f) = n
         /\ \A S : (\A k \in 1..n : f[k] \in S) => f \in Seq(S)
<1>1. \A S : (\A k \in 1..n : f[k] \in S) => f \in Seq(S)
  <2>. SUFFICES ASSUME NEW S, \A k \in 1..n : f[k] \in S PROVE f \in Seq(S)
    OBVIOUS
  <2>1. f \in [1..n -> S]
    BY DEF Numbered
  <2>. QED
    BY <2>1, SeqDef
<1>2. f \in Seq({f[k] : k \in 1..n})
  BY <1>1
<1>3. Len(f) \in Nat /\ DOMAIN f = 1..Len(f)
  BY <1>2, LenProperties
<1>4. DOMAIN f = 1..n
  BY DEF Numbered
<1>5. Len(f) = n
  <2>. DEFINE l == Len(f)
  <2>1. l \in Nat /\ 1..l = 1..n
    BY <1>3, <1>4
  <2>. HIDE DEF l
  <2>2. (l # 0 => l \in 1..n) /\ (n # 0 => n \in 1..l)
    BY <2>1
  <2>3. l = n
    BY <2>1, <2>2
  <2>. QED
    BY <2>3 DEF l
<1>. QED
  BY <1>1, <1>5, Zenon

(* The first payments of two phases.                                        *)
LEMMA FirstOfIs ==
  ASSUME NEW n \in Nat, NEW a \in Nat, NEW b \in Nat, NEW f, NEW g,
         Numbered(f, a), Numbered(g, b)
  PROVE  /\ Len(FirstOf(n, f, g)) = Least(n, a + b)
         /\ DOMAIN FirstOf(n, f, g) = 1..Least(n, a + b)
        /\ Numbered(FirstOf(n, f, g), Least(n, a + b))
         /\ \A i \in 1..Least(n, a + b) :
              FirstOf(n, f, g)[i] = IF i <= a THEN f[i] ELSE g[i - a]
<1>. DEFINE S == {f[k] : k \in 1..a} \cup {g[k] : k \in 1..b}
           all == f \o g
           m == Least(n, a + b)
<1>1. (\A k \in 1..a : f[k] \in S) /\ (\A k \in 1..b : g[k] \in S)
  OBVIOUS
<1>. HIDE DEF S
<1>2. f \in Seq(S) /\ g \in Seq(S) /\ Len(f) = a /\ Len(g) = b
  BY <1>1, LengthOf, Zenon
<1>3. /\ all \in Seq(S) /\ Len(all) = a + b
      /\ \A i \in 1..a + b : all[i] = IF i <= a THEN f[i] ELSE g[i - a]
  BY <1>2, ConcatProperties
<1>4. m \in Nat /\ m <= a + b
  BY DEF Least
<1>5. \A i \in 1..m : all[i] \in S
  <2>1. \A i \in 1..m : i \in 1..Len(all)
    <3>. HIDE DEF all, m
    <3>. QED
      BY <1>3, <1>4
  <2>. HIDE DEF all, m
  <2>. QED
    BY <1>3, <2>1, ElementOfSeq
<1>6. FirstOf(n, f, g) = SubSeq(all, 1, m)
  BY <1>3 DEF FirstOf
<1>. HIDE DEF m, all
<1>7. /\ SubSeq(all, 1, m) \in Seq(S) /\ Len(SubSeq(all, 1, m)) = m
      /\ \A i \in 1..m : SubSeq(all, 1, m)[i] = all[i]
  <2>1. 1 \in Int /\ m \in Int /\ m - 1 + 1 = m /\ (IF 1 <= m THEN m - 1 + 1 ELSE 0) = m
    BY <1>4
  <2>2. \A i \in 1..m : 1 + i - 1 = i
    BY <1>4
  <2>3. /\ SubSeq(all, 1, m) \in Seq(S)
        /\ Len(SubSeq(all, 1, m)) = IF 1 <= m THEN m - 1 + 1 ELSE 0
        /\ \A i \in 1..m - 1 + 1 : SubSeq(all, 1, m)[i] = all[1 + i - 1]
    BY <1>5, <2>1, SubSeqProperties
  <2>. QED
    BY <2>1, <2>2, <2>3
<1>8. DOMAIN SubSeq(all, 1, m) = 1..m /\ Numbered(SubSeq(all, 1, m), m)
  <2>. DEFINE sub == SubSeq(all, 1, m)
  <2>1. sub \in Seq(S) /\ Len(sub) = m
    BY <1>7
  <2>. HIDE DEF sub
  <2>2. DOMAIN sub = 1..m /\ sub \in [1..m -> S]
    BY <2>1, LenProperties
  <2>3. Numbered(sub, m)
    BY <2>2 DEF Numbered
  <2>. QED
    BY <2>2, <2>3 DEF sub
<1>9. \A i \in 1..m : i \in 1..a + b
  BY <1>4
<1>. QED
  BY <1>3, <1>6, <1>7, <1>8, <1>9 DEF m

(* The payments of a generator: c is the customer, low the smallest usual   *)
(* amount.                                                                  *)
UsualOf(g, call, c, low, r) ==
  /\ r.customer = <<g, call, 0, c>> /\ r.device = <<g, 0, c>> /\ r.ip = HomeAddress(g)
  /\ ~ r.fraud /\ r.place = 0 /\ r.amount \in Nat /\ r.amount >= low /\ r.amount <= 8 * low

AttackOn(g, call, c, r) ==
  /\ r.customer = <<g, call, 0, c>> /\ r.device \in {<<g, 0, c>>, <<g, call, c>>}
  /\ r.fraud

(* A run: h usual payments of each of m customers, then an attack on each   *)
(* or another usual payment, or frauds that are not far away.               *)
RunOf(p, g, call, h, m, low) ==
  /\ low \in Nat /\ low >= 250 /\ h \in 2..5 /\ m \in Nat
  /\ Len(p) \in Nat /\ DOMAIN p = 1..Len(p) /\ Numbered(p, Len(p))
  /\ \A i \in DOMAIN p : i <= h * m => UsualOf(g, call, (i - 1) \div h + 1, low, p[i])
  /\ \/ \A i \in DOMAIN p : i > h * m =>
          /\ i - h * m \in 1..m
          /\ \/ UsualOf(g, call, i - h * m, low, p[i])
             \/ AttackOn(g, call, i - h * m, p[i])
     \/ \A i \in DOMAIN p : i > h * m => p[i].fraud /\ p[i].place # Far
  /\ \A i \in DOMAIN p : p[i].customer[2] = call /\ p[i].device[1] = g

(* Which payments are those of a customer.                                  *)
LEMMA Blocks ==
  ASSUME NEW h \in 2..5, NEW m \in Nat, NEW c \in 1..m
  PROVE  /\ \A i \in 1..h * m : (i - 1) \div h + 1 = c => i \in (c - 1) * h + 1..c * h
         /\ \E i \in 1..h * m : (i - 1) \div h + 1 = c
<1>. DEFINE first == (c - 1) * h + 1
<1>1. CASE h = 2
  <2>1. first \in 1..h * m /\ (first - 1) \div h + 1 = c
    BY <1>1
  <2>2. \A i \in 1..h * m : (i - 1) \div h + 1 = c => i \in (c - 1) * h + 1..c * h
    BY <1>1
  <2>. HIDE DEF first
  <2>. QED
    BY <2>1, <2>2
<1>2. CASE h = 3
  <2>1. first \in 1..h * m /\ (first - 1) \div h + 1 = c
    BY <1>2
  <2>2. \A i \in 1..h * m : (i - 1) \div h + 1 = c => i \in (c - 1) * h + 1..c * h
    BY <1>2
  <2>. HIDE DEF first
  <2>. QED
    BY <2>1, <2>2
<1>3. CASE h = 4
  <2>1. first \in 1..h * m /\ (first - 1) \div h + 1 = c
    BY <1>3
  <2>2. \A i \in 1..h * m : (i - 1) \div h + 1 = c => i \in (c - 1) * h + 1..c * h
    BY <1>3
  <2>. HIDE DEF first
  <2>. QED
    BY <2>1, <2>2
<1>4. CASE h = 5
  <2>1. first \in 1..h * m /\ (first - 1) \div h + 1 = c
    BY <1>4
  <2>2. \A i \in 1..h * m : (i - 1) \div h + 1 = c => i \in (c - 1) * h + 1..c * h
    BY <1>4
  <2>. HIDE DEF first
  <2>. QED
    BY <2>1, <2>2
<1>. QED
  BY <1>1, <1>2, <1>3, <1>4

LEMMA BlockOf ==
  ASSUME NEW h \in 2..5, NEW m \in Nat, NEW i \in 1..h * m
  PROVE  (i - 1) \div h + 1 \in 1..m
<1>1. CASE h = 2
  BY <1>1
<1>2. CASE h = 3
  BY <1>2
<1>3. CASE h = 4
  BY <1>3
<1>4. CASE h = 5
  BY <1>4
<1>. QED
  BY <1>1, <1>2, <1>3, <1>4

(* A customer's past is at most h payments long.                            *)
LEMMA PastIsShort ==
  ASSUME NEW h \in 2..5, NEW c \in Nat, NEW P, P \in SUBSET ((c - 1) * h + 1..c * h)
  PROVE  Cardinality(P) <= 5
<1>1. (c - 1) * h + 1 \in Int /\ c * h \in Int /\ c * h - ((c - 1) * h + 1) + 1 = h
  <2>1. c * h = (c - 1) * h + h /\ (c - 1) * h \in Int
    OBVIOUS
  <2>. QED
    BY <2>1
<1>. DEFINE lo == (c - 1) * h + 1
           hi == c * h
<1>2. IsFiniteSet(lo..hi) /\ Cardinality(lo..hi) = IF lo > hi THEN 0 ELSE hi - lo + 1
  BY <1>1, FS_Interval
<1>3. Cardinality(P) <= Cardinality(lo..hi) /\ IsFiniteSet(P)
  BY <1>2, FS_Subset
<1>4. Cardinality(P) \in Nat
  BY <1>3, FS_CardinalityType
<1>. HIDE DEF lo, hi
<1>. QED
  BY <1>1, <1>2, <1>3, <1>4 DEF lo, hi

(* Runs are separable.                                                      *)
LEMMA RunSeparable ==
  ASSUME NEW p, NEW g, NEW call, NEW h, NEW m, NEW low, RunOf(p, g, call, h, m, low)
  PROVE  Separable(p)
<1>. DEFINE a == h * m
           Who(i) == IF i <= a THEN (i - 1) \div h + 1 ELSE i - a
           Usual(i) == UsualOf(g, call, Who(i), low, p[i])
           Attack(i) == i > a /\ AttackOn(g, call, Who(i), p[i])
           Other(i) == i > a /\ p[i].fraud /\ p[i].place # Far
<1>1. /\ low \in Nat /\ low >= 250 /\ h \in 2..5 /\ m \in Nat /\ a \in Nat
      /\ Len(p) \in Nat /\ DOMAIN p = 1..Len(p)
  BY DEF RunOf
<1>2. \A i \in DOMAIN p : i <= a => Usual(i)
  BY DEF RunOf
<1>3. \/ \A i \in DOMAIN p : i > a => i - a \in 1..m /\ (Usual(i) \/ Attack(i))
      \/ \A i \in DOMAIN p : i > a => Other(i)
  <2>1. \A i \in DOMAIN p : i > a => Who(i) = i - a
    BY <1>1
  <2>. HIDE DEF a, Who
  <2>. QED
    BY <2>1 DEF RunOf, a
<1>4. \A c, d : <<g, call, 0, c>> = <<g, call, 0, d>> <=> c = d
  OBVIOUS
<1>5. \A r : \A c : UsualOf(g, call, c, low, r) =>
        /\ r.customer = <<g, call, 0, c>> /\ r.device = <<g, 0, c>> /\ r.ip = HomeAddress(g)
        /\ ~ r.fraud /\ r.place = 0 /\ r.amount \in Nat /\ r.amount >= low /\ r.amount <= 8 * low
  BY DEF UsualOf
<1>6. \A r : \A c : AttackOn(g, call, c, r) =>
        /\ r.customer = <<g, call, 0, c>> /\ r.device \in {<<g, 0, c>>, <<g, call, c>>}
        /\ r.fraud
  BY DEF AttackOn
<1>7. \A i \in DOMAIN p : Who(i) \in Int /\ (i <= a => Who(i) \in 1..m)
  <2>. SUFFICES ASSUME NEW i \in DOMAIN p PROVE Who(i) \in Int /\ (i <= a => Who(i) \in 1..m)
    OBVIOUS
  <2>1. i \in Nat \ {0}
    BY <1>1
  <2>2. CASE i <= a
    <3>1. i \in 1..h * m
      BY <1>1, <2>1, <2>2
    <3>2. (i - 1) \div h + 1 \in 1..m
      BY <1>1, <3>1, BlockOf
    <3>. HIDE DEF a
    <3>. QED
      BY <2>2, <3>2
  <2>3. CASE ~ (i <= a)
    <3>1. i - a \in Int
      BY <1>1, <2>1
    <3>. HIDE DEF a
    <3>. QED
      BY <2>3, <3>1
  <2>. QED
    BY <2>2, <2>3
<1>8. \A i \in DOMAIN p : i \in Nat /\ (i <= a \/ i > a) /\ \A j \in 1..i - 1 : j \in DOMAIN p /\ j < i
  <2>. HIDE DEF a
  <2>. QED
    BY <1>1
<1>. DEFINE Known == \A i \in DOMAIN p : i > a => i - a \in 1..m /\ (Usual(i) \/ Attack(i))
<1>9. \A i \in DOMAIN p : i > a => Who(i) = i - a /\ i \in Int
  <2>. HIDE DEF a
  <2>. QED
    BY <1>1
<1>10. \A i \in DOMAIN p : Usual(i) \/ Attack(i) => p[i].customer = <<g, call, 0, Who(i)>>
  BY <1>5, <1>6
<1>. HIDE DEF Who, a
(* An earlier payment of the same customer is a usual one of the history.   *)
<1>11. ASSUME NEW i \in DOMAIN p, Usual(i) \/ Attack(i), Known \/ i <= a, NEW j \in Past(p, i)
       PROVE  j \in DOMAIN p /\ j <= a /\ Usual(j) /\ Who(j) = Who(i)
  <2>1. j \in DOMAIN p /\ j < i /\ p[j].customer = p[i].customer /\ j \in Nat /\ i \in Nat
    <3>1. j \in 1..i - 1 /\ p[j].customer = p[i].customer
      BY DEF Past
    <3>. QED
      BY <1>8, <3>1
  <2>2. p[i].customer = <<g, call, 0, Who(i)>>
    BY <1>10, <1>11
  <2>3. CASE j <= a
    <3>1. Usual(j)
      BY <1>2, <2>1, <2>3
    <3>2. p[j].customer = <<g, call, 0, Who(j)>>
      BY <1>10, <2>1, <3>1
    <3>. QED
      BY <1>4, <2>1, <2>2, <2>3, <3>1, <3>2
  <2>4. CASE j > a
    <3>1. i > a /\ Known
      BY <1>1, <1>11, <2>1, <2>4
    <3>2. p[j].customer = <<g, call, 0, Who(j)>>
      BY <1>10, <2>1, <2>4, <3>1
    <3>3. Who(j) = Who(i) /\ Who(j) = j - a /\ Who(i) = i - a
      BY <1>4, <1>9, <2>1, <2>2, <2>4, <3>1, <3>2
    <3>4. j - a = i - a
      BY <3>3
    <3>5. FALSE
      BY <1>1, <2>1, <3>4
    <3>. QED
      BY <3>5
  <2>. QED
    BY <1>8, <2>1, <2>3, <2>4
<1>12. \A i \in DOMAIN p : Usual(i) \/ Attack(i) \/ Other(i)
  BY <1>2, <1>3, <1>8
<1>13. ASSUME NEW i \in DOMAIN p, ~ p[i].fraud PROVE BlandAt(p, i)
  <2>1. Usual(i) /\ (Known \/ i <= a)
    <3>1. Usual(i)
      BY <1>6, <1>12, <1>13
    <3>. QED
      BY <1>3, <1>8, <1>13, <3>1
  <2>2. /\ p[i].place = 0 /\ p[i].amount \in Nat /\ p[i].amount >= low /\ p[i].amount <= 8 * low
        /\ p[i].device = <<g, 0, Who(i)>> /\ p[i].ip = HomeAddress(g)
        /\ p[i].customer = <<g, call, 0, Who(i)>>
    BY <1>5, <2>1
  <2>3. \A j \in Past(p, i) : j \in DOMAIN p /\ j <= a /\ Usual(j) /\ Who(j) = Who(i)
    BY <1>11, <2>1
  <2>4. Cardinality(Past(p, i)) <= 5
    <3>1. CASE Past(p, i) = {}
      BY <3>1, FS_EmptySet
    <3>2. CASE Past(p, i) # {}
      <4>1. Who(i) \in 1..m
        BY <1>7, <2>3, <3>2
      <4>2. \A j \in Past(p, i) : j \in 1..h * m /\ (j - 1) \div h + 1 = Who(i)
        BY <1>1, <2>3 DEF Who, a
      <4>3. \A j \in Past(p, i) : j \in (Who(i) - 1) * h + 1..Who(i) * h
        BY <1>1, <4>1, <4>2, Blocks
      <4>4. PICK c \in 1..m : c = Who(i)
        BY <4>1
      <4>5. c \in Nat /\ Past(p, i) \in SUBSET ((c - 1) * h + 1..c * h)
        BY <4>3, <4>4
      <4>. QED
        BY <1>1, <4>5, PastIsShort
    <3>. QED
      BY <3>1, <3>2
  <2>5. \A j \in Past(p, i) :
          /\ ~ p[j].fraud /\ p[j].device = p[i].device /\ p[j].ip = p[i].ip
          /\ p[j].place = 0 /\ p[i].amount <= 8 * p[j].amount
    <3>. SUFFICES ASSUME NEW j \in Past(p, i)
                  PROVE  /\ ~ p[j].fraud /\ p[j].device = p[i].device /\ p[j].ip = p[i].ip
                         /\ p[j].place = 0 /\ p[i].amount <= 8 * p[j].amount
      OBVIOUS
    <3>1. Usual(j) /\ Who(j) = Who(i)
      BY <2>3
    <3>2. /\ ~ p[j].fraud /\ p[j].device = <<g, 0, Who(j)>> /\ p[j].ip = HomeAddress(g)
          /\ p[j].place = 0 /\ p[j].amount \in Nat /\ p[j].amount >= low
      BY <1>5, <3>1
    <3>. QED
      BY <1>1, <2>2, <3>1, <3>2
  <2>6. ASSUME NEW j \in 1..i - 1, p[j].device = p[i].device, Past(p, i) # {}
        PROVE  p[j].customer = p[i].customer
    <3>1. j \in DOMAIN p /\ j < i /\ j \in Nat /\ i \in Nat
      BY <1>8
    <3>2. Usual(j) \/ Attack(j)
      <4>1. CASE j <= a
        BY <1>2, <3>1, <4>1
      <4>2. CASE j > a
        BY <1>1, <2>1, <3>1, <4>2
      <4>. QED
        BY <1>8, <3>1, <4>1, <4>2
    <3>3. p[j].device \in {<<g, 0, Who(j)>>, <<g, call, Who(j)>>}
      BY <1>5, <1>6, <3>2
    <3>4. Who(j) = Who(i)
      <4>1. \A x, y, c, d : <<g, x, c>> = <<g, y, d>> => c = d
        OBVIOUS
      <4>. QED
        BY <2>2, <2>6, <3>3, <4>1
    <3>. QED
      BY <1>10, <2>2, <3>1, <3>2, <3>4
  <2>7. p[i].amount >= 250
    BY <1>1, <2>2
  <2>. QED
    BY <2>2, <2>4, <2>5, <2>6, <2>7 DEF BlandAt
<1>14. ASSUME NEW i \in DOMAIN p, p[i].place = Far PROVE FarAt(p, i)
  <2>1. Attack(i) /\ Known
    <3>1. ~ Usual(i)
      BY <1>5, <1>14 DEF Far
    <3>2. i > a /\ ~ Other(i)
      BY <1>2, <1>8, <1>14, <3>1
    <3>. QED
      BY <1>3, <3>1, <3>2
  <2>2. \A j \in Past(p, i) : p[j].place = 0
    <3>. SUFFICES ASSUME NEW j \in Past(p, i) PROVE p[j].place = 0
      OBVIOUS
    <3>1. Usual(j)
      BY <1>11, <2>1
    <3>. QED
      BY <1>5, <3>1
  <2>3. Who(i) \in 1..m
    BY <1>9, <2>1
  <2>4. PICK first \in 1..a : (first - 1) \div h + 1 = Who(i)
    BY <1>1, <2>3, Blocks DEF a
  <2>5. first \in 1..i - 1 /\ first <= a /\ Who(first) = Who(i) /\ first \in DOMAIN p
    <3>1. i > a /\ i \in Nat /\ a \in Nat
      BY <1>1, <1>8, <2>1
    <3>2. first \in 1..i - 1 /\ first <= a
      BY <2>4, <3>1
    <3>3. Who(first) = Who(i)
      BY <2>4, <3>2 DEF Who
    <3>. QED
      BY <1>8, <3>2, <3>3
  <2>6. p[first].customer = p[i].customer
    BY <1>2, <1>10, <2>1, <2>5
  <2>. QED
    BY <2>2, <2>5, <2>6 DEF FarAt, Past
<1>. QED
  BY <1>13, <1>14 DEF Separable

(* The generators with a history: between three and five payments, and      *)
(* amounts that differ by a factor of eight at most.                        *)
UsualRange(range) ==
  /\ range[1] \in Nat /\ range[2] \in Nat /\ range[1] >= 250
  /\ range[1] <= range[2] /\ range[2] <= 8 * range[1]

LEMMA HistoryConfigs ==
  ASSUME NEW g \in DOMAIN WithHistory
  PROVE  WithHistory[g].history \in 2..5 /\ UsualRange(WithHistory[g].usual)
<1>1. g \in {"normal_traffic", "high_value_anomaly", "account_takeover", "location_anomaly"}
  BY DEF WithHistory
<1>2. CASE g = "normal_traffic"
  BY <1>2 DEF WithHistory, UsualRange, normal_traffic
<1>3. CASE g = "high_value_anomaly"
  BY <1>3 DEF WithHistory, UsualRange, high_value_anomaly
<1>4. CASE g = "account_takeover"
  BY <1>4 DEF WithHistory, UsualRange, account_takeover
<1>5. CASE g = "location_anomaly"
  BY <1>5 DEF WithHistory, UsualRange, location_anomaly
<1>. QED
  BY <1>1, <1>2, <1>3, <1>4, <1>5

LEMMA GroupConfigs ==
  ASSUME NEW g \in DOMAIN WithGroups
  PROVE  WithGroups[g].size \in 5..12 /\ UsualRange(WithGroups[g].usual)
<1>1. g \in {"velocity_attack", "card_testing", "device_network"}
  BY DEF WithGroups
<1>2. CASE g = "velocity_attack"
  BY <1>2 DEF WithGroups, UsualRange, velocity_attack
<1>3. CASE g = "card_testing"
  BY <1>3 DEF WithGroups, UsualRange, card_testing
<1>4. CASE g = "device_network"
  BY <1>4 DEF WithGroups, UsualRange, device_network
<1>. QED
  BY <1>1, <1>2, <1>3, <1>4

(* A legitimate payment is a usual one.                                     *)
LEMMA LegitIsUsual ==
  ASSUME NEW g, NEW call, NEW c, NEW draw, NEW range, UsualRange(range), NEW last
  PROVE  LET r == Legit(g, call, c, Drawn(draw, range, last))
         IN /\ UsualOf(g, call, c, range[1], r)
            /\ r.customer[2] = call /\ r.device[1] = g
<1>. DEFINE amount == Drawn(draw, range, last)
           r == Legit(g, call, c, amount)
<1>1. amount \in {range[1], range[2]}
  BY DEF Drawn
<1>2. amount \in Nat /\ amount >= range[1] /\ amount <= 8 * range[1]
  BY <1>1 DEF UsualRange
<1>. HIDE DEF amount
<1>3. /\ r.customer = <<g, call, 0, c>> /\ r.device = <<g, 0, c>> /\ r.ip = HomeAddress(g)
      /\ r.amount = amount /\ r.place = 0 /\ r.fraud = FALSE
  BY DEF Legit
<1>. HIDE DEF r
<1>4. UsualOf(g, call, c, range[1], r)
  BY <1>2, <1>3 DEF UsualOf
<1>5. r.customer[2] = call /\ r.device[1] = g
  BY <1>3
<1>. QED
  BY <1>4, <1>5 DEF r, amount

(* Runs with a history.                                                     *)
LEMMA HistoryRun ==
  ASSUME NEW g \in DOMAIN WithHistory, NEW call, NEW n \in Nat, NEW frauds, NEW draw
  PROVE  LET p == HistoryScenario(g, call, n, frauds, draw)
             m == Customers(g, n)
             h == WithHistory[g].history
         IN /\ RunOf(p, g, call, h, m, WithHistory[g].usual[1])
            /\ Len(p) = Least(n, h * m + m) /\ m \in Nat /\ m >= 5 /\ h \in 2..5
<1>. DEFINE p == HistoryScenario(g, call, n, frauds, draw)
           s == WithHistory[g]
           h == s.history
           m == Customers(g, n)
           low == s.usual[1]
           Usual(i, last) == Legit(g, call, i, Drawn(draw, s.usual, last))
           Attack(i) ==
             [Usual(i, TRUE) EXCEPT
                !.amount = Drawn(draw, s.attack, TRUE), !.place = Far, !.fraud = TRUE,
                !.ip = <<g, call, i>>,
                !.device = IF s.ownDevice THEN @ ELSE <<g, call, i>>]
           first == [k \in 1..h * m |-> Usual((k - 1) \div h + 1, FALSE)]
           second == [i \in 1..m |-> IF i \in frauds THEN Attack(i) ELSE Usual(i, TRUE)]
           len == Least(n, h * m + m)
<1>1. p = FirstOf(n, first, second)
  BY DEF HistoryScenario
<1>2. h \in 2..5 /\ UsualRange(s.usual) /\ low \in Nat /\ low >= 250
  BY HistoryConfigs DEF UsualRange
<1>3. m \in Nat /\ m >= 5
  <2>1. n \div (h + 1) \in Nat
    BY <1>2, QuotientType
  <2>. QED
    BY <2>1 DEF Customers, Most
<1>4. h * m \in Nat
  BY <1>2, <1>3, ProductType
<1>5. \A c, last : /\ UsualOf(g, call, c, low, Usual(c, last))
                   /\ Usual(c, last).customer[2] = call /\ Usual(c, last).device[1] = g
  BY <1>2, LegitIsUsual
<1>6. \A c : /\ AttackOn(g, call, c, Attack(c))
             /\ Attack(c).customer[2] = call /\ Attack(c).device[1] = g
  <2>. SUFFICES ASSUME NEW c
                PROVE  /\ AttackOn(g, call, c, Attack(c))
                       /\ Attack(c).customer[2] = call /\ Attack(c).device[1] = g
    OBVIOUS
  <2>1. /\ Attack(c).customer = Usual(c, TRUE).customer /\ Attack(c).fraud = TRUE
        /\ Attack(c).device \in {Usual(c, TRUE).device, <<g, call, c>>}
    BY DEF Legit
  <2>2. Usual(c, TRUE).customer = <<g, call, 0, c>> /\ Usual(c, TRUE).device = <<g, 0, c>>
    BY DEF Legit
  <2>. DEFINE r == Attack(c)
  <2>3. r.customer = <<g, call, 0, c>> /\ r.device \in {<<g, 0, c>>, <<g, call, c>>} /\ r.fraud
    BY <2>1, <2>2
  <2>. HIDE DEF r
  <2>4. AttackOn(g, call, c, r)
    BY <2>3 DEF AttackOn
  <2>5. r.customer[2] = call /\ r.device[1] = g
    BY <2>3
  <2>. QED
    BY <2>4, <2>5 DEF r
<1>. HIDE DEF Usual, Attack, p
<1>7. /\ Len(p) = len /\ DOMAIN p = 1..len /\ Numbered(p, len)
      /\ \A i \in 1..len : p[i] = IF i <= h * m THEN first[i] ELSE second[i - h * m]
  <2>. DEFINE a == h * m
  <2>1. Numbered(first, a) /\ Numbered(second, m)
    BY DEF Numbered
  <2>2. a \in Nat /\ m \in Nat
    BY <1>3, <1>4
  <2>. HIDE DEF first, second, a, m
  <2>3. /\ Len(FirstOf(n, first, second)) = Least(n, a + m)
        /\ DOMAIN FirstOf(n, first, second) = 1..Least(n, a + m)
        /\ Numbered(FirstOf(n, first, second), Least(n, a + m))
        /\ \A i \in 1..Least(n, a + m) :
             FirstOf(n, first, second)[i] = IF i <= a THEN first[i] ELSE second[i - a]
    BY <2>1, <2>2, FirstOfIs
  <2>. QED
    BY <1>1, <2>3, Zenon DEF a
<1>8. len \in Nat /\ len <= h * m + m
  <2>. HIDE DEF h, m
  <2>. QED
    BY <1>3, <1>4 DEF Least
<1>. HIDE DEF len, h, m, low, s
<1>9. ASSUME NEW i \in 1..len, i <= h * m
      PROVE  p[i] = Usual((i - 1) \div h + 1, FALSE)
  <2>1. i \in 1..h * m
    BY <1>4, <1>8, <1>9
  <2>. QED
    BY <1>7, <1>9, <2>1
<1>10. ASSUME NEW i \in 1..len, i > h * m
       PROVE  /\ i - h * m \in 1..m
              /\ p[i] \in {Attack(i - h * m), Usual(i - h * m, TRUE)}
  <2>1. i - h * m \in 1..m /\ ~ (i <= h * m)
    BY <1>3, <1>4, <1>8, <1>10
  <2>2. p[i] = second[i - h * m]
    BY <1>7, <2>1
  <2>. QED
    BY <2>1, <2>2
<1>11. \A i \in 1..len : i <= h * m \/ i > h * m
  BY <1>4, <1>8
<1>. HIDE DEF first, second
<1>12. RunOf(p, g, call, h, m, low)
  <2>1. low \in Nat /\ low >= 250 /\ h \in 2..5 /\ m \in Nat
        /\ Len(p) \in Nat /\ DOMAIN p = 1..Len(p) /\ Numbered(p, Len(p))
    BY <1>2, <1>3, <1>7, <1>8
  <2>2. \A i \in DOMAIN p : i <= h * m => UsualOf(g, call, (i - 1) \div h + 1, low, p[i])
    BY <1>5, <1>7, <1>9
  <2>3. \A i \in DOMAIN p : i > h * m =>
          /\ i - h * m \in 1..m
          /\ \/ UsualOf(g, call, i - h * m, low, p[i])
             \/ AttackOn(g, call, i - h * m, p[i])
    BY <1>5, <1>6, <1>7, <1>10
  <2>4. ASSUME NEW i \in 1..len PROVE p[i].customer[2] = call /\ p[i].device[1] = g
    <3>1. CASE i <= h * m
      <4>1. p[i] = Usual((i - 1) \div h + 1, FALSE)
        BY <1>9, <3>1
      <4>. QED
        BY <1>5, <4>1, Zenon
    <3>2. CASE i > h * m
      <4>1. p[i] = Attack(i - h * m) \/ p[i] = Usual(i - h * m, TRUE)
        BY <1>10, <3>2
      <4>. QED
        BY <1>5, <1>6, <4>1, Zenon
    <3>. QED
      BY <1>11, <3>1, <3>2
  <2>. QED
    BY <1>7, <2>1, <2>2, <2>3, <2>4, Zenon DEF RunOf
<1>. QED
  BY <1>2, <1>3, <1>7, <1>12 DEF p, h, m, low, s, len

(* Runs with groups of fraud payments.                                      *)
LEMMA GroupRun ==
  ASSUME NEW g \in DOMAIN WithGroups, NEW call, NEW n \in Nat, NEW tenths \in Nat, NEW draw
  PROVE  LET p == GroupScenario(g, call, n, tenths, draw)
             m == LegitCustomers(g, n, tenths)
         IN /\ RunOf(p, g, call, 2, m, WithGroups[g].usual[1])
            /\ Len(p) \in Nat /\ Len(p) <= n /\ (n > 0 => Len(p) > 0)
<1>. DEFINE p == GroupScenario(g, call, n, tenths, draw)
           s == WithGroups[g]
           m == LegitCustomers(g, n, tenths)
           groups == Groups(g, n, tenths)
           low == s.usual[1]
           Usual(i, last) == Legit(g, call, i, Drawn(draw, s.usual, last))
           Attack(group, j) ==
             [customer |-> <<g, call, group, IF s.oneCustomer THEN 1 ELSE j>>,
              device |-> <<g, 0, 0, IF s.oneDevice THEN 1 ELSE group>>,
              ip |-> IF s.oneAddress THEN <<g, "bot">> ELSE <<g, call, group, j>>,
              amount |-> Drawn(draw, s.attack, j = s.size), place |-> 0,
              probability |-> 0, fraud |-> TRUE]
           first == [k \in 1..2 * m |-> Usual((k - 1) \div 2 + 1, k % 2 = 0)]
           second == [k \in 1..s.size * groups |->
                        Attack((k - 1) \div s.size + 1, ((k - 1) % s.size) + 1)]
           len == Least(n, 2 * m + s.size * groups)
<1>1. p = FirstOf(n, first, second)
  BY DEF GroupScenario, LegitTx
<1>2. s.size \in 5..12 /\ UsualRange(s.usual) /\ low \in Nat /\ low >= 250
  BY GroupConfigs DEF UsualRange
<1>3. groups \in Nat
  <2>1. n * tenths \in Nat /\ n * tenths * 600 \in Nat
    BY ProductType
  <2>2. (n * tenths * 600) \div s.size \in Nat
    <3>1. s.size \in Nat /\ s.size > 0
      BY <1>2
    <3>. HIDE DEF s
    <3>. QED
      BY <2>1, <3>1, QuotientType
  <2>3. Share(n, tenths, s.size) \in Nat
    BY <2>2, RoundType DEF Share
  <2>. QED
    BY <2>3 DEF Groups, Most
<1>4. m \in Nat /\ m >= 1
  <2>1. groups * s.size \in Nat
    BY <1>2, <1>3, ProductType
  <2>. HIDE DEF groups, s
  <2>2. (n - groups * s.size) \div 2 \in Int
    BY <2>1
  <2>. QED
    BY <2>2 DEF LegitCustomers, LegitTx, Most, groups, s
<1>5. s.size * groups \in Nat /\ 2 * m \in Nat
  BY <1>2, <1>3, <1>4, ProductType
<1>6. \A c, last : /\ UsualOf(g, call, c, low, Usual(c, last))
                   /\ Usual(c, last).customer[2] = call /\ Usual(c, last).device[1] = g
  BY <1>2, LegitIsUsual
<1>7. \A c, j : /\ Attack(c, j).fraud = TRUE /\ Attack(c, j).place = 0
                /\ Attack(c, j).customer[2] = call /\ Attack(c, j).device[1] = g
  <2>1. \A c, j : /\ Attack(c, j).fraud = TRUE /\ Attack(c, j).place = 0
                  /\ Attack(c, j).customer = <<g, call, c, IF s.oneCustomer THEN 1 ELSE j>>
                  /\ Attack(c, j).device = <<g, 0, 0, IF s.oneDevice THEN 1 ELSE c>>
    BY Zenon
  <2>. HIDE DEF Attack, s
  <2>. QED
    BY <2>1
<1>. HIDE DEF Usual, Attack, p, groups, m
<1>8. /\ Len(p) = len /\ DOMAIN p = 1..len /\ Numbered(p, len)
      /\ \A i \in 1..len : p[i] = IF i <= 2 * m THEN first[i] ELSE second[i - 2 * m]
  <2>. DEFINE a == 2 * m
             b == s.size * groups
  <2>1. Numbered(first, a) /\ Numbered(second, b)
    BY DEF Numbered
  <2>2. a \in Nat /\ b \in Nat
    BY <1>5
  <2>. HIDE DEF first, second, a, b
  <2>3. /\ Len(FirstOf(n, first, second)) = Least(n, a + b)
        /\ DOMAIN FirstOf(n, first, second) = 1..Least(n, a + b)
        /\ Numbered(FirstOf(n, first, second), Least(n, a + b))
        /\ \A i \in 1..Least(n, a + b) :
             FirstOf(n, first, second)[i] = IF i <= a THEN first[i] ELSE second[i - a]
    BY <2>1, <2>2, FirstOfIs
  <2>. QED
    BY <1>1, <2>3, Zenon DEF a, b
<1>9. len \in Nat /\ len <= 2 * m + s.size * groups /\ len <= n
      /\ (n > 0 => len > 0)
  <2>. DEFINE b == s.size * groups
  <2>1. b \in Nat
    BY <1>5
  <2>. HIDE DEF b
  <2>2. Least(n, 2 * m + b) \in Nat /\ Least(n, 2 * m + b) <= 2 * m + b
        /\ Least(n, 2 * m + b) <= n /\ (n > 0 => Least(n, 2 * m + b) > 0)
    BY <1>4, <2>1 DEF Least
  <2>. QED
    BY <2>2 DEF b
<1>. HIDE DEF len, low, s
<1>10. ASSUME NEW i \in 1..len, i <= 2 * m
       PROVE  p[i] = Usual((i - 1) \div 2 + 1, i % 2 = 0)
  <2>1. i \in 1..2 * m
    BY <1>5, <1>9, <1>10
  <2>. QED
    BY <1>8, <1>10, <2>1
<1>11. ASSUME NEW i \in 1..len, i > 2 * m
       PROVE  \E c, j : p[i] = Attack(c, j)
  <2>. DEFINE b == s.size * groups
  <2>1. b \in Nat /\ len <= 2 * m + b
    BY <1>5, <1>9
  <2>. HIDE DEF b
  <2>2. i - 2 * m \in 1..b /\ ~ (i <= 2 * m)
    BY <1>4, <1>9, <1>11, <2>1
  <2>3. p[i] = second[i - 2 * m]
    BY <1>8, <2>2
  <2>. QED
    BY <2>2, <2>3, Zenon DEF b
<1>12. \A i \in 1..len : i <= 2 * m \/ i > 2 * m
  BY <1>4, <1>9
<1>. HIDE DEF first, second
<1>13. RunOf(p, g, call, 2, m, low)
  <2>1. low \in Nat /\ low >= 250 /\ 2 \in 2..5 /\ m \in Nat
        /\ Len(p) \in Nat /\ DOMAIN p = 1..Len(p) /\ Numbered(p, Len(p))
    BY <1>2, <1>4, <1>8, <1>9 DEF low, s
  <2>2. \A i \in DOMAIN p : i <= 2 * m => UsualOf(g, call, (i - 1) \div 2 + 1, low, p[i])
    BY <1>6, <1>8, <1>10
  <2>3. \A i \in DOMAIN p : i > 2 * m => p[i].fraud /\ p[i].place # Far
    <3>1. 0 # Far
      BY DEF Far
    <3>. QED
      BY <1>7, <1>8, <1>11, <3>1
  <2>4. \A i \in DOMAIN p : p[i].customer[2] = call /\ p[i].device[1] = g
    BY <1>6, <1>7, <1>8, <1>10, <1>11, <1>12
  <2>. QED
    BY <2>1, <2>2, <2>3, <2>4 DEF RunOf
<1>. QED
  BY <1>8, <1>9, <1>13 DEF p, m, low, s

(* A payment in a run is as bland, and as far, in a longer plan, if nobody  *)
(* before the run is the customer and, once the customer has a past, nobody *)
(* before the run has the device.                                           *)
LEMMA SeparableShift ==
  ASSUME NEW p, NEW r, NEW off \in Nat, NEW i \in Nat, i >= 1,
         \A j \in 1..i : r[off + j] = p[j],
         \A j \in 1..off : r[j].customer # p[i].customer,
         Past(p, i) # {} => \A j \in 1..off : r[j].device # p[i].device
  PROVE  /\ BlandAt(p, i) => BlandAt(r, off + i)
         /\ FarAt(p, i) => FarAt(r, off + i)
<1>. DEFINE k == off + i
           A == Past(r, k)
           B == Past(p, i)
           f == [j \in A |-> j - off]
<1>1. \A j \in A : j - off \in B /\ j \in Int /\ r[j] = p[j - off]
  <2>. SUFFICES ASSUME NEW j \in A PROVE j - off \in B /\ j \in Int /\ r[j] = p[j - off]
    OBVIOUS
  <2>1. j \in 1..k - 1 /\ r[j].customer = r[k].customer /\ r[k] = p[i]
    BY DEF Past
  <2>2. j \notin 1..off
    BY <2>1
  <2>3. j - off \in 1..i - 1 /\ j - off \in 1..i /\ off + (j - off) = j
    BY <2>1, <2>2
  <2>4. r[j] = p[j - off]
    BY <2>3
  <2>. QED
    BY <2>1, <2>3, <2>4 DEF Past
<1>2. \A j \in B : off + j \in A
  <2>. SUFFICES ASSUME NEW j \in B PROVE off + j \in A
    OBVIOUS
  <2>1. j \in 1..i - 1 /\ p[j].customer = p[i].customer
    BY DEF Past
  <2>2. r[off + j] = p[j] /\ r[k] = p[i] /\ off + j \in 1..k - 1
    BY <2>1
  <2>. QED
    BY <2>1, <2>2 DEF Past
<1>3. r[k] = p[i]
  OBVIOUS
<1>4. IsFiniteSet(B) /\ Cardinality(B) \in Nat
  <2>1. IsFiniteSet(1..i - 1) /\ B \in SUBSET (1..i - 1)
    BY FS_Interval DEF Past
  <2>. QED
    BY <2>1, FS_Subset, FS_CardinalityType
<1>. HIDE DEF A, B
<1>5. IsFiniteSet(A) /\ Cardinality(A) \in Nat /\ Cardinality(A) <= Cardinality(B)
  <2>1. f \in [A -> B] /\ \A x, y \in A : f[x] = f[y] => x = y
    BY <1>1
  <2>2. f \in Injection(A, B)
    BY <2>1 DEF Injection, IsInjective
  <2>. HIDE DEF f
  <2>. QED
    BY <1>4, <2>2, FS_Injection, FS_CardinalityType
<1>6. A # {} => B # {}
  BY <1>1
<1>7. BlandAt(p, i) => BlandAt(r, k)
  <2>. SUFFICES ASSUME BlandAt(p, i) PROVE BlandAt(r, k)
    OBVIOUS
  <2>1. /\ p[i].amount >= 250 /\ p[i].place = 0 /\ Cardinality(B) <= 5
        /\ \A j \in B :
             /\ ~ p[j].fraud /\ p[j].device = p[i].device /\ p[j].ip = p[i].ip
             /\ p[j].place = 0 /\ p[i].amount <= 8 * p[j].amount
        /\ B # {} => \A j \in 1..i - 1 : p[j].device = p[i].device => p[j].customer = p[i].customer
    BY DEF BlandAt, B
  <2>2. Cardinality(A) <= 5
    BY <1>4, <1>5, <2>1
  <2>3. \A j \in A :
          /\ ~ r[j].fraud /\ r[j].device = r[k].device /\ r[j].ip = r[k].ip
          /\ r[j].place = 0 /\ r[k].amount <= 8 * r[j].amount
    <3>. HIDE DEF k
    <3>. QED
      BY <1>1, <1>3, <2>1
  <2>4. ASSUME A # {}, NEW j \in 1..k - 1, r[j].device = r[k].device
        PROVE  r[j].customer = r[k].customer
    <3>1. B # {}
      BY <1>6, <2>4
    <3>2. j \notin 1..off
      BY <1>3, <2>4, <3>1 DEF B
    <3>3. j - off \in 1..i - 1 /\ j - off \in 1..i /\ off + (j - off) = j
      BY <3>2
    <3>4. r[j] = p[j - off]
      BY <3>3
    <3>. QED
      BY <1>3, <2>1, <2>4, <3>1, <3>3, <3>4
  <2>. HIDE DEF k
  <2>. QED
    BY <1>3, <2>1, <2>2, <2>3, <2>4 DEF BlandAt, A
<1>8. FarAt(p, i) => FarAt(r, k)
  <2>. SUFFICES ASSUME FarAt(p, i) PROVE FarAt(r, k)
    OBVIOUS
  <2>1. B # {} /\ \A j \in B : p[j].place = 0
    BY DEF FarAt, B
  <2>2. A # {} /\ \A j \in A : r[j].place = 0
    BY <1>1, <1>2, <2>1
  <2>. QED
    BY <2>2 DEF FarAt, A
<1>. QED
  BY <1>7, <1>8

(* The beginning of a separable plan is one.                                *)
LEMMA PrefixSeparable ==
  ASSUME NEW p, NEW r, NEW n \in Nat, DOMAIN r = 1..n, Separable(p),
         \A i \in 1..n : i \in DOMAIN p /\ r[i] = p[i]
  PROVE  Separable(r)
<1>. SUFFICES ASSUME NEW i \in 1..n
              PROVE  /\ ~ r[i].fraud => BlandAt(r, i)
                     /\ r[i].place = Far => FarAt(r, i)
  BY DEF Separable
<1>1. /\ ~ p[i].fraud => BlandAt(p, i)
      /\ p[i].place = Far => FarAt(p, i)
  BY DEF Separable
<1>2. i \in Nat /\ i >= 1 /\ 0 + i = i /\ 1..0 = {}
  OBVIOUS
<1>3. \A j \in 1..i : r[0 + j] = p[j]
  OBVIOUS
<1>4. /\ BlandAt(p, i) => BlandAt(r, 0 + i)
      /\ FarAt(p, i) => FarAt(r, 0 + i)
  BY <1>2, <1>3, SeparableShift
<1>. QED
  BY <1>1, <1>2, <1>4

(* One separable plan after another of other customers, and with other      *)
(* devices unless nobody in the second pays twice.                          *)
LEMMA JoinSeparable ==
  ASSUME NEW S, NEW p \in Seq(S), NEW q \in Seq(S), Separable(p), Separable(q),
         \A i \in DOMAIN p, j \in DOMAIN q : p[i].customer # q[j].customer,
         \/ \A j \in DOMAIN q : Past(q, j) = {}
         \/ \A i \in DOMAIN p, j \in DOMAIN q : p[i].device # q[j].device
  PROVE  Separable(p \o q)
<1>. DEFINE r == p \o q
           a == Len(p)
           b == Len(q)
<1>1. /\ a \in Nat /\ DOMAIN p = 1..a /\ b \in Nat /\ DOMAIN q = 1..b
  BY LenProperties
<1>2. /\ r \in Seq(S) /\ Len(r) = a + b
      /\ \A i \in 1..a + b : r[i] = IF i <= a THEN p[i] ELSE q[i - a]
  BY ConcatProperties
<1>3. DOMAIN r = 1..a + b
  BY <1>2, LenProperties
<1>. HIDE DEF r, a, b
<1>4. \A i \in 1..a : r[i] = p[i]
  BY <1>1, <1>2
<1>5. \A i \in 1..b : r[a + i] = q[i]
  <2>. SUFFICES ASSUME NEW i \in 1..b PROVE r[a + i] = q[i]
    OBVIOUS
  <2>. DEFINE k == a + i
  <2>1. k \in 1..a + b /\ ~ (k <= a) /\ k - a = i
    BY <1>1
  <2>. HIDE DEF k
  <2>2. r[k] = IF k <= a THEN p[k] ELSE q[k - a]
    BY <1>2, <2>1, Zenon
  <2>3. r[k] = q[i]
    BY <2>1, <2>2, Zenon
  <2>. QED
    BY <2>3 DEF k
<1>. SUFFICES ASSUME NEW k \in 1..a + b
              PROVE  /\ ~ r[k].fraud => BlandAt(r, k)
                     /\ r[k].place = Far => FarAt(r, k)
  BY <1>3 DEF Separable, r
<1>6. CASE k <= a
  <2>1. k \in Nat /\ k >= 1 /\ k \in 1..a /\ 0 + k = k /\ 1..0 = {}
    BY <1>1, <1>6
  <2>2. \A j \in 1..k : r[0 + j] = p[j]
    BY <1>1, <1>4, <2>1
  <2>3. /\ BlandAt(p, k) => BlandAt(r, 0 + k)
        /\ FarAt(p, k) => FarAt(r, 0 + k)
    BY <2>1, <2>2, SeparableShift
  <2>4. /\ ~ p[k].fraud => BlandAt(p, k)
        /\ p[k].place = Far => FarAt(p, k)
    BY <1>1, <2>1 DEF Separable
  <2>. QED
    BY <1>4, <2>1, <2>3, <2>4
<1>7. CASE ~ (k <= a)
  <2>1. PICK i \in 1..b : k = a + i
    <3>. DEFINE l == k - a
    <3>1. l \in 1..b /\ k = a + l
      BY <1>1, <1>7
    <3>. HIDE DEF l
    <3>. QED
      BY <3>1
  <2>2. i \in Nat /\ i >= 1 /\ i \in DOMAIN q /\ \A j \in 1..i : j \in 1..b
    BY <1>1, <2>1
  <2>3. \A j \in 1..i : r[a + j] = q[j]
    BY <1>5, <2>2
  <2>4. \A j \in 1..a : r[j].customer # q[i].customer
    BY <1>1, <1>4, <2>2
  <2>5. Past(q, i) # {} => \A j \in 1..a : r[j].device # q[i].device
    BY <1>1, <1>4, <2>2
  <2>6. /\ BlandAt(q, i) => BlandAt(r, a + i)
        /\ FarAt(q, i) => FarAt(r, a + i)
    BY <1>1, <2>2, <2>3, <2>4, <2>5, SeparableShift
  <2>7. /\ ~ q[i].fraud => BlandAt(q, i)
        /\ q[i].place = Far => FarAt(q, i)
    BY <2>2 DEF Separable
  <2>. QED
    BY <1>5, <2>1, <2>6, <2>7
<1>. QED
  BY <1>6, <1>7

(***************************************************************************)
(* mixed_fraud.                                                             *)
(***************************************************************************)
AllGenerators == (DOMAIN WithHistory) \cup (DOMAIN WithGroups)

(* Any one generator makes a separable plan, of its own devices and of      *)
(* customers that belong to the call.                                       *)
LEMMA PartRun ==
  ASSUME NEW g \in AllGenerators, NEW call, NEW n \in Nat, NEW tenths \in Nat, NEW frauds,
         NEW draw
  PROVE  LET p == Generate(g, call, n, tenths, frauds, draw)
         IN /\ Len(p) \in Nat /\ DOMAIN p = 1..Len(p) /\ Numbered(p, Len(p))
            /\ Len(p) <= n /\ (n > 0 => Len(p) > 0)
            /\ \A i \in DOMAIN p : p[i].customer[2] = call /\ p[i].device[1] = g
            /\ Separable(p)
<1>1. ASSUME NEW p, NEW h, NEW m, NEW low, RunOf(p, g, call, h, m, low)
      PROVE  /\ Len(p) \in Nat /\ DOMAIN p = 1..Len(p) /\ Numbered(p, Len(p))
             /\ \A i \in DOMAIN p : p[i].customer[2] = call /\ p[i].device[1] = g
             /\ Separable(p)
  <2>1. Separable(p)
    BY <1>1, RunSeparable, Zenon
  <2>. QED
    BY <1>1, <2>1, Zenon DEF RunOf
<1>2. CASE g \in DOMAIN WithHistory
  <2>. DEFINE p == HistoryScenario(g, call, n, frauds, draw)
             m == Customers(g, n)
             h == WithHistory[g].history
  <2>1. Generate(g, call, n, tenths, frauds, draw) = p
    BY <1>2 DEF Generate
  <2>2. /\ RunOf(p, g, call, h, m, WithHistory[g].usual[1])
        /\ Len(p) = Least(n, h * m + m) /\ m \in Nat /\ m >= 5 /\ h \in 2..5
    BY <1>2, HistoryRun
  <2>. HIDE DEF p, m, h
  <2>3. Len(p) <= n /\ (n > 0 => Len(p) > 0)
    <3>. DEFINE k == h * m
    <3>1. k \in Nat /\ Len(p) = Least(n, k + m)
      BY <2>2, ProductType
    <3>. HIDE DEF k
    <3>. QED
      BY <2>2, <3>1 DEF Least
  <2>4. /\ Len(p) \in Nat /\ DOMAIN p = 1..Len(p) /\ Numbered(p, Len(p))
        /\ \A i \in DOMAIN p : p[i].customer[2] = call /\ p[i].device[1] = g
        /\ Separable(p)
    BY <1>1, <2>2, Zenon
  <2>. QED
    BY <2>1, <2>3, <2>4, Zenon
<1>3. CASE g \notin DOMAIN WithHistory
  <2>. DEFINE p == GroupScenario(g, call, n, tenths, draw)
             m == LegitCustomers(g, n, tenths)
  <2>1. Generate(g, call, n, tenths, frauds, draw) = p /\ g \in DOMAIN WithGroups
    BY <1>3 DEF Generate, AllGenerators
  <2>2. /\ RunOf(p, g, call, 2, m, WithGroups[g].usual[1])
        /\ Len(p) <= n /\ (n > 0 => Len(p) > 0)
    BY <2>1, GroupRun
  <2>. HIDE DEF p, m
  <2>3. /\ Len(p) \in Nat /\ DOMAIN p = 1..Len(p) /\ Numbered(p, Len(p))
        /\ \A i \in DOMAIN p : p[i].customer[2] = call /\ p[i].device[1] = g
        /\ Separable(p)
    BY <1>1, <2>2, Zenon
  <2>. QED
    BY <2>1, <2>2, <2>3, Zenon
<1>. QED
  BY <1>2, <1>3

(* Which generator makes part k.                                            *)
GeneratorOf(k, drawn) == IF k \in 1..7 THEN Generators[k] ELSE drawn[k]

LEMMA GeneratorsDiffer ==
  /\ Len(Generators) = 7 /\ DOMAIN Generators = 1..7
  /\ \A k \in 1..7 : Generators[k] \in AllGenerators
  /\ \A j, k \in 1..7 : Generators[j] = Generators[k] => j = k
<1>1. Len(Generators) = 7 /\ DOMAIN Generators = 1..7
  BY DEF Generators
<1>2. /\ Generators[1] = "normal_traffic" /\ Generators[2] = "high_value_anomaly"
      /\ Generators[3] = "velocity_attack" /\ Generators[4] = "account_takeover"
      /\ Generators[5] = "card_testing" /\ Generators[6] = "device_network"
      /\ Generators[7] = "location_anomaly"
  BY DEF Generators
<1>3. \A k \in 1..7 : k = 1 \/ k = 2 \/ k = 3 \/ k = 4 \/ k = 5 \/ k = 6 \/ k = 7
  OBVIOUS
<1>4. \A k \in 1..7 : Generators[k] \in AllGenerators
  BY <1>2, <1>3 DEF AllGenerators, WithHistory, WithGroups
<1>5. \A j, k \in 1..7 : Generators[j] = Generators[k] => j = k
  BY <1>2, <1>3
<1>. QED
  BY <1>1, <1>4, <1>5

(* The parts of a run, joined.                                              *)
Joined(f, part, n) ==
  f = [k \in 0..n |-> IF k = 0 THEN <<>> ELSE f[k - 1] \o part[k]]

LEMMA JoinedExists ==
  ASSUME NEW part, NEW n \in Nat
  PROVE  \E f : Joined(f, part, n)
<1>. DEFINE Bad == {m \in Nat : ~ \E f : Joined(f, part, m)}
<1>1. SUFFICES ASSUME Bad # {} PROVE FALSE
  OBVIOUS
<1>2. PICK m \in Bad : \A l \in Bad : m <= l
  <2>1. Bad \in SUBSET Nat
    OBVIOUS
  <2>. HIDE DEF Bad
  <2>. QED
    BY <1>1, <2>1, FirstExists
<1>3. CASE m = 0
  <2>. DEFINE f == [k \in 0..0 |-> <<>>]
  <2>1. Joined(f, part, 0)
    BY DEF Joined
  <2>. QED
    BY <1>2, <1>3, <2>1
<1>4. CASE m # 0
  <2>1. m \in Nat /\ m - 1 \in Nat /\ m - 1 \notin Bad
    BY <1>2, <1>4
  <2>2. PICK f : Joined(f, part, m - 1)
    BY <2>1
  <2>. DEFINE h == [k \in 0..m |-> IF k = m THEN f[m - 1] \o part[m] ELSE f[k]]
  <2>3. \A k \in 0..m - 1 : f[k] = IF k = 0 THEN <<>> ELSE f[k - 1] \o part[k]
    BY <2>2, Zenon DEF Joined
  <2>4. \A k \in 0..m : k # m => k \in 0..m - 1 /\ h[k] = f[k]
    BY <2>1
  <2>5. \A k \in 0..m : k # 0 => k - 1 \in 0..m /\ h[k - 1] = f[k - 1]
    BY <2>1
  <2>6. m \in 0..m /\ h[m] = f[m - 1] \o part[m]
    <3>1. m \in 0..m
      BY <2>1
    <3>. QED
      BY <3>1, Zenon
  <2>7. h = [k \in 0..m |-> h[k]]
    OBVIOUS
  <2>. HIDE DEF h
  <2>8. \A k \in 0..m : h[k] = IF k = 0 THEN <<>> ELSE h[k - 1] \o part[k]
    <3>. SUFFICES ASSUME NEW k \in 0..m
                  PROVE  h[k] = IF k = 0 THEN <<>> ELSE h[k - 1] \o part[k]
      OBVIOUS
    <3>1. CASE k = m
      <4>1. h[m - 1] = f[m - 1]
        BY <1>4, <2>1, <2>5
      <4>. QED
        BY <1>4, <2>6, <3>1, <4>1
    <3>2. CASE k # m
      <4>1. h[k] = f[k] /\ f[k] = IF k = 0 THEN <<>> ELSE f[k - 1] \o part[k]
        BY <2>3, <2>4, <3>2
      <4>2. k # 0 => h[k - 1] = f[k - 1]
        BY <2>5
      <4>. QED
        BY <4>1, <4>2
    <3>. QED
      BY <3>1, <3>2
  <2>9. Joined(h, part, m)
    BY <2>7, <2>8, Zenon DEF Joined
  <2>. QED
    BY <1>2, <2>9
<1>. QED
  BY <1>3, <1>4

(* The parts of mixed_fraud: of the generator's own devices and of          *)
(* customers of the part; from the eighth on they have one payment.         *)
PartOK(p, k, drawn) ==
  /\ Len(p) \in Nat /\ DOMAIN p = 1..Len(p) /\ Numbered(p, Len(p)) /\ Len(p) > 0
  /\ \A i \in DOMAIN p : p[i].customer[2] = k /\ p[i].device[1] = GeneratorOf(k, drawn)
  /\ Separable(p) /\ (k > 7 => Len(p) = 1)

(* What the first k parts make.                                             *)
PartsOK(p, S, k, drawn) ==
  /\ p \in Seq(S) /\ Len(p) >= k /\ Separable(p)
  /\ \A i \in DOMAIN p : \E j \in 1..k :
       p[i].customer[2] = j /\ p[i].device[1] = GeneratorOf(j, drawn)

LEMMA JoinPart ==
  ASSUME NEW S, NEW k \in Nat, NEW drawn, NEW p, NEW q, PartsOK(p, S, k, drawn),
         PartOK(q, k + 1, drawn), \A i \in DOMAIN q : q[i] \in S
  PROVE  PartsOK(p \o q, S, k + 1, drawn)
<1>. DEFINE r == p \o q
           a == Len(p)
           b == Len(q)
<1>1. /\ p \in Seq(S) /\ a >= k /\ a \in Nat /\ DOMAIN p = 1..a /\ Separable(p)
      /\ b \in Nat /\ b > 0 /\ DOMAIN q = 1..b /\ Separable(q) /\ Numbered(q, b)
  BY LenProperties DEF PartsOK, PartOK
<1>2. q \in Seq(S)
  BY <1>1, LengthOf
<1>3. \A i \in DOMAIN p : \E j \in 1..k :
        p[i].customer[2] = j /\ p[i].device[1] = GeneratorOf(j, drawn)
  BY Zenon DEF PartsOK
<1>4. \A i \in DOMAIN q : q[i].customer[2] = k + 1 /\ q[i].device[1] = GeneratorOf(k + 1, drawn)
  BY Zenon DEF PartOK
<1>5. \A j \in 1..k : j # k + 1 /\ j \in 1..k + 1
  OBVIOUS
<1>6. ASSUME NEW i \in DOMAIN p, NEW j \in DOMAIN q
      PROVE  /\ p[i].customer # q[j].customer
             /\ k + 1 \in 1..7 => p[i].device # q[j].device
  <2>1. PICK l \in 1..k : p[i].customer[2] = l /\ p[i].device[1] = GeneratorOf(l, drawn)
    BY <1>3, Zenon
  <2>2. q[j].customer[2] = k + 1 /\ q[j].device[1] = GeneratorOf(k + 1, drawn)
    BY <1>4, Zenon
  <2>3. p[i].customer # q[j].customer
    BY <1>5, <2>1, <2>2
  <2>4. ASSUME k + 1 \in 1..7 PROVE GeneratorOf(l, drawn) # GeneratorOf(k + 1, drawn)
    <3>1. l \in 1..7 /\ l # k + 1
      BY <2>4
    <3>. QED
      BY <2>4, <3>1, GeneratorsDiffer, Zenon DEF GeneratorOf
  <2>5. k + 1 \in 1..7 => p[i].device # q[j].device
    BY <2>1, <2>2, <2>4, Zenon
  <2>. QED
    BY <2>3, <2>5
<1>7. \/ \A j \in DOMAIN q : Past(q, j) = {}
      \/ \A i \in DOMAIN p, j \in DOMAIN q : p[i].device # q[j].device
  <2>1. CASE k + 1 > 7
    <3>1. DOMAIN q = 1..1
      BY <1>1, <2>1 DEF PartOK
    <3>2. \A j \in DOMAIN q : Past(q, j) = {}
      BY <3>1 DEF Past
    <3>. QED
      BY <3>2
  <2>2. CASE ~ (k + 1 > 7)
    <3>1. k + 1 \in 1..7
      BY <2>2
    <3>. QED
      BY <1>6, <3>1, Zenon
  <2>. QED
    BY <2>1, <2>2
<1>8. \A i \in DOMAIN p, j \in DOMAIN q : p[i].customer # q[j].customer
  BY <1>6, Zenon
<1>9. Separable(r)
  BY <1>1, <1>2, <1>7, <1>8, JoinSeparable
<1>10. /\ r \in Seq(S) /\ Len(r) = a + b
       /\ \A i \in 1..a + b : r[i] = IF i <= a THEN p[i] ELSE q[i - a]
  BY <1>1, <1>2, ConcatProperties
<1>11. DOMAIN r = 1..a + b
  BY <1>10, LenProperties
<1>. HIDE DEF r, a, b
<1>12. Len(r) >= k + 1
  BY <1>1, <1>10
<1>13. ASSUME NEW i \in DOMAIN r
       PROVE  \E j \in 1..k + 1 :
                r[i].customer[2] = j /\ r[i].device[1] = GeneratorOf(j, drawn)
  <2>1. CASE i <= a
    <3>1. i \in DOMAIN p
      BY <1>1, <1>11, <1>13, <2>1
    <3>2. r[i] = p[i]
      BY <1>10, <1>11, <2>1
    <3>. QED
      BY <1>3, <1>5, <3>1, <3>2, Zenon
  <2>2. CASE ~ (i <= a)
    <3>1. i - a \in DOMAIN q
      BY <1>1, <1>11, <1>13, <2>2
    <3>2. r[i] = q[i - a]
      BY <1>10, <1>11, <2>2
    <3>3. k + 1 \in 1..k + 1
      OBVIOUS
    <3>. QED
      BY <1>4, <3>1, <3>2, <3>3, Zenon
  <2>. QED
    BY <2>1, <2>2
<1>. QED
  BY <1>9, <1>10, <1>12, <1>13 DEF PartsOK, r

LEMMA PartsJoin ==
  ASSUME NEW part, NEW n \in Nat, NEW f, Joined(f, part, n), NEW S, NEW drawn,
         \A k \in 1..n : PartOK(part[k], k, drawn) /\ \A i \in DOMAIN part[k] : part[k][i] \in S
  PROVE  \A k \in 0..n : PartsOK(f[k], S, k, drawn)
<1>. DEFINE Bad == {k \in 0..n : ~ PartsOK(f[k], S, k, drawn)}
<1>1. SUFFICES ASSUME Bad # {} PROVE FALSE
  OBVIOUS
<1>2. PICK m \in Bad : \A l \in Bad : m <= l
  <2>1. Bad \in SUBSET Nat
    OBVIOUS
  <2>. HIDE DEF Bad
  <2>. QED
    BY <1>1, <2>1, FirstExists
<1>3. \A k \in 0..n : f[k] = IF k = 0 THEN <<>> ELSE f[k - 1] \o part[k]
  BY Zenon DEF Joined
<1>4. CASE m = 0
  <2>. DEFINE e == f[0]
  <2>1. e = <<>>
    <3>1. 0 \in 0..n
      OBVIOUS
    <3>. QED
      BY <1>3, <3>1, Zenon
  <2>. HIDE DEF e
  <2>2. e \in Seq(S) /\ Len(e) = 0 /\ DOMAIN e = {}
    BY <2>1
  <2>3. PartsOK(e, S, 0, drawn)
    BY <2>2 DEF PartsOK, Separable
  <2>. QED
    BY <1>2, <1>4, <2>3 DEF e
<1>5. CASE m # 0
  <2>1. m \in 0..n /\ m \in 1..n /\ m - 1 \in 0..n /\ m - 1 \in Nat /\ m - 1 + 1 = m
        /\ m - 1 \notin Bad
    BY <1>2, <1>5
  <2>2. f[m] = f[m - 1] \o part[m]
    BY <1>3, <1>5, <2>1, Zenon
  <2>3. PartsOK(f[m - 1], S, m - 1, drawn)
    BY <2>1
  <2>4. PartOK(part[m], m - 1 + 1, drawn) /\ \A i \in DOMAIN part[m] : part[m][i] \in S
    BY <2>1, Zenon
  <2>5. PartsOK(f[m - 1] \o part[m], S, m - 1 + 1, drawn)
    BY <2>1, <2>3, <2>4, JoinPart, Zenon
  <2>. QED
    BY <1>2, <2>1, <2>2, <2>5, Zenon
<1>. QED
  BY <1>4, <1>5

(* Part k of a mixed run.                                                   *)
MixedPart(n, tenths, draw, drawn, frauds, k) ==
  IF k \in DOMAIN Generators
    THEN Generate(Generators[k], k, Most(1, n \div Len(Generators)), tenths, frauds[k], draw)
    ELSE Generate(drawn[k], k, 1, tenths, frauds[k], draw)

(* The generators drawn are generators.                                     *)
DrawnOK(drawn, n) == \A k \in 1..n : drawn[k] \in AllGenerators

LEMMA MixedPartOK ==
  ASSUME NEW n \in Nat, NEW tenths \in Nat, NEW draw, NEW drawn, DrawnOK(drawn, n),
         NEW frauds, NEW k \in 1..n
  PROVE  PartOK(MixedPart(n, tenths, draw, drawn, frauds, k), k, drawn)
<1>. DEFINE g == GeneratorOf(k, drawn)
           size == IF k \in 1..7 THEN Most(1, n \div 7) ELSE 1
           p == Generate(g, k, size, tenths, frauds[k], draw)
<1>1. MixedPart(n, tenths, draw, drawn, frauds, k) = p
  BY GeneratorsDiffer DEF MixedPart, GeneratorOf
<1>2. size \in Nat /\ size > 0 /\ (k > 7 => size = 1)
  <2>1. n \div 7 \in Nat
    OBVIOUS
  <2>2. Most(1, n \div 7) \in Nat /\ Most(1, n \div 7) > 0
    BY <2>1 DEF Most
  <2>. QED
    BY <2>2
<1>3. g \in AllGenerators
  BY GeneratorsDiffer, Zenon DEF GeneratorOf, DrawnOK
<1>. HIDE DEF size
<1>4. /\ Len(p) \in Nat /\ DOMAIN p = 1..Len(p) /\ Numbered(p, Len(p))
      /\ Len(p) <= size /\ (size > 0 => Len(p) > 0)
      /\ \A i \in DOMAIN p : p[i].customer[2] = k /\ p[i].device[1] = g
      /\ Separable(p)
  <2>. HIDE DEF g
  <2>. QED
    BY <1>2, <1>3, PartRun
<1>. HIDE DEF p
<1>5. k > 7 => Len(p) = 1
  BY <1>2, <1>4
<1>6. PartOK(p, k, drawn)
  BY <1>2, <1>4, <1>5 DEF PartOK
<1>. QED
  BY <1>1, <1>6

(* A run of mixed_fraud is the beginning of joined parts.                   *)
FirstParts(f, n) == SubSeq(f[CHOOSE k \in 0..n : Len(f[k]) >= n], 1, n)

LEMMA MixedIs ==
  ASSUME NEW n \in Nat, NEW tenths, NEW draw, NEW drawn, NEW frauds, NEW part,
         part = [k \in 1..n |-> MixedPart(n, tenths, draw, drawn, frauds, k)]
  PROVE  \E f : Joined(f, part, n) /\ Mixed(n, tenths, draw, drawn, frauds) = FirstParts(f, n)
<1>. DEFINE P(k) == MixedPart(n, tenths, draw, drawn, frauds, k)
           F == CHOOSE f : f = [k \in 0..n |-> IF k = 0 THEN <<>> ELSE f[k - 1] \o P(k)]
<1>1. Mixed(n, tenths, draw, drawn, frauds) = FirstParts(F, n)
  BY DEF Mixed, MixedPart, FirstParts
<1>. HIDE DEF P
<1>2. \A f : [k \in 0..n |-> IF k = 0 THEN <<>> ELSE f[k - 1] \o P(k)] =
             [k \in 0..n |-> IF k = 0 THEN <<>> ELSE f[k - 1] \o part[k]]
  <2>1. \A k \in 0..n : k # 0 => part[k] = P(k)
    BY DEF P
  <2>. QED
    BY <2>1
<1>3. \E f : Joined(f, part, n)
  BY JoinedExists
<1>4. F = [k \in 0..n |-> IF k = 0 THEN <<>> ELSE F[k - 1] \o P(k)]
  <2>1. \E f : f = [k \in 0..n |-> IF k = 0 THEN <<>> ELSE f[k - 1] \o P(k)]
    <3>1. PICK f : Joined(f, part, n)
      BY <1>3
    <3>2. f = [k \in 0..n |-> IF k = 0 THEN <<>> ELSE f[k - 1] \o P(k)]
      BY <1>2, <3>1 DEF Joined
    <3>. QED
      BY <3>2, Zenon
  <2>. QED
    BY <2>1
<1>. HIDE DEF F
<1>5. Joined(F, part, n)
  BY <1>2, <1>4 DEF Joined
<1>. QED
  BY <1>1, <1>5, Zenon

LEMMA MixedSeparable ==
  ASSUME NEW n \in Nat, NEW tenths \in Nat, NEW draw, NEW drawn, DrawnOK(drawn, n),
         NEW frauds
  PROVE  Separable(Mixed(n, tenths, draw, drawn, frauds))
<1>. DEFINE part == [k \in 1..n |-> MixedPart(n, tenths, draw, drawn, frauds, k)]
<1>1. part = [k \in 1..n |-> MixedPart(n, tenths, draw, drawn, frauds, k)]
  OBVIOUS
<1>2. \A k \in 1..n : PartOK(part[k], k, drawn)
  BY MixedPartOK
<1>. HIDE DEF part
<1>3. PICK f : Joined(f, part, n) /\ Mixed(n, tenths, draw, drawn, frauds) = FirstParts(f, n)
  BY <1>1, MixedIs, Zenon
<1>. DEFINE S == UNION {{part[k][i] : i \in DOMAIN part[k]} : k \in 1..n}
<1>4. ASSUME NEW k \in 1..n, NEW i \in DOMAIN part[k] PROVE part[k][i] \in S
  <2>. DEFINE T == {part[k][j] : j \in DOMAIN part[k]}
  <2>1. part[k][i] \in T /\ T \in {{part[l][j] : j \in DOMAIN part[l]} : l \in 1..n}
    OBVIOUS
  <2>. HIDE DEF T
  <2>. QED
    BY <2>1
<1>. HIDE DEF S
<1>5. \A k \in 0..n : PartsOK(f[k], S, k, drawn)
  BY <1>2, <1>3, <1>4, PartsJoin
<1>. DEFINE last == CHOOSE k \in 0..n : Len(f[k]) >= n
           p == f[last]
<1>6. last \in 0..n /\ Len(p) >= n
  <2>1. n \in 0..n /\ Len(f[n]) >= n
    BY <1>5 DEF PartsOK
  <2>2. \E k \in 0..n : Len(f[k]) >= n
    BY <2>1
  <2>. QED
    BY <2>2
<1>7. Mixed(n, tenths, draw, drawn, frauds) = SubSeq(p, 1, n)
  BY <1>3 DEF FirstParts
<1>8. p \in Seq(S) /\ Separable(p)
  BY <1>5, <1>6 DEF PartsOK
<1>. DEFINE r == SubSeq(p, 1, n)
<1>. HIDE DEF p
<1>9. Len(p) \in Nat /\ DOMAIN p = 1..Len(p) /\ \A i \in 1..n : i \in DOMAIN p
  BY <1>6, <1>8, LenProperties
<1>10. \A i \in 1..n : p[i] \in S
  BY <1>8, <1>9, ElementOfSeq
<1>11. r \in Seq(S) /\ Len(r) = n /\ \A i \in 1..n : r[i] = p[i]
  <2>1. 1 \in Int /\ n \in Int /\ n - 1 + 1 = n /\ (IF 1 <= n THEN n - 1 + 1 ELSE 0) = n
    OBVIOUS
  <2>2. \A i \in 1..n : 1 + i - 1 = i
    OBVIOUS
  <2>3. /\ SubSeq(p, 1, n) \in Seq(S)
        /\ Len(SubSeq(p, 1, n)) = IF 1 <= n THEN n - 1 + 1 ELSE 0
        /\ \A i \in 1..n - 1 + 1 : SubSeq(p, 1, n)[i] = p[1 + i - 1]
    BY <1>8, <1>10, <2>1, SubSeqProperties
  <2>. QED
    BY <2>1, <2>2, <2>3
<1>12. DOMAIN r = 1..n
  BY <1>11, LenProperties
<1>. HIDE DEF r
<1>13. Separable(r)
  BY <1>8, <1>9, <1>11, <1>12, PrefixSeparable
<1>. QED
  BY <1>7, <1>13 DEF r

(* A plan is a run of one of the scenarios, with any numbers it draws.      *)
Generated(p) ==
  \E n, tenths \in Nat : \E draw, frauds :
    \/ \E g \in AllGenerators : \E call : p = Generate(g, call, n, tenths, frauds, draw)
    \/ \E drawn : DrawnOK(drawn, n) /\ p = Mixed(n, tenths, draw, drawn, frauds)

LEMMA GeneratedSeparable ==
  ASSUME NEW p, Generated(p)
  PROVE  Separable(p)
<1>1. ASSUME NEW n \in Nat, NEW tenths \in Nat, NEW g \in AllGenerators, NEW call, NEW frauds,
             NEW draw, p = Generate(g, call, n, tenths, frauds, draw)
      PROVE  Separable(p)
  BY <1>1, PartRun
<1>2. ASSUME NEW n \in Nat, NEW tenths \in Nat, NEW drawn, DrawnOK(drawn, n), NEW draw,
             NEW frauds, p = Mixed(n, tenths, draw, drawn, frauds)
      PROVE  Separable(p)
  BY <1>2, MixedSeparable
<1>. QED
  BY <1>1, <1>2, Zenon DEF Generated

(* scenarios.py:5: when every plan is a run of one of the scenarios, of any *)
(* length, share of frauds and draw, the rules alone raise no alarm for a   *)
(* legitimate payment whose address has five customers at most, and one for *)
(* every attack from far away on a customer whose payments they let pass.   *)
THEOREM RulesTellApart ==
  ASSUME \A p \in Plans : Generated(p)
  PROVE  LabSpec => []RulesSeparate
<1>1. \A p \in Plans : Separable(p)
  BY GeneratedSeparable, Zenon
<1>. QED
  BY <1>1, SeparablePlans

=============================================================================
