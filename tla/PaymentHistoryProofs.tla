------------------------ MODULE PaymentHistoryProofs ------------------------
(***************************************************************************)
(* Theorems about PaymentHistory, and about Training on its histories, for  *)
(* any plan of requests, any number of handlers, any ageing of the log and  *)
(* any threshold of the model.                                              *)
(***************************************************************************)
EXTENDS Training, FiniteSetTheorems, SequenceTheorems, WellFoundedInduction, TLAPS

(***************************************************************************)
(* The engine as a function of the features.                               *)
(***************************************************************************)
(* The features of a payment.                                               *)
LEMMA ContextType ==
  ASSUME NEW x \in Context
  PROVE  /\ x.multiple \in Nat /\ x.velocity \in Nat /\ x.deviceCustomers \in Nat
         /\ x.distance \in Nat /\ x.failures \in Nat /\ x.ipCustomers \in Nat
         /\ x.probability \in 0..1000
  BY DEF Context

(* Which detector gives which signal.                                       *)
LEMMA Signals ==
  ASSUME NEW x
  PROVE  /\ SignalOf("amount", x) = AmountAnomaly(x)
         /\ SignalOf("velocity", x) = VelocityAnomaly(x)
         /\ SignalOf("device", x) = DeviceAnomaly(x)
         /\ SignalOf("geography", x) = GeographicAnomaly(x)
         /\ SignalOf("failures", x) = FailedPaymentSequence(x)
         /\ SignalOf("ip", x) = SharedIp(x)
         /\ SignalOf("micro", x) = MicroTransaction(x)
         /\ SignalOf("ml", x) = MlFraud(x)
  BY DEF SignalOf

(* A signal raised with a known severity and a value in 0..One has them.    *)
Sound(s) == s.value \in 0..One /\ s.severity \in Severities

LEMMA RaiseSound ==
  /\ \A n, s, v : s \in Severities /\ v \in 0..One => Sound(Raise(n, s, v))
  /\ Sound(Silent)
<1>1. \A n, s, v : Raise(n, s, v).severity = s /\ Raise(n, s, v).value = v
  BY DEF Raise
<1>2. "LOW" \in Severities /\ 0 \in 0..One
  BY DEF Severities, One
<1>. QED
  BY <1>1, <1>2 DEF Sound, Silent

(* The model's probability as the value of a signal.                        *)
LEMMA ProbabilityValue ==
  ASSUME NEW x \in Context PROVE 6 * x.probability \in 0..6000
<1>1. PICK p \in 0..1000 : p = x.probability
  BY ContextType
<1>2. 6 * p \in 0..6000
  OBVIOUS
<1>. QED
  BY <1>1, <1>2

(* The signals the model can give.                                          *)
LEMMA MlSignals ==
  ASSUME NEW x
  PROVE  \/ MlFraud(x) = Silent
         \/ \E s \in Severities : MlFraud(x) = Raise("ml_fraud_model", s, 6 * x.probability)
<1>. DEFINE v == 6 * x.probability
<1>1. \/ MlFraud(x) = Raise("ml_fraud_model", "CRITICAL", v)
      \/ MlFraud(x) = Raise("ml_fraud_model", "HIGH", v)
      \/ MlFraud(x) = Raise("ml_fraud_model", "MEDIUM", v)
      \/ MlFraud(x) = Silent
  BY DEF MlFraud
<1>. HIDE DEF v
<1>2. {"CRITICAL", "HIGH", "MEDIUM"} \subseteq Severities
  BY DEF Severities
<1>3. \/ MlFraud(x) = Silent
      \/ \E s \in Severities : MlFraud(x) = Raise("ml_fraud_model", s, v)
  BY <1>1, <1>2
<1>. QED
  BY <1>3 DEF v

(* Every detector gives a value between 0 and 1 and a known severity.       *)
LEMMA SignalType ==
  ASSUME NEW x \in Context, NEW d \in Detectors
  PROVE  Sound(SignalOf(d, x))
<1>. USE Signals, RaiseSound DEF One, Severities
<1>1. Sound(SignalOf("amount", x))
  BY ContextType DEF AmountAnomaly, Least
<1>2. Sound(SignalOf("velocity", x))
  BY ContextType DEF VelocityAnomaly, Least
<1>3. Sound(SignalOf("device", x))
  BY DEF DeviceAnomaly
<1>4. Sound(SignalOf("geography", x))
  BY DEF GeographicAnomaly
<1>5. Sound(SignalOf("failures", x))
  BY ContextType DEF FailedPaymentSequence, Least
<1>6. Sound(SignalOf("ip", x))
  BY DEF SharedIp
<1>7. Sound(SignalOf("micro", x))
  BY DEF MicroTransaction
<1>8. Sound(SignalOf("ml", x))
  <2>1. 6 * x.probability \in 0..One
    BY ProbabilityValue
  <2>. QED
    BY <2>1, MlSignals
<1>. QED
  BY <1>1, <1>2, <1>3, <1>4, <1>5, <1>6, <1>7, <1>8 DEF Detectors

(* What one detector adds is a natural number.                              *)
LEMMA PointsOfType ==
  ASSUME NEW x \in Context, NEW ran, NEW d \in Detectors
  PROVE  PointsOf(d, x, ran) \in Nat
<1>1. \A v \in 0..One : 100 * v \in Nat /\ 75 * v \in Nat /\ 45 * v \in Nat /\ 15 * v \in Nat
  BY DEF One
<1>2. Weight(SignalOf(d, x).severity) \in {100, 75, 45, 15}
  BY DEF Weight
<1>. QED
  BY <1>1, <1>2, SignalType DEF PointsOf, Sound

(* So is the sum.                                                           *)
LEMMA PointsType ==
  ASSUME NEW x \in Context, NEW ran
  PROVE  Points(x, ran) \in Nat
  BY PointsOfType DEF Points, Detectors

(* If no detector adds less, the sum is not smaller.                        *)
LEMMA PointsMonotone ==
  ASSUME NEW x \in Context, NEW y \in Context, NEW ran, NEW all,
         \A d \in Detectors : PointsOf(d, x, ran) <= PointsOf(d, y, all)
  PROVE  Points(x, ran) <= Points(y, all)
  BY PointsOfType DEF Points, Detectors

(* Rounding halves to even keeps the order.                                 *)
LEMMA RoundMonotone ==
  ASSUME NEW m \in Nat, NEW n \in Nat, m <= n
  PROVE  RoundHalfEven(m) <= RoundHalfEven(n)
  BY DEF RoundHalfEven, One

(* A rounded sum is a natural number.                                       *)
LEMMA RoundType ==
  ASSUME NEW n \in Nat PROVE RoundHalfEven(n) \in Nat
  BY DEF RoundHalfEven, One

(* Capping at 100 keeps the order, and scores lie in 0..100.                *)
LEMMA ScoreMonotone ==
  ASSUME NEW x \in Context, NEW y \in Context, NEW ran, NEW all,
         Points(x, ran) <= Points(y, all)
  PROVE  /\ Score(x, ran) \in 0..100 /\ Score(y, all) \in 0..100
         /\ Score(x, ran) <= Score(y, all)
<1>1. /\ RoundHalfEven(Points(x, ran)) \in Nat /\ RoundHalfEven(Points(y, all)) \in Nat
      /\ RoundHalfEven(Points(x, ran)) <= RoundHalfEven(Points(y, all))
  BY PointsType, RoundType, RoundMonotone
<1>. QED
  BY <1>1 DEF Score, Least

(* A higher score never gives a milder decision.                            *)
LEMMA DecideMonotone ==
  ASSUME NEW m \in 0..100, NEW n \in 0..100, m <= n
  PROVE  Rank(Decide(m)) <= Rank(Decide(n))
  BY DEF Decide, Rank

(* Leaving detectors out never gives a stricter decision.                   *)
LEMMA SkippingIsMilder ==
  ASSUME NEW x \in Context, NEW ran
  PROVE  Rank(Decision(x, ran)) <= Rank(Decision(x, Detectors))
<1>1. \A d \in Detectors : PointsOf(d, x, ran) <= PointsOf(d, x, Detectors)
  BY PointsOfType DEF PointsOf
<1>. QED
  BY <1>1, PointsMonotone, ScoreMonotone, DecideMonotone DEF Decision

(* One detector that adds 90 points blocks the payment on its own.          *)
LEMMA HighPointsBlock ==
  ASSUME NEW x \in Context, NEW d \in Detectors, PointsOf(d, x, Detectors) >= 540000
  PROVE  Decision(x, Detectors) = "BLOCK"
<1>1. Points(x, Detectors) \in Nat /\ Points(x, Detectors) >= 540000
  BY PointsOfType DEF Points, Detectors
<1>2. RoundHalfEven(Points(x, Detectors)) \in Nat /\ RoundHalfEven(Points(x, Detectors)) >= 90
  BY <1>1 DEF RoundHalfEven, One
<1>. QED
  BY <1>2 DEF Decision, Score, Least, Decide

(* A payment below 2.50 is blocked (rules.py:112-125).                       *)
LEMMA MicroBlocks ==
  ASSUME NEW x \in Context, x.micro PROVE Decision(x, Detectors) = "BLOCK"
<1>1. PointsOf("micro", x, Detectors) = 600000
  BY DEF PointsOf, SignalOf, MicroTransaction, Raise, Weight, One, Detectors
<1>. QED
  BY <1>1, HighPointsBlock DEF Detectors

(* The eighteenth payment of the hour is blocked (rules.py:21-41).          *)
LEMMA VelocityBlocks ==
  ASSUME NEW x \in Context, x.velocity >= 18 PROVE Decision(x, Detectors) = "BLOCK"
<1>1. PointsOf("velocity", x, Detectors) >= 540000
  BY DEF PointsOf, SignalOf, VelocityAnomaly, Raise, Least, Weight, One, Detectors, Context
<1>. QED
  BY <1>1, HighPointsBlock DEF Detectors

(* y shows at least the evidence x shows.                                   *)
AtLeast(y, x) ==
  /\ y.multiple >= x.multiple /\ y.velocity >= x.velocity
  /\ y.distance >= x.distance /\ y.failures >= x.failures
  /\ y.ipCustomers >= x.ipCustomers /\ y.probability >= x.probability
  /\ y.micro = x.micro /\ y.newDevice = x.newDevice
  /\ y.deviceCustomers = x.deviceCustomers

(* The weights of the four severities.                                      *)
LEMMA Weights ==
  /\ Weight("CRITICAL") = 100 /\ Weight("HIGH") = 75
  /\ Weight("MEDIUM") = 45 /\ Weight("LOW") = 15
  BY DEF Weight

(* A signal adds its weight times its value.                                *)
LEMMA PointsOfSignal ==
  ASSUME NEW z, NEW d \in Detectors, NEW n, NEW s, NEW v, SignalOf(d, z) = Raise(n, s, v)
  PROVE  PointsOf(d, z, Detectors) = Weight(s) * v
  BY DEF PointsOf, Raise

(* What the distance adds, by its two thresholds.                           *)
LEMMA GeographyPoints ==
  ASSUME NEW z \in Context
  PROVE  PointsOf("geography", z, Detectors) =
           IF z.distance > 5000 THEN 450000 ELSE IF z.distance > 1000 THEN 135000 ELSE 0
<1>1. SignalOf("geography", z) = GeographicAnomaly(z) /\ "geography" \in Detectors
  BY DEF SignalOf, Detectors
<1>2. GeographicAnomaly(z) =
        IF z.distance > 5000 THEN Raise("geographic_anomaly", "HIGH", 6000)
          ELSE IF z.distance > 1000 THEN Raise("geographic_anomaly", "MEDIUM", 3000)
          ELSE Raise("none", "LOW", 0)
  BY DEF GeographicAnomaly, Silent, One
<1>. QED
  BY <1>1, <1>2, PointsOfSignal, Weights

(* What the model adds for probability p, in parts of One.                 *)
MlPoints(p) ==
  IF p >= Most(Threshold, 950) THEN 600 * p
    ELSE IF p >= Most(Threshold - 100, 850) THEN 450 * p
    ELSE IF p >= 700 THEN 270 * p ELSE 0

(* What the model adds, by its three thresholds.                            *)
LEMMA MlPointsOf ==
  ASSUME NEW z \in Context
  PROVE  PointsOf("ml", z, Detectors) = MlPoints(z.probability)
<1>1. z.probability \in 0..1000
  BY ContextType
<1>2. PICK p \in 0..1000 : p = z.probability
  BY <1>1
<1>3. SignalOf("ml", z) = MlFraud(z) /\ "ml" \in Detectors
  BY Signals DEF Detectors
<1>4. MlFraud(z) =
        IF p >= Most(Threshold, 950) THEN Raise("ml_fraud_model", "CRITICAL", 6 * p)
          ELSE IF p >= Most(Threshold - 100, 850) THEN Raise("ml_fraud_model", "HIGH", 6 * p)
          ELSE IF p >= 700 THEN Raise("ml_fraud_model", "MEDIUM", 6 * p)
          ELSE Raise("none", "LOW", 0)
  BY <1>2 DEF MlFraud, Silent
<1>5. ASSUME p >= Most(Threshold, 950)
     PROVE  PointsOf("ml", z, Detectors) = MlPoints(p)
  <2>1. MlFraud(z) = Raise("ml_fraud_model", "CRITICAL", 6 * p)
    BY <1>4, <1>5
  <2>2. PointsOf("ml", z, Detectors) = Weight("CRITICAL") * (6 * p)
    BY <1>3, <2>1, PointsOfSignal
  <2>3. MlPoints(p) = 600 * p
    BY <1>5 DEF MlPoints
  <2>. QED
    BY <1>3, <2>2, <2>3, Weights
<1>6. ASSUME ~ (p >= Most(Threshold, 950)) /\ p >= Most(Threshold - 100, 850)
     PROVE  PointsOf("ml", z, Detectors) = MlPoints(p)
  <2>1. MlFraud(z) = Raise("ml_fraud_model", "HIGH", 6 * p)
    BY <1>4, <1>6
  <2>2. PointsOf("ml", z, Detectors) = Weight("HIGH") * (6 * p)
    BY <1>3, <2>1, PointsOfSignal
  <2>3. MlPoints(p) = 450 * p
    BY <1>6 DEF MlPoints
  <2>. QED
    BY <1>3, <2>2, <2>3, Weights
<1>7. ASSUME ~ (p >= Most(Threshold, 950)) /\ ~ (p >= Most(Threshold - 100, 850)) /\ p >= 700
     PROVE  PointsOf("ml", z, Detectors) = MlPoints(p)
  <2>1. MlFraud(z) = Raise("ml_fraud_model", "MEDIUM", 6 * p)
    BY <1>4, <1>7
  <2>2. PointsOf("ml", z, Detectors) = Weight("MEDIUM") * (6 * p)
    BY <1>3, <2>1, PointsOfSignal
  <2>3. MlPoints(p) = 270 * p
    BY <1>7 DEF MlPoints
  <2>. QED
    BY <1>3, <2>2, <2>3, Weights
<1>8. ASSUME ~ (p >= Most(Threshold, 950)) /\ ~ (p >= Most(Threshold - 100, 850)) /\ ~ (p >= 700)
     PROVE  PointsOf("ml", z, Detectors) = MlPoints(p)
  <2>1. MlFraud(z) = Raise("none", "LOW", 0)
    BY <1>4, <1>8
  <2>2. PointsOf("ml", z, Detectors) = Weight("LOW") * 0
    BY <1>3, <2>1, PointsOfSignal
  <2>3. MlPoints(p) = 0
    BY <1>8 DEF MlPoints
  <2>. QED
    BY <1>3, <2>2, <2>3, Weights
<1>. QED
  BY <1>2, <1>5, <1>6, <1>7, <1>8

(* A detector adds no less for more evidence.                               *)
LEMMA EvidenceCounts ==
  ASSUME NEW x \in Context, NEW y \in Context, AtLeast(y, x), NEW d \in Detectors
  PROVE  PointsOf(d, x, Detectors) <= PointsOf(d, y, Detectors)
<1>1. CASE d = "ml"
  <2>1. x.probability \in 0..1000 /\ y.probability \in 0..1000
    BY DEF Context
  <2>2. PICK p \in 0..1000 : p = x.probability
    BY <2>1
  <2>3. PICK q \in 0..1000 : q = y.probability
    BY <2>1
  <2>4. p <= q
    BY <2>2, <2>3 DEF AtLeast
  <2>5. MlPoints(p) \in Nat /\ MlPoints(q) \in Nat /\ MlPoints(p) <= MlPoints(q)
    <3>. DEFINE a == Most(Threshold, 950)
               b == Most(Threshold - 100, 850)
    <3>1. a \in 950..1000 /\ b \in 850..900
      BY ThresholdAssumption DEF Most
    <3>2. /\ MlPoints(p) = IF p >= a THEN 600 * p ELSE IF p >= b THEN 450 * p
                           ELSE IF p >= 700 THEN 270 * p ELSE 0
          /\ MlPoints(q) = IF q >= a THEN 600 * q ELSE IF q >= b THEN 450 * q
                           ELSE IF q >= 700 THEN 270 * q ELSE 0
      BY DEF MlPoints
    <3>. HIDE DEF a, b
    <3>3. CASE q >= a
      BY <2>4, <3>1, <3>2, <3>3
    <3>4. CASE q < a /\ q >= b
      BY <2>4, <3>1, <3>2, <3>4
    <3>5. CASE q < b
      BY <2>4, <3>1, <3>2, <3>5
    <3>. QED
      BY <3>1, <3>3, <3>4, <3>5
  <2>6. PointsOf(d, x, Detectors) = MlPoints(p) /\ PointsOf(d, y, Detectors) = MlPoints(q)
    BY <1>1, <2>2, <2>3, MlPointsOf
  <2>. QED
    BY <2>5, <2>6
<1>2. CASE d = "geography"
  BY <1>2, GeographyPoints DEF AtLeast, Context
<1>3. CASE d \notin {"ml", "geography"}
  <2>. USE DEF PointsOf, Context, One, Severities, Silent, Raise, Least, Weight, AtLeast, Detectors
  <2>1. CASE d = "amount"
    BY <2>1 DEF SignalOf, AmountAnomaly
  <2>2. CASE d = "velocity"
    BY <2>2 DEF SignalOf, VelocityAnomaly
  <2>3. CASE d = "device"
    BY <2>3 DEF SignalOf, DeviceAnomaly
  <2>4. CASE d = "failures"
    BY <2>4 DEF SignalOf, FailedPaymentSequence
  <2>5. CASE d = "ip"
    BY <2>5 DEF SignalOf, SharedIp
  <2>6. CASE d = "micro"
    BY <2>6 DEF SignalOf, MicroTransaction
  <2>. HIDE DEF PointsOf, Context, One, Severities, Silent, Raise, Least, Weight, AtLeast
  <2>. QED
    BY <1>3, <2>1, <2>2, <2>3, <2>4, <2>5, <2>6
<1>. QED
  BY <1>1, <1>2, <1>3

(* The payments MonotoneInEvidence compares show more evidence.             *)
LEMMA WorseShowsMore ==
  ASSUME NEW x \in Context, NEW y \in Worse(x)
  PROVE  y \in Context /\ AtLeast(y, x)
<1>. DEFINE More(n) ==
  { [x EXCEPT !.velocity = @ + n], [x EXCEPT !.distance = @ + 900 * n],
    [x EXCEPT !.multiple = @ + 7 * n], [x EXCEPT !.ipCustomers = @ + n],
    [x EXCEPT !.failures = @ + n],
    [x EXCEPT !.probability = Least(@ + 40 * n, 1000)] }
<1>1. y \in UNION {More(n) : n \in {1, 6}}
  BY Zenon DEF Worse
<1>8. PICK n \in {1, 6} : y \in More(n)
  <2>. HIDE DEF More
  <2>. QED
    BY <1>1
<1>9. \/ y = [x EXCEPT !.velocity = @ + n] \/ y = [x EXCEPT !.distance = @ + 900 * n]
      \/ y = [x EXCEPT !.multiple = @ + 7 * n] \/ y = [x EXCEPT !.ipCustomers = @ + n]
      \/ y = [x EXCEPT !.failures = @ + n]
      \/ y = [x EXCEPT !.probability = Least(@ + 40 * n, 1000)]
  BY <1>8
<1>. HIDE DEF More
<1>2. CASE y = [x EXCEPT !.velocity = @ + n]
  BY <1>2 DEF Context, AtLeast
<1>3. CASE y = [x EXCEPT !.distance = @ + 900 * n]
  BY <1>3 DEF Context, AtLeast
<1>4. CASE y = [x EXCEPT !.multiple = @ + 7 * n]
  BY <1>4 DEF Context, AtLeast
<1>5. CASE y = [x EXCEPT !.ipCustomers = @ + n]
  BY <1>5 DEF Context, AtLeast
<1>6. CASE y = [x EXCEPT !.failures = @ + n]
  BY <1>6 DEF Context, AtLeast
<1>7. CASE y = [x EXCEPT !.probability = Least(@ + 40 * n, 1000)]
  <2>1. PICK p \in 0..1000 : p = x.probability
    BY ContextType
  <2>2. PICK q \in p..1000 : q = Least(p + 40 * n, 1000)
    <3>1. Least(p + 40 * n, 1000) \in p..1000
      BY DEF Least
    <3>. QED
      BY <3>1
  <2>3. y = [x EXCEPT !.probability = q]
    BY <1>7, <2>1, <2>2, Zenon
  <2>4. q \in 0..1000 /\ q >= p
    BY <2>2
  <2>5. y \in Context
    BY <2>3, <2>4 DEF Context
  <2>6. y.probability = q /\ \A f \in DOMAIN x \ {"probability"} : y[f] = x[f]
    BY <2>3 DEF Context
  <2>7. DOMAIN x = {"multiple", "micro", "velocity", "newDevice", "deviceCustomers",
                    "distance", "failures", "ipCustomers", "probability"}
    BY DEF Context
  <2>8. AtLeast(y, x)
    BY <2>1, <2>4, <2>6, <2>7, ContextType DEF AtLeast
  <2>. QED
    BY <2>5, <2>8
<1>. QED
  BY <1>9, <1>2, <1>3, <1>4, <1>5, <1>6, <1>7

(***************************************************************************)
(* Sums over finite sets.  MapThenSumSet is defined by recursion over the   *)
(* subsets of its argument; here the recursion is shown to have one         *)
(* solution, and facts about its values to hold, by taking a minimal        *)
(* counterexample of the strict subset order.                               *)
(***************************************************************************)
Pick(s) == CHOOSE x \in s : TRUE

Rest(s) == s \ {Pick(s)}

(* g[s] is the sum of v over s, for every subset s of t.                    *)
Sums(v, g, t) ==
  g = [s \in SUBSET t |-> IF s = {} THEN 0 ELSE v[Pick(s)] + g[Rest(s)]]

(* Of every set of subsets of a finite set one has no other below it.       *)
LEMMA Minimal ==
  ASSUME NEW S, IsFiniteSet(S), NEW Bad, Bad \subseteq SUBSET S, Bad # {}
  PROVE  \E t \in Bad : \A u \in Bad : ~ (u \subseteq t /\ u # t)
<1>1. IsWellFoundedOn(StrictSubsetOrdering(S), SUBSET S)
  BY FS_StrictSubsetOrderingWellFounded, FS_FiniteSubsetsOfFinite
<1>2. PICK t \in Bad : \A u \in Bad : ~ (<<u, t>> \in StrictSubsetOrdering(S))
  BY <1>1, WFMin
<1>. QED
  BY <1>2 DEF StrictSubsetOrdering

(* What is picked belongs to the set, and the rest is a smaller subset.     *)
LEMMA RestIsSmaller ==
  ASSUME NEW s, s # {}
  PROVE  Pick(s) \in s /\ Rest(s) \subseteq s /\ Rest(s) # s
  BY DEF Pick, Rest

(* The sums satisfy their recursive equation at every subset.               *)
LEMMA SumsAt ==
  ASSUME NEW v, NEW g, NEW t, Sums(v, g, t), NEW s \in SUBSET t
  PROVE  g[s] = IF s = {} THEN 0 ELSE v[Pick(s)] + g[Rest(s)]
  BY DEF Sums

(* The sums over the subsets of a set give those of any subset of it.       *)
LEMMA SumsRestrict ==
  ASSUME NEW v, NEW g, NEW t, Sums(v, g, t), NEW u \in SUBSET t
  PROVE  Sums(v, [s \in SUBSET u |-> g[s]], u)
<1>. DEFINE h == [s \in SUBSET u |-> g[s]]
<1>1. \A s \in SUBSET u : h[s] = IF s = {} THEN 0 ELSE v[Pick(s)] + g[Rest(s)]
  BY SumsAt
<1>2. \A s \in SUBSET u : s # {} => g[Rest(s)] = h[Rest(s)]
  BY RestIsSmaller
<1>3. h = [s \in SUBSET u |-> h[s]]
  OBVIOUS
<1>. HIDE DEF h
<1>4. \A s \in SUBSET u : h[s] = IF s = {} THEN 0 ELSE v[Pick(s)] + h[Rest(s)]
  BY <1>1, <1>2
<1>5. h = [s \in SUBSET u |-> IF s = {} THEN 0 ELSE v[Pick(s)] + h[Rest(s)]]
  BY <1>3, <1>4
<1>. QED
  BY <1>5 DEF Sums, h

(* The recursive equation has at most one solution.                         *)
LEMMA SumsUnique ==
  ASSUME NEW t, IsFiniteSet(t), NEW v, NEW g, NEW h, Sums(v, g, t), Sums(v, h, t)
  PROVE  g = h
<1>1. SUFFICES ASSUME g # h PROVE FALSE
  OBVIOUS
<1>. DEFINE Bad == {s \in SUBSET t : g[s] # h[s]}
<1>2. Bad \subseteq SUBSET t /\ Bad # {}
  BY <1>1 DEF Sums
<1>3. \E s \in Bad : \A u \in Bad : ~ (u \subseteq s /\ u # s)
  <2>. HIDE DEF Bad
  <2>. QED
    BY <1>2, Minimal
<1>4. PICK s \in Bad : \A u \in Bad : ~ (u \subseteq s /\ u # s)
  BY <1>3
<1>5. s # {} /\ g[Rest(s)] # h[Rest(s)]
  BY <1>4 DEF Sums
<1>. QED
  BY <1>4, <1>5, RestIsSmaller

(* It has one: of the subsets without, a minimal one can be extended.       *)
LEMMA SumsExist ==
  ASSUME NEW S, IsFiniteSet(S), NEW v PROVE \E g : Sums(v, g, S)
<1>1. SUFFICES ASSUME ~ \E g : Sums(v, g, S) PROVE FALSE
  OBVIOUS
<1>. DEFINE Bad == {t \in SUBSET S : ~ \E g : Sums(v, g, t)}
<1>2. Bad \subseteq SUBSET S /\ S \in Bad
  BY <1>1
<1>3. \E t \in Bad : \A u \in Bad : ~ (u \subseteq t /\ u # t)
  <2>. HIDE DEF Bad
  <2>. QED
    BY <1>2, Minimal
<1>4. PICK t \in Bad : \A u \in Bad : ~ (u \subseteq t /\ u # t)
  BY <1>3
<1>. DEFINE G(s) == CHOOSE g : Sums(v, g, s)
           K == [s \in SUBSET t |-> G(s)[s]]
           h == [s \in SUBSET t |-> IF s = {} THEN 0 ELSE v[Pick(s)] + K[Rest(s)]]
<1>5. \A s \in SUBSET t : s # t => Sums(v, G(s), s)
  BY <1>4
<1>6. ASSUME NEW s \in SUBSET t, s # t PROVE h[s] = K[s]
  <2>. HIDE DEF G
  <2>1. Sums(v, G(s), s) /\ K[s] = G(s)[s]
    BY <1>5, <1>6
  <2>2. G(s)[s] = IF s = {} THEN 0 ELSE v[Pick(s)] + G(s)[Rest(s)]
    BY <2>1, SumsAt
  <2>3. ASSUME s # {} PROVE G(s)[Rest(s)] = K[Rest(s)]
    <3>1. Rest(s) \in SUBSET s /\ Rest(s) \in SUBSET t /\ Rest(s) # t
      BY <1>6, <2>3, RestIsSmaller
    <3>. DEFINE r == [u \in SUBSET Rest(s) |-> G(s)[u]]
    <3>2. Sums(v, r, Rest(s))
      BY <2>1, <3>1, SumsRestrict
    <3>3. IsFiniteSet(Rest(s))
      BY <3>1, <1>4, FS_Subset
    <3>4. Sums(v, G(Rest(s)), Rest(s)) /\ K[Rest(s)] = G(Rest(s))[Rest(s)]
      BY <1>5, <3>1
    <3>5. r[Rest(s)] = G(s)[Rest(s)]
      OBVIOUS
    <3>. HIDE DEF r
    <3>6. r = G(Rest(s))
      BY <3>2, <3>3, <3>4, SumsUnique
    <3>. QED
      BY <3>4, <3>5, <3>6
  <2>. QED
    BY <2>1, <2>2, <2>3
<1>7. Sums(v, h, t)
  <2>1. \A s \in SUBSET t : s # {} => Rest(s) \in SUBSET t /\ Rest(s) # t
    BY RestIsSmaller
  <2>2. h = [s \in SUBSET t |-> IF s = {} THEN 0 ELSE v[Pick(s)] + K[Rest(s)]]
    OBVIOUS
  <2>. HIDE DEF h, K
  <2>3. \A s \in SUBSET t : s # {} => h[Rest(s)] = K[Rest(s)]
    BY <2>1, <1>6
  <2>. QED
    BY <2>2, <2>3 DEF Sums
<1>. QED
  BY <1>4, <1>7

(* Sums of natural numbers are natural numbers.                             *)
LEMMA SumsType ==
  ASSUME NEW S, IsFiniteSet(S), NEW v, NEW g, Sums(v, g, S), \A x \in S : v[x] \in Nat
  PROVE  g[S] \in Nat
<1>1. \A s \in SUBSET S : g[s] \in Nat
  <2>1. SUFFICES ASSUME \E s \in SUBSET S : g[s] \notin Nat PROVE FALSE
    OBVIOUS
  <2>2. PICK s \in SUBSET S : g[s] \notin Nat /\
                              \A u \in SUBSET S : g[u] \notin Nat => ~ (u \subseteq s /\ u # s)
    <3>. DEFINE Bad == {s \in SUBSET S : g[s] \notin Nat}
    <3>1. Bad \subseteq SUBSET S /\ Bad # {}
      BY <2>1
    <3>2. \E s \in Bad : \A u \in Bad : ~ (u \subseteq s /\ u # s)
      <4>. HIDE DEF Bad
      <4>. QED
        BY <3>1, Minimal
    <3>. QED
      BY <3>2
  <2>3. s # {} /\ g[Rest(s)] \notin Nat
    BY <2>2, RestIsSmaller DEF Sums
  <2>. QED
    BY <2>2, <2>3, RestIsSmaller
<1>. QED
  BY <1>1

(* The sum of a constant.                                                   *)
LEMMA SumsConstant ==
  ASSUME NEW S, IsFiniteSet(S), NEW v, NEW g, Sums(v, g, S), NEW c \in Nat,
         \A x \in S : v[x] = c
  PROVE  g[S] = c * Cardinality(S)
<1>. DEFINE Bad == {s \in SUBSET S : g[s] # c * Cardinality(s)}
<1>1. SUFFICES ASSUME Bad # {} PROVE FALSE
  OBVIOUS
<1>2. PICK s \in Bad : \A u \in Bad : ~ (u \subseteq s /\ u # s)
  <2>1. Bad \subseteq SUBSET S
    OBVIOUS
  <2>. HIDE DEF Bad
  <2>. QED
    BY <1>1, <2>1, Minimal
<1>3. g[s] = IF s = {} THEN 0 ELSE v[Pick(s)] + g[Rest(s)]
  BY <1>2, SumsAt
<1>4. s # {}
  <2>1. c * 0 = 0
    OBVIOUS
  <2>. QED
    BY <1>2, <1>3, <2>1, FS_EmptySet
<1>5. Pick(s) \in S /\ g[Rest(s)] = c * Cardinality(Rest(s))
  BY <1>2, <1>4, RestIsSmaller
<1>6. Cardinality(s) \in Nat /\ Cardinality(s) > 0 /\ Cardinality(Rest(s)) = Cardinality(s) - 1
  <2>1. IsFiniteSet(s)
    BY <1>2, FS_Subset
  <2>2. Cardinality(s) \in Nat /\ Cardinality(s) # 0
    BY <1>4, <2>1, FS_EmptySet, FS_CardinalityType
  <2>3. Cardinality(Rest(s)) = Cardinality(s) - 1
    BY <1>4, <2>1, RestIsSmaller, FS_RemoveElement DEF Rest
  <2>. QED
    BY <2>2, <2>3
<1>7. ASSUME NEW n \in Nat PROVE c + c * (n - 1) = c * n
  OBVIOUS
<1>. QED
  BY <1>2, <1>3, <1>4, <1>5, <1>6, <1>7

(***************************************************************************)
(* Sums over the history.                                                   *)
(***************************************************************************)
(* The totals over earlier payments are such sums.                          *)
LEMMA TotalIsSum ==
  ASSUME NEW f, NEW S, IsFiniteSet(S)
  PROVE  \E g : TotalOf(f, S) = g[S] /\ Sums([i \in S |-> Paid(i)[f]], g, S)
<1>. DEFINE v == [i \in S |-> Paid(i)[f]]
           g == CHOOSE h : h = [s \in SUBSET S |->
                                  IF s = {} THEN 0 ELSE Paid(Pick(s))[f] + h[Rest(s)]]
<1>1. PICK h : Sums(v, h, S)
  BY SumsExist
<1>2. h = [s \in SUBSET S |-> IF s = {} THEN 0 ELSE Paid(Pick(s))[f] + h[Rest(s)]]
  <2>1. \A s \in SUBSET S : s # {} => v[Pick(s)] = Paid(Pick(s))[f]
    BY RestIsSmaller
  <2>. HIDE DEF v
  <2>. QED
    BY <1>1, <2>1 DEF Sums
<1>3. g = [s \in SUBSET S |-> IF s = {} THEN 0 ELSE Paid(Pick(s))[f] + g[Rest(s)]]
  BY <1>2
<1>4. TotalOf(f, S) = g[S]
  BY DEF TotalOf, MapThenSumSet, MapThenFoldSet, Pick, Rest
<1>. HIDE DEF g
<1>5. Sums(v, g, S)
  <2>1. \A s \in SUBSET S : s # {} => v[Pick(s)] = Paid(Pick(s))[f]
    BY RestIsSmaller
  <2>. HIDE DEF v
  <2>. QED
    BY <1>3, <2>1 DEF Sums
<1>. QED
  BY <1>4, <1>5

(* A total over earlier payments is a natural number.                       *)
LEMMA TotalType ==
  ASSUME NEW f, NEW S, IsFiniteSet(S), \A i \in S : Paid(i)[f] \in Nat
  PROVE  TotalOf(f, S) \in Nat
<1>1. PICK g : TotalOf(f, S) = g[S] /\ Sums([i \in S |-> Paid(i)[f]], g, S)
  BY TotalIsSum
<1>. QED
  BY <1>1, SumsType

(***************************************************************************)
(* The features of a request are features.                                  *)
(***************************************************************************)
Requests == {plan[i] : i \in DOMAIN plan}

Entries == [request : Requests, status : {"completed", "blocked"}]

LogOK == plan \in Plans /\ log \in Seq(Entries) /\ old \in 0..Len(log)

(* The parts of a request.                                                  *)
LEMMA RequestType ==
  ASSUME LogOK, NEW r \in Requests
  PROVE  r.amount \in Nat \ {0} /\ r.place \in Nat \cup {Absent} /\ r.probability \in 0..1000
<1>1. PICK i \in DOMAIN plan : r = plan[i]
  BY DEF Requests
<1>2. plan \in Plans
  BY DEF LogOK
<1>3. /\ plan[i].amount \in Nat \ {0} /\ plan[i].place \in Nat \cup {Absent}
      /\ plan[i].probability \in 0..1000
  BY <1>2, HistoryAssumption
<1>. QED
  BY <1>1, <1>3

(* The log is made of requests of the plan.                                 *)
LEMMA LogType ==
  ASSUME LogOK
  PROVE  /\ Len(log) \in Nat /\ DOMAIN log = 1..Len(log) /\ IsFiniteSet(DOMAIN log)
         /\ \A i \in DOMAIN log : Paid(i) \in Requests /\ log[i].status \in {"completed", "blocked"}
<1>1. Len(log) \in Nat /\ DOMAIN log = 1..Len(log)
  BY DEF LogOK
<1>2. \A i \in DOMAIN log : log[i] \in Entries
  BY <1>1 DEF LogOK
<1>3. IsFiniteSet(1..Len(log))
  BY <1>1, FS_Interval
<1>4. \A e \in Entries : e.request \in Requests /\ e.status \in {"completed", "blocked"}
  BY DEF Entries
<1>. QED
  BY <1>1, <1>2, <1>3, <1>4 DEF Paid

(* Sets of positions in the log are finite.                                 *)
LEMMA IndexSets ==
  ASSUME LogOK, NEW S \in SUBSET DOMAIN log
  PROVE  /\ IsFiniteSet(S) /\ Cardinality(S) \in Nat
         /\ S # {} => Cardinality(S) > 0
  BY LogType, FS_Subset, FS_CardinalityType, FS_EmptySet

(* Division of natural numbers by a positive one.                           *)
LEMMA QuotientType ==
  ASSUME NEW m \in Nat, NEW n \in Nat, n > 0 PROVE m \div n \in Nat
  OBVIOUS

(* Multiplication of natural numbers.                                       *)
LEMMA ProductType ==
  ASSUME NEW m \in Nat, NEW n \in Nat PROVE m * n \in Nat
  OBVIOUS

(* The multiple of the average is a natural number, without history too.    *)
LEMMA MultipleType ==
  ASSUME LogOK, NEW r \in Requests PROVE Multiple(r) \in Nat
<1>. DEFINE S == Earlier(r)
           total == TotalOf("amount", S)
           n == Cardinality(S)
<1>1. S \in SUBSET DOMAIN log
  BY DEF Earlier
<1>2. n \in Nat /\ total \in Nat /\ r.amount \in Nat
  BY <1>1, IndexSets, LogType, RequestType, TotalType
<1>. HIDE DEF S, total, n
<1>3. 10 * r.amount * n \in Nat
  BY <1>2, ProductType
<1>4. ASSUME total # 0 PROVE (10 * r.amount * n + total - 1) \div total \in Nat
  BY <1>2, <1>3, <1>4, QuotientType
<1>. QED
  BY <1>4 DEF Multiple, S, total, n

(* The number of customers of a device or an address is one.                *)
LEMMA CustomersType ==
  ASSUME LogOK, NEW r, NEW f PROVE CustomersOf(f, r) \in Nat
<1>. DEFINE J == {j \in DOMAIN log : Paid(j)[f] = r[f]}
           C == {Paid(i).customer : i \in J}
           g == [i \in J |-> Paid(i).customer]
<1>1. IsFiniteSet(J)
  BY IndexSets
<1>2. g \in Surjection(J, C)
  BY DEF Surjection
<1>. HIDE DEF J, C, g
<1>3. Cardinality(C) \in Nat
  BY <1>1, <1>2, FS_Surjection, FS_CardinalityType
<1>. QED
  BY <1>3 DEF CustomersOf, Most, J, C

(* The distance from home is one.                                           *)
LEMMA DistanceType ==
  ASSUME LogOK, NEW r \in Requests PROVE Distance(r) \in Nat
<1>. DEFINE E == {i \in Earlier(r) : Paid(i).place # Absent /\ Completed(i)}
           S == Newest(E, 10)
           home == TotalOf("place", S) \div Cardinality(S)
<1>1. S \in SUBSET DOMAIN log /\ \A i \in S : Paid(i).place # Absent
  BY DEF Newest, Earlier
<1>2. \A i \in S : Paid(i).place \in Nat
  BY <1>1, LogType, RequestType
<1>. HIDE DEF S
<1>3. ASSUME S # {} PROVE home \in Nat
  <2>1. TotalOf("place", S) \in Nat /\ Cardinality(S) \in Nat /\ Cardinality(S) > 0
    BY <1>1, <1>2, <1>3, IndexSets, TotalType
  <2>. QED
    BY <2>1, QuotientType
<1>. HIDE DEF home
<1>4. ASSUME S # {}, r.place # Absent PROVE Most(r.place - home, home - r.place) \in Nat
  BY <1>3, <1>4, RequestType DEF Most
<1>. QED
  BY <1>4 DEF Distance, home, S

(* What the extractor computes for a request is what the detectors expect.  *)
LEMMA FeaturesType ==
  ASSUME LogOK, NEW r \in Requests
  PROVE  Features(r) \in Context /\ (Features(r).micro <=> r.amount < 250)
<1>1. Failures(r) \in Nat
  <2>. DEFINE S == Newest(Earlier(r), 10)
  <2>1. {i \in S : \A j \in S : j >= i => log[j].status = "failed"} \in SUBSET DOMAIN log
    BY DEF Newest, Earlier
  <2>. QED
    BY <2>1, IndexSets DEF Failures
<1>2. Cardinality({i \in Earlier(r) : i > old}) \in Nat
  <2>1. {i \in Earlier(r) : i > old} \in SUBSET DOMAIN log
    BY DEF Earlier
  <2>. QED
    BY <2>1, IndexSets
<1>3. NewDevice(r) \in BOOLEAN
  BY DEF NewDevice
<1>. DEFINE multiple == Multiple(r)
           micro == r.amount < 250
           velocity == Cardinality({i \in Earlier(r) : i > old})
           newDevice == NewDevice(r)
           devices == CustomersOf("device", r)
           distance == Distance(r)
           failures == Failures(r)
           addresses == CustomersOf("ip", r)
<1>4. Features(r) =
        [multiple |-> multiple, micro |-> micro, velocity |-> velocity,
         newDevice |-> newDevice, deviceCustomers |-> devices, distance |-> distance,
         failures |-> failures, ipCustomers |-> addresses, probability |-> r.probability]
  BY Zenon DEF Features
<1>5. /\ multiple \in Nat /\ velocity \in Nat /\ devices \in Nat /\ distance \in Nat
      /\ failures \in Nat /\ addresses \in Nat /\ r.probability \in 0..1000
  BY <1>1, <1>2, RequestType, MultipleType, CustomersType, DistanceType
<1>6. micro \in BOOLEAN /\ newDevice \in BOOLEAN
  BY <1>3
<1>. HIDE DEF multiple, micro, velocity, newDevice, devices, distance, failures, addresses
<1>7. Features(r) \in Context
  BY <1>4, <1>5, <1>6 DEF Context
<1>8. Features(r).micro = micro
  BY <1>4
<1>. QED
  BY <1>7, <1>8, Zenon DEF micro

(***************************************************************************)
(* The inductive invariant: the log is made of requests, and every handler  *)
(* at work has judged its request by the features it saw.                   *)
(***************************************************************************)
Judged(w) ==
  /\ w.id \in 1..arrived
  /\ w.seen \in Context
  /\ w.decision = Decision(w.seen, Detectors)
  /\ w.seen.micro <=> plan[w.id].amount < 250

HistoryInv ==
  /\ LogOK
  /\ arrived \in 0..Len(plan)
  /\ IsFiniteSet(working) /\ Cardinality(working) <= Handlers
  /\ \A w \in working : Judged(w)

(* Every decision is one of the four.                                       *)
LEMMA DecisionType ==
  ASSUME NEW x \in Context PROVE Decision(x, Detectors) \in Decisions
<1>1. Score(x, Detectors) \in 0..100
  BY ScoreMonotone, PointsType
<1>. QED
  BY <1>1 DEF Decision, Decide, Decisions

(* Plans are finite and numbered from 1.                                    *)
LEMMA PlanType ==
  ASSUME LogOK
  PROVE  Len(plan) \in Nat /\ DOMAIN plan = 1..Len(plan)
  BY HistoryAssumption DEF LogOK

(* The invariant holds at the start.                                        *)
LEMMA InitHistoryInv == HistoryInit => HistoryInv
  BY HistoryAssumption, FS_EmptySet DEF HistoryInit, HistoryInv, LogOK

(* Evaluating a request preserves it.                                       *)
LEMMA EvaluateInv == HistoryInv /\ Evaluate => HistoryInv'
<1>. SUFFICES ASSUME HistoryInv, Evaluate PROVE HistoryInv'
  OBVIOUS
<1>1. LogOK /\ arrived' = arrived + 1 /\ arrived' \in DOMAIN plan
  BY PlanType DEF HistoryInv, Evaluate
<1>2. UNCHANGED <<plan, log, old>>
  BY DEF Evaluate
<1>. DEFINE r == plan[arrived']
           new == [id |-> arrived', seen |-> Features(r),
                   decision |-> Decision(Features(r), Detectors)]
<1>3. working' = working \cup {new}
  BY DEF Evaluate
<1>4. Features(r) \in Context /\ (Features(r).micro <=> r.amount < 250)
  BY <1>1, FeaturesType DEF Requests
<1>5. LogOK'
  BY <1>1, <1>2 DEF LogOK, Entries, Requests
<1>6. ASSUME NEW w, w = new PROVE Judged(w)'
  <2>1. w.id = arrived' /\ w.seen = Features(r) /\ w.decision = Decision(Features(r), Detectors)
    BY <1>6
  <2>2. arrived' \in 1..arrived' /\ plan'[arrived'] = r
    BY <1>1, <1>2, PlanType
  <2>. HIDE DEF new, r
  <2>. QED
    BY <1>4, <2>1, <2>2 DEF Judged
<1>7. \A w \in working : Judged(w)'
  BY <1>1, <1>2, PlanType DEF HistoryInv, Judged
<1>. HIDE DEF new
<1>8. IsFiniteSet(working') /\ Cardinality(working') <= Handlers
  <2>1. IsFiniteSet(working) /\ Cardinality(working) \in Nat /\ Cardinality(working) < Handlers
    BY FS_CardinalityType DEF HistoryInv, Evaluate
  <2>2. IsFiniteSet(working') /\ Cardinality(working') \in {Cardinality(working), Cardinality(working) + 1}
    BY <1>3, <2>1, FS_AddElement
  <2>. QED
    BY <2>1, <2>2, HistoryAssumption
<1>9. arrived' \in 0..Len(plan')
  BY <1>1, <1>2, PlanType DEF HistoryInv
<1>10. ASSUME NEW w \in working' PROVE Judged(w)'
  <2>1. w \in working \/ w = new
    BY <1>3
  <2>. QED
    BY <2>1, <1>6, <1>7
<1>. QED
  BY <1>5, <1>8, <1>9, <1>10 DEF HistoryInv

(* A handler that ends leaves fewer at work.                                *)
LEMMA RemoveInv ==
  ASSUME HistoryInv, NEW w \in working, working' = working \ {w}
  PROVE  IsFiniteSet(working') /\ Cardinality(working') <= Handlers
<1>1. IsFiniteSet(working) /\ Cardinality(working) \in Nat /\ Cardinality(working) <= Handlers
  BY FS_CardinalityType DEF HistoryInv
<1>2. IsFiniteSet(working') /\ Cardinality(working') = Cardinality(working) - 1
  BY <1>1, FS_RemoveElement
<1>. QED
  BY <1>1, <1>2, HistoryAssumption

(* Storing a payment preserves it.                                          *)
LEMMA StoreInv ==
  ASSUME HistoryInv, NEW w \in working, Store(w) PROVE HistoryInv'
<1>1. LogOK /\ Judged(w) /\ w.id \in DOMAIN plan
  BY PlanType DEF HistoryInv, Judged
<1>. DEFINE e == [request |-> plan[w.id], status |-> FinalStatus(w.decision)]
<1>2. e \in Entries
  BY <1>1 DEF Entries, Requests, FinalStatus
<1>3. log' = Append(log, e) /\ UNCHANGED <<plan, arrived, old>> /\ working' = working \ {w}
  BY DEF Store
<1>. HIDE DEF e
<1>4. LogOK'
  BY <1>1, <1>2, <1>3 DEF LogOK, Entries, Requests
<1>5. IsFiniteSet(working') /\ Cardinality(working') <= Handlers
  BY <1>3, RemoveInv
<1>. QED
  BY <1>3, <1>4, <1>5 DEF HistoryInv, Judged

(* So does every other step.                                                *)
LEMMA NextHistoryInv == HistoryInv /\ [HistoryNext]_historyVars => HistoryInv'
<1>. SUFFICES ASSUME HistoryInv, [HistoryNext]_historyVars PROVE HistoryInv'
  OBVIOUS
<1>1. CASE Evaluate
  BY <1>1, EvaluateInv
<1>2. ASSUME NEW w \in working, Store(w) PROVE HistoryInv'
  BY <1>2, StoreInv
<1>3. ASSUME NEW w \in working, Abandon(w) PROVE HistoryInv'
  <2>1. IsFiniteSet(working') /\ Cardinality(working') <= Handlers
    BY <1>3, RemoveInv DEF Abandon
  <2>. QED
    BY <1>3, <2>1 DEF Abandon, HistoryInv, LogOK, Entries, Requests, Judged
<1>4. CASE Age
  BY <1>4, HistoryAssumption DEF Age, Least, HistoryInv, LogOK, Entries, Requests, Judged
<1>5. CASE UNCHANGED historyVars
  BY <1>5 DEF historyVars, HistoryInv, LogOK, Entries, Requests, Judged
<1>. QED
  BY <1>1, <1>2, <1>3, <1>4, <1>5 DEF HistoryNext, AllHandled

(* It always holds.                                                         *)
LEMMA SpecHistoryInv == HistorySpec => []HistoryInv
  BY InitHistoryInv, NextHistoryInv, PTL DEF HistorySpec

(***************************************************************************)
(* Theorems.                                                               *)
(***************************************************************************)
(* The history and the decisions keep their types, whatever the requests:   *)
(* in particular every feature the extractor computes is a natural number   *)
(* and no average divides by zero (extractor.py, aggregator.py).            *)
THEOREM HistoryTypeCorrect == HistorySpec => []HistoryTypeOK
<1>1. HistoryInv => HistoryTypeOK
  <2>. SUFFICES ASSUME HistoryInv PROVE HistoryTypeOK
    OBVIOUS
  <2>1. \A w \in working : w.id \in 1..arrived /\ w.seen \in Context /\ w.decision \in Decisions
    BY DecisionType DEF HistoryInv, Judged
  <2>. QED
    BY <2>1 DEF HistoryInv, LogOK, HistoryTypeOK
<1>. QED
  BY <1>1, SpecHistoryInv, PTL

(* Whatever a detector sees, and whatever the threshold of the model, more  *)
(* of one piece of evidence does not lower the score (rules.py:6-125,       *)
(* ml_detector.py:8-52, aggregator.py).                                    *)
THEOREM MoreEvidence == HistorySpec => []MonotoneInEvidence
<1>1. HistoryInv => MonotoneInEvidence
  <2>. SUFFICES ASSUME HistoryInv, NEW w \in working, NEW y \in Worse(w.seen)
       PROVE  Score(y, Detectors) >= Score(w.seen, Detectors)
    BY DEF MonotoneInEvidence
  <2>1. w.seen \in Context
    BY DEF HistoryInv, Judged
  <2>2. y \in Context /\ AtLeast(y, w.seen)
    BY <2>1, WorseShowsMore
  <2>3. Points(w.seen, Detectors) <= Points(y, Detectors)
    BY <2>1, <2>2, EvidenceCounts, PointsMonotone
  <2>. QED
    BY <2>1, <2>2, <2>3, ScoreMonotone
<1>. QED
  BY <1>1, SpecHistoryInv, PTL

(* Skipping any set of detectors never makes the decision stricter          *)
(* (evaluator.py:45-54).                                                    *)
THEOREM Degraded == HistorySpec => []DegradedNeverStricter
<1>1. HistoryInv => DegradedNeverStricter
  BY SkippingIsMilder DEF HistoryInv, Judged, DegradedNeverStricter
<1>. QED
  BY <1>1, SpecHistoryInv, PTL

(* A payment below 2.50 that is evaluated is never completed, whatever the  *)
(* history and the model say (rules.py:112-125, aggregator.py); background  *)
(* seeds are not evaluated.                                                 *)
THEOREM MicroBlocked == HistorySpec => []MicroAlwaysBlocked
<1>1. HistoryInit => MicroAlwaysBlocked
  BY DEF HistoryInit, MicroAlwaysBlocked
<1>2. HistoryInv /\ MicroAlwaysBlocked /\ [HistoryNext]_historyVars => MicroAlwaysBlocked'
  <2>. SUFFICES ASSUME HistoryInv, MicroAlwaysBlocked, [HistoryNext]_historyVars
       PROVE  MicroAlwaysBlocked'
    OBVIOUS
  <2>1. ASSUME NEW w \in working, Store(w) PROVE MicroAlwaysBlocked'
    <3>1. Judged(w) /\ LogOK
      BY DEF HistoryInv
    <3>. DEFINE e == [request |-> plan[w.id], status |-> FinalStatus(w.decision)]
    <3>2. log' = Append(log, e) /\ log \in Seq(Entries)
      BY <2>1, <3>1 DEF Store, LogOK
    <3>3. e.request.amount < 250 => e.status # "completed"
      BY <3>1, MicroBlocks DEF Judged, FinalStatus
    <3>. HIDE DEF e
    <3>. QED
      BY <3>2, <3>3 DEF MicroAlwaysBlocked, Paid, Completed
  <2>2. CASE UNCHANGED log
    BY <2>2 DEF MicroAlwaysBlocked, Paid, Completed
  <2>. QED
    BY <2>1, <2>2 DEF HistoryNext, Evaluate, Abandon, Age, AllHandled, historyVars
<1>. QED
  BY <1>1, <1>2, SpecHistoryInv, PTL DEF HistorySpec

(***************************************************************************)
(* The bound on a burst.                                                    *)
(***************************************************************************)
(* The bound, for customer c.                                               *)
Within(c) == Cardinality(Accepted(c)) + Cardinality(Accepting(c)) <= 17 + Handlers

(* Accepted payments and payments about to be are finite in number.         *)
LEMMA BurstSets ==
  ASSUME HistoryInv, NEW c
  PROVE  /\ IsFiniteSet(Accepted(c)) /\ Cardinality(Accepted(c)) \in Nat
         /\ IsFiniteSet(Accepting(c)) /\ Cardinality(Accepting(c)) \in Nat
         /\ Cardinality(Accepting(c)) <= Handlers
<1>1. LogOK /\ IsFiniteSet(working) /\ Cardinality(working) \in Nat /\ Cardinality(working) <= Handlers
  BY FS_CardinalityType DEF HistoryInv
<1>2. Accepted(c) \in SUBSET DOMAIN log
  BY <1>1, LogType DEF Accepted, LogOK
<1>3. Accepting(c) \in SUBSET working
  BY DEF Accepting
<1>4. /\ IsFiniteSet(Accepting(c)) /\ Cardinality(Accepting(c)) <= Cardinality(working)
      /\ Cardinality(Accepting(c)) \in Nat
  BY <1>1, <1>3, FS_Subset, FS_CardinalityType
<1>5. IsFiniteSet(Accepted(c)) /\ Cardinality(Accepted(c)) \in Nat
  BY <1>1, <1>2, IndexSets
<1>. QED
  BY <1>1, <1>4, <1>5, HistoryAssumption

(* Losing some of either keeps the bound.                                   *)
LEMMA BurstShrinks ==
  ASSUME HistoryInv, HistoryInv', NEW c, Within(c),
         Accepted(c)' \subseteq Accepted(c), Accepting(c)' \subseteq Accepting(c)
  PROVE  Within(c)'
<1>1. /\ Cardinality(Accepted(c)') \in Nat /\ Cardinality(Accepting(c)') \in Nat
      /\ Cardinality(Accepted(c)') <= Cardinality(Accepted(c))
      /\ Cardinality(Accepting(c)') <= Cardinality(Accepting(c))
  BY BurstSets, FS_Subset, FS_CardinalityType
<1>2. Cardinality(Accepted(c)) \in Nat /\ Cardinality(Accepting(c)) \in Nat
  BY BurstSets
<1>. QED
  BY <1>1, <1>2, HistoryAssumption DEF Within

(* A request that is let through saw at most 17 payments of its customer,   *)
(* all the accepted ones among them.                                        *)
LEMMA EvaluateBurst ==
  ASSUME HistoryInv, HistoryInv', Evaluate, NEW c, Within(c)
  PROVE  Within(c)'
<1>. DEFINE r == plan[arrived']
           x == Features(r)
           new == [id |-> arrived', seen |-> x, decision |-> Decision(x, Detectors)]
<1>1. working' = working \cup {new} /\ UNCHANGED <<plan, log, old>>
  BY DEF Evaluate
<1>2. new.id = arrived' /\ new.decision = Decision(x, Detectors)
  OBVIOUS
<1>3. LogOK /\ r \in Requests
  BY PlanType DEF HistoryInv, Evaluate, Requests
<1>4. x \in Context /\ x.velocity = Cardinality({i \in Earlier(r) : i > old})
  BY <1>3, FeaturesType DEF Features
<1>. HIDE DEF r, x, new
<1>5. Accepted(c)' = Accepted(c)
  BY <1>1 DEF Accepted, Paid, Completed
<1>6. CASE r.customer = c /\ Decision(x, Detectors) # "BLOCK"
  <2>1. x.velocity \in Nat /\ x.velocity <= 17
    BY <1>4, <1>6, VelocityBlocks DEF Context
  <2>2. {i \in Earlier(r) : i > old} \in SUBSET DOMAIN log
    BY DEF Earlier
  <2>3. Accepted(c) \subseteq {i \in Earlier(r) : i > old}
    BY <1>3, <1>6, LogType DEF Accepted, Earlier, LogOK
  <2>4. Cardinality(Accepted(c)) <= x.velocity
    BY <1>3, <1>4, <2>2, <2>3, IndexSets, FS_Subset
  <2>5. Cardinality(Accepting(c)') \in Nat /\ Cardinality(Accepting(c)') <= Handlers
    <3>1. IsFiniteSet(working') /\ Cardinality(working') \in Nat /\ Cardinality(working') <= Handlers
      BY FS_CardinalityType DEF HistoryInv
    <3>2. Accepting(c)' \in SUBSET working'
      BY DEF Accepting
    <3>3. /\ Cardinality(Accepting(c)') \in Nat
          /\ Cardinality(Accepting(c)') <= Cardinality(working')
      BY <3>1, <3>2, FS_Subset, FS_CardinalityType
    <3>. QED
      BY <3>1, <3>3, HistoryAssumption
  <2>6. Cardinality(Accepted(c)) \in Nat
    BY BurstSets
  <2>. QED
    BY <1>5, <2>1, <2>4, <2>5, <2>6, HistoryAssumption DEF Within
<1>7. CASE ~ (r.customer = c /\ Decision(x, Detectors) # "BLOCK")
  <2>1. Accepting(c)' \subseteq Accepting(c)
    BY <1>1, <1>2, <1>7 DEF Accepting, r
  <2>. QED
    BY <1>5, <2>1, BurstShrinks
<1>. QED
  BY <1>6, <1>7

(* Storing turns a payment about to be accepted into an accepted one.       *)
LEMMA StoreBurst ==
  ASSUME HistoryInv, HistoryInv', NEW w \in working, Store(w), NEW c, Within(c)
  PROVE  Within(c)'
<1>. DEFINE e == [request |-> plan[w.id], status |-> FinalStatus(w.decision)]
<1>1. log' = Append(log, e) /\ working' = working \ {w} /\ UNCHANGED <<plan, arrived, old>>
  BY DEF Store
<1>2. log \in Seq(Entries) /\ old \in 0..Len(log)
  BY DEF HistoryInv, LogOK
<1>3. e.request = plan[w.id] /\ (e.status = "completed" => w.decision # "BLOCK")
  BY DEF FinalStatus
<1>. HIDE DEF e
<1>4. Accepting(c)' = Accepting(c) \ {w}
  BY <1>1 DEF Accepting
<1>5. CASE e.request.customer = c /\ e.status = "completed"
  <2>1. w \in Accepting(c)
    BY <1>3, <1>5 DEF Accepting
  <2>2. Accepted(c)' \subseteq Accepted(c) \cup {Len(log) + 1}
    BY <1>1, <1>2 DEF Accepted, Paid, Completed
  <2>3. /\ IsFiniteSet(Accepted(c)) /\ Cardinality(Accepted(c)) \in Nat
        /\ IsFiniteSet(Accepting(c)) /\ Cardinality(Accepting(c)) \in Nat
    BY BurstSets
  <2>4. Cardinality(Accepted(c)') \in Nat /\ Cardinality(Accepted(c)') <= Cardinality(Accepted(c)) + 1
    <3>. DEFINE A == Accepted(c)
               B == Accepted(c) \cup {Len(log) + 1}
    <3>1. IsFiniteSet(B) /\ Cardinality(B) \in Nat /\ Cardinality(B) <= Cardinality(A) + 1
      <4>1. IsFiniteSet(B) /\ Cardinality(B) \in {Cardinality(A), Cardinality(A) + 1}
        BY <2>3, FS_AddElement
      <4>. QED
        BY <2>3, <4>1
    <3>2. Cardinality(Accepted(c)') <= Cardinality(B) /\ Cardinality(Accepted(c)') \in Nat
      BY <2>2, <3>1, FS_Subset, FS_CardinalityType
    <3>. QED
      BY <2>3, <3>1, <3>2
  <2>5. Cardinality(Accepting(c)') = Cardinality(Accepting(c)) - 1
    BY <1>4, <2>1, <2>3, FS_RemoveElement
  <2>. QED
    BY <2>3, <2>4, <2>5, HistoryAssumption DEF Within
<1>6. CASE ~ (e.request.customer = c /\ e.status = "completed")
  <2>1. Accepted(c)' \subseteq Accepted(c)
    BY <1>1, <1>2, <1>6 DEF Accepted, Paid, Completed
  <2>. QED
    BY <1>4, <2>1, BurstShrinks
<1>. QED
  BY <1>5, <1>6

(* However many requests arrive and whatever the handlers do in between,    *)
(* at most 17 evaluated payments of a customer in an hour are accepted, and *)
(* one more for each handler (extractor.py:61-67, rules.py:21-41).          *)
THEOREM BurstLimited == HistorySpec => []BurstBounded
<1>. DEFINE Burst == \A c : Within(c)
<1>1. HistoryInit => Burst
  <2>. SUFFICES ASSUME HistoryInit, NEW c PROVE Within(c)
    OBVIOUS
  <2>1. Accepted(c) = {} /\ Accepting(c) = {}
    BY DEF HistoryInit, Accepted, Accepting
  <2>2. Cardinality({}) = 0
    BY FS_EmptySet
  <2>. QED
    BY <2>1, <2>2, HistoryAssumption DEF Within
<1>2. HistoryInv /\ HistoryInv' /\ Burst /\ [HistoryNext]_historyVars => Burst'
  <2>. SUFFICES ASSUME HistoryInv, HistoryInv', Burst, [HistoryNext]_historyVars, NEW c
       PROVE  Within(c)'
    OBVIOUS
  <2>1. Within(c)
    OBVIOUS
  <2>. HIDE DEF Burst
  <2>2. CASE Evaluate
    BY <2>1, <2>2, EvaluateBurst
  <2>3. ASSUME NEW w \in working, Store(w) PROVE Within(c)'
    BY <2>1, <2>3, StoreBurst
  <2>4. ASSUME NEW w \in working, Abandon(w) PROVE Within(c)'
    <3>1. Accepted(c)' \subseteq Accepted(c) /\ Accepting(c)' \subseteq Accepting(c)
      BY <2>4 DEF Abandon, Accepted, Accepting, Paid, Completed
    <3>. QED
      BY <2>1, <3>1, BurstShrinks
  <2>5. CASE Age
    <3>1. old \in Nat /\ Len(log) \in Nat
      BY DEF HistoryInv, LogOK
    <3>2. Accepted(c)' \subseteq Accepted(c) /\ Accepting(c)' \subseteq Accepting(c)
      BY <2>5, <3>1 DEF Age, Accepted, Accepting, Paid, Completed
    <3>. QED
      BY <2>1, <3>2, BurstShrinks
  <2>6. CASE UNCHANGED historyVars
    <3>1. Accepted(c)' \subseteq Accepted(c) /\ Accepting(c)' \subseteq Accepting(c)
      BY <2>6 DEF historyVars, Accepted, Accepting, Paid, Completed
    <3>. QED
      BY <2>1, <3>1, BurstShrinks
  <2>. QED
    BY <2>2, <2>3, <2>4, <2>5, <2>6 DEF HistoryNext, AllHandled
<1>3. Burst => BurstBounded
  BY DEF BurstBounded, Within
<1>. HIDE DEF Burst
<1>. QED
  BY <1>1, <1>2, <1>3, SpecHistoryInv, PTL DEF HistorySpec

(***************************************************************************)
(* Training.  The table the training reads is the log with the request      *)
(* after it; what it computes for that last row is compared, feature by     *)
(* feature, with what the extractor computes for the request.               *)
(***************************************************************************)
(* The rows of the table.                                                   *)
LEMMA RowsOfLog ==
  ASSUME LogOK, NEW r \in Requests
  PROVE  /\ \A i \in 1..Len(log) : LoadData(r)[i] = Paid(i)
         /\ LoadData(r)[Len(log) + 1] = r
<1>. DEFINE paid == [i \in DOMAIN log |-> Paid(i)]
<1>1. paid \in Seq(Requests) /\ Len(paid) = Len(log)
  <2>1. paid \in [1..Len(log) -> Requests] /\ Len(log) \in Nat
    BY LogType
  <2>. QED
    BY <2>1
<1>2. \A i \in 1..Len(log) : paid[i] = Paid(i)
  BY LogType
<1>. HIDE DEF paid
<1>. QED
  BY <1>1, <1>2, AppendProperties DEF LoadData, paid

(* The customer's rows before it are the customer's payments on the log.    *)
LEMMA SameHistory ==
  ASSUME LogOK, NEW r \in Requests
  PROVE  HistoryOf(LoadData(r), Len(log) + 1) = Earlier(r)
  BY RowsOfLog, LogType DEF HistoryOf, Earlier

(* The training adds up the same amounts.                                   *)
LEMMA SameTotal ==
  ASSUME LogOK, NEW r \in Requests, NEW S \in SUBSET DOMAIN log
  PROVE  MapThenSumSet(LAMBDA i : LoadData(r)[i].amount, S) = TotalOf("amount", S)
<1>. DEFINE rows == LoadData(r)
           v == [i \in S |-> Paid(i)["amount"]]
           g == CHOOSE h : h = [s \in SUBSET S |->
                                  IF s = {} THEN 0 ELSE rows[Pick(s)].amount + h[Rest(s)]]
<1>0. IsFiniteSet(S)
  BY IndexSets
<1>1. \A s \in SUBSET S : s # {} => v[Pick(s)] = rows[Pick(s)].amount
  <2>1. \A i \in S : rows[i] = Paid(i)
    BY RowsOfLog, LogType
  <2>. HIDE DEF rows
  <2>. QED
    BY <2>1, RestIsSmaller
<1>2. PICK h : Sums(v, h, S)
  BY <1>0, SumsExist
<1>3. h = [s \in SUBSET S |-> IF s = {} THEN 0 ELSE rows[Pick(s)].amount + h[Rest(s)]]
  <2>. HIDE DEF v, rows
  <2>. QED
    BY <1>1, <1>2 DEF Sums
<1>4. g = [s \in SUBSET S |-> IF s = {} THEN 0 ELSE rows[Pick(s)].amount + g[Rest(s)]]
  BY <1>3
<1>5. MapThenSumSet(LAMBDA i : LoadData(r)[i].amount, S) = g[S]
  BY DEF MapThenSumSet, MapThenFoldSet, Pick, Rest
<1>. HIDE DEF g
<1>6. Sums(v, g, S)
  <2>. HIDE DEF v, rows
  <2>. QED
    BY <1>1, <1>4 DEF Sums
<1>7. PICK t : TotalOf("amount", S) = t[S] /\ Sums(v, t, S)
  BY <1>0, TotalIsSum
<1>. HIDE DEF v
<1>8. t = g
  BY <1>0, <1>6, <1>7, SumsUnique
<1>. QED
  BY <1>5, <1>7, <1>8

(* A history has a positive total.                                          *)
LEMMA TotalPositive ==
  ASSUME LogOK, NEW S \in SUBSET DOMAIN log, TotalOf("amount", S) # 0
  PROVE  TotalOf("amount", S) \in Nat \ {0} /\ Cardinality(S) \in Nat \ {0}
<1>1. IsFiniteSet(S) /\ TotalOf("amount", S) \in Nat
  BY IndexSets, LogType, RequestType, TotalType
<1>2. S # {}
  <2>1. PICK g : TotalOf("amount", S) = g[S] /\ Sums([i \in S |-> Paid(i)["amount"]], g, S)
    BY <1>1, TotalIsSum
  <2>. QED
    BY <2>1, SumsAt
<1>. QED
  BY <1>1, <1>2, IndexSets

(* A positive amount is a positive part of the average, in tenths and       *)
(* rounded up.                                                              *)
LEMMA PositiveShare ==
  ASSUME NEW a \in Nat \ {0}, NEW n \in Nat \ {0}, NEW total \in Nat \ {0}
  PROVE  (10 * a * n + total - 1) \div total # 0
<1>1. a * n \in Nat \ {0}
  OBVIOUS
<1>2. 10 * a * n = 10 * (a * n)
  OBVIOUS
<1>3. ASSUME NEW m \in Nat \ {0} PROVE (10 * m + total - 1) \div total # 0
  OBVIOUS
<1>. QED
  BY <1>1, <1>2, <1>3

(* amount_deviation is the multiple that the detector sees, 1 without it.   *)
LEMMA SameDeviation ==
  ASSUME LogOK, NEW r \in Requests
  PROVE  FeatureEngineering(LoadData(r), Len(log) + 1).deviation
           = BuildFeatures(Features(r)).deviation
<1>. DEFINE S == Earlier(r)
           total == TotalOf("amount", S)
           n == Cardinality(S)
<1>1. S \in SUBSET DOMAIN log
  BY DEF Earlier
<1>2. FeatureEngineering(LoadData(r), Len(log) + 1).deviation = Deviation(r.amount, n, total)
  BY <1>1, RowsOfLog, SameHistory, SameTotal DEF FeatureEngineering
<1>3. BuildFeatures(Features(r)).deviation = IF Multiple(r) = 0 THEN 10 ELSE Multiple(r)
  BY DEF BuildFeatures, Features
<1>4. Multiple(r) = IF total = 0 THEN 0 ELSE (10 * r.amount * n + total - 1) \div total
  BY DEF Multiple
<1>5. total # 0 => (10 * r.amount * n + total - 1) \div total # 0
  BY <1>1, TotalPositive, RequestType, PositiveShare
<1>. HIDE DEF total, n
<1>. QED
  BY <1>2, <1>3, <1>4, <1>5 DEF Deviation

(* device_customers and ip_customers, for a request that names them.        *)
LEMMA SameSharing ==
  ASSUME LogOK, NEW r \in Requests, NEW f, r[f] # Absent
  PROVE  Sharing(LoadData(r), Len(log) + 1, f) = CustomersOf(f, r)
<1>. DEFINE rows == LoadData(r)
           k == Len(log) + 1
           J == {i \in DOMAIN log : Paid(i)[f] = r[f]}
<1>1. {i \in 1..k - 1 : rows[i][f] = rows[k][f]} = J
  BY RowsOfLog, LogType
<1>2. {rows[j].customer : j \in J} = {Paid(i).customer : i \in J}
  BY RowsOfLog, LogType
<1>. HIDE DEF rows, k, J
<1>3. Sharing(rows, k, f) = Most(1, Cardinality({Paid(i).customer : i \in J}))
  BY <1>1, <1>2 DEF Sharing
<1>. QED
  BY <1>3 DEF CustomersOf, rows, k, J

(* Whether the device is new, when earlier payments were completed.         *)
LEMMA SameDevice ==
  ASSUME LogOK, NEW r \in Requests, r.device # Absent, \A i \in Earlier(r) : Completed(i)
  PROVE  (\A j \in Earlier(r) : LoadData(r)[j].device # r.device) <=> NewDevice(r)
<1>1. \A j \in Earlier(r) : LoadData(r)[j] = Paid(j)
  BY RowsOfLog, LogType DEF Earlier
<1>. QED
  BY <1>1 DEF NewDevice

(* The first and the last of a set of positions.                            *)
LEMMA FirstExists ==
  ASSUME NEW S \in SUBSET Nat, S # {}
  PROVE  \E i \in S : \A j \in S : i <= j
<1>1. PICK i \in S : \A j \in S : ~ (<<j, i>> \in OpToRel(<, Nat))
  BY NatLessThanWellFounded, WFMin
<1>2. \A j \in S : j < i => <<j, i>> \in OpToRel(<, Nat)
  BY Zenon DEF OpToRel
<1>3. \A j \in S : ~ (j < i)
  BY <1>1, <1>2, Zenon
<1>. QED
  BY <1>3

LEMMA LastExists ==
  ASSUME NEW n \in Nat, NEW S \in SUBSET 1..n, S # {}
  PROVE  \E i \in S : \A j \in S : j <= i
<1>. DEFINE T == {n - i : i \in S}
<1>1. T \in SUBSET Nat /\ T # {}
  <2>1. \A i \in S : n - i \in Nat
    OBVIOUS
  <2>. QED
    BY <2>1
<1>. HIDE DEF T
<1>2. PICK m \in T : \A t \in T : m <= t
  BY <1>1, FirstExists
<1>3. PICK i \in S : m = n - i
  BY <1>2 DEF T
<1>4. \A j \in S : m <= n - j
  BY <1>2 DEF T
<1>. QED
  BY <1>3, <1>4

(* The mean of equal places is that place.                                  *)
LEMMA MeanOfOne ==
  ASSUME NEW c \in Nat, NEW n \in Nat \ {0} PROVE (c * n) \div n = c
  OBVIOUS

(* The distance, when earlier payments were completed and in one place: the *)
(* first place the training has seen is the mean of the last ten.           *)
LEMMA SameDistance ==
  ASSUME LogOK, NEW r \in Requests, \A i \in Earlier(r) : Completed(i),
         Cardinality({Paid(i).place : i \in Earlier(r)}) = 1
  PROVE  Haversine(FirstSeen(LoadData(r), Earlier(r)), r.place) = Distance(r)
<1>. DEFINE E == Earlier(r)
           E1 == {i \in E : Paid(i).place # Absent /\ Completed(i)}
           S == Newest(E1, 10)
<1>1. E \in SUBSET DOMAIN log /\ E \in SUBSET (1..Len(log)) /\ Len(log) \in Nat
  BY LogType DEF Earlier
<1>2. PICK p : \A i \in E : Paid(i).place = p
  <2>. DEFINE P == {Paid(i).place : i \in E}
             place == [i \in E |-> Paid(i).place]
  <2>1. IsFiniteSet(P)
    <3>1. IsFiniteSet(E) /\ place \in Surjection(E, P)
      BY <1>1, IndexSets DEF Surjection
    <3>. HIDE DEF P, E, place
    <3>. QED
      BY <3>1, FS_Surjection
  <2>2. Cardinality(P) = 1
    OBVIOUS
  <2>. HIDE DEF P
  <2>3. \E p : P = {p}
    BY <2>1, <2>2, FS_Singleton
  <2>. QED
    BY <2>3 DEF P
<1>3. E # {}
  BY FS_EmptySet
<1>4. FirstSeen(LoadData(r), E) = p
  <2>1. \E i \in E : \A j \in E : i <= j
    BY <1>1, <1>3, FirstExists
  <2>2. \A i \in E : LoadData(r)[i].place = p
    BY <1>1, <1>2, RowsOfLog
  <2>. HIDE DEF E
  <2>. QED
    BY <2>1, <2>2 DEF FirstSeen
<1>5. CASE p = Absent
  <2>1. S = {}
    BY <1>2, <1>5 DEF Newest
  <2>. QED
    BY <1>4, <1>5, <2>1 DEF Haversine, Distance
<1>6. CASE r.place = Absent
  BY <1>4, <1>6 DEF Haversine, Distance
<1>7. CASE p # Absent /\ r.place # Absent
  <2>1. p \in Nat /\ r.place \in Nat
    BY <1>1, <1>2, <1>3, <1>7, LogType, RequestType
  <2>2. E1 = E
    BY <1>2, <1>7
  <2>3. S \in SUBSET E
    BY DEF Newest
  <2>4. S # {}
    <3>1. PICK i \in E : \A j \in E : j <= i
      BY <1>1, <1>3, LastExists
    <3>2. {j \in E : j > i} = {}
      BY <1>1, <3>1
    <3>. QED
      BY <2>2, <3>1, <3>2, FS_EmptySet DEF Newest
  <2>5. IsFiniteSet(S) /\ Cardinality(S) \in Nat \ {0}
    BY <1>1, <2>3, <2>4, IndexSets
  <2>. HIDE DEF S
  <2>6. PICK g : TotalOf("place", S) = g[S] /\ Sums([i \in S |-> Paid(i)["place"]], g, S)
    BY <2>5, TotalIsSum
  <2>7. TotalOf("place", S) = p * Cardinality(S)
    BY <1>2, <2>1, <2>3, <2>5, <2>6, SumsConstant
  <2>8. TotalOf("place", S) \div Cardinality(S) = p
    BY <2>1, <2>5, <2>7, MeanOfOne
  <2>9. Distance(r) = Most(r.place - p, p - r.place)
    BY <1>7, <2>4, <2>8 DEF Distance, S
  <2>. QED
    BY <1>4, <1>7, <2>1, <2>9 DEF Haversine, Most
<1>. QED
  BY <1>5, <1>6, <1>7

(***************************************************************************)
(* The model is asked with what it was trained on (train_model.py:60-171,   *)
(* ml.py:38-75), for every history: amounts and velocity always; sharing if *)
(* the request has a device and an address; a new device if the customer's  *)
(* payments were all completed; the distance if these were also all made in *)
(* one place.  Standard deviation and z-score are not covered: the model is *)
(* trained with them and asked with 0.                                      *)
(***************************************************************************)
THEOREM ModelAskedAsTrained == HistorySpec => []TrainedAsServed
<1>1. HistoryInv => TrainedAsServed
  <2>. SUFFICES ASSUME HistoryInv, arrived < Len(plan) PROVE TrainedAsServed
    BY DEF TrainedAsServed
  <2>. DEFINE r == plan[arrived + 1]
             asked == BuildFeatures(Features(r))
             trained == FeatureEngineering(LoadData(r), Len(log) + 1)
             settled == \A i \in Earlier(r) : Completed(i)
             onePlace == Cardinality({Paid(i).place : i \in Earlier(r)}) = 1
  <2>1. LogOK /\ r \in Requests
    BY PlanType DEF HistoryInv, Requests
  <2>2. LoadData(r)[Len(log) + 1] = r /\ HistoryOf(LoadData(r), Len(log) + 1) = Earlier(r)
    BY <2>1, RowsOfLog, SameHistory
  <2>3. trained.deviation = asked.deviation
    BY <2>1, SameDeviation
  <2>4. trained.micro = asked.micro /\ trained.velocity = asked.velocity
    BY <2>2 DEF FeatureEngineering, BuildFeatures, Features
  <2>5. r.device # Absent => trained.deviceCustomers = asked.deviceCustomers
    BY <2>1, SameSharing DEF FeatureEngineering, BuildFeatures, Features
  <2>6. r.ip # Absent => trained.ipCustomers = asked.ipCustomers
    BY <2>1, SameSharing DEF FeatureEngineering, BuildFeatures, Features
  <2>7. r.device # Absent /\ settled => trained.newDevice = asked.newDevice
    <3>1. trained.newDevice = \A j \in Earlier(r) : LoadData(r)[j].device # r.device
      BY <2>2 DEF FeatureEngineering
    <3>2. asked.newDevice = NewDevice(r)
      BY DEF BuildFeatures, Features
    <3>3. r.device # Absent /\ settled =>
            ((\A j \in Earlier(r) : LoadData(r)[j].device # r.device) <=> NewDevice(r))
      BY <2>1, SameDevice
    <3>4. NewDevice(r) \in BOOLEAN
      BY DEF NewDevice
    <3>. HIDE DEF trained, asked, r, settled
    <3>. QED
      BY <3>1, <3>2, <3>3, <3>4, Zenon
  <2>8. settled /\ onePlace => trained.distance = asked.distance
    <3>1. trained.distance = IF Earlier(r) = {} THEN 0
                               ELSE Haversine(FirstSeen(LoadData(r), Earlier(r)), r.place)
      BY <2>2 DEF FeatureEngineering
    <3>2. asked.distance = Distance(r)
      BY DEF BuildFeatures, Features
    <3>3. Earlier(r) = {} => ~ onePlace
      <4>1. Earlier(r) = {} => {Paid(i).place : i \in Earlier(r)} = {}
        OBVIOUS
      <4>. QED
        BY <4>1, FS_EmptySet
    <3>4. settled /\ onePlace =>
            Haversine(FirstSeen(LoadData(r), Earlier(r)), r.place) = Distance(r)
      BY <2>1, SameDistance
    <3>. HIDE DEF trained, asked, r, settled, onePlace
    <3>. QED
      BY <3>1, <3>2, <3>3, <3>4
  <2>. DEFINE fields ==
               {"deviation", "micro", "velocity"}
                 \cup (IF r.device # Absent THEN {"deviceCustomers"} ELSE {})
                 \cup (IF r.ip # Absent THEN {"ipCustomers"} ELSE {})
                 \cup (IF r.device # Absent /\ settled THEN {"newDevice"} ELSE {})
                 \cup (IF settled /\ onePlace THEN {"distance"} ELSE {})
  <2>9. \A f \in fields : trained[f] = asked[f]
    <3>. HIDE DEF trained, asked, settled, onePlace, r
    <3>. QED
      BY <2>3, <2>4, <2>5, <2>6, <2>7, <2>8
  <2>. QED
    BY <2>9, Zenon DEF TrainedAsServed
<1>. QED
  BY <1>1, SpecHistoryInv, PTL

=============================================================================
