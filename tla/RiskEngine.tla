----------------------------- MODULE RiskEngine -----------------------------
(***************************************************************************)
(* backend/app/engine: the detectors turn the features of a payment into    *)
(* signals, the aggregator turns signals into a score and a decision.  A    *)
(* signal's value lies in 0..One, which is enough for the fractions the     *)
(* detectors use (twentieths, sixths, percents, thousandths) to be exact.   *)
(***************************************************************************)
EXTENDS Integers

CONSTANTS
  Threshold       \* the model's threshold, in thousandths (threshold_v1.json)

ASSUME ThresholdAssumption == Threshold \in 0..1000

One == 6000

Severities == {"LOW", "MEDIUM", "HIGH", "CRITICAL"}

Decisions == {"APPROVE", "MONITOR", "REVIEW", "BLOCK"}

Detectors == {"amount", "velocity", "device", "geography", "failures",
              "ip", "micro", "ml"}

(* The features: the amount in tenths of the historical average (0 without  *)
(* history), whether it is below 2.50, the counts, the distance in km, and  *)
(* the probability the model gives, in thousandths (0 when it fails).       *)
Context ==
  [multiple : Nat, micro : BOOLEAN, velocity : Nat, newDevice : BOOLEAN,
   deviceCustomers : Nat, distance : Nat, failures : Nat, ipCustomers : Nat,
   probability : 0..1000]

Signal == [name : STRING, severity : Severities, value : 0..One]

Raise(n, s, v) == [name |-> n, severity |-> s, value |-> v]
Silent == Raise("none", "LOW", 0)

Least(a, b) == IF a <= b THEN a ELSE b
Most(a, b) == IF a >= b THEN a ELSE b

AmountAnomaly(x) ==
  IF x.multiple > 50
    THEN Raise("amount_anomaly", "HIGH", Least(60 * x.multiple, One))
    ELSE Silent

(* Faults: the lower threshold is tested first; the value is too small just *)
(* above the upper one.                                                     *)
VelocityShadowed(x) ==
  IF x.velocity > 5 THEN Raise("velocity_anomaly", "MEDIUM", 3000) ELSE Silent

VelocityDiluted(x) ==
  IF x.velocity > 10
    THEN Raise("velocity_anomaly", "CRITICAL", Least(100 * x.velocity, One))
    ELSE IF x.velocity > 5 THEN Raise("velocity_anomaly", "MEDIUM", 3000) ELSE Silent

VelocityAnomaly(x) ==
  IF x.velocity > 10
    THEN Raise("velocity_anomaly", "CRITICAL", Least(300 * x.velocity, One))
    ELSE IF x.velocity > 5 THEN Raise("velocity_anomaly", "MEDIUM", 3000) ELSE Silent

(* A device that is new to the customer hides how many customers share it.  *)
DeviceAnomaly(x) ==
  IF x.newDevice THEN Raise("new_device", "MEDIUM", 3600)
    ELSE IF x.deviceCustomers > 3 THEN Raise("shared_device", "CRITICAL", 5400) ELSE Silent

GeographicAnomaly(x) ==
  IF x.distance > 5000 THEN Raise("geographic_anomaly", "HIGH", One)
    ELSE IF x.distance > 1000 THEN Raise("geographic_anomaly", "MEDIUM", 3000) ELSE Silent

FailedPaymentSequence(x) ==
  IF x.failures >= 3
    THEN Raise("failed_payment_sequence", "HIGH", Least(1000 * x.failures, One))
    ELSE Silent

SharedIp(x) == IF x.ipCustomers > 5 THEN Raise("shared_ip", "HIGH", 4800) ELSE Silent

MicroTransaction(x) ==
  IF x.micro THEN Raise("micro_transaction", "CRITICAL", One) ELSE Silent

MlFraud(x) ==
  LET p == x.probability
      Signalled(s) == Raise("ml_fraud_model", s, 6 * p)
  IN IF p >= Most(Threshold, 950) THEN Signalled("CRITICAL")
       ELSE IF p >= Most(Threshold - 100, 850) THEN Signalled("HIGH")
       ELSE IF p >= 700 THEN Signalled("MEDIUM") ELSE Silent

SignalOf(d, x) ==
  CASE d = "amount" -> AmountAnomaly(x)
    [] d = "velocity" -> VelocityAnomaly(x)
    [] d = "device" -> DeviceAnomaly(x)
    [] d = "geography" -> GeographicAnomaly(x)
    [] d = "failures" -> FailedPaymentSequence(x)
    [] d = "ip" -> SharedIp(x)
    [] d = "micro" -> MicroTransaction(x)
    [] d = "ml" -> MlFraud(x)

(* Fault: the weights of the README's table.                                *)
ReadmeWeight(s) ==
  CASE s = "CRITICAL" -> 60 [] s = "HIGH" -> 30 [] s = "MEDIUM" -> 15 [] OTHER -> 5

Weight(s) ==
  CASE s = "CRITICAL" -> 100 [] s = "HIGH" -> 75 [] s = "MEDIUM" -> 45 [] OTHER -> 15

(* The modes of evaluate_transaction.                                       *)
DetectorsOf(mode) ==
  CASE mode = "rules_only" -> Detectors \ {"ml"}
    [] mode = "ml_only" -> {"ml"}
    [] OTHER -> Detectors

(* round() of n / One: halves go to the even neighbour.                     *)
RoundHalfEven(n) ==
  LET q == n \div One
      r == n % One
  IN IF 2 * r > One \/ (2 * r = One /\ q % 2 = 1) THEN q + 1 ELSE q

(* What detector d adds to the sum, in parts of One.                        *)
PointsOf(d, x, ran) ==
  LET s == SignalOf(d, x)
  IN IF d \in ran THEN Weight(s.severity) * s.value ELSE 0

(* Fault: the model's points are averaged with those of the rules.          *)
MeanOfMlAndRules(x, ran) ==
  LET P(d) == PointsOf(d, x, ran)
      rules == P("amount") + P("velocity") + P("device") + P("geography")
                 + P("failures") + P("ip") + P("micro")
  IN IF "ml" \in ran THEN (rules + P("ml")) \div 2 ELSE rules

(* The sum over the detectors that ran: a detector that raises is skipped.  *)
Points(x, ran) ==
  LET P(d) == PointsOf(d, x, ran)
  IN P("amount") + P("velocity") + P("device") + P("geography")
       + P("failures") + P("ip") + P("micro") + P("ml")

Score(x, ran) == Least(RoundHalfEven(Points(x, ran)), 100)

Decide(score) ==
  CASE score <= 30 -> "APPROVE"
    [] score \in 31..60 -> "MONITOR"
    [] score \in 61..85 -> "REVIEW"
    [] OTHER -> "BLOCK"

Decision(x, ran) == Decide(Score(x, ran))

(* Decisions from the mildest to the strictest.                             *)
Rank(d) ==
  CASE d = "APPROVE" -> 0 [] d = "MONITOR" -> 1 [] d = "REVIEW" -> 2 [] OTHER -> 3

=============================================================================
