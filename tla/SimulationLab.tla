---------------------------- MODULE SimulationLab ----------------------------
(***************************************************************************)
(* What a simulation run measures: run_simulation passes the payments of a  *)
(* generator one by one through the engine, whose features see those before *)
(* them in the run's own transaction, and compute_metrics compares labels   *)
(* and decisions.  The run fits into an hour, and no other payment has the  *)
(* customers, devices and addresses of the run.  The rules run alone.       *)
(***************************************************************************)
EXTENDS PaymentHistory, Scenarios

(* Every payment of a plan has its label and its device.                    *)
ASSUME LabAssumption ==
  \A p \in Plans : \A i \in DOMAIN p : p[i].fraud \in BOOLEAN /\ p[i].device # Absent

VARIABLES
  outcomes,   \* labels, predicted_fraud and scores of run_simulation, zipped
  report      \* the metrics, NoReport until the run is over

labVars == <<historyVars, outcomes, report>>

NoReport == [roc |-> -1]

(***************************************************************************)
(* compute_metrics.                                                        *)
(***************************************************************************)
Confused(s, fraud, flagged) ==
  Cardinality({i \in DOMAIN s : s[i].fraud = fraud /\ s[i].flagged = flagged})

(* Fault: the lowest score first.                                           *)
AheadLowest(s, i, j) == s[i].score < s[j].score \/ (s[i].score = s[j].score /\ i < j)

(* Whether payment i comes before payment j in the order of the area:       *)
(* sorted(zip(scores, labels), key = -score) is stable.                     *)
Ahead(s, i, j) == s[i].score > s[j].score \/ (s[i].score = s[j].score /\ i < j)

Ranked(s) ==
  LET before == [i \in DOMAIN s |-> Cardinality({j \in DOMAIN s : Ahead(s, j, i)})]
  IN [k \in DOMAIN s |-> s[CHOOSE i \in DOMAIN s : before[i] = k - 1]]

(* The loop of _roc_auc: after k payments, the frauds and the others so far *)
(* and twice the area under the steps.                                      *)
RocLoop(ranked) ==
  LET loop[k \in 0..Len(ranked)] ==
        IF k = 0 THEN [tp |-> 0, fp |-> 0, area |-> 0]
          ELSE LET prev == loop[k - 1]
                   tp == prev.tp + (IF ranked[k].fraud THEN 1 ELSE 0)
                   fp == prev.fp + (IF ranked[k].fraud THEN 0 ELSE 1)
               IN [tp |-> tp, fp |-> fp,
                   area |-> prev.area + (fp - prev.fp) * (tp + prev.tp)]
  IN loop[Len(ranked)]

Metrics(s) ==
  [roc |-> RocLoop(Ranked(s)).area,
   tp |-> Confused(s, TRUE, TRUE), fp |-> Confused(s, FALSE, TRUE),
   tn |-> Confused(s, FALSE, FALSE), fn |-> Confused(s, TRUE, FALSE)]

(***************************************************************************)
(* The run.                                                                *)
(***************************************************************************)
(* One turn of the loop: evaluate, store, note the outcome.                 *)
SimulatePayment ==
  /\ arrived < Len(plan)
  /\ arrived' = arrived + 1
  /\ LET r == plan[arrived']
         score == Score(Features(r), DetectorsOf("rules_only"))
     IN /\ log' = Append(log, [request |-> r, status |-> FinalStatus(Decide(score))])
        /\ outcomes' = Append(outcomes,
             [fraud |-> r.fraud, flagged |-> Decide(score) \in {"BLOCK", "REVIEW"},
              score |-> score])
  /\ UNCHANGED <<plan, working, old, report>>

(* The loop is over: the metrics are computed.                              *)
FinishRun ==
  /\ arrived = Len(plan) /\ report = NoReport
  /\ report' = Metrics(outcomes)
  /\ UNCHANGED <<historyVars, outcomes>>

LabInit == HistoryInit /\ outcomes = <<>> /\ report = NoReport

LabNext == SimulatePayment \/ FinishRun

LabSpec == LabInit /\ [][LabNext]_labVars

(***************************************************************************)
(* Properties.                                                             *)
(***************************************************************************)
(* How many customers the address of payment k had when it was evaluated.   *)
Neighbours(k) ==
  Cardinality({plan[i].customer : i \in {j \in 1..k - 1 : plan[j].ip = plan[k].ip}})

Before(k) == {i \in 1..k - 1 : plan[i].customer = plan[k].customer}

(* "Phase 1 = history (ALWAYS legitimate), Phase 2 = test"                  *)
(* (scenarios.py:5): the rules alone raise the alarm for no legitimate      *)
(* payment unless more than five customers share its address, and for every *)
(* attack on a customer whose history they accepted.                        *)
RulesSeparate ==
  \A k \in DOMAIN outcomes :
    /\ ~ plan[k].fraud /\ outcomes[k].flagged => Neighbours(k) > 5
    /\ plan[k].place = Far /\ (\A i \in Before(k) : Completed(i)) => outcomes[k].flagged

(* Pairs of a fraud and another payment, by the order of their scores.      *)
Pairs(s, R(_, _)) ==
  Cardinality({p \in (DOMAIN s) \X (DOMAIN s) :
                 s[p[1]].fraud /\ ~ s[p[2]].fraud /\ R(s[p[1]].score, s[p[2]].score)})

(* The area under the ROC curve is the share of the pairs that are in the   *)
(* right order, where a tie counts in full or not at all                    *)
(* (metrics.py:97-116); and every alarm ranks above every payment that      *)
(* passed, so the area is at least that of the confusion matrix.            *)
ReportSound ==
  report # NoReport =>
    /\ report.roc >= 2 * Pairs(outcomes, >)
    /\ report.roc <= 2 * Pairs(outcomes, >=)
    /\ report.roc >= 2 * report.tp * report.tn

(* "Legit transactions are deliberately bland so NO detector fires on them" *)
(* (scenarios.py:15): no legitimate payment of a scenario is predicted to   *)
(* be fraud.                                                                *)
LegitNotFlagged ==
  \A k \in DOMAIN outcomes : ~ (outcomes[k].flagged /\ ~ plan[k].fraud)

=============================================================================
