------------------------------ MODULE Training ------------------------------
(***************************************************************************)
(* The features the model is trained on (scripts/train_model.py) beside     *)
(* those it is asked with (app/engine/ml.py): two programs that must        *)
(* compute the same thing, one from a table in memory, the other from       *)
(* queries of the detectors' feature context.  The histories are those      *)
(* that PaymentHistory reaches.                                             *)
(***************************************************************************)
EXTENDS PaymentHistory

(***************************************************************************)
(* train_model.py.                                                         *)
(***************************************************************************)
(* The payments in the order of created_at, r the newest of them.           *)
LoadData(r) == Append([i \in DOMAIN log |-> Paid(i)], r)

(* customer_history of row k, before k is added to it.                      *)
HistoryOf(rows, k) == {j \in 1..k - 1 : rows[j].customer = rows[k].customer}

(* Fault: the row is added before the customers are counted.                *)
SharingAndSelf(rows, k, f) ==
  Cardinality({rows[j].customer : j \in {i \in 1..k : rows[i][f] = rows[k][f]}})

(* device_customers and ip_customers: a missing device or address is the    *)
(* string "None", which all share who miss it.                              *)
Sharing(rows, k, f) ==
  Most(1, Cardinality({rows[j].customer : j \in {i \in 1..k - 1 : rows[i][f] = rows[k][f]}}))

(* haversine, on a line.                                                    *)
Haversine(a, b) == IF Absent \in {a, b} THEN 0 ELSE Most(a - b, b - a)

FirstSeen(rows, S) == rows[CHOOSE i \in S : \A j \in S : i <= j].place

(* amount_deviation in tenths, rounded up.                                  *)
Deviation(amount, count, total) ==
  IF total = 0 THEN 10 ELSE (10 * amount * count + total - 1) \div total

FeatureEngineering(rows, k) ==
  LET S == HistoryOf(rows, k)
      r == rows[k]
  IN [deviation |-> Deviation(r.amount, Cardinality(S),
                              MapThenSumSet(LAMBDA i : rows[i].amount, S)),
      spread |-> Cardinality({rows[i].amount : i \in S}) > 1,
      micro |-> r.amount < 250,
      newDevice |-> \A j \in S : rows[j].device # r.device,
      deviceCustomers |-> Sharing(rows, k, "device"),
      ipCustomers |-> Sharing(rows, k, "ip"),
      velocity |-> Cardinality({j \in S : j > old}),
      distance |-> IF S = {} THEN 0 ELSE Haversine(FirstSeen(rows, S), r.place)]

(***************************************************************************)
(* ml.py.                                                                  *)
(***************************************************************************)
(* _build_features: the context has no standard deviation, so there is none *)
(* in any request, and the z-score is 0.                                    *)
BuildFeatures(x) ==
  [deviation |-> IF x.multiple = 0 THEN 10 ELSE x.multiple,
   spread |-> FALSE, micro |-> x.micro, newDevice |-> x.newDevice,
   deviceCustomers |-> x.deviceCustomers, ipCustomers |-> x.ipCustomers,
   velocity |-> x.velocity, distance |-> x.distance]

(***************************************************************************)
(* The model is asked with what it was trained on, whatever the history:    *)
(* always as to amounts and velocity; as to sharing, if the request names   *)
(* what is shared; as to the device, if the customer's payments were all    *)
(* completed; as to the distance, if they were also all made in one place   *)
(* (train_model.py:60-171, ml.py:38-75, extractor.py:37-145).  The standard *)
(* deviation is left out: the model is never asked with it.                 *)
(***************************************************************************)
TrainedAsServed ==
  arrived < Len(plan) =>
    LET r == plan[arrived + 1]
        asked == BuildFeatures(Features(r))
        trained == FeatureEngineering(LoadData(r), Len(log) + 1)
        settled == \A i \in Earlier(r) : Completed(i)
        fields == {"deviation", "micro", "velocity"}
          \cup (IF r.device # Absent THEN {"deviceCustomers"} ELSE {})
          \cup (IF r.ip # Absent THEN {"ipCustomers"} ELSE {})
          \cup (IF r.device # Absent /\ settled THEN {"newDevice"} ELSE {})
          \cup (IF settled /\ Cardinality({Paid(i).place : i \in Earlier(r)}) = 1
                  THEN {"distance"} ELSE {})
    IN \A f \in fields : trained[f] = asked[f]

=============================================================================
