---------------------------- MODULE MCPaymentsApi ----------------------------
(***************************************************************************)
(* Small instances of PaymentsApi for TLC.  Every instance has one training *)
(* transaction t0 and calls c1, c2, c3.                                     *)
(***************************************************************************)
EXTENDS PaymentsApi

CONSTANTS c1, c2, c3, t0

MCCalls == {c1, c2, c3}
MCSessions == MCCalls \cup {Admin}
MCIds == MCCalls \cup {t0}
MCTraining == {t0}
MCKeys == {"k", "l", "m", "t", "k_raw"}

(* k_raw stands for an id with a control character, which sanitising drops. *)
MCSanitized == [x \in MCKeys |-> IF x = "k_raw" THEN "k" ELSE x]

MCInitialRows ==
  { NewRow("customers", "t", t0, "none"),
    NewRow("merchants", "t", t0, "none"),
    NewRow("transactions", "t", t0, "completed"),
    NewRow("risk_evaluations", t0, t0, "APPROVE"),
    NewRow("ground_truth", t0, t0, "legit") }

Payload(customer, merchant, device, transaction) ==
  [customers |-> customer, merchants |-> merchant, devices |-> device,
   transactions |-> transaction]

(* A retry (c1 and c2 carry the same payload) beside the payment of another *)
(* customer from the same device at the same merchant, whose id this time   *)
(* carries a control character.                                             *)
MCRetry ==
  [c \in MCCalls |->
     IF c = c3 THEN Payload("l", "k_raw", "k", "l") ELSE Payload("k", "k", "k", "k")]

=============================================================================
