--------------------------- MODULE MCWebhookRouter ---------------------------
(***************************************************************************)
(* Small instances of WebhookRouter: two deliveries d1, d2 of one event and *)
(* a third call x, beside one training transaction t0.                      *)
(***************************************************************************)
EXTENDS WebhookRouter

CONSTANTS d1, d2, x, t0

MCCalls == {d1, d2, x}
MCSessions == MCCalls \cup {Admin}
MCIds == MCCalls \cup {t0}
MCTraining == {t0}
MCKeys == {"k", "l", "t"}
MCSanitized == [k \in MCKeys |-> k]

MCInitialRows ==
  { NewRow("customers", "t", t0, "none"),
    NewRow("merchants", "t", t0, "none"),
    NewRow("transactions", "t", t0, "blocked"),
    NewRow("risk_evaluations", t0, t0, "BLOCK"),
    NewRow("ground_truth", t0, t0, "legit") }

(* Webhook payments carry no device.  The calls share parties; x is another *)
(* transaction, except in MCSameTransaction.                                *)
MCPayload(transaction) ==
  [customers |-> "k", merchants |-> "k", devices |-> NoKey,
   transactions |-> transaction]

MCRawKey == [c \in MCCalls |-> MCPayload(IF c = x THEN "l" ELSE "k")]
MCSameTransaction == [c \in MCCalls |-> MCPayload("k")]

MCBoth == {d1, d2}
MCEvents == [c \in MCBoth |-> "k"]
MCPayments == [c \in MCBoth |-> {"payment"}]
MCAnyKind == [c \in MCBoth |-> Kinds]

=============================================================================
