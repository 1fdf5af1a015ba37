---------------------------- MODULE WebhookLedger ----------------------------
(***************************************************************************)
(* The ledger with webhook deliveries among its calls: a delivery may be    *)
(* answered at any time, and its answer does not tell whether its payment   *)
(* was stored; after it, nothing is stored any more.  WebhookRouter         *)
(* implements this module.                                                  *)
(***************************************************************************)
EXTENDS PaymentLedger

CONSTANT Deliveries

AnswerDelivery(c) ==
  /\ status[c] \in Unanswered
  /\ \E answer \in {"answered", "error"} : status' = [status EXCEPT ![c] = answer]
  /\ UNCHANGED ledger

WebhookLedgerNext == LedgerNext \/ \E c \in Deliveries : AnswerDelivery(c)

WebhookLedgerSpec == LedgerInit /\ [][WebhookLedgerNext]_ledgerVars

=============================================================================
