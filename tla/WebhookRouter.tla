---------------------------- MODULE WebhookRouter ----------------------------
(***************************************************************************)
(* receive_webhook of backend/app/webhooks/router.py beside the payment API *)
(* on one database.  A delivery is a call; a provider that retries delivers *)
(* the same event again as another delivery, possibly at the same time.     *)
(***************************************************************************)
EXTENDS PaymentsApi

CONSTANTS
  Deliveries,   \* the calls that arrive at POST /webhooks/{provider}
  EventOf,      \* EventOf[c]: the event id the adapter extracts
  Kind          \* Kind[c]: what the adapter may make of the payload

Kinds == {"payment", "other", "malformed"}

ASSUME RouterAssumption ==
  /\ Deliveries \subseteq Calls \ ApiCalls
  /\ EventOf \in [Deliveries -> Keys]
  /\ Kind \in [Deliveries -> SUBSET Kinds]

Event(c, v) == NewRow("webhook_events", EventOf[c], c, v)

EventOnRecord(c) == Event(c, "received") \in committed

(* Unknown provider, bad signature or unreadable body: 4xx before anything  *)
(* is stored.                                                               *)
RefuseWebhook(c) ==
  /\ op[c] = "idle"
  /\ Goto(c, "refused")
  /\ UNCHANGED <<tab, decision, storeVars, adminVars>>

ReceiveWebhook(c) ==
  /\ op[c] = "idle"
  /\ Goto(c, "check")
  /\ UNCHANGED <<tab, decision, storeVars, adminVars>>

(* The SELECT of the idempotency check.                                     *)
CheckDuplicate(c) ==
  /\ op[c] = "check"
  /\ Goto(c, IF Holds(Visible(c), "webhook_events", EventOf[c])
               THEN "duplicate" ELSE "store")
  /\ UNCHANGED <<tab, decision, storeVars, adminVars>>

(* INSERT and commit of the event, before anything is done about it.        *)
StoreEvent(c) ==
  /\ op[c] = "store"
  /\ IF Duplicate(c, "webhook_events", EventOf[c])
       THEN Goto(c, "error") /\ Close(c)
       ELSE Goto(c, "normalize") /\ CommitWork(c, {Event(c, "received")}, {})
  /\ UNCHANGED <<tab, decision, adminVars>>

(* Fault: the answer does not depend on the status update.                  *)
SettleUnchecked(c, v) ==
  /\ Goto(c, "accepted")
  /\ IF session[c] = "active" /\ EventOnRecord(c)
       THEN CommitWork(c, {Event(c, v)}, {Event(c, "received")})
       ELSE Close(c)
  /\ UNCHANGED <<tab, decision, adminVars>>

(* The event gets its final status in a commit that publishes whatever the  *)
(* session still holds; the UPDATE finds no row when a reset has truncated  *)
(* the table, and then nothing is published.                                *)
SettleEvent(c, v) ==
  /\ IF session[c] = "active" /\ EventOnRecord(c)
       THEN Goto(c, "accepted") /\ CommitWork(c, {Event(c, v)}, {Event(c, "received")})
       ELSE Goto(c, "error") /\ Close(c)
  /\ UNCHANGED <<tab, decision, adminVars>>

(* normalize_payload: a PaymentRequest, None, or an exception nobody catches. *)
NormalizePayment(c) ==
  /\ op[c] = "normalize" /\ "payment" \in Kind[c]
  /\ Start(c)
  /\ UNCHANGED adminVars

NormalizeOther(c) ==
  /\ op[c] = "normalize" /\ "other" \in Kind[c]
  /\ SettleEvent(c, "ignored")

NormalizeRaises(c) ==
  /\ op[c] = "normalize" /\ "malformed" \in Kind[c]
  /\ Goto(c, "error")
  /\ UNCHANGED <<tab, decision, storeVars, adminVars>>

PaymentProcessed(c) == op[c] = "returned" /\ SettleEvent(c, "processed")

(* Faults: a failed payment is recorded as processed; a failed flush leaves *)
(* the handler waiting.                                                     *)
FailureProcessed(c) == op[c] = "raised" /\ SettleEvent(c, "processed")
FailureStuck(c) ==
  op[c] = "raised" /\ session[c] = "active" /\ SettleEvent(c, "failed")

PaymentFailed(c) == op[c] = "raised" /\ SettleEvent(c, "failed")

(***************************************************************************)
(* Outages in the statements of receive_webhook itself.                    *)
(***************************************************************************)
CheckOutage(c) ==
  /\ op[c] = "check"
  /\ Close(c)

(* Nobody catches the failing commit of the event: a 500 with or without    *)
(* the event on record.                                                     *)
StoreOutage(c) ==
  /\ op[c] = "store"
  /\ \/ Close(c)
     \/ /\ ~ Duplicate(c, "webhook_events", EventOf[c])
        /\ CommitWork(c, {Event(c, "received")}, {})

(* The status that is about to be recorded.                                 *)
Outcomes(c) ==
  CASE op[c] = "returned" -> {"processed"}
    [] op[c] = "raised" -> {"failed"}
    [] op[c] = "normalize" /\ "other" \in Kind[c] -> {"ignored"}
    [] OTHER -> {}

(* The same for its commit: the one in the except block fails like the one  *)
(* before it, because its session is unusable.                              *)
SettleOutage(c) ==
  \E v \in Outcomes(c) :
    \/ Close(c)
    \/ EventOnRecord(c) /\ CommitWork(c, {Event(c, v)}, {Event(c, "received")})

EventOutage(c) ==
  /\ c \in OutageCalls
  /\ CheckOutage(c) \/ StoreOutage(c) \/ SettleOutage(c)
  /\ Goto(c, "error")
  /\ UNCHANGED <<tab, decision, adminVars>>

WebhookStep(c) ==
  \/ CheckDuplicate(c) \/ StoreEvent(c)
  \/ NormalizePayment(c) \/ NormalizeOther(c) \/ NormalizeRaises(c)
  \/ RunPayment(c)
  \/ PaymentProcessed(c) \/ PaymentFailed(c)

RouterNext ==
  \/ Next
  \/ \E c \in Deliveries :
       \/ RefuseWebhook(c) \/ ReceiveWebhook(c) \/ WebhookStep(c)
       \/ PaymentOutage(c) \/ EventOutage(c)

RouterSpec == Init /\ [][RouterNext]_vars

FairRouterSpec ==
  /\ RouterSpec
  /\ Fairness
  /\ \A c \in Deliveries : WF_vars(WebhookStep(c))

(***************************************************************************)
(* Properties.                                                             *)
(***************************************************************************)
(* Deliveries of one event that went past the duplicate check.              *)
Processing(c) ==
  op[c] \in {"normalize", "lookup", "insert", "evaluate", "commit", "refresh",
             "returned", "raised", "accepted"}

(* An event is acted on once however often, and however simultaneously, the *)
(* provider delivers it: two deliveries of one event are never both past    *)
(* the duplicate check (router.py:86-104).                                  *)
EventProcessedOnce ==
  resets = 0 =>
    \A c, d \in Deliveries :
      c # d /\ EventOf[c] = EventOf[d] => ~ (Processing(c) /\ Processing(d))

(* The recorded status of an event tells the truth about its payment:       *)
(* "processed" only beside the stored payment, "ignored" only without one,  *)
(* also when a crash, a reset or a failed flush falls between the payment's *)
(* commit and the status update (router.py:110-126); and "failed" stands    *)
(* beside a stored payment only when an outage cost the refresh after its   *)
(* commit (payment_service.py:113-114).                                     *)
EventStatusTruthful ==
  \A c \in Deliveries :
    /\ Event(c, "processed") \in committed => Stored(c)
    /\ Event(c, "ignored") \in committed => ~ Stored(c)
    /\ Event(c, "failed") \in committed /\ Stored(c) => c \in OutageCalls

(* An acknowledged event is on record until a reset drops it, and the       *)
(* delivery that did the work has settled it (router.py:9, 95-127).         *)
AcknowledgedOnRecord ==
  resets = 0 =>
    \A c \in Deliveries :
      /\ op[c] = "duplicate" => Holds(committed, "webhook_events", EventOf[c])
      /\ op[c] = "accepted" =>
           \E v \in EventStatus \ {"received"} : Event(c, v) \in committed

EventLedger == INSTANCE WebhookLedger WITH
                 TransactionOf <- TransactionId,
                 Training <- LedgerOf(InitialRows),
                 Unsure <- OutageCalls,
                 ledger <- LedgerOf(committed),
                 status <- [c \in Calls |-> StatusOf(op[c])]

(* Deliveries and API calls together store payments as one ledger does:     *)
(* each in one step, once, before its answer, never beside another with its *)
(* transaction id; the commits of events and their statuses, and what a     *)
(* failed payment leaves to them, store and erase none (router.py:95-127).  *)
RouterImplementsLedger == EventLedger!WebhookLedgerSpec

(* No delivery waits forever, and none is left without an answer unless the *)
(* server died under it.                                                    *)
EveryDeliveryAnswered ==
  \A c \in Deliveries : op[c] # "idle" ~> op[c] \in FinalOps

(* "For now, returning 202 as the event is persisted" (router.py:122-123):  *)
(* a stored payment event is not answered 500 when processing it fails.     *)
FailureAcknowledged ==
  \A c \in Deliveries :
    op[c] = "error" /\ Kind[c] = {"payment"} => ~ EventOnRecord(c)

=============================================================================
