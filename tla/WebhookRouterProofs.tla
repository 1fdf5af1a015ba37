------------------------ MODULE WebhookRouterProofs ------------------------
(***************************************************************************)
(* Theorems about WebhookRouter: events are acted on once and their status  *)
(* is true, beside the payment API, its resets and crashes, for any number  *)
(* of deliveries, events and payments.                                      *)
(***************************************************************************)
EXTENDS WebhookRouter, PaymentsApiProofs

USE DEF storeVars, callVars, adminVars

Events == InTable(committed, "webhook_events")

Settled == EventStatus \ {"received"}

LEMMA DeliveriesAreCalls ==
  /\ Deliveries \subseteq Calls /\ Deliveries \cap ApiCalls = {}
  /\ Deliveries \subseteq Sessions /\ Admin \notin Deliveries
  BY RouterAssumption, CallsAreIds

(***************************************************************************)
(* The steps of a delivery outside process_payment, by what they do to the  *)
(* database.                                                                *)
(***************************************************************************)
AroundPayment(c) ==
  \/ RefuseWebhook(c) \/ ReceiveWebhook(c) \/ CheckDuplicate(c) \/ StoreEvent(c)
  \/ NormalizeOther(c) \/ NormalizeRaises(c)
  \/ PaymentProcessed(c) \/ PaymentFailed(c)
  \/ EventOutage(c)

(* Where a status may be about to be recorded, and which.                   *)
LEMMA OutcomeKinds ==
  ASSUME NEW c \in Deliveries, NEW v \in Outcomes(c)
  PROVE  /\ v \in Settled /\ v \in EventStatus
         /\ op[c] \in {"normalize", "returned", "raised"}
         /\ v = "processed" => op[c] = "returned"
         /\ v = "failed" => op[c] = "raised"
         /\ v = "ignored" => op[c] = "normalize"
  BY DEF Outcomes, Settled, EventStatus

(* An outage in the statements of the router itself ends the delivery.  It  *)
(* changes no committed row, or the commit it hides stored the event or its *)
(* status.                                                                  *)
LEMMA EventOutageKinds ==
  ASSUME NEW c \in Deliveries, EventOutage(c)
  PROVE  /\ c \in OutageCalls /\ Goto(c, "error") /\ UNCHANGED <<tab, decision, adminVars>>
         /\ op[c] \in {"check", "store", "normalize", "returned", "raised"}
         /\ \/ Close(c)
            \/ /\ op[c] = "store" /\ ~ Duplicate(c, "webhook_events", EventOf[c])
               /\ CommitWork(c, {Event(c, "received")}, {})
            \/ \E v \in Outcomes(c) :
                 EventOnRecord(c) /\ CommitWork(c, {Event(c, v)}, {Event(c, "received")})
  BY OutcomeKinds DEF EventOutage, CheckOutage, StoreOutage, SettleOutage

(* They move the delivery on, outside the climb through the tables, publish *)
(* nothing but its event and what its session still holds, and take nothing *)
(* but its event.                                                           *)
LEMMA AroundPaymentEffect ==
  ASSUME NEW c \in Deliveries, TypeInv, SessionInv, AroundPayment(c)
  PROVE  /\ \E o \in {"refused", "check", "duplicate", "store", "error", "normalize", "accepted"} :
              Goto(c, o)
         /\ op[c] \in {"idle", "check", "store", "normalize", "returned", "raised"}
         /\ op'[c] \in BeforeCommit => op[c] \in BeforeCommit
         /\ UNCHANGED <<tab, decision, admin, resets, crashes>>
         /\ committed' \subseteq committed \cup inserted[c] \cup {Event(c, v) : v \in EventStatus}
         /\ \A r \in committed : r = Event(c, "received") \/ r \in committed'
         /\ \A s \in Sessions : s # c => inserted'[s] = inserted[s] /\ deleted'[s] = deleted[s]
         /\ inserted'[c] \in {inserted[c], {}} /\ deleted'[c] = {}
         /\ session' \in [Sessions -> {"active", "deactive"}]
         /\ inserted' \in [Sessions -> SUBSET Row] /\ deleted' \in [Sessions -> SUBSET Row]
<1>1. /\ inserted \in [Sessions -> SUBSET Row] /\ deleted \in [Sessions -> SUBSET Row]
      /\ session \in [Sessions -> {"active", "deactive"}] /\ op \in [Calls -> Ops]
      /\ deleted[c] = {} /\ c \in Sessions /\ c \in Calls
  BY DeliveriesAreCalls DEF TypeInv, TypeOK, StoreTypeOK, SessionInv
<1>2. CASE RefuseWebhook(c) \/ ReceiveWebhook(c) \/ CheckDuplicate(c) \/ NormalizeRaises(c)
  BY <1>1, <1>2
  DEF RefuseWebhook, ReceiveWebhook, CheckDuplicate, NormalizeRaises, Goto, BeforeCommit
<1>3. ASSUME NEW v \in EventStatus, SettleEvent(c, v),
             op[c] \in {"normalize", "returned", "raised"}
      PROVE  /\ \E o \in {"error", "accepted"} : Goto(c, o)
             /\ UNCHANGED <<tab, decision, admin, resets, crashes>>
             /\ committed' \subseteq committed \cup inserted[c] \cup {Event(c, w) : w \in EventStatus}
             /\ \A r \in committed : r = Event(c, "received") \/ r \in committed'
             /\ \A s \in Sessions : s # c => inserted'[s] = inserted[s] /\ deleted'[s] = deleted[s]
             /\ inserted'[c] = {} /\ deleted'[c] = {}
             /\ session' \in [Sessions -> {"active", "deactive"}]
             /\ inserted' \in [Sessions -> SUBSET Row] /\ deleted' \in [Sessions -> SUBSET Row]
  BY <1>1, <1>3 DEF SettleEvent, CommitWork, Publish, Close
<1>4. CASE NormalizeOther(c) \/ PaymentProcessed(c) \/ PaymentFailed(c)
  <2>1. PICK v \in EventStatus : SettleEvent(c, v)
    BY <1>4 DEF NormalizeOther, PaymentProcessed, PaymentFailed, EventStatus
  <2>2. op[c] \in {"normalize", "returned", "raised"}
    BY <1>4 DEF NormalizeOther, PaymentProcessed, PaymentFailed
  <2>3. \E o \in {"error", "accepted"} : Goto(c, o)
    BY <1>3, <2>1, <2>2
  <2>4. op'[c] \notin BeforeCommit
    BY <1>1, <2>3 DEF Goto, BeforeCommit
  <2>. QED
    BY <1>3, <2>1, <2>2, <2>3, <2>4
<1>5. CASE StoreEvent(c)
  <2>1. "received" \in EventStatus
    BY DEF EventStatus
  <2>2. op[c] = "store" /\ op[c] \in BeforeCommit
    BY <1>5 DEF StoreEvent, BeforeCommit
  <2>. QED
    BY <1>1, <1>5, <2>1, <2>2 DEF StoreEvent, CommitWork, Publish, Close
<1>6. CASE EventOutage(c)
  <2>1. /\ Goto(c, "error") /\ UNCHANGED <<tab, decision, adminVars>>
        /\ op[c] \in {"check", "store", "normalize", "returned", "raised"}
    BY <1>6, EventOutageKinds
  <2>2. op'[c] \notin BeforeCommit
    BY <1>1, <2>1 DEF Goto, BeforeCommit
  <2>3. CASE Close(c)
    BY <1>1, <2>1, <2>2, <2>3 DEF Close
  <2>4. ASSUME NEW v \in EventStatus, NEW del \in SUBSET {Event(c, "received")},
               CommitWork(c, {Event(c, v)}, del)
        PROVE  /\ committed' \subseteq committed \cup inserted[c] \cup {Event(c, w) : w \in EventStatus}
               /\ \A r \in committed : r = Event(c, "received") \/ r \in committed'
               /\ \A s \in Sessions : s # c => inserted'[s] = inserted[s] /\ deleted'[s] = deleted[s]
               /\ inserted'[c] = {} /\ deleted'[c] = {}
               /\ session' \in [Sessions -> {"active", "deactive"}]
               /\ inserted' \in [Sessions -> SUBSET Row] /\ deleted' \in [Sessions -> SUBSET Row]
    BY <1>1, <2>4 DEF CommitWork, Publish
  <2>5. CASE ~ Close(c)
    <3>1. \E v \in EventStatus, del \in SUBSET {Event(c, "received")} :
            CommitWork(c, {Event(c, v)}, del)
      BY <1>6, <2>5, EventOutageKinds, OutcomeKinds DEF EventStatus
    <3>. QED
      BY <2>1, <2>2, <2>4, <3>1
  <2>. QED
    BY <2>3, <2>5
<1>. QED
  BY <1>2, <1>4, <1>5, <1>6 DEF AroundPayment

(***************************************************************************)
(* The invariants of the payment API survive them.                          *)
(***************************************************************************)
LEMMA EventIsRow ==
  ASSUME NEW c \in Deliveries, NEW v \in EventStatus
  PROVE  /\ Event(c, v) \in Row
         /\ Event(c, v).table = "webhook_events" /\ Event(c, v).key = EventOf[c]
         /\ Event(c, v).id = c /\ Event(c, v).val = v
  BY RouterAssumption, DeliveriesAreCalls, CallsAreIds DEF Event, NewRow, Row, Table, Val

LEMMA AroundType ==
  ASSUME NEW c \in Deliveries, TypeInv, SessionInv, AroundPayment(c)
  PROVE  TypeInv'
<1>1. PICK o \in {"refused", "check", "duplicate", "store", "error", "normalize", "accepted"} :
        Goto(c, o)
  BY AroundPaymentEffect
<1>2. o \in Ops /\ o \notin {"insert", "evaluate"}
  BY DEF Ops, FinalOps
<1>3. op' \in [Calls -> Ops] /\ KeyPresent'
  BY <1>1, <1>2, AroundPaymentEffect, DeliveriesAreCalls DEF Goto, TypeInv, TypeOK, KeyPresent
<1>4. committed' \subseteq Row
  <2>1. committed' \subseteq committed \cup inserted[c] \cup {Event(c, v) : v \in EventStatus}
    BY AroundPaymentEffect
  <2>2. {Event(c, v) : v \in EventStatus} \subseteq Row
    BY EventIsRow
  <2>. QED
    BY <2>1, <2>2, DeliveriesAreCalls DEF TypeInv, TypeOK, StoreTypeOK
<1>5. StoreTypeOK'
  BY <1>4, AroundPaymentEffect DEF StoreTypeOK
<1>. QED
  BY <1>3, <1>5, AroundPaymentEffect DEF TypeInv, TypeOK

(* A delivery that has not begun its payment holds nothing.                 *)
DeliverySession ==
  \A c \in Deliveries : op[c] \in {"check", "store", "normalize"} => inserted[c] = {}

LEMMA AroundSession ==
  ASSUME NEW c \in Deliveries, TypeInv, SessionInv, DeliverySession, AroundPayment(c)
  PROVE  SessionInv' /\ DeliverySession'
<1>1. PICK o \in {"refused", "check", "duplicate", "store", "error", "normalize", "accepted"} :
        Goto(c, o)
  BY AroundPaymentEffect
<1>2. op'[c] = o /\ \A d \in Calls \ {c} : op'[d] = op[d]
  BY <1>1, DeliveriesAreCalls DEF Goto, TypeInv, TypeOK
<1>3. /\ tab' = tab /\ inserted'[c] \subseteq inserted[c] /\ deleted'[c] = {}
      /\ \A s \in Sessions : s # c => inserted'[s] = inserted[s] /\ deleted'[s] = deleted[s]
  BY AroundPaymentEffect
<1>4. \A d \in Calls : HoldsBelow(d)'
  BY <1>2, <1>3, CallsAreIds DEF SessionInv, HoldsBelow, Climbing
<1>5. o # "idle" /\ c \in Calls
  BY DeliveriesAreCalls
<1>6. SessionInv'
  BY <1>2, <1>3, <1>4, <1>5, CallsAreIds DEF SessionInv
<1>7. o \in {"check", "store", "normalize"} => inserted[c] = {}
  <2>1. op[c] \in {"idle", "check", "store", "normalize", "returned", "raised"}
    BY AroundPaymentEffect
  <2>2. o \in BeforeCommit => op[c] \in BeforeCommit
    BY <1>2, AroundPaymentEffect
  <2>3. o \in {"check", "store", "normalize"} => op[c] \in {"idle", "check", "store", "normalize"}
    BY <2>1, <2>2 DEF BeforeCommit
  <2>. QED
    BY <1>5, <2>3 DEF DeliverySession, SessionInv
<1>8. DeliverySession'
  BY <1>2, <1>3, <1>7, DeliveriesAreCalls DEF DeliverySession
<1>. QED
  BY <1>6, <1>8

LEMMA AroundTraining ==
  ASSUME NEW c \in Deliveries, TypeInv, SessionInv, TrainingInv, AroundPayment(c)
  PROVE  TrainingInv'
<1>1. /\ \A r \in committed : r = Event(c, "received") \/ r \in committed'
      /\ deleted'[Admin] = deleted[Admin]
  BY AroundPaymentEffect, DeliveriesAreCalls, CallsAreIds
<1>2. Event(c, "received") \notin InitialRows
  BY EventIsRow, TrainingAssumption DEF EventStatus
<1>. QED
  BY <1>1, <1>2 DEF TrainingInv

(* What a delivery publishes beside its event, and what it finds.           *)
LEMMA AroundPublishes ==
  ASSUME NEW c \in Deliveries, TypeInv, SessionInv, WholeInv, AroundPayment(c)
  PROVE  /\ \A r \in committed' :
              \/ r \in committed
              \/ r \in inserted[c] /\ r.table \in LookupTables /\ r.id = c
              \/ r.table = "webhook_events" /\ r.key = EventOf[c] /\ r.id = c
         /\ \A r \in committed : r.table # "webhook_events" => r \in committed'
<1>1. /\ committed' \subseteq committed \cup inserted[c] \cup {Event(c, v) : v \in EventStatus}
      /\ \A r \in committed : r = Event(c, "received") \/ r \in committed'
      /\ op[c] # "commit"
  BY AroundPaymentEffect
<1>2. \A r \in inserted[c] : r.table \in LookupTables /\ r.id = c
  <2>1. c \in Calls
    BY DeliveriesAreCalls
  <2>2. \A r \in inserted[c] : r.table \in StageTables /\ r.table # "transactions" /\ r.id = c
    BY <1>1, <2>1 DEF SessionInv, HoldsBelow, WholeInv, CallInv, StagedInv
  <2>. QED
    BY <2>2 DEF StageTables
<1>3. Event(c, "received").table = "webhook_events"
  BY EventIsRow DEF EventStatus
<1>. QED
  BY <1>1, <1>2, <1>3, EventIsRow

LEMMA AroundWhole ==
  ASSUME NEW c \in Deliveries, TypeInv, SessionInv, IndexInv, WholeInv, AroundPayment(c)
  PROVE  WholeInv'
<1>0. c \in Calls /\ c \notin ApiCalls
  BY DeliveriesAreCalls
<1>1. /\ \A r \in committed' :
           r \in committed \/ (r.table \in LookupTables \cup {"webhook_events"} /\ r.id = c)
      /\ \A r \in committed : r.table # "webhook_events" => r \in committed'
  BY AroundPublishes
<1>2. /\ inserted'[c] \subseteq inserted[c]
      /\ \A s \in Sessions : s # c => inserted'[s] = inserted[s] /\ deleted'[s] = deleted[s]
      /\ UNCHANGED <<tab, decision, admin, resets>>
      /\ op[c] # "commit" /\ (op'[c] \in BeforeCommit => op[c] \in BeforeCommit)
  BY AroundPaymentEffect
<1>3. PICK o \in {"refused", "check", "duplicate", "store", "error", "normalize", "accepted"} :
        Goto(c, o)
  BY AroundPaymentEffect
<1>4. op'[c] = o /\ \A d \in Calls \ {c} : op'[d] = op[d]
  BY <1>0, <1>3 DEF Goto, TypeInv, TypeOK
<1>5. Transactions' = Transactions
  BY <1>1 DEF Transactions, InTable, LookupTables
<1>6. \A r : r.table \in ByTransaction => (r \in committed' <=> r \in committed)
  BY <1>1 DEF ByTransaction, LookupTables
<1>7. ASSUME NEW d \in Calls, d # c PROVE CallInv(d)'
  <2>1. /\ CallInv(d) /\ op'[d] = op[d] /\ inserted'[d] = inserted[d]
        /\ tab'[d] = tab[d] /\ decision'[d] = decision[d] /\ resets' = resets
    BY <1>2, <1>4, <1>7, CallsAreIds DEF WholeInv
  <2>2. \A r \in committed' : r \notin committed =>
          r.table \notin ByTransaction \cup {"transactions"} /\ r.id # d
    BY <1>1, <1>7 DEF ByTransaction, LookupTables
  <2>3. \A r \in committed : r.table \in LookupTables \cup {"transactions"} => r \in committed'
    BY <1>1 DEF LookupTables
  <2>. QED
    BY <2>1, <2>2, <2>3, FrameCall
<1>8. CallInv(c)'
  <2>1. CallInv(c) /\ TxRow(c)' = TxRow(c)
    BY <1>0, <1>2 DEF WholeInv, TxRow
  <2>2. StagedInv(c)'
    BY <1>2, <1>4, <2>1 DEF CallInv, StagedInv
  <2>3. PartiesInv(c)'
    BY <1>4 DEF PartiesInv, Climbing
  <2>4. PartiesStored(c) => PartiesStored(c)'
    BY <1>1 DEF PartiesStored, Holds, LookupTables
  <2>5. \A x \in Transactions' : x.id = c => x = TxRow(c) /\ op'[c] \notin BeforeCommit
                                              /\ PartiesStored(c)'
    BY <1>2, <1>5, <2>1, <2>4 DEF CallInv, StoredInv
  <2>6. \A r \in committed' :
          r.table \in ByTransaction /\ r.key = c =>
            r.id = c /\ (r.table = "risk_evaluations" => r.val = decision[c])
    BY <1>6, <2>1 DEF CallInv, StoredInv
  <2>7. StoredInv(c)'
    BY <1>0, <1>2, <1>4, <2>1, <2>5, <2>6 DEF StoredInv
  <2>. QED
    BY <2>2, <2>3, <2>7 DEF CallInv
<1>9. PairedInv'
  <2>1. \A i : Holds(committed, "risk_evaluations", i) => Holds(committed', "risk_evaluations", i)
    BY <1>1 DEF Holds
  <2>. QED
    BY <1>5, <1>6, <2>1 DEF WholeInv, PairedInv
<1>10. AdminInv'
  <2>1. AdminInv /\ deleted'[Admin] = deleted[Admin]
    BY <1>0, <1>2, CallsAreIds DEF WholeInv
  <2>2. deleted[Admin] \subseteq committed'
    BY <1>1, <2>1 DEF AdminInv, ByTransaction
  <2>3. Labelled((committed \ deleted[Admin])') = Labelled(committed \ deleted[Admin])
    BY <1>1, <2>1 DEF Labelled, InTable, LookupTables
  <2>. QED
    BY <1>2, <1>5, <1>6, <2>1, <2>2, <2>3 DEF AdminInv
<1>. QED
  BY <1>7, <1>8, <1>9, <1>10 DEF WholeInv

(* The event is stored where none has its key, or replaces itself.          *)
LEMMA AroundShape ==
  ASSUME NEW c \in Deliveries, TypeInv, SessionInv, IndexInv, AroundPayment(c)
  PROVE  \/ committed' = committed
         \/ /\ \E v \in EventStatus :
                 committed' = (committed \ {Event(c, "received")}) \cup inserted[c] \cup {Event(c, v)}
            /\ inserted'[c] = {}
            /\ \A r \in committed \ {Event(c, "received")} :
                 r.table = "webhook_events" => r.key # EventOf[c]
<1>1. /\ deleted[c] = {} /\ c \in Sessions /\ c \in Calls
      /\ inserted \in [Sessions -> SUBSET Row]
  BY DeliveriesAreCalls DEF TypeInv, TypeOK, StoreTypeOK, SessionInv
<1> DEFINE Replaced(v) ==
      /\ committed' = (committed \ {Event(c, "received")}) \cup inserted[c] \cup {Event(c, v)}
      /\ inserted'[c] = {}
      /\ \A r \in committed \ {Event(c, "received")} :
           r.table = "webhook_events" => r.key # EventOf[c]
<1>2. ASSUME ~ Duplicate(c, "webhook_events", EventOf[c]), CommitWork(c, {Event(c, "received")}, {})
      PROVE  Replaced("received") /\ "received" \in EventStatus
  <2>1. \A r \in committed : r.table = "webhook_events" => r.key # EventOf[c]
    BY <1>1, <1>2 DEF Duplicate, Holds, Visible
  <2>2. Event(c, "received") \notin committed
    BY <2>1, EventIsRow DEF EventStatus
  <2>3. /\ committed' = committed \cup inserted[c] \cup {Event(c, "received")}
        /\ inserted'[c] = {}
    BY <1>1, <1>2 DEF CommitWork, Publish
  <2>4. committed \ {Event(c, "received")} = committed
    BY <2>2
  <2>. QED
    BY <2>1, <2>3, <2>4 DEF EventStatus
<1>3. ASSUME NEW v \in EventStatus, EventOnRecord(c),
             CommitWork(c, {Event(c, v)}, {Event(c, "received")})
      PROVE  Replaced(v)
  <2>1. /\ committed' = (committed \ {Event(c, "received")}) \cup inserted[c] \cup {Event(c, v)}
        /\ inserted'[c] = {}
    BY <1>1, <1>3 DEF CommitWork, Publish
  <2>2. Event(c, "received") \in committed
    BY <1>3 DEF EventOnRecord
  <2>3. Event(c, "received").table = "webhook_events" /\ Event(c, "received").key = EventOf[c]
    BY EventIsRow DEF EventStatus
  <2>4. \A r \in committed \ {Event(c, "received")} :
          r.table = "webhook_events" => r.key # EventOf[c]
    BY <2>2, <2>3 DEF IndexInv, UniqueIndexes
  <2>. QED
    BY <2>1, <2>4
<1>4. CASE RefuseWebhook(c) \/ ReceiveWebhook(c) \/ CheckDuplicate(c) \/ NormalizeRaises(c)
  BY <1>4 DEF RefuseWebhook, ReceiveWebhook, CheckDuplicate, NormalizeRaises
<1>5. CASE StoreEvent(c)
  <2>1. committed' = committed
          \/ (~ Duplicate(c, "webhook_events", EventOf[c]) /\ CommitWork(c, {Event(c, "received")}, {}))
    BY <1>5 DEF StoreEvent, Close
  <2>. QED
    BY <1>2, <2>1
<1>6. CASE NormalizeOther(c) \/ PaymentProcessed(c) \/ PaymentFailed(c)
  <2>1. PICK v \in EventStatus : SettleEvent(c, v)
    BY <1>6 DEF NormalizeOther, PaymentProcessed, PaymentFailed, EventStatus
  <2>2. committed' = committed
          \/ (EventOnRecord(c) /\ CommitWork(c, {Event(c, v)}, {Event(c, "received")}))
    BY <2>1 DEF SettleEvent, Close
  <2>. QED
    BY <1>3, <2>2
<1>7. CASE EventOutage(c)
  <2>1. CASE Close(c)
    BY <2>1 DEF Close
  <2>2. CASE ~ Duplicate(c, "webhook_events", EventOf[c]) /\ CommitWork(c, {Event(c, "received")}, {})
    BY <1>2, <2>2
  <2>3. ASSUME NEW v \in Outcomes(c),
               EventOnRecord(c), CommitWork(c, {Event(c, v)}, {Event(c, "received")})
        PROVE  Replaced(v) /\ v \in EventStatus
    BY <1>3, <2>3, OutcomeKinds
  <2>. QED
    BY <1>7, <2>1, <2>2, <2>3, EventOutageKinds
<1>. QED
  BY <1>4, <1>5, <1>6, <1>7 DEF AroundPayment

LEMMA AroundIndex ==
  ASSUME NEW c \in Deliveries, TypeInv, SessionInv, IndexInv, WholeInv, AroundPayment(c)
  PROVE  IndexInv'
<1>0. c \in Calls
  BY DeliveriesAreCalls
<1>1. PICK o \in {"refused", "check", "duplicate", "store", "error", "normalize", "accepted"} :
        Goto(c, o)
  BY AroundPaymentEffect
<1>2. \A d \in Calls : op[d] \notin BeforeCommit => op'[d] \notin BeforeCommit
  <2>1. op'[c] \in BeforeCommit => op[c] \in BeforeCommit
    BY AroundPaymentEffect
  <2>. QED
    BY <1>0, <1>1, <2>1 DEF Goto, TypeInv, TypeOK
<1>3. /\ inserted'[c] \subseteq inserted[c]
      /\ \A d \in Calls : d # c => inserted'[d] = inserted[d]
  BY AroundPaymentEffect, CallsAreIds
<1>4. CASE committed' = committed
  <2>1. \A d \in Calls : inserted'[d] \subseteq inserted[d]
    BY <1>3
  <2>. QED
    BY <1>2, <1>4, <2>1, ShrinkIndex
<1>5. ASSUME NEW v \in EventStatus,
             committed' = (committed \ {Event(c, "received")}) \cup inserted[c] \cup {Event(c, v)},
             inserted'[c] = {},
             \A r \in committed \ {Event(c, "received")} :
               r.table = "webhook_events" => r.key # EventOf[c]
      PROVE  IndexInv'
  <2> DEFINE rest == committed \ {Event(c, "received")}
  <2>1. Event(c, v).table = "webhook_events" /\ Event(c, v).key = EventOf[c]
    BY EventIsRow
  <2>2. \A d \in Calls : \A r \in inserted[d] : r.table \in StageTables
    BY DEF SessionInv, HoldsBelow
  <2>3. \A d \in Calls : \A r \in inserted[d] : ~ Clash(r, Event(c, v)) /\ ~ Clash(Event(c, v), r)
    BY <2>1, <2>2 DEF Clash, StageTables, LookupTables
  <2>4. \A r \in rest : ~ Clash(r, Event(c, v)) /\ ~ Clash(Event(c, v), r)
    BY <1>5, <2>1 DEF Clash
  <2>5. \A r1, r2 \in committed : Clash(r1, r2) => r1 = r2
    BY DEF IndexInv, UniqueIndexes, Clash
  <2>6. \A d \in Calls : \A r \in inserted[d], x \in committed : ~ Clash(r, x) /\ ~ Clash(x, r)
    BY DEF IndexInv, Clash
  <2>7. \A r1, r2 \in inserted[c] : Clash(r1, r2) => r1 = r2
    BY <1>0 DEF IndexInv
  <2>8. UniqueIndexes'
    <3> SUFFICES ASSUME NEW r1 \in committed', NEW r2 \in committed', Clash(r1, r2)
                 PROVE  r1 = r2
      BY DEF UniqueIndexes, Clash
    <3>1. CASE r1 \in rest
      BY <1>0, <1>5, <2>4, <2>5, <2>6, <3>1
    <3>2. CASE r1 \in inserted[c]
      BY <1>0, <1>5, <2>3, <2>6, <2>7, <3>2
    <3>3. CASE r1 = Event(c, v)
      BY <1>0, <1>5, <2>3, <2>4, <3>3
    <3>. QED
      BY <1>5, <3>1, <3>2, <3>3
  <2>9. \A d \in Calls : \A r \in inserted'[d], x \in committed' : ~ Clash(r, x)
    <3> SUFFICES ASSUME NEW d \in Calls, NEW r \in inserted'[d], NEW x \in committed'
                 PROVE  ~ Clash(r, x)
      OBVIOUS
    <3>1. d # c /\ r \in inserted[d]
      BY <1>3, <1>5
    <3>2. CASE x \in inserted[c]
      BY <1>0, <3>1, <3>2 DEF IndexInv
    <3>. QED
      BY <1>5, <2>3, <2>6, <3>1, <3>2
  <2>10. \A d, e \in Calls : \A r \in inserted'[d], x \in inserted'[e] :
           Clash(r, x) => d = e /\ r = x
    BY <1>3, <1>5 DEF IndexInv
  <2>11. \A r \in committed', d \in Calls :
           r.table \in ByTransaction /\ r.key = d => op'[d] \notin BeforeCommit
    <3>1. \A r \in committed' : r.table \in ByTransaction => r \in committed
      BY AroundPublishes DEF ByTransaction, LookupTables
    <3>. QED
      BY <1>2, <3>1 DEF IndexInv
  <2>. QED
    BY <2>8, <2>9, <2>10, <2>11 DEF IndexInv
<1>. QED
  BY <1>4, <1>5, AroundShape

(* normalize_payload has found a payment: the delivery starts its climb.    *)
LEMMA NormalizePaymentKeeps ==
  ASSUME NEW c \in Deliveries, NormalizePayment(c),
         TypeInv, SessionInv, IndexInv, TrainingInv, WholeInv, DeliverySession
  PROVE  TypeInv' /\ SessionInv' /\ IndexInv' /\ TrainingInv' /\ WholeInv' /\ DeliverySession'
<1>0. c \in Calls
  BY DeliveriesAreCalls
<1>1. op[c] = "normalize" /\ inserted[c] = {} /\ CallInv(c)
  BY <1>0 DEF NormalizePayment, DeliverySession, WholeInv
<1>2. UNCHANGED <<decision, committed, inserted, deleted, session, adminVars>>
  BY DEF NormalizePayment, Start
<1>3. /\ op'[c] = "lookup" /\ tab'[c] = "customers"
      /\ \A d \in Calls \ {c} : op'[d] = op[d] /\ tab'[d] = tab[d]
  BY <1>0 DEF NormalizePayment, Start, Goto, TypeInv, TypeOK
<1>4. TypeInv'
  BY <1>0 DEF NormalizePayment, Start, Goto, TypeInv, TypeOK, StoreTypeOK, KeyPresent, Ops,
              StageTables, LookupTables
<1>5. SessionInv'
  BY <1>1, <1>2, <1>3 DEF SessionInv, HoldsBelow
<1>6. IndexInv'
  <2>1. \A d \in Calls : op[d] \notin BeforeCommit => op'[d] \notin BeforeCommit
    BY <1>1, <1>3 DEF BeforeCommit
  <2>. QED
    BY <1>2, <2>1, ShrinkIndex
<1>7. TrainingInv'
  BY <1>2 DEF TrainingInv
<1>8. WholeInv'
  <2>1. StagedInv(c)'
    BY <1>1, <1>2, <1>3 DEF StagedInv, LookupTables
  <2>2. PartiesInv(c)'
    BY <1>3 DEF PartiesInv, Rank, LookupTables
  <2>3. StoredInv(c)'
    BY <1>0, <1>1, <1>2, <1>3, StillNothing DEF BeforeCommit
  <2>. QED
    BY <1>0, <1>2, <1>3, <2>1, <2>2, <2>3, QuietStep DEF CallInv
<1>9. DeliverySession'
  BY <1>1, <1>2, <1>3, DeliveriesAreCalls DEF DeliverySession
<1>. QED
  BY <1>4, <1>5, <1>6, <1>7, <1>8, <1>9

(***************************************************************************)
(* Events.  Until the first reset an event is on record from the moment its *)
(* delivery is past the duplicate check; a settled event belongs to a       *)
(* delivery that was answered and so will store nothing any more.           *)
(***************************************************************************)
EventInv(c) ==
  /\ resets = 0 /\ Processing(c) => \E v \in EventStatus : Event(c, v) \in committed
  /\ resets = 0 /\ op[c] = "duplicate" => Holds(committed, "webhook_events", EventOf[c])
  /\ resets = 0 /\ op[c] = "accepted" => \E v \in Settled : Event(c, v) \in committed
  /\ \A v \in Settled : Event(c, v) \in committed => op[c] \in {"accepted", "error"}
  /\ op[c] \in {"refresh", "returned"} /\ Event(c, "received") \in committed => Stored(c)
  /\ Event(c, "processed") \in committed => Stored(c)
  /\ Event(c, "ignored") \in committed => ~ Stored(c)
  /\ Event(c, "failed") \in committed /\ Stored(c) => c \in OutageCalls

EventsInv == \A c \in Deliveries : EventInv(c)

LEMMA InitEvents == Init => EventsInv /\ DeliverySession
<1> SUFFICES ASSUME Init PROVE EventsInv /\ DeliverySession
  OBVIOUS
<1>1. committed = InitialRows /\ \A c \in Deliveries : op[c] = "idle"
  BY DeliveriesAreCalls DEF Init, ServiceInit, StoreInit
<1>2. \A c \in Deliveries, v \in EventStatus : Event(c, v) \notin committed
  BY <1>1, EventIsRow, TrainingAssumption
<1>. QED
  BY <1>1, <1>2 DEF EventsInv, EventInv, Processing, DeliverySession, Settled, EventStatus

(* What other actors do leaves the events of a delivery alone.              *)
LEMMA FrameEvent ==
  ASSUME NEW c \in Deliveries, EventInv(c), op'[c] = op[c],
         \A v \in EventStatus : Event(c, v) \in committed' <=> Event(c, v) \in committed,
         Holds(committed, "webhook_events", EventOf[c])
           => Holds(committed', "webhook_events", EventOf[c]),
         Stored(c)' <=> Stored(c),
         resets' = 0 => resets = 0
  PROVE  EventInv(c)'
<1>1. \A v : Event(c, v)' = Event(c, v)
  BY DEF Event
<1>2. Processing(c)' <=> Processing(c)
  BY DEF Processing
<1>3. Settled \subseteq EventStatus
        /\ {"received", "processed", "failed", "ignored"} \subseteq EventStatus
  BY DEF Settled, EventStatus
<1>. QED
  BY <1>1, <1>2, <1>3 DEF EventInv

(* The steps of a payment, the delivery's own or another's.                 *)
LEMMA PaymentEvents ==
  ASSUME NEW d \in Calls, TypeInv, SessionInv, IndexInv, WholeInv, EventsInv,
         CreatePayment(d) \/ CallAct(d),
         d \in Deliveries => RunPayment(d) \/ PaymentOutage(d)
  PROVE  EventsInv'
<1> SUFFICES ASSUME NEW c \in Deliveries PROVE EventInv(c)'
  BY DEF EventsInv
<1>0. EventInv(c) /\ c \in Calls
  BY DeliveriesAreCalls DEF EventsInv
<1>1. committed' = committed \/ Commits(d)
  <2>1. CASE PaymentOutage(d)
    BY <2>1, OutageKinds DEF CutOff, NoConnection, ConnectionLost, FlushFails
  <2>2. CASE CreatePayment(d) \/ CallStep(d)
    BY <2>2, OutageKinds
    DEF CreatePayment, Start, CallStep, RunPayment, ProcessPayment, Lookup, InsertOk, Stage,
        InsertRaises, FlushFails, Evaluate, EvaluateRaises, Refresh, AnswerCreated, AnswerError,
        Close
  <2>. QED
    BY <2>1, <2>2 DEF CallAct
<1>2. /\ resets' = resets
      /\ \A e \in Calls \ {d} : op'[e] = op[e]
  BY DEF CallAct, PaymentOutage, Outage, CreatePayment, Start, CallStep, RunPayment,
         ProcessPayment, Lookup, InsertOk, Advance, InsertRaises, Evaluate, EvaluateRaises,
         Commit, Refresh, AnswerCreated, AnswerError, Goto, TypeInv, TypeOK
<1>3. /\ committed \subseteq committed'
      /\ \A r \in committed' : r \in committed \/ r.table # "webhook_events"
      /\ \A r \in committed' : r.table = "transactions" => r \in committed \/ r.id = d
  <2>1. CASE committed' = committed
    BY <2>1
  <2>2. CASE Commits(d)
    <3>1. /\ committed' = committed \cup inserted[d] \cup ClosingRows(d)
          /\ \A r \in inserted[d] : r.id = d
          /\ \A r \in ClosingRows(d) : r.table \in ByTransaction
      BY <2>2, CommitPublishes
    <3>2. \A r \in inserted[d] : r.table \in StageTables
      BY DEF SessionInv, HoldsBelow
    <3>. QED
      BY <3>1, <3>2 DEF ByTransaction, StageTables, LookupTables
  <2>. QED
    BY <1>1, <2>1, <2>2
<1>4. \A v \in EventStatus : Event(c, v) \in committed' <=> Event(c, v) \in committed
  BY <1>3, EventIsRow
<1>5. CASE c # d
  <2>1. Stored(c)' <=> Stored(c)
    BY <1>3, <1>5 DEF Stored, InTable
  <2>2. Holds(committed, "webhook_events", EventOf[c]) => Holds(committed', "webhook_events", EventOf[c])
    BY <1>3 DEF Holds
  <2>3. op'[c] = op[c]
    BY <1>0, <1>2, <1>5
  <2>. QED
    BY <1>0, <1>2, <1>4, <2>1, <2>2, <2>3, FrameEvent
<1>6. CASE c = d
  <2>1. RunPayment(c) \/ PaymentOutage(c)
    BY <1>6
  <2>2. /\ op[c] \in {"lookup", "insert", "evaluate", "commit", "refresh"}
        /\ op'[c] \in {"lookup", "insert", "evaluate", "commit", "refresh", "returned", "raised"}
        /\ op'[c] = "refresh" => Commits(c)
        /\ op'[c] = "returned" => op[c] = "refresh" /\ committed' = committed
    <3>1. CASE RunPayment(c)
      BY <1>0, <3>1, OutageKinds
      DEF RunPayment, ProcessPayment, Lookup, InsertOk, Advance, NextOp, InsertRaises, Evaluate,
          EvaluateRaises, Commit, Refresh, Goto, TypeInv, TypeOK
    <3>2. CASE PaymentOutage(c)
      BY <1>0, <3>2
      DEF PaymentOutage, Outage, NoConnection, ConnectionLost, ConnectionLostLate, Goto, TypeInv,
          TypeOK
    <3>. QED
      BY <2>1, <3>1, <3>2
  <2>3. \A v : Event(c, v)' = Event(c, v)
    BY DEF Event
  <2>4. \A v \in Settled : Event(c, v) \notin committed'
    BY <1>0, <1>4, <2>2 DEF EventInv, Settled
  <2>5. Processing(c) /\ Processing(c)'
    BY <2>2 DEF Processing
  <2>6. op'[c] = "refresh" => Stored(c)'
    <3> SUFFICES ASSUME op'[c] = "refresh" PROVE Stored(c)'
      OBVIOUS
    <3>1. TxRow(c) \in committed'
      BY <1>0, <2>2, CommitPublishes
    <3>. QED
      BY <3>1 DEF Stored, InTable, TxRow, NewRow
  <2>7. op'[c] = "returned" /\ Event(c, "received") \in committed' => Stored(c)'
    BY <1>0, <2>2 DEF EventInv, Stored, EventStatus
  <2>8. {"processed", "failed", "ignored"} \subseteq Settled
    BY DEF Settled, EventStatus
  <2>. QED
    BY <1>0, <1>2, <1>4, <2>2, <2>3, <2>4, <2>5, <2>6, <2>7, <2>8 DEF EventInv
<1>. QED
  BY <1>5, <1>6

(* The steps around the payment: other deliveries first.                    *)
LEMMA AroundOthers ==
  ASSUME NEW c \in Deliveries, TypeInv, SessionInv, IndexInv, WholeInv, EventsInv,
         AroundPayment(c), NEW d \in Deliveries, d # c
  PROVE  EventInv(d)'
<1>1. EventInv(d) /\ resets' = resets /\ d \in Calls
  BY AroundPaymentEffect, DeliveriesAreCalls DEF EventsInv
<1>2. op'[d] = op[d]
  <2>1. \E o : Goto(c, o)
    BY AroundPaymentEffect
  <2>. QED
    BY <1>1, <2>1 DEF Goto, TypeInv, TypeOK
<1>3. /\ \A r \in committed' :
           r \in committed \/ r.table \in LookupTables \/ (r.table = "webhook_events" /\ r.id = c)
      /\ \A r \in committed : r = Event(c, "received") \/ r \in committed'
      /\ \A r \in committed : r.table # "webhook_events" => r \in committed'
  BY AroundPublishes, AroundPaymentEffect
<1>4. \A v \in EventStatus : Event(d, v) \in committed' <=> Event(d, v) \in committed
  <2>1. \A v \in EventStatus : Event(d, v) # Event(c, "received")
    BY EventIsRow DEF EventStatus
  <2>. QED
    BY <1>3, <2>1, EventIsRow DEF LookupTables
<1>5. Stored(d)' <=> Stored(d)
  BY <1>3 DEF Stored, InTable, LookupTables
<1>6. Holds(committed, "webhook_events", EventOf[d])
        => Holds(committed', "webhook_events", EventOf[d])
  <2> SUFFICES ASSUME NEW r \in committed, r.table = "webhook_events", r.key = EventOf[d],
                      r \notin committed'
               PROVE  Holds(committed', "webhook_events", EventOf[d])
    BY DEF Holds
  <2>1. r = Event(c, "received") /\ committed' # committed
    BY <1>3
  <2>2. PICK v \in EventStatus : Event(c, v) \in committed'
    BY <2>1, AroundShape
  <2>3. Event(c, v).table = "webhook_events" /\ Event(c, v).key = r.key
    BY <2>1, EventIsRow DEF EventStatus
  <2>. QED
    BY <2>2, <2>3 DEF Holds
<1>. QED
  BY <1>1, <1>2, <1>4, <1>5, <1>6, FrameEvent

(* A delivery before it has settled its event.                              *)
LEMMA BeforeSettling ==
  ASSUME NEW c \in Deliveries, EventInv(c), op[c] \notin {"accepted", "error"},
         op'[c] \in {"refused", "check", "store", "error"}
           \/ (op'[c] = "normalize" /\ \E v \in EventStatus : Event(c, v) \in committed')
           \/ (op'[c] = "duplicate" /\ Holds(committed', "webhook_events", EventOf[c])),
         \A v \in Settled : Event(c, v) \in committed' => Event(c, v) \in committed
  PROVE  EventInv(c)'
<1>1. \A v : Event(c, v)' = Event(c, v)
  BY DEF Event
<1>2. \A v \in Settled : Event(c, v) \notin committed'
  BY DEF EventInv
<1>3. {"processed", "failed", "ignored"} \subseteq Settled
  BY DEF Settled, EventStatus
<1>4. Processing(c)' => op'[c] = "normalize"
  BY DEF Processing
<1>. QED
  BY <1>1, <1>2, <1>3, <1>4 DEF EventInv

(* The commit of the status, whatever the provider is answered.             *)
LEMMA SettledEvents ==
  ASSUME NEW c \in Deliveries, TypeInv, SessionInv, IndexInv, WholeInv, EventsInv,
         AroundPayment(c), NEW v \in Settled,
         EventOnRecord(c), CommitWork(c, {Event(c, v)}, {Event(c, "received")}),
         op[c] \in {"normalize", "returned", "raised"}, op'[c] \in {"accepted", "error"},
         v = "processed" => op[c] = "returned",
         v = "failed" => op[c] = "raised",
         v = "ignored" => op[c] = "normalize"
  PROVE  EventInv(c)'
<1>0. EventInv(c) /\ c \in Calls /\ c \in Sessions /\ CallInv(c)
  BY DeliveriesAreCalls DEF EventsInv, WholeInv
<1>1. committed' = (committed \ {Event(c, "received")}) \cup inserted[c] \cup {Event(c, v)}
  BY <1>0 DEF CommitWork, Publish, SessionInv
<1>2. \A w : Event(c, w)' = Event(c, w)
  BY DEF Event
<1>3. Settled \subseteq EventStatus
        /\ {"processed", "failed", "ignored"} \subseteq Settled
  BY DEF Settled, EventStatus
<1>4. \A r \in inserted[c] : r.table \in StageTables
  BY <1>0 DEF SessionInv, HoldsBelow
<1>5. \A w \in EventStatus : Event(c, w) \in committed' => w = v
  <2> SUFFICES ASSUME NEW w \in EventStatus, Event(c, w) \in committed' PROVE w = v
    OBVIOUS
  <2>1. Event(c, w).table = "webhook_events" /\ Event(c, w).val = w /\ Event(c, v).val = v
    BY <1>3, EventIsRow
  <2>2. Event(c, w) \notin inserted[c]
    BY <1>4, <2>1 DEF StageTables, LookupTables
  <2>3. w # "received" => Event(c, w) \notin committed
    BY <1>0 DEF EventInv, Settled
  <2>. QED
    BY <1>1, <2>1, <2>2, <2>3
<1>6. Event(c, v) \in committed' /\ v \in EventStatus
  BY <1>1, <1>3
<1>7. Stored(c)' <=> Stored(c)
  <2>1. /\ \A r \in committed' : r \in committed \/ r.table \in LookupTables
                                   \/ r.table = "webhook_events"
        /\ \A r \in committed : r.table # "webhook_events" => r \in committed'
    BY AroundPublishes
  <2>. QED
    BY <2>1 DEF Stored, InTable, LookupTables
<1>8. v = "processed" => Stored(c)
  BY <1>0 DEF EventInv, EventOnRecord
<1>9. v = "failed" => ~ Stored(c) \/ c \in OutageCalls
  BY <1>0 DEF CallInv, StoredInv
<1>10. v = "ignored" => ~ Stored(c)
  BY <1>0 DEF CallInv, StoredInv, Stored, Transactions, BeforeCommit
<1>. QED
  BY <1>2, <1>3, <1>5, <1>6, <1>7, <1>8, <1>9, <1>10 DEF EventInv, Processing, Settled

LEMMA SettleEvents ==
  ASSUME NEW c \in Deliveries, TypeInv, SessionInv, IndexInv, WholeInv, EventsInv,
         NormalizeOther(c) \/ PaymentProcessed(c) \/ PaymentFailed(c)
  PROVE  EventInv(c)'
<1>0. EventInv(c) /\ c \in Calls /\ AroundPayment(c)
  BY DeliveriesAreCalls DEF EventsInv, AroundPayment
<1>1. PICK v \in Settled :
        /\ SettleEvent(c, v)
        /\ v = "processed" => op[c] = "returned"
        /\ v = "failed" => op[c] = "raised"
        /\ v = "ignored" => op[c] = "normalize"
  BY DEF NormalizeOther, PaymentProcessed, PaymentFailed, Settled, EventStatus
<1>2. op[c] \in {"normalize", "returned", "raised"}
  BY DEF NormalizeOther, PaymentProcessed, PaymentFailed
<1>3. CASE ~ (session[c] = "active" /\ EventOnRecord(c))
  <2>1. op'[c] = "error" /\ committed' = committed
    BY <1>0, <1>1, <1>3 DEF SettleEvent, Close, Goto, TypeInv, TypeOK
  <2>. QED
    BY <1>0, <1>2, <2>1, BeforeSettling
<1>4. CASE session[c] = "active" /\ EventOnRecord(c)
  <2>1. op'[c] = "accepted" /\ CommitWork(c, {Event(c, v)}, {Event(c, "received")})
    BY <1>0, <1>1, <1>4 DEF SettleEvent, Goto, TypeInv, TypeOK
  <2>. QED
    BY <1>0, <1>1, <1>2, <1>4, <2>1, SettledEvents
<1>. QED
  BY <1>3, <1>4

(* A delivery that an outage ends.                                          *)
LEMMA OutageEvents ==
  ASSUME NEW c \in Deliveries, TypeInv, SessionInv, IndexInv, WholeInv, DeliverySession,
         EventsInv, EventOutage(c)
  PROVE  EventInv(c)'
<1>0. EventInv(c) /\ c \in Calls /\ AroundPayment(c) /\ deleted[c] = {}
  BY DeliveriesAreCalls DEF EventsInv, AroundPayment, SessionInv
<1>1. op'[c] = "error" /\ op[c] \in {"check", "store", "normalize", "returned", "raised"}
  BY <1>0, EventOutageKinds DEF Goto, TypeInv, TypeOK
<1>2. CASE Close(c)
  BY <1>0, <1>1, <1>2, BeforeSettling DEF Close
<1>3. CASE op[c] = "store" /\ CommitWork(c, {Event(c, "received")}, {})
  <2>1. committed' = committed \cup {Event(c, "received")}
    BY <1>0, <1>3 DEF CommitWork, Publish, DeliverySession
  <2>2. \A v \in Settled : Event(c, v) # Event(c, "received")
    BY EventIsRow DEF Settled, EventStatus
  <2>. QED
    BY <1>0, <1>1, <2>1, <2>2, BeforeSettling
<1>4. ASSUME NEW v \in Outcomes(c),
             EventOnRecord(c), CommitWork(c, {Event(c, v)}, {Event(c, "received")})
      PROVE  EventInv(c)'
  BY <1>0, <1>1, <1>4, OutcomeKinds, SettledEvents
<1>. QED
  BY <1>2, <1>3, <1>4, EventOutageKinds

LEMMA AroundEvents ==
  ASSUME NEW c \in Deliveries, TypeInv, SessionInv, IndexInv, WholeInv, DeliverySession,
         EventsInv, AroundPayment(c)
  PROVE  EventsInv'
<1>0. EventInv(c) /\ c \in Calls /\ deleted[c] = {}
  BY DeliveriesAreCalls DEF EventsInv, SessionInv
<1>1. CASE RefuseWebhook(c) \/ ReceiveWebhook(c) \/ NormalizeRaises(c)
  <2>1. /\ op[c] \in {"idle", "normalize"} /\ op'[c] \in {"refused", "check", "error"}
        /\ committed' = committed
    BY <1>0, <1>1 DEF RefuseWebhook, ReceiveWebhook, NormalizeRaises, Goto, TypeInv, TypeOK
  <2>. QED
    BY <1>0, <2>1, BeforeSettling, AroundOthers DEF EventsInv
<1>2. CASE CheckDuplicate(c)
  <2>1. op[c] = "check" /\ committed' = committed /\ inserted[c] = {}
    BY <1>2 DEF CheckDuplicate, DeliverySession
  <2>2. Visible(c) = committed
    BY <1>0, <2>1 DEF Visible
  <2>3. \/ op'[c] = "store"
        \/ op'[c] = "duplicate" /\ Holds(committed', "webhook_events", EventOf[c])
    BY <1>0, <1>2, <2>1, <2>2 DEF CheckDuplicate, Goto, TypeInv, TypeOK
  <2>. QED
    BY <1>0, <2>1, <2>3, BeforeSettling, AroundOthers DEF EventsInv
<1>3. CASE StoreEvent(c)
  <2>1. op[c] = "store" /\ inserted[c] = {} /\ "received" \in EventStatus
    BY <1>3 DEF StoreEvent, DeliverySession, EventStatus
  <2>2. \/ op'[c] = "error" /\ committed' = committed
        \/ op'[c] = "normalize" /\ committed' = committed \cup {Event(c, "received")}
    BY <1>0, <1>3, <2>1 DEF StoreEvent, Close, CommitWork, Publish, Goto, TypeInv, TypeOK
  <2>3. \A v \in Settled : Event(c, v) # Event(c, "received")
    BY EventIsRow DEF Settled, EventStatus
  <2>4. EventInv(c)'
    BY <1>0, <2>1, <2>2, <2>3, BeforeSettling
  <2>. QED
    BY <2>4, AroundOthers DEF EventsInv
<1>4. CASE NormalizeOther(c) \/ PaymentProcessed(c) \/ PaymentFailed(c)
  BY <1>4, SettleEvents, AroundOthers DEF EventsInv
<1>5. CASE EventOutage(c)
  BY <1>5, OutageEvents, AroundOthers DEF EventsInv
<1>. QED
  BY <1>1, <1>2, <1>3, <1>4, <1>5 DEF AroundPayment

LEMMA NormalizePaymentEvents ==
  ASSUME NEW d \in Deliveries, TypeInv, EventsInv, NormalizePayment(d)
  PROVE  EventsInv'
<1>0. d \in Calls /\ UNCHANGED <<committed, resets>>
      /\ op[d] = "normalize" /\ op'[d] = "lookup" /\ \A c \in Calls \ {d} : op'[c] = op[c]
  BY DeliveriesAreCalls DEF NormalizePayment, Start, Goto, TypeInv, TypeOK
<1>1. ASSUME NEW c \in Deliveries PROVE EventInv(c)'
  <2>0. EventInv(c) /\ c \in Calls /\ Stored(c)' = Stored(c)
    BY <1>0, DeliveriesAreCalls DEF EventsInv, Stored
  <2>1. CASE c # d
    BY <1>0, <2>0, <2>1, FrameEvent
  <2>2. CASE c = d
    <3>1. \A v : Event(c, v)' = Event(c, v)
      BY DEF Event
    <3>2. Processing(c) /\ op'[c] = "lookup" /\ op[c] = "normalize"
      BY <1>0, <2>2 DEF Processing
    <3>. QED
      BY <1>0, <2>0, <3>1, <3>2 DEF EventInv
  <2>. QED
    BY <2>1, <2>2
<1>. QED
  BY <1>1 DEF EventsInv

(* A reset removes transactions and events at once, in its commit.          *)
LEMMA ResetEvents ==
  ASSUME TypeInv, SessionInv, WholeInv, EventsInv, ResetLabels \/ AdminStep \/ ResetOutage
  PROVE  EventsInv'
<1> SUFFICES ASSUME NEW c \in Deliveries PROVE EventInv(c)'
  BY DEF EventsInv
<1>0. EventInv(c)
  BY DEF EventsInv
<1>1. UNCHANGED callVars /\ resets \in Nat /\ resets' \in {resets, resets + 1}
  BY DEF ResetLabels, AdminStep, ResetEvaluations, ResetTransactions, ResetFails, ResetFinish,
         ResetOutage, AdminDeletes, TypeInv, TypeOK
<1>2. CASE UNCHANGED committed
  <2>1. Stored(c)' = Stored(c) /\ (resets' = 0 => resets = 0)
    BY <1>1, <1>2 DEF Stored
  <2>. QED
    BY <1>0, <1>1, <1>2, <2>1, FrameEvent
<1>3. CASE ResetFinish
  <2>1. resets' # 0
    BY <1>3 DEF ResetFinish, WholeInv, AdminInv
  <2>2. \A r \in committed' : r.table # "webhook_events"
    BY <1>3, CallsAreIds DEF ResetFinish, CommitWork, Publish, SessionInv, InTable
  <2>3. \A v \in EventStatus : Event(c, v)' \notin committed'
    BY <2>2, EventIsRow DEF Event
  <2>4. Settled \subseteq EventStatus
          /\ {"received", "processed", "failed", "ignored"} \subseteq EventStatus
    BY DEF Settled, EventStatus
  <2>. QED
    BY <2>1, <2>3, <2>4 DEF EventInv
<1>4. ResetFinish \/ UNCHANGED committed
  BY DEF ResetLabels, AdminStep, ResetEvaluations, ResetTransactions, ResetFails, ResetOutage,
         AdminDeletes, Stage, Close
<1>. QED
  BY <1>2, <1>3, <1>4

(* A delivery the crash interrupts is in neither of the states the events   *)
(* are promised for; one that was answered stays as it is.                  *)
LEMMA CrashEvents ==
  ASSUME TypeInv, EventsInv, Crash
  PROVE  EventsInv' /\ DeliverySession'
<1>1. committed' = committed /\ resets' = resets
  BY DEF Crash, CloseAll
<1>2. ASSUME NEW c \in Deliveries
      PROVE  op'[c] = "lost" \/ (op'[c] = op[c] /\ ~ InFlight(c))
  <2>1. op'[c] = IF InFlight(c) THEN "lost" ELSE op[c]
    BY DeliveriesAreCalls DEF Crash
  <2>. QED
    BY <2>1
<1>3. ASSUME NEW c \in Deliveries PROVE EventInv(c)'
  <2>1. EventInv(c) /\ Stored(c)' = Stored(c)
    BY <1>1 DEF EventsInv, Stored
  <2>2. CASE op'[c] = op[c]
    BY <1>1, <2>1, <2>2, FrameEvent
  <2>3. CASE op'[c] = "lost" /\ op[c] \notin {"accepted", "error"}
    <3>1. \A v : Event(c, v)' = Event(c, v)
      BY DEF Event
    <3>2. ~ Processing(c)'
      BY <2>3 DEF Processing
    <3>. QED
      BY <1>1, <2>1, <2>3, <3>1, <3>2 DEF EventInv
  <2>4. op'[c] = "lost" /\ op[c] \in {"accepted", "error"} => op'[c] = op[c]
    <3>1. op[c] \in {"accepted", "error"} => ~ InFlight(c)
      BY DEF InFlight, FinalOps
    <3>2. op'[c] = IF InFlight(c) THEN "lost" ELSE op[c]
      BY DeliveriesAreCalls DEF Crash
    <3>. QED
      BY <3>1, <3>2
  <2>. QED
    BY <1>2, <2>2, <2>3, <2>4
<1>4. DeliverySession'
  BY DeliveriesAreCalls DEF Crash, CloseAll, DeliverySession
<1>. QED
  BY <1>3, <1>4 DEF EventsInv

(***************************************************************************)
(* The invariant of the payment API and the router on one database.         *)
(***************************************************************************)
RouterInv ==
  /\ TypeInv /\ SessionInv /\ IndexInv /\ TrainingInv /\ WholeInv
  /\ DeliverySession /\ EventsInv

LEMMA InitRouterInv == Init => RouterInv
<1>1. Init => TrainingInv
  BY CallsAreIds DEF Init, ServiceInit, StoreInit, TrainingInv
<1>. QED
  BY <1>1, InitTypeInv, InitSessionInv, InitIndexInv, InitWholeInv, InitEvents DEF RouterInv

(* Calls other than a delivery leave its session alone.                     *)
LEMMA CallDeliverySession ==
  ASSUME NEW d \in Calls, TypeInv, DeliverySession,
         (d \notin Deliveries /\ (CreatePayment(d) \/ CallAct(d))) \/ RunPayment(d) \/ PaymentOutage(d)
  PROVE  DeliverySession'
<1> SUFFICES ASSUME NEW c \in Deliveries, op'[c] \in {"check", "store", "normalize"}
             PROVE  inserted'[c] = {}
  BY DEF DeliverySession
<1>0. c \in Calls /\ c \in Sessions
  BY DeliveriesAreCalls
<1>1. CASE c # d
  BY <1>0, <1>1
  DEF DeliverySession, CreatePayment, Start, CallAct, CallStep, RunPayment, ProcessPayment, Lookup,
      InsertOk, Advance, InsertRaises, Evaluate, EvaluateRaises, Commit, Refresh, AnswerCreated,
      AnswerError, PaymentOutage, Outage, NoConnection, ConnectionLost, ConnectionLostLate, Goto,
      Stage, FlushFails, CommitWork, CommitUnheard, Publish, Close, TypeInv, TypeOK, StoreTypeOK
<1>2. CASE c = d
  <2>1. RunPayment(c) \/ PaymentOutage(c)
    BY <1>2
  <2>2. op'[c] \in {"lookup", "insert", "evaluate", "commit", "refresh", "returned", "raised"}
    BY <1>0, <2>1
    DEF RunPayment, ProcessPayment, Lookup, InsertOk, Advance, NextOp, InsertRaises, Evaluate,
        EvaluateRaises, Commit, Refresh, PaymentOutage, Outage, Goto, TypeInv, TypeOK
  <2>. QED
    BY <2>2
<1>. QED
  BY <1>1, <1>2

LEMMA NextRouterInv == RouterInv /\ [RouterNext]_vars => RouterInv'
<1> SUFFICES ASSUME RouterInv, [RouterNext]_vars PROVE RouterInv'
  OBVIOUS
<1> USE DEF RouterInv
<1>0. ApiCalls \subseteq Calls /\ \A c \in ApiCalls : c \notin Deliveries
  BY ApiAssumption, DeliveriesAreCalls
<1>1. [Next]_vars => TypeInv' /\ SessionInv' /\ IndexInv' /\ TrainingInv' /\ WholeInv'
  BY NextTypeInv, NextSessionInv, NextIndexInv, NextTrainingInv, NextWholeInv
<1>2. ASSUME NEW c \in ApiCalls, CreatePayment(c) \/ CallAct(c) PROVE RouterInv'
  <2>1. Next
    BY <1>2 DEF Next, CallAct
  <2>2. c \in Calls /\ c \notin Deliveries
    BY <1>0
  <2>3. EventsInv'
    BY <1>2, <2>2, PaymentEvents
  <2>4. DeliverySession'
    BY <1>2, <2>2, CallDeliverySession
  <2>. QED
    BY <1>1, <2>1, <2>3, <2>4
<1>3. CASE ResetLabels \/ AdminStep \/ ResetOutage
  <2>1. Next
    BY <1>3 DEF Next
  <2>2. UNCHANGED callVars /\ \A c \in Deliveries : inserted'[c] = inserted[c]
    BY <1>3, DeliveriesAreCalls
    DEF ResetLabels, AdminStep, ResetEvaluations, ResetTransactions, ResetFails, ResetFinish,
        ResetOutage, AdminDeletes, Stage, Close, CommitWork, Publish, TypeInv, TypeOK, StoreTypeOK
  <2>3. DeliverySession'
    BY <2>2 DEF DeliverySession
  <2>. QED
    BY <1>1, <1>3, <2>1, <2>3, ResetEvents
<1>4. CASE Crash
  <2>1. Next
    BY <1>4 DEF Next
  <2>. QED
    BY <1>1, <1>4, <2>1, CrashEvents
<1>5. CASE UNCHANGED vars
  <2>1. DeliverySession'
    BY <1>5 DEF vars, DeliverySession
  <2>2. ASSUME NEW c \in Deliveries PROVE EventInv(c)'
    <3>1. EventInv(c) /\ Stored(c)' = Stored(c)
      BY <1>5 DEF EventsInv, vars, Stored
    <3>. QED
      BY <1>5, <3>1, FrameEvent DEF vars
  <2>. QED
    BY <1>1, <1>5, <2>1, <2>2 DEF EventsInv
<1>6. ASSUME NEW c \in Deliveries, AroundPayment(c) PROVE RouterInv'
  BY <1>6, AroundType, AroundSession, AroundIndex, AroundTraining, AroundWhole, AroundEvents
<1>7. ASSUME NEW c \in Deliveries, NormalizePayment(c) PROVE RouterInv'
  BY <1>7, NormalizePaymentKeeps, NormalizePaymentEvents
<1>8. ASSUME NEW c \in Deliveries, RunPayment(c) \/ PaymentOutage(c) PROVE RouterInv'
  <2>1. c \in Calls /\ CallAct(c)
    BY <1>8, DeliveriesAreCalls DEF CallStep, CallAct
  <2>2. DeliverySession'
    BY <1>8, <2>1, CallDeliverySession
  <2>3. EventsInv'
    BY <1>8, <2>1, PaymentEvents
  <2>. QED
    BY <2>1, <2>2, <2>3, CallType, CallSession, CallIndex, CallTraining, CallWhole
<1>. QED
  BY <1>2, <1>3, <1>4, <1>5, <1>6, <1>7, <1>8
  DEF RouterNext, Next, WebhookStep, AroundPayment, CallAct, Finished

LEMMA SpecRouterInv == RouterSpec => []RouterInv
  BY InitRouterInv, NextRouterInv, PTL DEF RouterSpec

(* However often, and however simultaneously, a provider delivers an event, *)
(* at most one delivery acts on it before the first reset                   *)
(* (router.py:86-104).                                                      *)
THEOREM EventsOnce == RouterSpec => []EventProcessedOnce
<1>1. RouterInv => EventProcessedOnce
  <2> SUFFICES ASSUME RouterInv, resets = 0, NEW c \in Deliveries, NEW d \in Deliveries,
                      EventOf[c] = EventOf[d], Processing(c), Processing(d)
               PROVE  c = d
    BY DEF EventProcessedOnce
  <2>1. PICK v \in EventStatus, w \in EventStatus :
          Event(c, v) \in committed /\ Event(d, w) \in committed
    BY DEF RouterInv, EventsInv, EventInv
  <2>2. Event(c, v) = Event(d, w)
    BY <2>1, EventIsRow DEF RouterInv, IndexInv, UniqueIndexes
  <2>. QED
    BY <2>2, EventIsRow
<1>. QED
  BY SpecRouterInv, <1>1, PTL

(* The status on record is true of the payment, whatever crash, reset or    *)
(* failed flush falls between the payment's commit and the status update    *)
(* (router.py:110-126); only an outage after the payment's commit can leave *)
(* "failed" beside it (payment_service.py:113-114).                         *)
THEOREM StatusTrue == RouterSpec => []EventStatusTruthful
<1>1. RouterInv => EventStatusTruthful
  BY DEF RouterInv, EventsInv, EventInv, EventStatusTruthful
<1>. QED
  BY SpecRouterInv, <1>1, PTL

(* An acknowledgement means that the event is on record and, for the        *)
(* delivery that did the work, settled (router.py:95-127).                  *)
THEOREM AcknowledgedRecorded == RouterSpec => []AcknowledgedOnRecord
<1>1. RouterInv => AcknowledgedOnRecord
  BY DEF RouterInv, EventsInv, EventInv, AcknowledgedOnRecord, Settled
<1>. QED
  BY SpecRouterInv, <1>1, PTL

(* The router beside the API keeps what the API promises: types, unique     *)
(* indexes, no wait cycle, whole payments and the training set, although a  *)
(* failed payment of a delivery leaves the customer, merchant and device it *)
(* had flushed to the commit of the event's status (router.py:112-126).     *)
THEOREM RouterKeepsPayments ==
  RouterSpec => [](TypeOK /\ UniqueIndexes /\ NoWaitCycle /\ PaymentsWhole /\ TrainingPreserved)
<1>1. RouterInv => TypeOK /\ UniqueIndexes /\ NoWaitCycle /\ PaymentsWhole /\ TrainingPreserved
  BY NoCycle, WholeIsPaymentsWhole
  DEF RouterInv, TypeInv, IndexInv, TrainingInv, TrainingPreserved
<1>. QED
  BY SpecRouterInv, <1>1, PTL

(***************************************************************************)
(* The refinement.  What process_payment does for a delivery it does as for *)
(* a call of the API; the steps around it only answer the delivery.         *)
(***************************************************************************)
LEMMA LedgersAgree ==
  /\ Ledger!LedgerNext => EventLedger!WebhookLedgerNext
  /\ UNCHANGED Ledger!ledgerVars => UNCHANGED EventLedger!ledgerVars
  /\ Ledger!LedgerInit => EventLedger!LedgerInit
<1>1. Ledger!LedgerNext => EventLedger!LedgerNext
  BY DEF Ledger!LedgerNext, EventLedger!LedgerNext, Ledger!Accept, EventLedger!Accept,
         Ledger!Fail, EventLedger!Fail, Ledger!AnswerOk, EventLedger!AnswerOk,
         Ledger!AnswerFailure, EventLedger!AnswerFailure, Ledger!Lose, EventLedger!Lose,
         Ledger!Clear, EventLedger!Clear, Ledger!Become, EventLedger!Become,
         Ledger!Unanswered, EventLedger!Unanswered
<1>2. UNCHANGED Ledger!ledgerVars => UNCHANGED EventLedger!ledgerVars
  BY DEF Ledger!ledgerVars, EventLedger!ledgerVars
<1>3. Ledger!LedgerInit => EventLedger!LedgerInit
  BY DEF Ledger!LedgerInit, EventLedger!LedgerInit
<1>. QED
  BY <1>1, <1>2, <1>3 DEF EventLedger!WebhookLedgerNext

(* The commits of a delivery's event leave the ledger as it is.             *)
LEMMA AroundLedger ==
  ASSUME NEW c \in Deliveries, TypeInv, SessionInv, WholeInv, AroundPayment(c)
  PROVE  LedgerOf(committed') = LedgerOf(committed)
<1>1. \A t \in ByTransaction \cup {"transactions"} : \A r :
        r.table = t => (r \in committed' <=> r \in committed)
  <2>1. \A t \in ByTransaction \cup {"transactions"} : t # "webhook_events" /\ t \notin LookupTables
    BY DEF ByTransaction, LookupTables
  <2>. QED
    BY <2>1, AroundPublishes
<1>2. InTable(committed', "transactions") = InTable(committed, "transactions")
  BY <1>1 DEF InTable
<1>3. \A i : Holds(committed', "risk_evaluations", i) <=> Holds(committed, "risk_evaluations", i)
  BY <1>1 DEF Holds, ByTransaction
<1>. QED
  BY <1>2, <1>3 DEF LedgerOf

LEMMA AroundRefines ==
  ASSUME NEW c \in Deliveries, TypeInv, SessionInv, WholeInv, AroundPayment(c)
  PROVE  EventLedger!WebhookLedgerNext \/ UNCHANGED EventLedger!ledgerVars
<1>1. c \in Calls /\ LedgerOf(committed') = LedgerOf(committed)
  BY DeliveriesAreCalls, AroundLedger
<1>2. PICK o \in {"refused", "check", "duplicate", "store", "error", "normalize", "accepted"} :
        Goto(c, o)
  BY AroundPaymentEffect
<1>3. op[c] \in {"idle", "check", "store", "normalize", "returned", "raised"}
      /\ (op'[c] \in BeforeCommit => op[c] \in BeforeCommit)
  BY AroundPaymentEffect
<1>4. op'[c] = o
  BY <1>1, <1>2 DEF Goto, TypeInv, TypeOK
<1>5. CASE o \in {"check", "store", "normalize"}
  <2>1. op[c] \in {"idle", "check", "store", "normalize"}
    BY <1>3, <1>4, <1>5 DEF BeforeCommit
  <2>2. StatusOf(o) = StatusOf(op[c])
    BY <1>5, <2>1 DEF StatusOf
  <2>. QED
    BY <1>1, <1>2, <2>2, SameStatus DEF EventLedger!ledgerVars, AbstractStatus
<1>6. CASE o \in {"refused", "duplicate", "error", "accepted"}
  <2>1. StatusOf(o) \in {"answered", "error"} /\ StatusOf(op[c]) \in {"open", "stored", "failed"}
    BY <1>3, <1>6 DEF StatusOf
  <2>2. /\ AbstractStatus' = [AbstractStatus EXCEPT ![c] = StatusOf(o)]
        /\ AbstractStatus[c] = StatusOf(op[c])
    BY <1>1, <1>2, CallMoves
  <2>3. EventLedger!AnswerDelivery(c)
    BY <1>1, <2>1, <2>2
    DEF EventLedger!AnswerDelivery, EventLedger!Unanswered, AbstractStatus
  <2>. QED
    BY <2>3 DEF EventLedger!WebhookLedgerNext
<1>. QED
  BY <1>5, <1>6

(* Deliveries and API calls, through crashes, resets, failed flushes and    *)
(* lost connections, store payments as one ledger would (router.py:95-127). *)
THEOREM RouterRefinesLedger == RouterSpec => RouterImplementsLedger
<1>1. Init => EventLedger!LedgerInit
  BY LedgersAgree DEF Init, ServiceInit, StoreInit, Ledger!LedgerInit, StatusOf
<1>2. RouterInv /\ RouterInv' /\ [RouterNext]_vars
        => [EventLedger!WebhookLedgerNext]_(EventLedger!ledgerVars)
  <2> SUFFICES ASSUME RouterInv, RouterInv', [RouterNext]_vars
               PROVE  EventLedger!WebhookLedgerNext \/ UNCHANGED EventLedger!ledgerVars
    OBVIOUS
  <2> USE DEF RouterInv
  <2>0. ApiCalls \subseteq Calls /\ Deliveries \subseteq Calls
    BY ApiAssumption, DeliveriesAreCalls
  <2>1. ASSUME NEW c \in Calls, Start(c), op[c] \in {"idle", "normalize"}
        PROVE  UNCHANGED Ledger!ledgerVars
    <3>1. /\ UNCHANGED committed /\ Goto(c, "lookup")
          /\ StatusOf("lookup") = StatusOf(op[c])
      BY <2>1 DEF Start, StatusOf
    <3>. QED
      BY <3>1, SameStatus DEF Ledger!ledgerVars, AbstractStatus, LedgerOf
  <2>2. ASSUME NEW c \in Calls, CallAct(c)
        PROVE  Ledger!LedgerNext \/ UNCHANGED Ledger!ledgerVars
    BY <2>2, CallRefines
  <2>3. CASE ResetLabels \/ AdminStep \/ ResetOutage
    BY <2>3, ResetRefines, LedgersAgree
  <2>4. CASE Crash
    BY <2>4, CrashRefines, LedgersAgree
  <2>5. CASE UNCHANGED vars
    BY <2>5, LedgersAgree DEF vars, Ledger!ledgerVars, LedgerOf
  <2>6. ASSUME NEW c \in ApiCalls, CreatePayment(c) \/ CallAct(c)
        PROVE  EventLedger!WebhookLedgerNext \/ UNCHANGED EventLedger!ledgerVars
    BY <2>0, <2>1, <2>2, <2>6, LedgersAgree DEF CreatePayment
  <2>7. ASSUME NEW c \in Deliveries, NormalizePayment(c) \/ RunPayment(c) \/ PaymentOutage(c)
        PROVE  EventLedger!WebhookLedgerNext \/ UNCHANGED EventLedger!ledgerVars
    BY <2>0, <2>1, <2>2, <2>7, LedgersAgree DEF NormalizePayment, CallStep, CallAct
  <2>8. ASSUME NEW c \in Deliveries, AroundPayment(c)
        PROVE  EventLedger!WebhookLedgerNext \/ UNCHANGED EventLedger!ledgerVars
    BY <2>8, AroundRefines
  <2>. QED
    BY <2>3, <2>4, <2>5, <2>6, <2>7, <2>8
    DEF RouterNext, Next, WebhookStep, AroundPayment, CallAct, Finished
<1>. QED
  BY <1>1, <1>2, SpecRouterInv, PTL
  DEF RouterSpec, RouterImplementsLedger, EventLedger!WebhookLedgerSpec

=============================================================================
