----------------------------- MODULE PaymentsApi -----------------------------
(***************************************************************************)
(* backend/app/api/endpoints/payments.py around process_payment: POST       *)
(* /payments and the admin's DELETE /payments/admin/reset-data, in one      *)
(* server process that may die and be restarted at any moment.              *)
(***************************************************************************)
EXTENDS PaymentService, Naturals

CONSTANTS
  ApiCalls,      \* the calls that arrive at POST /payments
  Admin,         \* the session of reset_data
  TrainingIds,   \* the transactions of the training set
  MaxResets,     \* bound: how often the admin resets
  MaxCrashes     \* bound: how often the server dies

ASSUME ApiAssumption ==
  /\ ApiCalls \subseteq Calls
  /\ Admin \in Sessions /\ Admin \notin Calls
  /\ TrainingIds \subseteq Ids /\ TrainingIds \cap Calls = {}
  /\ MaxResets \in Nat /\ MaxCrashes \in Nat

InTable(rows, t) == {r \in rows : r.table = t}

Labelled(rows) == {r.key : r \in InTable(rows, "ground_truth")}

(* The training set as the dataset scripts load it: rows of its own keys,   *)
(* every transaction and every evaluation under a label that is not the     *)
(* label of a background seed, evaluations and labels of its own            *)
(* transactions only, and no webhook events.                                *)
ASSUME TrainingAssumption ==
  /\ InitialRows \subseteq [table : Table \ {"webhook_events"},
                            key : Keys \cup TrainingIds,
                            id : TrainingIds, val : Val \ {"background_seed"}]
  /\ \A r1, r2 \in InitialRows : r1.table = r2.table /\ r1.key = r2.key => r1 = r2
  /\ \A r \in InitialRows :
       /\ r.table = "transactions" => r.id \in Labelled(InitialRows)
       /\ r.table = "risk_evaluations" => r.key \in Labelled(InitialRows)
       /\ r.table \in {"risk_evaluations", "ground_truth"} =>
            /\ r.key \in TrainingIds
            /\ \E x \in InTable(InitialRows, "transactions") : x.id = r.key

VARIABLES
  admin,         \* the next statement of reset_data
  resets,        \* how many resets have begun
  crashes        \* how many times the server has died

adminVars == <<admin, resets, crashes>>
vars == <<storeVars, callVars, adminVars>>

(***************************************************************************)
(* POST /payments.                                                         *)
(***************************************************************************)
CreatePayment(c) ==
  /\ op[c] = "idle"
  /\ Start(c)
  /\ UNCHANGED adminVars

RunPayment(c) == ProcessPayment(c) /\ UNCHANGED adminVars

PaymentOutage(c) == Outage(c) /\ UNCHANGED adminVars

(* 201 with the stored transaction.                                         *)
AnswerCreated(c) ==
  /\ op[c] = "returned"
  /\ Goto(c, "created")
  /\ Close(c)
  /\ UNCHANGED <<tab, decision, adminVars>>

(* An exception leaves through get_db, which closes the session; the client *)
(* gets a 500.                                                              *)
AnswerError(c) ==
  /\ op[c] = "raised"
  /\ Goto(c, "error")
  /\ Close(c)
  /\ UNCHANGED <<tab, decision, adminVars>>

CallStep(c) == RunPayment(c) \/ AnswerCreated(c) \/ AnswerError(c)

(***************************************************************************)
(* reset_data: three DELETEs, two TRUNCATEs and a commit in one             *)
(* transaction, each statement with a snapshot of its own.                  *)
(***************************************************************************)
(* Fault: the label is looked for under the external transaction id.        *)
UnlabelledByKey(rows) ==
  {r \in InTable(rows, "transactions") : r.key \notin Labelled(rows)}

Unlabelled(rows) == {r \in InTable(rows, "transactions") : r.id \notin Labelled(rows)}

AdminDeletes(rows, next) ==
  /\ Stage(Admin, {}, rows)
  /\ admin' = next
  /\ UNCHANGED <<callVars, resets, crashes>>

ResetLabels ==
  /\ admin = "idle" /\ resets < MaxResets
  /\ Stage(Admin, {}, {r \in InTable(committed, "ground_truth") : r.val = "background_seed"})
  /\ admin' = "evaluations"
  /\ resets' = resets + 1
  /\ UNCHANGED <<callVars, crashes>>

ResetEvaluations ==
  /\ admin = "evaluations"
  /\ LET rows == Visible(Admin)
         ids == {r.id : r \in Unlabelled(rows)}
     IN AdminDeletes({r \in InTable(rows, "risk_evaluations") : r.key \in ids},
                     "transactions")

(* Transactions still referenced by an evaluation the admin has not deleted. *)
Referenced(rows, ids) == \E r \in InTable(rows, "risk_evaluations") : r.key \in ids

ResetTransactions ==
  /\ admin = "transactions"
  /\ LET rows == Visible(Admin)
         doomed == Unlabelled(rows)
     IN /\ ~ Referenced(rows, {r.id : r \in doomed})
        /\ AdminDeletes(doomed, "truncate")

(* Fault: the reset is retried after a foreign key violation.               *)
ResetRetries ==
  /\ admin = "transactions"
  /\ LET rows == Visible(Admin)
     IN Referenced(rows, {r.id : r \in Unlabelled(rows)})
  /\ Close(Admin)
  /\ UNCHANGED <<callVars, adminVars>>

(* A payment committed since the previous statement: foreign key violation, *)
(* the reset is rolled back and answered 500.                               *)
ResetFails ==
  /\ admin = "transactions"
  /\ LET rows == Visible(Admin)
     IN Referenced(rows, {r.id : r \in Unlabelled(rows)})
  /\ Close(Admin)
  /\ admin' = "idle"
  /\ UNCHANGED <<callVars, resets, crashes>>

(* TRUNCATE waits for every transaction that has read webhook_events.       *)
ResetFinish ==
  /\ admin = "truncate"
  /\ \A c \in Calls : op[c] # "store"
  /\ CommitWork(Admin, {}, InTable(committed, "webhook_events"))
  /\ admin' = "idle"
  /\ UNCHANGED <<callVars, resets, crashes>>

(* The connection of reset_data is lost: rolled back and answered 500.      *)
ResetOutage ==
  /\ admin # "idle"
  /\ Close(Admin)
  /\ admin' = "idle"
  /\ UNCHANGED <<callVars, resets, crashes>>

AdminStep == ResetEvaluations \/ ResetTransactions \/ ResetFails \/ ResetFinish

(***************************************************************************)
(* The process dies: nobody in flight gets an answer.                       *)
(***************************************************************************)
Crash ==
  /\ crashes < MaxCrashes
  /\ crashes' = crashes + 1
  /\ CloseAll
  /\ op' = [c \in Calls |-> IF InFlight(c) THEN "lost" ELSE op[c]]
  /\ admin' = "idle"
  /\ UNCHANGED <<tab, decision, resets>>

(* Nothing is running: the system may rest here.                            *)
Finished ==
  /\ \A c \in Calls : ~ InFlight(c)
  /\ admin = "idle"
  /\ UNCHANGED vars

Init == ServiceInit /\ admin = "idle" /\ resets = 0 /\ crashes = 0

Next ==
  \/ \E c \in ApiCalls : CreatePayment(c) \/ CallStep(c) \/ PaymentOutage(c)
  \/ ResetLabels \/ AdminStep \/ ResetOutage
  \/ Crash
  \/ Finished

Fairness == WF_vars(AdminStep) /\ \A c \in ApiCalls : WF_vars(CallStep(c))

Spec == Init /\ [][Next]_vars

FairSpec == Spec /\ Fairness

(***************************************************************************)
(* Properties.                                                             *)
(***************************************************************************)
(* Every variable stays in its range.                                       *)
TypeOK ==
  /\ StoreTypeOK
  /\ op \in [Calls -> Ops]
  /\ tab \in [Calls -> StageTables]
  /\ decision \in [Calls -> Decisions \cup {"none"}]
  /\ admin \in {"idle", "evaluations", "transactions", "truncate"}
  /\ resets \in 0..MaxResets
  /\ crashes \in 0..MaxCrashes

(* No unique index of the committed database holds a key twice, whatever    *)
(* handlers ran their SELECT and their INSERT at the same time              *)
(* (payment_service.py:22-90).                                              *)
UniqueIndexes ==
  \A r1, r2 \in committed :
    r1.table = r2.table /\ r1.key = r2.key => r1 = r2

(* The parties call c named are stored, under the key it sent or under its  *)
(* sanitised form.                                                          *)
PartiesStored(c) ==
  \A t \in LookupTables :
    \/ RawKey[c][t] = NoKey
    \/ Holds(committed, t, RawKey[c][t])
    \/ Holds(committed, t, RowKey(c, t))

(* A payment is stored whole or not at all: its transaction comes with      *)
(* one evaluation, whose decision matches the stored status, and with       *)
(* the customer, merchant and device it refers to, and evaluations and      *)
(* labels never outlive their transaction -- through failed calls, crashes  *)
(* and resets (payment_service.py:72-112, payments.py:233-253).             *)
PaymentsWhole ==
  /\ \A r \in InTable(committed, "transactions") :
       r.id \in Calls =>
         /\ \E e \in InTable(committed, "risk_evaluations") :
              e.key = r.id /\ (e.val = "BLOCK" <=> r.val = "blocked")
         /\ PartiesStored(r.id)
  /\ \A r \in committed :
       r.table \in {"risk_evaluations", "ground_truth"} =>
         \E x \in InTable(committed, "transactions") : x.id = r.key

Stored(c) == \E r \in InTable(committed, "transactions") : r.id = c

(* A client that is answered 500, or nothing, either has its whole payment  *)
(* or has left no row at all, not even a customer, merchant or device -- as *)
(* long as nothing was reset -- and it has the payment behind a 500 only    *)
(* when an outage cost the answer of the commit or of the refresh after it  *)
(* (payment_service.py:112-114, payments.py:153-156, deps.py:5-7).          *)
ErrorAllOrNothing ==
  \A c \in ApiCalls :
    /\ op[c] \in {"raised", "error"} /\ Stored(c) => c \in OutageCalls
    /\ op[c] \in {"raised", "error", "lost"} /\ ~ Stored(c) /\ resets = 0
         => \A r \in committed : r.id # c

(* As long as nothing was reset, a client that is answered 201 has its      *)
(* payment, and of all the calls that carry one transaction id at most one  *)
(* is answered 201: retries and double clicks never create two payments     *)
(* (payment_service.py:74-90, models/transaction.py:12).                    *)
CreatedOnce ==
  resets = 0 =>
    \A c, d \in ApiCalls :
      op[c] = "created" =>
        /\ Stored(c)
        /\ op[d] = "created" /\ RowKey(c, "transactions") = RowKey(d, "transactions")
             => c = d

(* "ML training dataset preserved" (payments.py:230, 254): no reset, and no *)
(* payment committed between its statements, costs a training transaction,  *)
(* its label or its evaluation.                                             *)
TrainingPreserved == InitialRows \subseteq committed

(* Call c waits for an open transaction of call d.                          *)
WaitsFor(c, d) ==
  /\ op[c] = "insert"
  /\ WaitsOn(c, d, tab[c], RowKey(c, tab[c]))

(* Handlers waiting on each other's unique keys never form a cycle, because *)
(* all of them insert customer, merchant, device and transaction in that    *)
(* order (payment_service.py:19-90): in every set of calls one does not     *)
(* wait for another of the set.                                             *)
NoWaitCycle ==
  \A S \in (SUBSET Calls) \ {{}} : \E c \in S : \A d \in S : ~ WaitsFor(c, d)

(* Every request the server accepts is answered, or lost in a crash; no     *)
(* request waits forever on another's key or on a reset.                    *)
EveryCallAnswered ==
  \A c \in ApiCalls : op[c] # "idle" ~> op[c] \in FinalOps

(* A reset that has begun ends: with its commit or with its failure.        *)
EveryResetEnds == admin # "idle" ~> admin = "idle"

(***************************************************************************)
(* The endpoint implements PaymentLedger.  A payment is in the ledger when  *)
(* its transaction and its evaluation are committed.                        *)
(***************************************************************************)
LedgerOf(rows) ==
  {r.id : r \in {x \in InTable(rows, "transactions") : Holds(rows, "risk_evaluations", x.id)}}

StatusOf(o) ==
  CASE o \in {"refresh", "returned"} -> "stored"
    [] o = "raised" -> "failed"
    [] o \in {"created", "error", "lost"} -> o
    [] o \in {"accepted", "duplicate", "refused"} -> "answered"
    [] OTHER -> "open"

(* The transaction id of a stored or requested payment.                     *)
TransactionId ==
  [i \in Ids |-> IF i \in Calls THEN RowKey(i, "transactions")
                  ELSE (CHOOSE r \in InTable(InitialRows, "transactions") : r.id = i).key]

Ledger == INSTANCE PaymentLedger WITH
            TransactionOf <- TransactionId,
            Training <- LedgerOf(InitialRows),
            Unsure <- OutageCalls,
            ledger <- LedgerOf(committed),
            status <- [c \in Calls |-> StatusOf(op[c])]

(* Every step of the handlers, the admin and the crash is a step of the     *)
(* abstract ledger or changes nothing it can see: lookups, flushes, waits   *)
(* and rollbacks are invisible, the commit of payment_service.py:112 is the *)
(* one point where a payment comes into existence.                          *)
ImplementsLedger == Ledger!LedgerSpec

=============================================================================
