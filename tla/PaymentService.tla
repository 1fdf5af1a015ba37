--------------------------- MODULE PaymentService ---------------------------
(***************************************************************************)
(* process_payment of backend/app/services/payment_service.py: look up or   *)
(* insert the customer, the merchant and the device, evaluate the risk,     *)
(* insert the transaction, insert its evaluation and commit.  Each database *)
(* round trip is an await, so each is an action of its own.  A call runs    *)
(* once; a retry by the client is another call with the same keys.          *)
(***************************************************************************)
EXTENDS PaymentStore

CONSTANTS
  Calls,         \* the calls of process_payment
  RawKey,        \* RawKey[c][t]: the external key call c carries for table t
  Sanitized,     \* sanitize_string, on keys
  NoKey,         \* the key of a part of the payload that is absent
  SeedCalls,     \* calls whose payload has is_background_seed
  OversizeCalls, \* calls whose amount may not fit Numeric(10, 2)
  OutageCalls    \* calls that may find no connection or lose theirs

LookupTables == {"customers", "merchants", "devices"}
StageTables == LookupTables \cup {"transactions"}

ASSUME PayloadAssumption ==
  /\ Calls \subseteq Sessions /\ Calls \subseteq Ids
  /\ NoKey \notin Keys
  /\ RawKey \in [Calls -> [StageTables -> Keys \cup {NoKey}]]
  /\ \A c \in Calls, t \in StageTables \ {"devices"} : RawKey[c][t] # NoKey
  /\ Sanitized \in [Keys -> Keys]
  /\ SeedCalls \subseteq Calls /\ OversizeCalls \subseteq Calls
  /\ OutageCalls \subseteq Calls

VARIABLES
  op,        \* op[c]: the next step of call c, or how it ended
  tab,       \* tab[c]: the table that step is about
  decision   \* decision[c]: what the risk engine answered

callVars == <<op, tab, decision>>

(* "returned" and "raised" hand over to the endpoint that made the call;    *)
(* an operation in FinalOps is the answer its client got.                   *)
FinalOps == {"created", "accepted", "duplicate", "refused", "error", "lost"}
Ops == {"idle", "lookup", "insert", "evaluate", "commit", "refresh",
        "returned", "raised", "check", "store", "normalize"} \cup FinalOps

InFlight(c) == op[c] \notin {"idle"} \cup FinalOps

Goto(c, o) == op' = [op EXCEPT ![c] = o]

RowKey(c, t) == Sanitized[RawKey[c][t]]

(* Faults: a stage that is not one of the service's; background seeds that  *)
(* store the device before the merchant.                                    *)
ExtraTable(c, t) ==
  CASE t = "customers" -> "merchants"
    [] t = "merchants" -> "devices"
    [] t = "devices" -> "transactions"
    [] OTHER -> "risk_evaluations"

SeedDeviceFirst(c, t) ==
  CASE c \in SeedCalls /\ t = "customers" -> "devices"
    [] c \in SeedCalls /\ t = "devices" -> "merchants"
    [] t = "customers" -> "merchants"
    [] t = "merchants" /\ c \notin SeedCalls -> "devices"
    [] OTHER -> "transactions"

(* The step that follows the one on table t.                                *)
NextTable(c, t) ==
  CASE t = "customers" -> "merchants"
    [] t = "merchants" -> "devices"
    [] OTHER -> "transactions"

NextOp(t) ==
  CASE t = "transactions" -> "commit"
    [] t = "devices" -> "evaluate"
    [] OTHER -> "lookup"

Advance(c, t) ==
  /\ Goto(c, NextOp(t))
  /\ tab' = [tab EXCEPT ![c] = NextTable(c, t)]

Start(c) ==
  /\ Goto(c, "lookup")
  /\ tab' = [tab EXCEPT ![c] = "customers"]
  /\ UNCHANGED <<decision, storeVars>>

(* SELECT by the raw key; an absent device is skipped.                      *)
Lookup(c) ==
  /\ op[c] = "lookup"
  /\ LET t == tab[c] IN
       IF RawKey[c][t] = NoKey \/ Holds(Visible(c), t, RawKey[c][t])
         THEN Advance(c, t)
         ELSE Goto(c, "insert") /\ UNCHANGED tab
  /\ UNCHANGED <<decision, storeVars>>

(* The status the transaction is stored with.                               *)
FinalStatus(d) == IF d = "BLOCK" THEN "blocked" ELSE "completed"

StoredVal(c, t) == IF t = "transactions" THEN FinalStatus(decision[c]) ELSE "none"

(* add() and flush() of the customer, merchant, device or transaction.      *)
InsertOk(c) ==
  /\ op[c] = "insert"
  /\ LET t == tab[c] IN
       /\ ~ MustWait(c, t, RowKey(c, t))
       /\ ~ Duplicate(c, t, RowKey(c, t))
       /\ Stage(c, {NewRow(t, RowKey(c, t), c, StoredVal(c, t))}, {})
       /\ Advance(c, t)
  /\ UNCHANGED decision

(* The same flush raising IntegrityError or DataError.                      *)
InsertRaises(c) ==
  /\ op[c] = "insert"
  /\ LET t == tab[c] IN
       \/ t = "transactions" /\ c \in OversizeCalls
       \/ ~ MustWait(c, t, RowKey(c, t)) /\ Duplicate(c, t, RowKey(c, t))
  /\ FlushFails(c)
  /\ Goto(c, "raised")
  /\ UNCHANGED <<tab, decision>>

(* evaluate_transaction, or the fixed result of a background seed.          *)
Evaluate(c) ==
  /\ op[c] = "evaluate"
  /\ \E d \in IF c \in SeedCalls THEN {"APPROVE"} ELSE Decisions :
       decision' = [decision EXCEPT ![c] = d]
  /\ Goto(c, "insert")
  /\ UNCHANGED <<tab, storeVars>>

(* Feature extraction is outside the engine's error handling and may raise  *)
(* without touching the session.                                            *)
EvaluateRaises(c) ==
  /\ op[c] = "evaluate" /\ c \notin SeedCalls
  /\ Goto(c, "raised")
  /\ UNCHANGED <<tab, decision, storeVars>>

(* Fault: a background seed is stored without its evaluation.               *)
UnscoredSeed(c) ==
  IF c \in SeedCalls
    THEN {NewRow("ground_truth", c, c, "background_seed")}
    ELSE {NewRow("risk_evaluations", c, c, decision[c])}

(* The rows added between the last flush and commit().                      *)
ClosingRows(c) ==
  {NewRow("risk_evaluations", c, c, decision[c])}
    \cup (IF c \in SeedCalls
            THEN {NewRow("ground_truth", c, c, "background_seed")} ELSE {})

Commit(c) ==
  /\ op[c] = "commit"
  /\ CommitWork(c, ClosingRows(c), {})
  /\ Goto(c, "refresh")
  /\ UNCHANGED <<tab, decision>>

(* Fault: refresh() also wants the label, which only background seeds have. *)
RefreshLabel(c) ==
  /\ op[c] = "refresh"
  /\ Goto(c, IF Holds(Visible(c), "ground_truth", c) THEN "returned" ELSE "raised")
  /\ UNCHANGED <<tab, decision, storeVars>>

(* refresh() of the transaction and its evaluation: raises when either row  *)
(* has been deleted since the commit; Outage has its other failures.        *)
Refresh(c) ==
  /\ op[c] = "refresh"
  /\ LET stored == {r \in Visible(c) : r.id = c} IN
       IF Holds(stored, "transactions", RowKey(c, "transactions"))
            /\ Holds(stored, "risk_evaluations", c)
         THEN Goto(c, "returned")
         ELSE Goto(c, "raised")
  /\ UNCHANGED <<tab, decision, storeVars>>

(***************************************************************************)
(* Outages, at any statement of the call.                                  *)
(***************************************************************************)
(* The pool or the database has no connection to give, which can happen     *)
(* where the session holds none: at the first SELECT, and at the refresh()  *)
(* after commit() has returned the connection.  The session stays usable.   *)
(* At the refresh this also stands for an answer that does not validate     *)
(* (payments.py:156): a 500 with the payment committed.                     *)
NoConnection(c) ==
  /\ op[c] = "refresh" \/ (op[c] = "lookup" /\ tab[c] = "customers")
  /\ UNCHANGED storeVars

(* The connection is lost, which the next statement finds out.              *)
ConnectionLost(c) ==
  /\ op[c] \in {"lookup", "insert", "evaluate", "commit", "refresh"}
  /\ FlushFails(c)

(* The connection is lost under commit(), after the database executed it.   *)
ConnectionLostLate(c) ==
  /\ op[c] = "commit"
  /\ CommitUnheard(c, ClosingRows(c), {})

Outage(c) ==
  /\ c \in OutageCalls
  /\ NoConnection(c) \/ ConnectionLost(c) \/ ConnectionLostLate(c)
  /\ Goto(c, "raised")
  /\ UNCHANGED <<tab, decision>>

(* What the service does while the database answers.                        *)
ProcessPayment(c) ==
  \/ Lookup(c) \/ InsertOk(c) \/ InsertRaises(c)
  \/ Evaluate(c) \/ EvaluateRaises(c)
  \/ Commit(c) \/ Refresh(c)

ServiceInit ==
  /\ StoreInit
  /\ op = [c \in Calls |-> "idle"]
  /\ tab = [c \in Calls |-> "customers"]
  /\ decision = [c \in Calls |-> "none"]

=============================================================================
