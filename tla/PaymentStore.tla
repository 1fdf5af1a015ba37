---------------------------- MODULE PaymentStore ----------------------------
(***************************************************************************)
(* The database as the request handlers see it: PostgreSQL at READ         *)
(* COMMITTED with the unique indexes of backend/app/models, reached through *)
(* one SQLAlchemy session per handler (backend/app/api/deps.py).  A session *)
(* stages rows with flush(), publishes them with commit() and drops them    *)
(* with rollback() or close().  Every other module changes the database     *)
(* only through the operators below.                                        *)
(***************************************************************************)
EXTENDS FiniteSets

CONSTANTS
  Sessions,     \* one per handler that may run: the payment calls, the admin
  Ids,          \* primary keys: the handler whose call inserted the row
  Keys,         \* external keys after sanitising
  InitialRows   \* rows loaded before the system starts (the training set)

VARIABLES
  committed,    \* the rows every statement of every session can see
  inserted,     \* inserted[s]: rows flushed by s and not yet committed
  deleted,      \* deleted[s]: committed rows s has deleted or overwritten
  session       \* session[s]: "deactive" after a failed flush

storeVars == <<committed, inserted, deleted, session>>

Table == {"customers", "merchants", "devices", "transactions",
          "risk_evaluations", "ground_truth", "webhook_events"}

Decisions == {"APPROVE", "MONITOR", "REVIEW", "BLOCK"}
Labels == {"legit", "background_seed"}
EventStatus == {"received", "processed", "failed", "ignored"}
Val == Decisions \cup Labels \cup EventStatus
         \cup {"none", "blocked", "completed"}

(* A row: its table, the value under the table's unique index, its primary  *)
(* key, and the one column the properties look at.                          *)
Row == [table : Table, key : Keys \cup Ids, id : Ids, val : Val]

NewRow(t, k, i, v) == [table |-> t, key |-> k, id |-> i, val |-> v]

(* What a statement of session s sees: its own work over the committed rows. *)
Visible(s) == (committed \ deleted[s]) \cup inserted[s]

Holds(rows, t, k) == \E r \in rows : r.table = t /\ r.key = k

(* An INSERT whose key another open transaction has inserted, deleted or    *)
(* overwritten waits until that transaction ends.                           *)
WaitsOn(s, o, t, k) == s # o /\ Holds(inserted[o] \cup deleted[o], t, k)

MustWait(s, t, k) == \E o \in Sessions : WaitsOn(s, o, t, k)

(* Fault: the column has no unique index across transactions.               *)
OwnDuplicate(s, t, k) == Holds(inserted[s], t, k)

(* The unique index already has the key: the INSERT raises IntegrityError.  *)
Duplicate(s, t, k) == Holds(Visible(s), t, k)

StoreInit ==
  /\ committed = InitialRows
  /\ inserted = [s \in Sessions |-> {}]
  /\ deleted = [s \in Sessions |-> {}]
  /\ session = [s \in Sessions |-> "active"]

(* flush(): the statements reach the database, nothing is published.        *)
Stage(s, ins, del) ==
  /\ inserted' = [inserted EXCEPT ![s] = @ \cup ins]
  /\ deleted' = [deleted EXCEPT ![s] = @ \cup del]
  /\ UNCHANGED <<committed, session>>

(* A flush that fails rolls the transaction back and leaves the session     *)
(* unusable: commit() raises PendingRollbackError until rollback().  A      *)
(* connection lost under any statement does the same.                       *)
FlushFails(s) ==
  /\ inserted' = [inserted EXCEPT ![s] = {}]
  /\ deleted' = [deleted EXCEPT ![s] = {}]
  /\ session' = [session EXCEPT ![s] = "deactive"]
  /\ UNCHANGED committed

(* The work of s becomes visible, with what is left to flush (ins, del).    *)
Publish(s, ins, del) ==
  /\ session[s] = "active"
  /\ committed' = (committed \ (deleted[s] \cup del)) \cup inserted[s] \cup ins
  /\ inserted' = [inserted EXCEPT ![s] = {}]
  /\ deleted' = [deleted EXCEPT ![s] = {}]

(* commit() that returns: the connection goes back to the pool.             *)
CommitWork(s, ins, del) == Publish(s, ins, del) /\ UNCHANGED session

(* commit() whose connection is lost when the database has executed it and  *)
(* the answer is under way: commit() raises, the work is done.              *)
CommitUnheard(s, ins, del) ==
  /\ Publish(s, ins, del)
  /\ session' = [session EXCEPT ![s] = "deactive"]

(* Fault: the handler leaves without closing its session.                   *)
LeakSession(s) == s \in Sessions /\ UNCHANGED storeVars

(* close(): the context manager of get_db rolls back what is not committed. *)
Close(s) ==
  /\ inserted' = [inserted EXCEPT ![s] = {}]
  /\ deleted' = [deleted EXCEPT ![s] = {}]
  /\ session' = [session EXCEPT ![s] = "active"]
  /\ UNCHANGED committed

(* The server process dies: every open transaction is rolled back.          *)
CloseAll ==
  /\ inserted' = [s \in Sessions |-> {}]
  /\ deleted' = [s \in Sessions |-> {}]
  /\ session' = [s \in Sessions |-> "active"]
  /\ UNCHANGED committed

StoreTypeOK ==
  /\ committed \subseteq Row
  /\ inserted \in [Sessions -> SUBSET Row]
  /\ deleted \in [Sessions -> SUBSET Row]
  /\ session \in [Sessions -> {"active", "deactive"}]

=============================================================================
