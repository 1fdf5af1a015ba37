-------------------------- MODULE PaymentsApiProofs --------------------------
(***************************************************************************)
(* Theorems about PaymentsApi for any number of calls, keys, parties,       *)
(* training rows, resets and crashes: types, waits, training rows and       *)
(* unique indexes first; then payments are stored whole and once, behind an *)
(* error all of it or nothing, and the API implements PaymentLedger.        *)
(***************************************************************************)
EXTENDS PaymentsApi, TLAPS

USE DEF storeVars, callVars, adminVars

(***************************************************************************)
(* What a call does: a step of the service, an answer, or an outage; and    *)
(* the two ways an outage shows, before or after the commit has been done.  *)
(***************************************************************************)
CallAct(c) == CallStep(c) \/ PaymentOutage(c)

(* The commit, whether the call hears of it or not.                         *)
Commits(c) ==
  /\ op[c] = "commit"
  /\ Publish(c, ClosingRows(c), {})
  /\ Goto(c, "refresh") \/ (c \in OutageCalls /\ Goto(c, "raised"))
  /\ UNCHANGED <<tab, decision>>

(* An outage that changes no committed row.                                 *)
CutOff(c) ==
  /\ c \in OutageCalls
  /\ NoConnection(c) \/ ConnectionLost(c)
  /\ Goto(c, "raised")
  /\ UNCHANGED <<tab, decision>>

LEMMA OutageKinds ==
  ASSUME NEW c \in Calls
  PROVE  /\ Commit(c) => Commits(c)
         /\ PaymentOutage(c) => (Commits(c) \/ CutOff(c)) /\ UNCHANGED adminVars
  BY DEF PaymentOutage, Outage, ConnectionLostLate, CommitUnheard, Commit, CommitWork, Commits,
         CutOff

(***************************************************************************)
(* Types.  A call about to insert carries the key it inserts, and a call    *)
(* leaves the risk engine for the transactions table.                       *)
(***************************************************************************)
KeyPresent ==
  \A c \in Calls :
    /\ op[c] = "insert" => RawKey[c][tab[c]] # NoKey
    /\ op[c] = "evaluate" => tab[c] = "transactions"

TypeInv == TypeOK /\ KeyPresent

LEMMA RowKeyInKeys ==
  ASSUME NEW c \in Calls, NEW t \in StageTables, RawKey[c][t] # NoKey
  PROVE  RowKey(c, t) \in Keys
  BY PayloadAssumption DEF RowKey

LEMMA CallsAreIds == Calls \subseteq Ids /\ Calls \subseteq Sessions
                     /\ Admin \in Sessions /\ Admin \notin Calls
  BY PayloadAssumption, ApiAssumption

LEMMA InitTypeInv == Init => TypeInv
<1> SUFFICES ASSUME Init PROVE TypeInv
  OBVIOUS
<1> USE DEF Init, ServiceInit, StoreInit
<1>1. InitialRows \subseteq Row
  BY ApiAssumption, TrainingAssumption DEF Row
<1>2. TypeOK
  BY <1>1, ApiAssumption DEF TypeOK, StoreTypeOK, Ops, StageTables, LookupTables
<1>3. KeyPresent
  BY DEF KeyPresent
<1>. QED
  BY <1>2, <1>3 DEF TypeInv

(* The step to the next table keeps the types, whatever else a step does.   *)
LEMMA AdvanceType ==
  ASSUME NEW c \in Calls, NEW t \in StageTables, TypeInv, Advance(c, t)
  PROVE  /\ op' \in [Calls -> Ops]
         /\ tab' \in [Calls -> StageTables]
         /\ KeyPresent'
<1>1. NextOp(t) \in {"commit", "evaluate", "lookup"} /\ (NextOp(t) = "evaluate" => t = "devices")
  BY DEF NextOp
<1>2. NextTable(c, t) \in StageTables /\ (t = "devices" => NextTable(c, t) = "transactions")
  BY DEF NextTable, StageTables, LookupTables
<1>. QED
  BY <1>1, <1>2 DEF Advance, Goto, TypeInv, TypeOK, KeyPresent, Ops

LEMMA LookupType ==
  ASSUME NEW c \in Calls, TypeInv, Lookup(c), UNCHANGED adminVars
  PROVE  TypeInv'
<1>1. tab[c] \in StageTables
  BY DEF TypeInv, TypeOK
<1>2. CASE Advance(c, tab[c])
  BY <1>1, <1>2, AdvanceType DEF TypeInv, TypeOK, StoreTypeOK, Lookup
<1>3. CASE Goto(c, "insert") /\ UNCHANGED tab /\ RawKey[c][tab[c]] # NoKey
  BY <1>3 DEF Goto, TypeInv, TypeOK, StoreTypeOK, Lookup, KeyPresent, Ops
<1>. QED
  BY <1>2, <1>3 DEF Lookup

LEMMA InsertOkType ==
  ASSUME NEW c \in Calls, TypeInv, InsertOk(c), UNCHANGED adminVars
  PROVE  TypeInv'
<1> DEFINE t == tab[c]
           r == NewRow(t, RowKey(c, t), c, StoredVal(c, t))
<1>1. t \in StageTables /\ RawKey[c][t] # NoKey
  BY DEF TypeInv, TypeOK, InsertOk, KeyPresent
<1>2. r \in Row
  <2>1. StoredVal(c, t) \in Val
    BY DEF StoredVal, FinalStatus, Val
  <2>2. RowKey(c, t) \in Keys
    BY <1>1, RowKeyInKeys
  <2>3. t \in Table
    BY <1>1 DEF StageTables, LookupTables, Table
  <2>. QED
    BY <2>1, <2>2, <2>3, CallsAreIds DEF NewRow, Row
<1>3. Stage(c, {r}, {}) /\ Advance(c, t) /\ UNCHANGED decision
  BY DEF InsertOk
<1>4. StoreTypeOK'
  BY <1>2, <1>3, CallsAreIds DEF Stage, TypeInv, TypeOK, StoreTypeOK
<1>. QED
  BY <1>1, <1>3, <1>4, AdvanceType DEF TypeInv, TypeOK

LEMMA InsertRaisesType ==
  ASSUME NEW c \in Calls, TypeInv, InsertRaises(c), UNCHANGED adminVars
  PROVE  TypeInv'
  BY CallsAreIds DEF InsertRaises, FlushFails, Goto, TypeInv, TypeOK, StoreTypeOK, KeyPresent, Ops

LEMMA EvaluateType ==
  ASSUME NEW c \in Calls, TypeInv, Evaluate(c) \/ EvaluateRaises(c), UNCHANGED adminVars
  PROVE  TypeInv'
<1>1. CASE Evaluate(c)
  <2>1. RawKey[c]["transactions"] # NoKey
    BY PayloadAssumption DEF StageTables
  <2>2. decision' \in [Calls -> Decisions \cup {"none"}]
    BY <1>1 DEF Evaluate, TypeInv, TypeOK, Decisions
  <2>. QED
    BY <1>1, <2>1, <2>2 DEF Evaluate, Goto, TypeInv, TypeOK, StoreTypeOK, KeyPresent, Ops
<1>2. CASE EvaluateRaises(c)
  BY <1>2 DEF EvaluateRaises, Goto, TypeInv, TypeOK, StoreTypeOK, KeyPresent, Ops
<1>. QED
  BY <1>1, <1>2

LEMMA CommitType ==
  ASSUME NEW c \in Calls, TypeInv, UNCHANGED adminVars, Commits(c),
         session' \in [Sessions -> {"active", "deactive"}]
  PROVE  TypeInv'
<1>1. ClosingRows(c) \subseteq Row
  BY CallsAreIds DEF ClosingRows, NewRow, Row, Table, Val, Labels, TypeInv, TypeOK
<1>2. StoreTypeOK'
  BY <1>1, CallsAreIds DEF Commits, Publish, TypeInv, TypeOK, StoreTypeOK
<1>. QED
  BY <1>2 DEF Commits, Goto, TypeInv, TypeOK, KeyPresent, Ops

LEMMA OutageType ==
  ASSUME NEW c \in Calls, TypeInv, PaymentOutage(c)
  PROVE  TypeInv'
<1>1. UNCHANGED adminVars /\ (Commits(c) \/ CutOff(c))
  BY OutageKinds
<1>2. session' \in [Sessions -> {"active", "deactive"}]
  BY DEF PaymentOutage, Outage, NoConnection, ConnectionLost, ConnectionLostLate, FlushFails,
         CommitUnheard, TypeInv, TypeOK, StoreTypeOK
<1>3. CASE CutOff(c)
  BY <1>1, <1>3, CallsAreIds
  DEF CutOff, NoConnection, ConnectionLost, FlushFails, Goto, TypeInv, TypeOK, StoreTypeOK,
      KeyPresent, Ops
<1>. QED
  BY <1>1, <1>2, <1>3, CommitType

LEMMA RefreshType ==
  ASSUME NEW c \in Calls, TypeInv, Refresh(c), UNCHANGED adminVars
  PROVE  TypeInv'
<1>1. Goto(c, "returned") \/ Goto(c, "raised")
  BY DEF Refresh
<1>. QED
  BY <1>1 DEF Refresh, Goto, TypeInv, TypeOK, StoreTypeOK, KeyPresent, Ops

LEMMA AnswerType ==
  ASSUME NEW c \in Calls, TypeInv, AnswerCreated(c) \/ AnswerError(c)
  PROVE  TypeInv'
  BY CallsAreIds DEF AnswerCreated, AnswerError, Close, Goto, TypeInv, TypeOK, StoreTypeOK,
                     KeyPresent, Ops, FinalOps

LEMMA StartType ==
  ASSUME NEW c \in Calls, TypeInv, CreatePayment(c)
  PROVE  TypeInv'
  BY DEF CreatePayment, Start, Goto, TypeInv, TypeOK, StoreTypeOK, KeyPresent, Ops,
         StageTables, LookupTables

LEMMA AdminType ==
  ASSUME TypeInv, ResetLabels \/ AdminStep \/ ResetOutage
  PROVE  TypeInv'
<1>1. CASE ResetLabels
  BY <1>1, CallsAreIds, ApiAssumption
  DEF ResetLabels, Stage, InTable, TypeInv, TypeOK, StoreTypeOK, KeyPresent
<1>2. CASE ResetEvaluations
  <2>1. PICK rows \in SUBSET Row : AdminDeletes(rows, "transactions")
    BY <1>2, CallsAreIds DEF ResetEvaluations, InTable, Visible, TypeInv, TypeOK, StoreTypeOK
  <2>. QED
    BY <2>1, CallsAreIds DEF AdminDeletes, Stage, TypeInv, TypeOK, StoreTypeOK, KeyPresent
<1>3. CASE ResetTransactions
  <2>1. PICK rows \in SUBSET Row : AdminDeletes(rows, "truncate")
    BY <1>3, CallsAreIds
    DEF ResetTransactions, Unlabelled, InTable, Visible, TypeInv, TypeOK, StoreTypeOK
  <2>. QED
    BY <2>1, CallsAreIds DEF AdminDeletes, Stage, TypeInv, TypeOK, StoreTypeOK, KeyPresent
<1>4. CASE ResetFails \/ ResetOutage
  BY <1>4, CallsAreIds DEF ResetFails, ResetOutage, Close, TypeInv, TypeOK, StoreTypeOK, KeyPresent
<1>5. CASE ResetFinish
  BY <1>5, CallsAreIds DEF ResetFinish, CommitWork, Publish, TypeInv, TypeOK, StoreTypeOK, KeyPresent
<1>. QED
  BY <1>1, <1>2, <1>3, <1>4, <1>5 DEF AdminStep

LEMMA CrashType ==
  ASSUME TypeInv, Crash
  PROVE  TypeInv'
<1>1. op' \in [Calls -> Ops] /\ \A c \in Calls : op'[c] \notin {"insert", "evaluate"}
  BY DEF Crash, InFlight, TypeInv, TypeOK, Ops, FinalOps
<1>. QED
  BY <1>1, ApiAssumption DEF Crash, CloseAll, TypeInv, TypeOK, StoreTypeOK, KeyPresent

LEMMA CallType ==
  ASSUME NEW c \in Calls, TypeInv, CallAct(c)
  PROVE  TypeInv'
<1>1. ASSUME Commit(c), UNCHANGED adminVars PROVE TypeInv'
  BY <1>1, OutageKinds, CommitType DEF Commit, CommitWork, TypeInv, TypeOK, StoreTypeOK
<1>. QED
  BY <1>1, LookupType, InsertOkType, InsertRaisesType, EvaluateType, RefreshType, AnswerType,
     OutageType DEF CallAct, CallStep, RunPayment, ProcessPayment

LEMMA NextTypeInv == TypeInv /\ [Next]_vars => TypeInv'
<1> SUFFICES ASSUME TypeInv, [Next]_vars PROVE TypeInv'
  OBVIOUS
<1>0. ApiCalls \subseteq Calls
  BY ApiAssumption
<1>1. ASSUME NEW c \in ApiCalls, CreatePayment(c) PROVE TypeInv'
  BY <1>0, <1>1, StartType
<1>2. ASSUME NEW c \in ApiCalls, CallAct(c) PROVE TypeInv'
  BY <1>0, <1>2, CallType
<1>3. CASE ResetLabels \/ AdminStep \/ ResetOutage
  BY <1>3, AdminType
<1>4. CASE Crash
  BY <1>4, CrashType
<1>5. CASE UNCHANGED vars
  BY <1>5 DEF vars, TypeInv, TypeOK, StoreTypeOK, KeyPresent
<1>. QED
  BY <1>1, <1>2, <1>3, <1>4, <1>5 DEF Next, Finished, CallAct

(* Every variable of the payment API stays in its range.                    *)
THEOREM TypeCorrect == Spec => []TypeOK
<1>1. TypeInv => TypeOK
  BY DEF TypeInv
<1>. QED
  BY InitTypeInv, NextTypeInv, <1>1, PTL DEF Spec

(***************************************************************************)
(* What a session holds.  Handlers never delete; the admin never inserts;   *)
(* the rows a call has flushed belong to tables before the one it has       *)
(* reached, so a call that waits holds only keys of smaller rank.           *)
(***************************************************************************)
Rank(t) ==
  CASE t = "customers" -> 1
    [] t = "merchants" -> 2
    [] t = "devices" -> 3
    [] OTHER -> 4

Climbing == {"lookup", "insert", "evaluate"}

HoldsBelow(c) ==
  \A r \in inserted[c] :
    /\ r.table \in StageTables
    /\ op[c] \in Climbing => Rank(r.table) < Rank(tab[c])

SessionInv ==
  /\ \A s \in Sessions \ Calls : inserted[s] = {}
  /\ \A c \in Calls :
       /\ deleted[c] = {}
       /\ op[c] = "idle" => inserted[c] = {}
       /\ HoldsBelow(c)

LEMMA InitSessionInv == Init => SessionInv
  BY CallsAreIds DEF Init, ServiceInit, StoreInit, SessionInv, HoldsBelow

(* Moving on to the next table of the same rank order.                      *)
LEMMA NextRank ==
  ASSUME NEW c \in Calls, NEW t \in StageTables, NextOp(t) # "commit"
  PROVE  Rank(t) < Rank(NextTable(c, t))
  BY DEF NextOp, NextTable, Rank, StageTables, LookupTables

LEMMA LookupSession ==
  ASSUME NEW c \in Calls, TypeInv, SessionInv, Lookup(c)
  PROVE  SessionInv'
<1> DEFINE t == tab[c]
<1>1. t \in StageTables
  BY DEF TypeInv, TypeOK
<1>2. UNCHANGED storeVars
  BY DEF Lookup
<1>3. CASE Advance(c, t)
  <2>1. \A d \in Calls \ {c} : op'[d] = op[d] /\ tab'[d] = tab[d]
    BY <1>3 DEF Advance, Goto, TypeInv, TypeOK
  <2>2. op'[c] = NextOp(t) /\ tab'[c] = NextTable(c, t)
    BY <1>3 DEF Advance, Goto, TypeInv, TypeOK
  <2>3. \A r \in inserted[c] : r.table \in StageTables /\ Rank(r.table) < Rank(t)
    BY DEF SessionInv, HoldsBelow, Lookup, Climbing
  <2>4. HoldsBelow(c)'
    <3> SUFFICES ASSUME NEW r \in inserted[c], op'[c] \in Climbing
                 PROVE  Rank(r.table) < Rank(NextTable(c, t))
      BY <1>2, <2>2, <2>3 DEF HoldsBelow
    <3>1. Rank(t) < Rank(NextTable(c, t))
      BY <1>1, <2>2, NextRank DEF Climbing
    <3>2. Rank(r.table) \in Nat /\ Rank(t) \in Nat /\ Rank(NextTable(c, t)) \in Nat
      BY DEF Rank
    <3>. QED
      BY <2>3, <3>1, <3>2
  <2>5. op'[c] # "idle"
    BY <2>2 DEF NextOp
  <2>6. \A d \in Calls \ {c} : HoldsBelow(d)'
    BY <1>2, <2>1 DEF SessionInv, HoldsBelow
  <2>. QED
    BY <1>2, <2>1, <2>4, <2>5, <2>6 DEF SessionInv
<1>4. CASE Goto(c, "insert") /\ UNCHANGED tab
  BY <1>2, <1>4 DEF Lookup, Goto, SessionInv, HoldsBelow, TypeInv, TypeOK, Climbing
<1>. QED
  BY <1>3, <1>4 DEF Lookup

LEMMA InsertOkSession ==
  ASSUME NEW c \in Calls, TypeInv, SessionInv, InsertOk(c)
  PROVE  SessionInv'
<1> DEFINE t == tab[c]
           r == NewRow(t, RowKey(c, t), c, StoredVal(c, t))
<1>1. t \in StageTables /\ op[c] = "insert"
  BY DEF TypeInv, TypeOK, InsertOk
<1>2. Stage(c, {r}, {}) /\ Advance(c, t)
  BY DEF InsertOk
<1>3. \A d \in Calls \ {c} : op'[d] = op[d] /\ tab'[d] = tab[d]
  BY <1>2 DEF Advance, Goto, TypeInv, TypeOK
<1>4. op'[c] = NextOp(t) /\ tab'[c] = NextTable(c, t)
  BY <1>2 DEF Advance, Goto, TypeInv, TypeOK
<1>5. /\ \A s \in Sessions \ {c} : inserted'[s] = inserted[s] /\ deleted'[s] = deleted[s]
      /\ inserted'[c] = inserted[c] \cup {r}
      /\ deleted'[c] = deleted[c]
  BY <1>2, CallsAreIds DEF Stage, TypeInv, TypeOK, StoreTypeOK
<1>6. \A x \in inserted'[c] :
        x.table \in StageTables /\ (Rank(x.table) < Rank(t) \/ x.table = t)
  BY <1>1, <1>5 DEF SessionInv, HoldsBelow, Climbing, NewRow
<1>7. HoldsBelow(c)'
  <2> SUFFICES ASSUME NEW x \in inserted'[c], op'[c] \in Climbing
               PROVE  Rank(x.table) < Rank(NextTable(c, t))
    BY <1>4, <1>6 DEF HoldsBelow
  <2>1. Rank(t) < Rank(NextTable(c, t))
    BY <1>1, <1>4, NextRank DEF Climbing
  <2>2. Rank(x.table) \in Nat /\ Rank(t) \in Nat /\ Rank(NextTable(c, t)) \in Nat
    BY DEF Rank
  <2>. QED
    BY <1>6, <2>1, <2>2
<1>8. op'[c] # "idle"
  BY <1>4 DEF NextOp
<1>9. \A d \in Calls \ {c} : HoldsBelow(d)'
  BY <1>3, <1>5, CallsAreIds DEF SessionInv, HoldsBelow
<1>. QED
  BY <1>3, <1>5, <1>7, <1>8, <1>9, CallsAreIds DEF SessionInv

(* Steps that leave call c with no rows of its own, and other calls alone.  *)
LEMMA EmptiedSession ==
  ASSUME NEW c \in Calls, TypeInv, SessionInv, NEW o,
         Goto(c, o), UNCHANGED tab,
         inserted' = [inserted EXCEPT ![c] = {}],
         deleted' = [deleted EXCEPT ![c] = {}]
  PROVE  SessionInv'
  BY CallsAreIds DEF Goto, SessionInv, HoldsBelow, TypeInv, TypeOK, StoreTypeOK

(* Steps that move call c to an operation outside the climb.                *)
LEMMA LeavingSession ==
  ASSUME NEW c \in Calls, TypeInv, SessionInv, NEW o,
         o \notin Climbing, o # "idle",
         Goto(c, o), UNCHANGED <<tab, inserted, deleted>>
  PROVE  SessionInv'
  BY DEF Goto, SessionInv, HoldsBelow, TypeInv, TypeOK

LEMMA CallSession ==
  ASSUME NEW c \in Calls, TypeInv, SessionInv, CallAct(c)
  PROVE  SessionInv'
<1>1. CASE Lookup(c)
  BY <1>1, LookupSession
<1>2. CASE InsertOk(c)
  BY <1>2, InsertOkSession
<1>3. CASE InsertRaises(c)
  BY <1>3, EmptiedSession DEF InsertRaises, FlushFails
<1>4. CASE Evaluate(c)
  BY <1>4 DEF Evaluate, Goto, SessionInv, HoldsBelow, Climbing, TypeInv, TypeOK
<1>5. CASE EvaluateRaises(c)
  BY <1>5, LeavingSession DEF EvaluateRaises, Climbing
<1>6. CASE Commits(c)
  BY <1>6, EmptiedSession DEF Commits, Publish
<1>7. CASE Refresh(c)
  BY <1>7, LeavingSession DEF Refresh, Climbing
<1>8. CASE AnswerCreated(c) \/ AnswerError(c)
  BY <1>8, EmptiedSession DEF AnswerCreated, AnswerError, Close
<1>9. CASE CutOff(c)
  <2>1. CASE NoConnection(c)
    BY <1>9, <2>1, LeavingSession DEF CutOff, NoConnection, Climbing
  <2>2. CASE ConnectionLost(c)
    BY <1>9, <2>2, EmptiedSession DEF CutOff, ConnectionLost, FlushFails
  <2>. QED
    BY <1>9, <2>1, <2>2 DEF CutOff
<1>. QED
  BY <1>1, <1>2, <1>3, <1>4, <1>5, <1>6, <1>7, <1>8, <1>9, OutageKinds
  DEF CallAct, CallStep, RunPayment, ProcessPayment

LEMMA AdminSession ==
  ASSUME TypeInv, SessionInv, ResetLabels \/ AdminStep \/ ResetOutage
  PROVE  SessionInv'
<1>1. UNCHANGED callVars
  BY DEF ResetLabels, AdminStep, ResetEvaluations, ResetTransactions, ResetFails, ResetFinish,
         ResetOutage, AdminDeletes
<1>2. \A s \in Sessions : s # Admin => inserted'[s] = inserted[s] /\ deleted'[s] = deleted[s]
  BY CallsAreIds
  DEF ResetLabels, AdminStep, ResetEvaluations, ResetTransactions, ResetFails, ResetFinish,
      ResetOutage, AdminDeletes, Stage, Close, CommitWork, Publish, TypeInv, TypeOK, StoreTypeOK
<1>3. inserted'[Admin] = {}
  BY CallsAreIds
  DEF ResetLabels, AdminStep, ResetEvaluations, ResetTransactions, ResetFails, ResetFinish,
      ResetOutage, AdminDeletes, Stage, Close, CommitWork, Publish, TypeInv, TypeOK, StoreTypeOK,
      SessionInv
<1>. QED
  BY <1>1, <1>2, <1>3, CallsAreIds DEF SessionInv, HoldsBelow

LEMMA NextSessionInv == TypeInv /\ SessionInv /\ [Next]_vars => SessionInv'
<1> SUFFICES ASSUME TypeInv, SessionInv, [Next]_vars PROVE SessionInv'
  OBVIOUS
<1>0. ApiCalls \subseteq Calls
  BY ApiAssumption
<1>1. ASSUME NEW c \in ApiCalls, CreatePayment(c) PROVE SessionInv'
  BY <1>0, <1>1 DEF CreatePayment, Start, Goto, SessionInv, HoldsBelow, TypeInv, TypeOK
<1>2. ASSUME NEW c \in ApiCalls, CallAct(c) PROVE SessionInv'
  BY <1>0, <1>2, CallSession
<1>3. CASE ResetLabels \/ AdminStep \/ ResetOutage
  BY <1>3, AdminSession
<1>4. CASE Crash
  <2>1. /\ \A s \in Sessions : inserted'[s] = {} /\ deleted'[s] = {}
    BY <1>4 DEF Crash, CloseAll
  <2>. QED
    BY <2>1, CallsAreIds DEF SessionInv, HoldsBelow
<1>5. CASE UNCHANGED vars
  BY <1>5 DEF vars, SessionInv, HoldsBelow
<1>. QED
  BY <1>1, <1>2, <1>3, <1>4, <1>5 DEF Next, Finished, CallAct

LEMMA SpecSessionInv == Spec => [](TypeInv /\ SessionInv)
  BY InitTypeInv, NextTypeInv, InitSessionInv, NextSessionInv, PTL DEF Spec

(***************************************************************************)
(* No wait cycle.                                                           *)
(***************************************************************************)
(* Whoever is waited for waits, if at all, at a table of higher rank.       *)
LEMMA WaitClimbs ==
  ASSUME TypeInv, SessionInv, NEW c \in Calls, NEW d \in Calls,
         WaitsFor(c, d), op[d] = "insert"
  PROVE  Rank(tab[c]) < Rank(tab[d])
<1>1. PICK r \in inserted[d] : r.table = tab[c]
  BY DEF WaitsFor, WaitsOn, Holds, SessionInv
<1>. QED
  BY <1>1 DEF SessionInv, HoldsBelow, Climbing

LEMMA NoCycle == TypeInv /\ SessionInv => NoWaitCycle
<1> SUFFICES ASSUME TypeInv, SessionInv,
                    NEW S \in SUBSET Calls,
                    \A c \in S : \E d \in S : WaitsFor(c, d)
             PROVE  S = {}
  BY DEF NoWaitCycle
<1>1. \A c \in S : op[c] = "insert" /\ Rank(tab[c]) \in 1..4
  BY DEF WaitsFor, Rank
<1>2. \A c \in S : \E d \in S : Rank(tab[c]) < Rank(tab[d])
  BY <1>1, WaitClimbs
<1>3. \A c \in S : Rank(tab[c]) # 4
  BY <1>1, <1>2
<1>4. \A c \in S : Rank(tab[c]) # 3
  BY <1>1, <1>2, <1>3
<1>5. \A c \in S : Rank(tab[c]) # 2
  BY <1>1, <1>2, <1>3, <1>4
<1>6. \A c \in S : Rank(tab[c]) # 1
  BY <1>1, <1>2, <1>3, <1>4, <1>5
<1>. QED
  BY <1>1, <1>3, <1>4, <1>5, <1>6

(* However many payments run at once, and whatever customers, merchants,    *)
(* devices and transaction ids they share, they never wait for each other   *)
(* in a cycle (payment_service.py:19-90).                                   *)
THEOREM NoDeadlock == Spec => []NoWaitCycle
  BY SpecSessionInv, NoCycle, PTL

(***************************************************************************)
(* The training set.  The reset never picks a training row, and nobody else *)
(* deletes anything.                                                        *)
(***************************************************************************)
TrainingInv ==
  /\ InitialRows \subseteq committed
  /\ InitialRows \cap deleted[Admin] = {}

(* Whatever set of rows contains the training set, its transactions and     *)
(* evaluations are not among those the reset looks for.                     *)
LEMMA TrainingIsLabelled ==
  ASSUME NEW rows, InitialRows \subseteq rows
  PROVE  /\ InitialRows \cap Unlabelled(rows) = {}
         /\ \A r \in InitialRows : r.table = "risk_evaluations"
                                    => r.key \notin {x.id : x \in Unlabelled(rows)}
<1>1. Labelled(InitialRows) \subseteq Labelled(rows)
  BY DEF Labelled, InTable
<1>. QED
  BY <1>1, TrainingAssumption DEF Unlabelled, InTable

(* The handlers only add rows.                                              *)
LEMMA CallTraining ==
  ASSUME NEW c \in Calls, TypeInv, SessionInv, TrainingInv, CallAct(c)
  PROVE  TrainingInv'
<1>1. deleted[c] = {} /\ c # Admin
  BY CallsAreIds DEF SessionInv
<1>2. committed \subseteq committed'
  BY <1>1
  DEF CallAct, CallStep, PaymentOutage, Outage, NoConnection, ConnectionLost, ConnectionLostLate,
      RunPayment, ProcessPayment, Lookup, InsertOk, InsertRaises, Evaluate,
      EvaluateRaises, Commit, Refresh, AnswerCreated, AnswerError, Stage, FlushFails,
      CommitWork, CommitUnheard, Publish, Close
<1>3. deleted'[Admin] = deleted[Admin]
  BY <1>1, CallsAreIds
  DEF CallAct, CallStep, PaymentOutage, Outage, NoConnection, ConnectionLost, ConnectionLostLate,
      RunPayment, ProcessPayment, Lookup, InsertOk, InsertRaises, Evaluate,
      EvaluateRaises, Commit, Refresh, AnswerCreated, AnswerError, Stage, FlushFails,
      CommitWork, CommitUnheard, Publish, Close, TypeInv, TypeOK, StoreTypeOK
<1>. QED
  BY <1>2, <1>3 DEF TrainingInv

LEMMA NextTrainingInv ==
  TypeInv /\ SessionInv /\ TrainingInv /\ [Next]_vars => TrainingInv'
<1> SUFFICES ASSUME TypeInv, SessionInv, TrainingInv, [Next]_vars PROVE TrainingInv'
  OBVIOUS
<1>0. ApiCalls \subseteq Calls
  BY ApiAssumption
<1>1. ASSUME NEW c \in ApiCalls, CreatePayment(c) PROVE TrainingInv'
  BY <1>1 DEF CreatePayment, Start, TrainingInv
<1>2. ASSUME NEW c \in ApiCalls, CallAct(c) PROVE TrainingInv'
  BY <1>0, <1>2, CallTraining
<1>3. CASE ResetLabels
  BY <1>3, CallsAreIds, TrainingAssumption
  DEF ResetLabels, Stage, InTable, TrainingInv, TypeInv, TypeOK, StoreTypeOK
<1>4. InitialRows \subseteq Visible(Admin)
  BY DEF TrainingInv, Visible
<1>5. CASE ResetEvaluations
  BY <1>4, <1>5, TrainingIsLabelled, CallsAreIds
  DEF ResetEvaluations, AdminDeletes, Stage, InTable, TrainingInv, TypeInv, TypeOK, StoreTypeOK
<1>6. CASE ResetTransactions
  BY <1>4, <1>6, TrainingIsLabelled, CallsAreIds
  DEF ResetTransactions, AdminDeletes, Stage, TrainingInv, TypeInv, TypeOK, StoreTypeOK
<1>7. CASE ResetFails \/ ResetOutage
  BY <1>7, CallsAreIds DEF ResetFails, ResetOutage, Close, TrainingInv, TypeInv, TypeOK, StoreTypeOK
<1>8. CASE ResetFinish
  BY <1>8, CallsAreIds, TrainingAssumption
  DEF ResetFinish, CommitWork, Publish, InTable, TrainingInv, TypeInv, TypeOK, StoreTypeOK
<1>9. CASE Crash
  BY <1>9, CallsAreIds DEF Crash, CloseAll, TrainingInv
<1>10. CASE UNCHANGED vars
  BY <1>10 DEF vars, TrainingInv
<1>. QED
  BY <1>1, <1>2, <1>3, <1>5, <1>6, <1>7, <1>8, <1>9, <1>10 DEF Next, AdminStep, Finished, CallAct

(* No reset, however many payments commit between its statements and        *)
(* wherever the server dies, removes a training row (payments.py:230).      *)
THEOREM TrainingSafe == Spec => []TrainingPreserved
<1>1. Init => TrainingInv
  BY CallsAreIds DEF Init, ServiceInit, StoreInit, TrainingInv
<1>2. TrainingInv => TrainingPreserved
  BY DEF TrainingInv, TrainingPreserved
<1>. QED
  BY SpecSessionInv, <1>1, NextTrainingInv, <1>2, PTL DEF Spec

(***************************************************************************)
(* Unique indexes.  The database never admits two rows under one key only   *)
(* because a flush looks at the committed rows and waits for the uncommitted *)
(* ones of everybody else; the rows the commit adds are keyed by the call.  *)
(***************************************************************************)
Clash(r1, r2) == r1.table = r2.table /\ r1.key = r2.key

ByTransaction == {"risk_evaluations", "ground_truth"}

BeforeCommit ==
  {"idle", "check", "store", "normalize", "lookup", "insert", "evaluate", "commit"}

IndexInv ==
  /\ UniqueIndexes
  /\ \A c \in Calls : \A r \in inserted[c], x \in committed : ~ Clash(r, x)
  /\ \A c, d \in Calls : \A r \in inserted[c], x \in inserted[d] :
       Clash(r, x) => c = d /\ r = x
  /\ \A r \in committed, c \in Calls :
       r.table \in ByTransaction /\ r.key = c => op[c] \notin BeforeCommit

LEMMA InitIndexInv == Init => IndexInv
<1> SUFFICES ASSUME Init PROVE IndexInv
  OBVIOUS
<1>1. committed = InitialRows /\ \A c \in Calls : inserted[c] = {}
  BY CallsAreIds DEF Init, ServiceInit, StoreInit
<1>2. \A r \in InitialRows, c \in Calls : r.table \in ByTransaction => r.key # c
  BY TrainingAssumption, ApiAssumption DEF ByTransaction
<1>. QED
  BY <1>1, <1>2, TrainingAssumption DEF IndexInv, UniqueIndexes

(* Nothing new is committed and no session gains a row.                     *)
LEMMA ShrinkIndex ==
  ASSUME IndexInv,
         committed' \subseteq committed,
         \A c \in Calls : inserted'[c] \subseteq inserted[c],
         \A c \in Calls : op[c] \notin BeforeCommit => op'[c] \notin BeforeCommit
  PROVE  IndexInv'
  BY DEF IndexInv, UniqueIndexes, Clash

LEMMA InsertOkIndex ==
  ASSUME NEW c \in Calls, TypeInv, SessionInv, IndexInv, InsertOk(c)
  PROVE  IndexInv'
<1> DEFINE t == tab[c]
           r == NewRow(t, RowKey(c, t), c, StoredVal(c, t))
<1>1. /\ committed' = committed
      /\ inserted'[c] = inserted[c] \cup {r}
      /\ \A d \in Calls \ {c} : inserted'[d] = inserted[d]
  BY CallsAreIds DEF InsertOk, Stage, TypeInv, TypeOK, StoreTypeOK
<1>2. \A x \in committed \cup inserted[c] : ~ Clash(r, x)
  BY DEF InsertOk, Duplicate, Holds, Visible, SessionInv, Clash, NewRow
<1>3. \A d \in Calls \ {c} : \A x \in inserted[d] : ~ Clash(r, x)
  BY CallsAreIds DEF InsertOk, MustWait, WaitsOn, Holds, Clash, NewRow
<1>4. \A d \in Calls : op[d] \notin BeforeCommit => op'[d] \notin BeforeCommit
  BY DEF InsertOk, Advance, Goto, BeforeCommit, TypeInv, TypeOK
<1>5. \A d \in Calls : \A x \in inserted'[d], y \in committed : ~ Clash(x, y)
  BY <1>1, <1>2 DEF IndexInv
<1>6. \A d, e \in Calls : \A x \in inserted'[d], y \in inserted'[e] :
        Clash(x, y) => d = e /\ x = y
  <2> SUFFICES ASSUME NEW d \in Calls, NEW e \in Calls,
                      NEW x \in inserted'[d], NEW y \in inserted'[e], Clash(x, y)
               PROVE  d = e /\ x = y
    OBVIOUS
  <2>1. CASE x \in inserted[d] /\ y \in inserted[e]
    BY <2>1 DEF IndexInv
  <2>2. CASE x \notin inserted[d]
    <3>1. d = c /\ x = r
      BY <1>1, <2>2
    <3>2. Clash(r, y)
      BY <3>1
    <3>3. y \notin inserted[e]
      BY <1>2, <1>3, <3>2
    <3>4. e = c /\ y = r
      BY <1>1, <3>3
    <3>. QED
      BY <3>1, <3>4
  <2>3. CASE y \notin inserted[e]
    <3>1. e = c /\ y = r
      BY <1>1, <2>3
    <3>2. Clash(r, x)
      BY <3>1 DEF Clash
    <3>3. x \notin inserted[d]
      BY <1>2, <1>3, <3>2
    <3>4. d = c /\ x = r
      BY <1>1, <3>3
    <3>. QED
      BY <3>1, <3>4
  <2>. QED
    BY <2>1, <2>2, <2>3
<1>. QED
  BY <1>1, <1>4, <1>5, <1>6 DEF IndexInv, UniqueIndexes

LEMMA CommitIndex ==
  ASSUME NEW c \in Calls, TypeInv, SessionInv, IndexInv, Commits(c)
  PROVE  IndexInv'
<1>1. /\ committed' = committed \cup inserted[c] \cup ClosingRows(c)
      /\ inserted'[c] = {}
      /\ \A d \in Calls \ {c} : inserted'[d] = inserted[d]
      /\ op[c] = "commit" /\ op'[c] \notin BeforeCommit
      /\ \A d \in Calls \ {c} : op'[d] = op[d]
  BY CallsAreIds
  DEF Commits, Publish, Goto, BeforeCommit, SessionInv, TypeInv, TypeOK, StoreTypeOK
<1>2. \A r \in ClosingRows(c) : r.table \in ByTransaction /\ r.key = c
  BY DEF ClosingRows, NewRow, ByTransaction
<1>3. \A r1, r2 \in ClosingRows(c) : Clash(r1, r2) => r1 = r2
  BY DEF ClosingRows, NewRow, Clash
<1>4. \A d \in Calls : \A x \in inserted[d] : x.table \notin ByTransaction
  BY DEF SessionInv, HoldsBelow, StageTables, LookupTables, ByTransaction
<1>5. \A r \in ClosingRows(c), x \in committed : ~ Clash(r, x)
  BY <1>1, <1>2 DEF IndexInv, BeforeCommit, Clash
<1>6. \A r \in ClosingRows(c), d \in Calls : \A x \in inserted[d] : ~ Clash(r, x)
  BY <1>2, <1>4 DEF Clash
<1>7. UniqueIndexes'
  <2> SUFFICES ASSUME NEW r1 \in committed', NEW r2 \in committed', Clash(r1, r2)
               PROVE  r1 = r2
    BY DEF UniqueIndexes, Clash
  <2>1. Clash(r2, r1)
    BY DEF Clash
  <2>2. CASE r1 \in committed
    BY <1>1, <1>5, <2>1, <2>2 DEF IndexInv, UniqueIndexes, Clash
  <2>3. CASE r1 \in inserted[c]
    BY <1>1, <1>6, <2>1, <2>3 DEF IndexInv
  <2>4. CASE r1 \in ClosingRows(c)
    BY <1>1, <1>3, <1>5, <1>6, <2>4
  <2>. QED
    BY <1>1, <2>2, <2>3, <2>4
<1>8. \A d \in Calls : \A r \in inserted'[d], x \in committed' : ~ Clash(r, x)
  <2> SUFFICES ASSUME NEW d \in Calls, NEW r \in inserted'[d], NEW x \in committed'
               PROVE  ~ Clash(r, x)
    OBVIOUS
  <2>1. d # c /\ r \in inserted[d]
    BY <1>1
  <2>2. Clash(r, x) => Clash(x, r)
    BY DEF Clash
  <2>. QED
    BY <1>1, <1>6, <2>1, <2>2 DEF IndexInv
<1>9. \A d, e \in Calls : \A x \in inserted'[d], y \in inserted'[e] :
        Clash(x, y) => d = e /\ x = y
  BY <1>1 DEF IndexInv
<1>10. \A r \in committed', d \in Calls :
         r.table \in ByTransaction /\ r.key = d => op'[d] \notin BeforeCommit
  BY <1>1, <1>2, <1>4 DEF IndexInv, BeforeCommit, TypeInv, TypeOK
<1>. QED
  BY <1>7, <1>8, <1>9, <1>10 DEF IndexInv

LEMMA CallIndex ==
  ASSUME NEW c \in Calls, TypeInv, SessionInv, IndexInv, CallAct(c)
  PROVE  IndexInv'
<1>1. CASE InsertOk(c)
  BY <1>1, InsertOkIndex
<1>2. CASE Commits(c)
  BY <1>2, CommitIndex
<1>3. CASE Lookup(c) \/ InsertRaises(c) \/ Evaluate(c) \/ EvaluateRaises(c)
           \/ Refresh(c) \/ AnswerCreated(c) \/ AnswerError(c) \/ CutOff(c)
  <2>1. committed' = committed /\ \A d \in Calls : inserted'[d] \subseteq inserted[d]
    BY <1>3, CallsAreIds
    DEF Lookup, InsertRaises, Evaluate, EvaluateRaises, Refresh, AnswerCreated,
        AnswerError, CutOff, NoConnection, ConnectionLost, FlushFails, Close, TypeInv, TypeOK,
        StoreTypeOK
  <2>2. \A d \in Calls : op[d] \notin BeforeCommit => op'[d] \notin BeforeCommit
    BY <1>3
    DEF Lookup, InsertRaises, Evaluate, EvaluateRaises, Refresh, AnswerCreated,
        AnswerError, CutOff, Advance, Goto, BeforeCommit, TypeInv, TypeOK
  <2>. QED
    BY <2>1, <2>2, ShrinkIndex
<1>. QED
  BY <1>1, <1>2, <1>3, OutageKinds DEF CallAct, CallStep, RunPayment, ProcessPayment

LEMMA NextIndexInv == TypeInv /\ SessionInv /\ IndexInv /\ [Next]_vars => IndexInv'
<1> SUFFICES ASSUME TypeInv, SessionInv, IndexInv, [Next]_vars PROVE IndexInv'
  OBVIOUS
<1>0. ApiCalls \subseteq Calls
  BY ApiAssumption
<1>1. ASSUME NEW c \in ApiCalls, CreatePayment(c) PROVE IndexInv'
  BY <1>0, <1>1, ShrinkIndex
  DEF CreatePayment, Start, Goto, BeforeCommit, TypeInv, TypeOK
<1>2. ASSUME NEW c \in ApiCalls, CallAct(c) PROVE IndexInv'
  BY <1>0, <1>2, CallIndex
<1>3. CASE ResetLabels \/ AdminStep \/ ResetOutage
  <2>1. op' = op
    BY <1>3 DEF ResetLabels, AdminStep, ResetEvaluations, ResetTransactions, ResetFails,
                ResetFinish, ResetOutage, AdminDeletes
  <2>2. committed' \subseteq committed
    BY <1>3, CallsAreIds
    DEF ResetLabels, AdminStep, ResetEvaluations, ResetTransactions, ResetFails, ResetFinish,
        ResetOutage, AdminDeletes, Stage, Close, CommitWork, Publish, SessionInv
  <2>3. \A c \in Calls : inserted'[c] = inserted[c]
    BY <1>3, CallsAreIds
    DEF ResetLabels, AdminStep, ResetEvaluations, ResetTransactions, ResetFails, ResetFinish,
        ResetOutage, AdminDeletes, Stage, Close, CommitWork, Publish, TypeInv, TypeOK, StoreTypeOK
  <2>. QED
    BY <2>1, <2>2, <2>3, ShrinkIndex
<1>4. CASE Crash
  <2>1. committed' = committed /\ \A c \in Calls : inserted'[c] = {}
    BY <1>4, CallsAreIds DEF Crash, CloseAll
  <2>2. \A c \in Calls : op[c] \notin BeforeCommit => op'[c] \notin BeforeCommit
    BY <1>4 DEF Crash, InFlight, FinalOps, BeforeCommit
  <2>. QED
    BY <2>1, <2>2, ShrinkIndex
<1>5. CASE UNCHANGED vars
  BY <1>5, ShrinkIndex DEF vars
<1>. QED
  BY <1>1, <1>2, <1>3, <1>4, <1>5 DEF Next, Finished, CallAct

(* No two committed rows of a table share the key of its unique index: two  *)
(* customers, merchants or devices with one external key, two transactions  *)
(* with one id, or two evaluations of one transaction never exist.          *)
THEOREM IndexesUnique == Spec => []UniqueIndexes
<1>1. IndexInv => UniqueIndexes
  BY DEF IndexInv
<1>. QED
  BY SpecSessionInv, InitIndexInv, NextIndexInv, <1>1, PTL DEF Spec

(***************************************************************************)
(* What a call has done and what is stored of it.                           *)
(***************************************************************************)
(* The transaction call c stores.                                           *)
TxRow(c) ==
  NewRow("transactions", RowKey(c, "transactions"), c, FinalStatus(decision[c]))

Transactions == InTable(committed, "transactions")

PartyHeld(c, t, rows) ==
  \/ RawKey[c][t] = NoKey
  \/ Holds(rows, t, RawKey[c][t])
  \/ Holds(rows, t, RowKey(c, t))

(* The rows call c has flushed: its transaction is the last of them.        *)
StagedInv(c) ==
  /\ op[c] = "lookup" => tab[c] \in LookupTables
  /\ \A r \in inserted[c] :
       /\ r.id = c
       /\ r.table = "transactions" => r = TxRow(c) /\ op[c] = "commit"
  /\ op[c] = "commit" => TxRow(c) \in inserted[c] /\ tab[c] = "transactions"

(* The parties of the tables c is past are in its session or committed.     *)
PartiesInv(c) ==
  op[c] \in Climbing \cup {"commit"} =>
    \A t \in LookupTables :
      Rank(t) < Rank(tab[c]) => PartyHeld(c, t, committed \cup inserted[c])

(* How a call ends that has not brought its client the payment.             *)
Unanswerable == {"raised", "error", "lost"}

(* What is committed under the id of call c was committed by c; a call that *)
(* has not committed, or fails, has left nothing else behind.               *)
StoredInv(c) ==
  /\ \A x \in Transactions :
       x.id = c => x = TxRow(c) /\ op[c] \notin BeforeCommit /\ PartiesStored(c)
  /\ \A r \in committed :
       r.table \in ByTransaction /\ r.key = c =>
         r.id = c /\ (r.table = "risk_evaluations" => r.val = decision[c])
  /\ op[c] = "raised" \/ (op[c] = "error" /\ c \in ApiCalls)
       => ~ Stored(c) \/ c \in OutageCalls
  /\ c \in ApiCalls /\ resets = 0 /\ op[c] \in BeforeCommit \cup Unanswerable
       => Stored(c) \/ \A r \in committed : r.id # c
  /\ resets = 0 /\ op[c] \in {"refresh", "returned", "created"} => TxRow(c) \in committed

CallInv(c) == StagedInv(c) /\ PartiesInv(c) /\ StoredInv(c)

(* Transactions come with their evaluations, evaluations and labels with    *)
(* their transactions; what no call stored is of the training set.          *)
PairedInv ==
  /\ \A x \in Transactions :
       /\ x.id \in Calls => Holds(committed, "risk_evaluations", x.id)
       /\ x.id \in Calls \/ x \in InitialRows
  /\ \A r \in committed :
       r.table \in ByTransaction => \E x \in Transactions : x.id = r.key

(* What the reset has deleted so far.  Until it gets to the transactions,   *)
(* the evaluations and labels it took belong to transactions that have no   *)
(* label left, so that it will take these as well; afterwards it has taken  *)
(* a transaction exactly when it has taken all that refers to it.           *)
AdminInv ==
  /\ admin = "idle" => deleted[Admin] = {}
  /\ admin # "idle" => resets # 0
  /\ deleted[Admin] \subseteq committed
  /\ \A r \in deleted[Admin] : r.table \in ByTransaction \cup {"transactions"}
  /\ admin \in {"evaluations", "transactions"} =>
       \A r \in deleted[Admin] :
         /\ r.table # "transactions"
         /\ r.key \notin Labelled(committed \ deleted[Admin])
  /\ admin = "truncate" =>
       \A x \in Transactions, r \in committed :
         r.table \in ByTransaction /\ r.key = x.id =>
           (x \in deleted[Admin] <=> r \in deleted[Admin])

WholeInv == (\A c \in Calls : CallInv(c)) /\ PairedInv /\ AdminInv

LEMMA InitWholeInv == Init => WholeInv
<1> SUFFICES ASSUME Init PROVE WholeInv
  OBVIOUS
<1>1. committed = InitialRows /\ admin = "idle" /\ deleted[Admin] = {}
  BY CallsAreIds DEF Init, ServiceInit, StoreInit
<1>2. \A x \in Transactions : x.id \notin Calls
  BY <1>1, TrainingAssumption, ApiAssumption DEF Transactions, InTable
<1>3. \A r \in committed : r.table \in ByTransaction => r.key \notin Calls
  BY <1>1, TrainingAssumption, ApiAssumption DEF ByTransaction
<1>4. ASSUME NEW c \in Calls PROVE CallInv(c)
  <2>1. op[c] = "idle" /\ inserted[c] = {}
    BY CallsAreIds DEF Init, ServiceInit, StoreInit
  <2>2. \A r \in committed : r.id # c
    BY <1>1, TrainingAssumption, ApiAssumption
  <2>. QED
    BY <1>2, <1>3, <2>1, <2>2 DEF CallInv, StagedInv, PartiesInv, StoredInv, Climbing
<1>5. PairedInv
  BY <1>1, <1>2, TrainingAssumption DEF PairedInv, Transactions, InTable, ByTransaction
<1>6. AdminInv
  BY <1>1 DEF AdminInv
<1>. QED
  BY <1>4, <1>5, <1>6 DEF WholeInv

(* A call another actor's step leaves alone.                                *)
LEMMA FrameCall ==
  ASSUME NEW c \in Calls, CallInv(c),
         op'[c] = op[c], tab'[c] = tab[c], decision'[c] = decision[c],
         inserted'[c] = inserted[c],
         \A r \in committed' : r \notin committed =>
           /\ r.table = "transactions" \/ c \in ApiCalls => r.id # c
           /\ r.table \in ByTransaction => r.key # c,
         \A r \in committed : r.table \in LookupTables => r \in committed',
         resets' = 0 => /\ resets = 0
                        /\ \A r \in committed : r.table = "transactions" => r \in committed'
  PROVE  CallInv(c)'
<1>1. TxRow(c)' = TxRow(c)
  BY DEF TxRow
<1>2. \A t \in LookupTables : \A k : Holds(committed, t, k) => Holds(committed', t, k)
  BY DEF Holds
<1>3. \A t \in LookupTables : \A k :
        Holds(committed \cup inserted[c], t, k) => Holds((committed \cup inserted[c])', t, k)
  BY DEF Holds
<1>4. StagedInv(c)'
  BY <1>1 DEF CallInv, StagedInv
<1>5. PartiesInv(c)'
  BY <1>3 DEF CallInv, PartiesInv, PartyHeld
<1>6. PartiesStored(c) => PartiesStored(c)'
  BY <1>2 DEF PartiesStored
<1>7. \A x \in Transactions' : x.id = c => x \in Transactions
  BY DEF Transactions, InTable
<1>8. StoredInv(c)'
  <2>1. Stored(c)' => Stored(c)
    BY <1>7 DEF Stored, Transactions, InTable
  <2>2. TxRow(c).table = "transactions"
    BY DEF TxRow, NewRow
  <2>3. resets' = 0 /\ Stored(c) => Stored(c)'
    BY DEF Stored, InTable
  <2>. QED
    BY <1>1, <1>6, <1>7, <2>1, <2>2, <2>3 DEF CallInv, StoredInv
<1>. QED
  BY <1>4, <1>5, <1>8 DEF CallInv

(***************************************************************************)
(* The steps of a call before its commit.                                   *)
(***************************************************************************)
(* Everything but the calls stays as it was.                                *)
LEMMA QuietStep ==
  ASSUME TypeInv, SessionInv, WholeInv, NEW c \in Calls, CallInv(c)',
         committed' = committed, UNCHANGED adminVars,
         \A s \in Sessions \ {c} : inserted'[s] = inserted[s] /\ deleted'[s] = deleted[s],
         \A d \in Calls \ {c} : op'[d] = op[d] /\ tab'[d] = tab[d] /\ decision'[d] = decision[d]
  PROVE  WholeInv'
<1>1. ASSUME NEW d \in Calls PROVE CallInv(d)'
  <2>1. CASE d = c
    BY <2>1
  <2>2. CASE d # c
    <3>1. /\ CallInv(d) /\ inserted'[d] = inserted[d] /\ resets' = resets
          /\ op'[d] = op[d] /\ tab'[d] = tab[d] /\ decision'[d] = decision[d]
      BY <2>2, CallsAreIds DEF WholeInv
    <3>. QED
      BY <3>1, FrameCall
  <2>. QED
    BY <2>1, <2>2
<1>2. deleted'[Admin] = deleted[Admin]
  BY CallsAreIds
<1>3. Transactions' = Transactions
  BY DEF Transactions
<1>4. PairedInv'
  BY <1>3 DEF WholeInv, PairedInv
<1>5. AdminInv'
  BY <1>2, <1>3 DEF WholeInv, AdminInv
<1>. QED
  BY <1>1, <1>4, <1>5 DEF WholeInv

(* Before its commit nothing is stored of a call.                           *)
LEMMA NotYetStored ==
  ASSUME IndexInv, NEW c \in Calls, CallInv(c), op[c] \in BeforeCommit
  PROVE  /\ \A x \in Transactions : x.id # c
         /\ \A r \in committed : r.table \in ByTransaction => r.key # c
  BY DEF CallInv, StoredInv, IndexInv

(* A step that stays before the commit has nothing stored to account for.   *)
LEMMA StillNothing ==
  ASSUME IndexInv, NEW c \in Calls, CallInv(c), op[c] \in BeforeCommit,
         committed' = committed, resets' = resets,
         op'[c] \notin {"refresh", "returned", "created"}
  PROVE  StoredInv(c)'
<1>1. Transactions' = Transactions
  BY DEF Transactions
<1>2. ~ Stored(c)'
  BY <1>1, NotYetStored DEF Stored, Transactions, InTable
<1>3. c \in ApiCalls /\ resets' = 0 => \A r \in committed : r.id # c
  BY NotYetStored DEF CallInv, StoredInv, Stored, Transactions, InTable
<1>. QED
  BY <1>1, <1>2, <1>3, NotYetStored DEF StoredInv

(* The tables before the one that follows t are those before t, and t.      *)
LEMMA NextTableRank ==
  ASSUME NEW c \in Calls, NEW t \in StageTables, NEW u \in LookupTables,
         Rank(u) < Rank(NextTable(c, t))
  PROVE  Rank(u) < Rank(t) \/ u = t
  BY DEF NextTable, Rank, StageTables, LookupTables

LEMMA LookupWhole ==
  ASSUME TypeInv, SessionInv, IndexInv, WholeInv, NEW c \in Calls, Lookup(c),
         UNCHANGED adminVars
  PROVE  WholeInv'
<1> DEFINE t == tab[c]
<1>1. CallInv(c) /\ op[c] = "lookup" /\ t \in LookupTables
  BY DEF WholeInv, CallInv, StagedInv, Lookup
<1>2. t \in StageTables
  BY <1>1 DEF StageTables
<1>3. UNCHANGED <<decision, committed, inserted, deleted>>
  BY DEF Lookup
<1>4. TxRow(c)' = TxRow(c)
  BY <1>3 DEF TxRow
<1>5. \A r \in inserted[c] : r.id = c /\ r.table # "transactions"
  BY <1>1 DEF CallInv, StagedInv
<1>6. \A u \in LookupTables : Rank(u) < Rank(t) => PartyHeld(c, u, committed \cup inserted[c])
  BY <1>1 DEF CallInv, PartiesInv, Climbing
<1>7. CASE Advance(c, t) /\ (RawKey[c][t] = NoKey \/ Holds(Visible(c), t, RawKey[c][t]))
  <2>1. op'[c] = NextOp(t) /\ tab'[c] = NextTable(c, t)
    BY <1>7 DEF Advance, Goto, TypeInv, TypeOK
  <2>2. \A d \in Calls \ {c} : op'[d] = op[d] /\ tab'[d] = tab[d]
    BY <1>7 DEF Advance, Goto, TypeInv, TypeOK
  <2>3. op'[c] \in {"lookup", "evaluate"} /\ (op'[c] = "lookup" => tab'[c] \in LookupTables)
    BY <1>1, <2>1 DEF NextOp, NextTable, LookupTables
  <2>4. Visible(c) \subseteq committed \cup inserted[c]
    BY DEF Visible
  <2>5. PartyHeld(c, t, committed \cup inserted[c])
    BY <1>7, <2>4 DEF PartyHeld, Holds
  <2>6. PartiesInv(c)'
    BY <1>2, <1>3, <1>6, <2>1, <2>5, NextTableRank DEF PartiesInv, PartyHeld
  <2>7. StagedInv(c)'
    BY <1>3, <1>5, <2>3 DEF StagedInv
  <2>8. StoredInv(c)'
    BY <1>1, <1>3, <2>3, StillNothing DEF BeforeCommit
  <2>. QED
    BY <1>3, <2>2, <2>6, <2>7, <2>8, QuietStep DEF CallInv
<1>8. CASE Goto(c, "insert") /\ UNCHANGED tab
  <2>1. op'[c] = "insert" /\ \A d \in Calls \ {c} : op'[d] = op[d]
    BY <1>8 DEF Goto, TypeInv, TypeOK
  <2>2. StagedInv(c)'
    BY <1>3, <1>5, <2>1 DEF StagedInv
  <2>3. PartiesInv(c)'
    BY <1>3, <1>6, <1>8 DEF PartiesInv, PartyHeld
  <2>4. StoredInv(c)'
    BY <1>1, <1>3, <2>1, StillNothing DEF BeforeCommit
  <2>. QED
    BY <1>3, <1>8, <2>1, <2>2, <2>3, <2>4, QuietStep DEF CallInv
<1>. QED
  BY <1>7, <1>8 DEF Lookup

LEMMA InsertOkWhole ==
  ASSUME TypeInv, SessionInv, IndexInv, WholeInv, NEW c \in Calls, InsertOk(c),
         UNCHANGED adminVars
  PROVE  WholeInv'
<1> DEFINE t == tab[c]
           r == NewRow(t, RowKey(c, t), c, StoredVal(c, t))
<1>1. CallInv(c) /\ op[c] = "insert" /\ t \in StageTables
  BY DEF WholeInv, InsertOk, TypeInv, TypeOK
<1>2. Advance(c, t) /\ UNCHANGED <<decision, committed>>
  BY DEF InsertOk, Stage
<1>3. /\ inserted'[c] = inserted[c] \cup {r}
      /\ \A s \in Sessions \ {c} : inserted'[s] = inserted[s] /\ deleted'[s] = deleted[s]
  BY CallsAreIds DEF InsertOk, Stage, TypeInv, TypeOK, StoreTypeOK
<1>4. op'[c] = NextOp(t) /\ tab'[c] = NextTable(c, t)
  BY <1>2 DEF Advance, Goto, TypeInv, TypeOK
<1>5. \A d \in Calls \ {c} : op'[d] = op[d] /\ tab'[d] = tab[d]
  BY <1>2 DEF Advance, Goto, TypeInv, TypeOK
<1>6. r.table = t /\ r.id = c /\ r.key = RowKey(c, t)
  BY DEF NewRow
<1>7. t = "transactions" => r = TxRow(c)'
  BY <1>2 DEF TxRow, StoredVal
<1>8. \A x \in inserted[c] : x.id = c /\ x.table # "transactions"
  BY <1>1 DEF CallInv, StagedInv
<1>9. StagedInv(c)'
  <2>1. CASE t = "transactions"
    <3>1. op'[c] = "commit" /\ tab'[c] = "transactions"
      BY <1>4, <2>1 DEF NextOp, NextTable
    <3>. QED
      BY <1>3, <1>6, <1>7, <1>8, <2>1, <3>1 DEF StagedInv
  <2>2. CASE t # "transactions"
    <3>1. op'[c] # "commit" /\ (op'[c] = "lookup" => tab'[c] \in LookupTables)
      BY <1>1, <1>4, <2>2 DEF NextOp, NextTable, StageTables, LookupTables
    <3>. QED
      BY <1>3, <1>6, <1>8, <2>2, <3>1 DEF StagedInv
  <2>. QED
    BY <2>1, <2>2
<1>10. PartiesInv(c)'
  <2>1. \A u, k : Holds(committed \cup inserted[c], u, k)
                   => Holds((committed \cup inserted[c])', u, k)
    BY <1>2, <1>3 DEF Holds
  <2>2. \A u \in LookupTables : Rank(u) < Rank(t) => PartyHeld(c, u, committed \cup inserted[c])
    BY <1>1 DEF CallInv, PartiesInv, Climbing
  <2>3. Holds((committed \cup inserted[c])', t, RowKey(c, t))
    BY <1>3, <1>6 DEF Holds
  <2>4. ASSUME NEW u \in LookupTables, Rank(u) < Rank(NextTable(c, t))
        PROVE  PartyHeld(c, u, committed \cup inserted[c])'
    BY <1>1, <2>1, <2>2, <2>3, <2>4, NextTableRank DEF PartyHeld
  <2>. QED
    BY <1>4, <2>4 DEF PartiesInv
<1>11. StoredInv(c)'
  <2>1. op'[c] \notin {"refresh", "returned", "created"}
    BY <1>4 DEF NextOp
  <2>. QED
    BY <1>1, <1>2, <2>1, StillNothing DEF BeforeCommit
<1>. QED
  BY <1>2, <1>3, <1>5, <1>9, <1>10, <1>11, QuietStep DEF CallInv

(* A call that fails before its commit drops what it has flushed.  One that *)
(* is cut off after it has its payment stored, or a reset has taken it.     *)
LEMMA RaisesWhole ==
  ASSUME TypeInv, SessionInv, IndexInv, WholeInv, NEW c \in Calls,
         InsertRaises(c) \/ EvaluateRaises(c) \/ CutOff(c), UNCHANGED adminVars
  PROVE  WholeInv'
<1>1. /\ CallInv(c)
      /\ \/ op[c] \in {"lookup", "insert", "evaluate", "commit"}
         \/ op[c] = "refresh" /\ c \in OutageCalls
  BY DEF WholeInv, InsertRaises, EvaluateRaises, CutOff, NoConnection, ConnectionLost
<1>2. UNCHANGED <<tab, decision, committed, resets>>
  BY DEF InsertRaises, EvaluateRaises, CutOff, NoConnection, ConnectionLost, FlushFails
<1>3. op'[c] = "raised" /\ \A d \in Calls \ {c} : op'[d] = op[d]
  BY DEF InsertRaises, EvaluateRaises, CutOff, Goto, TypeInv, TypeOK
<1>4. /\ inserted'[c] = {} \/ (inserted'[c] = inserted[c] /\ op[c] # "commit")
      /\ \A s \in Sessions \ {c} : inserted'[s] = inserted[s] /\ deleted'[s] = deleted[s]
  BY CallsAreIds
  DEF InsertRaises, EvaluateRaises, CutOff, NoConnection, ConnectionLost, FlushFails, TypeInv,
      TypeOK, StoreTypeOK
<1>5. StagedInv(c)'
  BY <1>1, <1>3, <1>4 DEF CallInv, StagedInv
<1>6. PartiesInv(c)'
  BY <1>3 DEF PartiesInv, Climbing
<1>7. StoredInv(c)'
  <2>1. CASE op[c] # "refresh"
    BY <1>1, <1>2, <1>3, <2>1, StillNothing DEF BeforeCommit
  <2>2. CASE op[c] = "refresh" /\ c \in OutageCalls
    <3>1. TxRow(c)' = TxRow(c) /\ Transactions' = Transactions
      BY <1>2 DEF TxRow, Transactions
    <3>2. Stored(c)' = Stored(c) /\ PartiesStored(c)' = PartiesStored(c)
      BY <1>2 DEF Stored, PartiesStored
    <3>3. resets = 0 => Stored(c)
      BY <1>1, <2>2 DEF CallInv, StoredInv, Stored, InTable, TxRow, NewRow
    <3>. QED
      BY <1>1, <1>2, <1>3, <2>2, <3>1, <3>2, <3>3 DEF CallInv, StoredInv, BeforeCommit
  <2>. QED
    BY <1>1, <2>1, <2>2
<1>. QED
  BY <1>2, <1>3, <1>4, <1>5, <1>6, <1>7, QuietStep DEF CallInv

LEMMA EvaluateWhole ==
  ASSUME TypeInv, SessionInv, IndexInv, WholeInv, NEW c \in Calls, Evaluate(c),
         UNCHANGED adminVars
  PROVE  WholeInv'
<1>1. CallInv(c) /\ op[c] = "evaluate"
  BY DEF WholeInv, Evaluate
<1>2. UNCHANGED <<tab, committed, inserted, deleted>>
  BY DEF Evaluate
<1>3. op'[c] = "insert" /\ \A d \in Calls \ {c} : op'[d] = op[d] /\ decision'[d] = decision[d]
  BY DEF Evaluate, Goto, TypeInv, TypeOK
<1>4. StagedInv(c)'
  BY <1>1, <1>2, <1>3 DEF CallInv, StagedInv
<1>5. PartiesInv(c)'
  BY <1>1, <1>2, <1>3 DEF CallInv, PartiesInv, PartyHeld, Climbing
<1>6. StoredInv(c)'
  BY <1>1, <1>2, <1>3, StillNothing DEF BeforeCommit
<1>. QED
  BY <1>2, <1>3, <1>4, <1>5, <1>6, QuietStep DEF CallInv

LEMMA StartWhole ==
  ASSUME TypeInv, SessionInv, IndexInv, WholeInv, NEW c \in Calls, CreatePayment(c)
  PROVE  WholeInv'
<1>1. CallInv(c) /\ op[c] = "idle" /\ inserted[c] = {}
  BY DEF WholeInv, SessionInv, CreatePayment
<1>2. UNCHANGED <<decision, committed, inserted, deleted, adminVars>>
  BY DEF CreatePayment, Start
<1>3. /\ op'[c] = "lookup" /\ tab'[c] = "customers"
      /\ \A d \in Calls \ {c} : op'[d] = op[d] /\ tab'[d] = tab[d]
  BY DEF CreatePayment, Start, Goto, TypeInv, TypeOK
<1>4. StagedInv(c)'
  BY <1>1, <1>2, <1>3 DEF StagedInv, LookupTables
<1>5. PartiesInv(c)'
  BY <1>3 DEF PartiesInv, Rank, LookupTables
<1>6. StoredInv(c)'
  BY <1>1, <1>2, <1>3, StillNothing DEF BeforeCommit
<1>. QED
  BY <1>2, <1>3, <1>4, <1>5, <1>6, QuietStep DEF CallInv

(***************************************************************************)
(* The steps of a call after its commit.                                    *)
(***************************************************************************)
(* The rows are read back: a payment that is still there has both of them,  *)
(* so an error means that a reset has taken it.                             *)
LEMMA RefreshWhole ==
  ASSUME TypeInv, SessionInv, IndexInv, WholeInv, NEW c \in Calls, Refresh(c),
         UNCHANGED adminVars
  PROVE  WholeInv'
<1>1. CallInv(c) /\ op[c] = "refresh" /\ deleted[c] = {}
  BY DEF WholeInv, SessionInv, Refresh
<1>2. UNCHANGED <<tab, decision, committed, inserted, deleted>>
  BY DEF Refresh
<1>3. /\ op'[c] \in {"returned", "raised"}
      /\ \A d \in Calls \ {c} : op'[d] = op[d]
  BY DEF Refresh, Goto, TypeInv, TypeOK
<1>4. committed \subseteq Visible(c)
  BY <1>1 DEF Visible
<1>5. op'[c] = "raised" => ~ Stored(c)
  <2> SUFFICES ASSUME Stored(c) PROVE op'[c] = "returned"
    BY <1>3
  <2> DEFINE stored == {r \in Visible(c) : r.id = c}
  <2>1. PICK x \in Transactions : x.id = c
    BY DEF Stored, Transactions
  <2>2. x = TxRow(c) /\ x \in committed /\ x.table = "transactions"
    BY <1>1, <2>1 DEF CallInv, StoredInv, Transactions, InTable
  <2>3. Holds(stored, "transactions", RowKey(c, "transactions"))
    BY <1>4, <2>1, <2>2 DEF Holds, TxRow, NewRow
  <2>4. PICK e \in committed : e.table = "risk_evaluations" /\ e.key = c
    BY <2>1 DEF WholeInv, PairedInv, Holds
  <2>5. e.id = c
    BY <1>1, <2>4 DEF CallInv, StoredInv, ByTransaction
  <2>6. Holds(stored, "risk_evaluations", c)
    BY <1>4, <2>4, <2>5 DEF Holds
  <2>. QED
    BY <2>3, <2>6 DEF Refresh, Goto, TypeInv, TypeOK
<1>6. StagedInv(c)'
  BY <1>1, <1>2, <1>3 DEF CallInv, StagedInv
<1>7. PartiesInv(c)'
  BY <1>3 DEF PartiesInv, Climbing
<1>8. StoredInv(c)'
  <2>1. TxRow(c)' = TxRow(c) /\ Transactions' = Transactions
    BY <1>2 DEF TxRow, Transactions
  <2>2. Stored(c)' = Stored(c) /\ PartiesStored(c)' = PartiesStored(c)
    BY <1>2 DEF Stored, PartiesStored
  <2>3. resets = 0 => Stored(c)
    BY <1>1 DEF CallInv, StoredInv, Stored, InTable, TxRow, NewRow
  <2>. QED
    BY <1>1, <1>2, <1>3, <1>5, <2>1, <2>2, <2>3 DEF CallInv, StoredInv, BeforeCommit
<1>. QED
  BY <1>2, <1>3, <1>6, <1>7, <1>8, QuietStep DEF CallInv

LEMMA AnswerWhole ==
  ASSUME TypeInv, SessionInv, IndexInv, WholeInv, NEW c \in Calls,
         AnswerCreated(c) \/ AnswerError(c)
  PROVE  WholeInv'
<1>1. CallInv(c)
  BY DEF WholeInv
<1>2. UNCHANGED <<tab, decision, committed, adminVars>>
  BY DEF AnswerCreated, AnswerError, Close
<1>3. /\ \/ op[c] = "returned" /\ op'[c] = "created"
         \/ op[c] = "raised" /\ op'[c] = "error"
      /\ \A d \in Calls \ {c} : op'[d] = op[d]
  BY DEF AnswerCreated, AnswerError, Goto, TypeInv, TypeOK
<1>4. /\ inserted'[c] = {}
      /\ \A s \in Sessions \ {c} : inserted'[s] = inserted[s] /\ deleted'[s] = deleted[s]
  BY CallsAreIds DEF AnswerCreated, AnswerError, Close, TypeInv, TypeOK, StoreTypeOK
<1>5. StagedInv(c)'
  BY <1>3, <1>4 DEF StagedInv
<1>6. PartiesInv(c)'
  BY <1>3 DEF PartiesInv, Climbing
<1>7. StoredInv(c)'
  <2>1. TxRow(c)' = TxRow(c) /\ Transactions' = Transactions
    BY <1>2 DEF TxRow, Transactions
  <2>2. Stored(c)' = Stored(c) /\ PartiesStored(c)' = PartiesStored(c)
    BY <1>2 DEF Stored, PartiesStored
  <2>. QED
    BY <1>1, <1>2, <1>3, <2>1, <2>2 DEF CallInv, StoredInv, BeforeCommit, Unanswerable
<1>. QED
  BY <1>2, <1>3, <1>4, <1>5, <1>6, <1>7, QuietStep DEF CallInv

(***************************************************************************)
(* The commit.                                                              *)
(***************************************************************************)
(* What the commit publishes, and that nobody has deleted any of it.        *)
LEMMA CommitPublishes ==
  ASSUME TypeInv, SessionInv, IndexInv, WholeInv, NEW c \in Calls, Commits(c)
  PROVE  /\ committed' = committed \cup inserted[c] \cup ClosingRows(c)
         /\ op[c] = "commit"
         /\ op'[c] = "refresh" \/ (op'[c] = "raised" /\ c \in OutageCalls)
         /\ \A d \in Calls \ {c} : op'[d] = op[d] /\ inserted'[d] = inserted[d]
         /\ inserted'[c] = {}
         /\ deleted'[Admin] = deleted[Admin]
         /\ UNCHANGED <<tab, decision>>
         /\ \A r \in inserted[c] :
              r.id = c /\ r.table \notin ByTransaction /\ (r.table = "transactions" => r = TxRow(c))
         /\ TxRow(c) \in inserted[c]
         /\ \A r \in ClosingRows(c) :
              /\ r.table \in ByTransaction /\ r.key = c /\ r.id = c
              /\ r.table = "risk_evaluations" => r.val = decision[c]
         /\ Holds(ClosingRows(c), "risk_evaluations", c)
         /\ \A x \in Transactions : x.id # c
         /\ \A r \in committed : r.table \in ByTransaction => r.key # c
<1>1. CallInv(c) /\ op[c] = "commit" /\ deleted[c] = {}
  BY DEF WholeInv, SessionInv, Commits
<1>2. /\ committed' = committed \cup inserted[c] \cup ClosingRows(c)
      /\ \A d \in Calls \ {c} : op'[d] = op[d] /\ inserted'[d] = inserted[d]
      /\ op'[c] = "refresh" \/ (op'[c] = "raised" /\ c \in OutageCalls)
      /\ inserted'[c] = {} /\ deleted'[Admin] = deleted[Admin]
      /\ UNCHANGED <<tab, decision>>
  BY <1>1, CallsAreIds DEF Commits, Publish, Goto, TypeInv, TypeOK, StoreTypeOK
<1>3. \A r \in inserted[c] : r.id = c /\ (r.table = "transactions" => r = TxRow(c))
  BY <1>1 DEF CallInv, StagedInv
<1>4. \A r \in inserted[c] : r.table \notin ByTransaction
  BY DEF SessionInv, HoldsBelow, StageTables, LookupTables, ByTransaction
<1>5. TxRow(c) \in inserted[c]
  BY <1>1 DEF CallInv, StagedInv
<1>6. \A r \in ClosingRows(c) :
        /\ r.table \in ByTransaction /\ r.key = c /\ r.id = c
        /\ r.table = "risk_evaluations" => r.val = decision[c]
  BY DEF ClosingRows, NewRow, ByTransaction
<1>7. Holds(ClosingRows(c), "risk_evaluations", c)
  <2> DEFINE e == NewRow("risk_evaluations", c, c, decision[c])
  <2>1. e \in ClosingRows(c)
    BY DEF ClosingRows
  <2>2. e.table = "risk_evaluations" /\ e.key = c
    BY DEF NewRow
  <2>. QED
    BY <2>1, <2>2 DEF Holds
<1>8. op[c] \in BeforeCommit
  BY <1>1 DEF BeforeCommit
<1>. QED
  BY <1>1, <1>2, <1>3, <1>4, <1>5, <1>6, <1>7, <1>8, NotYetStored

(* The call's own part.                                                     *)
LEMMA CommitCall ==
  ASSUME TypeInv, SessionInv, IndexInv, WholeInv, NEW c \in Calls, Commits(c),
         UNCHANGED adminVars
  PROVE  CallInv(c)'
<1>0. CallInv(c)
  BY DEF WholeInv
<1> DEFINE all == committed \cup inserted[c] \cup ClosingRows(c)
<1>1. /\ committed' = all /\ op[c] = "commit" /\ inserted'[c] = {}
      /\ op'[c] = "refresh" \/ (op'[c] = "raised" /\ c \in OutageCalls)
      /\ UNCHANGED <<tab, decision>> /\ TxRow(c) \in inserted[c]
      /\ \A r \in inserted[c] : r.table \notin ByTransaction
                                 /\ (r.table = "transactions" => r = TxRow(c))
      /\ \A r \in ClosingRows(c) :
           /\ r.table \in ByTransaction /\ r.key = c /\ r.id = c
           /\ r.table = "risk_evaluations" => r.val = decision[c]
      /\ \A x \in Transactions : x.id # c
      /\ \A r \in committed : r.table \in ByTransaction => r.key # c
  BY CommitPublishes
<1>2. TxRow(c)' = TxRow(c)
  BY <1>1 DEF TxRow
<1>3. StagedInv(c)'
  BY <1>1 DEF StagedInv
<1>4. PartiesInv(c)'
  BY <1>1 DEF PartiesInv, Climbing
<1>5. PartiesStored(c)'
  <2>1. tab[c] = "transactions"
    BY <1>0, <1>1 DEF CallInv, StagedInv
  <2>2. \A t \in LookupTables : Rank(t) < Rank(tab[c])
    BY <2>1 DEF LookupTables, Rank
  <2>3. \A t \in LookupTables : PartyHeld(c, t, committed \cup inserted[c])
    BY <1>0, <1>1, <2>2 DEF CallInv, PartiesInv
  <2>. QED
    BY <1>1, <2>3 DEF PartiesStored, PartyHeld, Holds
<1>6. \A x \in Transactions' : x.id = c => x = TxRow(c)
  BY <1>1 DEF Transactions, InTable, ByTransaction
<1>7. \A r \in committed' : r.table \in ByTransaction /\ r.key = c =>
        r.id = c /\ (r.table = "risk_evaluations" => r.val = decision[c])
  BY <1>1
<1>8. Stored(c)'
  BY <1>1, <1>2 DEF Stored, InTable, TxRow, NewRow
<1>9. StoredInv(c)'
  BY <1>1, <1>2, <1>5, <1>6, <1>7, <1>8 DEF StoredInv, BeforeCommit
<1>. QED
  BY <1>3, <1>4, <1>9 DEF CallInv

LEMMA CommitPaired ==
  ASSUME TypeInv, SessionInv, IndexInv, WholeInv, NEW c \in Calls, Commits(c)
  PROVE  PairedInv'
<1>1. /\ committed' = committed \cup inserted[c] \cup ClosingRows(c)
      /\ \A r \in inserted[c] : r.id = c /\ r.table \notin ByTransaction
      /\ TxRow(c) \in inserted[c]
      /\ \A r \in ClosingRows(c) : r.table \in ByTransaction /\ r.key = c
      /\ Holds(ClosingRows(c), "risk_evaluations", c)
  BY CommitPublishes
<1>2. TxRow(c) \in Transactions' /\ TxRow(c).id = c
  BY <1>1 DEF Transactions, InTable, TxRow, NewRow
<1>3. Transactions \subseteq Transactions'
  BY <1>1 DEF Transactions, InTable
<1>4. ASSUME NEW x \in Transactions', x.id # c PROVE x \in Transactions
  BY <1>1, <1>4 DEF Transactions, InTable, ByTransaction
<1>5. \A i : Holds(committed, "risk_evaluations", i) => Holds(committed', "risk_evaluations", i)
  BY <1>1 DEF Holds
<1>6. Holds(committed', "risk_evaluations", c)
  BY <1>1 DEF Holds
<1>7. \A x \in Transactions' :
        /\ x.id \in Calls => Holds(committed', "risk_evaluations", x.id)
        /\ x.id \in Calls \/ x \in InitialRows
  BY <1>4, <1>5, <1>6 DEF WholeInv, PairedInv
<1>8. \A r \in committed' : r.table \in ByTransaction => \E x \in Transactions' : x.id = r.key
  BY <1>1, <1>2, <1>3 DEF WholeInv, PairedInv
<1>. QED
  BY <1>7, <1>8 DEF PairedInv

(* A payment that commits beside a reset is not among what the reset has    *)
(* deleted, and adds no label to what it has.                               *)
LEMMA CommitAdmin ==
  ASSUME TypeInv, SessionInv, IndexInv, WholeInv, NEW c \in Calls, Commits(c),
         UNCHANGED adminVars
  PROVE  AdminInv'
<1> DEFINE del == deleted[Admin]
<1>0. AdminInv
  BY DEF WholeInv
<1>1. /\ committed' = committed \cup inserted[c] \cup ClosingRows(c)
      /\ deleted'[Admin] = del
      /\ \A r \in inserted[c] : r.id = c /\ r.table \notin ByTransaction
      /\ \A r \in ClosingRows(c) : r.table \in ByTransaction /\ r.key = c
      /\ \A x \in Transactions : x.id # c
      /\ \A r \in committed : r.table \in ByTransaction => r.key # c
  BY CommitPublishes
<1>2. del \subseteq committed
  BY <1>0 DEF AdminInv
<1>3. \A k : k # c =>
        (k \in Labelled((committed \ deleted[Admin])') <=> k \in Labelled(committed \ del))
  BY <1>1 DEF Labelled, InTable, ByTransaction
<1>4. ASSUME admin \in {"evaluations", "transactions"}, NEW r \in del
      PROVE  r.table # "transactions" /\ r.key \notin Labelled((committed \ deleted[Admin])')
  <2>1. /\ r.table # "transactions" /\ r.table \in ByTransaction \cup {"transactions"}
        /\ r.key \notin Labelled(committed \ del)
    BY <1>0, <1>4 DEF AdminInv
  <2>2. r.key # c
    BY <1>1, <1>2, <2>1
  <2>. QED
    BY <1>3, <2>1, <2>2
<1>5. ASSUME admin = "truncate", NEW x \in Transactions', NEW r \in committed',
             r.table \in ByTransaction, r.key = x.id
      PROVE  x \in del <=> r \in del
  <2>1. CASE x.id = c
    <3>1. r \notin committed /\ x \notin Transactions
      BY <1>1, <1>5, <2>1
    <3>2. x \notin committed
      BY <3>1 DEF Transactions, InTable
    <3>. QED
      BY <1>2, <3>1, <3>2
  <2>2. CASE x.id # c
    <3>1. x \in Transactions
      BY <1>1, <2>2 DEF Transactions, InTable, ByTransaction
    <3>2. r \in committed
      BY <1>1, <1>5, <2>2
    <3>. QED
      BY <1>0, <1>5, <3>1, <3>2 DEF AdminInv
  <2>. QED
    BY <2>1, <2>2
<1>. QED
  BY <1>0, <1>1, <1>2, <1>4, <1>5 DEF AdminInv

LEMMA CommitWhole ==
  ASSUME TypeInv, SessionInv, IndexInv, WholeInv, NEW c \in Calls, Commits(c),
         UNCHANGED adminVars
  PROVE  WholeInv'
<1>1. ASSUME NEW d \in Calls PROVE CallInv(d)'
  <2>1. CASE d = c
    BY <2>1, CommitCall
  <2>2. CASE d # c
    <3>1. /\ committed' = committed \cup inserted[c] \cup ClosingRows(c)
          /\ op'[d] = op[d] /\ inserted'[d] = inserted[d]
          /\ tab' = tab /\ decision' = decision
          /\ \A r \in inserted[c] : r.id = c /\ r.table \notin ByTransaction
          /\ \A r \in ClosingRows(c) : r.table \in ByTransaction /\ r.key = c /\ r.id = c
      BY <2>2, CommitPublishes
    <3>2. CallInv(d) /\ resets' = resets
      BY DEF WholeInv
    <3>3. \A r \in committed' : r \notin committed =>
            /\ r.table = "transactions" \/ d \in ApiCalls => r.id # d
            /\ r.table \in ByTransaction => r.key # d
      BY <2>2, <3>1 DEF ByTransaction
    <3>. QED
      BY <3>1, <3>2, <3>3, FrameCall
  <2>. QED
    BY <2>1, <2>2
<1>. QED
  BY <1>1, CommitPaired, CommitAdmin DEF WholeInv

(***************************************************************************)
(* The reset.                                                               *)
(***************************************************************************)
(* A statement of the reset only marks rows as deleted.                     *)
LEMMA StatementWhole ==
  ASSUME TypeInv, SessionInv, WholeInv, NEW del, NEW next,
         Stage(Admin, {}, del), admin' = next, next # "idle",
         UNCHANGED callVars, resets' \in {resets, resets + 1}, resets' # 0,
         del \subseteq committed,
         \A r \in del : r.table \in ByTransaction \cup {"transactions"},
         next \in {"evaluations", "transactions"} =>
           \A r \in deleted[Admin] \cup del :
             /\ r.table # "transactions"
             /\ r.key \notin Labelled(committed \ (deleted[Admin] \cup del)),
         next = "truncate" =>
           \A x \in Transactions, r \in committed :
             r.table \in ByTransaction /\ r.key = x.id =>
               (x \in deleted[Admin] \cup del <=> r \in deleted[Admin] \cup del)
  PROVE  WholeInv'
<1>1. committed' = committed /\ inserted' = inserted /\ deleted'[Admin] = deleted[Admin] \cup del
  BY CallsAreIds DEF Stage, TypeInv, TypeOK, StoreTypeOK
<1>2. resets \in Nat
  BY DEF TypeInv, TypeOK
<1>3. resets' = 0 => resets = 0
  BY <1>2
<1>4. ASSUME NEW c \in Calls PROVE CallInv(c)'
  <2>1. CallInv(c)
    BY DEF WholeInv
  <2>. QED
    BY <1>1, <1>3, <2>1, FrameCall
<1>5. Transactions' = Transactions
  BY <1>1 DEF Transactions
<1>6. PairedInv'
  BY <1>1, <1>5 DEF WholeInv, PairedInv
<1>7. AdminInv'
  BY <1>1, <1>5 DEF WholeInv, AdminInv
<1>. QED
  BY <1>4, <1>6, <1>7 DEF WholeInv

(* The labels of background seeds: their index keeps a second label of the  *)
(* same transaction out.                                                    *)
LEMMA ResetLabelsWhole ==
  ASSUME TypeInv, SessionInv, IndexInv, WholeInv, ResetLabels
  PROVE  WholeInv'
<1> DEFINE del == {r \in InTable(committed, "ground_truth") : r.val = "background_seed"}
<1>1. deleted[Admin] = {} /\ resets \in Nat
  BY DEF WholeInv, AdminInv, ResetLabels, TypeInv, TypeOK
<1>2. /\ Stage(Admin, {}, del) /\ admin' = "evaluations" /\ UNCHANGED callVars
      /\ resets' = resets + 1
  BY DEF ResetLabels
<1>3. del \subseteq committed /\ \A r \in del : r.table = "ground_truth"
  BY DEF InTable
<1>4. ASSUME NEW r \in del PROVE r.key \notin Labelled(committed \ del)
  BY <1>3 DEF IndexInv, UniqueIndexes, Labelled, InTable
<1>5. resets' # 0
  BY <1>1, <1>2
<1>. HIDE DEF del
<1>. QED
  BY <1>1, <1>2, <1>3, <1>4, <1>5, StatementWhole DEF ByTransaction

(* What the reset sees.                                                     *)
LEMMA AdminSees ==
  ASSUME SessionInv
  PROVE  Visible(Admin) = committed \ deleted[Admin]
  BY CallsAreIds DEF SessionInv, Visible

LEMMA ResetEvaluationsWhole ==
  ASSUME TypeInv, SessionInv, IndexInv, WholeInv, ResetEvaluations
  PROVE  WholeInv'
<1> DEFINE rows == committed \ deleted[Admin]
           ids == {r.id : r \in Unlabelled(rows)}
           del == {r \in InTable(rows, "risk_evaluations") : r.key \in ids}
<1>1. AdminInv /\ admin = "evaluations" /\ resets # 0
  BY DEF WholeInv, AdminInv, ResetEvaluations
<1>2. /\ Stage(Admin, {}, del) /\ admin' = "transactions" /\ UNCHANGED callVars
      /\ resets' = resets
  BY AdminSees DEF ResetEvaluations, AdminDeletes
<1>3. del \subseteq committed /\ \A r \in del : r.table = "risk_evaluations"
  BY DEF InTable
<1>4. Labelled(committed \ (deleted[Admin] \cup del)) \subseteq Labelled(rows)
  BY DEF Labelled, InTable
<1>5. \A r \in del : r.key \notin Labelled(rows)
  BY DEF Unlabelled
<1>6. \A r \in deleted[Admin] : r.table # "transactions" /\ r.key \notin Labelled(rows)
  BY <1>1 DEF AdminInv
<1>. HIDE DEF del, rows
<1>7. \A r \in deleted[Admin] \cup del :
        /\ r.table # "transactions"
        /\ r.key \notin Labelled(committed \ (deleted[Admin] \cup del))
  BY <1>3, <1>4, <1>5, <1>6
<1>. QED
  BY <1>1, <1>2, <1>3, <1>7, StatementWhole DEF ByTransaction

(* The transactions without a label: no evaluation refers to them any more, *)
(* and whatever the reset took before referred to one of them.              *)
LEMMA ResetTransactionsWhole ==
  ASSUME TypeInv, SessionInv, IndexInv, WholeInv, ResetTransactions
  PROVE  WholeInv'
<1> DEFINE rows == committed \ deleted[Admin]
           del == Unlabelled(rows)
<1>1. AdminInv /\ admin = "transactions" /\ resets # 0
  BY DEF WholeInv, AdminInv, ResetTransactions
<1>2. /\ Stage(Admin, {}, del) /\ admin' = "truncate" /\ UNCHANGED callVars
      /\ resets' = resets
      /\ ~ Referenced(rows, {r.id : r \in del})
  BY AdminSees DEF ResetTransactions, AdminDeletes
<1>3. del \subseteq committed /\ \A r \in del : r.table = "transactions"
  BY DEF Unlabelled, InTable
<1>4. ASSUME NEW x \in Transactions, NEW r \in committed,
             r.table \in ByTransaction, r.key = x.id
      PROVE  x \in deleted[Admin] \cup del <=> r \in deleted[Admin] \cup del
  <2>1. x \notin deleted[Admin] /\ x \in InTable(rows, "transactions")
    BY <1>1 DEF AdminInv, Transactions, InTable
  <2>2. r \notin del
    BY <1>3, <1>4 DEF ByTransaction
  <2>3. ASSUME r \in deleted[Admin] PROVE x \in del
    BY <1>1, <1>4, <2>1, <2>3 DEF AdminInv, Unlabelled
  <2>4. ASSUME x \in del, r \notin deleted[Admin] PROVE FALSE
    <3>1. r \in rows
      BY <2>4
    <3>2. CASE r.table = "risk_evaluations"
      BY <1>2, <1>4, <2>4, <3>1, <3>2 DEF Referenced, InTable
    <3>3. CASE r.table = "ground_truth"
      <4>1. x.id \in Labelled(rows)
        BY <1>4, <3>1, <3>3 DEF Labelled, InTable
      <4>. QED
        BY <2>4, <4>1 DEF Unlabelled
    <3>. QED
      BY <1>4, <3>2, <3>3 DEF ByTransaction
  <2>. QED
    BY <2>1, <2>2, <2>3, <2>4
<1>5. \A x \in Transactions, r \in committed :
        r.table \in ByTransaction /\ r.key = x.id =>
          (x \in deleted[Admin] \cup del <=> r \in deleted[Admin] \cup del)
  BY <1>4
<1>. HIDE DEF del, rows
<1>6. \A r \in del : r.table \in ByTransaction \cup {"transactions"}
  BY <1>3
<1>7. Stage(Admin, {}, del) /\ admin' = "truncate" /\ UNCHANGED callVars
      /\ resets' = resets /\ resets' # 0
  BY <1>1, <1>2
<1>. QED
  BY <1>3, <1>5, <1>6, <1>7, StatementWhole

(* The reset commits: what refers to a transaction goes with it.            *)
LEMMA ResetFinishWhole ==
  ASSUME TypeInv, SessionInv, IndexInv, WholeInv, ResetFinish
  PROVE  WholeInv'
<1> DEFINE gone == deleted[Admin] \cup InTable(committed, "webhook_events")
<1>1. AdminInv /\ PairedInv /\ admin = "truncate" /\ admin' = "idle"
  BY DEF WholeInv, ResetFinish
<1>2. /\ committed' = committed \ gone
      /\ \A c \in Calls : inserted'[c] = inserted[c]
      /\ deleted'[Admin] = {} /\ UNCHANGED callVars /\ resets' = resets /\ resets # 0
  BY <1>1, CallsAreIds
  DEF ResetFinish, CommitWork, Publish, SessionInv, TypeInv, TypeOK, StoreTypeOK, AdminInv
<1>3. \A r \in gone : r.table \in ByTransaction \cup {"transactions", "webhook_events"}
  BY <1>1 DEF AdminInv, InTable
<1>4. \A r \in gone : r.table \in ByTransaction \cup {"transactions"} => r \in deleted[Admin]
  BY DEF InTable, ByTransaction
<1>. HIDE DEF gone
<1>5. ASSUME NEW c \in Calls PROVE CallInv(c)'
  <2>1. \A r \in committed : r.table \in LookupTables => r \in committed'
    BY <1>2, <1>3 DEF LookupTables, ByTransaction
  <2>2. CallInv(c)
    BY DEF WholeInv
  <2>3. \A r \in committed' : r \in committed
    BY <1>2
  <2>. QED
    BY <1>2, <2>1, <2>2, <2>3, FrameCall
<1>6. Transactions' \subseteq Transactions /\ \A x \in Transactions' : x \notin deleted[Admin]
  BY <1>2 DEF Transactions, InTable, gone
<1>7. PairedInv'
  <2>1. ASSUME NEW x \in Transactions', x.id \in Calls
        PROVE  Holds(committed', "risk_evaluations", x.id)
    <3>1. PICK e \in committed : e.table = "risk_evaluations" /\ e.key = x.id
      BY <1>1, <1>6, <2>1 DEF PairedInv, Holds
    <3>2. e \notin deleted[Admin]
      BY <1>1, <1>6, <3>1 DEF AdminInv, ByTransaction
    <3>3. e \in committed'
      BY <1>2, <1>4, <3>1, <3>2 DEF ByTransaction
    <3>. QED
      BY <3>1, <3>3 DEF Holds
  <2>2. ASSUME NEW r \in committed', r.table \in ByTransaction
        PROVE  \E x \in Transactions' : x.id = r.key
    <3>1. r \in committed /\ r \notin deleted[Admin]
      BY <1>2 DEF gone
    <3>2. PICK x \in Transactions : x.id = r.key
      BY <1>1, <2>2, <3>1 DEF PairedInv
    <3>3. x \notin deleted[Admin]
      BY <1>1, <2>2, <3>1, <3>2 DEF AdminInv
    <3>4. x \in committed'
      BY <1>2, <1>4, <3>2, <3>3 DEF Transactions, InTable
    <3>. QED
      BY <3>2, <3>4 DEF Transactions, InTable
  <2>. QED
    BY <1>1, <1>6, <2>1, <2>2 DEF PairedInv
<1>8. AdminInv'
  BY <1>1, <1>2 DEF AdminInv
<1>. QED
  BY <1>5, <1>7, <1>8 DEF WholeInv

(* The reset fails: what it had deleted is there again.                     *)
LEMMA ResetFailsWhole ==
  ASSUME TypeInv, SessionInv, WholeInv, ResetFails \/ ResetOutage
  PROVE  WholeInv'
<1>1. /\ committed' = committed /\ admin' = "idle" /\ UNCHANGED <<callVars, resets>>
      /\ deleted'[Admin] = {} /\ \A c \in Calls : inserted'[c] = inserted[c]
  BY CallsAreIds DEF ResetFails, ResetOutage, Close, TypeInv, TypeOK, StoreTypeOK
<1>2. ASSUME NEW c \in Calls PROVE CallInv(c)'
  <2>1. CallInv(c)
    BY DEF WholeInv
  <2>. QED
    BY <1>1, <2>1, FrameCall
<1>3. Transactions' = Transactions
  BY <1>1 DEF Transactions
<1>4. PairedInv'
  BY <1>1, <1>3 DEF WholeInv, PairedInv
<1>5. AdminInv'
  BY <1>1 DEF AdminInv
<1>. QED
  BY <1>2, <1>4, <1>5 DEF WholeInv

(* The server dies: the database keeps what was committed.                  *)
LEMMA CrashWhole ==
  ASSUME TypeInv, WholeInv, Crash
  PROVE  WholeInv'
<1>1. /\ committed' = committed /\ admin' = "idle" /\ UNCHANGED <<tab, decision, resets>>
      /\ deleted'[Admin] = {} /\ \A c \in Calls : inserted'[c] = {}
  BY CallsAreIds DEF Crash, CloseAll
<1>2. ASSUME NEW c \in Calls
      PROVE  (op'[c] = "lost" /\ InFlight(c)) \/ (op'[c] = op[c] /\ ~ InFlight(c))
  <2>1. op'[c] = IF InFlight(c) THEN "lost" ELSE op[c]
    BY DEF Crash
  <2>. QED
    BY <2>1
<1>3. Transactions' = Transactions
  BY <1>1 DEF Transactions
<1>4. ASSUME NEW c \in Calls PROVE CallInv(c)'
  <2>1. CallInv(c) /\ TxRow(c)' = TxRow(c)
    BY <1>1 DEF WholeInv, TxRow
  <2>2. op'[c] \notin Climbing \cup {"commit"}
    BY <1>2 DEF InFlight, Climbing, FinalOps
  <2>3. StagedInv(c)'
    BY <1>1, <2>2 DEF StagedInv, Climbing
  <2>4. PartiesInv(c)'
    BY <2>2 DEF PartiesInv
  <2>5. Stored(c)' = Stored(c) /\ PartiesStored(c)' = PartiesStored(c)
    BY <1>1 DEF Stored, PartiesStored
  <2>6. c \in ApiCalls /\ resets' = 0 /\ op'[c] \in BeforeCommit \cup Unanswerable
          => Stored(c) \/ \A r \in committed : r.id # c
    <3>1. TypeOK /\ TxRow(c).table = "transactions" /\ TxRow(c).id = c
      BY DEF TypeInv, TxRow, NewRow
    <3>2. CASE op[c] \in BeforeCommit \cup Unanswerable
      BY <1>1, <2>1, <3>2 DEF CallInv, StoredInv
    <3>3. CASE op[c] \in {"refresh", "returned"}
      BY <1>1, <2>1, <3>1, <3>3 DEF CallInv, StoredInv, Stored, InTable
    <3>4. InFlight(c) => op[c] \in BeforeCommit \cup Unanswerable \cup {"refresh", "returned"}
      BY <3>1 DEF TypeOK, Ops, FinalOps, InFlight, BeforeCommit, Unanswerable
    <3>. QED
      BY <1>2, <3>2, <3>3, <3>4
  <2>7. StoredInv(c)'
    BY <1>1, <1>2, <1>3, <2>1, <2>5, <2>6 DEF CallInv, StoredInv, BeforeCommit
  <2>. QED
    BY <2>3, <2>4, <2>7 DEF CallInv
<1>5. PairedInv'
  BY <1>1, <1>3 DEF WholeInv, PairedInv
<1>6. AdminInv'
  BY <1>1 DEF AdminInv
<1>. QED
  BY <1>4, <1>5, <1>6 DEF WholeInv

(***************************************************************************)
(* The invariant, and what follows from it.                                 *)
(***************************************************************************)
LEMMA CallWhole ==
  ASSUME NEW c \in Calls, TypeInv, SessionInv, IndexInv, WholeInv, CallAct(c)
  PROVE  WholeInv'
  BY LookupWhole, InsertOkWhole, RaisesWhole, EvaluateWhole, CommitWhole, RefreshWhole,
     AnswerWhole, OutageKinds DEF CallAct, CallStep, RunPayment, ProcessPayment

LEMMA NextWholeInv ==
  TypeInv /\ SessionInv /\ IndexInv /\ WholeInv /\ [Next]_vars => WholeInv'
<1> SUFFICES ASSUME TypeInv, SessionInv, IndexInv, WholeInv, [Next]_vars PROVE WholeInv'
  OBVIOUS
<1>0. ApiCalls \subseteq Calls
  BY ApiAssumption
<1>1. ASSUME NEW c \in ApiCalls, CreatePayment(c) PROVE WholeInv'
  BY <1>0, <1>1, StartWhole
<1>2. ASSUME NEW c \in ApiCalls, CallAct(c) PROVE WholeInv'
  BY <1>0, <1>2, CallWhole
<1>3. CASE ResetLabels \/ AdminStep \/ ResetOutage
  BY <1>3, ResetLabelsWhole, ResetEvaluationsWhole, ResetTransactionsWhole, ResetFailsWhole,
     ResetFinishWhole DEF AdminStep
<1>4. CASE Crash
  BY <1>4, CrashWhole
<1>5. CASE UNCHANGED vars
  <2>1. ASSUME NEW c \in Calls PROVE CallInv(c)'
    <3>1. CallInv(c)
      BY DEF WholeInv
    <3>. QED
      BY <1>5, <3>1, FrameCall DEF vars
  <2>2. PairedInv' /\ AdminInv'
    BY <1>5 DEF vars, WholeInv, PairedInv, AdminInv, Transactions
  <2>. QED
    BY <2>1, <2>2 DEF WholeInv
<1>. QED
  BY <1>1, <1>2, <1>3, <1>4, <1>5 DEF Next, Finished, CallAct

LEMMA SpecWholeInv == Spec => [](TypeInv /\ SessionInv /\ IndexInv /\ WholeInv)
  BY SpecSessionInv, InitIndexInv, NextIndexInv, InitWholeInv, NextWholeInv, PTL DEF Spec

LEMMA WholeIsPaymentsWhole == WholeInv => PaymentsWhole
<1> SUFFICES ASSUME WholeInv PROVE PaymentsWhole
  OBVIOUS
<1>1. ASSUME NEW x \in Transactions, x.id \in Calls
      PROVE  /\ \E e \in InTable(committed, "risk_evaluations") :
                  e.key = x.id /\ (e.val = "BLOCK" <=> x.val = "blocked")
             /\ PartiesStored(x.id)
  <2> DEFINE c == x.id
  <2>1. CallInv(c) /\ x = TxRow(c) /\ PartiesStored(c)
    BY <1>1 DEF WholeInv, CallInv, StoredInv
  <2>2. PICK e \in committed : e.table = "risk_evaluations" /\ e.key = c
    BY <1>1 DEF WholeInv, PairedInv, Holds
  <2>3. e.val = decision[c]
    BY <2>1, <2>2 DEF CallInv, StoredInv, ByTransaction
  <2>4. x.val = FinalStatus(decision[c])
    BY <2>1 DEF TxRow, NewRow
  <2>. QED
    BY <2>1, <2>2, <2>3, <2>4 DEF InTable, FinalStatus
<1>2. \A r \in committed : r.table \in ByTransaction => \E x \in Transactions : x.id = r.key
  BY DEF WholeInv, PairedInv
<1>. QED
  BY <1>1, <1>2 DEF PaymentsWhole, Transactions, ByTransaction

(* Through failed calls, crashes, and resets whose statements interleave    *)
(* with the commits of payments, every stored payment has its evaluation    *)
(* and its parties, its status is what the evaluation decided, and no       *)
(* evaluation or label is left without its transaction                      *)
(* (payment_service.py:72-112, payments.py:233-253).                        *)
THEOREM StoredWhole == Spec => []PaymentsWhole
  BY SpecWholeInv, WholeIsPaymentsWhole, PTL

(* Who is answered 500, or nothing, either has its whole payment or has not *)
(* left a row behind; and the payment is behind a 500 only of a call that   *)
(* an outage cut off (payment_service.py:112-114, deps.py:5-7).             *)
THEOREM ErrorsAllOrNothing == Spec => []ErrorAllOrNothing
<1>1. WholeInv => ErrorAllOrNothing
  <2> SUFFICES ASSUME WholeInv, NEW c \in ApiCalls
               PROVE  /\ op[c] \in {"raised", "error"} /\ Stored(c) => c \in OutageCalls
                      /\ op[c] \in Unanswerable /\ ~ Stored(c) /\ resets = 0
                           => \A r \in committed : r.id # c
    BY DEF ErrorAllOrNothing, Unanswerable
  <2>1. StoredInv(c)
    BY ApiAssumption DEF WholeInv, CallInv
  <2>. QED
    BY <2>1 DEF StoredInv
<1>. QED
  BY SpecWholeInv, <1>1, PTL

(* Of any number of calls with one transaction id, concurrent or one after  *)
(* the other, at most one is answered 201, and its payment is stored until  *)
(* the first reset (payment_service.py:74-90, models/transaction.py:12).    *)
THEOREM OneCreated == Spec => []CreatedOnce
<1>1. IndexInv /\ WholeInv => CreatedOnce
  <2> SUFFICES ASSUME IndexInv, WholeInv, resets = 0,
                      NEW c \in ApiCalls, NEW d \in ApiCalls, op[c] = "created"
               PROVE  /\ Stored(c)
                      /\ op[d] = "created"
                           /\ RowKey(c, "transactions") = RowKey(d, "transactions") => c = d
    BY DEF CreatedOnce
  <2>1. TxRow(c) \in committed /\ (op[d] = "created" => TxRow(d) \in committed)
    BY ApiAssumption DEF WholeInv, CallInv, StoredInv
  <2>2. \A e \in {c, d} : /\ TxRow(e).id = e /\ TxRow(e).table = "transactions"
                          /\ TxRow(e).key = RowKey(e, "transactions")
    BY DEF TxRow, NewRow
  <2>3. Stored(c)
    BY <2>1, <2>2 DEF Stored, InTable
  <2>4. ASSUME op[d] = "created", RowKey(c, "transactions") = RowKey(d, "transactions")
        PROVE  c = d
    <3>1. TxRow(c) = TxRow(d)
      BY <2>1, <2>2, <2>4 DEF IndexInv, UniqueIndexes
    <3>. QED
      BY <2>2, <3>1
  <2>. QED
    BY <2>3, <2>4
<1>. QED
  BY SpecWholeInv, <1>1, PTL

(***************************************************************************)
(* The refinement.  A payment comes into existence at its commit and leaves *)
(* the ledger at the commit of a reset; everything else the ledger sees is  *)
(* how far a call has got.                                                  *)
(***************************************************************************)
AbstractStatus == [c \in Calls |-> StatusOf(op[c])]

LEMMA InLedger ==
  ASSUME NEW rows, NEW i
  PROVE  i \in LedgerOf(rows) <=> \E x \in InTable(rows, "transactions") :
                                     x.id = i /\ Holds(rows, "risk_evaluations", i)
  BY DEF LedgerOf

(* A call moves, and the ledger is told how far it is.                      *)
LEMMA CallMoves ==
  ASSUME TypeInv, NEW c \in Calls, NEW o, Goto(c, o)
  PROVE  /\ AbstractStatus' = [AbstractStatus EXCEPT ![c] = StatusOf(o)]
         /\ AbstractStatus[c] = StatusOf(op[c])
  BY DEF Goto, AbstractStatus, TypeInv, TypeOK

(* A step between two operations of one status.                             *)
LEMMA SameStatus ==
  ASSUME TypeInv, NEW c \in Calls, NEW o, Goto(c, o), StatusOf(o) = StatusOf(op[c])
  PROVE  AbstractStatus' = AbstractStatus
  BY DEF Goto, AbstractStatus, TypeInv, TypeOK

LEMMA NotInLedger ==
  ASSUME NEW c, ~ Stored(c)
  PROVE  c \notin LedgerOf(committed)
  BY InLedger DEF Stored

(* The committed transaction with the id of i carries the transaction id    *)
(* the ledger knows i by.                                                   *)
LEMMA KeyOfStored ==
  ASSUME TypeInv, TrainingInv, WholeInv, NEW x \in Transactions
  PROVE  \E y \in Transactions : y.key = TransactionId[x.id]
<1>1. x.id \in Ids
  BY DEF Transactions, InTable, TypeInv, TypeOK, StoreTypeOK, Row
<1>2. CASE x.id \in Calls
  <2>1. x = TxRow(x.id)
    BY <1>2 DEF WholeInv, CallInv, StoredInv
  <2>2. x.key = RowKey(x.id, "transactions")
    BY <2>1 DEF TxRow, NewRow
  <2>. QED
    BY <1>1, <1>2, <2>2 DEF TransactionId
<1>3. CASE x.id \notin Calls
  <2> DEFINE P(r) == r.id = x.id
             y == CHOOSE r \in InTable(InitialRows, "transactions") : P(r)
  <2>1. x \in InTable(InitialRows, "transactions")
    BY <1>3 DEF WholeInv, PairedInv, Transactions, InTable
  <2>2. y \in InTable(InitialRows, "transactions")
    BY <2>1
  <2>3. y \in Transactions
    BY <2>2 DEF TrainingInv, Transactions, InTable
  <2>4. TransactionId[x.id] = y.key
    BY <1>1, <1>3 DEF TransactionId
  <2>. QED
    BY <2>3, <2>4
<1>. QED
  BY <1>2, <1>3

(* The commit adds the payment to the ledger, heard or not.                 *)
LEMMA CommitAccepts ==
  ASSUME TypeInv, SessionInv, IndexInv, TrainingInv, WholeInv, NEW c \in Calls, Commits(c)
  PROVE  Ledger!Accept(c)
<1>1. /\ committed' = committed \cup inserted[c] \cup ClosingRows(c)
      /\ \A r \in inserted[c] : r.id = c /\ r.table \notin ByTransaction
      /\ TxRow(c) \in inserted[c]
      /\ \A r \in ClosingRows(c) : r.table \in ByTransaction /\ r.key = c
      /\ Holds(ClosingRows(c), "risk_evaluations", c)
      /\ op[c] = "commit"
  BY CommitPublishes
<1>2. TxRow(c).table = "transactions" /\ TxRow(c).id = c
      /\ TxRow(c).key = RowKey(c, "transactions")
  BY DEF TxRow, NewRow
<1>3. \A y \in Transactions : y.key # RowKey(c, "transactions")
  BY <1>1, <1>2 DEF IndexInv, Clash, Transactions, InTable
<1>4. TransactionId[c] = RowKey(c, "transactions")
  BY CallsAreIds DEF TransactionId
<1>5. ASSUME NEW i \in LedgerOf(committed) PROVE TransactionId[i] # TransactionId[c]
  <2>1. PICK x \in Transactions : x.id = i
    BY InLedger DEF Transactions
  <2>. QED
    BY <1>3, <1>4, <2>1, KeyOfStored
<1>6. LedgerOf(committed') = LedgerOf(committed) \cup {c}
  <2>1. c \in LedgerOf(committed')
    <3>1. Holds(committed', "risk_evaluations", c)
      BY <1>1 DEF Holds
    <3>2. TxRow(c) \in InTable(committed', "transactions")
      BY <1>1, <1>2 DEF InTable
    <3>. QED
      BY <1>2, <3>1, <3>2, InLedger
  <2>2. ASSUME NEW i \in LedgerOf(committed) PROVE i \in LedgerOf(committed')
    <3>1. PICK x \in InTable(committed, "transactions") :
            x.id = i /\ Holds(committed, "risk_evaluations", i)
      BY InLedger
    <3>2. x \in InTable(committed', "transactions") /\ Holds(committed', "risk_evaluations", i)
      BY <1>1, <3>1 DEF InTable, Holds
    <3>. QED
      BY <3>1, <3>2, InLedger
  <2>3. ASSUME NEW i \in LedgerOf(committed'), i # c PROVE i \in LedgerOf(committed)
    <3>1. PICK x \in InTable(committed', "transactions") :
            x.id = i /\ Holds(committed', "risk_evaluations", i)
      BY InLedger
    <3>2. x \in InTable(committed, "transactions")
      BY <1>1, <2>3, <3>1 DEF InTable, ByTransaction
    <3>3. Holds(committed, "risk_evaluations", i)
      BY <1>1, <2>3, <3>1 DEF Holds, ByTransaction
    <3>. QED
      BY <3>1, <3>2, <3>3, InLedger
  <2>. QED
    BY <2>1, <2>2, <2>3
<1>7. /\ AbstractStatus[c] = "open"
      /\ \/ AbstractStatus' = [AbstractStatus EXCEPT ![c] = "stored"]
         \/ c \in OutageCalls /\ AbstractStatus' = [AbstractStatus EXCEPT ![c] = "failed"]
  <2>1. /\ StatusOf("refresh") = "stored" /\ StatusOf("raised") = "failed"
        /\ StatusOf(op[c]) = "open"
    BY <1>1 DEF StatusOf
  <2>2. Goto(c, "refresh") \/ (c \in OutageCalls /\ Goto(c, "raised"))
    BY DEF Commits
  <2>. QED
    BY <2>1, <2>2, CallMoves
<1>. QED
  BY <1>5, <1>6, <1>7 DEF Ledger!Accept, Ledger!Become, AbstractStatus

LEMMA CallRefines ==
  ASSUME TypeInv, SessionInv, IndexInv, TrainingInv, WholeInv, WholeInv', NEW c \in Calls,
         CallAct(c)
  PROVE  Ledger!LedgerNext \/ UNCHANGED Ledger!ledgerVars
<1>1. CASE Lookup(c) \/ InsertOk(c) \/ Evaluate(c)
  <2>1. UNCHANGED committed
    BY <1>1 DEF Lookup, InsertOk, Stage, Evaluate
  <2>2. StatusOf(op[c]) = "open"
    BY <1>1 DEF Lookup, InsertOk, Evaluate, StatusOf
  <2>3. PICK o : Goto(c, o) /\ StatusOf(o) = "open"
    BY <1>1 DEF Lookup, InsertOk, Evaluate, Advance, NextOp, StatusOf
  <2>4. AbstractStatus' = AbstractStatus
    BY <2>2, <2>3, SameStatus
  <2>. QED
    BY <2>1, <2>4 DEF Ledger!ledgerVars, AbstractStatus, LedgerOf
<1>2. CASE Commits(c)
  BY <1>2, CommitAccepts DEF Ledger!LedgerNext
<1>3. CASE (InsertRaises(c) \/ EvaluateRaises(c) \/ Refresh(c) \/ CutOff(c)) /\ Goto(c, "raised")
  <2>1. UNCHANGED committed
    BY <1>3 DEF InsertRaises, FlushFails, EvaluateRaises, Refresh, CutOff, NoConnection,
                ConnectionLost
  <2>2. StatusOf(op[c]) \in {"open", "stored"} /\ StatusOf("raised") = "failed"
    BY <1>3 DEF InsertRaises, EvaluateRaises, Refresh, CutOff, NoConnection, ConnectionLost,
                StatusOf
  <2>3. ~ Stored(c) \/ (c \in OutageCalls /\ StatusOf(op[c]) = "stored")
    <3>1. op'[c] = "raised"
      BY <1>3 DEF Goto, TypeInv, TypeOK
    <3>2. ~ Stored(c) \/ c \in OutageCalls
      BY <2>1, <3>1 DEF WholeInv, CallInv, StoredInv, Stored
    <3>3. StatusOf(op[c]) = "open" => ~ Stored(c)
      <4>1. StatusOf(op[c]) = "open" => op[c] \in BeforeCommit
        BY <1>3 DEF InsertRaises, EvaluateRaises, Refresh, CutOff, NoConnection, ConnectionLost,
                    StatusOf, BeforeCommit
      <4>. QED
        BY <4>1 DEF WholeInv, CallInv, StoredInv, Stored, Transactions
    <3>. QED
      BY <2>2, <3>2, <3>3
  <2>4. c \notin LedgerOf(committed) \/ (c \in OutageCalls /\ StatusOf(op[c]) = "stored")
    BY <2>3, NotInLedger
  <2>5. /\ AbstractStatus' = [AbstractStatus EXCEPT ![c] = "failed"]
        /\ AbstractStatus[c] = StatusOf(op[c])
    BY <1>3, <2>2, CallMoves
  <2>6. Ledger!Fail(c)
    BY <2>1, <2>2, <2>4, <2>5 DEF Ledger!Fail, Ledger!Become, AbstractStatus
  <2>. QED
    BY <2>6 DEF Ledger!LedgerNext
<1>4. CASE Refresh(c) /\ Goto(c, "returned")
  <2>1. UNCHANGED committed /\ StatusOf("returned") = StatusOf(op[c])
    BY <1>4 DEF Refresh, StatusOf
  <2>. QED
    BY <1>4, <2>1, SameStatus DEF Ledger!ledgerVars, AbstractStatus, LedgerOf
<1>5. CASE AnswerCreated(c)
  <2>1. /\ UNCHANGED committed /\ Goto(c, "created")
        /\ StatusOf("created") = "created" /\ StatusOf(op[c]) = "stored"
    BY <1>5 DEF AnswerCreated, Close, StatusOf
  <2>2. Ledger!AnswerOk(c)
    BY <2>1, CallMoves DEF Ledger!AnswerOk, Ledger!Become, AbstractStatus
  <2>. QED
    BY <2>2 DEF Ledger!LedgerNext
<1>6. CASE AnswerError(c)
  <2>1. /\ UNCHANGED committed /\ Goto(c, "error")
        /\ StatusOf("error") = "error" /\ StatusOf(op[c]) = "failed"
    BY <1>6 DEF AnswerError, Close, StatusOf
  <2>2. Ledger!AnswerFailure(c)
    BY <2>1, CallMoves DEF Ledger!AnswerFailure, Ledger!Become, AbstractStatus
  <2>. QED
    BY <2>2 DEF Ledger!LedgerNext
<1>. QED
  BY <1>1, <1>2, <1>3, <1>4, <1>5, <1>6, OutageKinds
  DEF CallAct, CallStep, RunPayment, ProcessPayment, InsertRaises, EvaluateRaises, Refresh, CutOff

(* The commit of a reset is Clear, every other statement of it a stutter.   *)
LEMMA ResetRefines ==
  ASSUME SessionInv, TrainingInv', WholeInv, ResetLabels \/ AdminStep \/ ResetOutage
  PROVE  Ledger!LedgerNext \/ UNCHANGED Ledger!ledgerVars
<1>1. AbstractStatus' = AbstractStatus
  BY DEF ResetLabels, AdminStep, ResetEvaluations, ResetTransactions, ResetFails, ResetFinish,
         ResetOutage, AdminDeletes, AbstractStatus
<1>2. CASE UNCHANGED committed
  BY <1>1, <1>2 DEF Ledger!ledgerVars, AbstractStatus, LedgerOf
<1>3. CASE ResetFinish
  <2> DEFINE S == LedgerOf(committed) \ LedgerOf(committed')
  <2>1. committed' \subseteq committed
    BY <1>3, CallsAreIds DEF ResetFinish, CommitWork, Publish, SessionInv
  <2>2. ASSUME NEW a, NEW b, a \subseteq b PROVE LedgerOf(a) \subseteq LedgerOf(b)
    <3> SUFFICES ASSUME NEW i \in LedgerOf(a) PROVE i \in LedgerOf(b)
      OBVIOUS
    <3>1. PICK x \in InTable(a, "transactions") : x.id = i /\ Holds(a, "risk_evaluations", i)
      BY InLedger
    <3>2. x \in InTable(b, "transactions") /\ Holds(b, "risk_evaluations", i)
      BY <2>2, <3>1 DEF InTable, Holds
    <3>. QED
      BY <3>1, <3>2, InLedger
  <2>3. LedgerOf(committed') \subseteq LedgerOf(committed)
    BY <2>1, <2>2
  <2>4. LedgerOf(InitialRows) \subseteq LedgerOf(committed')
    BY <2>2 DEF TrainingInv
  <2>5. S \cap LedgerOf(InitialRows) = {} /\ S \in SUBSET LedgerOf(committed)
    BY <2>4
  <2>6. LedgerOf(committed') = LedgerOf(committed) \ S
    BY <2>3
  <2>7. Ledger!Clear(S)
    BY <1>1, <2>5, <2>6 DEF Ledger!Clear, AbstractStatus
  <2>. QED
    BY <2>5, <2>7 DEF Ledger!LedgerNext
<1>4. ResetFinish \/ UNCHANGED committed
  BY DEF ResetLabels, AdminStep, ResetEvaluations, ResetTransactions, ResetFails, ResetOutage,
         AdminDeletes, Stage, Close
<1>. QED
  BY <1>2, <1>3, <1>4

LEMMA CrashRefines ==
  ASSUME TypeInv, Crash
  PROVE  Ledger!LedgerNext
<1> DEFINE S == {c \in Calls : InFlight(c)}
<1>1. \A c \in S : AbstractStatus[c] \in Ledger!Unanswered
  BY DEF InFlight, FinalOps, AbstractStatus, StatusOf, Ledger!Unanswered, TypeInv, TypeOK, Ops
<1>2. AbstractStatus' = [c \in Calls |-> IF c \in S THEN "lost" ELSE AbstractStatus[c]]
  <2>1. ASSUME NEW c \in Calls
        PROVE  StatusOf(op'[c]) = IF c \in S THEN "lost" ELSE StatusOf(op[c])
    <3>1. op'[c] = IF InFlight(c) THEN "lost" ELSE op[c]
      BY DEF Crash
    <3>2. StatusOf("lost") = "lost"
      BY DEF StatusOf
    <3>. QED
      BY <3>1, <3>2
  <2>. QED
    BY <2>1 DEF AbstractStatus
<1>3. UNCHANGED committed
  BY DEF Crash, CloseAll
<1>4. Ledger!Lose(S)
  BY <1>1, <1>2, <1>3 DEF Ledger!Lose, AbstractStatus, LedgerOf
<1>. QED
  BY <1>4 DEF Ledger!LedgerNext

(* The endpoint, with its sessions, locks, flushes, rollbacks, outages,     *)
(* resets and crashes, does nothing a ledger that stores each payment in one step      *)
(* could not do (payment_service.py:17-114, payments.py:224-260).           *)
THEOREM EndpointRefinesLedger == Spec => ImplementsLedger
<1> DEFINE Inv == TypeInv /\ SessionInv /\ IndexInv /\ WholeInv
<1>1. Init => Ledger!LedgerInit
  BY DEF Init, ServiceInit, StoreInit, Ledger!LedgerInit, StatusOf
<1>2. Inv /\ Inv' /\ TrainingInv /\ TrainingInv' /\ [Next]_vars
        => [Ledger!LedgerNext]_(Ledger!ledgerVars)
  <2> SUFFICES ASSUME Inv, Inv', TrainingInv, TrainingInv', [Next]_vars
               PROVE  Ledger!LedgerNext \/ UNCHANGED Ledger!ledgerVars
    OBVIOUS
  <2>0. ApiCalls \subseteq Calls
    BY ApiAssumption
  <2>1. ASSUME NEW c \in ApiCalls, CreatePayment(c)
        PROVE  UNCHANGED Ledger!ledgerVars
    <3>1. /\ UNCHANGED committed /\ Goto(c, "lookup")
          /\ StatusOf("lookup") = StatusOf(op[c])
      BY <2>1 DEF CreatePayment, Start, StatusOf
    <3>. QED
      BY <2>0, <3>1, SameStatus DEF Ledger!ledgerVars, AbstractStatus, LedgerOf
  <2>2. ASSUME NEW c \in ApiCalls, CallAct(c)
        PROVE  Ledger!LedgerNext \/ UNCHANGED Ledger!ledgerVars
    BY <2>0, <2>2, CallRefines
  <2>3. CASE ResetLabels \/ AdminStep \/ ResetOutage
    BY <2>3, ResetRefines
  <2>4. CASE Crash
    BY <2>4, CrashRefines
  <2>5. CASE UNCHANGED vars
    BY <2>5 DEF vars, Ledger!ledgerVars, LedgerOf
  <2>. QED
    BY <2>1, <2>2, <2>3, <2>4, <2>5 DEF Next, Finished, CallAct
<1>3. Spec => []TrainingInv
  <2>1. Init => TrainingInv
    BY CallsAreIds DEF Init, ServiceInit, StoreInit, TrainingInv
  <2>. QED
    BY SpecSessionInv, <2>1, NextTrainingInv, PTL DEF Spec
<1>. QED
  BY <1>1, <1>2, <1>3, SpecWholeInv, PTL DEF Spec, ImplementsLedger, Ledger!LedgerSpec

=============================================================================
