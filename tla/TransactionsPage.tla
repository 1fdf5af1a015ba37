-------------------------- MODULE TransactionsPage --------------------------
(***************************************************************************)
(* The transactions page and the alert badge of the layout around it: both  *)
(* poll the payments API every two seconds and show whatever is answered    *)
(* last.  The API reads the payments in several statements, each of which   *)
(* sees what is committed by then.  Payments are numbered in the order in   *)
(* which they are stored.                                                   *)
(***************************************************************************)
EXTENDS ApiClient

CONSTANTS
  Pages,          \* the pages of the list, 1 the newest payments
  PageSize,       \* payments on a page
  Already,        \* payments stored before the page is opened
  MaxPayments,    \* bound: how many are stored in the end
  MaxQueries      \* bound: how often the user turns to another page

ASSUME TransactionsPageAssumption ==
  /\ Pages \subseteq Nat \ {0} /\ PageSize \in Nat \ {0}
  /\ Already \in Nat /\ MaxPayments \in Nat /\ MaxQueries \in Nat

VARIABLES
  stored,         \* how many payments are committed
  query,          \* page of the list the user has chosen
  queries,        \* how often
  data,           \* the list that is shown, None before the first answer
  error,          \* whether an error was set: it is never cleared
  badge           \* alertsCount

listVars == <<stored, query, queries, data, error, badge>>

ListAsk(q) == [kind |-> "list", page |-> q]
SummaryAsk == [kind |-> "summary"]

(* Every other payment is to be reviewed.                                   *)
Review(n) == (n + 1) \div 2

(* offset((page - 1) * size).limit(size) of n payments, the newest first.   *)
Items(q, n) ==
  {p \in 1..n : p <= n - (q - 1) * PageSize /\ p > n - q * PageSize}

(***************************************************************************)
(* The API.                                                                *)
(***************************************************************************)
(* list_payments: the count, then the page.                                 *)
ServeList(c) ==
  /\ Open(c, "list")
  /\ \/ calls[c].seen = <<>> /\ Read(c, stored)
     \/ /\ calls[c].seen # <<>>
        /\ Respond(c, [total |-> calls[c].seen[1], items |-> Items(calls[c].ask.page, stored)])
  /\ UNCHANGED <<mounted, listVars>>

(* get_summary: the total and the risk levels, then the decisions, of which *)
(* those to review reach the badge.                                         *)
ServeSummary(c) ==
  /\ Open(c, "summary")
  /\ \/ calls[c].seen = <<>> /\ Read(c, "levels")
     \/ calls[c].seen # <<>> /\ Respond(c, Review(stored))
  /\ UNCHANGED <<mounted, listVars>>

(* A payment is committed.                                                  *)
StorePayment ==
  /\ stored < MaxPayments /\ stored' = stored + 1
  /\ UNCHANGED <<mounted, clientVars, query, queries, data, error, badge>>

(***************************************************************************)
(* The page.                                                               *)
(***************************************************************************)
(* Another page of the list: its effect loads at once.                      *)
Turn(q) ==
  /\ mounted /\ queries < MaxQueries /\ queries' = queries + 1
  /\ q # query /\ query' = q
  /\ Send(<<ListAsk(q)>>)
  /\ UNCHANGED <<mounted, stored, data, error, badge>>

(* handleSearch: the load it calls still has the old page, and the effect   *)
(* of the change to the first page loads that one.                          *)
Search ==
  /\ mounted /\ queries < MaxQueries /\ queries' = queries + 1
  /\ query' = 1
  /\ Send(<<ListAsk(query)>> \o IF query = 1 THEN <<>> ELSE <<ListAsk(1)>>)
  /\ UNCHANGED <<mounted, stored, data, error, badge>>

(* Fault: the interval keeps the load of the first render.                  *)
ReloadFirst ==
  /\ mounted /\ Send(<<ListAsk(1)>>)
  /\ UNCHANGED <<mounted, listVars>>

(* The interval loads what is chosen.                                       *)
Reload ==
  /\ mounted /\ Send(<<ListAsk(query)>>)
  /\ UNCHANGED <<mounted, listVars>>

(* The layout's interval.                                                   *)
ReloadBadge ==
  /\ mounted /\ Send(<<SummaryAsk>>)
  /\ UNCHANGED <<mounted, listVars>>

ListAnswered(c) ==
  /\ Answered(c, "list") /\ Take(c)
  /\ data' = [page |-> calls[c].ask.page, list |-> Answer(c)]
  /\ UNCHANGED <<mounted, stored, query, queries, error, badge>>

ListRejected(c) ==
  /\ Rejected(c, "list") /\ Take(c)
  /\ error' = TRUE
  /\ UNCHANGED <<mounted, stored, query, queries, data, badge>>

SummaryAnswered(c) ==
  /\ Answered(c, "summary") /\ Take(c)
  /\ badge' = Answer(c)
  /\ UNCHANGED <<mounted, stored, query, queries, data, error>>

SummaryRejected(c) ==
  Rejected(c, "summary") /\ Take(c) /\ UNCHANGED <<mounted, listVars>>

LeaveList == mounted /\ mounted' = FALSE /\ UNCHANGED <<clientVars, listVars>>

ListInit ==
  /\ stored = Already /\ query = 1 /\ queries = 0
  /\ data = [page |-> 0] /\ error = FALSE /\ badge = -1

ListCall(c) ==
  \/ ServeList(c) \/ ListAnswered(c) \/ ListRejected(c)
  \/ ServeSummary(c) \/ SummaryAnswered(c) \/ SummaryRejected(c)

ListNext ==
  \/ StorePayment \/ Search \/ Reload \/ ReloadBadge \/ LeaveList
  \/ \E q \in Pages : Turn(q)
  \/ \E c \in 1..Slots : ListCall(c)

(* The list, unless an error has taken its place, and the badge show what   *)
(* there is.                                                                *)
UpToDate ==
  /\ error \/ data = [page |-> query, list |-> [total |-> stored, items |-> Items(query, stored)]]
  /\ badge = Review(stored)

=============================================================================
