--------------------------- MODULE PaymentHistory ---------------------------
(***************************************************************************)
(* The risk engine over time: extract_features reads what earlier payments  *)
(* left in the database, the decision becomes the status of the payment     *)
(* that is stored, and that status is what later payments are judged by.    *)
(* Handlers evaluate at the same time and see only what is committed.       *)
(* All payments of the log were evaluated: background seeds, which are      *)
(* completed without the engine (payment_service.py:61-68), are left out.   *)
(***************************************************************************)
EXTENDS RiskEngine, Sequences, FiniteSetsExt

CONSTANTS
  Plans,          \* the sequences of payment requests that may arrive, each
                  \* with what the model answers for it
  Handlers,       \* how many requests are handled at a time
  MaxOld,         \* bound: how many payments grow more than an hour old
  Absent          \* a device, an address or a place the request leaves out

(* A PaymentRequest's amount is greater than zero (schemas/transaction.py). *)
ASSUME HistoryAssumption ==
  /\ Handlers \in Nat /\ MaxOld \in Nat /\ Absent \notin Nat
  /\ \A p \in Plans :
       /\ Len(p) \in Nat /\ DOMAIN p = 1..Len(p)
       /\ \A i \in DOMAIN p :
            /\ p[i].amount \in Nat \ {0} /\ p[i].place \in Nat \cup {Absent}
            /\ p[i].probability \in 0..1000

VARIABLES
  plan,           \* the requests of this behaviour, in order of arrival
  arrived,        \* how many of them have arrived
  working,        \* requests evaluated and not committed, with what was seen
  log,            \* the payments committed, in order: request and status
  old             \* how many of them are more than an hour old

historyVars == <<plan, arrived, working, log, old>>

FinalStatus(d) == IF d = "BLOCK" THEN "blocked" ELSE "completed"

(***************************************************************************)
(* extract_features.  The service has stored the customer and the device    *)
(* before it evaluates, so both are always found.                           *)
(***************************************************************************)
Paid(i) == log[i].request

Completed(i) == log[i].status = "completed"

Earlier(r) == {i \in DOMAIN log : Paid(i).customer = r.customer}

Newest(S, n) == {i \in S : Cardinality({j \in S : j > i}) < n}

TotalOf(f, S) == MapThenSumSet(LAMBDA i : Paid(i)[f], S)

(* The amount in tenths of the average of all earlier payments, rounded up  *)
(* so that more than five times the average is more than 50.                *)
Multiple(r) ==
  LET S == Earlier(r)
      total == TotalOf("amount", S)
  IN IF total = 0 THEN 0 ELSE (10 * r.amount * Cardinality(S) + total - 1) \div total

CustomersOf(f, r) ==
  IF r[f] = Absent THEN 1
    ELSE Most(1, Cardinality({Paid(i).customer : i \in {j \in DOMAIN log : Paid(j)[f] = r[f]}}))

(* A payment without a device counts as coming from a new one.              *)
NewDevice(r) ==
  r.device = Absent \/
    \A i \in Earlier(r) : ~ (Paid(i).device = r.device /\ Completed(i))

Failures(r) ==
  LET S == Newest(Earlier(r), 10)
  IN Cardinality({i \in S : \A j \in S : j >= i => log[j].status = "failed"})

(* Fault: the distance has a sign.                                          *)
SignedDistance(r) ==
  LET S == Newest({i \in Earlier(r) : Paid(i).place # Absent /\ Completed(i)}, 10)
  IN IF r.place = Absent \/ S = {} THEN 0
       ELSE r.place - (TotalOf("place", S) \div Cardinality(S))

(* The distance to the mean of the last ten places of completed payments.   *)
Distance(r) ==
  LET S == Newest({i \in Earlier(r) : Paid(i).place # Absent /\ Completed(i)}, 10)
      home == TotalOf("place", S) \div Cardinality(S)
  IN IF r.place = Absent \/ S = {} THEN 0
       ELSE Most(r.place - home, home - r.place)

Features(r) ==
  [multiple |-> Multiple(r), micro |-> r.amount < 250,
   velocity |-> Cardinality({i \in Earlier(r) : i > old}),
   newDevice |-> NewDevice(r), deviceCustomers |-> CustomersOf("device", r),
   distance |-> Distance(r), failures |-> Failures(r),
   ipCustomers |-> CustomersOf("ip", r), probability |-> r.probability]

(***************************************************************************)
(* The handlers.                                                           *)
(***************************************************************************)
Evaluate ==
  /\ arrived < Len(plan) /\ Cardinality(working) < Handlers
  /\ arrived' = arrived + 1
  /\ LET x == Features(plan[arrived'])
     IN working' = working \cup
          {[id |-> arrived', seen |-> x, decision |-> Decision(x, Detectors)]}
  /\ UNCHANGED <<plan, log, old>>

Store(w) ==
  /\ working' = working \ {w}
  /\ log' = Append(log, [request |-> plan[w.id], status |-> FinalStatus(w.decision)])
  /\ UNCHANGED <<plan, arrived, old>>

(* The handler fails after evaluating: nothing is stored.                   *)
Abandon(w) ==
  /\ working' = working \ {w}
  /\ UNCHANGED <<plan, arrived, log, old>>

(* The oldest recent payment leaves the hour that velocity looks at.        *)
Age ==
  /\ old < Least(Len(log), MaxOld)
  /\ old' = old + 1
  /\ UNCHANGED <<plan, arrived, working, log>>

HistoryInit ==
  /\ plan \in Plans
  /\ arrived = 0 /\ working = {} /\ log = <<>> /\ old = 0

AllHandled == arrived = Len(plan) /\ working = {} /\ UNCHANGED historyVars

HistoryNext ==
  \/ Evaluate
  \/ \E w \in working : Store(w) \/ Abandon(w)
  \/ Age
  \/ AllHandled

HistorySpec == HistoryInit /\ [][HistoryNext]_historyVars

(***************************************************************************)
(* Properties.                                                             *)
(***************************************************************************)
(* The history stays in order and every decision is one of the four.        *)
HistoryTypeOK ==
  /\ arrived \in 0..Len(plan) /\ old \in 0..Len(log)
  /\ \A w \in working : w.id \in 1..arrived /\ w.seen \in Context /\ w.decision \in Decisions

(* "MicroTransactionDetector fires on every probe" and blocks it            *)
(* (scenarios.py:260), whatever the history and the model say.  This is     *)
(* about payments that are evaluated; a background seed would be completed. *)
MicroAlwaysBlocked ==
  \A i \in DOMAIN log : Paid(i).amount < 250 => ~ Completed(i)

Accepted(c) ==
  {i \in old + 1..Len(log) : Paid(i).customer = c /\ Completed(i)}

Accepting(c) ==
  {w \in working : plan[w.id].customer = c /\ w.decision # "BLOCK"}

(* Velocity is counted before the payment is stored, so handlers that run   *)
(* at the same time do not see each other.  A burst still gets no further   *)
(* than 17 payments in an hour and one more per handler                     *)
(* (extractor.py:61-67, rules.py:21-41).  Background seeds are not judged,  *)
(* and not counted here.                                                    *)
BurstBounded ==
  \A c \in {plan[i].customer : i \in DOMAIN plan} :
    Cardinality(Accepted(c)) + Cardinality(Accepting(c)) <= 17 + Handlers

(* A detector that is skipped because it raised, the model included, never  *)
(* makes the decision stricter (evaluator.py:45-54, README "Graceful        *)
(* degradation").                                                           *)
DegradedNeverStricter ==
  \A w \in working :
    \A ran \in SUBSET {d \in Detectors : SignalOf(d, w.seen) # Silent} :
      Rank(Decision(w.seen, ran)) <= Rank(w.decision)

(* The same payment with more of one piece of evidence.  Two that are none: *)
(* a smaller amount, which is evidence only below 2.50, and a device that   *)
(* becomes new, which hides how many customers share it (rules.py:43-63).   *)
Worse(x) ==
  UNION { { [x EXCEPT !.velocity = @ + n], [x EXCEPT !.distance = @ + 900 * n],
            [x EXCEPT !.multiple = @ + 7 * n], [x EXCEPT !.ipCustomers = @ + n],
            [x EXCEPT !.failures = @ + n],
            [x EXCEPT !.probability = Least(@ + 40 * n, 1000)] } : n \in {1, 6} }

(* More evidence never lowers the score, across every threshold of the      *)
(* detectors that Worse moves (rules.py:6-110, ml_detector.py:8-52).        *)
MonotoneInEvidence ==
  \A w \in working :
    LET score == Score(w.seen, Detectors)
    IN \A y \in Worse(w.seen) : Score(y, Detectors) >= score

=============================================================================
