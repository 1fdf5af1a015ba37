--------------------------- MODULE MCSimulationLab ---------------------------
(***************************************************************************)
(* Small instances of SimulationLab: runs of every generator, short enough  *)
(* to cut off a phase and long enough for seven customers at one address.   *)
(***************************************************************************)
EXTENDS SimulationLab

CONSTANTS
  Lengths,   \* n_transactions
  Tenths     \* fraud_pct

Draws == {"low", "high", "rising"}

(* The first or the last customers are the frauds.                          *)
FraudSets(g, n, t) ==
  LET f == FraudCustomers(g, n, t)
      c == Customers(g, n)
  IN {1..f, c - f + 1..c}

(* Every generator with a history, every one with groups, and mixed_fraud.  *)
HistoryPlans(n, t) ==
  UNION {{HistoryScenario(g, 1, n, frauds, draw) :
            frauds \in FraudSets(g, n, t), draw \in Draws} : g \in DOMAIN WithHistory}

GroupPlans(n, t) ==
  {GroupScenario(g, 1, n, t, draw) : g \in DOMAIN WithGroups, draw \in Draws}

(* Each part of a mixed run has five customers, of whom the first are the   *)
(* frauds; the generators drawn are all the same or alternate.              *)
MixedPlans(n, t) ==
  LET frauds == [k \in 1..n |-> 1..FraudCustomers("normal_traffic", 1, t)]
  IN {Mixed(n, t, draw, [k \in 1..n |-> IF k % 2 = 0 THEN g ELSE "card_testing"], frauds) :
        draw \in Draws, g \in {"normal_traffic", "card_testing"}}

MCPlans ==
  UNION {HistoryPlans(n, t) \cup GroupPlans(n, t) \cup MixedPlans(n, t) :
           n \in Lengths, t \in Tenths}

=============================================================================
