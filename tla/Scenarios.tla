------------------------------ MODULE Scenarios ------------------------------
(***************************************************************************)
(* The generators of backend/app/simulation/scenarios.py as functions of    *)
(* their arguments: the payments of a run, in order, with their labels.     *)
(* Amounts are in cents, fraud_pct in tenths.  Customers are fresh in each  *)
(* call, own devices have fixed fingerprints and so return in every call.   *)
(***************************************************************************)
EXTENDS RiskEngine, Sequences

(* Generators with a history: the payments of a customer before the test    *)
(* payment, the usual and the attacker's range of amounts, and whether the  *)
(* attacker has the customer's device.                                      *)
normal_traffic ==
  [history |-> 3, usual |-> <<2000, 15000>>, attack |-> <<150000, 500000>>,
   ownDevice |-> FALSE]

high_value_anomaly ==
  [history |-> 5, usual |-> <<4000, 6000>>, attack |-> <<600000, 1500000>>,
   ownDevice |-> FALSE]

account_takeover ==
  [history |-> 4, usual |-> <<4000, 15000>>, attack |-> <<300000, 800000>>,
   ownDevice |-> FALSE]

location_anomaly ==
  [history |-> 4, usual |-> <<5000, 30000>>, attack |-> <<20000, 150000>>,
   ownDevice |-> TRUE]

WithHistory ==
  [normal_traffic |-> normal_traffic, high_value_anomaly |-> high_value_anomaly,
   account_takeover |-> account_takeover, location_anomaly |-> location_anomaly]

(* Generators with groups of fraud payments: payments in a group, the       *)
(* ranges of amounts, whether a group is one customer, whether all groups   *)
(* share one device, and whether they share one address.                    *)
velocity_attack ==
  [size |-> 12, usual |-> <<3000, 20000>>, attack |-> <<500, 5000>>,
   oneCustomer |-> TRUE, oneDevice |-> FALSE, oneAddress |-> FALSE]

card_testing ==
  [size |-> 5, usual |-> <<1000, 5000>>, attack |-> <<50, 199>>,
   oneCustomer |-> TRUE, oneDevice |-> TRUE, oneAddress |-> TRUE]

device_network ==
  [size |-> 6, usual |-> <<2000, 15000>>, attack |-> <<5000, 30000>>,
   oneCustomer |-> FALSE, oneDevice |-> FALSE, oneAddress |-> TRUE]

WithGroups ==
  [velocity_attack |-> velocity_attack, card_testing |-> card_testing,
   device_network |-> device_network]

LegitTx == 2

(* Generators in the order mixed_fraud calls them.                          *)
Generators ==
  <<"normal_traffic", "high_value_anomaly", "velocity_attack", "account_takeover",
    "card_testing", "device_network", "location_anomaly">>

(* round(count * fraud_pct / size).                                         *)
Share(count, tenths, size) == RoundHalfEven((count * tenths * 600) \div size)

(* Fault: the test payments come first.                                     *)
TestFirst(n, phase1, phase2) ==
  LET all == phase2 \o phase1 IN SubSeq(all, 1, Least(n, Len(all)))

(* The first n payments of the two phases.                                  *)
FirstOf(n, phase1, phase2) ==
  LET all == phase1 \o phase2 IN SubSeq(all, 1, Least(n, Len(all)))

(* Where a customer pays, in kilometres from its first place.               *)
Far == 9000

(* All homes are one address, but for two generators with their own.        *)
HomeAddress(g) ==
  IF g \in {"account_takeover", "location_anomaly"} THEN <<g, "home">> ELSE <<"home">>

(* A payment at home, with one's own device.                                *)
Legit(g, call, i, amount) ==
  [customer |-> <<g, call, 0, i>>, device |-> <<g, 0, i>>, ip |-> HomeAddress(g),
   amount |-> amount, place |-> 0, probability |-> 0, fraud |-> FALSE]

(* Draw is "low", "high" or "rising": what rng.uniform returns for the      *)
(* amounts, the last kind only for the customer's last usual payment.       *)
Drawn(draw, range, last) ==
  IF draw = "high" \/ (draw = "rising" /\ last) THEN range[2] ELSE range[1]

(* Customers of a generator with a history, and the frauds among them.      *)
Customers(g, n) == Most(5, n \div (WithHistory[g].history + 1))

FraudCustomers(g, n, tenths) == Share(Customers(g, n), tenths, 1)

(* normal_traffic, high_value_anomaly, account_takeover, location_anomaly.  *)
HistoryScenario(g, call, n, frauds, draw) ==
  LET s == WithHistory[g]
      Usual(i, last) == Legit(g, call, i, Drawn(draw, s.usual, last))
      Attack(i) ==
        [Usual(i, TRUE) EXCEPT
           !.amount = Drawn(draw, s.attack, TRUE), !.place = Far, !.fraud = TRUE,
           !.ip = <<g, call, i>>,
           !.device = IF s.ownDevice THEN @ ELSE <<g, call, i>>]
  IN FirstOf(n,
       [k \in 1..s.history * Customers(g, n) |-> Usual((k - 1) \div s.history + 1, FALSE)],
       [i \in 1..Customers(g, n) |-> IF i \in frauds THEN Attack(i) ELSE Usual(i, TRUE)])

Groups(g, n, tenths) == Most(1, Share(n, tenths, WithGroups[g].size))

LegitCustomers(g, n, tenths) ==
  Most(1, (n - Groups(g, n, tenths) * WithGroups[g].size) \div LegitTx)

(* velocity_attack, card_testing, device_network.                           *)
GroupScenario(g, call, n, tenths, draw) ==
  LET s == WithGroups[g]
      Attack(group, j) ==
        [customer |-> <<g, call, group, IF s.oneCustomer THEN 1 ELSE j>>,
         device |-> <<g, 0, 0, IF s.oneDevice THEN 1 ELSE group>>,
         ip |-> IF s.oneAddress THEN <<g, "bot">> ELSE <<g, call, group, j>>,
         amount |-> Drawn(draw, s.attack, j = s.size), place |-> 0,
         probability |-> 0, fraud |-> TRUE]
  IN FirstOf(n,
       [k \in 1..LegitTx * LegitCustomers(g, n, tenths) |->
          Legit(g, call, (k - 1) \div LegitTx + 1, Drawn(draw, s.usual, k % LegitTx = 0))],
       [k \in 1..s.size * Groups(g, n, tenths) |->
          Attack((k - 1) \div s.size + 1, ((k - 1) % s.size) + 1)])

(* One generator; the fraud customers of a history are the given ones.      *)
Generate(g, call, n, tenths, frauds, draw) ==
  IF g \in DOMAIN WithHistory
    THEN HistoryScenario(g, call, n, frauds, draw)
    ELSE GroupScenario(g, call, n, tenths, draw)

(* mixed_fraud: a chunk of each generator as long as there is room, then    *)
(* runs of length one of generators that are drawn; drawn[k] and frauds[k]  *)
(* are what rng chooses for part k.                                         *)
Mixed(n, tenths, draw, drawn, frauds) ==
  LET chunk == Most(1, n \div Len(Generators))
      Part(k) ==
        IF k \in DOMAIN Generators
          THEN Generate(Generators[k], k, chunk, tenths, frauds[k], draw)
          ELSE Generate(drawn[k], k, 1, tenths, frauds[k], draw)
      upTo[k \in 0..n] == IF k = 0 THEN <<>> ELSE upTo[k - 1] \o Part(k)
      parts == CHOOSE k \in 0..n : Len(upTo[k]) >= n
  IN SubSeq(upTo[parts], 1, n)

=============================================================================
