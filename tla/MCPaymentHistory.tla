-------------------------- MODULE MCPaymentHistory --------------------------
(***************************************************************************)
(* Small instances of PaymentHistory and Training.  The plans are those of  *)
(* the repository's fraud scenarios, cut to the length at which they cross  *)
(* the thresholds, and every mix of four requests of one customer.          *)
(***************************************************************************)
EXTENDS Training

Request(customer, device, ip, amount, place, probability) ==
  [customer |-> customer, device |-> device, ip |-> ip, amount |-> amount,
   place |-> place, probability |-> probability]

Repeat(r, n) == [i \in 1..n |-> r]

(* velocity_attack: one customer, one device, one address.                  *)
MCBurst == Repeat(Request("a", "A", Absent, 5000, Absent, 0), 20)

(* device_network and card_testing: one device and one address, customers   *)
(* one after the other; the last customer comes back.                       *)
MCNetwork(amount) ==
  [i \in 1..7 |-> Request(<<"c", Least(i, 6)>>, "N", "n", amount, Absent, 0)]

(* A customer at home, far away, with a large amount, probing, and without  *)
(* a device.                                                                *)
MCMixed ==
  [1..4 -> { Request("a", "A", Absent, 5000, 0, 0),
             Request("a", Absent, Absent, 40000, 2000, 720),
             Request("a", "B", Absent, 100, 9000, 960) }]

MCPlans == {MCBurst, MCNetwork(9000), MCNetwork(100)} \cup MCMixed

=============================================================================
