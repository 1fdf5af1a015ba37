---------------------------- MODULE MCIdempotency ----------------------------
(***************************************************************************)
(* Four requests: a payment and its retry under one key, another payment    *)
(* sent under the same key by mistake, and the first transaction once more  *)
(* without a key.                                                           *)
(***************************************************************************)
EXTENDS Idempotency, TLC

CONSTANTS q1, q2, q3, q4

MCRequests == {q1, q2, q3, q4}
MCKeyOf == [r \in MCRequests |-> IF r = q4 THEN NoKey ELSE "k"]
MCTransactionOf == [r \in MCRequests |-> IF r = q3 THEN "u" ELSE "t"]

(* q1 and q2 are alike in everything.                                       *)
MCRetries == Permutations({q1, q2})

=============================================================================
