---------------------------- MODULE PaymentLedger ----------------------------
(***************************************************************************)
(* What the payment endpoint promises, without sessions, indexes or tables: *)
(* a call is stored in one step or not at all, never beside another payment *)
(* with its transaction id, and not after its answer; 201 is answered only  *)
(* to a stored call, an error only to one that is not stored or that has    *)
(* lost its connection; clearing the ledger keeps the training set.         *)
(* PaymentsApi implements this module.                                      *)
(***************************************************************************)
CONSTANTS
  Calls,          \* the calls of POST /payments
  TransactionOf,  \* TransactionOf[i]: the transaction id of payment i
  Unsure,         \* calls whose error does not tell whether they are stored
  Training        \* payments that are never cleared

VARIABLES
  ledger,         \* the payments stored, by primary key
  status          \* status[c]: how far call c is, or what it was answered

ledgerVars == <<ledger, status>>

Unanswered == {"open", "stored", "failed"}
Status == Unanswered \cup {"created", "error", "lost"}

Become(c, from, to) == status[c] = from /\ status' = [status EXCEPT ![c] = to]

(* Stored, and the caller knows or does not hear of it.                     *)
Accept(c) ==
  /\ \/ Become(c, "open", "stored")
     \/ c \in Unsure /\ Become(c, "open", "failed")
  /\ \A i \in ledger : TransactionOf[i] # TransactionOf[c]
  /\ ledger' = ledger \cup {c}

(* Refused before it is stored, or stored and not read back: it has been    *)
(* cleared, or the connection is gone.                                      *)
Fail(c) ==
  /\ \/ Become(c, "open", "failed") /\ c \notin ledger
     \/ Become(c, "stored", "failed") /\ (c \notin ledger \/ c \in Unsure)
  /\ UNCHANGED ledger

AnswerOk(c) == Become(c, "stored", "created") /\ UNCHANGED ledger

AnswerFailure(c) == Become(c, "failed", "error") /\ UNCHANGED ledger

(* The server dies with the calls S in flight.                              *)
Lose(S) ==
  /\ \A c \in S : status[c] \in Unanswered
  /\ status' = [c \in Calls |-> IF c \in S THEN "lost" ELSE status[c]]
  /\ UNCHANGED ledger

Clear(S) ==
  /\ S \cap Training = {}
  /\ ledger' = ledger \ S
  /\ UNCHANGED status

LedgerInit == ledger = Training /\ status = [c \in Calls |-> "open"]

LedgerNext ==
  \/ \E c \in Calls : Accept(c) \/ Fail(c) \/ AnswerOk(c) \/ AnswerFailure(c)
  \/ \E S \in SUBSET Calls : Lose(S)
  \/ \E S \in SUBSET ledger : Clear(S)

LedgerSpec == LedgerInit /\ [][LedgerNext]_ledgerVars

=============================================================================
