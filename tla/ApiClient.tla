------------------------------ MODULE ApiClient ------------------------------
(***************************************************************************)
(* request of frontend/lib/api.ts: every request of a page is repeated once *)
(* when it fails, a POST like a GET.  The requests in flight are kept in    *)
(* slots, with the statements the server has executed for them so far.      *)
(***************************************************************************)
EXTENDS Integers, Sequences, FiniteSetsExt

CONSTANTS
  Slots,          \* bound: how many requests are in flight at a time, 1..n
  MaxFaults       \* bound: how many outages

ASSUME ApiClientAssumption ==
  Slots \in Nat \ {0} /\ MaxFaults \in Nat

VARIABLES
  mounted,        \* whether the page that sends them is still open
  calls,          \* the requests in flight, by slot
  faults          \* how many outages so far

clientVars == <<calls, faults>>

Free == [at |-> "free"]
maxAttempts == 2

(* The nth attempt of a request, on its way.                                *)
Attempt(n, ask) == [at |-> "sent", attempt |-> n, seen |-> <<>>, ask |-> ask]

FreeSlots == {c \in 1..Slots : calls[c].at = "free"}

Asking(c, kind) == calls[c].at # "free" /\ calls[c].ask.kind = kind

(* The call in slot c has been sent and the server is at work on it.        *)
Open(c, kind) == calls[c].at = "sent" /\ calls[c].ask.kind = kind

(* The slot of the next request: the lowest free one but the first k.       *)
SlotAfter(k) ==
  CHOOSE c \in FreeSlots : Cardinality({d \in FreeSlots : d < c}) = k

(* fetch: the requests are sent together.                                   *)
Send(asks) ==
  /\ Cardinality(FreeSlots) >= Len(asks)
  /\ LET slotOf == [k \in DOMAIN asks |-> SlotAfter(k - 1)]
     IN calls' = [c \in 1..Slots |->
          IF \E k \in DOMAIN asks : slotOf[k] = c
            THEN Attempt(1, asks[CHOOSE k \in DOMAIN asks : slotOf[k] = c])
            ELSE calls[c]]
  /\ UNCHANGED faults

(* The server executes a statement for the call and sees value.             *)
Read(c, value) ==
  calls' = [calls EXCEPT ![c].seen = Append(@, value)] /\ UNCHANGED faults

(* The server answers.                                                      *)
Respond(c, value) ==
  /\ calls' = [calls EXCEPT ![c].at = "answered", ![c].seen = <<value>>]
  /\ UNCHANGED faults

(* The server answers with a status that is not ok.                         *)
Refuse(c) ==
  /\ calls' = [calls EXCEPT ![c].at = "refused", ![c].seen = <<>>]
  /\ UNCHANGED faults

(* The catch block: after half a second once more, then the error is thrown.*)
Retry(c) ==
  IF calls[c].attempt < maxAttempts
    THEN calls' = [calls EXCEPT ![c] = Attempt(calls[c].attempt + 1, calls[c].ask)]
    ELSE calls' = [calls EXCEPT ![c].at = "rejected", ![c].seen = <<>>]

(* An outage loses the request or its answer, and may last for the second   *)
(* attempt too.                                                             *)
Lose(c) ==
  /\ calls[c].at \in {"sent", "answered", "refused"}
  /\ faults < MaxFaults
  /\ faults' = faults + 1
  /\ \/ Retry(c)
     \/ calls' = [calls EXCEPT ![c].at = "rejected", ![c].seen = <<>>]

Refused(c) == calls[c].at = "refused" /\ Retry(c) /\ UNCHANGED faults

(* The page's handler of the answer, or of the error, takes the call.       *)
Answered(c, kind) == Asking(c, kind) /\ calls[c].at = "answered"

Rejected(c, kind) == Asking(c, kind) /\ calls[c].at = "rejected"

Take(c) == calls' = [calls EXCEPT ![c] = Free] /\ UNCHANGED faults

Answer(c) == calls[c].seen[1]

=============================================================================
