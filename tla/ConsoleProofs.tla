---------------------------- MODULE ConsoleProofs ----------------------------
(***************************************************************************)
(* Proofs about the console's pages, for any number of requests in flight,  *)
(* outages, runs, clicks and threads: the simulation page does not stop to  *)
(* poll a run that goes on, a click on the investigation page cannot occupy *)
(* more than two threads, and its report is about the selected transaction. *)
(***************************************************************************)
EXTENDS Console, FiniteSetTheorems, WellFoundedInduction, TLAPS

(***************************************************************************)
(* The client: what its steps do to the requests in flight.                 *)
(***************************************************************************)
Request(at, attempt, seen, ask) ==
  [at |-> at, attempt |-> attempt, seen |-> seen, ask |-> ask]

CallOK(x) ==
  \/ x = Free
  \/ /\ x = Request(x.at, x.attempt, x.seen, x.ask)
     /\ x.at \in {"sent", "answered", "refused", "rejected"}
     /\ x.attempt \in {1, 2}

CallsOK ==
  /\ calls = [c \in 1..Slots |-> calls[c]]
  /\ \A c \in 1..Slots : CallOK(calls[c])

Busy(c) == calls[c].at # "free"

(* The call in slot c becomes x, the others stay.                           *)
Becomes(c, x) ==
  /\ CallsOK'
  /\ calls'[c] = x
  /\ \A d \in 1..Slots : d # c => calls'[d] = calls[d]

LEMMA BusyCall ==
  ASSUME CallsOK, NEW c \in 1..Slots, Busy(c)
  PROVE  /\ calls[c] = Request(calls[c].at, calls[c].attempt, calls[c].seen, calls[c].ask)
         /\ calls[c].at \in {"sent", "answered", "refused", "rejected"}
         /\ calls[c].attempt \in {1, 2}
  BY DEF CallsOK, CallOK, Busy, Free

(* A function with the four fields is a request.                            *)
LEMMA FourFields ==
  ASSUME NEW x, x = [f \in {"at", "attempt", "seen", "ask"} |-> x[f]]
  PROVE  x = Request(x.at, x.attempt, x.seen, x.ask)
<1>1. x = [at |-> x.at, attempt |-> x.attempt, seen |-> x.seen, ask |-> x.ask]
  OBVIOUS
<1>. QED
  BY <1>1 DEF Request

LEMMA SlotChanges ==
  ASSUME CallsOK, NEW c \in 1..Slots, CallOK(calls'[c]),
         calls' = [d \in 1..Slots |-> calls'[d]],
         \A d \in 1..Slots : d # c => calls'[d] = calls[d]
  PROVE  Becomes(c, calls'[c])
<1>1. \A d \in 1..Slots : CallOK(calls'[d])
  BY DEF CallsOK
<1>. QED
  BY <1>1 DEF Becomes, CallsOK, CallOK

(* A call becomes the request whose fields it has after the step.           *)
LEMMA FieldsChange ==
  ASSUME CallsOK, NEW c \in 1..Slots, NEW v, NEW ask,
         NEW at \in {"sent", "answered", "refused", "rejected"}, NEW n \in {1, 2},
         calls' = [d \in 1..Slots |-> calls'[d]],
         \A d \in 1..Slots : d # c => calls'[d] = calls[d],
         calls'[c] = [f \in {"at", "attempt", "seen", "ask"} |-> calls'[c][f]],
         calls'[c].at = at, calls'[c].attempt = n, calls'[c].seen = v, calls'[c].ask = ask
  PROVE  Becomes(c, Request(at, n, v, ask))
<1>1. calls'[c] = Request(at, n, v, ask)
  BY FourFields
<1>2. CallOK(calls'[c])
  BY <1>1 DEF CallOK
<1>. QED
  BY <1>1, <1>2, SlotChanges

(* A call gets another state or sees something else.                        *)
LEMMA CallChanges ==
  ASSUME CallsOK, NEW c \in 1..Slots, Busy(c), NEW v,
         NEW at \in {"sent", "answered", "refused", "rejected"},
         \/ calls' = [calls EXCEPT ![c].at = at, ![c].seen = v]
         \/ calls' = [calls EXCEPT ![c].seen = v] /\ at = calls[c].at
  PROVE  Becomes(c, Request(at, calls[c].attempt, v, calls[c].ask))
<1>1. /\ calls[c] = Request(calls[c].at, calls[c].attempt, calls[c].seen, calls[c].ask)
      /\ calls[c].attempt \in {1, 2}
  BY BusyCall
<1>2. calls = [d \in 1..Slots |-> calls[d]]
  BY DEF CallsOK
<1>3. /\ calls' = [d \in 1..Slots |-> calls'[d]]
      /\ \A d \in 1..Slots : d # c => calls'[d] = calls[d]
  BY <1>2
<1>4. calls'[c] = [f \in {"at", "attempt", "seen", "ask"} |-> calls'[c][f]]
  BY <1>1, <1>2 DEF Request
<1>5. /\ calls'[c].at = at /\ calls'[c].attempt = calls[c].attempt
      /\ calls'[c].seen = v /\ calls'[c].ask = calls[c].ask
  BY <1>1, <1>2 DEF Request
<1>. QED
  BY <1>1, <1>3, <1>4, <1>5, FieldsChange

(* A statement is executed for the call.                                    *)
LEMMA ReadBecomes ==
  ASSUME CallsOK, NEW c \in 1..Slots, Busy(c), NEW v, Read(c, v)
  PROVE  Becomes(c, Request(calls[c].at, calls[c].attempt, Append(calls[c].seen, v),
                            calls[c].ask))
<1>1. calls' = [calls EXCEPT ![c].seen = Append(calls[c].seen, v)]
  BY DEF Read, CallsOK
<1>. QED
  BY <1>1, BusyCall, CallChanges

(* The server answers.                                                      *)
LEMMA RespondBecomes ==
  ASSUME CallsOK, NEW c \in 1..Slots, Busy(c), NEW v, Respond(c, v)
  PROVE  Becomes(c, Request("answered", calls[c].attempt, <<v>>, calls[c].ask))
  BY BusyCall, CallChanges DEF Respond

(* It refuses.                                                              *)
LEMMA RefuseBecomes ==
  ASSUME CallsOK, NEW c \in 1..Slots, Busy(c), Refuse(c)
  PROVE  Becomes(c, Request("refused", calls[c].attempt, <<>>, calls[c].ask))
  BY BusyCall, CallChanges DEF Refuse

(* A slot gets another request, or none.                                    *)
LEMMA SlotBecomes ==
  ASSUME CallsOK, NEW c \in 1..Slots, NEW x, calls' = [calls EXCEPT ![c] = x],
         x = Free \/ \E n, ask : n \in {1, 2} /\ x = Request("sent", n, <<>>, ask)
  PROVE  Becomes(c, x)
<1>1. /\ calls' = [d \in 1..Slots |-> calls'[d]] /\ calls'[c] = x
      /\ \A d \in 1..Slots : d # c => calls'[d] = calls[d]
  BY DEF CallsOK
<1>2. CallOK(x)
  BY DEF CallOK, Request
<1>. QED
  BY <1>1, <1>2, SlotChanges

(* The page takes the answer or the error.                                  *)
LEMMA TakeBecomes ==
  ASSUME CallsOK, NEW c \in 1..Slots, Take(c)
  PROVE  Becomes(c, Free)
  BY SlotBecomes DEF Take

(* The attempt has failed: the call is sent again or given up.              *)
Failed(c) ==
  \/ /\ calls[c].attempt = 1
     /\ Becomes(c, Request("sent", 2, <<>>, calls[c].ask))
  \/ Becomes(c, Request("rejected", calls[c].attempt, <<>>, calls[c].ask))

LEMMA RetryBecomes ==
  ASSUME CallsOK, NEW c \in 1..Slots, Busy(c), Retry(c)
  PROVE  Failed(c)
<1>1. calls[c].attempt \in {1, 2}
  BY BusyCall
<1>2. CASE calls[c].attempt = 1
  <2>1. calls' = [calls EXCEPT ![c] = Request("sent", 2, <<>>, calls[c].ask)]
    BY <1>2 DEF Retry, Attempt, Request, maxAttempts
  <2>2. \E n, ask : n \in {1, 2} /\ Request("sent", 2, <<>>, calls[c].ask) = Request("sent", n, <<>>, ask)
    OBVIOUS
  <2>3. Becomes(c, Request("sent", 2, <<>>, calls[c].ask))
    BY <2>1, <2>2, SlotBecomes
  <2>. QED
    BY <1>2, <2>3 DEF Failed
<1>3. CASE calls[c].attempt = 2
  <2>1. calls' = [calls EXCEPT ![c].at = "rejected", ![c].seen = <<>>]
    BY <1>3 DEF Retry, maxAttempts
  <2>. QED
    BY <2>1, CallChanges DEF Failed
<1>. QED
  BY <1>1, <1>2, <1>3

LEMMA FaultBecomes ==
  ASSUME CallsOK, NEW c \in 1..Slots, Lose(c) \/ Refused(c)
  PROVE  Busy(c) /\ Failed(c)
<1>1. Busy(c)
  BY DEF Lose, Refused, Busy
<1>2. CASE Retry(c)
  BY <1>1, <1>2, RetryBecomes
<1>3. CASE calls' = [calls EXCEPT ![c].at = "rejected", ![c].seen = <<>>]
  BY <1>1, <1>3, BusyCall, CallChanges DEF Failed
<1>. QED
  BY <1>1, <1>2, <1>3 DEF Lose, Refused

(* One request is sent: it takes at most one slot.                          *)
LEMMA SendBecomes ==
  ASSUME CallsOK, NEW ask, Send(<<ask>>)
  PROVE  /\ CallsOK'
         /\ \E s : \A d \in 1..Slots :
              calls'[d] = IF d = s THEN Request("sent", 1, <<>>, ask) ELSE calls[d]
<1>. DEFINE asks == <<ask>>
           slotOf == [k \in DOMAIN asks |-> SlotAfter(k - 1)]
           s == slotOf[1]
<1>1. DOMAIN asks = {1} /\ asks[1] = ask
  OBVIOUS
<1>2. calls' = [d \in 1..Slots |->
        IF \E k \in DOMAIN asks : slotOf[k] = d
          THEN Request("sent", 1, <<>>, asks[CHOOSE k \in DOMAIN asks : slotOf[k] = d])
          ELSE calls[d]]
  BY DEF Send, Attempt, Request
<1>. HIDE DEF asks, slotOf
<1>3. \A d : (\E k \in DOMAIN asks : slotOf[k] = d) <=> d = s
  BY <1>1 DEF s
<1>4. asks[CHOOSE k \in DOMAIN asks : slotOf[k] = s] = ask
  BY <1>1, <1>3
<1>. HIDE DEF s
<1>5. \A d \in 1..Slots :
        calls'[d] = IF d = s THEN Request("sent", 1, <<>>, ask) ELSE calls[d]
  BY <1>2, <1>3, <1>4 DEF Request
<1>6. CallOK(Request("sent", 1, <<>>, ask))
  BY DEF CallOK, Request
<1>7. CallsOK'
  <2>1. calls' = [d \in 1..Slots |-> calls'[d]]
    BY <1>2
  <2>2. \A d \in 1..Slots : CallOK(calls'[d])
    BY <1>5, <1>6 DEF CallsOK
  <2>. QED
    BY <2>1, <2>2 DEF CallsOK, CallOK
<1>. QED
  BY <1>5, <1>7

(***************************************************************************)
(* The investigation page.                                                  *)
(***************************************************************************)
(* Each call in flight asks about a transaction the user has clicked on,    *)
(* every one about another, and is answered about that one.                 *)
AsksOK ==
  /\ CallsOK
  /\ \A c \in 1..Slots : Busy(c) =>
       /\ calls[c].ask.kind = "investigate" /\ calls[c].ask.tx \in 1..clicks
       /\ calls[c].at = "answered" => calls[c].seen[1] = calls[c].ask.tx
  /\ \A c, d \in 1..Slots :
       Busy(c) /\ Busy(d) /\ calls[c].ask.tx = calls[d].ask.tx => c = d

Job(id, try, at) == [id |-> id, try |-> try, at |-> at]
Thread(id, try) == [id |-> id, try |-> try]

Ids == {j.id : j \in jobs} \cup {th.id : th \in threads}

IdOK(u) ==
  /\ u = [tx |-> u.tx, attempt |-> u.attempt]
  /\ u.tx \in 1..clicks /\ u.attempt \in {1, 2}

(* An attempt of a click has one job and one thread at most, and the thread *)
(* of a job that is there is at work on its current try.                    *)
PoolOK ==
  /\ \A j \in jobs : j = Job(j.id, j.try, j.at)
  /\ \A th \in threads : th = Thread(th.id, th.try)
  /\ \A u \in Ids : IdOK(u)
  /\ \A i, j \in jobs : i.id = j.id => i = j
  /\ \A th, w \in threads : th.id = w.id => th = w
  /\ \A th \in threads, j \in jobs : th.id = j.id => j.at = "running" /\ j.try = th.try

(* No job or thread is ahead of the call: an attempt which the server has   *)
(* not seen yet has none.                                                   *)
NotAhead(u, x) ==
  u.tx = x.ask.tx =>
    /\ u.attempt <= x.attempt
    /\ x.at = "sent" /\ x.seen = <<>> => u.attempt < x.attempt

NoneAhead == \A c \in 1..Slots : Busy(c) => \A u \in Ids : NotAhead(u, calls[c])

(* Unless the user has been impatient, the one call in flight is about the  *)
(* selected transaction and the page waits for it.                          *)
PageOK ==
  /\ loading \in BOOLEAN /\ overlapped \in BOOLEAN
  /\ ~ overlapped =>
       /\ \A c \in 1..Slots : Busy(c) => calls[c].ask.tx = clicks /\ loading
       /\ report # NoReport => report = clicks

InvestigationInv ==
  /\ clicks \in Nat
  /\ tab = "investigation" => AsksOK /\ PoolOK /\ NoneAhead /\ PageOK
  /\ tab # "investigation" => clicks = 0 /\ report = NoReport

(* The server or the client brings the call in slot c forward.              *)
Advances(c) ==
  \E at, n, v :
    /\ Becomes(c, Request(at, n, v, calls[c].ask))
    /\ n \in {1, 2} /\ calls[c].attempt <= n
    /\ at \in {"sent", "answered", "refused", "rejected"}
    /\ at = "answered" => v[1] = calls[c].ask.tx
    /\ at = "sent" /\ v = <<>> => calls[c].attempt < n

LEMMA CallAdvances ==
  ASSUME AsksOK, PoolOK, NoneAhead, PageOK, NEW c \in 1..Slots, Busy(c), Advances(c),
         UNCHANGED pageVars, \A u \in Ids' : u \in Ids \/ u = JobOf(c)
  PROVE  AsksOK' /\ NoneAhead' /\ PageOK'
<1>1. PICK at, n, v :
        /\ Becomes(c, Request(at, n, v, calls[c].ask))
        /\ n \in {1, 2} /\ calls[c].attempt <= n
        /\ at \in {"sent", "answered", "refused", "rejected"}
        /\ at = "answered" => v[1] = calls[c].ask.tx
        /\ at = "sent" /\ v = <<>> => calls[c].attempt < n
  BY DEF Advances
<1>2. /\ CallsOK'
      /\ calls'[c].at = at /\ calls'[c].attempt = n
      /\ calls'[c].seen = v /\ calls'[c].ask = calls[c].ask
      /\ \A d \in 1..Slots : d # c => calls'[d] = calls[d]
  BY <1>1 DEF Becomes, Request
<1>3. UNCHANGED <<loading, report, clicks, overlapped>>
  BY DEF pageVars
<1>4. /\ \A d \in 1..Slots : Busy(d)' => Busy(d)
      /\ \A d \in 1..Slots : calls'[d].ask = calls[d].ask
  BY <1>2 DEF Busy
<1>5. AsksOK'
  <2>1. \A d \in 1..Slots : Busy(d)' =>
          /\ calls'[d].ask.kind = "investigate" /\ calls'[d].ask.tx \in 1..clicks'
          /\ calls'[d].at = "answered" => calls'[d].seen[1] = calls'[d].ask.tx
    BY <1>1, <1>2, <1>3, <1>4 DEF AsksOK
  <2>2. \A d, e \in 1..Slots :
          Busy(d)' /\ Busy(e)' /\ calls'[d].ask.tx = calls'[e].ask.tx => d = e
    BY <1>4 DEF AsksOK
  <2>. QED
    BY <1>2, <2>1, <2>2 DEF AsksOK, Busy
<1>6. NoneAhead'
  <2>. SUFFICES ASSUME NEW d \in 1..Slots, Busy(d)', NEW u \in Ids',
                       u.tx = calls'[d].ask.tx
                PROVE  /\ u.attempt <= calls'[d].attempt
                       /\ calls'[d].at = "sent" /\ calls'[d].seen = <<>> =>
                            u.attempt < calls'[d].attempt
    BY DEF NoneAhead, NotAhead, Busy
  <2>0. Busy(d) /\ u.tx = calls[d].ask.tx
    BY <1>4
  <2>1. CASE u \in Ids
    <3>1. /\ u.attempt \in {1, 2} /\ u.attempt <= calls[d].attempt
          /\ calls[d].at = "sent" /\ calls[d].seen = <<>> => u.attempt < calls[d].attempt
      BY <2>0, <2>1 DEF PoolOK, IdOK, NoneAhead, NotAhead
    <3>2. CASE d = c
      <4>1. calls[c].attempt \in {1, 2}
        BY BusyCall DEF AsksOK
      <4>. QED
        BY <1>1, <1>2, <3>1, <3>2, <4>1
    <3>3. CASE d # c
      BY <1>2, <3>1, <3>3
    <3>. QED
      BY <3>2, <3>3
  <2>2. CASE u = JobOf(c)
    <3>1. u.tx = calls[c].ask.tx /\ u.attempt = calls[c].attempt
      BY <2>2 DEF JobOf
    <3>2. d = c
      BY <2>0, <3>1 DEF AsksOK
    <3>. QED
      BY <1>1, <1>2, <3>1, <3>2
  <2>. QED
    BY <2>1, <2>2
<1>7. PageOK'
  BY <1>3, <1>4 DEF PageOK, Busy
<1>. QED
  BY <1>5, <1>6, <1>7

(* Nothing happens to the calls, and no id is new.                          *)
LEMMA CallsStay ==
  ASSUME AsksOK, NoneAhead, PageOK, UNCHANGED pageVars, calls' = calls, Ids' \subseteq Ids
  PROVE  AsksOK' /\ NoneAhead' /\ PageOK'
<1>1. UNCHANGED <<loading, report, clicks, overlapped>>
  BY DEF pageVars
<1>2. AsksOK'
  BY <1>1 DEF AsksOK, CallsOK, CallOK, Busy
<1>3. NoneAhead'
  BY DEF NoneAhead, NotAhead, Busy
<1>4. PageOK'
  BY <1>1 DEF PageOK, Busy
<1>. QED
  BY <1>2, <1>3, <1>4

(* The pool only loses jobs and threads.                                    *)
LEMMA PoolShrinks ==
  ASSUME PoolOK, clicks \in Nat, clicks' \in Nat, clicks <= clicks',
         jobs' \subseteq jobs, threads' \subseteq threads
  PROVE  PoolOK' /\ Ids' \subseteq Ids
<1>1. Ids' \subseteq Ids
  BY DEF Ids
<1>2. \A u \in Ids' : IdOK(u)'
  BY <1>1 DEF PoolOK, IdOK
<1>. QED
  BY <1>1, <1>2 DEF PoolOK

(* A job goes over to another state, and its thread starts or ends.         *)
LEMMA JobMoves ==
  ASSUME PoolOK, NEW j \in jobs, NEW try, NEW at, clicks' = clicks,
         jobs' = (jobs \ {j}) \cup {Job(j.id, try, at)},
         threads' \subseteq threads \cup {Thread(j.id, try)},
         \A th \in threads' : th.id = j.id => at = "running" /\ th = Thread(j.id, try)
  PROVE  PoolOK' /\ Ids' \subseteq Ids
<1>. DEFINE k == Job(j.id, try, at)
            t == Thread(j.id, try)
<1>1. k = Job(k.id, k.try, k.at) /\ k.id = j.id /\ k.try = try /\ k.at = at
  BY DEF Job
<1>2. t = Thread(t.id, t.try) /\ t.id = j.id /\ t.try = try
  BY DEF Thread
<1>. HIDE DEF k, t
<1>3. /\ \A i \in jobs' : i = k \/ (i \in jobs /\ i # j)
      /\ \A w \in threads' : w = t \/ w \in threads
  BY DEF k, t
<1>4. Ids' \subseteq Ids
  BY <1>1, <1>2, <1>3 DEF Ids
<1>5. \A u \in Ids' : IdOK(u)'
  BY <1>4 DEF PoolOK, IdOK
<1>6. \A i \in jobs' : i = Job(i.id, i.try, i.at)
  BY <1>1, <1>3 DEF PoolOK
<1>7. \A w \in threads' : w = Thread(w.id, w.try)
  BY <1>2, <1>3 DEF PoolOK
<1>8. \A h, i \in jobs' : h.id = i.id => h = i
  BY <1>1, <1>3 DEF PoolOK
<1>9. \A v, w \in threads' : v.id = w.id => v = w
  <2>1. \A w \in threads' : w.id = j.id => w = t
    BY DEF t
  <2>. QED
    BY <1>2, <1>3, <2>1 DEF PoolOK
<1>10. \A w \in threads', i \in jobs' : w.id = i.id => i.at = "running" /\ i.try = w.try
  <2>. SUFFICES ASSUME NEW w \in threads', NEW i \in jobs', w.id = i.id
                PROVE  i.at = "running" /\ i.try = w.try
    OBVIOUS
  <2>1. CASE i = k
    <3>1. at = "running" /\ w = t
      BY <1>1, <2>1 DEF t
    <3>. QED
      BY <1>1, <1>2, <2>1, <3>1
  <2>2. CASE i \in jobs /\ i # j
    <3>1. i.id # j.id
      BY <2>2 DEF PoolOK
    <3>2. w \in threads
      BY <1>2, <1>3, <3>1
    <3>. QED
      BY <2>2, <3>2 DEF PoolOK
  <2>. QED
    BY <1>3, <2>1, <2>2
<1>. QED
  BY <1>5, <1>6, <1>7, <1>8, <1>9, <1>10, <1>4 DEF PoolOK

(* A job starts for an attempt that has none.                               *)
LEMMA JobStarts ==
  ASSUME PoolOK, NEW id, NEW try, NEW at, clicks' = clicks, IdOK(id), id \notin Ids,
         jobs' = jobs \cup {Job(id, try, at)}, threads' = threads
  PROVE  PoolOK' /\ \A u \in Ids' : u \in Ids \/ u = id
<1>. DEFINE k == Job(id, try, at)
<1>1. k = Job(k.id, k.try, k.at) /\ k.id = id
  BY DEF Job
<1>. HIDE DEF k
<1>2. \A i \in jobs' : i = k \/ i \in jobs
  BY DEF k
<1>3. \A u \in Ids' : u \in Ids \/ u = id
  BY <1>1, <1>2 DEF Ids
<1>4. \A u \in Ids' : IdOK(u)'
  BY <1>3 DEF PoolOK, IdOK
<1>5. \A i \in jobs : i.id # id
  BY DEF Ids
<1>6. \A th \in threads : th.id # id
  BY DEF Ids
<1>7. \A i \in jobs' : i = Job(i.id, i.try, i.at)
  BY <1>1, <1>2 DEF PoolOK
<1>8. \A h, i \in jobs' : h.id = i.id => h = i
  BY <1>1, <1>2, <1>5 DEF PoolOK
<1>9. \A w \in threads', i \in jobs' : w.id = i.id => i.at = "running" /\ i.try = w.try
  BY <1>1, <1>2, <1>6 DEF PoolOK
<1>. QED
  BY <1>3, <1>4, <1>7, <1>8, <1>9 DEF PoolOK

(* A step of the page or the pool, the tab being open on the investigation. *)
InvestigationOK ==
  /\ clicks \in Nat
  /\ AsksOK /\ PoolOK /\ NoneAhead /\ PageOK

(* The user asks: nothing is known of the new transaction.                  *)
LEMMA InvestigateKeeps ==
  ASSUME InvestigationOK, Investigate
  PROVE  InvestigationOK'
<1>. DEFINE ask == [kind |-> "investigate", tx |-> clicks']
<1>1. /\ clicks \in Nat /\ clicks' = clicks + 1 /\ clicks' \in Nat
      /\ overlapped' = (overlapped \/ loading) /\ loading' = TRUE /\ report' = NoReport
      /\ jobs' = jobs /\ threads' = threads /\ Send(<<ask>>)
  BY DEF Investigate, InvestigationOK, ClearReport
<1>2. ask.kind = "investigate" /\ ask.tx = clicks + 1
  BY <1>1
<1>. HIDE DEF ask
<1>3. PICK s : \A d \in 1..Slots :
        calls'[d] = IF d = s THEN Request("sent", 1, <<>>, ask) ELSE calls[d]
  BY <1>1, SendBecomes DEF InvestigationOK, AsksOK
<1>4. CallsOK'
  BY <1>1, SendBecomes DEF InvestigationOK, AsksOK
<1>5. \A d \in 1..Slots : d = s =>
        /\ calls'[d].at = "sent" /\ calls'[d].attempt = 1
        /\ calls'[d].seen = <<>> /\ calls'[d].ask = ask
  BY <1>3 DEF Request
<1>6. \A d \in 1..Slots : d # s => calls'[d] = calls[d]
  BY <1>3
<1>7. PoolOK'
  BY <1>1, PoolShrinks DEF InvestigationOK
<1>8. Ids' = Ids
  BY <1>1 DEF Ids
<1>9. \A d \in 1..Slots : Busy(d) => calls[d].ask.tx \in 1..clicks
  BY DEF InvestigationOK, AsksOK
<1>10. AsksOK'
  <2>1. \A d \in 1..Slots : Busy(d)' =>
          /\ calls'[d].ask.kind = "investigate" /\ calls'[d].ask.tx \in 1..clicks'
          /\ calls'[d].at = "answered" => calls'[d].seen[1] = calls'[d].ask.tx
    BY <1>1, <1>2, <1>5, <1>6 DEF InvestigationOK, AsksOK, Busy
  <2>2. \A d, e \in 1..Slots :
          Busy(d)' /\ Busy(e)' /\ calls'[d].ask.tx = calls'[e].ask.tx => d = e
    <3>. SUFFICES ASSUME NEW d \in 1..Slots, NEW e \in 1..Slots, Busy(d)', Busy(e)',
                         calls'[d].ask.tx = calls'[e].ask.tx
                  PROVE  d = e
      OBVIOUS
    <3>1. CASE d # s /\ e # s
      BY <1>6, <3>1 DEF InvestigationOK, AsksOK, Busy
    <3>2. CASE d = s \/ e = s
      BY <1>1, <1>2, <1>5, <1>6, <1>9, <3>2 DEF Busy
    <3>. QED
      BY <3>1, <3>2
  <2>. QED
    BY <1>4, <2>1, <2>2 DEF AsksOK, Busy
<1>11. NoneAhead'
  <2>1. \A u \in Ids : u.tx \in 1..clicks
    BY DEF InvestigationOK, PoolOK, IdOK
  <2>2. ASSUME NEW d \in 1..Slots, Busy(d)', NEW u \in Ids'
        PROVE  NotAhead(u, calls'[d])
    <3>1. CASE d = s
      BY <1>1, <1>2, <1>5, <1>8, <2>1, <3>1 DEF NotAhead
    <3>2. CASE d # s
      BY <1>6, <1>8, <2>2, <3>2 DEF InvestigationOK, NoneAhead, Busy
    <3>. QED
      BY <3>1, <3>2
  <2>. QED
    BY <2>2 DEF NoneAhead, NotAhead, Busy
<1>12. PageOK'
  <2>1. loading \in BOOLEAN /\ overlapped \in BOOLEAN
    BY DEF InvestigationOK, PageOK
  <2>2. ASSUME ~ overlapped', NEW d \in 1..Slots, Busy(d)'
        PROVE  calls'[d].ask.tx = clicks' /\ loading'
    <3>1. ~ overlapped /\ ~ loading
      BY <1>1, <2>1, <2>2
    <3>2. ~ Busy(d) \/ d = s
      BY <3>1 DEF InvestigationOK, PageOK
    <3>3. d = s
      BY <1>6, <2>2, <3>2 DEF Busy
    <3>. QED
      BY <1>1, <1>2, <1>5, <3>3
  <2>3. loading' \in BOOLEAN /\ overlapped' \in BOOLEAN
    BY <1>1, <2>1
  <2>. QED
    BY <1>1, <2>2, <2>3 DEF PageOK, Busy
<1>. QED
  BY <1>1, <1>7, <1>10, <1>11, <1>12 DEF InvestigationOK

(* The answer or the error is taken: it is about the transaction of its     *)
(* call.                                                                    *)
LEMMA ReportKeeps ==
  ASSUME InvestigationOK, NEW c \in 1..Slots, ReportAnswered(c) \/ ReportRejected(c)
  PROVE  InvestigationOK'
<1>1. /\ clicks \in Nat /\ clicks' = clicks /\ overlapped' = overlapped
      /\ loading' = FALSE /\ jobs' = jobs /\ threads' = threads
      /\ Busy(c) /\ Take(c)
  BY DEF ReportAnswered, ReportRejected, Answered, Rejected, Asking, Busy, InvestigationOK
<1>2. report' = calls[c].ask.tx
  BY <1>1 DEF ReportAnswered, ReportRejected, Answered, Answer, InvestigationOK, AsksOK
<1>3. /\ CallsOK' /\ calls'[c] = Free
      /\ \A d \in 1..Slots : d # c => calls'[d] = calls[d]
  BY <1>1, TakeBecomes DEF InvestigationOK, AsksOK, Becomes
<1>4. ~ Busy(c)'
  BY <1>3 DEF Busy, Free
<1>5. \A d \in 1..Slots : Busy(d)' => d # c /\ Busy(d) /\ calls'[d] = calls[d]
  BY <1>3, <1>4 DEF Busy
<1>6. PoolOK' /\ Ids' \subseteq Ids
  BY <1>1, PoolShrinks DEF InvestigationOK
<1>7. AsksOK'
  <2>1. \A d \in 1..Slots : Busy(d)' =>
          /\ calls'[d].ask.kind = "investigate" /\ calls'[d].ask.tx \in 1..clicks'
          /\ calls'[d].at = "answered" => calls'[d].seen[1] = calls'[d].ask.tx
    BY <1>1, <1>5 DEF InvestigationOK, AsksOK
  <2>2. \A d, e \in 1..Slots :
          Busy(d)' /\ Busy(e)' /\ calls'[d].ask.tx = calls'[e].ask.tx => d = e
    BY <1>5 DEF InvestigationOK, AsksOK
  <2>. QED
    BY <1>3, <2>1, <2>2 DEF AsksOK, Busy
<1>8. NoneAhead'
  <2>1. ASSUME NEW d \in 1..Slots, Busy(d)', NEW u \in Ids'
        PROVE  NotAhead(u, calls'[d])
    BY <1>5, <1>6, <2>1 DEF InvestigationOK, NoneAhead
  <2>. QED
    BY <2>1 DEF NoneAhead, NotAhead, Busy
<1>9. PageOK'
  <2>1. ~ overlapped => calls[c].ask.tx = clicks
    BY <1>1 DEF InvestigationOK, PageOK
  <2>2. \A d \in 1..Slots : Busy(d)' => overlapped
    <3>. SUFFICES ASSUME NEW d \in 1..Slots, Busy(d)', ~ overlapped PROVE FALSE
      BY DEF InvestigationOK, PageOK
    <3>1. Busy(d) /\ d # c /\ calls[d].ask.tx = clicks
      BY <1>5 DEF InvestigationOK, PageOK
    <3>. QED
      BY <1>1, <2>1, <3>1 DEF InvestigationOK, AsksOK
  <2>3. loading' \in BOOLEAN /\ overlapped' \in BOOLEAN
    BY <1>1 DEF InvestigationOK, PageOK
  <2>. QED
    BY <1>1, <1>2, <2>1, <2>2, <2>3 DEF PageOK, Busy
<1>. QED
  BY <1>1, <1>6, <1>7, <1>8, <1>9 DEF InvestigationOK

(* A job ends: its call is answered if it still waits for this attempt.     *)
LEMMA EndJobKeeps ==
  ASSUME InvestigationOK, NEW j \in jobs, EndJob(j), threads' \subseteq threads,
         UNCHANGED pageVars
  PROVE  InvestigationOK'
<1>1. clicks \in Nat /\ clicks' = clicks /\ jobs' \subseteq jobs
  BY DEF InvestigationOK, pageVars, EndJob
<1>2. PoolOK' /\ Ids' \subseteq Ids
  BY <1>1, PoolShrinks DEF InvestigationOK
<1>3. CASE calls' = calls
  BY <1>1, <1>2, <1>3, CallsStay DEF InvestigationOK
<1>4. ASSUME NEW c \in 1..Slots, Open(c, "investigate"), Respond(c, calls[c].ask.tx)
      PROVE  InvestigationOK'
  <2>1. Busy(c)
    BY <1>4 DEF Open, Busy
  <2>2. Becomes(c, Request("answered", calls[c].attempt, <<calls[c].ask.tx>>, calls[c].ask))
    BY <1>4, <2>1, RespondBecomes DEF InvestigationOK, AsksOK
  <2>3. calls[c].attempt \in {1, 2}
    BY <2>1, BusyCall DEF InvestigationOK, AsksOK
  <2>4. Advances(c)
    BY <2>2, <2>3 DEF Advances
  <2>. QED
    BY <1>1, <1>2, <2>1, <2>4, CallAdvances DEF InvestigationOK
<1>. QED
  BY <1>3, <1>4 DEF EndJob, clientVars

(* The endpoint answers, refuses, or gives the attempt a job.               *)
LEMMA StartJobKeeps ==
  ASSUME InvestigationOK, NEW c \in 1..Slots, StartJob(c)
  PROVE  InvestigationOK'
<1>1. /\ clicks \in Nat /\ clicks' = clicks /\ UNCHANGED pageVars /\ threads' = threads
      /\ Busy(c) /\ calls[c].at = "sent" /\ calls[c].seen = <<>>
  BY DEF InvestigationOK, StartJob, Open, Busy, pageVars
<1>2. calls[c].attempt \in {1, 2}
  BY <1>1, BusyCall DEF InvestigationOK, AsksOK
<1>3. CASE jobs' = jobs /\ (Respond(c, calls[c].ask.tx) \/ Refuse(c))
  <2>1. PoolOK' /\ Ids' \subseteq Ids
    BY <1>1, <1>3, PoolShrinks DEF InvestigationOK
  <2>2. Advances(c)
    <3>1. CASE Respond(c, calls[c].ask.tx)
      <4>1. Becomes(c, Request("answered", calls[c].attempt, <<calls[c].ask.tx>>, calls[c].ask))
        BY <1>1, <3>1, RespondBecomes DEF InvestigationOK, AsksOK
      <4>. QED
        BY <1>2, <4>1 DEF Advances
    <3>2. CASE Refuse(c)
      <4>1. Becomes(c, Request("refused", calls[c].attempt, <<>>, calls[c].ask))
        BY <1>1, <3>2, RefuseBecomes DEF InvestigationOK, AsksOK
      <4>. QED
        BY <1>2, <4>1 DEF Advances
    <3>. QED
      BY <1>3, <3>1, <3>2
  <2>. QED
    BY <1>1, <2>1, <2>2, CallAdvances DEF InvestigationOK
<1>4. CASE /\ Read(c, "transaction")
           /\ jobs' = jobs \cup {[id |-> JobOf(c), try |-> 1, at |-> "queued"]}
  <2>1. JobOf(c).tx = calls[c].ask.tx /\ JobOf(c).attempt = calls[c].attempt
    BY DEF JobOf
  <2>2. JobOf(c) \notin Ids
    BY <1>1, <1>2, <2>1 DEF InvestigationOK, NoneAhead, NotAhead
  <2>3. IdOK(JobOf(c))
    BY <1>1, <1>2, <2>1 DEF InvestigationOK, AsksOK, IdOK, JobOf
  <2>4. jobs' = jobs \cup {Job(JobOf(c), 1, "queued")}
    BY <1>4 DEF Job
  <2>5. PoolOK' /\ \A u \in Ids' : u \in Ids \/ u = JobOf(c)
    BY <1>1, <2>2, <2>3, <2>4, JobStarts DEF InvestigationOK
  <2>. DEFINE v == Append(calls[c].seen, "transaction")
  <2>6. Becomes(c, Request("sent", calls[c].attempt, v, calls[c].ask))
    BY <1>1, <1>4, ReadBecomes DEF InvestigationOK, AsksOK
  <2>7. v # <<>>
    BY <1>1
  <2>. HIDE DEF v
  <2>8. Advances(c)
    BY <1>2, <2>6, <2>7 DEF Advances
  <2>. QED
    BY <1>1, <2>5, <2>8, CallAdvances DEF InvestigationOK
<1>. QED
  BY <1>3, <1>4 DEF StartJob

(* An outage or a refusal: the call is repeated or given up.                *)
LEMMA InvestigationFault ==
  ASSUME InvestigationOK, NEW c \in 1..Slots, Lose(c) \/ Refused(c),
         UNCHANGED investigationVars
  PROVE  InvestigationOK'
<1>1. /\ clicks \in Nat /\ clicks' = clicks /\ UNCHANGED pageVars
      /\ jobs' = jobs /\ threads' = threads
  BY DEF InvestigationOK, investigationVars, pageVars
<1>2. Busy(c) /\ Failed(c)
  BY FaultBecomes DEF InvestigationOK, AsksOK
<1>3. calls[c].attempt \in {1, 2}
  BY <1>2, BusyCall DEF InvestigationOK, AsksOK
<1>4. PoolOK' /\ Ids' \subseteq Ids
  BY <1>1, PoolShrinks DEF InvestigationOK
<1>5. Advances(c)
  <2>1. CASE calls[c].attempt = 1 /\ Becomes(c, Request("sent", 2, <<>>, calls[c].ask))
    BY <2>1 DEF Advances
  <2>2. CASE Becomes(c, Request("rejected", calls[c].attempt, <<>>, calls[c].ask))
    BY <1>3, <2>2 DEF Advances
  <2>. QED
    BY <1>2, <2>1, <2>2 DEF Failed
<1>. QED
  BY <1>1, <1>2, <1>4, <1>5, CallAdvances DEF InvestigationOK

LEMMA ThreeFields ==
  ASSUME NEW x, x = [f \in {"id", "try", "at"} |-> x[f]]
  PROVE  x = [id |-> x.id, try |-> x.try, at |-> x.at]
  OBVIOUS

LEMMA JobChanges ==
  ASSUME NEW j, j = Job(j.id, j.try, j.at)
  PROVE  /\ [j EXCEPT !.at = "running"] = Job(j.id, j.try, "running")
         /\ [j EXCEPT !.at = "backoff"] = Job(j.id, j.try, "backoff")
         /\ [j EXCEPT !.at = "queued", !.try = j.try + 1] = Job(j.id, j.try + 1, "queued")
<1>1. j = [id |-> j.id, try |-> j.try, at |-> j.at]
  BY DEF Job
<1>2. /\ [j EXCEPT !.at = "running"] = [id |-> j.id, try |-> j.try, at |-> "running"]
      /\ [j EXCEPT !.at = "backoff"] = [id |-> j.id, try |-> j.try, at |-> "backoff"]
  BY <1>1
<1>. DEFINE k == [j EXCEPT !.at = "queued", !.try = j.try + 1]
<1>3. /\ k = [f \in {"id", "try", "at"} |-> k[f]]
      /\ k.id = j.id /\ k.try = j.try + 1 /\ k.at = "queued"
  BY <1>1
<1>4. k = [id |-> j.id, try |-> j.try + 1, at |-> "queued"]
  <2>. HIDE DEF k
  <2>. QED
    BY <1>3, ThreeFields
<1>. QED
  BY <1>2, <1>4 DEF Job

(* The steps of a job.                                                      *)
LEMMA JobKeeps ==
  ASSUME InvestigationOK, NEW j \in jobs, JobStep(j)
  PROVE  InvestigationOK'
<1>1. /\ clicks \in Nat /\ clicks' = clicks /\ UNCHANGED pageVars
      /\ j = Job(j.id, j.try, j.at)
  BY DEF InvestigationOK, PoolOK, JobStep, TakeJob, ModelAnswers, ModelRaises, TryAgain,
         TimeOut, pageVars
<1>2. /\ [j EXCEPT !.at = "running"] = Job(j.id, j.try, "running")
      /\ [j EXCEPT !.at = "backoff"] = Job(j.id, j.try, "backoff")
      /\ [j EXCEPT !.at = "queued", !.try = j.try + 1] = Job(j.id, j.try + 1, "queued")
  BY <1>1, JobChanges
<1>3. ASSUME NEW try, NEW at, calls' = calls,
             jobs' = (jobs \ {j}) \cup {Job(j.id, try, at)},
             threads' \subseteq threads \cup {Thread(j.id, try)},
             \A th \in threads' : th.id = j.id => at = "running" /\ th = Thread(j.id, try)
      PROVE  InvestigationOK'
  <2>1. PoolOK' /\ Ids' \subseteq Ids
    BY <1>1, <1>3, JobMoves DEF InvestigationOK
  <2>. QED
    BY <1>1, <1>3, <2>1, CallsStay DEF InvestigationOK
<1>4. \A th \in threads : th.id = j.id =>
        j.at = "running" /\ th = Thread(j.id, j.try)
  BY DEF InvestigationOK, PoolOK
<1>5. CASE TakeJob(j)
  <2>1. /\ jobs' = (jobs \ {j}) \cup {Job(j.id, j.try, "running")}
        /\ threads' = threads \cup {Thread(j.id, j.try)}
        /\ calls' = calls
    BY <1>2, <1>5 DEF TakeJob, Thread, clientVars
  <2>. QED
    BY <1>3, <1>4, <2>1
<1>6. CASE ModelAnswers(j)
  BY <1>6, EndJobKeeps DEF ModelAnswers
<1>7. CASE ModelRaises(j)
  <2>1. threads' = threads \ {Thread(j.id, j.try)} /\ UNCHANGED pageVars
    BY <1>7 DEF ModelRaises, Thread
  <2>2. CASE EndJob(j)
    BY <2>1, <2>2, EndJobKeeps
  <2>3. CASE /\ jobs' = (jobs \ {j}) \cup {Job(j.id, j.try, "backoff")}
             /\ calls' = calls
    BY <1>3, <1>4, <2>1, <2>3
  <2>. QED
    BY <1>2, <1>7, <2>2, <2>3 DEF ModelRaises, clientVars
<1>8. CASE TryAgain(j)
  <2>1. /\ jobs' = (jobs \ {j}) \cup {Job(j.id, j.try + 1, "queued")}
        /\ threads' = threads /\ calls' = calls /\ j.at = "backoff"
    BY <1>2, <1>8 DEF TryAgain, clientVars
  <2>2. \A th \in threads' : th.id # j.id
    BY <1>4, <2>1
  <2>. QED
    BY <1>3, <2>1, <2>2
<1>9. CASE TimeOut(j)
  BY <1>9, EndJobKeeps DEF TimeOut
<1>. QED
  BY <1>5, <1>6, <1>7, <1>8, <1>9 DEF JobStep

(* A step that only ends a thread, leaves the page, or does nothing here.   *)
LEMMA InvestigationIdles ==
  ASSUME InvestigationOK, calls' = calls, UNCHANGED pageVars, jobs' = jobs,
         threads' \subseteq threads
  PROVE  InvestigationOK'
<1>1. clicks \in Nat /\ clicks' = clicks
  BY DEF InvestigationOK, pageVars
<1>2. PoolOK' /\ Ids' \subseteq Ids
  BY <1>1, PoolShrinks DEF InvestigationOK
<1>. QED
  BY <1>1, <1>2, CallsStay DEF InvestigationOK

LEMMA InvestigationKeeps ==
  ASSUME InvestigationOK, InvestigationNext
  PROVE  InvestigationOK'
<1>1. CASE Investigate
  BY <1>1, InvestigateKeeps
<1>2. ASSUME NEW c \in 1..Slots, InvestigationCall(c)
      PROVE  InvestigationOK'
  BY <1>2, StartJobKeeps, ReportKeeps DEF InvestigationCall
<1>3. ASSUME NEW j \in jobs, JobStep(j)
      PROVE  InvestigationOK'
  BY <1>3, JobKeeps
<1>4. ASSUME NEW th \in threads, ThreadEnds(th)
      PROVE  InvestigationOK'
  BY <1>4, InvestigationIdles DEF ThreadEnds, clientVars
<1>5. CASE LeaveInvestigation
  BY <1>5, InvestigationIdles DEF LeaveInvestigation, clientVars, investigationVars, pageVars
<1>. QED
  BY <1>1, <1>2, <1>3, <1>4, <1>5 DEF InvestigationNext

LEMMA InvestigationStarts ==
  ASSUME ConsoleInit
  PROVE  InvestigationInv
<1>1. /\ clicks = 0 /\ report = NoReport /\ jobs = {} /\ threads = {}
      /\ loading = FALSE /\ overlapped = FALSE
  BY DEF ConsoleInit, InvestigationInit
<1>2. ASSUME tab = "investigation"
      PROVE  calls = [c \in 1..Slots |-> Free]
  <2>1. Opened = <<>>
    BY <1>2 DEF Opened
  <2>2. DOMAIN Opened = {}
    BY <2>1
  <2>. QED
    BY <2>2 DEF ConsoleInit
<1>3. ASSUME tab = "investigation"
      PROVE  AsksOK /\ PoolOK /\ NoneAhead /\ PageOK
  <2>1. \A c \in 1..Slots : calls[c] = Free /\ ~ Busy(c)
    BY <1>2, <1>3 DEF Busy, Free
  <2>2. CallsOK
    BY <1>2, <1>3, <2>1 DEF CallsOK, CallOK
  <2>. QED
    BY <1>1, <2>1, <2>2 DEF AsksOK, PoolOK, NoneAhead, PageOK, Ids
<1>. QED
  BY <1>1, <1>3 DEF InvestigationInv

LEMMA InvestigationSteps ==
  ASSUME InvestigationInv, [ConsoleNext]_consoleVars
  PROVE  InvestigationInv'
<1>1. tab' = tab
  BY DEF ConsoleNext, In, ClientOnly, consoleVars
<1>2. ASSUME tab # "investigation"
      PROVE  InvestigationInv'
  <2>1. UNCHANGED investigationVars
    BY <1>2 DEF ConsoleNext, In, ClientOnly, consoleVars
  <2>. QED
    BY <1>1, <1>2, <2>1 DEF InvestigationInv, investigationVars
<1>3. ASSUME tab = "investigation"
      PROVE  InvestigationOK'
  <2>1. InvestigationOK
    BY <1>3 DEF InvestigationInv, InvestigationOK
  <2>2. CASE InvestigationNext
    BY <2>1, <2>2, InvestigationKeeps
  <2>3. ASSUME NEW c \in 1..Slots, Lose(c) \/ Refused(c), UNCHANGED investigationVars
        PROVE  InvestigationOK'
    BY <2>1, <2>3, InvestigationFault
  <2>4. CASE UNCHANGED consoleVars
    BY <2>1, <2>4, InvestigationIdles
    DEF consoleVars, clientVars, investigationVars, pageVars
  <2>. QED
    BY <1>3, <2>2, <2>3, <2>4 DEF ConsoleNext, In, ClientOnly
<1>. QED
  BY <1>1, <1>2, <1>3 DEF InvestigationInv, InvestigationOK

LEMMA InvestigationIsInv == ConsoleSpec => []InvestigationInv
<1>. QED
  BY InvestigationStarts, InvestigationSteps, PTL DEF ConsoleSpec

(* A click occupies two threads at most (investigator.py:62, api.ts:37):    *)
(* its threads belong to different attempts of the client, of which there   *)
(* are two.                                                                 *)
THEOREM TwoThreadsPerClick == ConsoleSpec => []ThreadsPerClick
<1>1. InvestigationInv => ThreadsPerClick
  <2>. SUFFICES ASSUME InvestigationInv, NEW n \in 1..clicks
                PROVE  Cardinality({th \in threads : th.id.tx = n}) <= 2
    BY DEF ThreadsPerClick
  <2>. DEFINE S == {th \in threads : th.id.tx = n}
              f == [th \in S |-> th.id.attempt]
  <2>1. tab = "investigation"
    BY DEF InvestigationInv
  <2>2. \A th \in threads :
          th.id = [tx |-> th.id.tx, attempt |-> th.id.attempt] /\ th.id.attempt \in {1, 2}
    BY <2>1 DEF InvestigationInv, PoolOK, IdOK, Ids
  <2>3. \A th, w \in threads : th.id = w.id => th = w
    BY <2>1 DEF InvestigationInv, PoolOK
  <2>4. \A th, w \in S : th.id.attempt = w.id.attempt => th = w
    <3>. SUFFICES ASSUME NEW th \in S, NEW w \in S, th.id.attempt = w.id.attempt
                  PROVE  th = w
      OBVIOUS
    <3>1. th \in threads /\ w \in threads /\ th.id.tx = n /\ w.id.tx = n
      OBVIOUS
    <3>2. /\ th.id = [tx |-> th.id.tx, attempt |-> th.id.attempt]
          /\ w.id = [tx |-> w.id.tx, attempt |-> w.id.attempt]
      BY <2>2, <3>1
    <3>3. th.id = w.id
      BY <3>1, <3>2
    <3>. QED
      BY <2>3, <3>1, <3>3
  <2>5. f \in [S -> 1..2]
    <3>1. {1, 2} = 1..2
      OBVIOUS
    <3>2. \A th \in S : th.id.attempt \in 1..2
      BY <2>2, <3>1
    <3>. QED
      BY <3>2
  <2>6. f \in Injection(S, 1..2)
    <3>1. \A th, w \in S : f[th] = f[w] => th = w
      BY <2>4
    <3>. QED
      BY <2>5, <3>1 DEF Injection, IsInjective
  <2>. HIDE DEF f, S
  <2>7. IsFiniteSet(1..2) /\ Cardinality(1..2) = 2
    <3>1. 1 \in Int /\ 2 \in Int /\ ~ (1 > 2) /\ 2 - 1 + 1 = 2
      OBVIOUS
    <3>. QED
      BY <3>1, FS_Interval
  <2>8. Cardinality(S) <= Cardinality(1..2)
    BY <2>6, <2>7, FS_Injection
  <2>. QED
    BY <2>7, <2>8 DEF S
<1>. QED
  BY <1>1, InvestigationIsInv, PTL

(* The report is about the selected transaction, unless the user has asked  *)
(* for another while an answer was awaited (investigation/page.tsx:23).     *)
THEOREM ReportIsOfSelection == ConsoleSpec => []ReportMatches
<1>1. InvestigationInv => ReportMatches
  BY DEF InvestigationInv, PageOK, ReportMatches
<1>. QED
  BY <1>1, InvestigationIsInv, PTL

(***************************************************************************)
(* The simulation page.                                                     *)
(***************************************************************************)
EndedRuns == {r \in Runs : Over(runs[r]) \/ runs[r] = "gone"}

(* A call in flight creates a run or polls one; an answer that says that a  *)
(* run has ended is about a run that has.                                   *)
RunAskOK(x, ended) ==
  \/ /\ x.ask.kind = "post"
     /\ x.at = "answered" => x.seen[1] \in Runs
  \/ /\ x.ask.kind = "poll" /\ x.ask.run \in Runs
     /\ x.at = "answered" /\ Over(x.seen[1].status) => x.seen[1].run \in ended

RunAsksOK ==
  CallsOK /\ \A c \in 1..Slots : Busy(c) => RunAskOK(calls[c], EndedRuns)

RunsOK ==
  /\ runs = [r \in Runs |-> runs[r]]
  /\ pollRef # None => pollRef \in Runs

SimulationInv ==
  /\ tab = "simulation" => RunAsksOK /\ RunsOK /\ PollUntilComplete
  /\ tab # "simulation" => pollRef = None

SimulationOK == RunAsksOK /\ RunsOK /\ PollUntilComplete

(* A run that has ended stays so.                                           *)
EndedStay == EndedRuns \subseteq EndedRuns'

LEMMA RunAskStays ==
  ASSUME EndedStay, NEW x, RunAskOK(x, EndedRuns)
  PROVE  RunAskOK(x, EndedRuns')
  BY DEF EndedStay, RunAskOK

(* The call in slot c becomes x.                                            *)
LEMMA RunCallChanges ==
  ASSUME RunAsksOK, EndedStay, NEW c \in 1..Slots, NEW x, Becomes(c, x),
         x = Free \/ RunAskOK(x, EndedRuns')
  PROVE  RunAsksOK'
<1>1. /\ CallsOK' /\ calls'[c] = x
      /\ \A d \in 1..Slots : d # c => calls'[d] = calls[d]
  BY DEF Becomes
<1>2. ASSUME NEW d \in 1..Slots, Busy(d)'
      PROVE  RunAskOK(calls'[d], EndedRuns')
  <2>1. CASE d = c
    <3>1. x # Free
      BY <1>1, <1>2, <2>1 DEF Busy, Free
    <3>. QED
      BY <1>1, <2>1, <3>1
  <2>2. CASE d # c
    <3>1. calls'[d] = calls[d] /\ Busy(d)
      BY <1>1, <1>2, <2>2 DEF Busy
    <3>2. RunAskOK(calls[d], EndedRuns')
      BY <3>1, RunAskStays DEF RunAsksOK
    <3>. QED
      BY <3>1, <3>2
  <2>. QED
    BY <2>1, <2>2
<1>. QED
  BY <1>1, <1>2 DEF RunAsksOK, Busy

LEMMA RunCallSent ==
  ASSUME RunAsksOK, runs' = runs, NEW ask, Send(<<ask>>),
         RunAskOK(Request("sent", 1, <<>>, ask), EndedRuns)
  PROVE  RunAsksOK'
<1>1. PICK s : \A d \in 1..Slots :
        calls'[d] = IF d = s THEN Request("sent", 1, <<>>, ask) ELSE calls[d]
  BY SendBecomes DEF RunAsksOK
<1>2. CallsOK'
  BY SendBecomes DEF RunAsksOK
<1>3. EndedStay
  BY DEF EndedStay, EndedRuns
<1>4. ASSUME NEW d \in 1..Slots, Busy(d)'
      PROVE  RunAskOK(calls'[d], EndedRuns')
  <2>1. RunAskOK(calls'[d], EndedRuns)
    BY <1>1, <1>4 DEF RunAsksOK, Busy
  <2>. QED
    BY <1>3, <2>1, RunAskStays
<1>. QED
  BY <1>2, <1>4 DEF RunAsksOK, Busy

(* The smallest unused number is an unused one.                             *)
LEMMA SmallestUnused ==
  ASSUME Unused # {}
  PROVE  Min(Unused) \in Unused
<1>1. Unused \subseteq Nat
  BY DEF Unused, Runs
<1>2. PICK i \in Unused : \A j \in Unused : ~ (<<j, i>> \in OpToRel(<, Nat))
  BY <1>1, NatLessThanWellFounded, WFMin
<1>3. \A j \in Unused : j < i => <<j, i>> \in OpToRel(<, Nat)
  BY <1>1, Zenon DEF OpToRel
<1>4. \A j \in Unused : ~ (j < i)
  BY <1>2, <1>3, Zenon
<1>5. \A j \in Unused : i <= j
  BY <1>1, <1>4
<1>. QED
  BY <1>5 DEF Min

(* What changes runs only: none that has ended goes on.                     *)
LEMMA RunsChange ==
  ASSUME SimulationOK, runs' = [r \in Runs |-> runs'[r]], EndedStay,
         UNCHANGED <<mounted, timers, pollRef, late>>
  PROVE  RunsOK' /\ PollUntilComplete'
<1>1. RunsOK'
  BY DEF SimulationOK, RunsOK, Runs
<1>2. PollUntilComplete'
  BY <1>1 DEF SimulationOK, RunsOK, PollUntilComplete, EndedStay, EndedRuns, Runs
<1>. QED
  BY <1>1, <1>2

LEMMA RunsSame ==
  ASSUME RunsOK, UNCHANGED runs
  PROVE  /\ EndedStay
         /\ runs' = [r \in Runs |-> runs'[r]]
  BY DEF RunsOK, EndedStay, EndedRuns, Runs

(* create_run.                                                              *)
LEMMA PostKeeps ==
  ASSUME SimulationOK, NEW c \in 1..Slots, ServePost(c)
  PROVE  SimulationOK'
<1>1. /\ Busy(c) /\ calls[c].ask.kind = "post"
      /\ UNCHANGED <<mounted, timers, pollRef, late>>
  BY DEF ServePost, Open, Busy
<1>2. ASSUME Unused # {}, NEW status, runs' = [runs EXCEPT ![Min(Unused)] = status],
             Respond(c, Min(Unused)) \/ Refuse(c)
      PROVE  SimulationOK'
  <2>. DEFINE m == Min(Unused)
  <2>1. m \in Runs /\ runs[m] = "none"
    BY <1>2, SmallestUnused DEF Unused
  <2>2. \/ Becomes(c, Request("answered", calls[c].attempt, <<m>>, calls[c].ask))
        \/ Becomes(c, Request("refused", calls[c].attempt, <<>>, calls[c].ask))
    BY <1>1, <1>2, RespondBecomes, RefuseBecomes DEF SimulationOK, RunAsksOK
  <2>3. runs' = [runs EXCEPT ![m] = status]
    BY <1>2
  <2>. HIDE DEF m
  <2>4. /\ runs' = [r \in Runs |-> runs'[r]]
        /\ \A r \in Runs : r # m => runs'[r] = runs[r]
    BY <2>3 DEF SimulationOK, RunsOK
  <2>5. EndedStay
    <3>1. m \notin EndedRuns
      BY <2>1 DEF EndedRuns, Over
    <3>. QED
      BY <2>4, <3>1 DEF EndedStay, EndedRuns
  <2>6. /\ RunAskOK(Request("answered", calls[c].attempt, <<m>>, calls[c].ask), EndedRuns')
        /\ RunAskOK(Request("refused", calls[c].attempt, <<>>, calls[c].ask), EndedRuns')
    BY <1>1, <2>1 DEF RunAskOK, Request, Runs
  <2>7. RunAsksOK'
    BY <2>2, <2>5, <2>6, RunCallChanges DEF SimulationOK
  <2>. QED
    BY <1>1, <2>4, <2>5, <2>7, RunsChange DEF SimulationOK
<1>3. CASE Refuse(c) /\ UNCHANGED runs
  <2>1. Becomes(c, Request("refused", calls[c].attempt, <<>>, calls[c].ask))
    BY <1>1, <1>3, RefuseBecomes DEF SimulationOK, RunAsksOK
  <2>2. EndedStay /\ runs' = [r \in Runs |-> runs'[r]]
    BY <1>3, RunsSame DEF SimulationOK
  <2>3. RunAskOK(Request("refused", calls[c].attempt, <<>>, calls[c].ask), EndedRuns')
    BY <1>1 DEF RunAskOK, Request
  <2>4. RunAsksOK'
    BY <2>1, <2>2, <2>3, RunCallChanges DEF SimulationOK
  <2>. QED
    BY <1>1, <2>2, <2>4, RunsChange DEF SimulationOK
<1>. QED
  BY <1>2, <1>3 DEF ServePost

(* pollRun: the timer of the new run is set.                                *)
LEMMA PostAnsweredKeeps ==
  ASSUME SimulationOK, NEW c \in 1..Slots, PostAnswered(c)
  PROVE  SimulationOK'
<1>1. /\ Busy(c) /\ calls[c].ask.kind = "post" /\ calls[c].at = "answered"
      /\ runs' = runs /\ Take(c)
      /\ pollRef' = Answer(c) /\ timers' = (timers \ {pollRef}) \cup {Answer(c)}
  BY DEF PostAnswered, Answered, Asking, Busy
<1>2. Answer(c) \in Runs
  BY <1>1 DEF SimulationOK, RunAsksOK, RunAskOK, Answer
<1>3. EndedStay /\ runs' = [r \in Runs |-> runs'[r]]
  BY <1>1, RunsSame DEF SimulationOK
<1>4. RunAsksOK'
  BY <1>1, <1>3, TakeBecomes, RunCallChanges DEF SimulationOK, RunAsksOK
<1>5. RunsOK' /\ PollUntilComplete'
  BY <1>1, <1>2, <1>3 DEF RunsOK, PollUntilComplete, Runs
<1>. QED
  BY <1>4, <1>5 DEF SimulationOK

(* get_run: the answer says what the run is now.                            *)
LEMMA PollKeeps ==
  ASSUME SimulationOK, NEW c \in 1..Slots, ServePoll(c)
  PROVE  SimulationOK'
<1>. DEFINE r == calls[c].ask.run
            answer == [run |-> r, status |-> runs[r]]
<1>1. /\ Busy(c) /\ calls[c].ask.kind = "poll"
      /\ UNCHANGED <<mounted, runs, timers, pollRef, late>>
  BY DEF ServePoll, Open, Busy, simPageVars
<1>2. r \in Runs
  BY <1>1 DEF SimulationOK, RunAsksOK, RunAskOK
<1>3. EndedStay /\ runs' = [q \in Runs |-> runs'[q]] /\ EndedRuns' = EndedRuns
  BY <1>1, RunsSame DEF SimulationOK, EndedRuns, Runs
<1>4. RunAsksOK'
  <2>1. CASE Refuse(c)
    <3>1. Becomes(c, Request("refused", calls[c].attempt, <<>>, calls[c].ask))
      BY <1>1, <2>1, RefuseBecomes DEF SimulationOK, RunAsksOK
    <3>2. RunAskOK(Request("refused", calls[c].attempt, <<>>, calls[c].ask), EndedRuns')
      BY <1>1, <1>2 DEF RunAskOK, Request
    <3>. QED
      BY <1>3, <3>1, <3>2, RunCallChanges DEF SimulationOK
  <2>2. CASE Respond(c, answer)
    <3>1. Becomes(c, Request("answered", calls[c].attempt, <<answer>>, calls[c].ask))
      BY <1>1, <2>2, RespondBecomes DEF SimulationOK, RunAsksOK
    <3>2. answer.run = r /\ answer.status = runs[r]
      OBVIOUS
    <3>3. Over(answer.status) => answer.run \in EndedRuns'
      BY <1>2, <1>3, <3>2 DEF EndedRuns
    <3>. HIDE DEF answer
    <3>4. RunAskOK(Request("answered", calls[c].attempt, <<answer>>, calls[c].ask), EndedRuns')
      BY <1>1, <1>2, <3>3 DEF RunAskOK, Request
    <3>. QED
      BY <1>3, <3>1, <3>4, RunCallChanges DEF SimulationOK
  <2>. QED
    BY <2>1, <2>2 DEF ServePoll
<1>. QED
  BY <1>1, <1>3, <1>4, RunsChange DEF SimulationOK

(* An answer that says that the run of the known timer has ended stops it.  *)
LEMMA PollAnsweredKeeps ==
  ASSUME SimulationOK, NEW c \in 1..Slots, PollAnswered(c)
  PROVE  SimulationOK'
<1>1. /\ Busy(c) /\ calls[c].ask.kind = "poll" /\ calls[c].at = "answered" /\ Take(c)
      /\ UNCHANGED <<mounted, runs, pollRef>>
  BY DEF PollAnswered, Answered, Asking, Busy
<1>2. EndedStay /\ runs' = [q \in Runs |-> runs'[q]]
  BY <1>1, RunsSame DEF SimulationOK
<1>3. RunAsksOK'
  BY <1>1, <1>2, TakeBecomes, RunCallChanges DEF SimulationOK, RunAsksOK
<1>4. CASE UNCHANGED <<timers, late>>
  BY <1>1, <1>2, <1>3, <1>4, RunsChange DEF SimulationOK
<1>5. CASE /\ Over(Answer(c).status)
           /\ timers' = timers \ {pollRef}
           /\ late' = (late \/ Answer(c).run # pollRef)
  <2>1. Answer(c).run \in EndedRuns
    BY <1>1, <1>5 DEF SimulationOK, RunAsksOK, RunAskOK, Answer
  <2>2. ~ late' => pollRef \in EndedRuns
    BY <1>5, <2>1
  <2>3. PollUntilComplete'
    BY <1>1, <2>2 DEF PollUntilComplete, EndedRuns
  <2>. QED
    BY <1>1, <1>2, <1>3, <2>3 DEF SimulationOK, RunsOK, Runs
<1>. QED
  BY <1>4, <1>5 DEF PollAnswered, Stops

(* A call is taken and nothing else that counts happens.                    *)
LEMMA TakenKeeps ==
  ASSUME SimulationOK, NEW c \in 1..Slots, Take(c),
         UNCHANGED <<mounted, runs, timers, pollRef, late>>
  PROVE  SimulationOK'
<1>1. EndedStay /\ runs' = [q \in Runs |-> runs'[q]]
  BY RunsSame DEF SimulationOK
<1>2. RunAsksOK'
  BY <1>1, TakeBecomes, RunCallChanges DEF SimulationOK, RunAsksOK
<1>. QED
  BY <1>1, <1>2, RunsChange DEF SimulationOK

(* A call is sent: a click on Run, a tick of a timer.                       *)
LEMMA SentKeeps ==
  ASSUME SimulationOK, NEW ask, Send(<<ask>>),
         ask.kind = "post" \/ (ask.kind = "poll" /\ ask.run \in Runs),
         UNCHANGED <<mounted, runs, timers, pollRef, late>>
  PROVE  SimulationOK'
<1>1. EndedStay /\ runs' = [q \in Runs |-> runs'[q]]
  BY RunsSame DEF SimulationOK
<1>2. RunAskOK(Request("sent", 1, <<>>, ask), EndedRuns)
  BY DEF RunAskOK, Request
<1>3. RunAsksOK'
  BY <1>2, RunCallSent DEF SimulationOK
<1>. QED
  BY <1>1, <1>3, RunsChange DEF SimulationOK

(* The background task and the reset: the calls stay.                       *)
LEMMA RunsMove ==
  ASSUME SimulationOK, calls' = calls, runs' = [r \in Runs |-> runs'[r]], EndedStay,
         UNCHANGED <<mounted, timers, pollRef, late>>
  PROVE  SimulationOK'
<1>1. RunAsksOK'
  <2>1. CallsOK'
    BY DEF SimulationOK, RunAsksOK, CallsOK, CallOK
  <2>2. ASSUME NEW d \in 1..Slots, Busy(d)'
        PROVE  RunAskOK(calls'[d], EndedRuns')
    BY <2>2, RunAskStays DEF SimulationOK, RunAsksOK, Busy
  <2>. QED
    BY <2>1, <2>2 DEF RunAsksOK, Busy
<1>. QED
  BY <1>1, RunsChange DEF SimulationOK

LEMMA RunEndsKeeps ==
  ASSUME SimulationOK, NEW r \in Runs, RunEnds(r)
  PROVE  SimulationOK'
<1>1. PICK status : runs[r] = "running" /\ runs' = [runs EXCEPT ![r] = status]
  BY DEF RunEnds
<1>2. /\ runs' = [q \in Runs |-> runs'[q]]
      /\ \A q \in Runs : q # r => runs'[q] = runs[q]
  BY <1>1 DEF SimulationOK, RunsOK
<1>3. EndedStay
  BY <1>1, <1>2 DEF EndedStay, EndedRuns, Over, Runs
<1>. QED
  BY <1>2, <1>3, RunsMove DEF RunEnds, clientVars

LEMMA ResetKeeps ==
  ASSUME SimulationOK, ResetRuns
  PROVE  SimulationOK'
<1>1. runs' = [r \in Runs |-> IF runs[r] = "none" THEN "none" ELSE "gone"]
  BY DEF ResetRuns
<1>2. runs' = [r \in Runs |-> runs'[r]]
  BY <1>1
<1>3. EndedStay
  <2>1. \A r \in EndedRuns : r \in Runs /\ runs[r] # "none"
    BY DEF EndedRuns, Over
  <2>. QED
    BY <1>1, <2>1 DEF EndedStay, EndedRuns, Runs
<1>. QED
  BY <1>2, <1>3, RunsMove DEF ResetRuns, clientVars

LEMMA LeaveKeeps ==
  ASSUME SimulationOK, LeaveSimulation
  PROVE  SimulationOK'
<1>1. calls' = calls /\ runs' = runs /\ pollRef' = pollRef /\ mounted' = FALSE
  BY DEF LeaveSimulation, clientVars
<1>2. RunAsksOK'
  BY <1>1 DEF SimulationOK, RunAsksOK, CallsOK, CallOK, Busy, EndedRuns
<1>. QED
  BY <1>1, <1>2 DEF SimulationOK, RunsOK, PollUntilComplete

LEMMA SimulationFault ==
  ASSUME SimulationOK, NEW c \in 1..Slots, Lose(c) \/ Refused(c),
         UNCHANGED <<mounted, simPageVars>>
  PROVE  SimulationOK'
<1>1. Busy(c) /\ Failed(c)
  BY FaultBecomes DEF SimulationOK, RunAsksOK
<1>2. UNCHANGED <<mounted, runs, timers, pollRef, late>>
  BY DEF simPageVars
<1>3. EndedStay /\ runs' = [q \in Runs |-> runs'[q]] /\ EndedRuns' = EndedRuns
  BY <1>2, RunsSame DEF SimulationOK, EndedRuns, Runs
<1>4. RunAskOK(calls[c], EndedRuns)
  BY <1>1 DEF SimulationOK, RunAsksOK
<1>5. RunAsksOK'
  <2>1. ASSUME NEW at, at # "answered", NEW n, Becomes(c, Request(at, n, <<>>, calls[c].ask))
        PROVE  RunAsksOK'
    <3>1. RunAskOK(Request(at, n, <<>>, calls[c].ask), EndedRuns')
      BY <1>4, <2>1 DEF RunAskOK, Request
    <3>. QED
      BY <1>3, <2>1, <3>1, RunCallChanges DEF SimulationOK
  <2>. QED
    BY <1>1, <2>1 DEF Failed
<1>. QED
  BY <1>2, <1>3, <1>5, RunsChange DEF SimulationOK

LEMMA SimulationKeeps ==
  ASSUME SimulationOK, SimPageNext
  PROVE  SimulationOK'
<1>1. CASE Submit
  <2>1. [kind |-> "post"].kind = "post"
    OBVIOUS
  <2>. QED
    BY <1>1, <2>1, SentKeeps DEF Submit
<1>2. CASE ResetRuns
  BY <1>2, ResetKeeps
<1>3. CASE LeaveSimulation
  BY <1>3, LeaveKeeps
<1>4. ASSUME NEW c \in 1..Slots, SimPageCall(c)
      PROVE  SimulationOK'
  <2>1. CASE ServePost(c) \/ PostAnswered(c)
    BY <2>1, PostKeeps, PostAnsweredKeeps
  <2>2. CASE ServePoll(c) \/ PollAnswered(c)
    BY <2>2, PollKeeps, PollAnsweredKeeps
  <2>3. CASE PostRejected(c) \/ PollRejected(c)
    BY <2>3, TakenKeeps DEF PostRejected, PollRejected, simPageVars
  <2>. QED
    BY <1>4, <2>1, <2>2, <2>3 DEF SimPageCall
<1>5. ASSUME NEW r \in Runs, Tick(r)
      PROVE  SimulationOK'
  <2>. DEFINE ask == [kind |-> "poll", run |-> r]
  <2>1. ask.kind = "poll" /\ ask.run \in Runs
    OBVIOUS
  <2>2. Send(<<ask>>) /\ UNCHANGED <<mounted, runs, timers, pollRef, late>>
    BY <1>5 DEF Tick, simPageVars
  <2>. HIDE DEF ask
  <2>. QED
    BY <2>1, <2>2, SentKeeps
<1>6. ASSUME NEW r \in Runs, RunEnds(r)
      PROVE  SimulationOK'
  BY <1>6, RunEndsKeeps
<1>. QED
  BY <1>1, <1>2, <1>3, <1>4, <1>5, <1>6 DEF SimPageNext

LEMMA SimulationStarts ==
  ASSUME ConsoleInit
  PROVE  SimulationInv
<1>1. runs = [r \in Runs |-> "none"] /\ pollRef = None
  BY DEF ConsoleInit, SimPageInit
<1>2. ASSUME tab = "simulation"
      PROVE  RunAsksOK
  <2>1. DOMAIN Opened = {}
    BY <1>2 DEF Opened
  <2>2. calls = [c \in 1..Slots |-> Free]
    BY <2>1 DEF ConsoleInit
  <2>3. \A c \in 1..Slots : calls[c] = Free /\ ~ Busy(c)
    BY <2>2 DEF Busy, Free
  <2>. QED
    BY <2>2, <2>3 DEF RunAsksOK, CallsOK, CallOK
<1>. QED
  BY <1>1, <1>2 DEF SimulationInv, RunsOK, PollUntilComplete

LEMMA SimulationSteps ==
  ASSUME SimulationInv, [ConsoleNext]_consoleVars
  PROVE  SimulationInv'
<1>1. tab' = tab
  BY DEF ConsoleNext, In, ClientOnly, consoleVars
<1>2. ASSUME tab # "simulation"
      PROVE  SimulationInv'
  <2>1. UNCHANGED simPageVars
    BY <1>2 DEF ConsoleNext, In, ClientOnly, consoleVars
  <2>. QED
    BY <1>1, <1>2, <2>1 DEF SimulationInv, simPageVars
<1>3. ASSUME tab = "simulation"
      PROVE  SimulationOK'
  <2>1. SimulationOK
    BY <1>3 DEF SimulationInv, SimulationOK
  <2>2. CASE SimPageNext
    BY <2>1, <2>2, SimulationKeeps
  <2>3. ASSUME NEW c \in 1..Slots, Lose(c) \/ Refused(c), UNCHANGED <<mounted, simPageVars>>
        PROVE  SimulationOK'
    BY <2>1, <2>3, SimulationFault
  <2>4. CASE UNCHANGED consoleVars
    <3>1. UNCHANGED <<calls, mounted, runs, timers, pollRef, late>>
      BY <2>4 DEF consoleVars, clientVars, simPageVars
    <3>2. EndedStay /\ runs' = [q \in Runs |-> runs'[q]]
      BY <2>1, <3>1, RunsSame DEF SimulationOK
    <3>. QED
      BY <2>1, <3>1, <3>2, RunsMove
  <2>. QED
    BY <1>3, <2>2, <2>3, <2>4 DEF ConsoleNext, In, ClientOnly
<1>. QED
  BY <1>1, <1>2, <1>3 DEF SimulationInv, SimulationOK

(* While it is open, the page does not stop to poll the run it started last *)
(* before that run has ended, unless a late answer about an earlier one     *)
(* said that that one had (simulation/page.tsx:162): every answer in flight *)
(* that says that a run has ended is about a run that has, and ended runs   *)
(* stay so.                                                                 *)
THEOREM PollsUntilComplete == ConsoleSpec => []PollUntilComplete
<1>1. SimulationInv => PollUntilComplete
  BY DEF SimulationInv, PollUntilComplete
<1>. QED
  BY <1>1, SimulationStarts, SimulationSteps, PTL DEF ConsoleSpec

=============================================================================
