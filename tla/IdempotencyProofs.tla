-------------------------- MODULE IdempotencyProofs --------------------------
(***************************************************************************)
(* Proofs about the idempotency layer, for any number of requests, keys and *)
(* transaction ids, any outages of Redis, resets and crashes.               *)
(***************************************************************************)
EXTENDS Idempotency, TLAPS

(* A request that has not been stored yet, or never will be.                *)
Unstored == {"idle", "check", "check_ping", "get", "process", "aborted"}

(* A request whose payment has been stored; of one that has "failed" nobody *)
(* can tell.                                                                *)
Stored == {"refresh", "cache", "cache_ping", "setex", "answer", "created"}

(* Steps that use the key.                                                  *)
Keyed == {"check", "check_ping", "get", "cache_ping", "setex"}

StepInv ==
  \A r \in Requests :
    /\ step[r] \in Keyed => KeyOf[r] # NoKey
    /\ step[r] \in Unstored => r \notin ledger
    /\ resets = 0 /\ step[r] \in Stored => r \in ledger

(* No two payments have one transaction id.                                 *)
LedgerInv ==
  \A p, q \in ledger : TransactionOf[p] = TransactionOf[q] => p = q

(* What the cache says has been stored, and under that key.                 *)
CacheInv ==
  resets = 0 =>
    \A k \in CacheKeys : cache[k] # Nothing => cache[k] \in ledger /\ KeyOf[cache[k]] = k

AnswerInv ==
  resets = 0 =>
    \A r \in Requests :
      answer[r] # Nothing => answer[r] \in ledger /\ KeyOf[answer[r]] = KeyOf[r]

IdemInv == IdemTypeOK /\ StepInv /\ LedgerInv /\ CacheInv /\ AnswerInv

LEMMA IdemInitially == IdemInit => IdemInv
  BY BoundsAssumption DEF IdemInit, IdemInv, IdemTypeOK, StepInv, LedgerInv, CacheInv,
    AnswerInv, Keyed, Unstored, Stored

-----------------------------------------------------------------------------
(* Steps of a request that only choose the next one.                        *)
LEMMA MovesKeep ==
  ASSUME IdemInv, NEW r \in Requests,
         Arrive(r) \/ CheckKey(r) \/ ReadBack(r) \/ ReadBackFails(r) \/ ConnectCache(r)
  PROVE  IdemInv'
<1> USE DEF Arrive, CheckKey, ReadBack, ReadBackFails, ConnectCache, GetRedis, Ping, To,
            redisVars, bounds
<1>1. IdemTypeOK'
  BY DEF IdemInv, IdemTypeOK, InHand, Answers
<1>2. StepInv'
  BY DEF IdemInv, IdemTypeOK, StepInv, Keyed, Unstored, Stored
<1>3. LedgerInv' /\ CacheInv' /\ AnswerInv'
  BY DEF IdemInv, LedgerInv, CacheInv, AnswerInv
<1> QED
  BY <1>1, <1>2, <1>3 DEF IdemInv

(* The key of a request that has one is a key of the cache.                 *)
LEMMA KeyInCache ==
  ASSUME IdemInv, NEW r \in Requests, step[r] \in Keyed
  PROVE  KeyOf[r] \in CacheKeys
  BY DEF IdemInv, StepInv, CacheKeys

LEMMA GetCachedKeeps ==
  ASSUME IdemInv, NEW r \in Requests, GetCached(r)
  PROVE  IdemInv'
<1> USE DEF GetCached, To, redisVars, bounds
<1>0. KeyOf[r] \in CacheKeys /\ redis \in {"up", "down"}
  BY KeyInCache DEF Keyed, IdemInv, IdemTypeOK
<1>1. IdemTypeOK'
  BY <1>0 DEF IdemInv, IdemTypeOK, InHand, Answers
<1>2. StepInv'
  BY <1>0 DEF IdemInv, IdemTypeOK, StepInv, Keyed, Unstored, Stored
<1>3. LedgerInv' /\ CacheInv'
  BY DEF IdemInv, LedgerInv, CacheInv
<1>4. AnswerInv'
  BY <1>0 DEF IdemInv, IdemTypeOK, CacheInv, AnswerInv
<1> QED
  BY <1>1, <1>2, <1>3, <1>4 DEF IdemInv

(* The commit, heard or not, and the failure that stores nothing.           *)
LEMMA ProcessKeeps ==
  ASSUME IdemInv, NEW r \in Requests, Process(r) \/ ProcessFails(r)
  PROVE  IdemInv'
<1> USE DEF Process, ProcessFails, To, redisVars, bounds
<1>1. IdemTypeOK'
  BY DEF IdemInv, IdemTypeOK, InHand, Answers
<1>2. StepInv'
  BY DEF IdemInv, IdemTypeOK, StepInv, Keyed, Unstored, Stored
<1>3. LedgerInv'
  BY DEF IdemInv, LedgerInv, Taken
<1>4. CacheInv' /\ AnswerInv'
  BY DEF IdemInv, CacheInv, AnswerInv
<1> QED
  BY <1>1, <1>2, <1>3, <1>4 DEF IdemInv

LEMMA CacheKeeps ==
  ASSUME IdemInv, NEW r \in Requests, CacheResponse(r)
  PROVE  IdemInv'
<1> USE DEF CacheResponse, To, bounds
<1>0. KeyOf[r] \in CacheKeys
  BY KeyInCache DEF Keyed
<1>1. IdemTypeOK'
  BY <1>0 DEF IdemInv, IdemTypeOK, InHand, Answers
<1>2. StepInv'
  BY DEF IdemInv, IdemTypeOK, StepInv, Keyed, Unstored, Stored
<1>3. CacheInv'
  BY <1>0 DEF IdemInv, IdemTypeOK, StepInv, Stored, CacheInv
<1>4. LedgerInv' /\ AnswerInv'
  BY DEF IdemInv, LedgerInv, AnswerInv
<1> QED
  BY <1>1, <1>2, <1>3, <1>4 DEF IdemInv

LEMMA RespondKeeps ==
  ASSUME IdemInv, NEW r \in Requests, Respond(r)
  PROVE  IdemInv'
<1> USE DEF Respond, To, redisVars, bounds
<1>1. IdemTypeOK'
  BY DEF IdemInv, IdemTypeOK, InHand, Answers
<1>2. StepInv'
  BY DEF IdemInv, IdemTypeOK, StepInv, Keyed, Unstored, Stored
<1>3. LedgerInv' /\ CacheInv'
  BY DEF IdemInv, LedgerInv, CacheInv
<1>4. AnswerInv'
  BY DEF IdemInv, IdemTypeOK, StepInv, Stored, AnswerInv
<1> QED
  BY <1>1, <1>2, <1>3, <1>4 DEF IdemInv

(* Redis fails, returns, forgets.                                           *)
LEMMA RedisKeeps ==
  ASSUME IdemInv, RedisFails \/ RedisReturns \/ \E k \in CacheKeys : Expire(k)
  PROVE  IdemInv'
<1> USE DEF RedisFails, RedisReturns, Expire, bounds
<1>1. IdemTypeOK'
  BY BoundsAssumption DEF IdemInv, IdemTypeOK
<1>2. CacheInv'
  BY DEF IdemInv, IdemTypeOK, CacheInv
<1>3. StepInv' /\ LedgerInv' /\ AnswerInv'
  BY DEF IdemInv, StepInv, LedgerInv, AnswerInv
<1> QED
  BY <1>1, <1>2, <1>3 DEF IdemInv

LEMMA ResetKeeps == IdemInv /\ Reset => IdemInv'
<1> SUFFICES ASSUME IdemInv, Reset PROVE IdemInv'
  OBVIOUS
<1>1. resets' # 0 /\ ledger' = {}
  BY DEF IdemInv, IdemTypeOK, Reset
<1>2. IdemTypeOK'
  BY BoundsAssumption DEF IdemInv, IdemTypeOK, Reset, redisVars
<1> QED
  BY <1>1, <1>2 DEF IdemInv, StepInv, LedgerInv, CacheInv, AnswerInv, Reset

LEMMA CrashKeeps == IdemInv /\ Crash => IdemInv'
<1> SUFFICES ASSUME IdemInv, Crash PROVE IdemInv'
  OBVIOUS
<1>1. IdemTypeOK'
  BY BoundsAssumption DEF IdemInv, IdemTypeOK, Crash, InHand, Answers
<1>2. StepInv'
  BY DEF IdemInv, IdemTypeOK, StepInv, Crash, InHand, Keyed, Unstored, Stored
<1>3. LedgerInv' /\ CacheInv' /\ AnswerInv'
  BY DEF IdemInv, LedgerInv, CacheInv, AnswerInv, Crash
<1> QED
  BY <1>1, <1>2, <1>3 DEF IdemInv

(* Every step keeps the invariant.                                          *)
THEOREM IdemInvariant == IdemSpec => []IdemInv
<1>1. IdemInv /\ [IdemNext]_idemVars => IdemInv'
  <2> SUFFICES ASSUME IdemInv, [IdemNext]_idemVars PROVE IdemInv'
    OBVIOUS
  <2>1. ASSUME NEW r \in Requests, Arrive(r) \/ Handle(r) PROVE IdemInv'
    BY <2>1, MovesKeep, GetCachedKeeps, ProcessKeeps, CacheKeeps, RespondKeeps DEF Handle
  <2>2. CASE UNCHANGED idemVars
    BY <2>2 DEF idemVars, redisVars, bounds, IdemInv, IdemTypeOK, StepInv, LedgerInv, CacheInv,
      AnswerInv
  <2> QED
    BY <2>1, <2>2, RedisKeeps, ResetKeeps, CrashKeeps DEF IdemNext, Quiet
<1> QED
  BY <1>1, IdemInitially, PTL DEF IdemSpec

-----------------------------------------------------------------------------
(* Steps, answers and cache entries stay in range.                          *)
THEOREM IdemTypeCorrect == IdemSpec => []IdemTypeOK
<1>1. IdemInv => IdemTypeOK
  BY DEF IdemInv
<1> QED
  BY <1>1, IdemInvariant, PTL

(* Answers of success speak of stored payments, and of one for each         *)
(* transaction id: two stored payments never share one.                     *)
THEOREM AnswersAgree == IdemSpec => []ConsistentAnswers
<1>1. IdemInv => ConsistentAnswers
  BY DEF IdemInv, LedgerInv, AnswerInv, ConsistentAnswers
<1> QED
  BY <1>1, IdemInvariant, PTL

(* An error that hides a stored payment comes from the commit or from the   *)
(* refresh, never from the cache: on the way to the lookup nothing is       *)
(* stored yet, and on the way from the write no failure leads to an error.  *)
THEOREM CacheHarmless == IdemSpec => CacheHidesNoPayment
<1> DEFINE Shown == \A r \in Requests :
             step'[r] \in {"failed", "aborted"} /\ step'[r] # step[r] /\ r \in ledger'
               => step[r] \in {"process", "refresh"}
<1>1. IdemInv /\ [IdemNext]_idemVars => [Shown]_idemVars
  <2> SUFFICES ASSUME IdemInv, IdemNext PROVE Shown
    OBVIOUS
  <2>1. ASSUME NEW r \in Requests, Arrive(r) \/ Handle(r) PROVE Shown
    <3>1. CASE GetCached(r)
      BY <3>1 DEF GetCached, To, IdemInv, IdemTypeOK, StepInv, Unstored
    <3>2. CASE Process(r) \/ ProcessFails(r) \/ ReadBack(r) \/ ReadBackFails(r)
      BY <3>2 DEF Process, ProcessFails, ReadBack, ReadBackFails, To, IdemInv, IdemTypeOK
    <3>3. CASE Arrive(r) \/ CheckKey(r) \/ ConnectCache(r) \/ CacheResponse(r) \/ Respond(r)
      BY <3>3 DEF Arrive, CheckKey, ConnectCache, CacheResponse, Respond, GetRedis, Ping, To,
        IdemInv, IdemTypeOK
    <3> QED
      BY <2>1, <3>1, <3>2, <3>3 DEF Handle
  <2>2. CASE RedisFails \/ RedisReturns \/ (\E k \in CacheKeys : Expire(k)) \/ Reset \/ Quiet
    BY <2>2 DEF RedisFails, RedisReturns, Expire, Reset, Quiet, idemVars
  <2>3. CASE Crash
    BY <2>3 DEF Crash
  <2> QED
    BY <2>1, <2>2, <2>3 DEF IdemNext
<1> QED
  BY <1>1, IdemInvariant, PTL DEF IdemSpec, CacheHidesNoPayment

-----------------------------------------------------------------------------
(* The status of each request in the abstract ledger.                       *)
Statuses == [r \in Requests |-> StatusOf(step[r])]

(* What each step of a request is there.                                    *)
LEMMA StatusAfter ==
  ASSUME IdemInv, NEW r \in Requests, NEW s, To(r, s)
  PROVE  Statuses' = [Statuses EXCEPT ![r] = StatusOf(s)]
  BY DEF IdemInv, IdemTypeOK, To, Statuses

(* A step that does not change the status of its request stutters.          *)
LEMMA Stutters ==
  ASSUME IdemInv, NEW r \in Requests, NEW s, To(r, s), StatusOf(s) = StatusOf(step[r])
  PROVE  Statuses' = Statuses
  BY StatusAfter DEF Statuses

LEMMA RequestImplements ==
  ASSUME IdemInv, NEW r \in Requests, Arrive(r) \/ Handle(r)
  PROVE  [Ledger!LedgerNext]_(Ledger!ledgerVars)
<1> USE DEF Ledger!ledgerVars
<1>1. CASE Arrive(r) \/ CheckKey(r) \/ ReadBack(r) \/ ConnectCache(r) \/ CacheResponse(r)
  <2>1. \E s : To(r, s) /\ StatusOf(s) = StatusOf(step[r])
    BY <1>1 DEF Arrive, CheckKey, ReadBack, ConnectCache, CacheResponse, GetRedis, Ping,
      StatusOf
  <2>2. Statuses' = Statuses
    BY <2>1, Stutters
  <2>3. ledger' = ledger
    BY <1>1 DEF Arrive, CheckKey, ReadBack, ConnectCache, CacheResponse, GetRedis, Ping
  <2> QED
    BY <2>2, <2>3 DEF Statuses
<1>2. CASE GetCached(r)
  <2>1. CASE To(r, "aborted")
    <3>1. Statuses' = [Statuses EXCEPT ![r] = "failed"] /\ Statuses[r] = "open"
      BY <1>2, <2>1, StatusAfter DEF GetCached, StatusOf, Statuses
    <3>2. r \notin ledger /\ ledger' = ledger
      BY <1>2 DEF GetCached, IdemInv, StepInv, Unstored
    <3> QED
      BY <3>1, <3>2 DEF Statuses, Ledger!LedgerNext, Ledger!Fail, Ledger!Become
  <2>2. CASE To(r, "replayed") \/ To(r, "process")
    <3>1. Statuses' = Statuses
      BY <1>2, <2>2, Stutters DEF GetCached, StatusOf
    <3> QED
      BY <1>2, <3>1 DEF Statuses, GetCached
  <2> QED
    BY <1>2, <2>1, <2>2 DEF GetCached, IdemInv, IdemTypeOK
<1>3. CASE Process(r)
  <2>1. Statuses' = [Statuses EXCEPT ![r] = "stored"] /\ Statuses[r] = "open"
    BY <1>3, StatusAfter DEF Process, StatusOf, Statuses
  <2> QED
    BY <1>3, <2>1 DEF Statuses, Process, Taken, Ledger!LedgerNext, Ledger!Accept, Ledger!Become
<1>4. CASE ProcessFails(r)
  <2>1. Statuses' = [Statuses EXCEPT ![r] = "failed"] /\ Statuses[r] = "open"
    BY <1>4, StatusAfter DEF ProcessFails, StatusOf, Statuses
  <2>2. CASE ledger' = ledger
    <3>1. r \notin ledger
      BY <1>4 DEF ProcessFails, IdemInv, StepInv, Unstored
    <3> QED
      BY <2>1, <2>2, <3>1 DEF Statuses, Ledger!LedgerNext, Ledger!Fail, Ledger!Become
  <2>3. CASE ~ Taken(r) /\ ledger' = ledger \cup {r}
    BY <2>1, <2>3 DEF Statuses, Taken, Ledger!LedgerNext, Ledger!Accept, Ledger!Become
  <2> QED
    BY <1>4, <2>2, <2>3 DEF ProcessFails
<1>5. CASE ReadBackFails(r)
  <2>1. Statuses' = [Statuses EXCEPT ![r] = "failed"] /\ Statuses[r] = "stored"
    BY <1>5, StatusAfter DEF ReadBackFails, StatusOf, Statuses
  <2> QED
    BY <1>5, <2>1 DEF Statuses, ReadBackFails, Ledger!LedgerNext, Ledger!Fail, Ledger!Become
<1>6. CASE Respond(r)
  <2>1. Statuses' = [Statuses EXCEPT ![r] = "created"] /\ Statuses[r] = "stored"
    BY <1>6, StatusAfter DEF Respond, StatusOf, Statuses
  <2> QED
    BY <1>6, <2>1 DEF Respond, Statuses, Ledger!LedgerNext, Ledger!AnswerOk, Ledger!Become
<1> QED
  BY <1>1, <1>2, <1>3, <1>4, <1>5, <1>6 DEF Handle

(* A crash loses the calls in flight; those were all unanswered.            *)
LEMMA CrashImplements ==
  ASSUME IdemInv, Crash
  PROVE  [Ledger!LedgerNext]_(Ledger!ledgerVars)
<1> DEFINE S == {r \in Requests : step[r] \in InHand}
<1>1. \A r \in S : Statuses[r] \in {"open", "stored"}
  BY DEF InHand, Statuses, StatusOf
<1>2. Statuses' = [r \in Requests |-> IF r \in S THEN "lost" ELSE Statuses[r]]
  BY DEF Crash, Statuses, StatusOf
<1>3. S \in SUBSET Requests /\ ledger' = ledger
  BY DEF Crash
<1> HIDE DEF S
<1> QED
  BY <1>1, <1>2, <1>3 DEF Statuses, Ledger!LedgerNext, Ledger!Lose, Ledger!Unanswered

(* The layer implements the abstract ledger.                                *)
THEOREM CacheRefinesLedger == IdemSpec => CachedImplementsLedger
<1>1. IdemInit => Ledger!LedgerInit
  BY DEF IdemInit, Ledger!LedgerInit, StatusOf
<1>2. IdemInv /\ [IdemNext]_idemVars => [Ledger!LedgerNext]_(Ledger!ledgerVars)
  <2> SUFFICES ASSUME IdemInv, [IdemNext]_idemVars
               PROVE  [Ledger!LedgerNext]_(Ledger!ledgerVars)
    OBVIOUS
  <2>1. CASE \E r \in Requests : Arrive(r) \/ Handle(r)
    BY <2>1, RequestImplements
  <2>2. CASE RedisFails \/ RedisReturns \/ (\E k \in CacheKeys : Expire(k))
             \/ Quiet \/ UNCHANGED idemVars
    BY <2>2 DEF RedisFails, RedisReturns, Expire, Quiet, idemVars, redisVars, Ledger!ledgerVars
  <2>3. CASE Reset
    BY <2>3 DEF Reset, Ledger!ledgerVars, Ledger!LedgerNext, Ledger!Clear
  <2>4. CASE Crash
    BY <2>4, CrashImplements
  <2> QED
    BY <2>1, <2>2, <2>3, <2>4 DEF IdemNext
<1> QED
  BY <1>1, <1>2, IdemInvariant, PTL DEF IdemSpec, CachedImplementsLedger, Ledger!LedgerSpec

=============================================================================
