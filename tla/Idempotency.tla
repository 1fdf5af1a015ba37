----------------------------- MODULE Idempotency -----------------------------
(***************************************************************************)
(* backend/app/security/idempotency.py around POST /payments: a lazily      *)
(* created Redis client shared by all handlers, a lookup of the             *)
(* Idempotency-Key before the payment and a write of the response after it. *)
(* process_payment is two steps here, its commit and the refresh after it,  *)
(* which PaymentsApi justifies: it implements PaymentLedger.                *)
(***************************************************************************)
EXTENDS Naturals, FiniteSets

CONSTANTS
  Requests,       \* the requests, a client's retries among them
  KeyOf,          \* KeyOf[r]: its Idempotency-Key
  NoKey,          \* a request without the header
  TransactionOf,  \* TransactionOf[r]: its external transaction id
  Nothing,        \* an empty cache entry
  MaxOutages,     \* bound: how often Redis fails or drops its data
  MaxResets,      \* bound: how often the live payments are cleared
  MaxCrashes      \* bound: how often the server dies

CacheKeys == {KeyOf[r] : r \in Requests} \ {NoKey}

ASSUME BoundsAssumption ==
  /\ MaxOutages \in Nat /\ MaxResets \in Nat /\ MaxCrashes \in Nat
  /\ Nothing \notin Requests

VARIABLES
  step,      \* step[r]: the next step of the handler, or its answer
  answer,    \* answer[r]: the payment of the response the client got
  client,    \* the global _redis_client: "none" or "set"
  redis,     \* "up" or "down"
  cache,     \* cache[k]: the payment whose response is stored under k
  ledger,    \* the payments stored
  outages, resets, crashes

redisVars == <<client, redis, cache>>
bounds == <<outages, resets, crashes>>
idemVars == <<step, answer, redisVars, ledger, bounds>>

InHand == {"check", "check_ping", "get", "process", "refresh", "cache", "cache_ping",
           "setex", "answer"}
Answers == {"created", "replayed", "failed", "aborted", "lost"}

To(r, s) == step' = [step EXCEPT ![r] = s]

Arrive(r) ==
  /\ step[r] = "idle"
  /\ To(r, IF KeyOf[r] = NoKey THEN "process" ELSE "check")
  /\ UNCHANGED <<answer, redisVars, ledger, bounds>>

(* get_redis: a handler that finds no client assigns one and awaits a ping; *)
(* every other handler uses the client at once.                             *)
GetRedis(r, here, ping, next) ==
  /\ step[r] = here
  /\ IF client = "none"
       THEN client' = "set" /\ To(r, ping)
       ELSE UNCHANGED client /\ To(r, next)
  /\ UNCHANGED <<answer, redis, cache, ledger, bounds>>

(* The ping: on failure the client is dropped and the caller goes without.  *)
Ping(r, here, up, down) ==
  /\ step[r] = here
  /\ IF redis = "up"
       THEN UNCHANGED client /\ To(r, up)
       ELSE client' = "none" /\ To(r, down)
  /\ UNCHANGED <<redis, cache, ledger, bounds>>

CheckKey(r) ==
  \/ GetRedis(r, "check", "check_ping", "get")
  \/ Ping(r, "check_ping", "get", "process") /\ UNCHANGED answer

(* The lookup is in no try block: without Redis the request ends in a 500.  *)
GetCached(r) ==
  /\ step[r] = "get"
  /\ CASE redis = "down" -> To(r, "aborted") /\ UNCHANGED answer
       [] redis = "up" /\ cache[KeyOf[r]] # Nothing ->
            To(r, "replayed") /\ answer' = [answer EXCEPT ![r] = cache[KeyOf[r]]]
       [] OTHER -> To(r, "process") /\ UNCHANGED answer
  /\ UNCHANGED <<redisVars, ledger, bounds>>

(* Fault: nothing keeps two payments with one transaction id apart.         *)
NeverTaken(r) == r \notin Requests

Taken(r) == \E p \in ledger : TransactionOf[p] = TransactionOf[r]

(* Fault: a payment replaces the one with its transaction id.               *)
Overwrite(r) ==
  /\ step[r] = "process"
  /\ ledger' = {p \in ledger : TransactionOf[p] # TransactionOf[r]} \cup {r}
  /\ To(r, "refresh")
  /\ UNCHANGED <<answer, redisVars, bounds>>

(* process_payment commits the payment.                                     *)
Process(r) ==
  /\ step[r] = "process" /\ ~ Taken(r)
  /\ ledger' = ledger \cup {r}
  /\ To(r, "refresh")
  /\ UNCHANGED <<answer, redisVars, bounds>>

(* It fails, always so on a transaction id that is taken, and has stored    *)
(* nothing -- or the payment, when the answer to its commit was lost.       *)
ProcessFails(r) ==
  /\ step[r] = "process"
  /\ ledger' = ledger \/ (~ Taken(r) /\ ledger' = ledger \cup {r})
  /\ To(r, "failed")
  /\ UNCHANGED <<answer, redisVars, bounds>>

(* The refresh after the commit reads the payment back, which needs it to   *)
(* be there still, a connection, and an answer that validates.              *)
ReadBack(r) ==
  /\ step[r] = "refresh" /\ r \in ledger
  /\ To(r, "cache")
  /\ UNCHANGED <<answer, redisVars, ledger, bounds>>

ReadBackFails(r) ==
  /\ step[r] = "refresh"
  /\ To(r, "failed")
  /\ UNCHANGED <<answer, redisVars, ledger, bounds>>

(* Writing the response: failures are logged and the client is answered.    *)
ConnectCache(r) ==
  \/ KeyOf[r] # NoKey /\ GetRedis(r, "cache", "cache_ping", "setex")
  \/ Ping(r, "cache_ping", "setex", "answer") /\ UNCHANGED answer

(* Fault: the write is outside the try block.                               *)
CacheOrRaise(r) ==
  /\ step[r] = "setex"
  /\ To(r, IF redis = "up" THEN "answer" ELSE "failed")
  /\ cache' = IF redis = "up" THEN [cache EXCEPT ![KeyOf[r]] = r] ELSE cache
  /\ UNCHANGED <<answer, client, redis, ledger, bounds>>

CacheResponse(r) ==
  /\ step[r] = "setex"
  /\ To(r, "answer")
  /\ cache' = IF redis = "up" THEN [cache EXCEPT ![KeyOf[r]] = r] ELSE cache
  /\ UNCHANGED <<answer, client, redis, ledger, bounds>>

Respond(r) ==
  /\ step[r] = "answer" \/ (step[r] = "cache" /\ KeyOf[r] = NoKey)
  /\ To(r, "created") /\ answer' = [answer EXCEPT ![r] = r]
  /\ UNCHANGED <<redisVars, ledger, bounds>>

Handle(r) ==
  \/ CheckKey(r) \/ GetCached(r)
  \/ Process(r) \/ ProcessFails(r) \/ ReadBack(r) \/ ReadBackFails(r)
  \/ ConnectCache(r) \/ CacheResponse(r) \/ Respond(r)

(* Redis goes down, comes back with or without its data, expires an entry.  *)
RedisFails ==
  /\ redis = "up" /\ outages < MaxOutages
  /\ redis' = "down" /\ outages' = outages + 1
  /\ UNCHANGED <<step, answer, client, cache, ledger, resets, crashes>>

RedisReturns ==
  /\ redis = "down" /\ redis' = "up"
  /\ cache' \in {cache, [k \in CacheKeys |-> Nothing]}
  /\ UNCHANGED <<step, answer, client, ledger, bounds>>

Expire(k) ==
  /\ cache[k] # Nothing /\ cache' = [cache EXCEPT ![k] = Nothing]
  /\ UNCHANGED <<step, answer, client, redis, ledger, bounds>>

(* reset_data clears the payments and leaves the cache alone.               *)
Reset ==
  /\ resets < MaxResets /\ resets' = resets + 1
  /\ ledger' = {}
  /\ UNCHANGED <<step, answer, redisVars, outages, crashes>>

Crash ==
  /\ crashes < MaxCrashes /\ crashes' = crashes + 1
  /\ client' = "none"
  /\ step' = [r \in Requests |-> IF step[r] \in InHand THEN "lost" ELSE step[r]]
  /\ UNCHANGED <<answer, redis, cache, ledger, outages, resets>>

Quiet == (\A r \in Requests : step[r] \notin InHand) /\ UNCHANGED idemVars

IdemInit ==
  /\ step = [r \in Requests |-> "idle"]
  /\ answer = [r \in Requests |-> Nothing]
  /\ client = "none" /\ redis \in {"up", "down"}
  /\ cache = [k \in CacheKeys |-> Nothing]
  /\ ledger = {}
  /\ outages = 0 /\ resets = 0 /\ crashes = 0

IdemNext ==
  \/ \E r \in Requests : Arrive(r) \/ Handle(r)
  \/ RedisFails \/ RedisReturns
  \/ \E k \in CacheKeys : Expire(k)
  \/ Reset \/ Crash \/ Quiet

IdemSpec == IdemInit /\ [][IdemNext]_idemVars

(***************************************************************************)
(* Properties.                                                             *)
(***************************************************************************)
(* Steps, answers and cache entries stay in range.                          *)
IdemTypeOK ==
  /\ step \in [Requests -> InHand \cup Answers \cup {"idle"}]
  /\ answer \in [Requests -> Requests \cup {Nothing}]
  /\ client \in {"none", "set"} /\ redis \in {"up", "down"}
  /\ cache \in [CacheKeys -> Requests \cup {Nothing}]
  /\ ledger \subseteq Requests
  /\ outages \in 0..MaxOutages /\ resets \in 0..MaxResets /\ crashes \in 0..MaxCrashes

(* Answers of success for one transaction id always speak of one stored     *)
(* payment, and an answer from the cache of a payment sent under the same   *)
(* key, whatever crashes, outages and expiries fall between the commit and  *)
(* the cache (payments.py:150-162, idempotency.py:51-73).                   *)
ConsistentAnswers ==
  resets = 0 =>
    \A r \in Requests :
      answer[r] # Nothing =>
        /\ answer[r] \in ledger /\ KeyOf[answer[r]] = KeyOf[r]
        /\ \A s \in Requests :
             /\ answer[s] # Nothing
             /\ TransactionOf[answer[s]] = TransactionOf[answer[r]]
             => answer[s] = answer[r]

(* Who is answered 500 although the payment is stored owes it to the commit *)
(* or the refresh of process_payment, never to the cache before or after:   *)
(* no ping, lookup or write that fails, and no client dropped by another    *)
(* handler, hides a payment (idempotency.py:20-32, 62-75,                   *)
(* payments.py:156-162).                                                    *)
CacheHidesNoPayment ==
  [][\A r \in Requests :
       step'[r] \in {"failed", "aborted"} /\ step'[r] # step[r] /\ r \in ledger'
         => step[r] \in {"process", "refresh"}]_idemVars

StatusOf(s) ==
  CASE s \in {"refresh", "cache", "cache_ping", "setex", "answer"} -> "stored"
    [] s \in {"failed", "aborted"} -> "failed"
    [] s \in {"created", "lost"} -> s
    [] OTHER -> "open"

Ledger == INSTANCE PaymentLedger WITH
            Calls <- Requests, Training <- {}, Unsure <- Requests,
            status <- [r \in Requests |-> StatusOf(step[r])]

(* The layer around process_payment adds no payment, loses none and answers *)
(* none twice: it implements the abstract ledger the endpoint below it      *)
(* implements, with every request one that an outage may cut off.           *)
CachedImplementsLedger == Ledger!LedgerSpec

=============================================================================
