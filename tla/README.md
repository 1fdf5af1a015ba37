# Riskshield: verification of the backend and of the console's clients

TLA+ models of the Riskshield backend (`backend/app`, `backend/scripts`,
`backend/synthetic`) and of the frontend code that talks to it, TLC
configurations that check them on small instances, and TLAPS proofs of what
matters most for every instance. Line numbers refer to the repository's files.

1. [The system](#the-system)
2. [The modules and the code](#the-modules-and-the-code)
3. [What the runs check](#what-the-runs-check)
4. [Bounds and fairness](#bounds-and-fairness)
5. [What is proved](#what-is-proved)
6. [Findings](#findings)
7. [Not modelled, and the plan](#not-modelled-and-the-plan)

## The system

| Component | State | Operations | Hard behaviour |
|---|---|---|---|
| Database and sessions (`db/session.py`, `api/deps.py`, `models/`) | tables with unique indexes and foreign keys; per session a transaction, and whether a failed flush has made it unusable | flush, commit, rollback by close | READ COMMITTED: what a handler has read can change before it writes; INSERTs wait for open transactions |
| Payment service (`services/payment_service.py`) | the position in `process_payment`, the decision | upsert customer, merchant, device; evaluate; insert transaction and evaluation; commit; refresh | every await is a point of interleaving; failures at each flush; connections refused or lost, also after the commit |
| Payments API (`api/endpoints/payments.py`) | the admin's position in `reset_data` | `POST /payments`, `DELETE /payments/admin/reset-data`; list and summary in several statements | resets in the middle of payments, crashes, retries; a read that sees two moments |
| Idempotency (`security/idempotency.py`) | global Redis client, cached responses | check, cache | a shared client that is assigned before it is tested; Redis outages; a lookup in no try block; cache written after the commit |
| Webhook router (`webhooks/router.py`, `adapters/`) | `webhook_events.status` | `POST /webhooks/{provider}` | simultaneous duplicates; failures after the event is on record; a session broken by a failed flush |
| Risk engine (`engine/`) | none | features, detectors, aggregation | thresholds, rounding, masking; features read what other handlers have committed |
| ML model (`engine/ml.py`, `scripts/train_model.py`) | the model's files | features for training, features for a request | two programs that have to compute the same features from different sources |
| Simulation runs (`api/endpoints/simulation.py`, `simulation/runner.py`) | `simulation_runs`, background tasks, connections | create run, refresh, run, progress, roll back, complete, fail | one long transaction per run, two connections per run, fixed device fingerprints; tasks that end and leave their row pending or running |
| Scenarios and metrics (`simulation/scenarios.py`, `metrics.py`) | none | eight generators; confusion matrix, ROC area | rounding and cutting of phases; what earlier payments of a run do to later ones; ties |
| AI investigator (`ai/`) | jobs and threads of the executor | call the model with retries under a time limit, fall back | threads that outlive the time limit |
| API client and pages (`frontend/lib/api.ts`, `app/simulation`, `app/transactions`, `app/investigation`, `components/AppLayout.tsx`) | page state, timers | one retry per request; polling; forms | stale and lost answers; retries of what has been done; a page that is left |
| Dataset scripts (`scripts/generate_dataset.py`, `synthetic/writer.py`, `scripts/evaluate_existing.py`) | rows of a dataset; a session with pending evaluations | clear, bulk load, evaluate in batches | batches that fail, a script that dies, both scripts at once |

The endpoints share one PostgreSQL database and one process. The payment
service is called by the API and by the webhook router; the risk engine is
called by the payment service, the simulation runner and `evaluate_existing`;
`reset_data` deletes what all of them have written except the training set; the
idempotency layer wraps `POST /payments`. The pages reach the endpoints through
one `request` function, from timers and clicks that do not wait for each other.

What makes each part correct:

* **payments** are stored whole or not at all, once per transaction id, and
  behind an error answer only when an outage took the answer after the commit;
  retries, crashes and resets do not change that;
* **resets** keep the training set, and end;
* **webhook events** are acted on once, and the status on record is true;
* **the engine** is monotone in the evidence, degrades to milder decisions and
  bounds what a burst can get through; its model is asked with what it was
  trained on;
* the tasks of **simulation runs** end, do not wait for each other in a circle and
  leave nothing in the live tables; they measure what they say, and the rules tell
  attacks from the legitimate part of a scenario;
* **the idempotency layer** never answers with a payment that is not stored,
  and its own steps never hide one that is;
* **the investigator** answers although no model call ever returns, and one
  click cannot occupy the pool;
* **the pages** come to show what there is, wait for good only for a run that
  is lost, and do not stop to follow what is still going on;
* **the scripts** show a whole dataset or none, and lose a bounded part of their
  work.

## The modules and the code

```
PaymentStore <- PaymentService <- PaymentsApi <- WebhookRouter
                                      |  implements    |  implements
                                      v                v
   Idempotency --- implements --> PaymentLedger <- WebhookLedger

RiskEngine <- PaymentHistory <- Training              SimulationRunner
     |              |
     v              v
Scenarios ----> SimulationLab                         DatasetScripts

              /- SimulationPage  <-\
ApiClient <--+-- TransactionsPage <-+-- Console
              \- Investigation   <-/
```

`A <- B` means that B extends A (in the third line the arrows point to the
module that extends). Each line has an `MC` module with the small instances TLC
checks. The proofs are in `PaymentsApiProofs`, `WebhookRouterProofs` (which
continues it), `IdempotencyProofs`, `SimulationRunnerProofs`,
`PaymentHistoryProofs`, `SimulationLabProofs` (which continues it),
`DatasetScriptsProofs` and `ConsoleProofs`.

### PaymentStore, PaymentService, PaymentsApi

`PaymentStore` is PostgreSQL at READ COMMITTED as SQLAlchemy's sessions use it.
`committed` is the set of rows everybody sees; `inserted[s]` and `deleted[s]`
are what session `s` has flushed and not committed; `session[s]` is `deactive`
after a failed flush, when `commit()` raises until the session is closed. A row
is its table, the value under the table's unique index, its primary key (the
call that inserted it) and the one column a property looks at. An INSERT waits
(`MustWait`) while an open transaction of another session has inserted, deleted
or overwritten its key, and fails (`Duplicate`) when the key is there.

`PaymentService` has one action per round trip of `process_payment`: `Lookup` and
`InsertOk`/`InsertRaises` for customers, merchants, devices and the transaction in
this order, `Evaluate`/`EvaluateRaises`, `Commit` (with the rows `ClosingRows`
that are flushed by it) and `Refresh`, which raises when a reset has deleted the
rows since the commit. The decision of the engine is any of the four, and
`APPROVE` for a background seed. `Outage` is what can happen to the connection of
the calls in `OutageCalls`: the pool has none to give where the session holds
none, at the first SELECT and at the refresh after the commit (`NoConnection`,
after which the session is still usable; it also stands for an answer that does
not validate, `payments.py:156`); it is lost under a statement (`ConnectionLost`);
it is lost under the commit when the database has executed it
(`ConnectionLostLate`, with `CommitUnheard` of the store). The last of these and
the failing refresh are the ways to a 500 beside a stored payment. The service
looks a party up under the key as it was sent and stores it under the key that
`sanitize_string` returns; both are kept apart (`RawKey`, `Sanitized`).

`PaymentsApi` adds the endpoint around the service, `reset_data` with one action
per statement (each with its own snapshot), and `Crash`: the process dies, every
open transaction is rolled back and every client in flight is left without an
answer. `ResetOutage` loses the admin's connection. The same call never runs
twice; a retry by the client is another call with the same keys.

`PaymentLedger` is the abstract specification: a call is stored in one step or
not at all, never beside another payment with its transaction id; an answer
tells what happened, but for the calls in `Unsure`, whose error may stand beside
their payment; clearing keeps the training set. `PaymentsApi` implements
it under the mapping `LedgerOf` and `StatusOf`: a payment is in the ledger when
its transaction and its evaluation are committed, and `Unsure` is `OutageCalls`:
without an outage an error still means that the ledger does not have the payment.

### WebhookRouter

`receive_webhook` on the same database and the same service: refuse, check for a
duplicate, store the event and commit, normalise, run the payment, record the
final status (`SettleEvent`). A delivery is a call; redelivery is another call
with the same event id. `Kind` says what the adapter may make of the payload: a
payment, nothing, or an exception (the Razorpay adapter divides and builds
models without a guard, `razorpay.py:58-93`). Processing is part of the request:
the docstring's "asynchronously" (`router.py:42`) describes a plan. `EventOutage`
is the loss of the connection in the router's own statements: at the SELECT, at
the commit of the event and at the commit of the status, executed or not. A
failed refresh inside `process_payment` leaves the session usable, so that the
except path records `failed` beside a stored payment; `EventStatusTruthful` says
that nothing else does.

`WebhookLedger` is `PaymentLedger` with deliveries among its calls: a delivery may
be answered at any time, and its answer does not tell whether its payment was
stored. `WebhookRouter` implements it under the mapping of `PaymentsApi`.

### RiskEngine, PaymentHistory

`RiskEngine` is the engine as operators: eight detectors from features to signals,
the weights, Python's `round`, the decision bands. Signal values are scaled so
that all fractions the detectors use are exact; probabilities and the threshold
are in thousandths. `PaymentHistory` puts the engine in a loop with its own
decisions: features are computed from the payments committed so far, the decision
becomes the status of the payment, and the statuses are what later features count.
Requests are evaluated and stored in separate steps, `Handlers` at a time.
Abstractions: a place is a number on a line and the distance is a difference; the
average amount enters as a multiple in tenths, rounded up, so that the detector's
threshold stays exact; the one-hour window moves by `Age`; the model's probability
is given with the request; the log is in the order of commits, which stands for
`created_at`. All payments of the log were evaluated: background seeds, which skip
the engine and are completed whatever they look like (`payment_service.py:61-68`),
are left out, and what is said of the engine's decisions is said of evaluated
payments. It starts empty, without the dataset, whose rows alone carry the status
`failed`, so that `Failures` is zero in the runs and the failure detector is
reached only through `Worse` in `MonotoneInEvidence`.

### Idempotency

The handler of `POST /payments` with an `Idempotency-Key`, around a payment in two
steps, as `PaymentsApi` justifies by implementing `PaymentLedger`: it is committed
(`Process`, or `ProcessFails`, with or without the payment stored), and then read
back (`ReadBack`, or `ReadBackFails` when a reset took the rows, no connection is
to be had or the answer does not validate). `GetRedis` and `Ping` are the two
halves of `get_redis`: the global client is assigned before the ping is awaited,
so other handlers use it untested and lose it when the ping fails. The lookup of
the key raises when Redis is down (`GetCached`); the write of the response does
not. The environment takes Redis down and up, with or without its data, expires
entries, resets and crashes.

### SimulationRunner

`create_run` and the background task. `create_run` commits the row
(`CreateRun`), then reads it back, for which it needs a connection again, and
adds the task only after that (`Schedule`); in `RefreshFails` the row stays
pending without a task. `connected` are the tasks whose session
holds a connection of the pool; `staged[r]` are the devices run `r` has
inserted and not committed; `devices` and `kept` are what ended up in the live
tables. A step that needs a connection waits or times out (`TimesOut`,
`BeginTimesOut`, `FailureTimesOut`); a run's first statement takes a connection
it keeps until rollback, and each progress report needs another one for a
moment. Customers, merchants and transactions of a run have random keys
(`scenarios.py:29-58`) and can not collide; devices can.

### Scenarios, SimulationLab

`Scenarios` has the generators as functions from their arguments to the list of
labelled payments. The four that give each customer a history before the test
payment (`normal_traffic`, `high_value_anomaly`, `account_takeover`,
`location_anomaly`) share one shape, the three with groups of fraud payments
(`velocity_attack`, `card_testing`, `device_network`) another; a record per
generator holds what differs. `mixed_fraud` strings chunks of all seven
together, and then single payments of generators that are drawn. The arithmetic
is the code's: `round` to even, `max(1, ...)`, the cut to `n` at the end. What
`rng` draws is the low end or the high end of each range, or low but for the
customer's last payment, which is the worst case of every ratio the detectors
look at; a place is home or `Far`.

`SimulationLab` passes the payments through `RiskEngine` with the features of
`PaymentHistory`, one after the other, as `run_simulation` does, and computes the
metrics: the confusion matrix and the ROC area with the code's stable sort and
its loop. The rules run alone (the probability of the model is 0), and the run
takes less than an hour.

### Training

`FeatureEngineering` is the loop of `train_model.py:60-171` over the table in
memory, `BuildFeatures` what `ml.py:38-75` makes of a request's context. Both are
evaluated on the histories that `PaymentHistory` reaches, so that the next
request of a plan is described once by each.

### ApiClient, SimulationPage, TransactionsPage, Investigation, Console

`ApiClient` is `request` of `lib/api.ts`: a request in flight is a slot with what
it asks, its attempt and what the server has read for it so far. A failed attempt
is repeated once, whether the server refused, an outage swallowed the request or
it swallowed the answer. Answers come in any order.

Each page adds what it does on clicks, ticks of its timers, answers and errors,
and the endpoints it talks to, statement by statement where several statements see
several moments (`list_payments`, `get_summary`). `SimulationPage` has
`handleRun`, `pollRun` and the clean-up of the effect, with the run that the
page's `pollRef` knows kept apart from the timers that are set. Its server may
commit the row of a run and still refuse, and a run's task may end without
recording it (`stuck`: `get_run` answers pending or running for good), which are
the outcomes of `SimulationRunner`. `TransactionsPage` has the list, the search,
paging and the layout's badge; `Investigation` has the page and behind it
`investigator.py`: jobs are what a request waits for, threads what the executor
runs, and a time limit ends the first but not the second. `Console` is a browser
tab on one of the pages with the fairness of it all.

Abstractions: what the simulation page shows of a run, and the list of runs,
decide nothing and are left out; every click on the investigation page is about
another transaction; the badge depends on decisions only; list, summary and poll
requests can be lost but are not refused, as their rates are below the limits;
filters and sort orders act as paging does; a POST that reaches the server after
its retry is like one that reached it before.

### DatasetScripts

`generate_dataset` deletes what there is and commits, then inserts parents,
transactions and labels in batches and commits once. `evaluate_existing` reads
what has no evaluation, then evaluates one after the other in a session that
commits every hundred; a transaction that raises rolls the session back, the
counter stays. Either script may fail or die anywhere, run again, and run beside
the other. `tail` is an observation: what was evaluated since the last
transaction that was skipped. The deletion is one step, as it is one transaction
whose order of tables avoids the foreign keys; two evaluators at once are not
modelled.

Operators whose comment begins with "Fault" are deliberate errors: each one
replaces the definition after it to see that the property it is meant for can
fail. The specifications do not use them.

## What the runs check

| Run | Distinct states | Shows |
|---|---|---|
| `ApiRetry` | 502,472 | a payment, its retry with the same transaction id, and a background seed that shares device and merchant (one key with a control character, one amount the column may refuse), beside one reset and one crash, and outages of the connection of the first |
| `RouterRedelivery` | 393,488 | two deliveries of one event and an API call (a background seed) with the same transaction id, one reset, one crash, outages of one delivery |
| `RouterLiveness` | 141,065 | the same without a crash, with adapters that return a payment, nothing or an exception, under fairness |
| `RouterFailure` | stops at a violation | a failed flush makes recording the failure fail |
| `HistoryPatterns` | 96,689 | the burst of `velocity_attack`, the shared device and address of `device_network` and `card_testing`, and all 81 sequences of four requests of one customer; training beside serving on each |
| `SimulationRuns` | 100,579 | three runs over two connections and two devices, one of which may raise, one reset, one crash, under fairness |
| `SimulationLeftovers` | stops at a violation | a pool timeout makes a failed run commit its synthetic payments |
| `IdempotencyRetry` | 531,400 | four requests (a retry under its key, another payment under the same key by mistake, the same transaction without a key), one outage of Redis, one reset, one crash |
| `ScenarioRuns` | 5,525 | all eight generators at four lengths and four shares of fraud, through the rules to the report |
| `ScenarioFalseAlarms` | stops at a violation | a run of 36 payments in which legitimate customers are blocked |
| `Console` | 123,342 | each of three pages with two requests in flight, one outage, retries, runs that are lost, and the page left at any time, under fairness |
| `DatasetScripts` | 35,811 | three datasets in batches and the evaluation of what is there, failing anywhere, both at once |

The properties, by run:

* `ApiRetry`. `PaymentsWhole`: a stored transaction comes with its evaluation,
  its parties and a status that agrees with the decision, and no evaluation or
  label outlives it (a training transaction is not a call's and may lack parties
  or an evaluation). `ErrorAllOrNothing`, `CreatedOnce`: what a client may
  conclude from a 500, or from no answer, and from a 201. A 500 leaves the whole
  payment or no row at all, and the whole payment only for a call in
  `OutageCalls`: nothing but an outage (no reset, crash or collision) puts a
  payment behind its error. `UniqueIndexes`, `NoWaitCycle`: the
  indexes hold and waiting for them is acyclic. `TrainingPreserved`: resets keep
  the training set. `ImplementsLedger`: the endpoint refines `PaymentLedger`.
* `RouterRedelivery`. `EventProcessedOnce`, `AcknowledgedOnRecord`,
  `EventStatusTruthful`: `processed` beside a stored payment, `ignored` without
  one, `failed` beside one only for the delivery that may have an outage.
  `RouterImplementsLedger`: deliveries and API calls together refine
  `WebhookLedger`.
* `RouterLiveness`: `EveryCallAnswered`, `EveryDeliveryAnswered`,
  `EveryResetEnds`.
* `HistoryPatterns`. `BurstBounded`: at most 17 payments of a customer get
  through in an hour, plus one per concurrent handler. `MicroAlwaysBlocked`.
  `DegradedNeverStricter`: leaving out detectors never makes a decision
  stricter. `MonotoneInEvidence`: more velocity, distance, failures,
  probability, ... never lowers the score, across the places where a detector
  changes from one severity to the next. `TrainedAsServed`: which features mean
  the same in training and in a request, and under which condition. The
  conditions are the content: training counts every device a customer has used
  and requests only those of completed payments; training measures from the
  customer's first place and requests from the last completed one; training
  takes "no device" for a device that all share.
* `SimulationRuns`. `EveryRunEnds` (the task does; where it ends in
  `RefreshFails`, `BeginTimesOut`, `InsertFails`, `FailureTimesOut` or a crash,
  the row says pending or running for good), `NoRunWaitCycle`, `EndedHoldsNothing`,
  `LeftoversOnlyOfFailedRuns`: what stays in the live tables belongs to a run
  that is shown as failed, and is whole.
* `IdempotencyRetry`. `ConsistentAnswers`: answers of success for one transaction
  id are about one stored payment. `CacheHidesNoPayment`, an action property: who
  is answered 500 beside a stored payment owes it to the commit or the refresh of
  `process_payment`, never to a step of the cache. `CachedImplementsLedger`: the
  layer refines the same ledger as the endpoint, with all requests `Unsure`.
* `ScenarioRuns`. `RulesSeparate`: the rules alone raise the alarm for no
  legitimate payment with at most five customers at its address, and for every
  attack from afar on a customer whose history they accepted. `ReportSound`: the
  ROC area lies between the two ways to count ties, and not below that of the
  confusion matrix.
* `Console`. `PollUntilComplete`: the open page polls its run until that has
  ended, but for a late answer about an earlier run (which clears the later one's
  timer). `LockedOnlyByLostRun`: a locked form opens again, unless the page is
  left or polls a run that will never be over, because a reset deleted it or its
  task ended without recording it. `ListSettles`: stale answers do not last.
  `ReportMatches`: the report shown is about the transaction that is selected,
  unless clicks overlap. `ThreadsPerClick`, `EveryInvestigationAnswered`: two
  threads at most for a click, and an answer even if no thread ever ends.
* `DatasetScripts`. `DatasetWhole`: readers find a whole dataset with its labels
  or nothing. `LossBounded`: a skipped transaction costs less than a batch.
  `TailPersisted`: a finished script has committed what it evaluated since.

`CreatedOnce`, `EventProcessedOnce`, `AcknowledgedOnRecord` and
`ConsistentAnswers` are stated up to the first reset: a reset forgets
transaction ids and events, and the code promises nothing across it. The runs
contain the reset all the same, for the other properties.

For every property, `PROJECT.json` names a deliberate error in a mapped
definition under which TLC refutes it.

## Bounds and fairness

* Three calls (or two deliveries and a call): two that carry the same keys and
  one that shares only some of them are what every race between a lookup and an
  insert needs; each waits for, collides with or deletes rows of the others. A
  third equal call repeats the behaviour of the second.
* `MaxResets = 1`, `MaxCrashes = 1`: a reset has three statements, so one reset
  is enough to fall between any two steps of each call. After a crash nothing is
  left but the committed rows, so that a second crash starts from a state the
  first could have reached. The liveness run has no crash, and the violation
  runs none of either: their counterexamples do not need them.
* `PoolSize = 2` with three runs: the pool (15 connections in
  production) is exhausted when one fewer than all runs are connected.
  `ProgressEvery = 2` (10 in `runner.py`): a report falls inside a run and
  at its end.
* `Handlers = 2`, 20 requests in a burst: beyond the 17 that the velocity
  detector lets through, by more than the number of handlers. `MaxOld = 1`: one
  payment leaves the hour.
* `ScenarioRuns`: 3 payments are less than any history, 9 and 20 cut a phase in
  two, and 36 are enough for seven legitimate customers at one address (beyond it,
  nothing new: the detectors' other thresholds are crossed by 20). The shares are
  none, a fifth, half and all. `Handlers = 1` and `MaxOld = 0`: the loop is
  sequential and within the hour.
* `Console`: `Slots = 2` requests in flight are what it takes for one answer to
  overtake another; `MaxFaults = 1` outage may cost one attempt or both of one
  request, and the refusals that the server may answer with are not bounded.
  `MaxRuns = 2`: a retry that creates a second run, or a run after another.
  `Pages = {1, 2}`, `PageSize = 1`, from one payment to two: the second page
  is empty or not, and changes under the reader. `MaxClicks = 2` with
  `Workers = 3` threads: two clicks with two attempts each may want four.
* `DatasetScripts`: five rows in batches of two and three, so that neither
  divides the other; three datasets, the second and third over another.
* `OutageCalls`: the first call of `ApiRetry`, which is retried, one of two
  deliveries of the router's runs, none in `RouterFailure`. There is no bound on
  outages: any statement of such a call may have one, and then the call is over.
  One call of each pair stays without, so that the properties can tell the two
  apart.
* `IdempotencyRetry` treats the payment and its retry, which are alike in
  everything, as symmetric; its properties are about single states and steps.
* `MaxOutages = 1`: Redis may be down at the start, return, fail and return.
* `Threshold = 243` is that of `ml/threshold_v1.json`; the assumption and the
  theorems admit all values.

Fairness is weak fairness of the steps of each handler that has begun, of the
admin's statements and of each background task, one by one. The event loop runs
every coroutine whose awaited round trip has returned; a waiting INSERT is
granted by PostgreSQL when the transaction it waits for ends; a request for a
connection is answered by the pool with a connection or, after 30 seconds, with
a timeout. Nothing is assumed about clients, providers, the admin's decision to
reset, Redis, crashes, outages or detectors that raise. `EveryRunEnds` relies on the
pool's timeout, and its mutant takes that timeout away.

`Console` assumes, beside that every slot's request is served and its answer
handled (`Handle`), that the ticks come (`Tick`, `Reload`, `ReloadBadge`), that
time limits pass (`TimeOut`) and that the tasks of background runs end (`RunEnds`,
which is what `EveryRunEnds` of `SimulationRuns` shows, there in spite of a full
pool). That a task ends does not mean that its row says so: `RunEnds` completes
the run, fails it or leaves it `stuck`. `Reload` and `ReloadBadge` are strongly
fair, because with `Slots` bounded each may find no slot again and again, which no
browser does to a timer. Nothing is assumed about clicks, nor that a model call
ever returns.

The runs check for deadlock, but for `Console`, `ScenarioRuns`,
`ScenarioFalseAlarms` and `DatasetScripts`, where everything may stop: a page
that was left, a run that is over, scripts that nobody starts again. In the
others the explicit idling steps `Finished`, `AllHandled`,
`AllEnded` and `Quiet` are enabled only when nothing is in hand.

## What is proved

`PaymentsApiProofs` proves, for any number of calls, keys, resets, crashes and
training rows, under `PayloadAssumption` (payloads are made of keys, sanitising
returns a key), `ApiAssumption` (the admin's session is not a call's; training
ids are not those of calls) and `TrainingAssumption` (every training
transaction and evaluation has a label that is not a background seed's, and
labels and evaluations belong to training transactions, as the foreign keys
demand):

* `TypeCorrect`: `Spec => []TypeOK`. The inductive invariant adds that a call
  that is about to insert a row has a key for it (`KeyPresent`); without it the
  inserted row need not be a row.
* `NoDeadlock`: `Spec => []NoWaitCycle`. `NoWaitCycle` says nothing about how
  calls got where they are and is not inductive. `SessionInv` says that the rows
  a climbing call has inserted belong to tables of lower rank than the one it is
  at; so whoever is waited for waits, if at all, at a table of higher rank
  (`WaitClimbs`), and ranks end at four.
* `TrainingSafe`: `Spec => []TrainingPreserved`. The invariant adds that the
  admin's transaction has never staged a training row for deletion, which needs
  that each statement's own snapshot contains the training labels.
* `IndexesUnique`: `Spec => []UniqueIndexes`. `IndexInv` adds that uncommitted
  rows of two calls do not clash, that they do not clash with committed rows,
  and that nobody else has rows under the key a call's evaluation and label will
  have. That the first two are preserved is what the lookup, the wait and the
  duplicate check together achieve.

* `StoredWhole`: `Spec => []PaymentsWhole`, `ErrorsAllOrNothing`:
  `Spec => []ErrorAllOrNothing`, and `OneCreated`: `Spec => []CreatedOnce`.
  They share one invariant, `WholeInv`. `StagedInv` and `PartiesInv` say what a
  call has flushed on its way to the commit, so that the commit publishes a whole
  payment; `StoredInv` says that whatever is committed under a call's id is what
  that call committed, in a state after its commit; `PairedInv` that transactions
  come with evaluations and these with transactions. The difficult part is the
  reset (`AdminInv`), whose statements each see another moment: until it gets to
  the transactions, the evaluations and labels it has taken belong to
  transactions without a label left, so that it will take these too; after that
  it has taken a transaction exactly when it has taken all that refers to it,
  because an evaluation that came in between would have failed the DELETE
  (`ResetTransactionsWhole`), and a payment that commits later has no row among
  those (`CommitAdmin`).
* `EndpointRefinesLedger`: `Spec => ImplementsLedger`, the refinement. The commit
  is `Accept` (`CommitAccepts`: the unique index of transaction ids, carried over
  to the ledger by `KeyOfStored`), the commit of a reset is `Clear`, a crash is
  `Lose`; `WholeInv` is what makes a failing `Refresh` a `Fail`: the ledger no
  longer has the payment. An outage is a `Fail` or, under the commit, an `Accept`
  of a call that is `Unsure`.

`WebhookRouterProofs` proves of `RouterSpec`, under these and `RouterAssumption`
(deliveries are not API calls; events have keys):

* `EventsOnce`: `RouterSpec => []EventProcessedOnce`, `StatusTrue`:
  `RouterSpec => []EventStatusTruthful`, `AcknowledgedRecorded`:
  `RouterSpec => []AcknowledgedOnRecord`. `EventInv` adds that a settled event
  belongs to a delivery that was answered, which will store nothing any more,
  and that a payment committed for an event on record is stored; both survive a
  reset because it removes transactions and events in one commit.
* `RouterKeepsPayments`: the invariants of the payment API hold with the router at
  work, too. The steps of a delivery around the payment are treated as one
  (`AroundPaymentEffect`): they publish nothing but the event and parties that a
  failed payment left in the session. Their outages are treated apart
  (`OutageEvents`).
* `RouterRefinesLedger`: `RouterSpec => RouterImplementsLedger`. The steps of
  API calls, of the payment inside a delivery, of resets and crashes are those
  of `EndpointRefinesLedger`; the steps around the payment answer a delivery or
  are not seen (`AroundRefines`), since what they commit leaves the ledger as it
  is (`AroundLedger`).

`IdempotencyProofs` proves, under `BoundsAssumption` (the bounds are natural
numbers, no request is `Nothing`), `IdemTypeCorrect` (the types, which no run
repeats), `AnswersAgree` (`IdemSpec => []ConsistentAnswers`), `CacheHarmless`
(`IdemSpec => CacheHidesNoPayment`) and `CacheRefinesLedger`
(`IdemSpec => CachedImplementsLedger`). The invariant `IdemInv` says of each
step whether its request is stored (`StepInv`), that stored requests have
different transaction ids (`LedgerInv`), and what an entry of the cache and an
answer are worth: a stored request of the same key, until the first reset
(`CacheInv`, `AnswerInv`).

`SimulationRunnerProofs` proves, for any number of runs, connections and devices,
under `PlanAssumption` (plans are not empty, and introduce the shared devices in
one order, as the scenarios do):

* `SimTypeCorrect`, `LeftoversSafe`, `EndedReleased`: from `RunsInvariant`, which
  ties the status in `simulation_runs`, the position of the task, the payments
  done, the connection and the devices of a run to each other.
* `NoRunDeadlock`: `SimSpec => []NoRunWaitCycle`. A run that waits for a device
  has inserted only earlier ones (`WaitsUpwards`); of a set of runs, the one with
  the fewest others at later devices does not wait for any of them. That there is
  such a run needs that the set is finite: only runs with a connection wait.

`DatasetScriptsProofs` proves, under `ScriptsAssumption` (datasets are finite,
batches not empty):

* `DatasetsStayWhole`: `ScriptsSpec => []DatasetWhole`; the invariant `WriterInv`
  follows the uncommitted part of the dataset through the batches.
* `LossStaysBounded`: `ScriptsSpec => []LossBounded`; by `EvaluatorInv` there are
  never more pending evaluations than the counter has moved since it was last a
  multiple of `Batch`.
* `TailIsPersisted`: `ScriptsSpec => []TailPersisted`. `TailInv` adds that a
  deleted row never comes back: what is stored or under evaluation belongs to
  datasets already begun, and while a writer is at work the evaluator knows nothing
  of the dataset it writes. The theorem is about the evaluations since the last
  skip; those that a skip rolls back are lost, and `LossStaysBounded` counts them.

`PaymentHistoryProofs` proves, for any set of plans, any number of handlers, any
ageing of the log and any threshold, under `ThresholdAssumption` (the threshold
is a probability) and `HistoryAssumption` (plans are finite, amounts are positive
as the API demands, places are natural numbers, a missing place is not a number):

* `HistoryTypeCorrect`: `HistorySpec => []HistoryTypeOK`. The inductive invariant
  `HistoryInv` says that the log is made of requests of the plan with the two
  final statuses, that no more handlers are at work than there are, and that
  each of them has judged its own request by well-typed features. It needs that
  the totals over the log are natural numbers. Their definition is recursive
  over the subsets of the log; the first part of the module shows that the
  recursion has one solution and what its values are, each time by taking a
  minimal counterexample of the strict subset order, which is well founded.
* `MoreEvidence`: `HistorySpec => []MonotoneInEvidence`, and `Degraded`:
  `HistorySpec => []DegradedNeverStricter`. Each detector's points are monotone
  (`EvidenceCounts`), the sum, the rounding of halves to even, the cap at 100 and
  the decision bands keep the order (`PointsMonotone`, `RoundMonotone`,
  `ScoreMonotone`, `DecideMonotone`).
* `MicroBlocked`: `HistorySpec => []MicroAlwaysBlocked`, for evaluated payments;
  one CRITICAL signal of value 1 is 100 points and blocks on its own
  (`HighPointsBlock`).
* `ModelAskedAsTrained`: `HistorySpec => []TrainedAsServed`, feature by feature.
  Training goes through the rows of the table, a request through the log;
  `RowsOfLog` and `SameHistory` show that both find the same payments, and each
  feature is then the same count, mean or difference under its condition: amounts
  and velocity always, sharing if the request names a device and an address, a new
  device if the customer's payments were all completed, the distance if these were
  also made in one place. Outside of these conditions the two differ; standard
  deviation and z-score are not among the features compared.
* `BurstLimited`: `HistorySpec => []BurstBounded`. The bound itself is inductive
  given `HistoryInv`: a request that is let through saw at most 17 payments in
  its hour (`VelocityBlocks`), every accepted one among them, and there are no
  more requests in hand than handlers (`EvaluateBurst`); storing it moves it from
  one of the two counts to the other (`StoreBurst`).

`SimulationLabProofs` proves, for any set of plans, under the same and
`LabAssumption` (every payment of a plan has a label and a device):

* `ReportIsSound`: `LabSpec => []ReportSound`. `LabInv` says that outcomes are
  labels, scores and the alarms that belong to the scores, and that a report is
  the metrics of a finished run. The heart is a count: the order of the sort is
  total (`OrderIsTotal`), so that the places are a permutation; the loop adds for
  each payment that is no fraud the frauds seen so far, and so counts the pairs in
  order (`LoopCounts`, `AreaCounts`); these lie between the pairs with a
  strictly higher score and those with at least the same (`TiesDecide`), and
  contain each pair of a right alarm and a right pass (`AlarmsAbove`).
* `RulesTellApart`: `LabSpec => []RulesSeparate`, if every plan is `Generated`:
  a run of any of the eight scenarios, of any length, share of frauds, choice of
  frauds and generators, and draw of amounts. (All plans of `ScenarioRuns` are.)
  There are two halves. `SeparablePlans` shows it of every plan that is
  `Separable`, whoever made it: a legitimate payment is at home, of 2.50 or
  more, with at most five payments of its customer before it, all legitimate,
  from one device and address, of amounts that are an eighth of its own or more,
  and nobody else has its device; an attack from `Far` follows payments at home.
  Then the detectors that can speak give less than a review takes (`LegitScore`,
  while an address has five customers), or more (`FarScore`); `RunInv` carries
  along that the log is the plan, and that what was no alarm was completed. The
  other half is that generators make such plans: `HistoryRun` and `GroupRun` put
  the seven into one form, `RunSeparable` shows that the form is separable, and
  for `mixed_fraud` a part adds no customer and, up to the seventh, no device of
  an earlier one, while from the eighth on a part is one payment long
  (`JoinPart`, `MixedSeparable`).

`ConsoleProofs` proves, for any number of slots, outages, runs, clicks and threads,
under `SimulationPageAssumption` and `InvestigationAssumption` (bounds are natural
numbers, `None` is no run and `NoReport` no transaction):

* `TwoThreadsPerClick` and `ReportIsOfSelection`: `ConsoleSpec =>
  []ThreadsPerClick` and `ConsoleSpec => []ReportMatches`. `InvestigationInv` says
  whose transaction every request in flight is about (`AsksOK`), that an attempt
  has one job and one thread at most and the thread of a job that is waited for is
  at work on its current try (`PoolOK`), that no thread is ahead of its request
  (`NoneAhead`), and that without overlapping clicks the one request in flight is
  about the selected transaction (`PageOK`).
* `PollsUntilComplete`: `ConsoleSpec => []PollUntilComplete`. The property is
  inductive with `RunAsksOK`: an answer in flight that says a run is over is
  about a run that has ended.

Only model-checked: the liveness properties, as the provers handle neither
fairness nor `ENABLED`. Every invariant and every action property that a passing
run checks, and every refinement, is a theorem. What the proofs do not reach is
what a recursive definition computes, because the library's induction theorems can
not be instantiated with these provers; where a proof needs it (totals over the
log, the loop of the ROC area, the parts of `mixed_fraud`) it takes a minimal
counterexample instead.

## Findings

Three places where the program does something else than the repository says, each
a run that TLC refutes.

1. `webhooks/router.py:120`: a failed event is to be acknowledged with 202 (lines
   122-123), but after a failed flush the session refuses the commit of the
   status; the event stays `received` and its redelivery is taken for a
   duplicate (`RouterFailure`).
2. `simulation/runner.py:170`: synthetic payments are to be rolled back (lines
   132, 149); the except path commits them (`SimulationLeftovers`).
3. `simulation/scenarios.py:75`: no detector is to fire on legitimate payments
   (line 15), but they share an address, and from the seventh customer on it is
   a signal that blocks them together with `new_device`
   (`ScenarioFalseAlarms`).

Others that were read from the code and have no run of their own:

* `payment_service.py:12` promises an upsert; it is a select and an insert, and
  one of two simultaneous first payments of a party is answered 500 (this
  happens in `ApiRetry`, whose properties allow it).
* `router.py:6` acknowledges duplicates; the loser of two simultaneous ones gets a
  500 (it happens in `RouterRedelivery`).
* `scenarios.py:261, 298`: a device shared by more than three customers is to be
  CRITICAL; for a customer to whom it is new, `new_device` hides it
  (`rules.py:45`).
* `payment_service.py:113`: the refresh after the commit needs a connection again;
  when it gets none, a stored payment is answered 500, and a webhook records its
  event as `failed` (both happen in `ApiRetry` and `RouterRedelivery`).
* `security/idempotency.py:52`: without Redis the check is to be bypassed and
  payments still process (`README.md:486`); a request that finds a client,
  connected before Redis failed or not tested yet, raises in the lookup and is
  answered 500 (`aborted`, in `IdempotencyRetry`).
* `simulation.py:99`: the same after the row of a run is committed leaves a pending
  run that no task works on; a timeout at the start of the task, a failed flush or
  a timeout while the failure is recorded (`runner.py:39-45, 98, 170`) and a crash
  leave runs pending or running (all happen in `SimulationRuns`).
* `README.md:484`: without an API key `/investigate` is to return an error; it
  returns a mock report.
* `evaluate_existing.py:5`: evaluations that were counted are lost with a later
  transaction that raises; `LossBounded` says how many.
* `ml.py:41`: the model is trained with the standard deviation and the z-score of
  the amounts and always asked with 0 for both. `train_model.py:307-315`: the
  threshold that is saved may be another model's, and model and threshold are
  two files written one after the other.
* `scenarios.py`: with a fraud share of 0 the generators with groups still make
  one group, and generators return fewer payments than asked for when groups do
  not divide `n`; `test_scenarios.py` claims shares that hold for its sizes only.
* `simulation/page.tsx`: a retried POST creates two runs; a late answer about the
  earlier run clears the timer of the later one and opens the form, against "Poll
  active run until complete" (line 162); polls of a run that was deleted, or will
  never be over, leave the form locked; an older answer may leave "running" on the
  page. `transactions/page.tsx`: an error is never cleared.
  `investigation/page.tsx`: with overlapping clicks the last answer wins, not the
  last click. The summary's statements see different moments, so that its parts
  need not add up. A comment says 5 seconds where the time limit is 10.
* `writer.py`: the old dataset is gone before the new one is there, for good if
  the writer fails; ids cut to 32 bits may collide.

## Not modelled, and the plan

Left out for good:

* authentication, rate limits, middleware, logging and counters: stateless, or
  third-party;
* the lookup endpoints and the payment detail: single read-only queries;
* schema migrations: generated DDL, whose unique indexes are in `PaymentStore`;
* the gateway demo and the seed script: they call the API with sample data;
* markup, styling, and the pages that load once; the dashboard polls as the
  transactions page does;
* fitting and choosing a model, loading it: numeric libraries; the model's
  probability is an input of a request;
* what `build_dataset` draws, the layout of provider payloads and of reports,
  the precision-recall area and percentiles: data without a decision;
* the 24-hour velocity, which only the model reads; places on a sphere, which are
  places on a line here.

What could come next: two evaluators at once; the choice and the loading of the
model's two files; the dashboard and the list of runs as pages of their own.
