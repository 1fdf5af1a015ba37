-------------------------- MODULE SimulationRunner --------------------------
(***************************************************************************)
(* The Simulation Lab of the backend: create_run of                         *)
(* app/api/endpoints/simulation.py and the background task run_simulation   *)
(* of app/simulation/runner.py.  A run inserts its synthetic payments into  *)
(* the live tables in one long transaction, evaluates each with the         *)
(* production engine, reports progress over a second connection and rolls   *)
(* everything back.  Runs share the connection pool and, because scenario   *)
(* devices have fixed fingerprints, the unique index on devices.            *)
(***************************************************************************)
EXTENDS Naturals, Sequences, FiniteSets

CONSTANTS
  Runs,           \* the runs
  Plan,           \* Plan[r]: the device of each payment, as a number
  OwnDevice,      \* the device of a payment whose fingerprint is random
  PoolSize,       \* connections of the engine's pool
  Raising,        \* the runs on whose payments the engine may raise
  ProgressEvery,  \* payments between two progress reports
  MaxResets,      \* bound: how often the admin resets
  MaxCrashes      \* bound: how often the server dies

Devices == (UNION {{Plan[r][i] : i \in DOMAIN Plan[r]} : r \in Runs}) \ {OwnDevice}

(* Every scenario numbers its devices and uses them for the first time in   *)
(* that order (scenarios.py:80-400).                                        *)
FirstUses(r) ==
  {i \in DOMAIN Plan[r] : \A j \in 1..i - 1 : Plan[r][j] # Plan[r][i]}

ASSUME PlanAssumption ==
  /\ OwnDevice = 0
  /\ \A r \in Runs : Plan[r] \in Seq(Nat) /\ Plan[r] # <<>>
  /\ \A r \in Runs : \A i, j \in FirstUses(r) :
       i < j /\ Plan[r][i] # OwnDevice /\ Plan[r][j] # OwnDevice
         => Plan[r][i] < Plan[r][j]
  /\ Raising \subseteq Runs
  /\ PoolSize \in Nat \ {0} /\ ProgressEvery \in Nat \ {0}
  /\ MaxResets \in Nat /\ MaxCrashes \in Nat

VARIABLES
  row,        \* row[r]: the status in simulation_runs
  task,       \* task[r]: the next step of the background task
  done,       \* done[r]: payments simulated
  connected,  \* the tasks whose session holds a connection
  staged,     \* staged[r]: devices inserted and not committed
  devices,    \* devices in the committed database
  kept,       \* synthetic payments in the committed database
  resets, crashes

simVars == <<row, task, done, connected, staged, devices, kept, resets, crashes>>

Active == {"refresh", "scheduled", "select", "insert", "simulate", "progress",
           "rollback", "finish", "failing"}

Move(r, to) == task' = [task EXCEPT ![r] = to]

Mark(r, s) == row' = [row EXCEPT ![r] = s]

(* The end of the session's transaction: its connection returns to the pool. *)
Release(r) ==
  /\ connected' = connected \ {r}
  /\ staged' = [staged EXCEPT ![r] = {}]

(* Fault: one connection too many.                                          *)
OverFull == Cardinality(connected) > PoolSize

Full == Cardinality(connected) >= PoolSize

(* Fault: the payments of a run are rotated.                                *)
FirstPaymentLast(r) == Plan[r][((done[r] + 1) % Len(Plan[r])) + 1]

Device(r) == Plan[r][done[r] + 1]

Finished(r, n) == n = Len(Plan[r])

Holders(d) == {s \in Runs : d \in staged[s]}

(* The run waits for another's uncommitted device.                          *)
Waits(r, s) == task[r] = "insert" /\ s # r /\ Device(r) \in staged[s]

(* POST /simulation/runs: the row is committed, which returns the request's *)
(* connection.                                                              *)
CreateRun(r) ==
  /\ task[r] = "none" /\ ~ Full
  /\ Move(r, "refresh") /\ Mark(r, "pending")
  /\ UNCHANGED <<done, connected, staged, devices, kept, resets, crashes>>

(* refresh() reads the row back and the task follows.                       *)
Schedule(r) ==
  /\ task[r] = "refresh" /\ ~ Full /\ row[r] = "pending"
  /\ Move(r, "scheduled")
  /\ UNCHANGED <<row, done, connected, staged, devices, kept, resets, crashes>>

(* refresh() gets no connection in time or finds no row: a 500, and a row   *)
(* that no task will ever work on.                                          *)
RefreshFails(r) ==
  /\ task[r] = "refresh" /\ (Full \/ row[r] # "pending")
  /\ Move(r, "ended")
  /\ UNCHANGED <<row, done, connected, staged, devices, kept, resets, crashes>>

(* Fetch the record and mark it running; without a record there is nothing  *)
(* to do.  This is outside the try block.                                   *)
Begin(r) ==
  /\ task[r] = "scheduled" /\ ~ Full
  /\ IF row[r] = "pending"
       THEN Move(r, "select") /\ Mark(r, "running")
       ELSE Move(r, "ended") /\ UNCHANGED row
  /\ UNCHANGED <<done, connected, staged, devices, kept, resets, crashes>>

BeginTimesOut(r) ==
  /\ task[r] = "scheduled" /\ Full
  /\ Move(r, "ended")
  /\ UNCHANGED <<row, done, connected, staged, devices, kept, resets, crashes>>

(* The lookups of one payment.  The first statement of the transaction      *)
(* takes a connection.                                                      *)
Select(r) ==
  /\ task[r] = "select" /\ (r \in connected \/ ~ Full)
  /\ connected' = connected \cup {r}
  /\ Move(r, IF Device(r) \in {OwnDevice} \cup devices \cup staged[r]
               THEN "simulate" ELSE "insert")
  /\ UNCHANGED <<row, done, staged, devices, kept, resets, crashes>>

(* flush() of the device: it waits while another run has inserted it.       *)
Insert(r) ==
  /\ task[r] = "insert" /\ Holders(Device(r)) = {} /\ Device(r) \notin devices
  /\ staged' = [staged EXCEPT ![r] = @ \cup {Device(r)}]
  /\ Move(r, "simulate")
  /\ UNCHANGED <<row, done, connected, devices, kept, resets, crashes>>

(* The other run has committed it: IntegrityError, and the commit of the    *)
(* except path raises PendingRollbackError.  The row stays as it is.        *)
InsertFails(r) ==
  /\ task[r] = "insert" /\ Device(r) \in devices
  /\ Release(r)
  /\ Move(r, "ended")
  /\ UNCHANGED <<row, done, devices, kept, resets, crashes>>

(* evaluate_transaction and flush() of the synthetic payment.               *)
Simulate(r) ==
  /\ task[r] = "simulate"
  /\ done' = [done EXCEPT ![r] = @ + 1]
  /\ Move(r, IF done'[r] % ProgressEvery = 0 \/ Finished(r, done'[r])
               THEN "progress" ELSE "select")
  /\ UNCHANGED <<row, connected, staged, devices, kept, resets, crashes>>

(* The engine raises, leaving the session usable.                           *)
EngineRaises(r) ==
  /\ task[r] = "simulate" /\ r \in Raising
  /\ Move(r, "failing")
  /\ UNCHANGED <<row, done, connected, staged, devices, kept, resets, crashes>>

(* Progress is written over a connection of its own.                        *)
Progress(r) ==
  /\ task[r] = "progress" /\ ~ Full
  /\ Move(r, IF Finished(r, done[r]) THEN "rollback" ELSE "select")
  /\ UNCHANGED <<row, done, connected, staged, devices, kept, resets, crashes>>

(* Fault: the pool's timeout does not reach the progress report.            *)
ProgressWaits(r) ==
  /\ Full
  /\ task[r] = "finish" \/ (task[r] = "select" /\ r \notin connected)
  /\ Move(r, "failing")
  /\ UNCHANGED <<row, done, connected, staged, devices, kept, resets, crashes>>

(* The pool gives no connection in time: an exception inside the try block. *)
TimesOut(r) ==
  /\ Full
  /\ \/ task[r] \in {"progress", "finish"}
     \/ task[r] = "select" /\ r \notin connected
  /\ Move(r, "failing")
  /\ UNCHANGED <<row, done, connected, staged, devices, kept, resets, crashes>>

(* Faults: the loop ends with a commit; it ends with neither.               *)
SkipRollBack(r) ==
  /\ task[r] = "rollback"
  /\ Move(r, "finish")
  /\ UNCHANGED <<row, done, connected, staged, devices, kept, resets, crashes>>

CommitLoop(r) ==
  /\ task[r] = "rollback"
  /\ devices' = devices \cup staged[r]
  /\ kept' = kept \cup ({r} \X (1..done[r]))
  /\ Release(r)
  /\ Move(r, "finish")
  /\ UNCHANGED <<row, done, resets, crashes>>

RollBack(r) ==
  /\ task[r] = "rollback"
  /\ Release(r)
  /\ Move(r, "finish")
  /\ UNCHANGED <<row, done, devices, kept, resets, crashes>>

(* Fetch the record again and complete it; if it is gone the task dies.     *)
Finish(r) ==
  /\ task[r] = "finish" /\ ~ Full
  /\ IF row[r] = "running" THEN Mark(r, "completed") ELSE UNCHANGED row
  /\ Move(r, "ended")
  /\ UNCHANGED <<done, connected, staged, devices, kept, resets, crashes>>

(* The except path: the failed status is committed on the session that      *)
(* still holds the synthetic rows.  If the record is gone the UPDATE finds  *)
(* no row and nothing is committed.                                         *)
RecordFailure(r) ==
  /\ task[r] = "failing" /\ (r \in connected \/ ~ Full)
  /\ IF row[r] = "running"
       THEN /\ Mark(r, "failed")
            /\ devices' = devices \cup staged[r]
            /\ kept' = kept \cup (IF r \in connected THEN {r} \X (1..done[r]) ELSE {})
       ELSE UNCHANGED <<row, devices, kept>>
  /\ Release(r)
  /\ Move(r, "ended")
  /\ UNCHANGED <<done, resets, crashes>>

FailureTimesOut(r) ==
  /\ task[r] = "failing" /\ r \notin connected /\ Full
  /\ Move(r, "ended")
  /\ UNCHANGED <<row, done, connected, staged, devices, kept, resets, crashes>>

(* What the request and the task of a run do by themselves.                 *)
TaskStep(r) ==
  \/ Schedule(r) \/ RefreshFails(r)
  \/ Begin(r) \/ BeginTimesOut(r)
  \/ Select(r) \/ Insert(r) \/ InsertFails(r)
  \/ Simulate(r) \/ EngineRaises(r) \/ Progress(r) \/ TimesOut(r)
  \/ RollBack(r) \/ Finish(r)
  \/ RecordFailure(r) \/ FailureTimesOut(r)

(* reset_data truncates simulation_runs and deletes every payment that is   *)
(* not in the training set; the devices stay.                               *)
Reset ==
  /\ resets < MaxResets /\ ~ Full
  /\ resets' = resets + 1
  /\ row' = [r \in Runs |-> IF row[r] = "none" THEN "none" ELSE "gone"]
  /\ kept' = {}
  /\ UNCHANGED <<task, done, connected, staged, devices, crashes>>

(* The tasks die with the process; nothing at startup looks for their rows. *)
Crash ==
  /\ crashes < MaxCrashes
  /\ crashes' = crashes + 1
  /\ task' = [r \in Runs |-> IF task[r] \in Active THEN "ended" ELSE task[r]]
  /\ connected' = {}
  /\ staged' = [r \in Runs |-> {}]
  /\ UNCHANGED <<row, done, devices, kept, resets>>

AllEnded == (\A r \in Runs : task[r] = "ended") /\ UNCHANGED simVars

SimInit ==
  /\ row = [r \in Runs |-> "none"]
  /\ task = [r \in Runs |-> "none"]
  /\ done = [r \in Runs |-> 0]
  /\ staged = [r \in Runs |-> {}]
  /\ connected = {} /\ devices = {} /\ kept = {}
  /\ resets = 0 /\ crashes = 0

SimNext ==
  \/ \E r \in Runs : CreateRun(r) \/ TaskStep(r)
  \/ Reset \/ Crash \/ AllEnded

SimSpec ==
  /\ SimInit /\ [][SimNext]_simVars
  /\ \A r \in Runs : WF_simVars(TaskStep(r))

(***************************************************************************)
(* Properties.                                                             *)
(***************************************************************************)
(* Statuses, steps and counters stay in range.                              *)
SimTypeOK ==
  /\ row \in [Runs -> {"none", "pending", "running", "completed", "failed", "gone"}]
  /\ task \in [Runs -> Active \cup {"none", "ended"}]
  /\ done \in [Runs -> Nat] /\ \A r \in Runs : done[r] <= Len(Plan[r])
  /\ connected \subseteq Runs /\ Cardinality(connected) <= PoolSize
  /\ staged \in [Runs -> SUBSET Devices] /\ devices \subseteq Devices
  /\ kept \subseteq Runs \X Nat
  /\ resets \in 0..MaxResets /\ crashes \in 0..MaxCrashes

(* A run is shown as completed only when it simulated every payment, and it *)
(* left none of them behind; whatever a run did leave behind, it left whole *)
(* and under the status failed (runner.py:149-170).                         *)
LeftoversOnlyOfFailedRuns ==
  /\ \A r \in Runs : row[r] = "completed" => Finished(r, done[r])
  /\ \A p \in kept : row[p[1]] = "failed" /\ {p[1]} \X (1..done[p[1]]) \subseteq kept

(* A task that has ended holds no connection, and only a task that holds a  *)
(* connection holds devices others wait for, so nobody waits for a run that *)
(* failed, died or finished (simulation.py:106-117, runner.py:98-170).      *)
EndedHoldsNothing ==
  \A r \in Runs :
    /\ task[r] \in {"none", "scheduled", "finish", "ended"} => r \notin connected
    /\ r \notin connected => staged[r] = {}

(* Runs that wait for each other's devices never form a cycle, because      *)
(* scenarios introduce shared devices in one order: of every set of runs    *)
(* one does not wait for another of the set (runner.py:87-98).              *)
NoRunWaitCycle ==
  \A S \in (SUBSET Runs) \ {{}} : \E r \in S : \A s \in S : ~ Waits(r, s)

(* The task of every run that was created ends, also when all connections   *)
(* are held by runs that wait for a device of one that waits for a          *)
(* connection: the pool's timeout breaks the circle.  This is about the     *)
(* task only: where it ends in RefreshFails, BeginTimesOut, InsertFails,    *)
(* FailureTimesOut or a crash, the row says pending or running for good     *)
(* (simulation.py:98-116, runner.py:39-45, 98, 170).                        *)
EveryRunEnds == \A r \in Runs : task[r] # "none" ~> task[r] = "ended"

(* "Rollback ALL synthetic data created during the loop" (runner.py:149)    *)
(* and "so we don't commit synthetic txns" (runner.py:132): no synthetic    *)
(* payment is ever in the live tables.                                      *)
NoSyntheticKept == kept = {}

=============================================================================
