----------------------- MODULE SimulationRunnerProofs -----------------------
(***************************************************************************)
(* Proofs about the simulation runs, for any number of runs and plans and   *)
(* any size of the pool.                                                    *)
(***************************************************************************)
EXTENDS SimulationRunner, FiniteSetTheorems, WellFoundedInduction, TLAPS

(* The steps at which a payment is in hand.                                 *)
InLoop == {"select", "insert", "simulate"}

(* What the status of a run says about its task.                            *)
RowInv(r) ==
  /\ row[r] = "none" => task[r] = "none"
  /\ row[r] = "pending" => task[r] \in {"refresh", "scheduled", "ended"}
  /\ row[r] \in {"completed", "failed"} => task[r] = "ended"
  /\ row[r] = "completed" => done[r] = Len(Plan[r])

(* How far a run has come: a payment in hand is one of the plan.            *)
DoneInv(r) ==
  /\ task[r] \in {"none", "refresh", "scheduled"} => done[r] = 0
  /\ task[r] \in InLoop => done[r] < Len(Plan[r])
  /\ task[r] \in {"rollback", "finish"} => done[r] = Len(Plan[r])

(* Who holds a connection, and that nobody else has staged devices.         *)
HoldInv(r) ==
  /\ task[r] \in {"none", "refresh", "scheduled", "finish", "ended"} => r \notin connected
  /\ task[r] \in {"insert", "simulate"} => r \in connected
  /\ r \notin connected => staged[r] = {}

(* Up to which payment a run has seen to the device.                        *)
Seen(r) == IF task[r] = "simulate" THEN done[r] + 1 ELSE done[r]

(* In the loop, the devices seen so far are there or staged; those a run    *)
(* has staged were used by it for the first time, and the one it is about   *)
(* to insert is.                                                            *)
StageInv(r) ==
  /\ task[r] \in InLoop \cup {"progress"} =>
       /\ \A i \in 1..Seen(r) : Plan[r][i] \in {OwnDevice} \cup devices \cup staged[r]
       /\ \A d \in staged[r] :
            d # OwnDevice /\ \E i \in FirstUses(r) : i <= Seen(r) /\ Plan[r][i] = d
  /\ task[r] = "insert" =>
       /\ Device(r) # OwnDevice
       /\ done[r] + 1 \in FirstUses(r)

RunInv(r) == RowInv(r) /\ DoneInv(r) /\ HoldInv(r) /\ StageInv(r)

SimInv ==
  /\ SimTypeOK /\ IsFiniteSet(connected)
  /\ \A r \in Runs : RunInv(r)
  /\ LeftoversOnlyOfFailedRuns

(* Plans are sequences of devices.                                          *)
LEMMA PlanType ==
  ASSUME NEW r \in Runs
  PROVE  /\ Len(Plan[r]) \in Nat \ {0} /\ DOMAIN Plan[r] = 1..Len(Plan[r])
         /\ \A i \in 1..Len(Plan[r]) : Plan[r][i] \in Nat
         /\ \A i \in 1..Len(Plan[r]) : Plan[r][i] # OwnDevice => Plan[r][i] \in Devices
<1>1. Plan[r] \in Seq(Nat) /\ Plan[r] # <<>>
  BY PlanAssumption
<1>2. /\ Len(Plan[r]) \in Nat \ {0} /\ DOMAIN Plan[r] = 1..Len(Plan[r])
      /\ \A i \in 1..Len(Plan[r]) : Plan[r][i] \in Nat
  BY <1>1
<1>3. ASSUME NEW i \in 1..Len(Plan[r]), Plan[r][i] # OwnDevice PROVE Plan[r][i] \in Devices
  <2> DEFINE used(s) == {Plan[s][k] : k \in DOMAIN Plan[s]}
  <2>1. Plan[r][i] \in used(r)
    BY <1>2
  <2>2. Devices = (UNION {used(s) : s \in Runs}) \ {OwnDevice}
    BY DEF Devices
  <2> HIDE DEF used
  <2> QED
    BY <1>3, <2>1, <2>2
<1> QED
  BY <1>2, <1>3

LEMMA Initially == SimInit => SimInv
<1> SUFFICES ASSUME SimInit PROVE SimInv
  OBVIOUS
<1>1. IsFiniteSet(connected) /\ Cardinality(connected) = 0
  BY FS_EmptySet DEF SimInit
<1>2. SimTypeOK
  BY <1>1, PlanType, PlanAssumption DEF SimInit, SimTypeOK
<1>3. ASSUME NEW r \in Runs PROVE RunInv(r)
  BY PlanType DEF SimInit, RunInv, RowInv, DoneInv, HoldInv, StageInv, InLoop, Seen
<1> QED
  BY <1>1, <1>2, <1>3 DEF SimInv, SimInit, LeftoversOnlyOfFailedRuns

-----------------------------------------------------------------------------
(* A step of run q leaves the other runs' variables alone, and devices are  *)
(* never taken away: their invariant stays.                                 *)
OthersStay(q) ==
  /\ \A r \in Runs \ {q} :
       /\ row'[r] = row[r] /\ task'[r] = task[r] /\ done'[r] = done[r]
       /\ staged'[r] = staged[r] /\ (r \in connected' <=> r \in connected)
  /\ devices \subseteq devices'

LEMMA OthersKeep ==
  ASSUME NEW q, NEW r \in Runs \ {q}, RunInv(r), OthersStay(q)
  PROVE  RunInv(r)'
  BY DEF OthersStay, RunInv, RowInv, DoneInv, HoldInv, StageInv, Seen, Device

(* What was left behind belongs to runs that have ended.                    *)
LEMMA LeftoversKeep ==
  ASSUME SimInv, NEW q \in Runs, task[q] # "ended", OthersStay(q), kept' = kept, RunInv(q)'
  PROVE  LeftoversOnlyOfFailedRuns'
<1>1. ASSUME NEW r \in Runs, row'[r] = "completed" PROVE Finished(r, done'[r])
  BY <1>1 DEF SimInv, RunInv, RowInv, OthersStay, LeftoversOnlyOfFailedRuns, Finished
<1>2. ASSUME NEW p \in kept
      PROVE  row'[p[1]] = "failed" /\ {p[1]} \X (1..done'[p[1]]) \subseteq kept
  <2>1. p[1] \in Runs /\ row[p[1]] = "failed"
    BY DEF SimInv, SimTypeOK, LeftoversOnlyOfFailedRuns
  <2>2. p[1] # q
    BY <2>1 DEF SimInv, RunInv, RowInv
  <2> QED
    BY <2>1, <2>2 DEF OthersStay, SimInv, LeftoversOnlyOfFailedRuns
<1> QED
  BY <1>1, <1>2 DEF LeftoversOnlyOfFailedRuns

(* A step of run q that keeps the types, its own invariant, and what was    *)
(* left behind.                                                             *)
LEMMA StepKeeps ==
  ASSUME SimInv, NEW q \in Runs, task[q] # "ended", OthersStay(q), kept' = kept,
         SimTypeOK', IsFiniteSet(connected'), RunInv(q)'
  PROVE  SimInv'
<1>1. ASSUME NEW r \in Runs PROVE RunInv(r)'
  <2>1. CASE r = q
    BY <2>1
  <2>2. CASE r # q
    BY <2>2, OthersKeep DEF SimInv
  <2> QED
    BY <2>1, <2>2
<1> QED
  BY <1>1, LeftoversKeep DEF SimInv

(* Connections are counted.                                                 *)
LEMMA Connections ==
  ASSUME SimInv, NEW q \in Runs
  PROVE  /\ Cardinality(connected) \in Nat
         /\ IsFiniteSet(connected \ {q}) /\ Cardinality(connected \ {q}) <= PoolSize
         /\ IsFiniteSet(connected \cup {q})
         /\ q \in connected \/ ~ Full => Cardinality(connected \cup {q}) <= PoolSize
<1> USE PlanAssumption
<1>1. IsFiniteSet(connected) /\ Cardinality(connected) <= PoolSize
  BY DEF SimInv, SimTypeOK
<1>2. Cardinality(connected) \in Nat
  BY <1>1, FS_CardinalityType
<1>3. /\ IsFiniteSet(connected \ {q})
      /\ Cardinality(connected \ {q}) <= Cardinality(connected)
      /\ Cardinality(connected \ {q}) \in Nat
  <2>1. connected \ {q} \in SUBSET connected
    OBVIOUS
  <2>2. IsFiniteSet(connected \ {q}) /\ Cardinality(connected \ {q}) <= Cardinality(connected)
    BY <1>1, <2>1, FS_Subset
  <2> QED
    BY <2>2, FS_CardinalityType
<1>4. /\ IsFiniteSet(connected \cup {q})
      /\ Cardinality(connected \cup {q}) =
           IF q \in connected THEN Cardinality(connected) ELSE Cardinality(connected) + 1
  BY <1>1, FS_AddElement
<1> QED
  BY <1>1, <1>2, <1>3, <1>4 DEF Full

(* The device of a payment in hand is one of those of the plans.            *)
LEMMA DeviceType ==
  ASSUME SimInv, NEW q \in Runs, task[q] \in InLoop
  PROVE  /\ done[q] \in Nat /\ done[q] + 1 \in 1..Len(Plan[q])
         /\ Device(q) # OwnDevice => Device(q) \in Devices
<1>1. done[q] \in 0..Len(Plan[q]) /\ done[q] < Len(Plan[q]) /\ Len(Plan[q]) \in Nat
  BY PlanType DEF SimInv, SimTypeOK, RunInv, DoneInv
<1> QED
  BY <1>1, PlanType DEF Device

-----------------------------------------------------------------------------
(* The steps before the loop.                                               *)
LEMMA FirstSteps ==
  ASSUME SimInv, NEW q \in Runs,
         Schedule(q) \/ RefreshFails(q) \/ Begin(q) \/ BeginTimesOut(q)
  PROVE  SimInv'
<1> USE DEF Schedule, RefreshFails, Begin, BeginTimesOut, Move, Mark
<1>1. task[q] # "ended" /\ OthersStay(q) /\ kept' = kept
  BY DEF SimInv, SimTypeOK, OthersStay
<1>2. SimTypeOK' /\ IsFiniteSet(connected')
  BY DEF SimInv, SimTypeOK, Active
<1>3. RunInv(q)'
  <2>1. RunInv(q)
    BY DEF SimInv
  <2>2. RowInv(q)' /\ DoneInv(q)'
    BY <2>1, PlanType DEF SimInv, SimTypeOK, RunInv, RowInv, DoneInv, InLoop, Finished
  <2>3. HoldInv(q)' /\ StageInv(q)'
    BY <2>1 DEF SimInv, SimTypeOK, RunInv, DoneInv, HoldInv, StageInv, Seen, InLoop, Device
  <2> QED
    BY <2>2, <2>3 DEF RunInv
<1> QED
  BY <1>1, <1>2, <1>3, StepKeeps

(* Steps that only choose the next one.                                     *)
LEMMA StatusSteps ==
  ASSUME SimInv, NEW q \in Runs, Progress(q) \/ TimesOut(q) \/ EngineRaises(q)
  PROVE  SimInv'
<1> USE DEF Progress, TimesOut, EngineRaises, Move, Mark
<1>1. task[q] # "ended" /\ OthersStay(q) /\ kept' = kept
  BY DEF SimInv, SimTypeOK, OthersStay
<1>2. SimTypeOK' /\ IsFiniteSet(connected')
  BY DEF SimInv, SimTypeOK, Active
<1>3. RunInv(q)'
  <2>1. RunInv(q)
    BY DEF SimInv
  <2>2. RowInv(q)' /\ DoneInv(q)'
    BY <2>1, PlanType DEF SimInv, SimTypeOK, RunInv, RowInv, DoneInv, InLoop, Finished
  <2>3. HoldInv(q)' /\ StageInv(q)'
    BY <2>1 DEF SimInv, SimTypeOK, RunInv, DoneInv, HoldInv, StageInv, Seen, InLoop, Device
  <2> QED
    BY <2>2, <2>3 DEF RunInv
<1> QED
  BY <1>1, <1>2, <1>3, StepKeeps

(* Steps that end the task and leave the live tables alone.                 *)
LEMMA LastSteps ==
  ASSUME SimInv, NEW q \in Runs, Finish(q) \/ FailureTimesOut(q)
  PROVE  SimInv'
<1> USE DEF Finish, FailureTimesOut, Move, Mark
<1>1. task[q] # "ended" /\ OthersStay(q) /\ kept' = kept
  BY DEF SimInv, SimTypeOK, OthersStay
<1>2. SimTypeOK' /\ IsFiniteSet(connected')
  BY DEF SimInv, SimTypeOK, Active
<1>3. RunInv(q)'
  <2>1. RunInv(q)
    BY DEF SimInv
  <2>2. RowInv(q)' /\ DoneInv(q)'
    BY <2>1, PlanType DEF SimInv, SimTypeOK, RunInv, RowInv, DoneInv, InLoop, Finished
  <2>3. HoldInv(q)' /\ StageInv(q)'
    BY <2>1 DEF SimInv, SimTypeOK, RunInv, DoneInv, HoldInv, StageInv, Seen, InLoop, Device
  <2> QED
    BY <2>2, <2>3 DEF RunInv
<1> QED
  BY <1>1, <1>2, <1>3, StepKeeps

(* A device that was not seen before is used for the first time.            *)
LEMMA SelectKeeps ==
  ASSUME SimInv, NEW q \in Runs, Select(q)
  PROVE  SimInv'
<1> USE DEF Select, Move, Mark
<1>1. task[q] # "ended" /\ OthersStay(q) /\ kept' = kept
  BY DEF SimInv, SimTypeOK, OthersStay
<1>2. SimTypeOK' /\ IsFiniteSet(connected')
  BY Connections DEF SimInv, SimTypeOK, Active
<1>3. RunInv(q)'
  <2>1. RunInv(q)
    BY DEF SimInv
  <2>2. RowInv(q)' /\ DoneInv(q)' /\ HoldInv(q)'
    BY <2>1 DEF SimInv, SimTypeOK, RunInv, RowInv, DoneInv, HoldInv, InLoop
  <2>3. done[q] \in Nat /\ done[q] + 1 \in 1..Len(Plan[q]) /\ Device(q) = Plan[q][done[q] + 1]
    BY DeviceType DEF InLoop, Device
  <2>4. \A i \in 1..done[q] : Plan[q][i] \in {OwnDevice} \cup devices \cup staged[q]
    BY <2>1 DEF RunInv, StageInv, Seen, InLoop
  <2>5. \A d \in staged[q] : d # OwnDevice /\ \E i \in FirstUses(q) : i <= done[q] /\ Plan[q][i] = d
    BY <2>1 DEF RunInv, StageInv, Seen, InLoop
  <2>6. CASE task'[q] = "simulate"
    <3>1. Device(q) \in {OwnDevice} \cup devices \cup staged[q]
      BY <2>6 DEF SimInv, SimTypeOK
    <3>2. \A i \in 1..done[q] + 1 : Plan[q][i] \in {OwnDevice} \cup devices \cup staged[q]
      BY <2>3, <2>4, <3>1
    <3>3. FirstUses(q) \subseteq 1..Len(Plan[q])
      BY PlanType DEF FirstUses
    <3>4. \A d \in staged[q] : \E i \in FirstUses(q) : i <= done[q] + 1 /\ Plan[q][i] = d
      BY <2>3, <2>5, <3>3
    <3> QED
      BY <2>2, <2>5, <2>6, <3>2, <3>4 DEF RunInv, StageInv, Seen
  <2>7. CASE task'[q] = "insert"
    <3>1. Device(q) \notin {OwnDevice} \cup devices \cup staged[q]
      BY <2>7 DEF SimInv, SimTypeOK
    <3>2. \A i \in 1..done[q] : Plan[q][i] # Plan[q][done[q] + 1]
      BY <2>3, <2>4, <3>1
    <3>3. done[q] + 1 \in FirstUses(q)
      BY <2>3, <3>2, PlanType DEF FirstUses
    <3> QED
      BY <2>2, <2>4, <2>5, <2>7, <3>1, <3>3 DEF RunInv, StageInv, Seen, Device
  <2> QED
    BY <2>6, <2>7 DEF SimInv, SimTypeOK
<1> QED
  BY <1>1, <1>2, <1>3, StepKeeps

(* It is staged.                                                            *)
LEMMA InsertKeeps ==
  ASSUME SimInv, NEW q \in Runs, Insert(q)
  PROVE  SimInv'
<1> USE DEF Insert, Move, Mark
<1>1. task[q] # "ended" /\ OthersStay(q) /\ kept' = kept
  BY DEF SimInv, SimTypeOK, OthersStay
<1>2. SimTypeOK' /\ IsFiniteSet(connected')
  BY DeviceType DEF SimInv, SimTypeOK, RunInv, StageInv, InLoop, Active
<1>3. RunInv(q)'
  <2>1. RunInv(q)
    BY DEF SimInv
  <2>2. RowInv(q)' /\ DoneInv(q)' /\ HoldInv(q)'
    BY <2>1 DEF SimInv, SimTypeOK, RunInv, RowInv, DoneInv, HoldInv, InLoop
  <2>3. done[q] \in Nat /\ Device(q) = Plan[q][done[q] + 1]
    BY DeviceType DEF InLoop, Device
  <2>4. /\ \A i \in 1..done[q] : Plan[q][i] \in {OwnDevice} \cup devices \cup staged[q]
        /\ \A d \in staged[q] : d # OwnDevice /\ \E i \in FirstUses(q) : i <= done[q] /\ Plan[q][i] = d
        /\ Device(q) # OwnDevice /\ done[q] + 1 \in FirstUses(q)
    BY <2>1 DEF RunInv, StageInv, Seen, InLoop
  <2>5. /\ task'[q] = "simulate" /\ staged'[q] = staged[q] \cup {Device(q)}
        /\ done' = done /\ devices' = devices
    BY DEF SimInv, SimTypeOK
  <2>6. \A i \in 1..done[q] + 1 : Plan[q][i] \in {OwnDevice} \cup devices \cup staged'[q]
    BY <2>3, <2>4, <2>5
  <2>7. FirstUses(q) \subseteq 1..Len(Plan[q])
    BY PlanType DEF FirstUses
  <2>8. \A d \in staged'[q] :
          d # OwnDevice /\ \E i \in FirstUses(q) : i <= done[q] + 1 /\ Plan[q][i] = d
    BY <2>3, <2>4, <2>5, <2>7
  <2> QED
    BY <2>2, <2>5, <2>6, <2>8 DEF RunInv, StageInv, Seen
<1> QED
  BY <1>1, <1>2, <1>3, StepKeeps

(* The payment is counted.                                                  *)
LEMMA SimulateKeeps ==
  ASSUME SimInv, NEW q \in Runs, Simulate(q)
  PROVE  SimInv'
<1> USE DEF Simulate, Move, Mark
<1>1. task[q] # "ended" /\ OthersStay(q) /\ kept' = kept
  BY DEF SimInv, SimTypeOK, OthersStay
<1>0. done[q] \in Nat /\ done[q] + 1 \in 1..Len(Plan[q]) /\ Len(Plan[q]) \in Nat
  BY DeviceType, PlanType DEF InLoop
<1>2. SimTypeOK' /\ IsFiniteSet(connected')
  BY <1>0 DEF SimInv, SimTypeOK, Active
<1>3. RunInv(q)'
  <2>1. RunInv(q)
    BY DEF SimInv
  <2>2. done'[q] = done[q] + 1 /\ task'[q] \in {"progress", "select"} /\ staged' = staged
    BY DEF SimInv, SimTypeOK
  <2>3. task'[q] = "select" => done'[q] # Len(Plan[q])
    BY <2>2 DEF SimInv, SimTypeOK, Finished
  <2>4. RowInv(q)' /\ DoneInv(q)' /\ HoldInv(q)'
    BY <1>0, <2>1, <2>2, <2>3 DEF SimInv, SimTypeOK, RunInv, RowInv, DoneInv, HoldInv, InLoop
  <2>5. StageInv(q)'
    BY <1>0, <2>1, <2>2 DEF RunInv, StageInv, Seen, InLoop
  <2> QED
    BY <2>4, <2>5 DEF RunInv
<1> QED
  BY <1>1, <1>2, <1>3, StepKeeps

(* The transaction is rolled back: its devices and its connection go.       *)
LEMMA ReleaseKeeps ==
  ASSUME SimInv, NEW q \in Runs, InsertFails(q) \/ RollBack(q)
  PROVE  SimInv'
<1> USE DEF InsertFails, RollBack, Release, Move, Mark
<1>1. task[q] # "ended" /\ OthersStay(q) /\ kept' = kept
  BY DEF SimInv, SimTypeOK, OthersStay
<1>2. SimTypeOK' /\ IsFiniteSet(connected')
  BY Connections DEF SimInv, SimTypeOK, Active
<1>3. RunInv(q)'
  BY DEF SimInv, SimTypeOK, RunInv, RowInv, DoneInv, HoldInv, StageInv, InLoop
<1> QED
  BY <1>1, <1>2, <1>3, StepKeeps

(* A run is created.                                                        *)
LEMMA CreateKeeps ==
  ASSUME SimInv, NEW q \in Runs, CreateRun(q)
  PROVE  SimInv'
<1> USE DEF CreateRun, Move, Mark
<1>1. task[q] # "ended" /\ OthersStay(q) /\ kept' = kept
  BY DEF SimInv, SimTypeOK, OthersStay
<1>2. SimTypeOK' /\ IsFiniteSet(connected')
  BY DEF SimInv, SimTypeOK, Active
<1>3. RunInv(q)'
  BY DEF SimInv, SimTypeOK, RunInv, RowInv, DoneInv, HoldInv, StageInv, InLoop
<1> QED
  BY <1>1, <1>2, <1>3, StepKeeps

(* The except path: if it commits payments, it is those of the run whose    *)
(* status it sets, and all of them.                                         *)
LEMMA FailureKeeps ==
  ASSUME SimInv, NEW q \in Runs, RecordFailure(q)
  PROVE  SimInv'
<1> USE DEF RecordFailure, Release, Move, Mark
<1>1. task[q] # "ended" /\ OthersStay(q)
  BY DEF SimInv, SimTypeOK, OthersStay
<1>2. SimTypeOK' /\ IsFiniteSet(connected')
  <2>1. {q} \X (1..done[q]) \subseteq Runs \X Nat
    BY DEF SimInv, SimTypeOK
  <2> QED
    BY <2>1, Connections DEF SimInv, SimTypeOK, Active
<1>3. ASSUME NEW r \in Runs PROVE RunInv(r)'
  <2>1. CASE r = q
    BY <2>1 DEF SimInv, SimTypeOK, RunInv, RowInv, DoneInv, HoldInv, StageInv, InLoop
  <2>2. CASE r # q
    BY <1>1, <2>2, OthersKeep DEF SimInv
  <2> QED
    BY <2>1, <2>2
<1>4. CASE row[q] # "running"
  <2>1. kept' = kept
    BY <1>4
  <2> QED
    BY <1>1, <1>2, <1>3, <2>1, LeftoversKeep DEF SimInv
<1>5. CASE row[q] = "running"
  <2> DEFINE own == IF q \in connected THEN {q} \X (1..done[q]) ELSE {}
  <2>1. kept' = kept \cup own /\ row'[q] = "failed" /\ done' = done
    BY <1>5 DEF SimInv, SimTypeOK
  <2>2. ASSUME NEW p \in kept PROVE p[1] \in Runs \ {q} /\ row'[p[1]] = row[p[1]]
    BY <1>1, <1>5 DEF SimInv, SimTypeOK, LeftoversOnlyOfFailedRuns, OthersStay
  <2>3. ASSUME NEW p \in kept'
        PROVE  row'[p[1]] = "failed" /\ {p[1]} \X (1..done'[p[1]]) \subseteq kept'
    <3>1. CASE p \in kept
      BY <2>1, <2>2, <3>1 DEF SimInv, LeftoversOnlyOfFailedRuns
    <3>2. CASE p \in own
      <4>1. p[1] = q /\ own = {q} \X (1..done[q])
        BY <3>2
      <4> QED
        BY <2>1, <4>1
    <3> QED
      BY <2>1, <2>3, <3>1, <3>2
  <2>4. ASSUME NEW r \in Runs, row'[r] = "completed" PROVE Finished(r, done'[r])
    BY <1>1, <2>1, <2>4 DEF SimInv, LeftoversOnlyOfFailedRuns, OthersStay, Finished
  <2> QED
    BY <1>2, <1>3, <2>3, <2>4 DEF SimInv, LeftoversOnlyOfFailedRuns
<1> QED
  BY <1>4, <1>5

LEMMA ResetKeeps == SimInv /\ Reset => SimInv'
<1> SUFFICES ASSUME SimInv, Reset PROVE SimInv'
  OBVIOUS
<1>1. SimTypeOK' /\ IsFiniteSet(connected')
  BY PlanAssumption DEF SimInv, SimTypeOK, Reset
<1>2. ASSUME NEW r \in Runs PROVE RunInv(r)'
  BY DEF SimInv, RunInv, RowInv, DoneInv, HoldInv, StageInv, Seen, Device, Reset
<1>3. LeftoversOnlyOfFailedRuns'
  BY DEF Reset, LeftoversOnlyOfFailedRuns
<1> QED
  BY <1>1, <1>2, <1>3 DEF SimInv

LEMMA CrashKeeps == SimInv /\ Crash => SimInv'
<1> SUFFICES ASSUME SimInv, Crash PROVE SimInv'
  OBVIOUS
<1>1. SimTypeOK' /\ IsFiniteSet(connected')
  <2>1. IsFiniteSet(connected') /\ Cardinality(connected') = 0
    BY FS_EmptySet DEF Crash
  <2> QED
    BY <2>1, PlanAssumption DEF SimInv, SimTypeOK, Crash
<1>2. ASSUME NEW r \in Runs PROVE RunInv(r)'
  BY DEF SimInv, SimTypeOK, RunInv, RowInv, DoneInv, HoldInv, StageInv, InLoop, Active, Crash
<1>3. LeftoversOnlyOfFailedRuns'
  BY DEF SimInv, Crash, LeftoversOnlyOfFailedRuns, Finished
<1> QED
  BY <1>1, <1>2, <1>3 DEF SimInv

(* Every step keeps the invariant.                                          *)
THEOREM RunsInvariant == SimSpec => []SimInv
<1>1. SimInv /\ [SimNext]_simVars => SimInv'
  <2> SUFFICES ASSUME SimInv, [SimNext]_simVars PROVE SimInv'
    OBVIOUS
  <2>1. ASSUME NEW r \in Runs, TaskStep(r) PROVE SimInv'
    BY <2>1, FirstSteps, StatusSteps, LastSteps, SelectKeeps, InsertKeeps, SimulateKeeps,
       ReleaseKeeps, FailureKeeps DEF TaskStep
  <2>2. ASSUME NEW r \in Runs, CreateRun(r) PROVE SimInv'
    BY <2>2, CreateKeeps
  <2>3. CASE UNCHANGED simVars
    BY <2>3 DEF simVars, SimInv, SimTypeOK, RunInv, RowInv, DoneInv, HoldInv, StageInv, Seen,
      Device, LeftoversOnlyOfFailedRuns, Finished
  <2> QED
    BY <2>1, <2>2, <2>3, ResetKeeps, CrashKeeps DEF SimNext, AllEnded
<1> QED
  BY <1>1, Initially, PTL DEF SimSpec

-----------------------------------------------------------------------------
(* Statuses, counters, connections and devices stay in range.               *)
THEOREM SimTypeCorrect == SimSpec => []SimTypeOK
<1>1. SimInv => SimTypeOK
  BY DEF SimInv
<1> QED
  BY <1>1, RunsInvariant, PTL

(* Whatever a run left behind it left whole, under the status failed.       *)
THEOREM LeftoversSafe == SimSpec => []LeftoversOnlyOfFailedRuns
<1>1. SimInv => LeftoversOnlyOfFailedRuns
  BY DEF SimInv
<1> QED
  BY <1>1, RunsInvariant, PTL

(* A task that ended holds neither a connection nor a device.               *)
THEOREM EndedReleased == SimSpec => []EndedHoldsNothing
<1>1. SimInv => EndedHoldsNothing
  BY DEF SimInv, RunInv, HoldInv, EndedHoldsNothing
<1> QED
  BY <1>1, RunsInvariant, PTL

-----------------------------------------------------------------------------
(* A run that waits is about a later device than any it has staged; so each *)
(* run that waits for another one in hand is about an earlier device.       *)
LEMMA WaitsUpwards ==
  ASSUME SimInv, NEW r \in Runs, NEW s \in Runs, Waits(r, s), task[s] = "insert"
  PROVE  Device(r) \in Nat /\ Device(s) \in Nat /\ Device(r) < Device(s)
<1>1. /\ Device(r) \in staged[s] /\ Device(r) # OwnDevice
      /\ Device(s) # OwnDevice /\ done[s] + 1 \in FirstUses(s)
      /\ done[s] \in Nat /\ Device(s) = Plan[s][done[s] + 1]
  BY DeviceType DEF Waits, SimInv, SimTypeOK, RunInv, StageInv, InLoop, Device
<1>2. PICK i \in FirstUses(s) : i <= done[s] /\ Plan[s][i] = Device(r)
  BY <1>1 DEF SimInv, RunInv, StageInv, Seen, InLoop
<1>3. i \in 1..Len(Plan[s]) /\ done[s] + 1 \in 1..Len(Plan[s]) /\ i < done[s] + 1
  BY <1>1, <1>2, PlanType DEF FirstUses
<1>4. Plan[s][i] \in Nat /\ Plan[s][done[s] + 1] \in Nat
  BY <1>3, PlanType
<1>5. Plan[s][i] < Plan[s][done[s] + 1]
  BY <1>1, <1>2, <1>3, PlanAssumption
<1> QED
  BY <1>1, <1>2, <1>4, <1>5

(* In a set of runs all of which wait for one of the set, take one with the *)
(* fewest runs of the set at later devices: the one it waits for has fewer. *)
THEOREM NoRunDeadlock == SimSpec => []NoRunWaitCycle
<1>1. SimInv => NoRunWaitCycle
  <2> SUFFICES ASSUME SimInv, NEW S \in SUBSET Runs, S # {},
                      \A r \in S : \E s \in S : Waits(r, s)
               PROVE  FALSE
    BY DEF NoRunWaitCycle
  <2> DEFINE later(r) == {s \in S : Device(r) < Device(s)}
             counts == {later(r) : r \in S}
  <2>1. \A r \in S : task[r] = "insert"
    BY DEF Waits
  <2>2. S \subseteq connected
    BY <2>1 DEF SimInv, RunInv, HoldInv
  <2>3. IsFiniteSet(S)
    BY <2>2, FS_Subset DEF SimInv
  <2>4. counts \subseteq SUBSET S /\ counts # {}
    OBVIOUS
  <2>5. \E t \in counts : \A u \in counts : ~ (u \subseteq t /\ u # t)
    <3> HIDE DEF counts
    <3>1. IsWellFoundedOn(StrictSubsetOrdering(S), SUBSET S)
      BY <2>3, FS_StrictSubsetOrderingWellFounded, FS_FiniteSubsetsOfFinite
    <3>2. PICK t \in counts : \A u \in counts : ~ (<<u, t>> \in StrictSubsetOrdering(S))
      BY <2>4, <3>1, WFMin
    <3> QED
      BY <2>4, <3>2 DEF StrictSubsetOrdering
  <2>6. PICK r \in S : \A u \in counts : ~ (u \subseteq later(r) /\ u # later(r))
    BY <2>5
  <2>7. PICK s \in S : Waits(r, s)
    OBVIOUS
  <2>8. Device(r) < Device(s) /\ \A q \in S : Device(q) \in Nat
    BY <2>1, <2>7, WaitsUpwards
  <2>9. later(s) \subseteq later(r) /\ s \in later(r) /\ s \notin later(s)
    BY <2>8
  <2> QED
    BY <2>6, <2>9
<1> QED
  BY <1>1, RunsInvariant, PTL

=============================================================================
