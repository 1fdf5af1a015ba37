--------------------------- MODULE SimulationPage ---------------------------
(***************************************************************************)
(* The Simulation Lab page: it starts a run, locks its form and polls the   *)
(* run from an interval timer until an answer says that the run has ended.  *)
(* What it shows of the run, and the list of runs, decide nothing.          *)
(***************************************************************************)
EXTENDS ApiClient

CONSTANTS
  MaxRuns,        \* bound: how many runs are created
  MaxResets,      \* bound: how many resets
  None            \* no run, no timer

ASSUME SimulationPageAssumption ==
  /\ MaxRuns \in Nat /\ MaxResets \in Nat
  /\ None \notin 1..MaxRuns

VARIABLES
  runs,           \* simulation_runs; "stuck" without a task that will end it
  form,           \* "open", or "locked" while loading is set
  timers,         \* the runs that interval timers poll
  pollRef,        \* the run of the timer the page knows, ended or not
  late,           \* whether an answer about an earlier run took this one's place
  resets

simPageVars == <<runs, form, timers, pollRef, late, resets>>

Runs == 1..MaxRuns

Over(status) == status \in {"completed", "failed"}

Unused == {r \in Runs : runs[r] = "none"}

(* handleRun.                                                               *)
Submit ==
  /\ mounted /\ form = "open" /\ Unused # {}
  /\ form' = "locked"
  /\ Send(<<[kind |-> "post"]>>)
  /\ UNCHANGED <<mounted, runs, timers, pollRef, late, resets>>

(* create_run: every attempt that reaches the server creates a run; the     *)
(* server refuses for the rate limit or an error, which may also come after *)
(* the row was committed and leaves it without a task.                      *)
ServePost(c) ==
  /\ Open(c, "post")
  /\ \/ /\ Unused # {}
        /\ \/ runs' = [runs EXCEPT ![Min(Unused)] = "running"] /\ Respond(c, Min(Unused))
           \/ runs' = [runs EXCEPT ![Min(Unused)] = "stuck"] /\ Refuse(c)
     \/ Refuse(c) /\ UNCHANGED runs
  /\ UNCHANGED <<mounted, form, timers, pollRef, late, resets>>

(* pollRun: the timer known to the page is cleared and a new one is set.    *)
PostAnswered(c) ==
  /\ Answered(c, "post")
  /\ timers' = (timers \ {pollRef}) \cup {Answer(c)}
  /\ pollRef' = Answer(c) /\ late' = FALSE
  /\ Take(c)
  /\ UNCHANGED <<mounted, runs, form, resets>>

(* Fault: the form is not opened again.                                     *)
PostForgotten(c) ==
  /\ Rejected(c, "post") /\ Take(c)
  /\ UNCHANGED <<mounted, runs, form, timers, pollRef, late, resets>>

PostRejected(c) ==
  /\ Rejected(c, "post") /\ form' = "open" /\ Take(c)
  /\ UNCHANGED <<mounted, runs, timers, pollRef, late, resets>>

(* The interval of a run fires, whether or not its last poll is answered.   *)
Tick(r) ==
  /\ r \in timers
  /\ Send(<<[kind |-> "poll", run |-> r]>>)
  /\ UNCHANGED <<mounted, simPageVars>>

(* get_run.                                                                 *)
ServePoll(c) ==
  /\ Open(c, "poll")
  /\ LET r == calls[c].ask.run
     IN IF runs[r] = "gone" THEN Refuse(c) ELSE Respond(c, [run |-> r, status |-> runs[r]])
  /\ UNCHANGED <<mounted, simPageVars>>

(* Fault: one answer is enough.                                             *)
StopAtFirst(status) == TRUE

(* Whether an answer ends the polling.                                      *)
Stops(status) == Over(status)

(* An ended run clears the timer the page knows, which may be another's.    *)
PollAnswered(c) ==
  /\ Answered(c, "poll")
  /\ IF Stops(Answer(c).status)
       THEN /\ timers' = timers \ {pollRef} /\ form' = "open"
            /\ late' = (late \/ Answer(c).run # pollRef)
       ELSE UNCHANGED <<timers, form, late>>
  /\ Take(c)
  /\ UNCHANGED <<mounted, runs, pollRef, resets>>

PollRejected(c) == Rejected(c, "poll") /\ Take(c) /\ UNCHANGED <<mounted, simPageVars>>

(* The background task ends.  The run is stuck when the task ends without   *)
(* recording it: get_run answers pending or running for good.               *)
RunEnds(r) ==
  /\ runs[r] = "running"
  /\ \E status \in {"completed", "failed", "stuck"} : runs' = [runs EXCEPT ![r] = status]
  /\ UNCHANGED <<mounted, clientVars, form, timers, pollRef, late, resets>>

(* DELETE reset-data empties simulation_runs; ids are never used again.     *)
ResetRuns ==
  /\ resets < MaxResets /\ resets' = resets + 1
  /\ runs' = [r \in Runs |-> IF runs[r] = "none" THEN "none" ELSE "gone"]
  /\ UNCHANGED <<mounted, clientVars, form, timers, pollRef, late>>

(* The effect's clean-up: only the timer known to the page is cleared.      *)
LeaveSimulation ==
  /\ mounted /\ mounted' = FALSE
  /\ timers' = timers \ {pollRef}
  /\ UNCHANGED <<clientVars, runs, form, pollRef, late, resets>>

SimPageInit ==
  /\ runs = [r \in Runs |-> "none"] /\ form = "open"
  /\ timers = {} /\ pollRef = None /\ late = FALSE /\ resets = 0

SimPageCall(c) ==
  \/ ServePost(c) \/ PostAnswered(c) \/ PostRejected(c)
  \/ ServePoll(c) \/ PollAnswered(c) \/ PollRejected(c)

SimPageNext ==
  \/ Submit \/ ResetRuns \/ LeaveSimulation
  \/ \E c \in 1..Slots : SimPageCall(c)
  \/ \E r \in Runs : Tick(r) \/ RunEnds(r)

(* "Poll active run until complete" (simulation/page.tsx:162): while the    *)
(* page is open, it does not stop to poll the run it started last before    *)
(* that run has ended, unless a late answer about an earlier run said that  *)
(* that one had.                                                            *)
PollUntilComplete ==
  mounted /\ pollRef # None /\ pollRef \notin timers /\ ~ late =>
    Over(runs[pollRef]) \/ runs[pollRef] = "gone"

(* The page polls a run that will never be over: one whose row a reset      *)
(* deleted, or whose task ended without recording it.                       *)
PollsLostRun == pollRef \in timers /\ runs[pollRef] \in {"gone", "stuck"}

(* Whatever becomes of its requests, and of the background task, a form     *)
(* that was locked opens again unless the page is left or polls a run that  *)
(* will never be over (simulation/page.tsx:163-194).                        *)
LockedOnlyByLostRun == form = "locked" ~> (form = "open" \/ ~ mounted \/ PollsLostRun)

=============================================================================
