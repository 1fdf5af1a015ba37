---------------------------- MODULE Investigation ----------------------------
(***************************************************************************)
(* The investigation page and the AI investigator behind it: the endpoint   *)
(* runs the model call in a thread of a bounded pool, tries it three times, *)
(* and answers with a fallback report when the time is up; a thread that    *)
(* runs cannot be stopped.                                                  *)
(***************************************************************************)
EXTENDS ApiClient

CONSTANTS
  MaxClicks,      \* bound: how many investigations the user asks for
  Workers,        \* threads of the executor
  NoReport        \* the report or the error is null

ASSUME InvestigationAssumption ==
  /\ MaxClicks \in Nat /\ Workers \in Nat
  /\ NoReport \notin Nat

VARIABLES
  loading,        \* whether the button waits
  report,         \* the report or the error shown: the transaction it is about
  clicks,         \* how often the user has asked; txId is the number of the
                  \* last click, each asks for another transaction
  overlapped,     \* whether the user asked again before an answer
  jobs,           \* model calls the server waits for
  threads         \* threads at work: for which click and attempt

investigationVars ==
  <<loading, report, clicks, overlapped, jobs, threads>>

pageVars == <<loading, report, clicks, overlapped>>

tries == 3

(* Fault: the report of the last transaction stays until the next one.      *)
KeepReport == report

(* setReport(null), setError(null).                                         *)
ClearReport == NoReport

(* fetchReport: an entry of the queue can be clicked while another answer   *)
(* is awaited.                                                              *)
Investigate ==
  /\ mounted /\ clicks < MaxClicks /\ clicks' = clicks + 1
  /\ overlapped' = (overlapped \/ loading)
  /\ loading' = TRUE /\ report' = ClearReport
  /\ Send(<<[kind |-> "investigate", tx |-> clicks']>>)
  /\ UNCHANGED <<mounted, jobs, threads>>

(* The attempt of a call is the identity of its job.                        *)
JobOf(c) == [tx |-> calls[c].ask.tx, attempt |-> calls[c].attempt]

(* The endpoint finds the transaction: an answer at once when there is no   *)
(* evaluation or no API key, 404 when there is none.                        *)
StartJob(c) ==
  /\ Open(c, "investigate") /\ calls[c].seen = <<>>
  /\ \/ Respond(c, calls[c].ask.tx) /\ UNCHANGED jobs
     \/ Refuse(c) /\ UNCHANGED jobs
     \/ /\ Read(c, "transaction")
        /\ jobs' = jobs \cup {[id |-> JobOf(c), try |-> 1, at |-> "queued"]}
  /\ UNCHANGED <<mounted, threads, pageVars>>

(* asyncio.to_thread: a worker takes the call.                              *)
TakeJob(j) ==
  /\ j.at = "queued" /\ Cardinality(threads) < Workers
  /\ jobs' = (jobs \ {j}) \cup {[j EXCEPT !.at = "running"]}
  /\ threads' = threads \cup {[id |-> j.id, try |-> j.try]}
  /\ UNCHANGED <<mounted, clientVars, pageVars>>

(* A thread whose answer nobody awaits any more.                            *)
Abandoned(th) == ~ \E j \in jobs : j.id = th.id /\ j.try = th.try /\ j.at = "running"

(* The job is over, with the model's report or the fallback's: its call     *)
(* answers, if the client still waits for this attempt.                     *)
EndJob(j) ==
  /\ jobs' = jobs \ {j}
  /\ IF \E c \in 1..Slots : Open(c, "investigate") /\ JobOf(c) = j.id
       THEN \E c \in 1..Slots :
              /\ Open(c, "investigate") /\ JobOf(c) = j.id
              /\ Respond(c, calls[c].ask.tx)
       ELSE UNCHANGED clientVars

ModelAnswers(j) ==
  /\ j.at = "running"
  /\ threads' = threads \ {[id |-> j.id, try |-> j.try]}
  /\ EndJob(j)
  /\ UNCHANGED <<mounted, pageVars>>

(* @retry: a back-off, or after the third attempt the fallback.             *)
ModelRaises(j) ==
  /\ j.at = "running"
  /\ threads' = threads \ {[id |-> j.id, try |-> j.try]}
  /\ IF j.try < tries
       THEN jobs' = (jobs \ {j}) \cup {[j EXCEPT !.at = "backoff"]} /\ UNCHANGED clientVars
       ELSE EndJob(j)
  /\ UNCHANGED <<mounted, pageVars>>

TryAgain(j) ==
  /\ j.at = "backoff"
  /\ jobs' = (jobs \ {j}) \cup {[j EXCEPT !.at = "queued", !.try = @ + 1]}
  /\ UNCHANGED <<mounted, clientVars, threads, pageVars>>

(* Fault: the time limit is on each attempt.                                *)
TimeOutTry(j) ==
  /\ IF j.try < tries
       THEN jobs' = (jobs \ {j}) \cup {[j EXCEPT !.at = "backoff"]} /\ UNCHANGED clientVars
       ELSE EndJob(j)
  /\ UNCHANGED <<mounted, threads, pageVars>>

(* Fault: the cancellation waits for a thread that runs.                    *)
TimeOutLate(j) ==
  j.at # "running" /\ EndJob(j) /\ UNCHANGED <<mounted, threads, pageVars>>

(* wait_for: the retry loop and a queued call are cancelled, a thread that  *)
(* runs is left alone.                                                      *)
TimeOut(j) == EndJob(j) /\ UNCHANGED <<mounted, threads, pageVars>>

(* The model call of an abandoned thread returns, if ever.                  *)
ThreadEnds(th) ==
  /\ Abandoned(th) /\ threads' = threads \ {th}
  /\ UNCHANGED <<mounted, clientVars, jobs, pageVars>>

ReportAnswered(c) ==
  /\ Answered(c, "investigate") /\ Take(c)
  /\ report' = Answer(c) /\ loading' = FALSE
  /\ UNCHANGED <<mounted, clicks, overlapped, jobs, threads>>

ReportRejected(c) ==
  /\ Rejected(c, "investigate") /\ Take(c)
  /\ report' = calls[c].ask.tx /\ loading' = FALSE
  /\ UNCHANGED <<mounted, clicks, overlapped, jobs, threads>>

LeaveInvestigation ==
  mounted /\ mounted' = FALSE /\ UNCHANGED <<clientVars, investigationVars>>

InvestigationInit ==
  /\ loading = FALSE /\ report = NoReport
  /\ clicks = 0 /\ overlapped = FALSE /\ jobs = {} /\ threads = {}

JobStep(j) ==
  \/ TakeJob(j) \/ ModelAnswers(j) \/ ModelRaises(j) \/ TryAgain(j) \/ TimeOut(j)

InvestigationCall(c) == StartJob(c) \/ ReportAnswered(c) \/ ReportRejected(c)

InvestigationNext ==
  \/ Investigate
  \/ \E c \in 1..Slots : InvestigationCall(c)
  \/ \E j \in jobs : JobStep(j)
  \/ \E th \in threads : ThreadEnds(th)
  \/ LeaveInvestigation

(* Even if no model call ever returns and the pool is full of threads that  *)
(* nobody awaits, the page gets an answer or an error                       *)
(* (investigator.py:88).                                                    *)
EveryInvestigationAnswered == loading ~> (~ loading \/ ~ mounted)

(* A click occupies two threads at most: one for each attempt of the        *)
(* client, however often the investigator tries again and gives up.         *)
ThreadsPerClick ==
  \A n \in 1..clicks : Cardinality({th \in threads : th.id.tx = n}) <= 2

(* The report on the page is about the selected transaction, unless the     *)
(* user has asked for another while an answer was awaited                   *)
(* (investigation/page.tsx:23).                                             *)
ReportMatches ==
  report # NoReport /\ ~ overlapped => report = clicks

=============================================================================
