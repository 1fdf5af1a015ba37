------------------------------- MODULE Console -------------------------------
(***************************************************************************)
(* A browser tab of the operator's console with one of its pages, the API   *)
(* client it shares with the others, and the part of the backend that       *)
(* answers.  The requests of a page that was left stay in flight.           *)
(***************************************************************************)
EXTENDS SimulationPage, TransactionsPage, Investigation

CONSTANT Tabs    \* the pages a tab is opened on

VARIABLE tab

consoleVars ==
  <<tab, mounted, clientVars, simPageVars, listVars, investigationVars>>

(* The page is mounted: the transactions page loads its list, the layout    *)
(* its badge.                                                               *)
Opened ==
  IF tab = "transactions" THEN <<ListAsk(1), SummaryAsk>> ELSE <<>>

ConsoleInit ==
  /\ tab \in Tabs /\ mounted = TRUE /\ faults = 0
  /\ calls = [c \in 1..Slots |->
       IF c \in DOMAIN Opened
         THEN [at |-> "sent", attempt |-> 1, seen |-> <<>>, ask |-> Opened[c]] ELSE Free]
  /\ SimPageInit /\ ListInit /\ InvestigationInit

(* A step of the page the tab shows.                                        *)
In(page) ==
  /\ tab = page /\ UNCHANGED tab
  /\ page # "simulation" => UNCHANGED simPageVars
  /\ page # "transactions" => UNCHANGED listVars
  /\ page # "investigation" => UNCHANGED investigationVars

ClientOnly == UNCHANGED <<tab, mounted, simPageVars, listVars, investigationVars>>

(* The server works on a call, or the client or a page handles its answer.  *)
Handle(c) ==
  \/ SimPageCall(c) /\ In("simulation")
  \/ ListCall(c) /\ In("transactions")
  \/ InvestigationCall(c) /\ In("investigation")
  \/ Refused(c) /\ ClientOnly

ConsoleNext ==
  \/ SimPageNext /\ In("simulation")
  \/ ListNext /\ In("transactions")
  \/ InvestigationNext /\ In("investigation")
  \/ \E c \in 1..Slots : (Lose(c) \/ Refused(c)) /\ ClientOnly

(* What happens by itself: timers fire, requests are answered, background   *)
(* tasks end, time limits pass.  Nobody need click and no model call need   *)
(* return.  Timers do not wait for requests in flight, only the bound Slots *)
(* makes two of them wait for the same free slot: these are strongly fair.  *)
ConsoleFairness ==
  /\ \A c \in 1..Slots : WF_consoleVars(Handle(c))
  /\ WF_consoleVars(\E r \in Runs : RunEnds(r) /\ In("simulation"))
  /\ WF_consoleVars(\E r \in Runs : Tick(r) /\ In("simulation"))
  /\ SF_consoleVars(Reload /\ In("transactions"))
  /\ SF_consoleVars(ReloadBadge /\ In("transactions"))
  /\ WF_consoleVars(\E j \in jobs : TimeOut(j) /\ In("investigation"))

ConsoleSpec == ConsoleInit /\ [][ConsoleNext]_consoleVars /\ ConsoleFairness

(* Stale answers may overwrite newer ones, but not for good: once nothing   *)
(* is stored or chosen any more, the open page shows what there is          *)
(* (transactions/page.tsx:55, AppLayout.tsx:42).                            *)
ListSettles == <>[](tab = "transactions" /\ mounted => UpToDate)

=============================================================================
