------------------------- MODULE MCSimulationRunner -------------------------
(***************************************************************************)
(* Three runs over a pool of two connections, all over the same two devices *)
(* but of different lengths; progress is reported after every second and    *)
(* after the last payment.                                                  *)
(***************************************************************************)
EXTENDS SimulationRunner

CONSTANTS r1, r2, r3

MCRuns == {r1, r2, r3}
MCPlan ==
  [r \in MCRuns |->
     CASE r = r1 -> <<1, 2, 2>>
       [] r = r2 -> <<1, 2>>
       [] OTHER -> <<0, 1, 2>>]

=============================================================================
