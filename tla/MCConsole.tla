------------------------------ MODULE MCConsole ------------------------------
(***************************************************************************)
(* A small instance of Console: every page, with two requests in flight.    *)
(***************************************************************************)
EXTENDS Console

=============================================================================
