-------------------------- MODULE MCDatasetScripts --------------------------
(***************************************************************************)
(* A small instance of DatasetScripts: five transactions, written and       *)
(* evaluated in batches that do not divide them.                            *)
(***************************************************************************)
EXTENDS DatasetScripts

=============================================================================
