--------------------------- MODULE DatasetScripts ---------------------------
(***************************************************************************)
(* The scripts that fill the database: generate_dataset writes a synthetic  *)
(* dataset in place of everything there is, and evaluate_existing gives an  *)
(* evaluation to every transaction that has none.  Either may be run again, *)
(* at any time, and may die at any step.                                    *)
(***************************************************************************)
EXTENDS Integers, FiniteSets

CONSTANTS
  Rows,           \* transactions of a dataset
  WriteBatch,     \* batch_size of the writer
  Batch,          \* BATCH of evaluate_existing
  MaxDatasets     \* bound: how many datasets are written

ASSUME ScriptsAssumption ==
  /\ Rows \in Nat /\ MaxDatasets \in Nat
  /\ WriteBatch \in Nat \ {0} /\ Batch \in Nat \ {0}

VARIABLES
  stored,         \* committed transactions: dataset and row
  labels,         \* transactions with a committed label
  evaluated,      \* transactions with a committed evaluation
  writer,         \* where the writer is
  written,        \* transactions it has inserted and not committed
  labelled,       \* those of them with a label
  datasets,       \* how many datasets were begun
  evaluator,      \* "idle" or "working"
  todo,           \* transactions evaluate_existing has still to look at
  pending,        \* evaluations added to its session and not committed
  done,           \* its counter
  persisted,      \* how many of its evaluations are committed
  skips,          \* how many transactions it skipped
  tail            \* what it evaluated since it skipped one

writerVars == <<writer, written, labelled, datasets>>
evaluatorVars == <<evaluator, todo, pending, done, persisted, skips, tail>>
scriptVars == <<stored, labels, evaluated, writerVars, evaluatorVars>>

Dataset(g) == {<<g, n>> : n \in 1..Rows}

Slice(g, b) == {<<g, n>> : n \in {m \in 1..Rows : (m - 1) \div WriteBatch = b}}

(***************************************************************************)
(* generate_dataset and bulk_write_dataset.                                *)
(***************************************************************************)
(* build_dataset works in memory, then the existing data are deleted in one *)
(* transaction, which is committed.  The deletes wait for evaluations that  *)
(* an open transaction has inserted.                                        *)
ClearExisting ==
  /\ writer = "idle" /\ datasets < MaxDatasets
  /\ Cardinality(pending) <= 1
  /\ stored' = {} /\ labels' = {} /\ evaluated' = {}
  /\ writer' = "parents" /\ written' = {} /\ labelled' = {}
  /\ datasets' = datasets + 1
  /\ UNCHANGED evaluatorVars

(* Merchants, customers and devices.                                        *)
InsertParents ==
  /\ writer = "parents" /\ writer' = "transactions"
  /\ UNCHANGED <<stored, labels, evaluated, written, labelled, datasets, evaluatorVars>>

NextSlice == Slice(datasets, Cardinality(written) \div WriteBatch)

InsertTransactions ==
  /\ writer = "transactions" /\ written # Dataset(datasets)
  /\ written' = written \cup NextSlice
  /\ writer' = "labels"
  /\ UNCHANGED <<stored, labels, evaluated, labelled, datasets, evaluatorVars>>

(* Fault: every batch is committed.                                         *)
CommitSlice ==
  /\ writer = "labels" /\ labelled' = written /\ writer' = "transactions"
  /\ stored' = stored \cup written /\ labels' = labels \cup written
  /\ UNCHANGED <<evaluated, written, datasets, evaluatorVars>>

InsertLabels ==
  /\ writer = "labels" /\ labelled' = written /\ writer' = "transactions"
  /\ UNCHANGED <<stored, labels, evaluated, written, datasets, evaluatorVars>>

CommitDataset ==
  /\ writer = "transactions" /\ written = Dataset(datasets)
  /\ stored' = stored \cup written /\ labels' = labels \cup labelled
  /\ writer' = "idle" /\ written' = {} /\ labelled' = {}
  /\ UNCHANGED <<evaluated, datasets, evaluatorVars>>

(* An insert fails, for two external ids that are equal in the eight digits *)
(* they are cut to, or the script dies: the data stay deleted.              *)
WriterFails ==
  /\ writer # "idle" /\ writer' = "idle" /\ written' = {} /\ labelled' = {}
  /\ UNCHANGED <<stored, labels, evaluated, datasets, evaluatorVars>>

(***************************************************************************)
(* evaluate_existing.                                                      *)
(***************************************************************************)
(* The first session: what has no evaluation, in no particular order.       *)
SelectRows ==
  /\ evaluator = "idle" /\ stored \ evaluated # {}
  /\ todo' = stored \ evaluated
  /\ evaluator' = "working"
  /\ pending' = {} /\ done' = 0 /\ persisted' = 0 /\ skips' = 0 /\ tail' = {}
  /\ UNCHANGED <<stored, labels, evaluated, writerVars>>

(* The evaluations P can be written: their transactions are still there and *)
(* nobody else has evaluated them.                                          *)
Writable(P) == P \subseteq stored \ evaluated

(* Fault: nothing is committed before the end.                              *)
EvaluateAll(r) ==
  /\ evaluator = "working" /\ r \in todo /\ Writable(pending)
  /\ pending' = pending \cup {r} /\ tail' = tail \cup {r}
  /\ done' = done + 1 /\ todo' = todo \ {r}
  /\ UNCHANGED <<stored, labels, evaluated, writerVars, evaluator, persisted, skips>>

(* The evaluation of the next transaction flushes those before it.  Each    *)
(* hundredth commits; if that fails, the script dies.                       *)
EvaluateRow(r) ==
  /\ evaluator = "working" /\ r \in todo /\ Writable(pending)
  /\ LET now == pending \cup {r}
     IN IF (done + 1) % Batch # 0
          THEN /\ pending' = now /\ tail' = tail \cup {r}
               /\ UNCHANGED <<evaluated, persisted>>
          ELSE /\ Writable(now)
               /\ evaluated' = evaluated \cup now
               /\ persisted' = persisted + Cardinality(now)
               /\ pending' = {} /\ tail' = tail \cup {r}
  /\ done' = done + 1 /\ todo' = todo \ {r}
  /\ UNCHANGED <<stored, labels, writerVars, evaluator, skips>>

(* The engine raises, or the flush before it: the pending evaluations are   *)
(* rolled back, whatever the counter says.                                  *)
SkipRow(r) ==
  /\ evaluator = "working" /\ r \in todo
  /\ pending' = {} /\ skips' = skips + 1 /\ tail' = {}
  /\ todo' = todo \ {r}
  /\ UNCHANGED <<stored, labels, evaluated, writerVars, evaluator, done, persisted>>

(* Fault: there is no last commit.                                          *)
FinishUncommitted ==
  /\ evaluator = "working" /\ todo = {}
  /\ pending' = {} /\ evaluator' = "idle"
  /\ UNCHANGED <<stored, labels, evaluated, writerVars, todo, done, persisted, skips, tail>>

(* The last commit.                                                         *)
FinishRows ==
  /\ evaluator = "working" /\ todo = {} /\ Writable(pending)
  /\ evaluated' = evaluated \cup pending
  /\ persisted' = persisted + Cardinality(pending)
  /\ pending' = {} /\ evaluator' = "idle"
  /\ UNCHANGED <<stored, labels, writerVars, todo, done, skips, tail>>

(* A commit fails, a stored transaction makes no valid request, or the      *)
(* script dies.                                                             *)
EvaluatorFails ==
  /\ evaluator = "working" /\ evaluator' = "idle" /\ pending' = {} /\ tail' = {}
  /\ todo' = {} /\ done' = 0 /\ persisted' = 0 /\ skips' = 0
  /\ UNCHANGED <<stored, labels, evaluated, writerVars>>

ScriptsInit ==
  /\ stored = {} /\ labels = {} /\ evaluated = {}
  /\ writer = "idle" /\ written = {} /\ labelled = {} /\ datasets = 0
  /\ evaluator = "idle" /\ todo = {} /\ pending = {}
  /\ done = 0 /\ persisted = 0 /\ skips = 0 /\ tail = {}

WriterNext ==
  \/ ClearExisting \/ InsertParents \/ InsertTransactions \/ InsertLabels
  \/ CommitDataset \/ WriterFails

EvaluatorNext ==
  \/ SelectRows \/ FinishRows \/ EvaluatorFails
  \/ \E r \in todo : EvaluateRow(r) \/ SkipRow(r)

ScriptsNext == WriterNext \/ EvaluatorNext

ScriptsSpec == ScriptsInit /\ [][ScriptsNext]_scriptVars

(* Readers of the database never find a part of a dataset, nor a            *)
(* transaction of one without its label: it is there as a whole, or nothing *)
(* is, for a writer at work or one that failed (writer.py:24-87).           *)
DatasetWhole ==
  /\ stored \in {Dataset(g) : g \in 1..datasets} \cup {{}}
  /\ labels = stored
  /\ evaluated \subseteq stored

(* "persists the result" (evaluate_existing.py:5): each transaction that is *)
(* skipped costs at most Batch - 1 of the evaluations that were counted as  *)
(* done before it; all others are committed or still pending.               *)
LossBounded == done - persisted <= skips * (Batch - 1) + Cardinality(pending)

(* A script that has come to its end has committed what it evaluated after  *)
(* the last transaction it skipped, so far as that is still there.          *)
TailPersisted == evaluator = "idle" => tail \cap stored \subseteq evaluated

=============================================================================
