------------------------ MODULE DatasetScriptsProofs ------------------------
(***************************************************************************)
(* Proofs about the dataset scripts: what readers find in the database, and *)
(* how much of its work evaluate_existing can lose, for datasets and        *)
(* batches of every size; and what a finished evaluate_existing has saved.  *)
(***************************************************************************)
EXTENDS DatasetScripts, FiniteSetTheorems, TLAPS

(* Between its first delete and its commit the writer has an empty          *)
(* database before it, and every transaction of it has its label when it    *)
(* turns to the next batch.                                                 *)
WriterInv ==
  /\ datasets \in Nat
  /\ writer # "idle" => datasets >= 1 /\ stored = {}
  /\ writer \in {"parents", "transactions"} => labelled = written
  /\ DatasetWhole

THEOREM DatasetsStayWhole == ScriptsSpec => []DatasetWhole
<1> USE DEF Dataset
<1>1. ScriptsInit => WriterInv
  BY DEF ScriptsInit, WriterInv, DatasetWhole
<1>2. WriterInv /\ [ScriptsNext]_scriptVars => WriterInv'
  <2> SUFFICES ASSUME WriterInv, [ScriptsNext]_scriptVars PROVE WriterInv'
    OBVIOUS
  <2> USE DEF WriterInv, DatasetWhole
  <2>1. CASE ClearExisting
    BY <2>1 DEF ClearExisting
  <2>2. CASE InsertParents
    BY <2>2 DEF InsertParents
  <2>3. CASE InsertTransactions
    BY <2>3 DEF InsertTransactions
  <2>4. CASE InsertLabels
    BY <2>4 DEF InsertLabels
  <2>5. CASE CommitDataset
    BY <2>5 DEF CommitDataset
  <2>6. CASE WriterFails
    BY <2>6 DEF WriterFails
  <2>7. CASE SelectRows
    BY <2>7 DEF SelectRows, writerVars
  <2>8. ASSUME NEW r \in todo, EvaluateRow(r) PROVE WriterInv'
    BY <2>8 DEF EvaluateRow, Writable, writerVars
  <2>9. ASSUME NEW r \in todo, SkipRow(r) PROVE WriterInv'
    BY <2>9 DEF SkipRow, writerVars
  <2>10. CASE FinishRows
    BY <2>10 DEF FinishRows, Writable, writerVars
  <2>11. CASE EvaluatorFails
    BY <2>11 DEF EvaluatorFails, writerVars
  <2>12. CASE UNCHANGED scriptVars
    BY <2>12 DEF scriptVars, writerVars
  <2> QED
    BY <2>1, <2>2, <2>3, <2>4, <2>5, <2>6, <2>7, <2>8, <2>9, <2>10, <2>11, <2>12
    DEF ScriptsNext, WriterNext, EvaluatorNext
<1>3. WriterInv => DatasetWhole
  BY DEF WriterInv
<1> QED
  BY <1>1, <1>2, <1>3, PTL DEF ScriptsSpec

-----------------------------------------------------------------------------
(* The counter modulo Batch counts what can be pending.                     *)
LEMMA NextRemainder ==
  ASSUME NEW d \in Nat, NEW b \in Nat \ {0}
  PROVE  /\ d % b \in 0..b - 1
         /\ (d + 1) % b # 0 => (d + 1) % b = (d % b) + 1
  OBVIOUS

(* What is pending has been counted since the last commit.                  *)
EvaluatorInv ==
  /\ done \in Nat /\ persisted \in Nat /\ skips \in Nat
  /\ IsFiniteSet(pending) /\ todo \cap pending = {}
  /\ Cardinality(pending) <= done % Batch
  /\ LossBounded

LEMMA AddPending ==
  ASSUME EvaluatorInv, NEW r \in todo
  PROVE  /\ IsFiniteSet(pending \cup {r})
         /\ Cardinality(pending) \in Nat
         /\ Cardinality(pending \cup {r}) = Cardinality(pending) + 1
  BY FS_AddElement, FS_CardinalityType DEF EvaluatorInv

(* A skip is worth Batch - 1 evaluations.                                   *)
LEMMA OneMoreSkip ==
  ASSUME NEW s \in Nat, NEW b \in Nat \ {0}
  PROVE  (s + 1) * (b - 1) = s * (b - 1) + (b - 1) /\ s * (b - 1) \in Nat
  OBVIOUS

THEOREM LossStaysBounded == ScriptsSpec => []LossBounded
<1> USE ScriptsAssumption
<1>1. ScriptsInit => EvaluatorInv
  BY FS_EmptySet, NextRemainder, OneMoreSkip DEF ScriptsInit, EvaluatorInv, LossBounded
<1>2. EvaluatorInv /\ [ScriptsNext]_scriptVars => EvaluatorInv'
  <2> SUFFICES ASSUME EvaluatorInv, [ScriptsNext]_scriptVars PROVE EvaluatorInv'
    OBVIOUS
  <2>0. Cardinality(pending) \in Nat /\ skips * (Batch - 1) \in Nat
    BY FS_CardinalityType, OneMoreSkip DEF EvaluatorInv
  <2>1. CASE WriterNext
    BY <2>1 DEF WriterNext, ClearExisting, InsertParents, InsertTransactions, InsertLabels,
      CommitDataset, WriterFails, evaluatorVars, EvaluatorInv, LossBounded
  <2>2. CASE SelectRows
    BY <2>2, FS_EmptySet, NextRemainder, OneMoreSkip DEF SelectRows, EvaluatorInv, LossBounded
  <2>3. ASSUME NEW r \in todo, EvaluateRow(r) PROVE EvaluatorInv'
    <3>1. /\ done' = done + 1 /\ done' \in Nat /\ todo' = todo \ {r} /\ skips' = skips
          /\ IsFiniteSet(pending \cup {r})
          /\ Cardinality(pending \cup {r}) = Cardinality(pending) + 1
      BY <2>3, AddPending DEF EvaluateRow, EvaluatorInv
    <3>2. CASE (done + 1) % Batch # 0
      <4>1. pending' = pending \cup {r} /\ persisted' = persisted
        BY <2>3, <3>2 DEF EvaluateRow
      <4>2. Cardinality(pending') <= done' % Batch
        <5>1. done % Batch \in 0..Batch - 1 /\ (done + 1) % Batch = (done % Batch) + 1
          BY <3>2, NextRemainder DEF EvaluatorInv
        <5>2. Cardinality(pending) + 1 <= (done % Batch) + 1
          BY <2>0, <5>1 DEF EvaluatorInv
        <5> QED
          BY <3>1, <4>1, <5>1, <5>2
      <4>3. LossBounded'
        BY <2>0, <3>1, <4>1 DEF EvaluatorInv, LossBounded
      <4> QED
        BY <3>1, <4>1, <4>2, <4>3 DEF EvaluatorInv
    <3>3. CASE (done + 1) % Batch = 0
      <4>1. pending' = {} /\ persisted' = persisted + Cardinality(pending) + 1
        BY <2>0, <2>3, <3>1, <3>3 DEF EvaluateRow, EvaluatorInv
      <4>2. IsFiniteSet(pending') /\ Cardinality(pending') = 0
        BY <4>1, FS_EmptySet
      <4>3. LossBounded'
        BY <2>0, <3>1, <4>1, <4>2 DEF EvaluatorInv, LossBounded
      <4> QED
        BY <2>0, <3>1, <3>3, <4>1, <4>2, <4>3 DEF EvaluatorInv
    <3> QED
      BY <3>2, <3>3
  <2>4. ASSUME NEW r \in todo, SkipRow(r) PROVE EvaluatorInv'
    <3>1. /\ pending' = {} /\ skips' = skips + 1 /\ done' = done /\ persisted' = persisted
          /\ todo' = todo \ {r}
      BY <2>4 DEF SkipRow
    <3>2. IsFiniteSet(pending') /\ Cardinality(pending') = 0
      BY <3>1, FS_EmptySet
    <3>3. done % Batch \in 0..Batch - 1
      BY NextRemainder DEF EvaluatorInv
    <3>4. skips' * (Batch - 1) = skips * (Batch - 1) + (Batch - 1)
      BY <3>1, OneMoreSkip DEF EvaluatorInv
    <3>5. LossBounded'
      BY <2>0, <3>1, <3>2, <3>3, <3>4 DEF EvaluatorInv, LossBounded
    <3> QED
      BY <3>1, <3>2, <3>3, <3>5 DEF EvaluatorInv
  <2>5. CASE FinishRows
    <3>1. /\ pending' = {} /\ skips' = skips /\ done' = done
          /\ persisted' = persisted + Cardinality(pending) /\ todo' = todo
      BY <2>5 DEF FinishRows
    <3>2. IsFiniteSet(pending') /\ Cardinality(pending') = 0
      BY <3>1, FS_EmptySet
    <3>3. done % Batch \in 0..Batch - 1
      BY NextRemainder DEF EvaluatorInv
    <3>4. LossBounded'
      BY <2>0, <3>1, <3>2 DEF EvaluatorInv, LossBounded
    <3> QED
      BY <2>0, <3>1, <3>2, <3>3, <3>4 DEF EvaluatorInv
  <2>6. CASE EvaluatorFails
    BY <2>6, FS_EmptySet, NextRemainder, OneMoreSkip DEF EvaluatorFails, EvaluatorInv, LossBounded
  <2>7. CASE UNCHANGED scriptVars
    BY <2>7 DEF scriptVars, evaluatorVars, EvaluatorInv, LossBounded
  <2> QED
    BY <2>1, <2>2, <2>3, <2>4, <2>5, <2>6, <2>7 DEF ScriptsNext, EvaluatorNext
<1>3. EvaluatorInv => LossBounded
  BY DEF EvaluatorInv
<1> QED
  BY <1>1, <1>2, <1>3, PTL DEF ScriptsSpec

-----------------------------------------------------------------------------
(* Rows of the datasets that were begun up to the g-th.                     *)
RowsUpTo(g) == (1..g) \X (1..Rows)

(* What is stored or under evaluation belongs to datasets already begun; as *)
(* long as a writer is at work, the evaluator knows nothing of the dataset  *)
(* it writes.  So a row that was deleted never comes back, and a row that   *)
(* is stored and was evaluated since the last skip is pending or committed. *)
TailInv ==
  /\ datasets \in Nat
  /\ stored \cup todo \cup tail \subseteq RowsUpTo(datasets)
  /\ writer # "idle" =>
       datasets >= 1 /\ stored = {} /\ (todo \cup tail) \cap Dataset(datasets) = {}
  /\ written \subseteq Dataset(datasets)
  /\ tail \cap stored \subseteq evaluated \cup pending
  /\ evaluator = "idle" => pending = {}

(* A dataset that is begun is none of the earlier ones.                     *)
LEMMA FreshDataset ==
  ASSUME NEW g \in Nat
  PROVE  /\ RowsUpTo(g) \subseteq RowsUpTo(g + 1)
         /\ Dataset(g + 1) \subseteq RowsUpTo(g + 1)
         /\ RowsUpTo(g) \cap Dataset(g + 1) = {}
  BY DEF RowsUpTo, Dataset

LEMMA TailSteps == TailInv /\ [ScriptsNext]_scriptVars => TailInv'
<1> SUFFICES ASSUME TailInv, [ScriptsNext]_scriptVars PROVE TailInv'
  OBVIOUS
<1> USE DEF TailInv
<1>1. CASE ClearExisting
  <2>1. /\ datasets' = datasets + 1 /\ stored' = {} /\ written' = {}
        /\ UNCHANGED <<todo, tail, pending, evaluator>>
    BY <1>1 DEF ClearExisting, evaluatorVars
  <2> QED
    BY <2>1, FreshDataset
<1>2. CASE InsertParents
  BY <1>2 DEF InsertParents, evaluatorVars
<1>3. CASE InsertTransactions
  BY <1>3 DEF InsertTransactions, evaluatorVars, NextSlice, Slice, Dataset
<1>4. CASE InsertLabels
  BY <1>4 DEF InsertLabels, evaluatorVars
<1>5. CASE CommitDataset
  <2>1. /\ writer = "transactions" /\ writer' = "idle" /\ stored' = stored \cup Dataset(datasets)
        /\ written' = {} /\ UNCHANGED <<datasets, evaluated, todo, tail, pending, evaluator>>
    BY <1>5 DEF CommitDataset, evaluatorVars
  <2>2. Dataset(datasets) \subseteq RowsUpTo(datasets)
    BY <2>1 DEF Dataset, RowsUpTo
  <2>3. stored' = Dataset(datasets) /\ tail' \cap stored' = {}
    BY <2>1
  <2> QED
    BY <2>1, <2>2, <2>3
<1>6. CASE WriterFails
  BY <1>6 DEF WriterFails, evaluatorVars
<1>7. CASE SelectRows
  BY <1>7 DEF SelectRows, writerVars
<1>8. ASSUME NEW r \in todo, EvaluateRow(r) PROVE TailInv'
  <2>1. /\ UNCHANGED <<stored, writer, written, datasets, evaluator>> /\ evaluator = "working"
        /\ todo' = todo \ {r} /\ tail' = tail \cup {r}
        /\ \/ pending' = pending \cup {r} /\ evaluated' = evaluated
           \/ pending' = {} /\ evaluated' = evaluated \cup pending \cup {r}
    BY <1>8 DEF EvaluateRow, writerVars
  <2> QED
    BY <2>1
<1>9. ASSUME NEW r \in todo, SkipRow(r) PROVE TailInv'
  BY <1>9 DEF SkipRow, writerVars
<1>10. CASE FinishRows
  BY <1>10 DEF FinishRows, writerVars
<1>11. CASE EvaluatorFails
  BY <1>11 DEF EvaluatorFails, writerVars
<1>12. CASE UNCHANGED scriptVars
  BY <1>12 DEF scriptVars, writerVars, evaluatorVars
<1> QED
  BY <1>1, <1>2, <1>3, <1>4, <1>5, <1>6, <1>7, <1>8, <1>9, <1>10, <1>11, <1>12
  DEF ScriptsNext, WriterNext, EvaluatorNext

(* evaluate_existing.py:50-119: when the script has come to its end, the    *)
(* evaluations since the last transaction it skipped are committed, for     *)
(* rows that are still there, whatever generate_dataset did meanwhile.      *)
THEOREM TailIsPersisted == ScriptsSpec => []TailPersisted
<1>1. ScriptsInit => TailInv
  BY DEF ScriptsInit, TailInv
<1>2. TailInv => TailPersisted
  BY DEF TailInv, TailPersisted
<1> QED
  BY <1>1, <1>2, TailSteps, PTL DEF ScriptsSpec

=============================================================================
