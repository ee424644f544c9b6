----------------------- MODULE BigQueryAppend_proofs -----------------------
(***************************************************************************)
(* Proofs about the incremental append job, for every set of events,       *)
(* writers and executions and every value of the limits.                   *)
(*                                                                         *)
(* What holds whatever overlaps comes first (types, rows copied are        *)
(* committed rows).  The theorems after it assume OneJob, those about the  *)
(* order of rows that transactions commit in the order of their times too, *)
(* as they do when there is one writer: without OneJob the properties fail *)
(* as a violation run shows, without the order a late commit is passed by. *)
(***************************************************************************)
EXTENDS BigQueryAppend, FiniteSetTheorems, WellFoundedInduction, TLAPS

OneJob == \A i, j \in Jobs : i = j
OneWriter == \A v, w \in Writers : v = w

-----------------------------------------------------------------------------
\* Every variable keeps its type, in particular cursors and ingestion times
\* stay within the clock's range and tables count rows with naturals.
THEOREM TypeCorrect == Spec => []TypeOK
<1>1. Init => TypeOK
  BY BoundsAssumption DEF Init, TypeOK, Empty, Steps
<1>2. TypeOK /\ [Next]_vars => TypeOK'
  <2> SUFFICES ASSUME TypeOK, [Next]_vars PROVE TypeOK'
    OBVIOUS
  <2> USE BoundsAssumption DEF TypeOK, source, warehouse, locals
  <2>1. ASSUME NEW w \in Writers, NEW S \in SUBSET Events, BeginInsert(w, S)
        PROVE TypeOK'
    BY <2>1 DEF BeginInsert
  <2>2. ASSUME NEW w \in Writers, CommitInsert(w) PROVE TypeOK'
    BY <2>2 DEF CommitInsert
  <2>3. ASSUME NEW w \in Writers, RollbackInsert(w) PROVE TypeOK'
    BY <2>3 DEF RollbackInsert
  <2>4. ASSUME NEW j \in Jobs, ReadCursor(j) PROVE TypeOK'
    BY <2>4 DEF ReadCursor, Goto, Steps
  <2>5. ASSUME NEW j \in Jobs, ExportBatch(j) PROVE TypeOK'
    <3>1. FirstRows(cursor[j]) \subseteq Events
      BY DEF FirstRows, Candidates
    <3>2. QED
      BY <2>5, <3>1 DEF ExportBatch, Goto, Steps
  <2>6. ASSUME NEW j \in Jobs, ExportNothing(j) PROVE TypeOK'
    BY <2>6 DEF ExportNothing, Goto, Steps
  <2>7. ASSUME NEW j \in Jobs, TruncateBeforeLoad(j) PROVE TypeOK'
    BY <2>7 DEF TruncateBeforeLoad, Goto, Steps, Empty
  <2>8. ASSUME NEW j \in Jobs, LoadStaging(j) PROVE TypeOK'
    BY <2>8 DEF LoadStaging, Goto, Steps, Staged
  <2>9. ASSUME NEW j \in Jobs, LoadPartly(j) PROVE TypeOK'
    BY <2>9 DEF LoadPartly, Leave, Goto, Steps, Staged
  <2>10. ASSUME NEW j \in Jobs, MergeStaging(j) PROVE TypeOK'
    BY <2>10 DEF MergeStaging, Goto, Steps
  <2>11. ASSUME NEW j \in Jobs, CheckDuplicates(j) PROVE TypeOK'
    BY <2>11 DEF CheckDuplicates, Goto, Steps
  <2>12. ASSUME NEW j \in Jobs, TruncateAfterMerge(j) PROVE TypeOK'
    BY <2>12 DEF TruncateAfterMerge, Goto, Steps, Empty
  <2>13. ASSUME NEW j \in Jobs, ReturnSuccess(j) PROVE TypeOK'
    BY <2>13 DEF ReturnSuccess, Leave, Goto, Steps
  <2>14. ASSUME NEW j \in Jobs, RunFails(j) PROVE TypeOK'
    BY <2>14 DEF RunFails, Leave, Steps
  <2>15. CASE UNCHANGED vars
    BY <2>15 DEF vars
  <2>16. QED
    BY <2>1, <2>2, <2>3, <2>4, <2>5, <2>6, <2>7, <2>8, <2>9, <2>10, <2>11,
       <2>12, <2>13, <2>14, <2>15 DEF Next, WriterStep, JobStep
<1>3. QED
  BY <1>1, <1>2, PTL DEF Spec

-----------------------------------------------------------------------------
\* What is copied to BigQuery was committed in Cloud SQL, with any number of
\* executions and writers: a batch is taken from committed rows, which stay.
THEOREM CopiesOnlyCommitted == Spec => []OnlyCommittedRows
<1>1. Init => OnlyCommittedRows
  BY DEF Init, OnlyCommittedRows, Loaded, Empty
<1>2. TypeOK /\ OnlyCommittedRows /\ [Next]_vars => OnlyCommittedRows'
  <2> SUFFICES ASSUME TypeOK, OnlyCommittedRows, [Next]_vars
               PROVE  OnlyCommittedRows'
    OBVIOUS
  <2> USE DEF TypeOK, OnlyCommittedRows, Loaded, source, warehouse, locals
  <2>1. CASE WriterStep
    BY <2>1 DEF WriterStep, BeginInsert, CommitInsert, RollbackInsert
  <2>2. ASSUME NEW j \in Jobs, ExportBatch(j) PROVE OnlyCommittedRows'
    BY <2>2 DEF ExportBatch, FirstRows, Candidates
  <2>3. ASSUME NEW j \in Jobs, NEW S \in SUBSET batch[j],
               staging' = Staged(S)
        PROVE  {e \in Events : staging'[e] > 0} \subseteq bronze
    BY <2>3 DEF Staged
  <2>4. ASSUME NEW j \in Jobs, LoadStaging(j) PROVE OnlyCommittedRows'
    BY <2>3, <2>4 DEF LoadStaging
  <2>5. ASSUME NEW j \in Jobs, LoadPartly(j) PROVE OnlyCommittedRows'
    BY <2>3, <2>5 DEF LoadPartly, Leave
  <2>6. ASSUME NEW j \in Jobs, MergeStaging(j) PROVE OnlyCommittedRows'
    BY <2>6 DEF MergeStaging
  <2>7. ASSUME NEW j \in Jobs, TruncateBeforeLoad(j) \/ TruncateAfterMerge(j)
        PROVE  OnlyCommittedRows'
    BY <2>7 DEF TruncateBeforeLoad, TruncateAfterMerge, Empty
  <2>8. ASSUME NEW j \in Jobs,
               \/ ReadCursor(j) \/ ExportNothing(j) \/ CheckDuplicates(j)
               \/ ReturnSuccess(j) \/ RunFails(j)
        PROVE  OnlyCommittedRows'
    BY <2>8 DEF ReadCursor, ExportNothing, CheckDuplicates, ReturnSuccess,
                RunFails, Leave
  <2>9. CASE UNCHANGED vars
    BY <2>9 DEF vars
  <2>10. QED
    BY <2>1, <2>2, <2>4, <2>5, <2>6, <2>7, <2>8, <2>9 DEF Next, JobStep
<1>3. QED
  BY <1>1, <1>2, TypeCorrect, PTL DEF Spec

-----------------------------------------------------------------------------
(***************************************************************************)
(* With one execution at a time, the staging table is what its run made    *)
(* it: empty once truncated, one row per exported event once loaded, and   *)
(* in the target once merged.  Between runs it may hold anything.          *)
(***************************************************************************)
StagingOwned ==
    \A j \in Jobs :
        /\ pc[j] \in {"load", "return"} => staging = Empty
        /\ pc[j] = "merge" =>
              staging = [e \in Events |-> IF e \in batch[j] THEN 1 ELSE 0]
        /\ pc[j] \in {"check", "cleanup", "return"} => batch[j] \subseteq Loaded

SerialInv == StagingOwned /\ NoDuplicateIds

LEMMA SerialInvHolds == ASSUME OneJob PROVE Spec => []SerialInv
<1> USE DEF OneJob
<1>1. Init => SerialInv
  BY DEF Init, SerialInv, StagingOwned, NoDuplicateIds, Empty
<1>2. TypeOK /\ SerialInv /\ [Next]_vars => SerialInv'
  <2> SUFFICES ASSUME TypeOK, SerialInv, [Next]_vars PROVE SerialInv'
    OBVIOUS
  <2> USE DEF TypeOK, SerialInv, source, warehouse, locals
  <2>1. CASE WriterStep
    BY <2>1 DEF WriterStep, BeginInsert, CommitInsert, RollbackInsert,
                StagingOwned, NoDuplicateIds, Loaded
  <2>2. ASSUME NEW j \in Jobs,
               \/ ReadCursor(j) \/ ExportBatch(j) \/ ExportNothing(j)
               \/ ReturnSuccess(j) \/ RunFails(j)
        PROVE  SerialInv'
    BY <2>2 DEF ReadCursor, ExportBatch, ExportNothing, ReturnSuccess,
                RunFails, Leave, Goto, StagingOwned, NoDuplicateIds, Loaded
  <2>3. ASSUME NEW j \in Jobs, TruncateBeforeLoad(j) PROVE SerialInv'
    BY <2>3 DEF TruncateBeforeLoad, Goto, StagingOwned, NoDuplicateIds
  <2>4. ASSUME NEW j \in Jobs, LoadStaging(j) PROVE SerialInv'
    <3>1. staging' = [e \in Events |-> IF e \in batch[j] THEN 1 ELSE 0]
      BY <2>4 DEF LoadStaging, Goto, StagingOwned, Staged, Empty
    <3>2. QED
      BY <2>4, <3>1 DEF LoadStaging, Goto, StagingOwned, NoDuplicateIds
  <2>5. ASSUME NEW j \in Jobs, LoadPartly(j) PROVE SerialInv'
    BY <2>5 DEF LoadPartly, Leave, Goto, StagingOwned, NoDuplicateIds
  <2>6. ASSUME NEW j \in Jobs, MergeStaging(j) PROVE SerialInv'
    <3>1. staging = [e \in Events |-> IF e \in batch[j] THEN 1 ELSE 0]
      BY <2>6 DEF MergeStaging, Goto, StagingOwned
    <3>2. batch[j] \subseteq Loaded'
      BY <2>6, <3>1 DEF MergeStaging, Loaded
    <3>3. NoDuplicateIds'
      BY <2>6, <3>1 DEF MergeStaging, NoDuplicateIds
    <3>4. QED
      BY <2>6, <3>2, <3>3 DEF MergeStaging, Goto, StagingOwned
  <2>7. ASSUME NEW j \in Jobs, CheckDuplicates(j) PROVE SerialInv'
    BY <2>7 DEF CheckDuplicates, Goto, StagingOwned, NoDuplicateIds, Loaded
  <2>8. ASSUME NEW j \in Jobs, TruncateAfterMerge(j) PROVE SerialInv'
    BY <2>8 DEF TruncateAfterMerge, Goto, StagingOwned, NoDuplicateIds, Loaded
  <2>9. CASE UNCHANGED vars
    BY <2>9 DEF vars, StagingOwned, NoDuplicateIds, Loaded
  <2>10. QED
    BY <2>1, <2>2, <2>3, <2>4, <2>5, <2>6, <2>7, <2>8, <2>9
       DEF Next, JobStep
<1>3. QED
  BY <1>1, <1>2, TypeCorrect, PTL DEF Spec

\* No event_id gets a second row in the target, whatever runs fail and
\* wherever, as long as executions do not overlap.
THEOREM NoDuplicates == ASSUME OneJob PROVE Spec => []NoDuplicateIds
<1>1. SerialInv => NoDuplicateIds
  BY DEF SerialInv
<1>2. QED
  BY <1>1, SerialInvHolds, PTL

\* A run that does not overlap another one and exits with 0 has delivered its
\* batch and cleaned up.
THEOREM SuccessIsDelivery == ASSUME OneJob PROVE Spec => []SuccessMeansAppended
<1>1. SerialInv => SuccessMeansAppended
  BY DEF SerialInv, StagingOwned, SuccessMeansAppended
<1>2. QED
  BY <1>1, SerialInvHolds, PTL

-----------------------------------------------------------------------------
(***************************************************************************)
(* The export takes a lowest segment of its candidates, and with one       *)
(* writer the rows that commit later come later in the order.              *)
(***************************************************************************)

\* The order of the export is transitive, whatever the ids' order adds to it.
LEMMA PrecedesTransitive ==
    ASSUME TypeOK, NEW e \in Events, NEW f \in Events, NEW g \in Events,
           Precedes(e, f), Precedes(f, g)
    PROVE  Precedes(e, g)
BY EventsAssumption DEF Precedes, TypeOK

\* LIMIT cuts the ordered candidates: what precedes an exported candidate is
\* exported too.
LEMMA FirstRowsIsSegment ==
    ASSUME TypeOK, NEW c \in 0 .. MaxClock,
           NEW e \in FirstRows(c), NEW f \in Candidates(c), Precedes(f, e)
    PROVE  f \in FirstRows(c)
<1> DEFINE before(x) == {g \in Candidates(c) : Precedes(g, x)}
<1>1. /\ Candidates(c) \subseteq Events
      /\ e \in Candidates(c) /\ Cardinality(before(e)) < BatchLimit
  BY DEF Candidates, FirstRows, TypeOK
<1>2. before(f) \subseteq before(e)
  BY <1>1, PrecedesTransitive
<1>3. IsFiniteSet(before(e))
  <2>1. before(e) \subseteq Events
    BY <1>1
  <2>2. QED
    BY <2>1, EventsAssumption, FS_Subset
<1>4. /\ Cardinality(before(f)) <= Cardinality(before(e))
      /\ IsFiniteSet(before(f))
  BY <1>2, <1>3, FS_Subset
<1>5. Cardinality(before(f)) \in Nat /\ Cardinality(before(e)) \in Nat
  BY <1>3, <1>4, FS_CardinalityType
<1>6. Cardinality(before(f)) < BatchLimit
  <2> HIDE DEF before
  <2>1. QED
    BY <1>1, <1>4, <1>5, BoundsAssumption
<1>7. QED
  BY <1>6 DEF FirstRows

-----------------------------------------------------------------------------
(***************************************************************************)
(* What sets the order of the copy is the order in which transactions      *)
(* commit, not how many sessions there are.                                *)
(***************************************************************************)

\* Executions of the job only read bronze.
LEMMA JobLeavesSource == JobStep => UNCHANGED source
BY DEF JobStep, ReadCursor, ExportBatch, ExportNothing, TruncateBeforeLoad,
       LoadStaging, LoadPartly, MergeStaging, CheckDuplicates,
       TruncateAfterMerge, ReturnSuccess, RunFails, warehouse, locals

\* Rows that become visible in this step are later than those that are.
CommitsInOrder ==
    \A f \in bronze' \ bronze, e \in bronze : ingestedAt[e] < ingestedAt[f]

\* Open transactions are apart from each other and from the committed rows,
\* and each row has the time at which its transaction began.
TransactionsApart ==
    /\ \A e \in bronze : ingestedAt[e] > 0
    /\ \A w \in Writers : \A e \in inserting[w] :
          /\ e \notin bronze /\ ingestedAt[e] > 0
          /\ \A f \in inserting[w] : ingestedAt[f] = ingestedAt[e]
          /\ \A v \in Writers : e \in inserting[v] => v = w

LEMMA TransactionsApartHolds == Spec => []TransactionsApart
<1>1. Init => TransactionsApart
  BY DEF Init, TransactionsApart
<1>2. TypeOK /\ TransactionsApart /\ [Next]_vars => TransactionsApart'
  <2> SUFFICES ASSUME TypeOK, TransactionsApart, [Next]_vars
               PROVE  TransactionsApart'
    OBVIOUS
  <2> USE DEF TypeOK, TransactionsApart, source, warehouse, locals
  <2>1. CASE UNCHANGED source
    BY <2>1
  <2>2. ASSUME NEW w \in Writers, NEW S \in SUBSET Events, BeginInsert(w, S)
        PROVE  TransactionsApart'
    <3>1. /\ \A e \in bronze : e \notin S
          /\ \A v \in Writers : \A e \in inserting[v] : e \notin S
      BY <2>2 DEF BeginInsert, Present
    <3>2. QED
      BY <2>2, <3>1, BoundsAssumption DEF BeginInsert
  <2>3. ASSUME NEW w \in Writers, CommitInsert(w) PROVE TransactionsApart'
    BY <2>3 DEF CommitInsert
  <2>4. ASSUME NEW w \in Writers, RollbackInsert(w) PROVE TransactionsApart'
    BY <2>4 DEF RollbackInsert
  <2>5. QED
    BY <2>1, <2>2, <2>3, <2>4, JobLeavesSource DEF Next, WriterStep, vars
<1>3. QED
  BY <1>1, <1>2, TypeCorrect, PTL DEF Spec

\* Until its MERGE, a run's cursor is the target's, and its batch together
\* with the target has no gap.
RunIsCurrent ==
    \A j \in Jobs :
        /\ pc[j] \in {"export", "truncate", "load", "merge"}
              => IsCursor(cursor[j])
        /\ pc[j] \in {"truncate", "load", "merge"}
              => \A e \in batch[j] : \A f \in bronze :
                    Precedes(f, e) => f \in batch[j] \cup Loaded

OrderInv == RunIsCurrent /\ NoGaps

\* A writer's step leaves the order of committed rows alone, and a row that
\* comes after them all neither opens a gap nor makes a run's batch stale.
LEMMA WriterKeepsOrder ==
    ASSUME TypeOK, OnlyCommittedRows, TransactionsApart, OrderInv,
           WriterStep, CommitsInOrder
    PROVE  OrderInv'
<1> USE DEF TypeOK, OnlyCommittedRows, OrderInv, source, warehouse, locals
<1>1. /\ UNCHANGED <<staging, target, pc, cursor, batch>>
      /\ bronze \subseteq bronze'
      /\ \A f \in bronze : ingestedAt'[f] = ingestedAt[f]
      /\ bronze' # bronze => ingestedAt' = ingestedAt
  BY DEF WriterStep, BeginInsert, CommitInsert, RollbackInsert, Present,
         TransactionsApart
<1>2. \A f \in bronze' \ bronze, e \in bronze : ingestedAt'[e] < ingestedAt'[f]
  BY <1>1 DEF CommitsInOrder
<1>3. \A e \in bronze, f \in bronze' :
         Precedes(f, e)' => f \in bronze /\ Precedes(f, e)
  <2>1. bronze' \subseteq Events /\ ingestedAt' \in [Events -> 0 .. MaxClock]
    BY BoundsAssumption
       DEF WriterStep, BeginInsert, CommitInsert, RollbackInsert
  <2>2. QED
    BY <1>1, <1>2, <2>1, BoundsAssumption DEF Precedes
<1>4. Loaded' = Loaded /\ \A c \in 0 .. MaxClock : IsCursor(c) => IsCursor(c)'
  BY <1>1 DEF Loaded, IsCursor
<1>5. NoGaps'
  BY <1>1, <1>3, <1>4 DEF NoGaps
<1>6. RunIsCurrent'
  BY <1>1, <1>3, <1>4 DEF RunIsCurrent
<1>7. QED
  BY <1>5, <1>6

\* A run's steps keep the order: an export extends the target without a gap,
\* and its MERGE adds just that export.
LEMMA JobKeepsOrder ==
    ASSUME OneJob, TypeOK, OnlyCommittedRows, SerialInv, OrderInv, JobStep
    PROVE  OrderInv'
<1> USE DEF OneJob, TypeOK, OnlyCommittedRows, OrderInv, source, warehouse,
            locals
<1>1. UNCHANGED source
  BY JobLeavesSource
<1>2. ASSUME UNCHANGED target
      PROVE  /\ NoGaps' /\ Loaded' = Loaded
             /\ \A c : IsCursor(c)' <=> IsCursor(c)
             /\ \A e, f : Precedes(f, e)' <=> Precedes(f, e)
  BY <1>1, <1>2 DEF NoGaps, Loaded, IsCursor, Precedes
<1>3. ASSUME NEW j \in Jobs, ReadCursor(j) PROVE OrderInv'
  BY <1>2, <1>3 DEF ReadCursor, Goto, RunIsCurrent
<1>4. ASSUME NEW j \in Jobs, ExportBatch(j) PROVE OrderInv'
  <2> DEFINE c == cursor[j]
  <2>1. IsCursor(c) /\ FirstRows(c) \subseteq bronze
    BY <1>4 DEF ExportBatch, Goto, RunIsCurrent, FirstRows, Candidates
  <2>2. ASSUME NEW e \in FirstRows(c), NEW f \in bronze, Precedes(f, e)
        PROVE  f \in FirstRows(c) \cup Loaded
    <3>1. CASE ingestedAt[f] >= c
      BY <2>2, <3>1, FirstRowsIsSegment DEF Candidates
    <3>2. CASE ingestedAt[f] < c
      <4>1. PICK g \in Loaded : ingestedAt[g] = c
        BY <2>1, <3>2 DEF IsCursor
      <4>2. QED
        BY <3>2, <4>1 DEF NoGaps, Precedes
    <3>3. QED
      BY <3>1, <3>2
  <2>3. QED
    BY <1>1, <1>2, <1>4, <2>1, <2>2 DEF ExportBatch, Goto, RunIsCurrent
<1>5. ASSUME NEW j \in Jobs, MergeStaging(j) PROVE OrderInv'
  <2>1. staging = [e \in Events |-> IF e \in batch[j] THEN 1 ELSE 0]
    BY <1>5 DEF MergeStaging, Goto, SerialInv, StagingOwned
  <2>2. Loaded' = Loaded \cup batch[j]
    BY <1>5, <2>1 DEF MergeStaging, Loaded
  <2>3. NoGaps'
    BY <1>1, <1>5, <2>2
       DEF MergeStaging, Goto, RunIsCurrent, NoGaps, Precedes
  <2>4. RunIsCurrent'
    BY <1>5 DEF MergeStaging, Goto, RunIsCurrent
  <2>5. QED
    BY <2>3, <2>4
<1>6. ASSUME NEW j \in Jobs,
             \/ ExportNothing(j) \/ TruncateBeforeLoad(j) \/ LoadStaging(j)
             \/ LoadPartly(j) \/ CheckDuplicates(j) \/ TruncateAfterMerge(j)
             \/ ReturnSuccess(j) \/ RunFails(j)
      PROVE  OrderInv'
  BY <1>1, <1>2, <1>6
     DEF ExportNothing, TruncateBeforeLoad, LoadStaging, LoadPartly,
         CheckDuplicates, TruncateAfterMerge, ReturnSuccess, RunFails, Leave,
         Goto, RunIsCurrent
<1>7. QED
  BY <1>3, <1>4, <1>5, <1>6 DEF JobStep

\* The same for any step: this is what keeps NoGaps, and what a system that
\* the job runs in has to provide.
LEMMA OrderIsKept ==
    ASSUME OneJob, TypeOK, OnlyCommittedRows, SerialInv, TransactionsApart,
           OrderInv, [Next]_vars, CommitsInOrder
    PROVE  OrderInv'
<1>1. CASE UNCHANGED vars
  BY <1>1 DEF vars, source, warehouse, locals, OrderInv, RunIsCurrent, NoGaps,
              Loaded, IsCursor, Precedes
<1>2. QED
  BY <1>1, WriterKeepsOrder, JobKeepsOrder DEF Next

LEMMA OrderInvInit == Init => OrderInv
BY DEF Init, OrderInv, RunIsCurrent, NoGaps, Loaded, Empty

LEMMA OrderInvHolds ==
    ASSUME OneJob PROVE Spec /\ [][CommitsInOrder]_vars => []OrderInv
<1>1. /\ TypeOK /\ OnlyCommittedRows /\ SerialInv /\ TransactionsApart
      /\ OrderInv /\ [Next]_vars /\ [CommitsInOrder]_vars
      => OrderInv'
  <2>1. UNCHANGED vars => CommitsInOrder
    BY DEF vars, source, CommitsInOrder
  <2>2. QED
    BY <2>1, OrderIsKept
<1>2. QED
  BY <1>1, OrderInvInit, TypeCorrect, CopiesOnlyCommitted, SerialInvHolds,
     TransactionsApartHolds, PTL DEF Spec

\* With any number of sessions: while transactions become visible in the order
\* of their ingested_at, and executions do not overlap, the cursor never
\* passes a committed row that the target does not have.
THEOREM CommitOrderLeavesNoGap ==
    ASSUME OneJob PROVE Spec /\ [][CommitsInOrder]_vars => []NoGaps
<1>1. OrderInv => NoGaps
  BY DEF OrderInv
<1>2. QED
  BY <1>1, OrderInvHolds, PTL

\* Rows of an open transaction come after every committed row.
OpenRowsAreLast ==
    /\ \A f \in bronze : ingestedAt[f] <= clock
    /\ \A w \in Writers : \A e \in inserting[w] :
          /\ ingestedAt[e] <= clock
          /\ \A f \in bronze : ingestedAt[f] < ingestedAt[e]

\* A single session commits in the order of ingested_at.
LEMMA OneWriterCommitsInOrder ==
    ASSUME OneWriter PROVE Spec => [][CommitsInOrder]_vars
<1> USE DEF OneWriter
<1>1. Init => OpenRowsAreLast
  BY DEF Init, OpenRowsAreLast
<1>2. /\ TypeOK /\ TransactionsApart /\ OpenRowsAreLast /\ [Next]_vars
      => OpenRowsAreLast' /\ CommitsInOrder
  <2> SUFFICES ASSUME TypeOK, TransactionsApart, OpenRowsAreLast, [Next]_vars
               PROVE  OpenRowsAreLast' /\ CommitsInOrder
    OBVIOUS
  <2> USE DEF TypeOK, source, warehouse, locals, CommitsInOrder
  <2>1. CASE UNCHANGED source
    BY <2>1 DEF OpenRowsAreLast
  <2>2. ASSUME NEW w \in Writers, NEW S \in SUBSET Events, BeginInsert(w, S)
        PROVE  OpenRowsAreLast' /\ CommitsInOrder
    BY <2>2, BoundsAssumption DEF BeginInsert, Present, OpenRowsAreLast
  <2>3. ASSUME NEW w \in Writers, CommitInsert(w)
        PROVE  OpenRowsAreLast' /\ CommitsInOrder
    BY <2>3 DEF CommitInsert, OpenRowsAreLast
  <2>4. ASSUME NEW w \in Writers, RollbackInsert(w)
        PROVE  OpenRowsAreLast' /\ CommitsInOrder
    BY <2>4 DEF RollbackInsert, OpenRowsAreLast, TransactionsApart
  <2>5. QED
    BY <2>1, <2>2, <2>3, <2>4, JobLeavesSource DEF Next, WriterStep, vars
<1>3. QED
  BY <1>1, <1>2, TypeCorrect, TransactionsApartHolds, PTL DEF Spec

\* With one writer and executions that do not overlap, the cursor never
\* passes a committed row that the target does not have.
THEOREM NothingLeftBehind ==
    ASSUME OneJob, OneWriter PROVE Spec => []NoGaps
BY OneWriterCommitsInOrder, CommitOrderLeavesNoGap, PTL

-----------------------------------------------------------------------------
(***************************************************************************)
(* The job implements OrderedAppend: a commit is its Ingest, a MERGE its   *)
(* AppendNext, and every other step a stuttering step.                     *)
(***************************************************************************)

\* The source rows as the abstract log sees them.
LogRows == [e \in bronze |-> ingestedAt[e]]

\* Rows that become visible in order are an Ingest, and a run's MERGE adds the
\* next rows.
LEMMA StepOfLog ==
    ASSUME TypeOK, OnlyCommittedRows, SerialInv, OrderInv, OrderInv',
           TransactionsApart, [Next]_vars, CommitsInOrder
    PROVE  Log!ANext \/ UNCHANGED <<LogRows, Loaded>>
<1> USE DEF TypeOK, OnlyCommittedRows, source, warehouse, locals
<1>1. ASSUME NEW w \in Writers, CommitInsert(w) PROVE Log!Ingest
  <2> DEFINE S == inserting[w]
  <2>1. PICK x \in S : TRUE
    BY <1>1 DEF CommitInsert
  <2>2. /\ ingestedAt[x] \in 1 .. MaxClock
        /\ \A e \in S : ingestedAt[e] = ingestedAt[x]
    BY <2>1, BoundsAssumption DEF TransactionsApart
  <2>3. S \in SUBSET (Events \ bronze)
    BY DEF TransactionsApart
  <2>4. \A f \in bronze : ingestedAt[f] < ingestedAt[x]
    <3>1. x \in bronze' \ bronze
      BY <1>1, <2>1, <2>3 DEF CommitInsert
    <3>2. QED
      BY <3>1 DEF CommitsInOrder
  <2>5. UNCHANGED Loaded
    BY <1>1 DEF CommitInsert, Loaded
  <2>6. LogRows' = [e \in bronze \cup S |->
                      IF e \in S THEN ingestedAt[x] ELSE LogRows[e]]
    BY <1>1, <2>2 DEF CommitInsert, LogRows
  <2>7. QED
    BY <2>2, <2>3, <2>4, <2>5, <2>6 DEF Log!Ingest, LogRows
<1>2. ASSUME NEW w \in Writers, NEW S \in SUBSET Events, BeginInsert(w, S)
      PROVE  UNCHANGED <<LogRows, Loaded>>
  BY <1>2 DEF BeginInsert, Present, LogRows, Loaded
<1>3. ASSUME NEW w \in Writers, RollbackInsert(w)
      PROVE  UNCHANGED <<LogRows, Loaded>>
  BY <1>3 DEF RollbackInsert, TransactionsApart, LogRows, Loaded
<1>4. ASSUME NEW j \in Jobs, MergeStaging(j) PROVE Log!AppendNext
  <2>1. staging = [e \in Events |-> IF e \in batch[j] THEN 1 ELSE 0]
    BY <1>4 DEF MergeStaging, Goto, SerialInv, StagingOwned
  <2>2. Loaded' = Loaded \cup (batch[j] \ Loaded)
    BY <1>4, <2>1 DEF MergeStaging, Loaded
  <2>3. UNCHANGED <<bronze, ingestedAt>>
    BY <1>4 DEF MergeStaging
  <2>4. \A e \in Loaded' : \A f \in bronze :
           Log!Older(LogRows, f, e) => f \in Loaded'
    <3>1. Loaded' \subseteq bronze
      BY <2>2
    <3>2. \A e, f \in bronze : Log!Older(LogRows, f, e) => Precedes(f, e)'
      BY <2>3 DEF Log!Older, LogRows, Precedes
    <3>3. QED
      BY <2>3, <3>1, <3>2 DEF OrderInv, NoGaps
  <2>5. Log!NoHole(LogRows, Loaded')
    BY <2>4 DEF Log!NoHole, LogRows
  <2>6. QED
    BY <2>2, <2>3, <2>5 DEF Log!AppendNext, LogRows
<1>5. ASSUME NEW j \in Jobs,
             \/ ReadCursor(j) \/ ExportBatch(j) \/ ExportNothing(j)
             \/ TruncateBeforeLoad(j) \/ LoadStaging(j) \/ LoadPartly(j)
             \/ CheckDuplicates(j) \/ TruncateAfterMerge(j)
             \/ ReturnSuccess(j) \/ RunFails(j)
      PROVE  UNCHANGED <<LogRows, Loaded>>
  BY <1>5 DEF ReadCursor, ExportBatch, ExportNothing, TruncateBeforeLoad,
     LoadStaging, LoadPartly, CheckDuplicates, TruncateAfterMerge,
     ReturnSuccess, RunFails, LogRows, Loaded
<1>6. CASE UNCHANGED vars
  BY <1>6 DEF vars, LogRows, Loaded
<1>7. QED
  BY <1>1, <1>2, <1>3, <1>4, <1>5, <1>6
     DEF Next, WriterStep, JobStep, Log!ANext

LEMMA StartOfLog == Init => Log!AInit
BY DEF Init, Log!AInit, Loaded, Empty

\* While transactions become visible in the order of ingested_at and executions
\* do not overlap, the target holds at every moment the oldest rows of the
\* source without a gap, each step adding the next ones: the abstract ordered
\* log.
THEOREM CommitOrderImplementsLog ==
    ASSUME OneJob
    PROVE  Spec /\ [][CommitsInOrder]_vars => ImplementsOrderedAppend
<1>1. /\ TypeOK /\ OnlyCommittedRows /\ SerialInv
      /\ OrderInv /\ OrderInv' /\ TransactionsApart
      /\ [Next]_vars /\ [CommitsInOrder]_vars
      => [Log!ANext]_<<LogRows, Loaded>>
  <2>1. UNCHANGED vars => CommitsInOrder
    BY DEF vars, source, CommitsInOrder
  <2>2. QED
    BY <2>1, StepOfLog
<1>2. QED
  BY <1>1, StartOfLog, TypeCorrect, CopiesOnlyCommitted, SerialInvHolds,
     OrderInvHolds, TransactionsApartHolds, PTL
     DEF Spec, ImplementsOrderedAppend, Log!ASpec, Log!avars, LogRows

\* With one writer and executions that do not overlap, the job implements the
\* ordered log.
THEOREM ImplementsLog ==
    ASSUME OneJob, OneWriter PROVE Spec => ImplementsOrderedAppend
BY OneWriterCommitsInOrder, CommitOrderImplementsLog, PTL

-----------------------------------------------------------------------------
(***************************************************************************)
(* Progress, as far as one step shows it: when a transaction is smaller    *)
(* than the batch limit, the rows that the inclusive cursor selects again  *)
(* cannot fill a batch.                                                    *)
(***************************************************************************)
SmallTransactions == MaxTxnRows < BatchLimit

AtTime(t) == {e \in Events : ingestedAt[e] = t}

\* Fewer rows at a time do not exceed a bound that more of them kept.
LEMMA FewerAtTime ==
    ASSUME NEW t, NEW T, T \subseteq AtTime(t),
           Cardinality(AtTime(t)) <= MaxTxnRows
    PROVE  Cardinality(T) <= MaxTxnRows
<1>1. IsFiniteSet(AtTime(t))
  <2>1. AtTime(t) \subseteq Events
    BY DEF AtTime
  <2>2. QED
    BY <2>1, EventsAssumption, FS_Subset
<1>2. /\ Cardinality(T) <= Cardinality(AtTime(t))
      /\ IsFiniteSet(T)
  BY <1>1, FS_Subset
<1>3. Cardinality(T) \in Nat /\ Cardinality(AtTime(t)) \in Nat
  BY <1>1, <1>2, FS_CardinalityType
<1>4. QED
  BY <1>2, <1>3, BoundsAssumption

\* Each value of the clock belongs to one transaction, so no more rows than
\* a transaction has share it.
FewRowsPerTime ==
    /\ \A e \in Events : ingestedAt[e] <= clock
    /\ \A t \in 1 .. MaxClock : Cardinality(AtTime(t)) <= MaxTxnRows

LEMMA FewRowsPerTimeHolds == Spec => []FewRowsPerTime
<1>1. Init => FewRowsPerTime
  <2> SUFFICES ASSUME Init, NEW t \in 1 .. MaxClock
               PROVE  Cardinality(AtTime(t)) <= MaxTxnRows
    BY DEF FewRowsPerTime, Init, Empty
  <2>1. AtTime(t) = {}
    BY BoundsAssumption DEF AtTime, Init, Empty
  <2>2. QED
    BY <2>1, FS_EmptySet, BoundsAssumption
<1>2. TypeOK /\ FewRowsPerTime /\ [Next]_vars => FewRowsPerTime'
  <2> SUFFICES ASSUME TypeOK, FewRowsPerTime, [Next]_vars
               PROVE  FewRowsPerTime'
    OBVIOUS
  <2> USE DEF TypeOK, source, warehouse, locals
  <2>1. CASE UNCHANGED source
    BY <2>1 DEF FewRowsPerTime, AtTime
  <2>2. ASSUME NEW w \in Writers, NEW S \in SUBSET Events, BeginInsert(w, S)
        PROVE  FewRowsPerTime'
    <3>1. \A e \in Events : ingestedAt'[e] <= clock'
      BY <2>2, BoundsAssumption DEF BeginInsert, FewRowsPerTime
    <3>2. ASSUME NEW t \in 1 .. MaxClock
          PROVE  Cardinality(AtTime(t)') <= MaxTxnRows
      <4>1. CASE t = clock + 1
        <5>1. AtTime(t)' = S
          BY <2>2, <4>1, BoundsAssumption
             DEF BeginInsert, AtTime, FewRowsPerTime
        <5>2. QED
          BY <2>2, <5>1 DEF BeginInsert
      <4>2. CASE t # clock + 1
        <5>1. AtTime(t)' \subseteq AtTime(t)
          BY <2>2, <4>2, BoundsAssumption DEF BeginInsert, AtTime
        <5>2. QED
          BY <5>1, FewerAtTime DEF FewRowsPerTime
      <4>3. QED
        BY <4>1, <4>2
    <3>3. QED
      BY <3>1, <3>2 DEF FewRowsPerTime
  <2>3. ASSUME NEW w \in Writers, CommitInsert(w) PROVE FewRowsPerTime'
    BY <2>3 DEF CommitInsert, FewRowsPerTime, AtTime
  <2>4. ASSUME NEW w \in Writers, RollbackInsert(w) PROVE FewRowsPerTime'
    <3>1. \A e \in Events : ingestedAt'[e] <= clock'
      BY <2>4, BoundsAssumption DEF RollbackInsert, FewRowsPerTime
    <3>2. ASSUME NEW t \in 1 .. MaxClock
          PROVE  Cardinality(AtTime(t)') <= MaxTxnRows
      <4>1. AtTime(t)' \subseteq AtTime(t)
        BY <2>4, BoundsAssumption DEF RollbackInsert, AtTime
      <4>2. QED
        BY <4>1, FewerAtTime DEF FewRowsPerTime
    <3>3. QED
      BY <3>1, <3>2 DEF FewRowsPerTime
  <2>5. QED
    BY <2>1, <2>2, <2>3, <2>4, JobLeavesSource DEF Next, WriterStep, vars
<1>3. QED
  BY <1>1, <1>2, TypeCorrect, PTL DEF Spec

\* Transactions of one row never share a time.
LEMMA OneRowPerTime ==
    ASSUME TypeOK, FewRowsPerTime, MaxTxnRows = 1,
           NEW e \in Events, NEW f \in Events,
           ingestedAt[e] = ingestedAt[f], ingestedAt[e] > 0
    PROVE  e = f
<1>1. ingestedAt[e] \in 1 .. MaxClock
  BY BoundsAssumption DEF TypeOK
<1>2. {e, f} \subseteq AtTime(ingestedAt[e])
  BY DEF AtTime
<1>3. Cardinality({e, f}) <= 1
  BY <1>1, <1>2, FewerAtTime DEF FewRowsPerTime
<1>4. IsFiniteSet({e, f})
  BY EventsAssumption, FS_Subset
<1>5. Cardinality({e, f}) \in Nat /\ Cardinality({e, f}) # 0
  BY <1>4, FS_CardinalityType, FS_EmptySet
<1>6. Cardinality({e, f}) = 1
  BY <1>3, <1>5
<1>7. PICK x : {e, f} = {x}
  BY <1>4, <1>6, FS_Singleton
<1>8. QED
  BY <1>7

\* Among rows that wait there is a first one in the order of the export.
LEMMA FirstWaiting ==
    ASSUME TypeOK, NEW T \in SUBSET Events, T # {}
    PROVE  \E r \in T : \A f \in T : ~Precedes(f, r)
<1> DEFINE before(x) == {g \in Events : Precedes(g, x)}
           B == {before(x) : x \in T}
<1>1. B \subseteq FiniteSubsetsOf(Events) /\ B # {}
  <2>1. SUBSET Events = FiniteSubsetsOf(Events)
    BY EventsAssumption, FS_FiniteSubsetsOfFinite
  <2>2. B \subseteq SUBSET Events
    OBVIOUS
  <2>3. PICK x \in T : TRUE
    OBVIOUS
  <2>4. before(x) \in B
    BY <2>3
  <2>5. QED
    BY <2>1, <2>2, <2>4
<1>2. PICK b \in B : \A y \in B : <<y, b>> \notin StrictSubsetOrdering(Events)
  <2> HIDE DEF B
  <2>1. QED
    BY <1>1, FS_StrictSubsetOrderingWellFounded, WFMin
<1>3. PICK r \in T : b = before(r)
  BY <1>2
<1>4. ASSUME NEW f \in T, Precedes(f, r) PROVE FALSE
  <2>1. before(f) \subseteq before(r)
    BY <1>4, PrecedesTransitive
  <2>2. f \in before(r) /\ f \notin before(f)
    BY <1>4, EventsAssumption DEF Precedes, TypeOK
  <2>3. <<before(f), before(r)>> \in StrictSubsetOrdering(Events)
    BY <2>1, <2>2 DEF StrictSubsetOrdering
  <2>4. QED
    BY <1>2, <1>3, <2>3
<1>5. QED
  BY <1>4

\* An export that brings nothing new has found the target complete.
LEMMA NothingNewIsComplete ==
    ASSUME SmallTransactions, TypeOK, OnlyCommittedRows, TransactionsApart,
           OrderInv, FewRowsPerTime,
           NEW j \in Jobs, ExportBatch(j) \/ ExportNothing(j),
           FirstRows(cursor[j]) \subseteq Loaded
    PROVE  bronze \subseteq Loaded
<1> SUFFICES ASSUME ~(bronze \subseteq Loaded) PROVE FALSE
  OBVIOUS
<1> DEFINE c == cursor[j]
<1>1. c \in 0 .. MaxClock /\ IsCursor(c)
  BY DEF OrderInv, RunIsCurrent, ExportBatch, ExportNothing, Goto, TypeOK
<1>2. PICK r \in bronze \ Loaded :
              \A f \in bronze \ Loaded : ~Precedes(f, r)
  <2>1. bronze \ Loaded \in SUBSET Events /\ bronze \ Loaded # {}
    BY DEF TypeOK
  <2>2. QED
    BY <2>1, FirstWaiting
<1> DEFINE before == {f \in Candidates(c) : Precedes(f, r)}
<1>3. \A f \in Loaded : f \in Events /\ f \in bronze /\ Precedes(f, r)
  <2>1. Loaded \subseteq bronze /\ bronze \subseteq Events
    BY DEF OnlyCommittedRows, TypeOK
  <2>2. \A f \in Loaded : ~Precedes(r, f)
    BY <1>2 DEF OrderInv, NoGaps
  <2>3. QED
    BY <1>2, <2>1, <2>2, EventsAssumption DEF Precedes, TypeOK
<1>4. r \in Candidates(c)
  BY <1>1, <1>2, <1>3, BoundsAssumption
     DEF IsCursor, Candidates, Precedes, TypeOK
<1>5. ~(Cardinality(before) < BatchLimit)
  BY <1>2, <1>4 DEF FirstRows
<1>6. before \subseteq AtTime(c) /\ (c = 0 => before = {})
  <2>1. ASSUME NEW f \in before PROVE f \in AtTime(c) /\ c # 0
    <3>1. f \in Loaded /\ f \in Events
      BY <1>2 DEF Candidates, TypeOK
    <3>2. ingestedAt[f] <= c /\ ingestedAt[f] >= c
      BY <1>1, <3>1 DEF IsCursor, Candidates
    <3>3. ingestedAt[f] > 0 /\ ingestedAt[f] \in 0 .. MaxClock
      BY <1>3, <3>1 DEF TransactionsApart, TypeOK
    <3>4. QED
      BY <1>1, <3>1, <3>2, <3>3, BoundsAssumption DEF AtTime
  <2>2. QED
    BY <2>1
<1>7. Cardinality(before) <= MaxTxnRows
  <2> HIDE DEF before, c
  <2>1. CASE c = 0
    BY <1>6, <2>1, FS_EmptySet, BoundsAssumption
  <2>2. CASE c # 0
    <3>1. c \in 1 .. MaxClock
      BY <1>1, <2>2, BoundsAssumption
    <3>2. Cardinality(AtTime(c)) <= MaxTxnRows
      BY <3>1 DEF FewRowsPerTime
    <3>3. QED
      BY <1>6, <3>2, FewerAtTime
  <2>3. QED
    BY <2>1, <2>2
<1>8. Cardinality(before) \in Nat
  <2>1. before \subseteq Events
    BY DEF Candidates, TypeOK
  <2>2. QED
    BY <2>1, EventsAssumption, FS_Subset, FS_CardinalityType
<1>9. QED
  <2> HIDE DEF before
  <2>1. QED
    BY <1>5, <1>7, <1>8, BoundsAssumption DEF SmallTransactions

\* While transactions become visible in the order of ingested_at, executions do
\* not overlap and transactions are smaller than the batch limit, a run that
\* exports no new row has found the target complete: runs that succeed for ever
\* get on.
THEOREM CommitOrderCatchesUp ==
    ASSUME OneJob, SmallTransactions
    PROVE  Spec /\ [][CommitsInOrder]_vars => NoNewRowsMeansCaughtUp
<1>1. /\ TypeOK /\ OnlyCommittedRows /\ TransactionsApart /\ OrderInv
      /\ FewRowsPerTime
      => \A j \in Jobs : /\ ExportBatch(j) \/ ExportNothing(j)
                         /\ FirstRows(cursor[j]) \subseteq Loaded
                         => bronze \subseteq Loaded
  BY NothingNewIsComplete
<1>2. QED
  BY <1>1, TypeCorrect, CopiesOnlyCommitted, OrderInvHolds,
     TransactionsApartHolds, FewRowsPerTimeHolds, PTL
     DEF NoNewRowsMeansCaughtUp

\* With one writer, executions that do not overlap and transactions smaller
\* than the batch limit, the same.
THEOREM NoNewRowsIsCaughtUp ==
    ASSUME OneJob, OneWriter, SmallTransactions
    PROVE  Spec => NoNewRowsMeansCaughtUp
BY OneWriterCommitsInOrder, CommitOrderCatchesUp, PTL

=============================================================================
