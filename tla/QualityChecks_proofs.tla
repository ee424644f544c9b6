----------------------- MODULE QualityChecks_proofs -----------------------
(***************************************************************************)
(* Proofs about the quality checks, for any number of events, executions   *)
(* of the append job that overlap in any way, and inserting sessions.      *)
(***************************************************************************)
EXTENDS QualityChecks, BigQueryAppend_proofs

Rows == Cardinality(RowsOf(target))

\* A report under way that has failed no check yet has still to come to the
\* one that finds the flaw there was at its start.
FlawAhead ==
    /\ step = 0 => failed = 0 /\ ~flawed
    /\ flawed /\ failed = 0 =>
        \/ step \in 1 .. 2 /\ Duplicated # {}
        \/ step \in 1 .. 3 /\ Loaded \cap OtherTypes # {}

\* No figure is ahead of the table, and the report's is not behind the last.
CountsInOrder ==
    /\ gauges.rows <= Rows
    /\ rowCount <= Rows
    /\ step = LastCheck + 1 => gauges.rows <= rowCount

\* Rows in the staging table are those of a run at work or of a failed one.
StagingExplained == staging # Empty => AtWork \/ leftover

QualityInv ==
    /\ TypeOK
    /\ QualityTypeOK
    /\ step > 0 => failed < step
    /\ FlawAhead
    /\ CountsInOrder
    /\ StagingExplained

-----------------------------------------------------------------------------
LEMMA CheckFacts ==
    /\ LastCheck = 6
    /\ Checks[2] = "event_id_unique"
    /\ Checks[3] = "event_type_accepted_values"
    /\ Checks[6] = "row_count_minimum"
    /\ \A i \in 1 .. 6 : Checks[i] = "row_count_minimum" => i = 6
BY DEF LastCheck, Checks

LEMMA ZeroInRange == 0 \in Nat /\ 0 \in 0 .. LastCheck /\ 0 \in 0 .. LastCheck + 1
BY CheckFacts

\* The checks leave the store alone.
LEMMA QualityStepIsStoreStep == [QualityNext]_allVars => [Next]_vars
BY DEF QualityNext, StoreStep, StartChecks, RunCheck, ChecksRaise, PushReport,
       PushFails, EndChecks, allVars

LEMMA StoreBelow == QualitySpec => Spec
BY QualityStepIsStoreStep, PTL DEF QualitySpec, Spec

LEMMA RowsFinite ==
    ASSUME NEW t \in [Events -> Nat]
    PROVE  IsFiniteSet(RowsOf(t)) /\ Cardinality(RowsOf(t)) \in Nat
<1> DEFINE parts == {{e} \X (1 .. t[e]) : e \in Events}
<1>1. \A p \in parts : IsFiniteSet(p)
  <2>1. SUFFICES ASSUME NEW e \in Events PROVE IsFiniteSet({e} \X (1 .. t[e]))
    OBVIOUS
  <2>2. IsFiniteSet({e})
    BY FS_Singleton
  <2>3. 1 \in Int /\ t[e] \in Int
    OBVIOUS
  <2>4. IsFiniteSet(1 .. t[e])
    BY <2>3, FS_Interval
  <2>5. QED
    BY <2>2, <2>4, FS_Product
<1>2. IsFiniteSet(parts)
  <2> DEFINE f == [e \in Events |-> {e} \X (1 .. t[e])]
  <2>1. f \in [Events -> parts]
    OBVIOUS
  <2>2. \A p \in parts : \E e \in Events : f[e] = p
    OBVIOUS
  <2>3. f \in Surjection(Events, parts)
    BY <2>1, <2>2, Zenon DEF Surjection
  <2>4. QED
    BY <2>3, EventsAssumption, FS_Surjection
<1>3. IsFiniteSet(RowsOf(t))
  <2> HIDE DEF parts
  <2>1. IsFiniteSet(UNION parts)
    BY <1>1, <1>2, FS_UNION
  <2>2. QED
    BY <2>1 DEF RowsOf, parts
<1>4. QED
  BY <1>3, FS_CardinalityType

\* Whatever the store does, no row leaves the target.
LEMMA TargetGrows ==
    ASSUME TypeOK, TypeOK', [Next]_vars
    PROVE  /\ \A e \in Events : target[e] <= target'[e]
           /\ Rows \in Nat /\ Rows' \in Nat /\ Rows <= Rows'
           /\ Duplicated \subseteq Duplicated' /\ Loaded \subseteq Loaded'
<1>1. \A e \in Events : target[e] <= target'[e]
  <2>1. ASSUME NEW j \in Jobs, MergeStaging(j)
        PROVE  \A e \in Events : target[e] <= target'[e]
    BY <2>1 DEF MergeStaging, TypeOK
  <2>2. CASE target' = target
    BY <2>2 DEF TypeOK
  <2>3. QED
    BY <2>1, <2>2 DEF Next, WriterStep, JobStep, BeginInsert, CommitInsert,
       RollbackInsert, ReadCursor, ExportBatch, ExportNothing,
       TruncateBeforeLoad, LoadStaging, LoadPartly, CheckDuplicates,
       TruncateAfterMerge, ReturnSuccess, RunFails, vars, source, warehouse,
       locals
<1>2. target \in [Events -> Nat] /\ target' \in [Events -> Nat]
  BY DEF TypeOK
<1>3. RowsOf(target) \subseteq RowsOf(target')
  <2>1. \A e \in Events : 1 .. target[e] \subseteq 1 .. target'[e]
    BY <1>1, <1>2
  <2>2. QED
    BY <2>1 DEF RowsOf
<1>4. Cardinality(RowsOf(target)) <= Cardinality(RowsOf(target'))
  BY <1>2, <1>3, RowsFinite, FS_Subset
<1>5. Duplicated \subseteq Duplicated' /\ Loaded \subseteq Loaded'
  BY <1>1, <1>2 DEF Duplicated, Loaded
<1>6. QED
  BY <1>1, <1>2, <1>4, <1>5, RowsFinite DEF Rows

-----------------------------------------------------------------------------
LEMMA StoreKeepsStagingExplained ==
    ASSUME TypeOK, StagingExplained, StoreStep
    PROVE  StagingExplained'
<1> SUFFICES ASSUME staging' # Empty PROVE AtWork' \/ leftover'
  BY DEF StagingExplained, Empty
<1> USE DEF TypeOK, AtWork, Goto, source, warehouse, locals
<1>1. leftover' = \/ leftover /\ staging' # Empty
                  \/ \E j \in Jobs :
                        LoadPartly(j) \/ (RunFails(j) /\ staging # Empty)
  BY DEF StoreStep
<1>2. CASE WriterStep
  BY <1>1, <1>2 DEF WriterStep, BeginInsert, CommitInsert, RollbackInsert,
                    StagingExplained
<1>3. ASSUME NEW j \in Jobs, LoadStaging(j) PROVE AtWork'
  BY <1>3 DEF LoadStaging
<1>4. ASSUME NEW j \in Jobs, LoadPartly(j) \/ RunFails(j)
      PROVE  leftover'
  BY <1>1, <1>4 DEF RunFails, Leave
<1>5. ASSUME NEW j \in Jobs, TruncateBeforeLoad(j) \/ TruncateAfterMerge(j)
      PROVE  FALSE
  BY <1>5 DEF TruncateBeforeLoad, TruncateAfterMerge
<1>6. ASSUME NEW j \in Jobs,
             \/ ReadCursor(j) \/ ExportBatch(j) \/ ExportNothing(j)
             \/ MergeStaging(j) \/ CheckDuplicates(j) \/ ReturnSuccess(j)
      PROVE  AtWork' \/ leftover'
  <2>1. staging' = staging
    BY <1>6 DEF ReadCursor, ExportBatch, ExportNothing, MergeStaging,
                CheckDuplicates, ReturnSuccess
  <2>2. CASE leftover
    BY <1>1, <2>1, <2>2
  <2>3. ASSUME NEW k \in Jobs, pc[k] \in {"merge", "check", "cleanup"}
        PROVE  AtWork'
    BY <1>6, <2>3 DEF ReadCursor, ExportBatch, ExportNothing, MergeStaging,
                      CheckDuplicates, ReturnSuccess
  <2>4. QED
    BY <2>1, <2>2, <2>3 DEF StagingExplained
<1>7. QED
  BY <1>2, <1>3, <1>4, <1>5, <1>6 DEF StoreStep, Next, JobStep

LEMMA StoreKeepsInv ==
    ASSUME QualityInv, TypeOK', StoreStep
    PROVE  QualityInv'
<1>1. [Next]_vars /\ UNCHANGED <<step, failed, rowCount, gauges, flawed>>
  BY DEF StoreStep, report
<1>2. /\ Rows \in Nat /\ Rows' \in Nat /\ Rows <= Rows'
      /\ Duplicated \subseteq Duplicated' /\ Loaded \subseteq Loaded'
  BY <1>1, TargetGrows DEF QualityInv
<1>3. QualityTypeOK'
  <2>1. leftover' \in BOOLEAN
    BY DEF StoreStep
  <2>2. QED
    BY <1>1, <2>1 DEF QualityInv, QualityTypeOK
<1>4. FlawAhead'
  BY <1>1, <1>2 DEF QualityInv, FlawAhead
<1>5. CountsInOrder'
  BY <1>1, <1>2 DEF QualityInv, QualityTypeOK, Points, CountsInOrder
<1>6. StagingExplained'
  BY StoreKeepsStagingExplained DEF QualityInv
<1>7. QED
  BY <1>1, <1>3, <1>4, <1>5, <1>6 DEF QualityInv

\* The workflow's steps leave the store, and what is said of it, alone.
LEMMA StoreUnchanged ==
    ASSUME UNCHANGED vars
    PROVE  /\ TypeOK' = TypeOK /\ Rows' = Rows /\ Duplicated' = Duplicated
           /\ Loaded' = Loaded /\ AtWork' = AtWork /\ staging' = staging
BY DEF vars, source, warehouse, locals, TypeOK, Rows, RowsOf, Duplicated,
       Loaded, AtWork

LEMMA RunCheckKeepsInv ==
    ASSUME QualityInv, NEW i \in 1 .. LastCheck, RunCheck(i)
    PROVE  QualityInv'
<1> USE CheckFacts
<1>1. /\ UNCHANGED vars /\ UNCHANGED <<gauges, flawed, leftover>>
      /\ step = i /\ step' = i + 1 /\ i \in 1 .. 6
      /\ failed' = IF Passes(Checks[i]) THEN failed ELSE failed + 1
      /\ rowCount' = IF Checks[i] = "row_count_minimum" THEN Rows ELSE rowCount
  BY DEF RunCheck, Rows
<1>2. Rows \in Nat /\ failed \in 0 .. i - 1
  BY <1>1, RowsFinite DEF QualityInv, QualityTypeOK, TypeOK, Rows
<1>3. failed' \in 0 .. i
  BY <1>1, <1>2
<1>4. QualityTypeOK'
  BY <1>1, <1>2, <1>3 DEF QualityInv, QualityTypeOK, Points
<1>5. FlawAhead'
  <2>1. Passes("event_id_unique") => Duplicated = {}
    BY DEF Passes
  <2>2. Passes("event_type_accepted_values") => Loaded \cap OtherTypes = {}
    BY DEF Passes
  <2>3. failed' = 0 => failed = 0 /\ Passes(Checks[i])
    BY <1>1, <1>2
  <2>4. Duplicated' = Duplicated /\ Loaded' = Loaded
    BY <1>1, StoreUnchanged
  <2>5. QED
    BY <1>1, <2>1, <2>2, <2>3, <2>4 DEF QualityInv, FlawAhead
<1>6. CountsInOrder'
  BY <1>1, <1>2, StoreUnchanged
     DEF QualityInv, CountsInOrder, QualityTypeOK, Points
<1>7. StagingExplained' /\ TypeOK'
  BY <1>1, StoreUnchanged DEF QualityInv, StagingExplained, Empty
<1>8. QED
  BY <1>1, <1>3, <1>4, <1>5, <1>6, <1>7 DEF QualityInv

LEMMA WorkflowKeepsInv ==
    ASSUME QualityInv,
           \/ StartChecks \/ ChecksRaise \/ PushReport \/ PushFails
           \/ UNCHANGED allVars
    PROVE  QualityInv'
<1> USE CheckFacts
<1>1. UNCHANGED vars /\ leftover' = leftover
  BY DEF StartChecks, ChecksRaise, PushReport, PushFails, EndChecks, allVars,
         qualityVars
<1>2. Rows \in Nat
  BY RowsFinite DEF QualityInv, TypeOK, Rows
<1>3. StagingExplained' /\ TypeOK'
  BY <1>1, StoreUnchanged DEF QualityInv, StagingExplained, Empty
<1>4. CASE StartChecks
  <2>1. /\ step = 0 /\ step' = 1 /\ flawed' = Flaws
        /\ UNCHANGED <<failed, rowCount, gauges>>
    BY <1>4 DEF StartChecks
  <2>2. flawed' \in BOOLEAN
    BY <2>1 DEF Flaws
  <2>3. QED
    BY <1>1, <1>2, <1>3, <2>1, <2>2, StoreUnchanged
       DEF QualityInv, QualityTypeOK, FlawAhead, CountsInOrder, Flaws, Points
<1>5. CASE ChecksRaise \/ PushReport \/ PushFails
  <2>1. /\ step' = 0 /\ failed' = 0 /\ rowCount' = 0 /\ flawed' = FALSE
        /\ gauges' \in {gauges, TimeSeries}
        /\ step = LastCheck + 1 \/ gauges' = gauges
    BY <1>5 DEF ChecksRaise, PushReport, PushFails, EndChecks
  <2>2. gauges' \in Points /\ gauges'.rows <= Rows
    BY <2>1 DEF QualityInv, QualityTypeOK, CountsInOrder, TimeSeries, Points
  <2>3. QualityTypeOK'
    BY ZeroInRange, <1>1, <2>1, <2>2 DEF QualityInv, QualityTypeOK
  <2>4. FlawAhead'
    BY <2>1 DEF FlawAhead
  <2>5. CountsInOrder'
    BY <1>1, <1>2, <2>1, <2>2, StoreUnchanged DEF CountsInOrder
  <2>6. QED
    BY <1>3, <2>1, <2>3, <2>4, <2>5 DEF QualityInv
<1>6. CASE UNCHANGED allVars
  <2>1. UNCHANGED <<step, failed, rowCount, gauges, flawed, leftover>>
    BY <1>6 DEF allVars, qualityVars, report
  <2>2. QED
    BY <1>1, <1>3, <2>1, StoreUnchanged
       DEF QualityInv, QualityTypeOK, FlawAhead, CountsInOrder
<1>7. QED
  BY <1>4, <1>5, <1>6

LEMMA QualityInvHolds == QualitySpec => []QualityInv
<1>1. Init /\ QualityInit => QualityInv
  <2>1. Init => TypeOK
    BY BoundsAssumption DEF Init, TypeOK, Empty, Steps
  <2>2. Init => Rows \in Nat
    BY <2>1, RowsFinite DEF TypeOK, Rows
  <2>3. QualityInit => QualityTypeOK
    <3>1. [failed |-> 0, rows |-> 0] \in Points
      BY ZeroInRange DEF Points
    <3>2. QED
      BY ZeroInRange, <3>1 DEF QualityInit, QualityTypeOK
  <2>4. QualityInit => FlawAhead
    BY DEF QualityInit, FlawAhead
  <2>5. Init /\ QualityInit => CountsInOrder
    BY <2>2, CheckFacts DEF QualityInit, CountsInOrder
  <2>6. Init => StagingExplained
    BY DEF Init, StagingExplained
  <2>7. QED
    BY <2>1, <2>3, <2>4, <2>5, <2>6 DEF QualityInit, QualityInv
<1>2. QualityInv /\ TypeOK' /\ [QualityNext]_allVars => QualityInv'
  BY StoreKeepsInv, RunCheckKeepsInv, WorkflowKeepsInv DEF QualityNext
<1>3. QED
  BY <1>1, <1>2, StoreBelow, TypeCorrect, PTL DEF QualitySpec

\* Every variable of the checks keeps its type.
THEOREM QualityTypeCorrect == QualitySpec => []QualityTypeOK
<1>1. QualityInv => QualityTypeOK
  BY DEF QualityInv
<1>2. QED
  BY <1>1, QualityInvHolds, PTL

\* A report without a failed check vouches for the table as it was when the
\* checks began, whatever executions did between them.
THEOREM NoAlertNoFlaw == QualitySpec => QuietMeansClean
<1>1. QualityInv => [PushReport /\ gauges'.failed = 0 => ~flawed]_allVars
  BY CheckFacts
     DEF QualityInv, QualityTypeOK, FlawAhead, PushReport, TimeSeries
<1>2. QED
  BY <1>1, QualityInvHolds, PTL DEF QuietMeansClean

\* With any number of overlapping executions, too, a failed check of the
\* staging table has found the rows of a run at work or of a failed one.
THEOREM StagingAlarmExplained == QualitySpec => StagingAlarmIsTrue
<1>1. QualityInv =>
        [\A i \in 1 .. LastCheck :
            RunCheck(i) /\ Checks[i] = "staging_table_empty" /\ failed' # failed
                => AtWork \/ leftover]_allVars
  <2> SUFFICES ASSUME QualityInv, NEW i \in 1 .. LastCheck, RunCheck(i),
                      Checks[i] = "staging_table_empty", failed' # failed
               PROVE  AtWork \/ leftover
    OBVIOUS
  <2>1. ~Passes("staging_table_empty")
    BY DEF RunCheck
  <2>2. RowsOf(staging) # {}
    BY <2>1 DEF Passes
  <2>3. staging # Empty
    BY <2>2 DEF RowsOf, Empty
  <2>4. QED
    BY <2>3 DEF QualityInv, StagingExplained
<1>2. QED
  BY <1>1, QualityInvHolds, PTL DEF StagingAlarmIsTrue

\* The row count that is shown never falls.
THEOREM ShownCountGrows == QualitySpec => RowCountNeverFalls
<1>1. QualityInv /\ [QualityNext]_allVars => [gauges'.rows >= gauges.rows]_allVars
  <2> SUFFICES ASSUME QualityInv, QualityNext PROVE gauges'.rows >= gauges.rows
    BY DEF allVars, qualityVars
  <2>1. gauges.rows \in Nat /\ rowCount \in Nat
    BY DEF QualityInv, QualityTypeOK, Points
  <2>2. CASE gauges' = gauges
    BY <2>1, <2>2
  <2>3. CASE PushReport \/ PushFails
    <3>1. gauges' \in {gauges, TimeSeries} /\ gauges.rows <= rowCount
      BY <2>3 DEF PushReport, PushFails, QualityInv, CountsInOrder
    <3>2. QED
      BY <2>1, <3>1 DEF TimeSeries
  <2>4. QED
    BY <2>2, <2>3 DEF QualityNext, StoreStep, StartChecks, RunCheck, ChecksRaise
<1>2. QED
  BY <1>1, QualityInvHolds, PTL DEF QualitySpec, RowCountNeverFalls

=============================================================================
