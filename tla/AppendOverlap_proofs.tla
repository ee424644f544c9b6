----------------------- MODULE AppendOverlap_proofs -----------------------
(***************************************************************************)
(* Proofs about executions of the append job that overlap, for any number  *)
(* of them: what an execution that was alone promises does not depend on   *)
(* the others not having overlapped.                                       *)
(***************************************************************************)
EXTENDS AppendOverlap, BigQueryAppend_proofs

\* An execution that was alone so far owns the staging table from its first
\* truncate on.
AloneOwnsStaging ==
    \A j \in Jobs \ disturbed :
        pc[j] # "idle" =>
            /\ \A k \in Jobs \ {j} : pc[k] = "idle"
            /\ pc[j] \in {"load", "return"} => staging = Empty
            /\ pc[j] = "merge" =>
                  staging = [e \in Events |-> IF e \in batch[j] THEN 1 ELSE 0]
            /\ pc[j] \in {"check", "cleanup", "return"} => batch[j] \subseteq Loaded

\* The history does not get in the way of the job.
LEMMA ObservedIsAppend == OSpec => Spec
<1>1. [ONext]_overlapVars => [Next]_vars
  BY DEF ONext, overlapVars
<1>2. QED
  BY <1>1, PTL DEF OSpec, OInit, Spec

\* Only an execution that is, or gets, under way takes a step.
LEMMA StepOfActive ==
    ASSUME TypeOK, NEW k \in Jobs,
           \/ ReadCursor(k) \/ ExportBatch(k) \/ ExportNothing(k)
           \/ TruncateBeforeLoad(k) \/ LoadStaging(k) \/ LoadPartly(k)
           \/ MergeStaging(k) \/ CheckDuplicates(k) \/ TruncateAfterMerge(k)
           \/ ReturnSuccess(k) \/ RunFails(k)
    PROVE  /\ pc[k] # "idle" \/ pc'[k] # "idle"
           /\ \A i \in Jobs \ {k} : pc'[i] = pc[i] /\ batch'[i] = batch[i]
BY DEF TypeOK, ReadCursor, ExportBatch, ExportNothing, TruncateBeforeLoad,
       LoadStaging, LoadPartly, MergeStaging, CheckDuplicates,
       TruncateAfterMerge, ReturnSuccess, RunFails, Goto, Leave, locals

LEMMA AloneStep ==
    ASSUME TypeOK, AloneOwnsStaging, [ONext]_overlapVars
    PROVE  AloneOwnsStaging'
<1>1. CASE UNCHANGED overlapVars
  BY <1>1 DEF overlapVars, vars, source, warehouse, locals, AloneOwnsStaging, Loaded
<1>2. ASSUME ONext, NEW j \in Jobs \ disturbed', pc'[j] # "idle"
      PROVE  /\ \A k \in Jobs \ {j} : pc'[k] = "idle"
             /\ pc'[j] \in {"load", "return"} => staging' = Empty
             /\ pc'[j] = "merge" =>
                  staging' = [e \in Events |-> IF e \in batch'[j] THEN 1 ELSE 0]
             /\ pc'[j] \in {"check", "cleanup", "return"}
                  => batch'[j] \subseteq Loaded'
  <2>1. j \notin disturbed /\ \A k \in Jobs \ {j} : pc'[k] = "idle"
    BY <1>2 DEF ONext, Observe
  <2>2. CASE WriterStep
    BY <1>2, <2>1, <2>2
       DEF WriterStep, BeginInsert, CommitInsert, RollbackInsert, warehouse,
           locals, AloneOwnsStaging, Loaded
  <2>3. ASSUME NEW k \in Jobs \ {j},
               \/ ReadCursor(k) \/ ExportBatch(k) \/ ExportNothing(k)
               \/ TruncateBeforeLoad(k) \/ LoadStaging(k) \/ LoadPartly(k)
               \/ MergeStaging(k) \/ CheckDuplicates(k) \/ TruncateAfterMerge(k)
               \/ ReturnSuccess(k) \/ RunFails(k)
        PROVE  FALSE
    <3>1. pc'[j] = pc[j] /\ (pc[k] # "idle" \/ pc'[k] # "idle")
      BY <2>3, StepOfActive
    <3>2. QED
      BY <1>2, <2>1, <3>1 DEF AloneOwnsStaging
  <2>4. CASE ReadCursor(j) \/ ExportBatch(j) \/ ExportNothing(j)
    BY <1>2, <2>1, <2>4 DEF ReadCursor, ExportBatch, ExportNothing, Goto, TypeOK
  <2>5. CASE TruncateBeforeLoad(j)
    BY <2>1, <2>5 DEF TruncateBeforeLoad, Goto, TypeOK
  <2>6. CASE LoadStaging(j)
    BY <2>1, <2>6
       DEF LoadStaging, Staged, Goto, TypeOK, AloneOwnsStaging, Empty, locals
  <2>7. CASE LoadPartly(j) \/ ReturnSuccess(j) \/ RunFails(j)
    BY <1>2, <2>7 DEF LoadPartly, ReturnSuccess, RunFails, Goto, TypeOK
  <2>8. CASE MergeStaging(j)
    BY <2>1, <2>8 DEF MergeStaging, Goto, TypeOK, AloneOwnsStaging, Loaded, locals
  <2>9. CASE CheckDuplicates(j)
    BY <2>1, <2>9
       DEF CheckDuplicates, Goto, TypeOK, AloneOwnsStaging, Loaded, locals,
           warehouse
  <2>10. CASE TruncateAfterMerge(j)
    BY <2>1, <2>10
       DEF TruncateAfterMerge, Goto, TypeOK, AloneOwnsStaging, Loaded, locals
  <2>11. QED
    BY <1>2, <2>1, <2>2, <2>3, <2>4, <2>5, <2>6, <2>7, <2>8, <2>9, <2>10
       DEF ONext, Next, JobStep
<1>3. QED
  BY <1>1, <1>2 DEF AloneOwnsStaging

LEMMA AloneOwnsStagingHolds == OSpec => []AloneOwnsStaging
<1>1. OInit => AloneOwnsStaging
  BY DEF OInit, Init, AloneOwnsStaging
<1>2. TypeOK /\ AloneOwnsStaging /\ [ONext]_overlapVars => AloneOwnsStaging'
  BY AloneStep
<1>3. QED
  BY <1>1, <1>2, ObservedIsAppend, TypeCorrect, PTL DEF OSpec

\* An execution that nobody overlapped, and that exits with 0, has delivered
\* its batch, however many executions overlapped, failed or were killed before.
THEOREM AloneIsDelivery == OSpec => []AloneDelivers
<1>1. AloneOwnsStaging => AloneDelivers
  BY DEF AloneOwnsStaging, AloneDelivers
<1>2. QED
  BY <1>1, AloneOwnsStagingHolds, PTL

\* Duplicates come from executions that overlap, and from nothing they leave
\* behind: the MERGE of any other execution adds none.
THEOREM AloneMergesOnce == OSpec => AloneAddsNoDuplicate
<1>1. TypeOK /\ AloneOwnsStaging
        => \A j \in Jobs \ disturbed : MergeStaging(j) =>
              \A e \in Events : target'[e] > 1 => target'[e] = target[e]
  <2> SUFFICES ASSUME TypeOK, AloneOwnsStaging, NEW j \in Jobs \ disturbed,
                      MergeStaging(j), NEW e \in Events, target'[e] > 1
               PROVE  target'[e] = target[e]
    OBVIOUS
  <2>1. staging = [f \in Events |-> IF f \in batch[j] THEN 1 ELSE 0]
    BY DEF AloneOwnsStaging, MergeStaging, Goto
  <2>2. QED
    BY <2>1 DEF MergeStaging
<1>2. QED
  BY <1>1, ObservedIsAppend, TypeCorrect, AloneOwnsStagingHolds, PTL
     DEF AloneAddsNoDuplicate

=============================================================================
