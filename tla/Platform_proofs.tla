-------------------------- MODULE Platform_proofs --------------------------
(***************************************************************************)
(* Proofs about the platform, for every set of messages and events and     *)
(* every number of executions of the append job.                           *)
(***************************************************************************)
EXTENDS Platform, PubSubIngest_proofs, FiniteSetTheorems

-----------------------------------------------------------------------------
\* The platform's ingestion is PubSubIngest's.
LEMMA IngestBelow == PlatformSpec => Spec
<1>1. [PlatformNext]_platformVars => [Next]_vars
  BY DEF PlatformNext, IngestStep, AppendStep, platformVars
<1>2. QED
  BY <1>1, PTL DEF PlatformSpec, PlatformInit, Spec

\* An acknowledged message's event is in bronze.market_events, whatever the
\* append job does beside it.
THEOREM PlatformAckIsDurable == PlatformSpec => []AckedMeansStored
BY IngestBelow, AckIsDurable, PTL

-----------------------------------------------------------------------------
\* The append job only reads the source.
LEMMA AppendLeavesTimes ==
    AppendStep => UNCHANGED <<vars, times, overtaken>>
BY DEF AppendStep, times, AppendJob!JobStep, AppendJob!ReadCursor,
   AppendJob!ExportBatch, AppendJob!ExportNothing,
   AppendJob!TruncateBeforeLoad, AppendJob!LoadStaging, AppendJob!LoadPartly,
   AppendJob!MergeStaging, AppendJob!CheckDuplicates,
   AppendJob!TruncateAfterMerge, AppendJob!ReturnSuccess, AppendJob!RunFails,
   AppendJob!source

\* The type of the times.
Stamped == ingestedAt \in [Events -> Int] /\ clock \in Nat

LEMMA StampedHolds == PlatformSpec => []Stamped
<1>1. PlatformInit => Stamped
  BY DEF PlatformInit, Stamped
<1>2. Stamped /\ [PlatformNext]_platformVars => Stamped'
  <2> SUFFICES ASSUME Stamped, [PlatformNext]_platformVars PROVE Stamped'
    OBVIOUS
  <2>1. CASE IngestStep
    BY <2>1 DEF IngestStep, Stamps, Stamped
  <2>2. CASE AppendStep
    BY <2>2, AppendLeavesTimes DEF Stamped, times
  <2>3. CASE UNCHANGED platformVars
    BY <2>3 DEF Stamped, platformVars, times
  <2>4. QED
    BY <2>1, <2>2, <2>3 DEF PlatformNext
<1>3. QED
  BY <1>1, <1>2, PTL DEF PlatformSpec

\* What a request with an open transaction is about stays the same.
LEMMA OpenKeepsEvent ==
    ASSUME TypeOK, Inv, [Next]_vars, NEW t \in open
    PROVE  /\ t \in Requests /\ EventOf(t) \in Events
           /\ EventOf(t)' = EventOf(t)
<1> USE DEF TypeOK, Inv, Published, Valid, EventOf, Requests
<1>1. t \in Requests /\ EventOf(t) \in Events /\ sub[t[1]] # "unpublished"
  BY NoneAssumption DEF Contents
<1>2. content'[t[1]] = content[t[1]]
  BY <1>1, ContentStays
<1>3. QED
  BY <1>1, <1>2

\* What a step of ingestion does to the open transactions and the rows: one
\* transaction begins, commits or is rolled back, or nothing changes.
LEMMA DatabaseSteps ==
    ASSUME TypeOK, Inv, [Next]_vars
    PROVE  \/ UNCHANGED <<open, row>>
           \/ \E t \in Requests \ open :
                /\ EventOf(t) \in Events /\ EventOf(t)' = EventOf(t)
                /\ row[EventOf(t)] = None
                /\ \A u \in open : EventOf(u) # EventOf(t)
                /\ open' = open \cup {t} /\ row' = row
           \/ \E t \in open : /\ open' = open \ {t}
                              /\ row' = [row EXCEPT ![EventOf(t)] = t[1]]
           \/ \E t \in open : open' = open \ {t} /\ row' = row
<1>1. CASE InsertRow
  <2>1. request \in Requests /\ EventOf(request) \in Events
    BY <1>1 DEF InsertRow, TypeOK, Inv, Serving, Valid, EventOf
  <2>2. EventOf(request)' = EventOf(request)
    BY <1>1 DEF InsertRow, EventOf, subscription
  <2>3. QED
    BY <1>1, <2>1, <2>2 DEF InsertRow, NotLocked
<1>2. CASE Commit
  BY <1>2 DEF Commit, Committed, database
<1>3. ASSUME NEW t \in open, OrphanCommits(t)
      PROVE  /\ open' = open \ {t}
             /\ row' = [row EXCEPT ![EventOf(t)] = t[1]]
  BY <1>3 DEF OrphanCommits, Committed
<1>4. ASSUME NEW t \in open, OrphanRollsBack(t)
      PROVE  open' = open \ {t} /\ row' = row
  BY <1>4 DEF OrphanRollsBack
<1>5. CASE SubscriptionStep
  BY <1>5 DEF SubscriptionStep, Publish, Push, DeadlinePasses, DeadLetter,
              Expire, DropRequest, database
<1>6. CASE WorkerStep /\ ~Commit /\ ~InsertRow
  BY <1>6 DEF WorkerStep, Refuse, Accept, SkipExisting, InsertFails,
     CommitFails, Acknowledged, NotAcknowledged, AnswerIgnored, Crash, database
<1>7. CASE UNCHANGED vars
  BY <1>7 DEF vars, database
<1>8. QED
  BY <1>1, <1>2, <1>3, <1>4, <1>5, <1>6, <1>7 DEF Next, DatabaseStep

-----------------------------------------------------------------------------
LEMMA OneRow == \A x : Cardinality({x}) = 1
BY FS_Singleton

\* With the mapping of Platform each of them is a writer's step of the append
\* job's specification, or leaves its variables as they are.
LEMMA DatabaseStepsMatch ==
    ASSUME TypeOK, TypeOK', Inv, Stamped, IngestStep
    PROVE  [AppendJob!Next]_AppendJob!vars
<1>1. [Next]_vars /\ Stamps /\ UNCHANGED job
  BY DEF IngestStep
<1>2. /\ open \subseteq Requests
      /\ row \in [Events -> Messages \cup {None}]
      /\ ingestedAt \in [Events -> Int] /\ clock \in Int
  BY DEF TypeOK, Stamped
<1>3. \A t \in open : /\ t \in Requests /\ EventOf(t) \in Events
                      /\ EventOf(t)' = EventOf(t)
                      /\ t[1] \in Messages
  BY <1>1, OpenKeepsEvent DEF Requests
<1>4. CASE UNCHANGED <<open, row>>
  <2>1. UNCHANGED <<Inserting, Rows, clock, ingestedAt>>
    <3>1. UNCHANGED <<clock, ingestedAt>>
      BY <1>1, <1>4, <1>2 DEF Stamps
    <3>2. UNCHANGED Rows
      BY <1>4 DEF Rows
    <3>3. UNCHANGED Inserting
      BY <1>3, <1>4, <1>2 DEF Inserting
    <3>4. QED
      BY <3>1, <3>2, <3>3
  <2>2. QED
    BY <1>1, <2>1 DEF AppendJob!vars, AppendJob!source, AppendJob!warehouse,
                      AppendJob!locals, job
<1>5. ASSUME NEW t \in Requests \ open,
             EventOf(t) \in Events, EventOf(t)' = EventOf(t),
             row[EventOf(t)] = None,
             \A u \in open : EventOf(u) # EventOf(t),
             open' = open \cup {t}, row' = row
      PROVE  AppendJob!BeginInsert(t, {EventOf(t)})
  <2>1. open' \ open = {t} /\ open \ open' = {}
    BY <1>5
  <2>2. /\ clock < MaxClock /\ clock' = clock + 1
        /\ ingestedAt' = [e \in Events |-> IF e \in {EventOf(t)} THEN clock + 1
                                           ELSE ingestedAt[e]]
    BY <1>1, <1>5, <2>1 DEF Stamps
  <2>3. Inserting[t] = {} /\ Inserting' = [Inserting EXCEPT ![t] = {EventOf(t)}]
    BY <1>3, <1>5, <1>2 DEF Inserting
  <2>4. {EventOf(t)} \cap AppendJob!Present = {}
    BY <1>3, <1>5, <1>2 DEF AppendJob!Present, Inserting, Rows
  <2>5. AppendJob!Cardinality({EventOf(t)}) = 1
    BY OneRow DEF AppendJob!Cardinality, Cardinality
  <2>6. UNCHANGED Rows
    BY <1>5 DEF Rows
  <2>7. QED
    BY <1>1, <2>2, <2>3, <2>4, <2>5, <2>6
       DEF AppendJob!BeginInsert, AppendJob!warehouse, AppendJob!locals, job
<1>6. ASSUME NEW t \in open, open' = open \ {t}
      PROVE  /\ Inserting[t] # {}
             /\ Inserting[t] = {EventOf(t)}
             /\ Inserting' = [Inserting EXCEPT ![t] = {}]
             /\ clock' = clock
             /\ ingestedAt' = [e \in Events |->
                    IF row'[e] = None /\ EventOf(t) = e THEN 0
                    ELSE ingestedAt[e]]
  <2>1. open' \ open = {} /\ open \ open' = {t}
    BY <1>6
  <2>2. /\ Inserting[t] = {EventOf(t)}
        /\ Inserting' = [Inserting EXCEPT ![t] = {}]
    BY <1>3, <1>6, <1>2 DEF Inserting
  <2>3. QED
    BY <1>1, <2>1, <2>2, <1>2 DEF Stamps
<1>7. ASSUME NEW t \in open, open' = open \ {t},
             row' = [row EXCEPT ![EventOf(t)] = t[1]]
      PROVE  AppendJob!CommitInsert(t)
  <2>1. t[1] # None
    BY <1>3, NoneAssumption
  <2>2. Rows' = Rows \cup Inserting[t]
    BY <1>3, <1>6, <1>7, <2>1, <1>2 DEF Rows
  <2>3. ingestedAt' = ingestedAt
    BY <1>3, <1>6, <1>7, <2>1, <1>2
  <2>4. QED
    BY <1>1, <1>6, <1>7, <2>2, <2>3
       DEF AppendJob!CommitInsert, AppendJob!warehouse, AppendJob!locals, job
<1>8. ASSUME NEW t \in open, open' = open \ {t}, row' = row
      PROVE  AppendJob!RollbackInsert(t)
  <2>1. row[EventOf(t)] = None
    BY DEF Inv, Locking
  <2>2. ingestedAt' = [e \in Events |-> IF e \in Inserting[t] THEN 0
                                         ELSE ingestedAt[e]]
    BY <1>6, <1>8, <2>1
  <2>3. UNCHANGED Rows
    BY <1>8 DEF Rows
  <2>4. QED
    BY <1>1, <1>6, <1>8, <2>2, <2>3
       DEF AppendJob!RollbackInsert, AppendJob!warehouse, AppendJob!locals, job
<1>9. \A t \in Requests, e \in Events : {e} \in SUBSET Events
  OBVIOUS
<1>10. QED
  BY <1>1, <1>3, <1>4, <1>5, <1>7, <1>8, <1>9, DatabaseSteps
     DEF AppendJob!Next, AppendJob!WriterStep

\* What the worker and its orphaned transactions do to the database is what
\* the append job expects of its inserting sessions, a session for each push
\* request: the platform implements BigQueryAppend.
THEOREM PlatformImplementsAppend == PlatformSpec => ImplementsAppend
<1>1. PlatformInit => AppendJob!Init
  <2> SUFFICES ASSUME PlatformInit PROVE AppendJob!Init
    OBVIOUS
  <2>1. Rows = {}
    BY DEF PlatformInit, Init, Rows
  <2>2. Inserting = [r \in Requests |-> {}]
    BY DEF PlatformInit, Init, Inserting
  <2>3. QED
    BY <2>1, <2>2 DEF PlatformInit, AppendJob!Init, AppendJob!Empty
<1>2. /\ TypeOK /\ TypeOK' /\ Inv /\ Stamped
      /\ [PlatformNext]_platformVars
      => [AppendJob!Next]_AppendJob!vars
  <2> SUFFICES ASSUME TypeOK, TypeOK', Inv, Stamped,
                      [PlatformNext]_platformVars
               PROVE  [AppendJob!Next]_AppendJob!vars
    OBVIOUS
  <2>1. CASE AppendStep
    BY <2>1 DEF AppendStep, AppendJob!Next
  <2>2. CASE UNCHANGED platformVars
    BY <2>2 DEF platformVars, vars, times, job, subscription, worker, database,
       Inserting, Rows, EventOf, AppendJob!vars, AppendJob!source,
       AppendJob!warehouse, AppendJob!locals
  <2>3. QED
    BY <2>1, <2>2, DatabaseStepsMatch DEF PlatformNext
<1>3. QED
  BY <1>1, <1>2, IngestBelow, TypeCorrect, InvHolds, StampedHolds, PTL
     DEF PlatformSpec, ImplementsAppend, AppendJob!Spec

-----------------------------------------------------------------------------
(***************************************************************************)
(* What is proved of the append job holds of the platform.  Copy is        *)
(* AppendJob with those theorems; the lemmas named Same say that the       *)
(* operators of both are the same.                                         *)
(***************************************************************************)
Copy == INSTANCE BigQueryAppend_proofs WITH
    Writers <- Requests, MaxTxnRows <- 1,
    inserting <- Inserting, bronze <- Rows, pc <- jobPc

LEMMA CopyAssumptions == Copy!EventsAssumption /\ Copy!BoundsAssumption
BY PlatformAssumption DEF Copy!EventsAssumption, Copy!BoundsAssumption,
                          IsFiniteSet, Copy!IsFiniteSet

LEMMA SameInit == AppendJob!Init => Copy!Init
BY DEF AppendJob!Init, Copy!Init, AppendJob!Empty, Copy!Empty

LEMMA SameWriterStep == AppendJob!WriterStep => Copy!WriterStep
BY DEF AppendJob!WriterStep, Copy!WriterStep,
   AppendJob!BeginInsert, Copy!BeginInsert,
   AppendJob!CommitInsert, Copy!CommitInsert,
   AppendJob!RollbackInsert, Copy!RollbackInsert,
   AppendJob!Present, Copy!Present, AppendJob!Cardinality, Copy!Cardinality,
   AppendJob!warehouse, Copy!warehouse, AppendJob!locals, Copy!locals

LEMMA SameLoaded == AppendJob!Loaded = Copy!Loaded
BY DEF AppendJob!Loaded, Copy!Loaded

LEMMA SameExport ==
    ASSUME NEW j \in Jobs
    PROVE  /\ AppendJob!FirstRows(cursor[j]) = Copy!FirstRows(cursor[j])
           /\ AppendJob!ExportBatch(j) <=> Copy!ExportBatch(j)
           /\ AppendJob!ExportNothing(j) <=> Copy!ExportNothing(j)
BY DEF AppendJob!ExportBatch, Copy!ExportBatch,
   AppendJob!ExportNothing, Copy!ExportNothing, AppendJob!Goto, Copy!Goto,
   AppendJob!FirstRows, Copy!FirstRows,
   AppendJob!Candidates, Copy!Candidates, AppendJob!Precedes, Copy!Precedes,
   AppendJob!Cardinality, Copy!Cardinality, AppendJob!source, Copy!source,
   AppendJob!warehouse, Copy!warehouse

LEMMA SameJobStep == AppendJob!JobStep => Copy!JobStep
BY DEF AppendJob!JobStep, Copy!JobStep,
   AppendJob!ReadCursor, Copy!ReadCursor,
   AppendJob!ExportBatch, Copy!ExportBatch,
   AppendJob!ExportNothing, Copy!ExportNothing,
   AppendJob!TruncateBeforeLoad, Copy!TruncateBeforeLoad,
   AppendJob!LoadStaging, Copy!LoadStaging,
   AppendJob!LoadPartly, Copy!LoadPartly,
   AppendJob!MergeStaging, Copy!MergeStaging,
   AppendJob!CheckDuplicates, Copy!CheckDuplicates,
   AppendJob!TruncateAfterMerge, Copy!TruncateAfterMerge,
   AppendJob!ReturnSuccess, Copy!ReturnSuccess,
   AppendJob!RunFails, Copy!RunFails,
   AppendJob!Goto, Copy!Goto, AppendJob!Leave, Copy!Leave,
   AppendJob!Staged, Copy!Staged, AppendJob!Empty, Copy!Empty,
   AppendJob!IsCursor, Copy!IsCursor, AppendJob!Loaded, Copy!Loaded,
   AppendJob!FirstRows, Copy!FirstRows, AppendJob!Candidates, Copy!Candidates,
   AppendJob!Precedes, Copy!Precedes,
   AppendJob!Cardinality, Copy!Cardinality,
   AppendJob!source, Copy!source, AppendJob!warehouse, Copy!warehouse,
   AppendJob!locals, Copy!locals

LEMMA SameStep == [AppendJob!Next]_AppendJob!vars => [Copy!Next]_Copy!vars
<1>1. AppendJob!vars = Copy!vars /\ AppendJob!vars' = Copy!vars'
  BY DEF AppendJob!vars, Copy!vars, AppendJob!source, Copy!source,
         AppendJob!warehouse, Copy!warehouse, AppendJob!locals, Copy!locals
<1>2. QED
  BY <1>1, SameWriterStep, SameJobStep DEF AppendJob!Next, Copy!Next

LEMMA SameProperties ==
    /\ AppendJob!TypeOK <=> Copy!TypeOK
    /\ AppendJob!NoDuplicateIds <=> Copy!NoDuplicateIds
    /\ AppendJob!SuccessMeansAppended <=> Copy!SuccessMeansAppended
    /\ AppendJob!OnlyCommittedRows <=> Copy!OnlyCommittedRows
    /\ AppendJob!NoGaps <=> Copy!NoGaps
BY DEF AppendJob!TypeOK, Copy!TypeOK, AppendJob!Steps, Copy!Steps,
   AppendJob!NoDuplicateIds, Copy!NoDuplicateIds,
   AppendJob!SuccessMeansAppended, Copy!SuccessMeansAppended,
   AppendJob!OnlyCommittedRows, Copy!OnlyCommittedRows,
   AppendJob!NoGaps, Copy!NoGaps, AppendJob!Precedes, Copy!Precedes,
   AppendJob!Loaded, Copy!Loaded, AppendJob!Empty, Copy!Empty

LEMMA PlatformIsCopied == PlatformSpec => Copy!Spec
BY PlatformImplementsAppend, SameInit, SameStep, PTL
   DEF ImplementsAppend, AppendJob!Spec, Copy!Spec

\* Every variable of the platform keeps its type.
THEOREM PlatformTypeCorrect == PlatformSpec => []PlatformTypeOK
<1>1. PlatformInit => overtaken \in BOOLEAN
  BY DEF PlatformInit
<1>2. overtaken \in BOOLEAN /\ [PlatformNext]_platformVars
        => (overtaken \in BOOLEAN)'
  BY AppendLeavesTimes DEF PlatformNext, IngestStep, platformVars
<1>3. TypeOK /\ Copy!TypeOK /\ overtaken \in BOOLEAN => PlatformTypeOK
  BY SameProperties DEF PlatformTypeOK
<1>4. PlatformSpec => []Copy!TypeOK
  BY PlatformIsCopied, Copy!TypeCorrect, CopyAssumptions, PTL
<1>5. QED
  BY <1>1, <1>2, <1>3, <1>4, IngestBelow, TypeCorrect, PTL DEF PlatformSpec

\* Nothing is copied to BigQuery that no transaction of the worker committed.
THEOREM PlatformCopiesOnlyCommitted ==
    PlatformSpec => []AppendJob!OnlyCommittedRows
BY PlatformIsCopied, Copy!CopiesOnlyCommitted, CopyAssumptions,
   SameProperties, PTL

\* Whatever Pub/Sub delivers again and whatever fails, an event_id has one row
\* in BigQuery at most, as long as executions of the job do not overlap.
THEOREM PlatformNoDuplicates ==
    ASSUME Copy!OneJob PROVE PlatformSpec => []AppendJob!NoDuplicateIds
BY PlatformIsCopied, Copy!NoDuplicates, CopyAssumptions, SameProperties, PTL

\* An execution that exits with 0 has delivered its batch, worker and orphaned
\* transactions beside it.
THEOREM PlatformSuccessIsDelivery ==
    ASSUME Copy!OneJob PROVE PlatformSpec => []AppendJob!SuccessMeansAppended
BY PlatformIsCopied, Copy!SuccessIsDelivery, CopyAssumptions, SameProperties,
   PTL

\* Each row in BigQuery is there once and is that of a published message with
\* its event_id.
THEOREM CopiedIsPublished ==
    ASSUME Copy!OneJob PROVE PlatformSpec => []CopiedWasPublished
<1>1. /\ TypeOK /\ Inv /\ RowsAreOfMessages /\ AppendJob!TypeOK
      /\ AppendJob!OnlyCommittedRows /\ AppendJob!NoDuplicateIds
      => CopiedWasPublished
  <2> SUFFICES ASSUME Inv, RowsAreOfMessages, AppendJob!TypeOK,
                      AppendJob!OnlyCommittedRows, AppendJob!NoDuplicateIds,
                      NEW e \in AppendJob!Loaded
               PROVE  /\ target[e] = 1
                      /\ \E m \in Messages :
                            sub[m] # "unpublished" /\ content[m] = e /\ row[e] = m
    BY DEF CopiedWasPublished
  <2>1. e \in Events /\ row[e] # None
    BY DEF AppendJob!OnlyCommittedRows, AppendJob!Loaded, Rows
  <2>2. target[e] = 1
    <3>1. target[e] \in Nat /\ target[e] > 0 /\ target[e] <= 1
      BY <2>1 DEF AppendJob!TypeOK, AppendJob!NoDuplicateIds, AppendJob!Loaded
    <3>2. QED
      BY <3>1
  <2>3. row[e] \in Messages /\ content[row[e]] = e /\ e # None
    BY <2>1, NoneAssumption DEF RowsAreOfMessages, Contents
  <2>4. sub[row[e]] # "unpublished"
    BY <2>3 DEF Inv, Published
  <2>5. QED
    BY <2>2, <2>3, <2>4
<1>2. QED
  BY <1>1, IngestBelow, TypeCorrect, InvHolds, RowsAreOfMessagesHolds,
     PlatformTypeCorrect, PlatformCopiesOnlyCommitted, PlatformNoDuplicates,
     PTL DEF PlatformTypeOK

-----------------------------------------------------------------------------
(***************************************************************************)
(* The order of the copy.  Until a transaction is overtaken, the worker    *)
(* and the orphaned transactions commit in the order of ingested_at, which *)
(* is all that the theorems on the append job ask for.                     *)
(***************************************************************************)

\* A step that records no overtaking makes rows visible in order: rows have
\* different times, since no two are of one transaction.
LEMMA InOrderUntilOvertaken ==
    ASSUME Copy!TypeOK, Copy!TransactionsApart, Copy!FewRowsPerTime,
           [Copy!Next]_Copy!vars, [PlatformNext]_platformVars, ~overtaken'
    PROVE  ~overtaken /\ Copy!CommitsInOrder
<1>1. CASE IngestStep
  <2>1. ~overtaken /\ \A f \in Rows' \ Rows, e \in Rows :
                        ~(ingestedAt[e] > ingestedAt[f])
    BY <1>1 DEF IngestStep
  <2>2. /\ Rows \subseteq Events /\ Rows' \subseteq Events
        /\ ingestedAt \in [Events -> 0 .. MaxClock]
        /\ \A e \in Rows : ingestedAt[e] > 0
    BY DEF Rows, Copy!TypeOK, Copy!TransactionsApart
  <2>3. ASSUME NEW f \in Rows' \ Rows, NEW e \in Rows
        PROVE  ingestedAt[e] < ingestedAt[f]
    <3>1. e \in Events /\ f \in Events /\ e # f
      BY <2>2, <2>3
    <3>2. ingestedAt[e] # ingestedAt[f]
      BY <2>2, <3>1, CopyAssumptions, Copy!OneRowPerTime
    <3>3. QED
      BY <2>1, <2>2, <3>1, <3>2, PlatformAssumption
  <2>4. QED
    BY <2>1, <2>3 DEF Copy!CommitsInOrder
<1>2. CASE AppendStep \/ UNCHANGED platformVars
  <2>1. UNCHANGED <<overtaken, row>>
    BY <1>2, AppendLeavesTimes DEF platformVars, vars, database
  <2>2. QED
    BY <2>1 DEF Copy!CommitsInOrder, Rows
<1>3. QED
  BY <1>1, <1>2 DEF PlatformNext

\* The invariant: until then, target, cursor and batch fit the source.
CopyInv == ~overtaken => Copy!OrderInv

\* What of the append job holds throughout, and its step.
CopyContext ==
    /\ Copy!TypeOK /\ Copy!OnlyCommittedRows /\ Copy!SerialInv
    /\ Copy!TransactionsApart /\ Copy!FewRowsPerTime

LEMMA CopyContextHolds ==
    ASSUME Copy!OneJob
    PROVE  PlatformSpec => []CopyContext /\ [][Copy!Next]_Copy!vars
<1>1. Copy!Spec => []Copy!SerialInv
  BY Copy!SerialInvHolds, CopyAssumptions
<1>2. Copy!Spec => /\ []Copy!TypeOK /\ []Copy!OnlyCommittedRows
                   /\ []Copy!TransactionsApart /\ []Copy!FewRowsPerTime
  BY Copy!TypeCorrect, Copy!CopiesOnlyCommitted, Copy!TransactionsApartHolds,
     Copy!FewRowsPerTimeHolds, CopyAssumptions
<1>3. QED
  BY <1>1, <1>2, PlatformIsCopied, PTL DEF CopyContext, Copy!Spec

LEMMA CopyInvHolds == ASSUME Copy!OneJob PROVE PlatformSpec => []CopyInv
<1>1. Copy!Init => CopyInv
  BY Copy!OrderInvInit, CopyAssumptions DEF CopyInv
<1>2. /\ CopyContext /\ CopyInv
      /\ [Copy!Next]_Copy!vars /\ [PlatformNext]_platformVars
      => CopyInv'
  <2> SUFFICES ASSUME CopyContext, CopyInv, [Copy!Next]_Copy!vars,
                      [PlatformNext]_platformVars, ~overtaken'
               PROVE  Copy!OrderInv'
    BY DEF CopyInv
  <2>1. ~overtaken /\ Copy!CommitsInOrder
    BY InOrderUntilOvertaken DEF CopyContext
  <2>2. QED
    BY <2>1, Copy!OrderIsKept, CopyAssumptions DEF CopyContext, CopyInv
<1>3. QED
  BY <1>1, <1>2, CopyContextHolds, PlatformIsCopied, PTL
     DEF PlatformSpec, Copy!Spec

\* The cursor passes no row of the worker, an orphaned transaction's included,
\* unless the row was overtaken.
THEOREM PlatformLeavesNoGap ==
    ASSUME Copy!OneJob PROVE PlatformSpec => []CopyHasNoGap
<1>1. CopyInv => CopyHasNoGap
  BY SameProperties DEF CopyInv, CopyHasNoGap, Copy!OrderInv
<1>2. QED
  BY <1>1, CopyInvHolds, PTL

LEMMA SameLog ==
    /\ Copy!Log!AInit => Log!AInit
    /\ Copy!Log!ANext => Log!ANext
    /\ UNCHANGED <<Copy!LogRows, Copy!Loaded>> => UNCHANGED Log!avars
BY DEF Copy!Log!AInit, Log!AInit, Copy!Log!ANext, Log!ANext,
   Copy!Log!Ingest, Log!Ingest, Copy!Log!AppendNext, Log!AppendNext,
   Copy!Log!NoHole, Log!NoHole, Copy!Log!Older, Log!Older, Log!avars,
   Copy!LogRows, Copy!Loaded, AppendJob!Loaded

\* Until a transaction is overtaken, the platform implements the ordered log:
\* what is ingested lands behind all that is there, and BigQuery takes the
\* next rows, with no hole.
THEOREM PlatformKeepsOrder ==
    ASSUME Copy!OneJob PROVE PlatformSpec => OrderedUntilOvertaken
<1>1. Copy!Init => Log!AInit
  BY Copy!StartOfLog, CopyAssumptions, SameLog
<1>2. /\ CopyContext /\ CopyInv /\ CopyInv'
      /\ [Copy!Next]_Copy!vars /\ [PlatformNext]_platformVars
      => [Log!ANext \/ overtaken']_Log!avars
  <2> SUFFICES ASSUME CopyContext, CopyInv, CopyInv', [Copy!Next]_Copy!vars,
                      [PlatformNext]_platformVars, ~overtaken'
               PROVE  Log!ANext \/ UNCHANGED Log!avars
    OBVIOUS
  <2>1. ~overtaken /\ Copy!CommitsInOrder
    BY InOrderUntilOvertaken DEF CopyContext
  <2>2. Copy!OrderInv /\ Copy!OrderInv'
    BY <2>1 DEF CopyInv
  <2>3. Copy!Log!ANext \/ UNCHANGED <<Copy!LogRows, Copy!Loaded>>
    BY <2>1, <2>2, Copy!StepOfLog, CopyAssumptions DEF CopyContext
  <2>4. QED
    BY <2>3, SameLog
<1>3. QED
  BY <1>1, <1>2, CopyContextHolds, CopyInvHolds, PlatformIsCopied, PTL
     DEF PlatformSpec, Copy!Spec, OrderedUntilOvertaken

\* When no transaction was overtaken and a batch may hold two rows, an
\* execution that finds nothing new has found each acknowledged event in
\* BigQuery: what the subscription forgets is delivered to the end.
THEOREM QuietRunIsDelivery ==
    ASSUME Copy!OneJob, Copy!SmallTransactions
    PROVE  PlatformSpec => QuietRunHasDelivered
<1>1. /\ CopyContext /\ CopyInv /\ AckedMeansStored
      => \A j \in Jobs :
            /\ AppendJob!ExportBatch(j) \/ AppendJob!ExportNothing(j)
            /\ AppendJob!FirstRows(cursor[j]) \subseteq AppendJob!Loaded
            /\ ~overtaken
            => \A m \in Messages : sub[m] = "acked" =>
                    content[m] \in AppendJob!Loaded
  <2> SUFFICES ASSUME CopyContext, CopyInv, AckedMeansStored, ~overtaken,
                      NEW j \in Jobs,
                      AppendJob!ExportBatch(j) \/ AppendJob!ExportNothing(j),
                      AppendJob!FirstRows(cursor[j]) \subseteq AppendJob!Loaded,
                      NEW m \in Messages, sub[m] = "acked"
               PROVE  content[m] \in AppendJob!Loaded
    OBVIOUS
  <2>1. content[m] \in Rows
    BY DEF AckedMeansStored, Stored, Valid, Rows
  <2>2. /\ Copy!ExportBatch(j) \/ Copy!ExportNothing(j)
        /\ Copy!FirstRows(cursor[j]) \subseteq Copy!Loaded
    BY SameExport, SameLoaded
  <2>3. Rows \subseteq Copy!Loaded
    <3>1. /\ Copy!TypeOK /\ Copy!OnlyCommittedRows /\ Copy!TransactionsApart
          /\ Copy!FewRowsPerTime /\ Copy!OrderInv
      BY DEF CopyContext, CopyInv
    <3>2. QED
      BY <2>2, <3>1, Copy!NothingNewIsComplete, CopyAssumptions
  <2>4. QED
    BY <2>1, <2>3, SameLoaded
<1>2. QED
  BY <1>1, CopyContextHolds, CopyInvHolds, PlatformAckIsDurable, PTL
     DEF QuietRunHasDelivered

=============================================================================
