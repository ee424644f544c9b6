--------------------------- MODULE BigQueryAppend ---------------------------
(***************************************************************************)
(* The incremental append job (apps/bigquery-append-job): executions copy  *)
(* new rows of bronze.market_events (Cloud SQL) to market_events_raw       *)
(* (BigQuery) through one staging table that all executions share.         *)
(*                                                                         *)
(* Every remote call of run() is a step of its own, so that insert         *)
(* transactions, failures and other executions fall between any two.  The  *)
(* data is reduced to what the job looks at: the event_id and the          *)
(* ingested_at of a row.                                                   *)
(***************************************************************************)
EXTENDS Integers, FiniteSets

CONSTANTS
    Events,      \* event_id values; their order is that of ORDER BY event_id
    Writers,     \* sessions that insert into bronze.market_events
    Jobs,        \* executions of the job that may be under way together
    BatchLimit,  \* APPEND_BATCH_LIMIT
    MaxTxnRows,  \* most rows that one insert transaction adds
    MaxClock     \* bound: insert transactions begun

ASSUME EventsAssumption == Events \subseteq Nat /\ IsFiniteSet(Events)
ASSUME BoundsAssumption ==
    BatchLimit \in Nat /\ MaxTxnRows \in Nat /\ MaxClock \in Nat

VARIABLES
    clock,       \* the database's clock at the last transaction begun
    inserting,   \* writer -> rows of its open transaction ({}: none open)
    ingestedAt,  \* event -> ingested_at of its row (0: no row)
    bronze,      \* committed rows of bronze.market_events
    staging,     \* event -> number of its rows in the staging table
    target,      \* event -> number of its rows in market_events_raw
    pc,          \* execution -> its next step
    cursor,      \* execution -> cursor_ts (0: None)
    batch        \* execution -> source_rows

source == <<clock, inserting, ingestedAt, bronze>>
warehouse == <<staging, target>>
locals == <<cursor, batch>>
vars == <<source, warehouse, pc, locals>>

Steps == {"idle", "export", "truncate", "load", "merge", "check", "cleanup",
          "return"}

TypeOK ==
    /\ clock \in 0 .. MaxClock
    /\ inserting \in [Writers -> SUBSET Events]
    /\ ingestedAt \in [Events -> 0 .. MaxClock]
    /\ bronze \in SUBSET Events
    /\ staging \in [Events -> Nat]
    /\ target \in [Events -> Nat]
    /\ pc \in [Jobs -> Steps]
    /\ cursor \in [Jobs -> 0 .. MaxClock]
    /\ batch \in [Jobs -> SUBSET Events]

Empty == [e \in Events |-> 0]

Init ==
    /\ clock = 0
    /\ inserting = [w \in Writers |-> {}]
    /\ ingestedAt = Empty
    /\ bronze = {}
    /\ staging = Empty
    /\ target = Empty
    /\ pc = [j \in Jobs |-> "idle"]
    /\ cursor = [j \in Jobs |-> 0]
    /\ batch = [j \in Jobs |-> {}]

-----------------------------------------------------------------------------
(***************************************************************************)
(* The source table.  ingested_at defaults to NOW(), which in PostgreSQL   *)
(* is the time at which the transaction began; the row becomes visible     *)
(* when it commits.  Rows whose event_id exists are not inserted (ON       *)
(* CONFLICT DO NOTHING) and leave the state as it is.                      *)
(***************************************************************************)

Present == bronze \cup UNION {inserting[w] : w \in Writers}

BeginInsert(w, S) ==
    /\ inserting[w] = {}
    /\ S # {} /\ S \cap Present = {}
    /\ Cardinality(S) <= MaxTxnRows
    /\ clock < MaxClock
    /\ clock' = clock + 1
    /\ inserting' = [inserting EXCEPT ![w] = S]
    /\ ingestedAt' = [e \in Events |-> IF e \in S THEN clock + 1
                                                  ELSE ingestedAt[e]]
    /\ UNCHANGED <<bronze, warehouse, pc, locals>>

CommitInsert(w) ==
    /\ inserting[w] # {}
    /\ bronze' = bronze \cup inserting[w]
    /\ inserting' = [inserting EXCEPT ![w] = {}]
    /\ UNCHANGED <<clock, ingestedAt, warehouse, pc, locals>>

RollbackInsert(w) ==
    /\ inserting[w] # {}
    /\ inserting' = [inserting EXCEPT ![w] = {}]
    /\ ingestedAt' = [e \in Events |-> IF e \in inserting[w] THEN 0
                                                  ELSE ingestedAt[e]]
    /\ UNCHANGED <<clock, bronze, warehouse, pc, locals>>

-----------------------------------------------------------------------------
(***************************************************************************)
(* The job.  A definition marked "Faulty" is not part of the model: it is  *)
(* a plausible mistake in the definition below it, which a property must   *)
(* notice when it is put in its place.                                     *)
(***************************************************************************)

Loaded == {e \in Events : target[e] > 0}

\* MAX(ingest_timestamp) of the target, 0 standing for the NULL of an empty
\* table.
IsCursor(c) ==
    /\ c = 0 \/ \E e \in Loaded : ingestedAt[e] = c
    /\ \A e \in Loaded : ingestedAt[e] <= c

Precedes(f, e) ==
    \/ ingestedAt[f] < ingestedAt[e]
    \/ ingestedAt[f] = ingestedAt[e] /\ f < e

\* Faulty: reads rows of open transactions.
CandidatesDirty(c) == {e \in Present : ingestedAt[e] >= c}

\* Faulty: the strict comparison of the plan, which drops the rest of a group
\* of rows with one ingested_at.
CandidatesStrict(c) == {e \in bronze : ingestedAt[e] > c}

\* The rows the export query's WHERE clause selects; with no cursor, all.
Candidates(c) == {e \in bronze : ingestedAt[e] >= c}

\* Faulty: ORDER BY event_id alone.
FirstRowsById(c) ==
    {e \in Candidates(c) :
        Cardinality({f \in Candidates(c) : f < e}) < BatchLimit}

\* Faulty: a limit one too small.
FirstRowsTooFew(c) ==
    {e \in Candidates(c) :
        Cardinality({f \in Candidates(c) : Precedes(f, e)}) < BatchLimit - 1}

\* ... ORDER BY ingested_at, event_id LIMIT BatchLimit
FirstRows(c) ==
    {e \in Candidates(c) :
        Cardinality({f \in Candidates(c) : Precedes(f, e)}) < BatchLimit}

Goto(j, from, to) ==
    /\ pc[j] = from
    /\ pc' = [pc EXCEPT ![j] = to]

ReadCursor(j) ==
    /\ Goto(j, "idle", "export")
    /\ \E c \in 0 .. MaxClock : IsCursor(c) /\ cursor' = [cursor EXCEPT ![j] = c]
    /\ UNCHANGED <<source, warehouse, batch>>

ExportBatch(j) ==
    /\ FirstRows(cursor[j]) # {}
    /\ Goto(j, "export", "truncate")
    /\ batch' = [batch EXCEPT ![j] = FirstRows(cursor[j])]
    /\ UNCHANGED <<source, warehouse, cursor>>

\* Nothing to export: the run ends, successful, without touching staging.
ExportNothing(j) ==
    /\ FirstRows(cursor[j]) = {}
    /\ Goto(j, "export", "idle")
    /\ cursor' = [cursor EXCEPT ![j] = 0]
    /\ UNCHANGED <<source, warehouse, batch>>

\* Faulty: relies on the cleanup of the run before.
TruncateNotBeforeLoad(j) ==
    /\ Goto(j, "truncate", "load")
    /\ UNCHANGED <<source, warehouse, locals>>

TruncateBeforeLoad(j) ==
    /\ Goto(j, "truncate", "load")
    /\ staging' = Empty
    /\ UNCHANGED <<source, target, locals>>

Staged(S) == [e \in Events |-> IF e \in S THEN staging[e] + 1 ELSE staging[e]]

LoadStaging(j) ==
    /\ Goto(j, "load", "merge")
    /\ staging' = Staged(batch[j])
    /\ UNCHANGED <<source, target, locals>>

\* Leaving run(): the locals are gone.
Leave(j) ==
    /\ cursor' = [cursor EXCEPT ![j] = 0]
    /\ batch' = [batch EXCEPT ![j] = {}]

\* Faulty: the errors that insert_rows_json returns are not looked at.
LoadErrorsIgnored(j) ==
    /\ Goto(j, "load", "merge")
    /\ \E S \in SUBSET batch[j] : staging' = Staged(S)
    /\ UNCHANGED <<source, target, locals>>

\* insert_rows_json reports row errors, or fails after some rows went in: the
\* run raises, and leaves what was inserted.
LoadPartly(j) ==
    /\ Goto(j, "load", "idle")
    /\ \E S \in SUBSET batch[j] : staging' = Staged(S)
    /\ Leave(j)
    /\ UNCHANGED <<source, target>>

\* MERGE ... WHEN NOT MATCHED BY TARGET THEN INSERT: each staging row whose
\* event_id the target did not hold when the statement began is inserted.
MergeStaging(j) ==
    /\ Goto(j, "merge", "check")
    /\ target' = [e \in Events |-> IF target[e] = 0 THEN staging[e]
                                                    ELSE target[e]]
    /\ UNCHANGED <<source, staging, locals>>

\* Duplicates in the target are logged as a warning; the run goes on.
CheckDuplicates(j) ==
    /\ Goto(j, "check", "cleanup")
    /\ UNCHANGED <<source, warehouse, locals>>

TruncateAfterMerge(j) ==
    /\ Goto(j, "cleanup", "return")
    /\ staging' = Empty
    /\ UNCHANGED <<source, target, locals>>

ReturnSuccess(j) ==
    /\ Goto(j, "return", "idle")
    /\ Leave(j)
    /\ UNCHANGED <<source, warehouse>>

\* Faulty: a failed run is never over.
RunHangs(j) ==
    /\ pc[j] # "idle"
    /\ pc' = [pc EXCEPT ![j] = "failed"]
    /\ Leave(j)
    /\ UNCHANGED <<source, warehouse>>

\* An exception before the next call takes effect (exit code 1), or the
\* execution is killed there (task timeout).  A call whose effect happened and
\* whose answer was lost is the call's own step followed by this one.
RunFails(j) ==
    /\ pc[j] # "idle"
    /\ pc' = [pc EXCEPT ![j] = "idle"]
    /\ Leave(j)
    /\ UNCHANGED <<source, warehouse>>

-----------------------------------------------------------------------------
WriterStep ==
    \E w \in Writers :
        \/ \E S \in SUBSET Events : BeginInsert(w, S)
        \/ CommitInsert(w)
        \/ RollbackInsert(w)

JobStep ==
    \E j \in Jobs :
        \/ ReadCursor(j)
        \/ ExportBatch(j)
        \/ ExportNothing(j)
        \/ TruncateBeforeLoad(j)
        \/ LoadStaging(j)
        \/ LoadPartly(j)
        \/ MergeStaging(j)
        \/ CheckDuplicates(j)
        \/ TruncateAfterMerge(j)
        \/ ReturnSuccess(j)
        \/ RunFails(j)

Next == WriterStep \/ JobStep

Spec == Init /\ [][Next]_vars

(***************************************************************************)
(* The scheduler starts the job again and again, and no call of it fails   *)
(* for ever: a step a run keeps arriving at is completed in the end.       *)
(***************************************************************************)
Fairness ==
    \A j \in Jobs :
        /\ WF_vars(ReadCursor(j))
        /\ SF_vars(ExportBatch(j))
        /\ SF_vars(TruncateBeforeLoad(j))
        /\ SF_vars(LoadStaging(j))
        /\ SF_vars(MergeStaging(j))
        /\ WF_vars(CheckDuplicates(j) \/ TruncateAfterMerge(j)
                   \/ ReturnSuccess(j) \/ RunFails(j))

FairSpec == Spec /\ Fairness

-----------------------------------------------------------------------------
(***************************************************************************)
(* Correctness.                                                            *)
(***************************************************************************)

\* Every row of the staging table, of the target and of an export is a
\* committed source row: the MERGE never copies a row that was rolled back.
OnlyCommittedRows ==
    /\ Loaded \subseteq bronze
    /\ {e \in Events : staging[e] > 0} \subseteq bronze
    /\ \A j \in Jobs : batch[j] \subseteq bronze

\* No event_id has two rows in the target, whatever runs failed and wherever
\* they left the staging table.
NoDuplicateIds == \A e \in Events : target[e] <= 1

\* A run that is about to exit with 0 has put every row it exported into the
\* target, and it leaves the staging table empty.
SuccessMeansAppended ==
    \A j \in Jobs : pc[j] = "return" => /\ batch[j] \subseteq Loaded
                                        /\ staging = Empty

\* The target has no gap: with a row it holds every committed row that comes
\* before it in the order of the export, so that the cursor never passes a
\* row that is not yet there (no export would ever select it again).
NoGaps == \A e \in Loaded : \A f \in bronze : Precedes(f, e) => f \in Loaded

\* An export that brings no row the target does not have, an empty one
\* included, has found the target complete: the job cannot succeed run after
\* run while rows are waiting.
NoNewRowsMeansCaughtUp ==
    [][\A j \in Jobs :
            /\ ExportBatch(j) \/ ExportNothing(j)
            /\ FirstRows(cursor[j]) \subseteq Loaded
            => bronze \subseteq Loaded]_vars

\* Every committed row is in the target in the end.
EveryRowAppended == \A e \in Events : e \in bronze ~> e \in Loaded

\* The job implements the ordered append log.
Log == INSTANCE OrderedAppend
    WITH rows <- [e \in bronze |-> ingestedAt[e]], loaded <- Loaded,
         MaxTime <- MaxClock
ImplementsOrderedAppend == Log!ASpec

=============================================================================
