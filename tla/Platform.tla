------------------------------ MODULE Platform ------------------------------
(***************************************************************************)
(* The platform in the cloud, from a message to its row in BigQuery: the   *)
(* ingestion (PubSubIngest) and the append job (BigQueryAppend) on one     *)
(* bronze.market_events.  The append job's inserting sessions are the      *)
(* worker's transactions, one for each push request, among them those that *)
(* outlive their request.                                                  *)
(***************************************************************************)
EXTENDS PubSubIngest

CONSTANTS
    Carries,             \* message -> what its publisher puts into it
    Jobs, BatchLimit,    \* as in BigQueryAppend
    MaxClock             \* bound: insert transactions begun

ASSUME PlatformAssumption ==
    /\ Carries \in [Messages -> Contents]
    /\ Events \subseteq Nat /\ IsFiniteSet(Events)
    /\ BatchLimit \in Nat /\ MaxClock \in Nat

VARIABLES
    clock, ingestedAt,     \* as in BigQueryAppend, as are the tables in
    staging, target,       \* BigQuery and
    jobPc, cursor, batch,  \* the executions of the job
    overtaken  \* history: a row was committed after one with a later time

times == <<clock, ingestedAt>>
job == <<staging, target, jobPc, cursor, batch>>
platformVars == <<vars, times, job, overtaken>>

\* The rows of bronze.market_events and of open transactions.
Rows == {e \in Events : row[e] # None}
Inserting == [r \in Requests |-> IF r \in open THEN {EventOf(r)} ELSE {}]

AppendJob == INSTANCE BigQueryAppend WITH
    Writers <- Requests, MaxTxnRows <- 1,
    inserting <- Inserting, bronze <- Rows, pc <- jobPc

PlatformInit ==
    /\ Init
    /\ clock = 0
    /\ ingestedAt = [e \in Events |-> 0]
    /\ staging = [e \in Events |-> 0]
    /\ target = [e \in Events |-> 0]
    /\ jobPc = [j \in Jobs |-> "idle"]
    /\ cursor = [j \in Jobs |-> 0]
    /\ batch = [j \in Jobs |-> {}]
    /\ overtaken = FALSE

-----------------------------------------------------------------------------
\* Faulty (a definition so marked is not part of the model: it is a plausible
\* mistake in the one below it, which a property must notice in its place): the
\* row carries the time at which its event was produced.
StampsOfProducer ==
    /\ open' \ open # {} => clock < MaxClock
    /\ clock' = IF open' \ open # {} THEN clock + 1 ELSE clock
    /\ ingestedAt' = [e \in Events |->
            IF \E t \in open' \ open : EventOf(t) = e THEN e
            ELSE IF row'[e] = None /\ \E t \in open \ open' : EventOf(t) = e THEN 0
            ELSE ingestedAt[e]]

\* ingested_at is the time at which the transaction began; a transaction that
\* is rolled back takes its row along.
Stamps ==
    /\ open' \ open # {} => clock < MaxClock
    /\ clock' = IF open' \ open # {} THEN clock + 1 ELSE clock
    /\ ingestedAt' = [e \in Events |->
            IF \E t \in open' \ open : EventOf(t) = e THEN clock + 1
            ELSE IF row'[e] = None /\ \E t \in open \ open' : EventOf(t) = e THEN 0
            ELSE ingestedAt[e]]

IngestStep ==
    /\ Next
    /\ \A m \in Messages : content'[m] \in {None, Carries[m]}
    /\ Stamps
    /\ overtaken' = \/ overtaken
                    \/ \E e \in Rows' \ Rows, f \in Rows : ingestedAt[f] > ingestedAt[e]
    /\ UNCHANGED job

AppendStep ==
    /\ UNCHANGED <<vars, overtaken>>
    /\ AppendJob!JobStep

PlatformNext == IngestStep \/ AppendStep

(***************************************************************************)
(* The job is scheduled and its calls do not fail for ever, as in          *)
(* BigQueryAppend; nothing is assumed of ingestion.                        *)
(***************************************************************************)
Call(A) == UNCHANGED <<vars, overtaken>> /\ A

JobFairness ==
    \A j \in Jobs :
        /\ WF_platformVars(Call(AppendJob!ReadCursor(j)))
        /\ SF_platformVars(Call(AppendJob!ExportBatch(j)))
        /\ SF_platformVars(Call(AppendJob!TruncateBeforeLoad(j)))
        /\ SF_platformVars(Call(AppendJob!LoadStaging(j)))
        /\ SF_platformVars(Call(AppendJob!MergeStaging(j)))
        /\ WF_platformVars(Call(\/ AppendJob!CheckDuplicates(j)
                                \/ AppendJob!TruncateAfterMerge(j)
                                \/ AppendJob!ReturnSuccess(j)
                                \/ AppendJob!RunFails(j)))

PlatformSpec == PlatformInit /\ [][PlatformNext]_platformVars /\ JobFairness

-----------------------------------------------------------------------------
(***************************************************************************)
(* Correctness.                                                            *)
(***************************************************************************)

PlatformTypeOK ==
    /\ TypeOK
    /\ AppendJob!TypeOK
    /\ overtaken \in BOOLEAN

\* What the worker and its orphaned transactions do to the database is what
\* the append job expects of its inserting sessions: one row a transaction,
\* one transaction a request, each event_id once.
ImplementsAppend == AppendJob!Spec

\* Until a transaction is overtaken, the copy has no gap, although rows of
\* orphaned transactions appear behind the worker's back.
CopyHasNoGap == ~overtaken => AppendJob!NoGaps

\* Until a transaction is overtaken, each step takes BigQuery's copy from one
\* prefix of bronze.market_events, in the order of ingested_at, to another.
Log == INSTANCE OrderedAppend WITH
    rows <- [e \in Rows |-> ingestedAt[e]], loaded <- AppendJob!Loaded,
    MaxTime <- MaxClock
OrderedUntilOvertaken ==
    Log!AInit /\ [][Log!ANext \/ overtaken']_Log!avars

\* A row in BigQuery is there once, and it can be traced: its event was
\* published, and the row in bronze.market_events is of a message that carries
\* it.  Nothing that was refused or rolled back on the way gets there.
CopiedWasPublished ==
    \A e \in AppendJob!Loaded :
        /\ target[e] = 1
        /\ \E m \in Messages :
              sub[m] # "unpublished" /\ content[m] = e /\ row[e] = m

\* An execution that finds nothing new, while no transaction was overtaken,
\* has nothing left to do: each event acknowledged so far is in BigQuery.
QuietRunHasDelivered ==
    [][\A j \in Jobs :
            /\ AppendJob!ExportBatch(j) \/ AppendJob!ExportNothing(j)
            /\ AppendJob!FirstRows(cursor[j]) \subseteq AppendJob!Loaded
            /\ ~overtaken
            => \A m \in Messages : sub[m] = "acked" =>
                    content[m] \in AppendJob!Loaded]_platformVars

\* An event whose message was acknowledged arrives in BigQuery, unless a
\* transaction is overtaken by a later one.
AckedReachesBigQuery ==
    \A m \in Messages, e \in Events :
        sub[m] = "acked" /\ content[m] = e ~> target[e] > 0 \/ overtaken

=============================================================================
