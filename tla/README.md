# A verification of the real-time data platform

TLA+ models of the platform: how a market event gets from a publisher into
`bronze.market_events` (Cloud SQL) and from there into BigQuery, into the
aggregates and to a reader of the API, and what its jobs, metrics and checks
report of it, under redelivery, late and lost answers, crashes, half-finished
batches and executions that overlap. TLC checks the models on small instances; TLAPS proves
the main results for instances of any size. Paths are relative to the
repository's root.

## 1. Inventory

| Component | State it keeps | Operations | Meets |
|---|---|---|---|
| Kafka producer (`apps/producer`) | none | send one event after another; a send that fails ends it | the topic |
| Kafka consumer (`apps/consumer`) | `processed` in memory; no committed offsets (no `group_id`) | insert event, insert metrics, refresh silver every N events, count errors | topic, bronze, silver, `pipeline_metrics` |
| Pub/Sub publisher (`apps/pubsub-publisher`) | none | publish, read the message id | the topic |
| Push subscription (`infra/terraform/gcp/pubsub.tf`) | per message: attempts, deadline, backlog | push, retry with backoff, dead-letter after 5 attempts, expire after 600 s | topic, worker, dead-letter topic |
| Pub/Sub worker (`apps/pubsub-worker`) | none between requests | decode, validate, insert, answer 200 / 400 / 500 | subscription, bronze |
| Event store (`infra/postgres/init.sql`) | bronze, silver, gold, `pipeline_metrics` | transactions; refresh functions for silver and gold | everything |
| Silver refresh job (`apps/silver-refresh-job`) | none | one call of the silver refresh function | silver |
| dbt models (`dbt/models`) | silver and gold tables | incremental run over a look-back window | bronze, silver, gold |
| dbt refresh job (`apps/dbt-refresh-job`) | profile file on disk | write profile, run, push metrics, test, push metrics, delete profile | dbt, monitoring |
| BigQuery append job (`apps/bigquery-append-job`) | none; the cursor is recomputed from the target | read cursor, export, truncate, load, merge, check, truncate | bronze, staging and target tables |
| Quality checks and metrics (`scripts/*quality*`) | a report file | one query per check; push the report as metrics | BigQuery, monitoring, alert policy |
| Query API (`apps/api`) | none | one read per request; pages by offset | bronze, silver |
| Beam pipelines (`pipelines`) | BigQuery proof tables | parse, validate, append or dead-letter | files, Pub/Sub, BigQuery |
| Contract (`packages/contracts`) | none | validate a payload as `MarketEvent` | worker, consumer, Beam |

Terraform, CI, dashboards and the evidence documents are configuration and
records; the limits, deadlines and schedules they fix are in the models.

### Where it is hard, and what correct means

- **Push subscription and worker.** Delivery is at least once. An attempt's
  deadline (Pub/Sub's default of 30 s) and the worker's request run on their
  own: the subscription may give an attempt up and push again while the request
  still runs, and an answer may come late or never. A commit can break with its
  outcome unknown, and an instance that dies leaves a transaction behind that
  may still commit. *Correct:* an acknowledged message's event is stored; one
  payload per event_id, the first one committed, for good; a valid event is
  stored or visibly given up.
- **Append job.** Nothing keeps two executions apart (an hourly scheduler, and
  manual runs), they share one staging table, and any call may fail, or take
  effect with its answer lost. Progress lives only in the data: the cursor is
  the maximum of `ingest_timestamp`, while rows become visible in the order of
  commits, not of `ingested_at`. *Correct:* every committed row arrives, once,
  and in order, so that the cursor passes nothing by; an execution that was alone
  does not suffer from what others have left.
- **Consumer.** A restart reads the topic from its start and counts from zero,
  over events that are stored; the error handler writes to the database that may
  just have failed. *Correct:* no message is passed over without a trace, and
  `latest_processed_offset` claims no more than what was handled; silver keeps up.
- **Aggregates.** Three writers (refresh function, consumer, dbt) for one silver
  table, from different snapshots; dbt looks back ten minutes from the newest
  window. *Correct:* what is counted stays counted, an event that waits stays
  within the look-back, and one writer that commits makes up for refreshes that
  were left out before it.
- **Query API.** Pages by offset over a table that grows. *Correct:* a reader
  that comes to an empty page has seen every row there was when it started.
- **dbt refresh job.** A chain of steps of which any may fail, on a disk that may
  hold what an earlier execution left. *Correct:* no failure is lost on the way to
  the exit code; metrics are those of the command before, or say that they could not
  be read, unless the results path names another file; credentials do not stay on disk.
- **Quality checks.** Six queries, one after the other, while the append job moves
  the tables. *Correct:* a report without a failed check vouches for the table as
  it was when the checks began; a staging alarm is explained; no flaw goes
  without an alarm for ever.

`PROJECT.json` lists each hazard at its line with the properties that cover it.

## 2. Modules

| Module | What it is |
|---|---|
| `OrderedAppend` | what the copy in BigQuery promises: the oldest rows of the source, each once, without a hole |
| `BigQueryAppend` | the append job call by call, with inserting sessions, overlap, failures |
| `AppendOverlap` | the same with a history of which executions overlap: what one that was alone still promises |
| `IngestContract` | what ingestion promises: where a message is, which message recorded an event |
| `PubSubIngest` | subscription, worker and database transactions |
| `Platform` | both on one bronze table: the append job's inserting sessions are the worker's transactions, orphaned ones included |
| `EventStore` | bronze as the local stack uses it: one statement a transaction, each event_id once |
| `Aggregates` | one table of aggregates, full refreshes and incremental dbt runs beside each other |
| `KafkaConsumer` | the consumer's loop, its restarts and its error handler, over `Aggregates` |
| `EventsPaging` | `GET /events` read page by page while rows are added |
| `LocalStack` | consumer, dbt and reader on one event store |
| `DbtMetrics`, `DbtRefreshJob` | what a push makes of dbt's artifact; the job around it |
| `QualityChecks` | checks, report, push and alert beside `BigQueryAppend` |
| `MC...` | the instances TLC checks |
| `..._proofs` | theorems and proofs about the module they are named after |

`BigQueryAppend` is composed twice: `QualityChecks` extends it, `Platform`
instantiates it, with bronze and the inserting sessions defined from the state of
`PubSubIngest`; `OrderedAppend` is the abstract log of both, once over the rows of
`BigQueryAppend` and once over those of the worker. `LocalStack` is the conjunction of `KafkaConsumer` (which extends
`Aggregates`) and `EventsPaging` over the one variable `bronze`.

In a model, a definition whose comment starts with "Faulty" is not part of the
system: it is a plausible mistake in the definition below it, kept to show that
a property notices.

### BigQueryAppend and the code

`run()` in `apps/bigquery-append-job` makes one remote call after another; each
is an action, named after it: `ReadCursor`, `ExportBatch` or `ExportNothing`
(no rows: the early `return 0`, which leaves the staging table alone),
`TruncateBeforeLoad`, `LoadStaging` or `LoadPartly` (row errors: the early
failure, with some rows already in), `MergeStaging`, `CheckDuplicates` (only
warns), `TruncateAfterMerge`, `ReturnSuccess`. `RunFails` is the `except` block,
or the task timeout, at any point; a call that took effect while its answer was
lost is that call's action followed by `RunFails`. `pc`, `cursor` and `batch` are
`run()`'s locals, per execution. A row is its `event_id` and `ingested_at`: the
export, the cursor and the MERGE look at nothing else. `inserting` holds the open
insert transactions: `ingested_at` is `NOW()`, the time at which the transaction
began, and the row is visible from its commit on.

Taken for granted: BigQuery's statements are atomic and take effect when they
say so, the TRUNCATE after a streaming load included; `insert_rows_json` retries
inside the client are deduplicated by their insert ids; both databases keep the
same microseconds; a cursor of 0 stands for the NULL of an empty table. A
statement that outlives a killed execution behaves like an execution that
overlaps the next one. The dry run changes nothing and is left out.

`AppendOverlap` adds `disturbed`, a history of the executions under way that another
one has been under way with; it is no part of the code. Two executions that overlap
may leave anything in the staging table and duplicates in the target; the properties
say what the next one, alone, makes of that.

### PubSubIngest and the code

`Publish` is the publisher, for anything that reaches the topic: an event, data
that is no event, or attributes alone. `Push`, `DeadlinePasses`, `DeadLetter` and
`Expire` are the subscription of `pubsub.tf`; `DropRequest` is a push that never
reaches the worker. `Refuse` and `Accept` are the worker's first half, up to the
insert (400: no data; 500: not an event); `InsertRow`, `SkipExisting` (ON
CONFLICT DO NOTHING), `InsertFails` (also a valid event that the table refuses, such as
a price beyond NUMERIC(18, 8)), `Commit` and `CommitFails` are
`insert_bronze_event` inside `process_message`; `Acknowledged`, `NotAcknowledged`
and `AnswerIgnored` are the ends an answer can come to. `Crash` ends the instance
anywhere. `OrphanCommits` and `OrphanRollsBack` end a transaction whose client
went away; until then it locks its event_id (`NotLocked`).

The worker serves one request at a time (`max_instance_count = 1`,
`max_instance_request_concurrency = 1`, and the handler blocks its event loop);
the 60 s request timeout does not stop a handler that is under way. Two
revisions serving side by side during a roll-out are not modelled. Delivery
attempts are counted exactly, while Pub/Sub counts approximately; copies of a
message in the dead-letter topic are not told apart. `refused` is a history of
the last answer; no action reads it.

### Platform and the code

The session that inserts for a push request is the request itself: `Inserting`
maps each request with an open transaction to its one row, `Rows` are the
committed ones. `IngestStep` is any step of `PubSubIngest`, with `ingested_at`
stamped by the database when a transaction begins and gone when it is rolled back
(`Stamps`); `AppendStep` is any step of the job. `Carries` fixes what the
publisher puts into each message. `overtaken` is a history: a row became visible
after one with a later `ingested_at`. Waiting for a lock takes place before the
stamp; the order is the same, since the worker begins nothing else meanwhile.

### Aggregates, KafkaConsumer and the code

A row of `silver.market_event_minute_aggregates` (or of gold) stands for the
events it counts, of which sums, averages and extremes are functions: `counted`
holds those of all rows. `Begin` is the snapshot a writer's statement takes: all of
bronze for the refresh functions of `init.sql`, the look-back window for a dbt run
(`Selection`); `Write` is its commit, in which the groups read replace the rows
with their keys (ON CONFLICT DO UPDATE, and dbt's delete+insert); `Abort` is
everything else. Silver (minutes, 10 of look-back) and gold (days, 3) are two
instances of one algorithm, and one table is modelled at a time. `late`, `seen`, `older`,
`outdated` and `undone` are histories. `seen` is what was stored when a writer began;
the last three follow writers that are at work together: a writer is outdated when one that took its snapshot later has
committed, and something is undone when an outdated writer commits after all.
Reads and commits are atomic: of two writers of one group the second waits for the
row locks of the first, and a deadlock ends one of them (`Abort`).

`KafkaConsumer` follows `main()` of `apps/consumer`: `StoreEvent`, `WriteMetrics`,
`BeginRefresh` and `EndRefresh` when `processed` is a multiple of the interval, and
for each of them the failure that goes to the handler (`StoreFails`, `MetricsFail`,
`RefreshFails`), with the effect of the statement there or not. `RecordError` is the
handler; `RecordFails` its own exception, which ends the process. `PollRaises` is a
value that is no JSON: the deserializer raises outside the handler. `Crash` may
come anywhere; `StartConsumer` begins at the earliest offset. `lastOffset` is what
the API shows as `latest_processed_offset`. An open refresh whose client has died is
resolved at the crash, not later; offsets count from 1.

### EventsPaging and the code

`Clamp` is `safe_limit`, `Page` the query with ORDER BY, LIMIT and OFFSET. The
order (`ingested_at`, `event_id`) is represented by the numbers of the events,
which arrive in any order: a row can appear before older ones. The reader is
external; it asks for the rows behind those it has got, as the API's pagination
tests do.

### DbtMetrics, DbtRefreshJob and the code

`DbtRefreshJob` follows `run()`: `Start` or `RefuseConfig` (`_resolve_config`),
`WriteProfile` or `WriteProfileFails` (`profiles_dir` is then not set and nothing is
deleted), each dbt command of the mode in order (`DbtSucceeds`, `DbtFails`), after
`run` and `test` the push (`SkipMetrics`, `PushMetrics`, `PushFails`), the `finally`
block (`DeleteProfile`), and `Exit`; `Killed` is the task's timeout anywhere. The
disk, with the profile and `run_results.json`, is kept from one execution to the
next (a local machine) or new (Cloud Run). A file is a function from nodes to statuses,
and by whom it was written, or `Malformed`; `DbtMetrics` computes the series of a push
from it. Two things can go wrong in `parse_run_results`: an entry that it cannot read
costs that entry and counts as a parse error; when the function raises as a whole,
`main()` goes on with no nodes and one parse error, pushes zeros and exits with 0
(`OuterErrors`).

The results path is dbt's artifact unless `DBT_METRICS_RUN_RESULTS_PATH` is set
(`config.path`); then the script may find any file there, or none (`AtPath`), and
pushes what it finds. The properties on what Cloud Monitoring shows are about dbt's
artifact: of a foreign file there is nothing to be promised. `latest`
is a history of what the last command did, whether or not the artifact got
it; `pushed` one of the commands whose push exited with 0. A file that is no JSON
fails the push like a missing one. Left out: another script under
`DBT_METRICS_SCRIPT_PATH`.

A push that fails makes the execution fail. `docs/dbt-observability-metrics-plan.md:658`
wanted it otherwise; `docs/dbt-metrics-runtime-proof-runbook.md:74` and
`tests/test_dbt_refresh_job.py:655` ask for the exit code, so the code does what was
decided later and this is not among the findings.

### QualityChecks and the code

`RunCheck(i)` is one query of `run_checks`, in its order; between two of them the
append job takes any steps (`StoreStep`). `PushReport` is the push script with the
report at hand, which the workflow runs whether or not the checks passed;
`ChecksRaise` is a query that raises, after which there is no report. `gauges` are
the last points of `failed_checks_count`, on which the alert policy of
`monitoring.tf` watches, and of the row count. `flawed` and `leftover` are
histories: what was wrong when the checks began, and that a run failed since rows
came into the staging table. One run of the workflow at a time is assumed: nothing in
`bigquery-quality-checks.yml` keeps a run started by hand (`workflow_dispatch`) from
overlapping the scheduled one (it has no `concurrency` group), and then a report may be
pushed after one that began later; `RowCountNeverFalls` does not cover that.

## 3. What TLC checks

| Run | Question | Result |
|---|---|---|
| `append_serial` | one execution at a time, one inserting session: does every row arrive once, in order, after any failure, and does the job get on? | holds |
| `append_overlap` | two executions, two sessions: what is left? | only committed rows are copied; an execution that nobody overlapped delivers its batch and adds no duplicate |
| `append_overlap_duplicates` | ... and no duplicate event_id? | violated |
| `append_equal_times` | does a run that brings nothing new mean that the copy is complete? | violated when a transaction inserts as many rows as the batch limit |
| `ingest` | two messages with any contents, of one event or not | holds |
| `ingest_dead_letter_stored` | does the dead-letter topic hold rejected messages only? | violated |
| `ingest_bad_request_retried` | is a 400 dead-lettered rather than retried? | violated |
| `platform` | ingestion and append job together: are the worker's transactions what the job expects, can each copied row be traced to a published message? Is the copy ordered and without a gap, has a run that finds nothing new nothing left to do, does an acknowledged event arrive? | holds, the second half until a transaction is overtaken |
| `local_stack` | consumer, dbt and a reader together: is no message skipped, does silver keep up and never count less, does one dbt run make up for a refresh that was left out, does a reader see every row? | holds, for silver until an outdated writer has written |
| `dbt_refresh` | is no failure lost on the way to the exit code, are the metrics those of the command before, is each model accounted for, is the profile deleted? | holds |
| `dbt_failure_unalerted` | does `dbt_run_failure_count` show a failed dbt run? | violated |
| `quality` | checks beside two overlapping executions: what do a quiet report, a staging alarm and the row count say? | holds |

**Bounds.** `append_serial` has four rows in three transactions of up to two,
and a batch limit of three: a batch can end inside a group of rows that share an
`ingested_at`, the next one must start from the middle of the group, and a third
run finds nothing. The limit is larger than a transaction, without which the job
need not get on (`append_equal_times`). `append_overlap` has two of everything,
enough for one execution to act between any two calls of the other. `ingest` has
two messages, one event_id and two delivery attempts: messages interfere through
an event_id and through the worker, and two attempts are enough for the second to
run against the first, and for a dead letter. `MaxClock` bounds the transactions
begun; nothing else is cut off.

`platform` has two messages with an event each and one delivery of each: enough for
a transaction to be orphaned and for the other message's row to overtake it. A
second attempt (3.2 million states) was checked once for `PlatformTypeOK` and
`CopyHasNoGap`, outside the runs; all but the liveness is proved for any number.
`local_stack` has three events in a topic with a rejected message in the second place and an undecodable one at the end, a refresh
after every second event, windows two wide and a look-back of one window, so that
an event can fall behind it; readers ask for -1 or 3 rows and get 1 or 2. One full refresh and one dbt run write
silver; two of each, on `Aggregates` alone, were checked once outside the runs, and any
number is proved.
`dbt_refresh` has two models and one test with every combination of statuses, any of
these files or a malformed one at a results path that is not dbt's, and executions
without end on one disk or new ones. `quality` has one insert
transaction of one row, of an accepted type or not, and two executions, whose
overlap gives the duplicate.

**Deadlock** is checked but for the ingest instances, which stop when every message
is settled. The other systems have a job that can always start again.

**Fairness.** The append job: the scheduler keeps starting it (it is paused until
it is enabled) and no call fails for ever, so each call that a run keeps reaching
succeeds in the end (strong fairness: failures may come between); the bookkeeping
steps need only weak fairness, `RunFails` being one of their outcomes. Inserting
sessions may stop at any point. Ingestion: Pub/Sub pushes, lets deadlines pass
and dead-letters (weak fairness); nothing is assumed of the worker, which may
crash for ever, nor of publishers and retention. `Platform` assumes the job's fairness alone.
Local stack: none. Nothing in `docker-compose.yml` restarts the consumer or schedules dbt,
so that there is no liveness to claim; what one writer achieves when it does
commit is the action property `WriterCatchesUp`.
Quality checks: the daily workflow keeps getting a report pushed; nothing is
assumed of the append job, which may stop in the middle of a run for good.

## 4. What is proved

Every theorem is for any finite number of events, sessions, executions and
messages, and any batch limit.

- **`BigQueryAppend_proofs`.** Without an assumption on the environment:
  `TypeCorrect`, `CopiesOnlyCommitted`. With executions that
  do not overlap (`OneJob`): `NoDuplicates` and `SuccessIsDelivery`, from
  `SerialInv`: what the staging table holds depends on how far the run has come
  (empty after the truncation, the batch itself before the merge), which is why
  leftovers of a failed run never reach the target. What the order of the copy
  rests on is the order of commits, not the number of sessions: as long as each row
  that becomes visible is later than all that are (`CommitsInOrder`), any number of
  sessions gives `CommitOrderLeavesNoGap` and `CommitOrderImplementsLog`, from
  `OrderInv`: the target has no gap, and the run's cursor and batch are still current
  when it merges. `NoGaps` alone is not inductive, since it says nothing of a
  batch on its way. With one inserting session (`OneWriter`) commits are in order
  (`OneWriterCommitsInOrder`), which gives `NothingLeftBehind` and `ImplementsLog`.
  The heart is `FirstRowsIsSegment`: the ordered, limited export takes a lowest
  segment of its candidates, by a cardinality argument. When transactions are smaller
  than the batch limit too (`SmallTransactions`), `CommitOrderCatchesUp` and
  `NoNewRowsIsCaughtUp`: were a row waiting, the first such row (`FirstWaiting`, a
  minimal element of a well-founded order) would be kept out of the export only by a
  full batch of rows with the cursor's `ingested_at`, and `FewRowsPerTime`, which
  `TransactionsApart` gives for any sessions, says that there are fewer. It is the step
  on which the liveness of the job rests.
- **`AppendOverlap_proofs`.** `AloneIsDelivery` and `AloneMergesOnce`, for any number of
  executions that overlap in any way, from `AloneOwnsStaging`: while an execution is
  alone every other one is idle, and from its first truncate on the staging table holds
  what it has put there. A step of any other execution makes it one that is not alone.
- **`PubSubIngest_proofs`.** `TypeCorrect`, `AckIsDurable`, `FirstWriterWins`,
  `KeepsContract`, for every worker crash, answer and transaction order, from
  `Inv`: requests carry published messages; the worker's step agrees with its
  request; an open transaction's event has no row and no second open
  transaction; a 200 about to be answered is already true. `RowWriters` says
  that a row changes only from none to an open transaction's message, and
  `RowsAreOfMessages` that it holds a message with the row's event_id.
- **`Platform_proofs`.** `PlatformImplementsAppend`: for every set of messages and any
  number of attempts, the platform implements `BigQueryAppend`. By `DatabaseSteps`
  a step of ingestion begins, commits or rolls back one transaction or leaves the
  database alone; `Inv` of `PubSubIngest` (`IngestBelow`) gives what the append job
  takes for granted, that an event_id is inserted once. This refinement carries the
  results over: `PlatformAckIsDurable` from ingestion, and from the append job, through
  the instance `Copy` of its proofs, `PlatformCopiesOnlyCommitted` and, under `OneJob`, `PlatformNoDuplicates` and
  `PlatformSuccessIsDelivery`. Both together give `CopiedIsPublished`: from BigQuery
  back to a published message. `OneWriter` does not hold here, and is not needed:
  until a transaction is overtaken commits are in order (`InOrderUntilOvertaken`;
  times are distinct, since a request inserts one row), so that `CopyInv`, which is
  `OrderInv` up to that moment, gives `PlatformLeavesNoGap`, `PlatformKeepsOrder` and,
  with a batch limit above 1 (`SmallTransactions`), `QuietRunIsDelivery`.
- **`Aggregates_proofs`.** `AggTypeCorrect`, `UncountedStaysInReach`, `CountedStaysCounted`,
  `WritersCatchUp`, for any number of writers at work together. No such property is inductive: a writer
  at work may be about to replace rows by less. `AggInv` adds that of two open writers
  one has read first, and the other has read more of each group that both have read
  (`OverlapInv`); that a writer that is not outdated has read, of a group it has read,
  every event that is counted (`GroupsWhole`: a look-back cuts between windows); that
  what older writers are going to count it has read or finds counted (`OlderIncluded`);
  and that what it has not read will still be in reach when it is done
  (`UnreadInReach`). `WritersCatchUp` adds that a writer has read, or finds counted, all
  that was there when it began (`SeenIncluded`). So writers may overlap as they like, as long as the last one to
  commit is not one that read earlier; that this can happen and then takes counted
  events away is the one exception the properties name, and nothing in the code
  keeps the consumer, the refresh job and dbt from it.
- **`LocalStack_proofs`.** `StackImplementsAggregates` carries the
  results on aggregates over to the whole stack. `NothingIsSkipped`, from
  `ConsumerInv`, which ties each phase to what has happened to the message at hand.
  `SilverLagBounded`, from `LagInv`, beside any jobs and dbt runs: between messages no more than
  `processed % Interval` events are uncounted, one more than that before while a
  message's metrics are written, and a refresh that is due has read all of bronze. `PagingMissesNothing`, from `PagingInv`: a row that was there at the start
  and was not read lies at or behind the offset; that an empty page leaves none
  (`NoHoleInOffsets`) takes a minimal row of a well-founded order and an argument
  on cardinalities.
- **`DbtRefreshJob_proofs`.** `TypeCorrect`, `SuccessIsHonest`, `CredentialsDeleted`,
  `MetricsStayCurrent`, `ModelsAreCounted`, for any models and tests and any file at the
  results path, from `JobInv`: the artifact at a push is that of the command before,
  which succeeded, or malformed;
  commands that have succeeded and commands to be run make up the plan, in order;
  an exit code of 0 in the clean-up means that none is left.
- **`QualityChecks_proofs`.** `QualityTypeCorrect`, `NoAlertNoFlaw`, `StagingAlarmExplained`,
  `ShownCountGrows`, with any number of executions that overlap, from `QualityInv`:
  a report under way that has failed no check has the check that finds the flaw
  still ahead of it (`FlawAhead`), since the append job removes none.

Assumptions on constants, which TLC evaluates in each run: `EventsAssumption`,
`BoundsAssumption`, `ContentsAssumption`, `NoneAssumption`, `AttemptsAssumption`,
`PlatformAssumption`, `WindowsAssumption`, `ConsumerAssumption`, `LimitsAssumption`,
`NodesAssumption`, `QualityAssumption`, and that of `EventStore`. `OneJob`, `OneWriter`
and `SmallTransactions` are hypotheses of the theorems that need them and hold in
`append_serial`. `append_overlap_duplicates` and `append_equal_times` show that `OneJob`
and `SmallTransactions` cannot be dropped. Nor can `OneWriter`, or `CommitsInOrder` in its
place: a row whose transaction commits after the export of one that began later lies
behind the cursor, and no run selects it again. This is no finding, since
`docs/replay-backfill-strategy.md` concedes it (:120, :205-208, :220). The scheduler and
operators must provide `OneJob`. `OneWriter` is not what ingestion guarantees: the worker
inserts one event at a time, but a transaction that outlives its instance is a second
writer beside the next one. The theorems on `Platform` do without it, up to the first
transaction that is overtaken; a row that is left behind is what comes after.

Only model-checked: liveness (`EveryRowAppended`, `ValidEventStoredOrGivenUp`,
`AckedReachesBigQuery`, `FlawIsAlarmed`), which is out of the prover's
reach. Every other property of a passing run is proved.

## 5. Findings

1. Overlapping executions put an event_id into BigQuery twice and exit with 0
   (`append_overlap_duplicates`).
2. `APPEND_BATCH_LIMIT` rows with one `ingested_at` stop the job from ever getting
   on, while each run reports success (`append_equal_times`).
3. The dead-letter topic can hold messages that are stored
   (`ingest_dead_letter_stored`).
4. A malformed message is retried like any failure (`ingest_bad_request_retried`).
5. A dbt run in which a model fails never raises `dbt_run_failure_count`, the signal that
   the alert on it is to watch: the job ends before the metrics are pushed
   (`dbt_failure_unalerted`). Only the exit code tells of it.

## 6. Plan

1. Carry the theorems of `BigQueryAppend_proofs` over to `QualityChecks`, whose store is
   the same job: with executions that do not overlap no report finds a duplicate.
2. A reader of the API that goes on by the limit it asked for, beside the one that counts
   the rows it got.
3. Quality reports that overlap, pushed in another order than they began in.

## 7. Not modelled

- **Beam pipelines.** A declaration of transforms; their state, bundles and retries
  are Dataflow's. What is the repository's own is a validation without state and
  the handling of arguments and a wheel.
- **Load-test scripts.** Sequential tools on files, all of which a test reaches.
- **Terraform, CI, dashboards, evidence.** What they fix (limits, deadlines,
  schedules, alert conditions) is in the models.
- **Event contract.** Which payload is a `MarketEvent` is pydantic's verdict; the
  models have both outcomes.
- **Kafka producer and Pub/Sub publisher.** What they send is the topic's content;
  a failed send ends them.
- **Query API but `/events` and the offset metric.** One read of one statement each.
- **Quality checks for age and for NULLs.** The first is off in the schedule; no row
  that the append job writes can fail the second.
