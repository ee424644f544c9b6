--------------------------- MODULE QualityChecks ---------------------------
(***************************************************************************)
(* The quality checks of BigQuery (scripts/run_bigquery_quality_checks.py, *)
(* scripts/push_bigquery_quality_metrics.py and the workflow that runs     *)
(* them) beside the append job.  Each check is a query of its own, so      *)
(* that executions of the job move the tables between two checks of one    *)
(* report; the report's figures become points in Cloud Monitoring, on one  *)
(* of which the alert policy watches.                                      *)
(*                                                                         *)
(* Left out: the freshness limit, which the schedule leaves off, and the   *)
(* check for NULLs, which no row can fail that the append job wrote        *)
(* (bronze's columns are NOT NULL, the job stamps bq_load_timestamp).      *)
(***************************************************************************)
EXTENDS BigQueryAppend, Sequences

CONSTANTS
    OtherTypes,    \* events whose event_type is not an accepted one
    MinRowCount    \* --min-row-count

ASSUME QualityAssumption == OtherTypes \subseteq Events /\ MinRowCount \in Nat

VARIABLES
    step,       \* the next check, LastCheck + 1: the push, 0: no workflow run
    failed,     \* number of checks of the report that did not pass
    rowCount,   \* row count that the report gives
    gauges,     \* last points of failed_checks_count and row_count
    \* History, which no action reads:
    flawed,     \* a duplicate or unaccepted row was there as the checks began
    leftover    \* a run failed since its rows came into the staging table

report == <<step, failed, rowCount>>
qualityVars == <<report, gauges, flawed, leftover>>
allVars == <<vars, qualityVars>>

Checks == <<"row_count_positive", "event_id_unique",
            "event_type_accepted_values", "freshness_available",
            "staging_table_empty", "row_count_minimum">>
LastCheck == Len(Checks)

Points == [failed : 0 .. LastCheck, rows : Nat]

QualityTypeOK ==
    /\ step \in 0 .. LastCheck + 1
    /\ failed \in 0 .. LastCheck
    /\ rowCount \in Nat
    /\ gauges \in Points
    /\ flawed \in BOOLEAN /\ leftover \in BOOLEAN

QualityInit ==
    /\ step = 0
    /\ failed = 0
    /\ rowCount = 0
    /\ gauges = [failed |-> 0, rows |-> 0]
    /\ flawed = FALSE
    /\ leftover = FALSE

-----------------------------------------------------------------------------
RowsOf(table) == UNION {{e} \X (1 .. table[e]) : e \in Events}

Duplicated == {e \in Events : target[e] > 1}
Flaws == Duplicated # {} \/ Loaded \cap OtherTypes # {}

\* Faulty: an event_id is a duplicate from its third row on.
PassesTwice(check) ==
    CASE check \in {"row_count_positive", "freshness_available"} ->
            RowsOf(target) # {}
      [] check = "event_id_unique" -> \A e \in Events : target[e] <= 2
      [] check = "event_type_accepted_values" -> Loaded \cap OtherTypes = {}
      [] check = "staging_table_empty" -> RowsOf(staging) = {}
      [] check = "row_count_minimum" -> Cardinality(RowsOf(target)) >= MinRowCount

\* Faulty: every check is given the raw table.
PassesRawTable(check) ==
    CASE check \in {"row_count_positive", "freshness_available"} ->
            RowsOf(target) # {}
      [] check = "event_id_unique" -> Duplicated = {}
      [] check = "event_type_accepted_values" -> Loaded \cap OtherTypes = {}
      [] check = "staging_table_empty" -> RowsOf(target) = {}
      [] check = "row_count_minimum" -> Cardinality(RowsOf(target)) >= MinRowCount

Passes(check) ==
    CASE check \in {"row_count_positive", "freshness_available"} ->
            RowsOf(target) # {}
      [] check = "event_id_unique" -> Duplicated = {}
      [] check = "event_type_accepted_values" -> Loaded \cap OtherTypes = {}
      [] check = "staging_table_empty" -> RowsOf(staging) = {}
      [] check = "row_count_minimum" -> Cardinality(RowsOf(target)) >= MinRowCount

\* An execution has rows in the staging table that it has still to remove.
AtWork == \E j \in Jobs : pc[j] \in {"merge", "check", "cleanup"}

StartChecks ==
    /\ step = 0
    /\ step' = 1
    /\ flawed' = Flaws
    /\ UNCHANGED <<vars, failed, rowCount, gauges, leftover>>

\* Faulty: a check that did not pass may be repeated, and counts again.
RunCheckAgain(i) ==
    /\ step = i
    /\ step' \in IF Passes(Checks[i]) THEN {i + 1} ELSE {i, i + 1}
    /\ failed' = IF Passes(Checks[i]) THEN failed ELSE failed + 1
    /\ rowCount' = IF Checks[i] = "row_count_minimum"
                   THEN Cardinality(RowsOf(target)) ELSE rowCount
    /\ UNCHANGED <<vars, gauges, flawed, leftover>>

RunCheck(i) ==
    /\ step = i
    /\ step' = i + 1
    /\ failed' = IF Passes(Checks[i]) THEN failed ELSE failed + 1
    /\ rowCount' = IF Checks[i] = "row_count_minimum"
                   THEN Cardinality(RowsOf(target)) ELSE rowCount
    /\ UNCHANGED <<vars, gauges, flawed, leftover>>

EndChecks ==
    /\ step' = 0
    /\ failed' = 0
    /\ rowCount' = 0
    /\ flawed' = FALSE
    /\ UNCHANGED <<vars, leftover>>

\* A query fails, or the workflow run ends: no report is written, and the push
\* that runs all the same finds none.
ChecksRaise ==
    /\ step \in 1 .. LastCheck
    /\ EndChecks
    /\ UNCHANGED gauges

\* Faulty: a report that failed gives no row count.
TimeSeriesOfPassed == [failed |-> failed, rows |-> IF failed = 0 THEN rowCount ELSE 0]

TimeSeries == [failed |-> failed, rows |-> rowCount]

\* Faulty: the push step runs only when the checks passed.
PushAfterSuccess ==
    /\ step = LastCheck + 1
    /\ EndChecks
    /\ gauges' = IF failed = 0 THEN TimeSeries ELSE gauges

PushReport ==
    /\ step = LastCheck + 1
    /\ EndChecks
    /\ gauges' = TimeSeries

\* No token, or an error of Cloud Monitoring, which may have taken the points.
PushFails ==
    /\ step = LastCheck + 1
    /\ EndChecks
    /\ gauges' \in {gauges, TimeSeries}

-----------------------------------------------------------------------------
\* What the store does beside it; leftover keeps track of failed runs.
StoreStep ==
    /\ Next
    /\ leftover' = \/ leftover /\ staging' # Empty
                   \/ \E j \in Jobs :
                        LoadPartly(j) \/ (RunFails(j) /\ staging # Empty)
    /\ UNCHANGED <<report, gauges, flawed>>

QualityNext ==
    \/ StoreStep
    \/ StartChecks
    \/ \E i \in 1 .. LastCheck : RunCheck(i)
    \/ ChecksRaise
    \/ PushReport
    \/ PushFails

(***************************************************************************)
(* The workflow is scheduled every day, and no query and no push fails for *)
(* ever: reports keep being pushed.  Nothing is assumed of the job.        *)
(***************************************************************************)
QualityFairness == []<><<PushReport>>_allVars

QualitySpec ==
    Init /\ QualityInit /\ [][QualityNext]_allVars /\ QualityFairness

-----------------------------------------------------------------------------
(***************************************************************************)
(* Correctness.                                                            *)
(***************************************************************************)

\* No alert means no flaw: when a report that failed no check is pushed, there
\* was no duplicate event_id and no unaccepted event_type in the target as its
\* checks began, although the job was at work between the checks.
QuietMeansClean == [][PushReport /\ gauges'.failed = 0 => ~flawed]_allVars

\* A staging alarm is true: the rows found in the staging table are those of a
\* run at work or of one that has failed, so that an alarm with no run under
\* way is a failed run's.
StagingAlarmIsTrue ==
    [][\A i \in 1 .. LastCheck :
        RunCheck(i) /\ Checks[i] = "staging_table_empty" /\ failed' # failed
            => AtWork \/ leftover]_allVars

\* The row count in Cloud Monitoring never falls from one report to the next:
\* rows are only appended, whatever runs overlap or fail.
RowCountNeverFalls == [][gauges'.rows >= gauges.rows]_allVars

\* A flaw is alarmed in the end, and for good: the job removes no duplicate.
FlawIsAlarmed == Flaws ~> [](gauges.failed > 0)

=============================================================================
