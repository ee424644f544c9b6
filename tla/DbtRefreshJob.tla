--------------------------- MODULE DbtRefreshJob ---------------------------
(***************************************************************************)
(* The dbt refresh job (apps/dbt-refresh-job): executions, one after the   *)
(* other, write a profile with the database's credentials, run the dbt     *)
(* commands of their mode, push the metrics of run and test, and delete    *)
(* the profile.  Any command may fail, and the execution may be killed     *)
(* (the task's timeout) between any two steps.  The disk is what a local   *)
(* machine keeps between executions; a Cloud Run execution starts with an  *)
(* empty one.  The results path of the metrics is dbt's artifact unless    *)
(* DBT_METRICS_RUN_RESULTS_PATH names another file, of which the job knows *)
(* nothing.                                                                *)
(***************************************************************************)
EXTENDS DbtMetrics

VARIABLES
    pc,         \* where run() is
    config,     \* mode and metrics settings of the execution
    todo,       \* dbt commands that are still to be run
    exitCode,   \* exit_code, 1 standing for any failure
    owned,      \* profiles_dir is set: the profile is this execution's
    profile,    \* profiles.yml on disk
    artifact,   \* run_results.json on disk
    gauges,     \* the last point of each series in Cloud Monitoring
    \* History, which no action reads:
    succeeded,  \* commands of this execution that exited with 0
    pushed,     \* commands of this execution whose push exited with 0
    latest,     \* what the last command that ran did, on disk or not
    undeleted   \* deleting the profile failed

disk == <<profile, artifact>>
history == <<succeeded, pushed, latest, undeleted>>
vars == <<pc, config, todo, exitCode, owned, disk, gauges, history>>

Modes == {"compile", "run", "test", "run-and-test"}
Configs == [mode : Modes,
            metrics : {"off", "dry", "live"},  \* enabled, and dry run or not
            path : {"artifact", "elsewhere"}]      \* the results path
\* What _resolve_config refuses.
ConfigFaults == {"mode", "database_url", "missing", "port", "profiles_dir", "flag"}

Reported == {"run", "test"}       \* the commands whose metrics are pushed
None == [by |-> "none"]           \* no file, no command, no point

Plan(mode) ==
    {"deps"}
    \cup (IF mode \in {"compile", "run", "run-and-test"} THEN {"compile"} ELSE {})
    \cup (IF mode \in {"run", "run-and-test"} THEN {"run"} ELSE {})
    \cup (IF mode \in {"test", "run-and-test"} THEN {"test"} ELSE {})

Rank(c) == CASE c = "deps" -> 1 [] c = "compile" -> 2 [] c = "run" -> 3 [] c = "test" -> 4

IsFirst(c) == c \in todo /\ \A d \in todo : Rank(c) <= Rank(d)

TypeOK ==
    /\ pc \in {"idle", "profile", "step", "push", "cleanup", "done"}
    /\ config \in Configs
    /\ todo \in SUBSET Commands
    /\ exitCode \in {0, 1}
    /\ owned \in BOOLEAN
    /\ profile \in {"absent", "partial", "written"}
    /\ artifact \in {None} \cup Files
    /\ gauges \in {None} \cup Points
    /\ succeeded \in SUBSET Commands
    /\ pushed \in SUBSET Reported
    /\ latest \in {None} \cup Files
    /\ undeleted \in BOOLEAN

Unconfigured == [mode |-> "compile", metrics |-> "off", path |-> "artifact"]

Init ==
    /\ pc = "idle"
    /\ config = Unconfigured
    /\ todo = {}
    /\ exitCode = 0
    /\ owned = FALSE
    /\ profile = "absent"
    /\ artifact = None
    /\ gauges = None
    /\ succeeded = {}
    /\ pushed = {}
    /\ latest = None
    /\ undeleted = FALSE

-----------------------------------------------------------------------------
\* A new execution, with the disk of the one before or a new one.
BeginExecution ==
    /\ pc = "idle"
    /\ exitCode' = 0
    /\ owned' = FALSE
    /\ succeeded' = {}
    /\ pushed' = {}
    /\ latest' = None
    /\ undeleted' = FALSE
    /\ UNCHANGED gauges

KeepOrNewDisk == \/ UNCHANGED disk
                 \/ profile' = "absent" /\ artifact' = None

Start(c) ==
    /\ BeginExecution
    /\ KeepOrNewDisk
    /\ pc' = "profile"
    /\ config' = c
    /\ todo' = Plan(c.mode)

\* A configuration with a fault ends the execution before it touches anything.
RefuseConfig(faults) ==
    /\ faults # {}
    /\ pc = "idle"
    /\ pc' = "done"
    /\ exitCode' = 1
    /\ UNCHANGED <<config, todo, owned, disk, gauges, history>>

WriteProfile ==
    /\ pc = "profile"
    /\ pc' = "step"
    /\ profile' = "written"
    /\ owned' = TRUE
    /\ UNCHANGED <<config, todo, exitCode, artifact, gauges, history>>

\* Faulty: the execution is not over after a failure.
WriteProfileHangs ==
    /\ pc = "profile"
    /\ pc' = "failed"
    /\ exitCode' = 1
    /\ profile' \in {profile, "partial"}
    /\ UNCHANGED <<config, todo, owned, artifact, gauges, history>>

\* mkdir or write_text raises: profiles_dir stays None and nothing is deleted,
\* be it the first half of the file.
WriteProfileFails ==
    /\ pc = "profile"
    /\ pc' = "done"
    /\ exitCode' = 1
    /\ profile' \in {profile, "partial"}
    /\ UNCHANGED <<config, todo, owned, artifact, gauges, history>>

Continue(rest) == pc' = IF rest = {} THEN "cleanup" ELSE "step"

\* Every command but deps replaces the artifact, by one that the script can
\* make sense of or not.
Written(c) == IF c = "deps" THEN {artifact} ELSE {latest', Malformed}

DbtSucceeds(c) ==
    /\ pc = "step" /\ IsFirst(c)
    /\ \E r \in Results(c) : Passed(r) /\ latest' = [by |-> c, results |-> r]
    /\ artifact' \in Written(c)
    /\ todo' = todo \ {c}
    /\ succeeded' = succeeded \cup {c}
    /\ IF c \in Reported THEN pc' = "push" ELSE Continue(todo \ {c})
    /\ UNCHANGED <<config, exitCode, owned, profile, gauges, pushed, undeleted>>

\* The command exits with another code, or cannot be started: the loop ends.
\* Its results may not have reached the artifact.
DbtFailsThen(c, next) ==
    /\ pc = "step" /\ IsFirst(c)
    /\ \E r \in Results(c) : latest' = [by |-> c, results |-> r]
    /\ artifact' \in {artifact} \cup Written(c)
    /\ exitCode' = 1
    /\ pc' = next
    /\ UNCHANGED <<config, todo, owned, profile, gauges, succeeded, pushed,
                   undeleted>>

\* Faulty: the loop pushes the metrics before it looks at the exit code.
DbtFailsThenPush(c) ==
    DbtFailsThen(c, IF c \in Reported THEN "push" ELSE "cleanup")

DbtFails(c) == DbtFailsThen(c, "cleanup")

\* What the script may find at the results path: what dbt has left there, or
\* whatever another file holds.  A file that is no JSON is as good as none.
AtPath == IF config.path = "artifact" THEN {artifact} ELSE {None} \cup Files

Readable == AtPath \ {None}

\* Metrics are disabled, or the script has a file and was told not to write.
SkipMetrics ==
    /\ pc = "push"
    /\ config.metrics = "off" \/ (config.metrics = "dry" /\ Readable # {})
    /\ Continue(todo)
    /\ UNCHANGED <<config, todo, exitCode, owned, disk, gauges, history>>

PushMetrics ==
    /\ pc = "push" /\ config.metrics = "live"
    /\ \E file \in Readable : gauges' = TimeSeries(file)
    /\ pushed' = pushed \cup {latest.by}
    /\ Continue(todo)
    /\ UNCHANGED <<config, todo, exitCode, owned, disk, succeeded, latest,
                   undeleted>>

\* Faulty: an exit code of the script other than 0 is not looked at.
PushErrorIgnored ==
    /\ pc = "push" /\ config.metrics = "live"
    /\ Continue(todo)
    /\ UNCHANGED <<config, todo, exitCode, owned, disk, gauges, history>>

\* The script exits with another code: it was not there itself or found no
\* file, or it got no token or an error from Cloud Monitoring, which may have
\* taken the points all the same.
PushFails ==
    /\ pc = "push" /\ config.metrics # "off"
    /\ \/ UNCHANGED gauges
       \/ /\ config.metrics = "live"
          /\ \E file \in Readable : gauges' = TimeSeries(file)
    /\ exitCode' = 1
    /\ pc' = "cleanup"
    /\ UNCHANGED <<config, todo, owned, disk, history>>

\* Faulty: the file is deleted only after a successful run.
DeleteAfterSuccess ==
    /\ pc = "cleanup"
    /\ pc' = "done"
    /\ profile' = IF exitCode = 0 THEN "absent" ELSE profile
    /\ UNCHANGED <<config, todo, exitCode, owned, artifact, gauges, history>>

\* The finally block; an OSError of unlink is swallowed.
DeleteProfile ==
    /\ pc = "cleanup"
    /\ pc' = "done"
    /\ \/ profile' = "absent" /\ UNCHANGED undeleted
       \/ undeleted' = TRUE /\ UNCHANGED profile
    /\ UNCHANGED <<config, todo, exitCode, owned, artifact, gauges, succeeded,
                   pushed, latest>>

\* The process is gone; its locals with it.
Forget ==
    /\ pc' = "idle"
    /\ config' = Unconfigured
    /\ todo' = {}
    /\ exitCode' = 0
    /\ owned' = FALSE
    /\ succeeded' = {}
    /\ pushed' = {}
    /\ latest' = None
    /\ undeleted' = FALSE
    /\ UNCHANGED <<disk, gauges>>

Exit == pc = "done" /\ Forget

Killed == pc \notin {"idle", "done"} /\ Forget

-----------------------------------------------------------------------------
Next ==
    \/ \E c \in Configs : Start(c)
    \/ \E f \in SUBSET ConfigFaults : RefuseConfig(f)
    \/ WriteProfile
    \/ WriteProfileFails
    \/ \E c \in Commands : DbtSucceeds(c) \/ DbtFails(c)
    \/ SkipMetrics
    \/ PushMetrics
    \/ PushFails
    \/ DeleteProfile
    \/ Exit
    \/ Killed

Spec == Init /\ [][Next]_vars

-----------------------------------------------------------------------------
(***************************************************************************)
(* Correctness.                                                            *)
(***************************************************************************)

\* An execution exits with 0 only when every command of its mode has, and,
\* with live metrics, the push after each of run and test: no failure of
\* either is lost on the way to the exit code.  Cloud Monitoring then shows
\* what the last of them did, or that the artifact could not be parsed, unless
\* the results path was set to another file.
SuccessIsComplete ==
    pc = "done" /\ exitCode = 0 =>
        /\ succeeded = Plan(config.mode)
        /\ config.metrics = "live" =>
            /\ pushed = succeeded \cap Reported
            /\ config.path = "artifact" /\ pushed # {}
                => gauges \in {TimeSeries(latest), TimeSeries(Malformed)}

\* Points are only pushed after a run or test of this execution that
\* succeeded; unless the results path was set to another file, they are its
\* own results or say that these could not be parsed, never what another
\* command, or an earlier execution on this disk, has left.
MetricsAreCurrent ==
    [][gauges' # gauges =>
        /\ latest.by \in Reported \cap succeeded
        /\ config.path = "artifact" =>
              gauges' \in {TimeSeries(latest), TimeSeries(Malformed)}]_vars

\* A push of dbt's artifact after dbt run accounts for each model, as
\* succeeded, as failed or as an entry that could not be read; when models are
\* missing from it, then all are, and the parse-error count says so.
EveryModelCounted ==
    [][PushMetrics /\ latest.by = "run" /\ config.path = "artifact" =>
        LET models == gauges'.runSuccess + gauges'.runFailure
        IN  \/ models + gauges'.parseErrors = Cardinality(Models)
            \/ models = 0 /\ gauges'.parseErrors = 1]_vars

\* An execution that ends in order leaves no file with credentials that it
\* wrote, however it failed; it must have been able to delete it.
ProfileDeleted == pc = "done" /\ owned /\ ~undeleted => profile = "absent"

\* What docs/dbt-observability-metrics-plan.md makes the primary signal for
\* "dbt job failed": when a model failed in an execution with live metrics,
\* dbt_run_failure_count is above 0 once the execution is over.
FailedRunIsShown ==
    /\ pc = "done" /\ latest.by = "run"
    /\ config.metrics = "live" /\ config.path = "artifact"
    => \A m \in Models :
          latest.results[m] = "error" => gauges # None /\ gauges.runFailure > 0

=============================================================================
