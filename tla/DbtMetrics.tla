----------------------------- MODULE DbtMetrics -----------------------------
(***************************************************************************)
(* What scripts/push_dbt_metrics.py makes of a JSON file that dbt, or      *)
(* something else, has left at the results path.  A file says by which     *)
(* command it was written and has the results of its nodes as the script   *)
(* sees them: a status, or "unreadable" for an entry that the loop of      *)
(* parse_run_results gives up on (a rows_affected that is no number).      *)
(* Labels, times and the per-model row counts carry nothing that a         *)
(* property tells apart.                                                   *)
(***************************************************************************)
EXTENDS Integers, FiniteSets

CONSTANTS Models, Tests     \* the nodes of the dbt project

ASSUME NodesAssumption ==
    /\ IsFiniteSet(Models) /\ IsFiniteSet(Tests)
    /\ Models \cap Tests = {}

ModelStatus == {"success", "error", "skipped", "unreadable"}
TestStatus == {"pass", "fail", "error", "warn", "skipped", "unreadable"}

\* What a dbt command may do to its nodes; dbt deps has none.
Results(command) ==
    CASE command = "run" -> [Models -> ModelStatus]
      [] command = "test" -> [Tests -> TestStatus]
      [] command = "deps" -> {<<>>}
      [] OTHER -> [Models \cup Tests -> {"success", "error"}]

Commands == {"deps", "compile", "run", "test"}

\* A JSON file on which parse_run_results raises as a whole, outside its loop:
\* the file, its metadata or its args are no object, its results no sequence.
Malformed == [by |-> "malformed", results |-> <<>>]

Files == {Malformed} \cup UNION {[by : {c}, results : Results(c)] : c \in Commands}

\* dbt exits with 0 when no node failed or was skipped because of a failure.
Passed(results) ==
    \A n \in DOMAIN results : results[n] \in {"success", "pass", "warn", "unreadable"}

\* Nodes of one type with one of the statuses; "unreadable" ones have none.
Count(results, nodes, statuses) ==
    Cardinality({n \in DOMAIN results \cap nodes : results[n] \in statuses})

\* The handler in main() goes on with no nodes and one error.
OuterErrors(file) == IF file = Malformed THEN 1 ELSE 0

\* Faulty: what cannot be parsed is passed over in silence.
NoParseErrors(file) == 0

ParseErrors(file) ==
    Count(file.results, Models \cup Tests, {"unreadable"}) + OuterErrors(file)

\* Percentage, 0 without any test; the fraction is dropped, which keeps
\* "all" (100) apart from "not all".
PassRate(pass, failure) ==
    IF pass + failure = 0 THEN 0 ELSE (100 * pass) \div (pass + failure)

\* The series of one push.
TimeSeries(file) ==
    LET pass == Count(file.results, Tests, {"pass"})
        failure == Count(file.results, Tests, {"fail", "error"})
    IN  [runSuccess |-> Count(file.results, Models, {"success"}),
         runFailure |-> Count(file.results, Models, {"error"}),
         testPass |-> pass,
         testFailure |-> failure,
         passRate |-> PassRate(pass, failure),
         parseErrors |-> ParseErrors(file)]

Points == {TimeSeries(f) : f \in Files}

=============================================================================
