-------------------------- MODULE MCQualityChecks --------------------------
(***************************************************************************)
(* The append job with overlapping executions and the quality checks.      *)
(***************************************************************************)
EXTENDS QualityChecks, MCBigQueryAppend

\* The second event has an event_type of its own.
SecondRow == {2}

=============================================================================
