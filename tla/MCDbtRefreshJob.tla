-------------------------- MODULE MCDbtRefreshJob --------------------------
(***************************************************************************)
(* Small instances of the dbt refresh job for TLC.                         *)
(***************************************************************************)
EXTENDS DbtRefreshJob, TLC

CONSTANTS silver, gold, unique_key

TheModels == {silver, gold}
OneTest == {unique_key}

=============================================================================
