-------------------------- MODULE MCBigQueryAppend --------------------------
(***************************************************************************)
(* Small instances of the append job for TLC.                              *)
(***************************************************************************)
EXTENDS BigQueryAppend

CONSTANTS w1, w2, j1, j2

OneSession == {w1}
TwoSessions == {w1, w2}
OneExecution == {j1}
TwoExecutions == {j1, j2}

TwoRows == 1 .. 2
ThreeRows == 1 .. 3
\* Four rows in transactions of up to two, with a limit of three: a batch can
\* end inside a group of rows that share an ingested_at, and the next one has
\* to start from the middle of that group.
FourRows == 1 .. 4

=============================================================================
