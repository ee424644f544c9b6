-------------------------- MODULE MCAppendOverlap --------------------------
(***************************************************************************)
(* A small instance of the append job with overlapping executions for TLC. *)
(***************************************************************************)
EXTENDS AppendOverlap, TLC

CONSTANTS w1, w2, j1, j2

TwoSessions == {w1, w2}
TwoExecutions == {j1, j2}
TwoRows == 1 .. 2

\* Sessions and executions are interchangeable.
Interchangeable == Permutations(Writers) \cup Permutations(Jobs)

=========================================================================
