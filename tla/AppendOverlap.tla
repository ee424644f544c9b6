---------------------------- MODULE AppendOverlap ----------------------------
(***************************************************************************)
(* What the append job still promises when executions overlap: an          *)
(* execution that was alone from its start to its end does not suffer from *)
(* what others, overlapping, failed or killed before it, left in the       *)
(* staging table that they share.                                          *)
(***************************************************************************)
EXTENDS BigQueryAppend

VARIABLE disturbed   \* history: executions under way beside another one

overlapVars == <<vars, disturbed>>

OInit == Init /\ disturbed = {}

\* An execution is disturbed once another one is under way with it, and stays
\* so until it is over.
Observe ==
    disturbed' =
        {j \in Jobs : /\ pc'[j] # "idle"
                      /\ \/ j \in disturbed
                         \/ \E k \in Jobs \ {j} : pc'[k] # "idle"}

ONext == Next /\ Observe

OSpec == OInit /\ [][ONext]_overlapVars

-----------------------------------------------------------------------------
(***************************************************************************)
(* Correctness.                                                            *)
(***************************************************************************)

\* An execution that was alone and is about to exit with 0 has put every row
\* that it exported into the target and leaves the staging table empty,
\* whatever staging held when it started.
AloneDelivers ==
    \A j \in Jobs \ disturbed :
        pc[j] = "return" => batch[j] \subseteq Loaded /\ staging = Empty

\* The MERGE of an execution that was alone so far gives no event_id a second
\* row: duplicates come from executions that overlap, and from nothing that
\* they leave behind.
AloneAddsNoDuplicate ==
    [][\A j \in Jobs \ disturbed : MergeStaging(j) =>
            \A e \in Events : target'[e] > 1 => target'[e] = target[e]]_overlapVars

=============================================================================
