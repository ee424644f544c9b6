--------------------------- MODULE OrderedAppend ---------------------------
(***************************************************************************)
(* What the BigQuery copy of the event store promises, apart from how the  *)
(* append job provides it (docs/bigquery-incremental-append-plan.md,       *)
(* section 3): rows land in the source in the order of their ingestion     *)
(* time, and the warehouse always holds the oldest rows of the source, all *)
(* of them up to some point, each landing once.                            *)
(***************************************************************************)
EXTENDS Naturals

CONSTANTS
    Events,  \* event_id values; their numeric order is the order of event_id
    MaxTime  \* last ingestion time of the instance

VARIABLES
    rows,    \* the source: a function from the ids it holds to ingestion times
    loaded   \* the ids the warehouse holds

avars == <<rows, loaded>>

\* The order of the source table in which a reader takes rows.
Older(r, f, e) == r[f] < r[e] \/ (r[f] = r[e] /\ f < e)

\* A set of ids with no hole: with a row it has every older row of r.
NoHole(r, S) == \A e \in S : \A f \in DOMAIN r : Older(r, f, e) => f \in S

AInit ==
    /\ rows = [e \in {} |-> 0]
    /\ loaded = {}

\* One transaction adds some rows, all with one time, later than every row.
Ingest ==
    \E t \in 1 .. MaxTime, S \in SUBSET (Events \ DOMAIN rows) :
        /\ \A f \in DOMAIN rows : rows[f] < t
        /\ rows' = [e \in DOMAIN rows \cup S |->
                        IF e \in S THEN t ELSE rows[e]]
        /\ UNCHANGED loaded

\* The warehouse takes the next rows of the source.
AppendNext ==
    \E S \in SUBSET (DOMAIN rows \ loaded) :
        /\ NoHole(rows, loaded \cup S)
        /\ loaded' = loaded \cup S
        /\ UNCHANGED rows

ANext == Ingest \/ AppendNext

ASpec == AInit /\ [][ANext]_avars

=============================================================================
