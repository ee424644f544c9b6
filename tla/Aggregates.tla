----------------------------- MODULE Aggregates -----------------------------
(***************************************************************************)
(* One table of aggregates (silver by minute, gold by day) and the two     *)
(* kinds of statement that write it beside each other: the full refresh    *)
(* (the functions of init.sql, called by the consumer and by the silver    *)
(* refresh job) and an incremental run of the dbt model.  Both group what  *)
(* they read when they begin, and their rows appear when they commit; in   *)
(* between, events arrive and others commit.                               *)
(*                                                                         *)
(* A row of the table stands for the events it counts: counted holds those *)
(* of all rows.  Sums, averages and extremes are functions of them.        *)
(***************************************************************************)
EXTENDS EventStore

CONSTANTS
    SymbolOf, TimeOf,          \* event -> symbol, event_timestamp
    Width,                     \* length of a window (a minute, a day)
    Lookback,                  \* the windows a dbt run looks back (10, 3)
    FullRefreshes, DbtRuns     \* the writers

ASSUME WindowsAssumption ==
    /\ Width \in Nat \ {0} /\ Lookback \in Nat
    /\ TimeOf \in [Events -> Nat]
    /\ FullRefreshes \cap DbtRuns = {}

VARIABLES
    counted,     \* events that the rows of the table count
    selected,    \* writer -> events it has read
    busy,        \* writer -> its transaction is open
    \* History, which no action reads:
    late,        \* an event came from further back than a dbt run looks
    seen,        \* writer -> events there were when it began
    older,       \* writer -> busy writers that read before it
    outdated,    \* busy writers since whose reading a later one has written
    undone       \* an outdated writer has written

overlap == <<older, outdated, undone>>
table == <<counted, selected, busy, seen, overlap>>

Refreshes == FullRefreshes \cup DbtRuns

AggTypeOK ==
    /\ bronze \in SUBSET Events
    /\ counted \in SUBSET Events
    /\ selected \in [Refreshes -> SUBSET Events]
    /\ busy \in [Refreshes -> BOOLEAN]
    /\ late \in BOOLEAN /\ undone \in BOOLEAN
    /\ seen \in [Refreshes -> SUBSET Events]
    /\ older \in [Refreshes -> SUBSET Refreshes]
    /\ outdated \in SUBSET Refreshes

AggInit ==
    /\ StoreInit
    /\ counted = {}
    /\ selected = [w \in Refreshes |-> {}]
    /\ busy = [w \in Refreshes |-> FALSE]
    /\ late = FALSE
    /\ seen = [w \in Refreshes |-> {}]
    /\ older = [w \in Refreshes |-> {}]
    /\ outdated = {}
    /\ undone = FALSE

Window(e) == TimeOf[e] \div Width
Key(e) == <<SymbolOf[e], Window(e)>>
Keys(S) == {Key(e) : e \in S}

\* e is no further back from any event of S than a dbt run looks.
InReach(e, S) == \A f \in S : Window(e) >= Window(f) - Lookback

-----------------------------------------------------------------------------
Arrive(e) ==
    /\ InsertEvent(e)
    /\ late' = (late \/ ~InReach(e, bronze))
    /\ UNCHANGED table

\* Faulty: looks back from the newest event, not from the newest row.
SelectionFromBronze(w) ==
    IF w \in DbtRuns THEN {e \in bronze : InReach(e, bronze)} ELSE bronze

\* The WHERE clause of the dbt model; on an empty table it selects all.
Selection(w) ==
    IF w \in DbtRuns THEN {e \in bronze : InReach(e, counted)} ELSE bronze

Begin(w) ==
    /\ ~busy[w]
    /\ busy' = [busy EXCEPT ![w] = TRUE]
    /\ selected' = [selected EXCEPT ![w] = Selection(w)]
    /\ seen' = [seen EXCEPT ![w] = bronze]
    /\ older' = [older EXCEPT ![w] = {v \in Refreshes : busy[v]}]
    /\ UNCHANGED <<bronze, late, counted, outdated, undone>>

Close(w) ==
    /\ busy[w]
    /\ busy' = [busy EXCEPT ![w] = FALSE]
    /\ selected' = [selected EXCEPT ![w] = {}]
    /\ seen' = [seen EXCEPT ![w] = {}]
    /\ older' = [v \in Refreshes |-> IF v = w THEN {} ELSE older[v] \ {w}]
    /\ UNCHANGED <<bronze, late>>

Commit(w) ==
    /\ Close(w)
    /\ outdated' = (outdated \cup older[w]) \ {w}
    /\ undone' = (undone \/ w \in outdated)

\* Faulty: dbt's delete+insert without the delete of rows that are there.
WriteNewKeys(w) ==
    /\ Commit(w)
    /\ counted' = counted \cup {e \in selected[w] : Key(e) \notin Keys(counted)}

\* Faulty: replaces the whole table, as a model materialized as a table does.
WriteTable(w) ==
    /\ Commit(w)
    /\ counted' = selected[w]

\* ON CONFLICT DO UPDATE and delete+insert come to the same: the groups read
\* replace the rows with their keys.
Write(w) ==
    /\ Commit(w)
    /\ counted' = {e \in counted : Key(e) \notin Keys(selected[w])}
                  \cup selected[w]

\* The transaction is rolled back: an error, a deadlock, or dbt's insert
\* meets a key that another writer has inserted since.
Abort(w) ==
    /\ Close(w)
    /\ outdated' = outdated \ {w}
    /\ UNCHANGED <<counted, undone>>

RefreshStep(w) == Begin(w) \/ Write(w) \/ Abort(w)

AggNext ==
    \/ \E e \in Events : Arrive(e)
    \/ \E w \in Refreshes : RefreshStep(w)

aggVars == <<bronze, late, table>>

AggSpec == AggInit /\ [][AggNext]_aggVars

-----------------------------------------------------------------------------
(***************************************************************************)
(* Correctness.  Writers may be at work together; what they do to each     *)
(* other comes down to the order in which they read and write: one whose   *)
(* snapshot is older than one that was written already is outdated.        *)
(***************************************************************************)

\* A dbt run begun now would select every event that is not counted yet: no
\* event falls behind the look-back while it waits, unless it came later than
\* that allows, or an outdated writer took it out of the table.
UncountedInReach ==
    ~late /\ ~undone =>
        \A e \in bronze \ counted : InReach(e, counted)

\* An event that a row counts stays counted: no writer replaces a group by a
\* part of it, be it dbt with the oldest window that it looks at or with an
\* event that came late, but one whose snapshot is outdated when it writes.
CountsNeverFall ==
    [][\/ counted \subseteq counted'
       \/ \E w \in outdated : Write(w)]_aggVars

\* One writer that commits makes up for all that were left out before it, be
\* it a dbt run, which reads only some windows: it leaves nothing uncounted
\* that was stored when it began, unless an event came too late for that or an
\* outdated writer has written.
WriterCatchesUp ==
    [][\A w \in Refreshes :
            Write(w) /\ ~late /\ ~undone' => seen[w] \subseteq counted']_aggVars

=============================================================================
