---------------------------- MODULE EventsPaging ----------------------------
(***************************************************************************)
(* GET /events of the query API (apps/api), read page by page, the newest  *)
(* row first, while rows are being added.  Each request is a statement of  *)
(* its own.  The reader is external: as the pagination tests do, it asks   *)
(* for the page behind the rows it has got, until a page is empty.         *)
(***************************************************************************)
EXTENDS EventStore

CONSTANTS
    Limits,      \* limits readers ask for
    MaxLimit     \* the API's bound (100)

ASSUME LimitsAssumption == Limits \subseteq Int /\ MaxLimit \in Nat \ {0}

VARIABLES
    limit,       \* safe_limit of the reader's requests (0: no reader)
    pageOffset,  \* the offset it asks for next
    complete,    \* its last page was empty
    missing      \* history: rows there were when it started, and not got yet

reader == <<limit, pageOffset, complete, missing>>

PagingTypeOK ==
    /\ limit \in 0 .. MaxLimit
    /\ pageOffset \in 0 .. Cardinality(Events)
    /\ complete \in BOOLEAN
    /\ missing \in SUBSET Events

PagingInit ==
    /\ limit = 0
    /\ pageOffset = 0
    /\ complete = FALSE
    /\ missing = {}

\* Faulty: the limit is not raised to one.
ClampAbove(l) == IF l > MaxLimit THEN MaxLimit ELSE l

\* min(max(limit, 1), MaxLimit)
Clamp(l) == IF l < 1 THEN 1 ELSE IF l > MaxLimit THEN MaxLimit ELSE l

Newer(e) == {f \in bronze : f > e}

\* Faulty: OFFSET counts the rows from one on.
PageFromOne(l, o) ==
    {e \in bronze : Cardinality(Newer(e)) \in o + 1 .. o + l}

\* ORDER BY ingested_at DESC, event_id DESC LIMIT l OFFSET o
Page(l, o) ==
    {e \in bronze : Cardinality(Newer(e)) \in o .. o + l - 1}

StartReading(l) ==
    /\ limit = 0
    /\ limit' = Clamp(l)
    /\ missing' = bronze
    /\ UNCHANGED <<bronze, pageOffset, complete>>

ReadPage ==
    /\ limit # 0 /\ ~complete
    /\ missing' = missing \ Page(limit, pageOffset)
    /\ pageOffset' = pageOffset + Cardinality(Page(limit, pageOffset))
    /\ complete' = (Page(limit, pageOffset) = {})
    /\ UNCHANGED <<bronze, limit>>

StopReading ==
    /\ limit # 0
    /\ limit' = 0
    /\ pageOffset' = 0
    /\ complete' = FALSE
    /\ missing' = {}
    /\ UNCHANGED bronze

PagingNext == (\E l \in Limits : StartReading(l)) \/ ReadPage \/ StopReading

\* A reader that came to an empty page has seen every row there was when it
\* started, whatever limit it asked for and whatever rows were added between
\* two pages: rows move to higher offsets, never to lower ones.
ReaderMissesNothing == complete => missing = {}

=============================================================================
