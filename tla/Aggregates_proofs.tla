------------------------- MODULE Aggregates_proofs -------------------------
(***************************************************************************)
(* Proofs about a table of aggregates and its writers, for every set of    *)
(* events, every number of full refreshes and dbt runs, and every width of *)
(* the windows and of the look-back.                                       *)
(***************************************************************************)
EXTENDS Aggregates, TLAPS

\* Nothing is counted or read that is not stored.
Stored ==
    /\ counted \subseteq bronze
    /\ \A w \in Refreshes : selected[w] \subseteq bronze

Fresh(w) == busy[w] /\ w \notin outdated

\* Of two writers at work one has read before the other, and of a group that
\* both have read the later one has read more.
OverlapInv ==
    /\ \A w \in Refreshes : \A v \in older[w] : busy[v]
    /\ \A v, w \in Refreshes :
          busy[v] /\ busy[w] => v = w \/ v \in older[w] \/ w \in older[v]
    /\ \A w \in Refreshes : \A v \in older[w] :
          \A e \in selected[w], f \in selected[v] :
              Key(f) = Key(e) => f \in selected[w]

\* What is read of a group that is counted is the whole group, until a later
\* writer counts more of it.
GroupsWhole ==
    \A w \in Refreshes : Fresh(w) =>
        \A e \in selected[w], f \in counted :
            Key(f) = Key(e) => f \in selected[w]

\* What an older writer is going to count is counted, or read, already.
OlderIncluded ==
    \A w \in Refreshes : Fresh(w) =>
        \A v \in older[w] : selected[v] \subseteq counted \cup selected[w]

\* What neither is counted nor has been read will still be in reach when what
\* has been read is counted.
UnreadInReach ==
    \A w \in Refreshes : Fresh(w) =>
        \A e \in bronze \ (counted \cup selected[w]) :
            InReach(e, counted \cup selected[w])

\* What was there when a writer began is counted, or it has read it.
SeenIncluded ==
    \A w \in Refreshes : Fresh(w) => seen[w] \subseteq counted \cup selected[w]

\* Until an event comes too late, or an outdated writer has written.
WaitingInv ==
    ~late /\ ~undone => UncountedInReach /\ OlderIncluded /\ UnreadInReach

\* The inductive invariant.
AggInv ==
    /\ AggTypeOK
    /\ Stored
    /\ OverlapInv
    /\ GroupsWhole
    /\ WaitingInv

-----------------------------------------------------------------------------
\* Every variable keeps its type.
THEOREM AggTypeCorrect == AggSpec => []AggTypeOK
<1>1. AggInit => AggTypeOK
  BY DEF AggInit, StoreInit, AggTypeOK
<1>2. AggTypeOK /\ [AggNext]_aggVars => AggTypeOK'
  <2> SUFFICES ASSUME AggTypeOK, [AggNext]_aggVars PROVE AggTypeOK'
    OBVIOUS
  <2> USE DEF AggTypeOK
  <2>1. ASSUME NEW e \in Events, Arrive(e) PROVE AggTypeOK'
    <3>1. (late \/ ~InReach(e, bronze)) \in BOOLEAN
      BY DEF InReach
    <3>2. QED
      BY <2>1, <3>1 DEF Arrive, InsertEvent, table, overlap
  <2>2. ASSUME NEW w \in Refreshes, Begin(w) PROVE AggTypeOK'
    <3>1. Selection(w) \in SUBSET Events
      BY DEF Selection
    <3>2. {v \in Refreshes : busy[v]} \in SUBSET Refreshes
      OBVIOUS
    <3>3. QED
      BY <2>2, <3>1, <3>2 DEF Begin
  <2>3. ASSUME NEW w \in Refreshes, Write(w) PROVE AggTypeOK'
    <3>1. (undone \/ w \in outdated) \in BOOLEAN
      OBVIOUS
    <3>2. QED
      BY <2>3, <3>1 DEF Write, Commit, Close
  <2>4. ASSUME NEW w \in Refreshes, Abort(w) PROVE AggTypeOK'
    BY <2>4 DEF Abort, Close
  <2>5. CASE UNCHANGED aggVars
    BY <2>5 DEF aggVars, table, overlap
  <2>6. QED
    BY <2>1, <2>2, <2>3, <2>4, <2>5 DEF AggNext, RefreshStep
<1>3. QED
  BY <1>1, <1>2, PTL DEF AggSpec

\* Reach depends on the window alone.
LEMMA SameKeySameReach ==
    ASSUME NEW e, NEW f, NEW S, Key(f) = Key(e), InReach(e, S)
    PROVE  InReach(f, S)
BY DEF Key, InReach

\* A write adds what was read, and removes nothing, when groups are whole.
LEMMA WriteAdds ==
    ASSUME AggInv, NEW w \in Refreshes, Write(w), w \notin outdated
    PROVE  counted' = counted \cup selected[w]
<1>1. \A f \in counted : Key(f) \in Keys(selected[w]) => f \in selected[w]
  BY DEF AggInv, GroupsWhole, Fresh, Keys, Write, Commit, Close
<1>2. QED
  BY <1>1 DEF Write

\* A writer that ends leaves the others in their order.
LEMMA CloseKeepsOverlap ==
    ASSUME AggInv, NEW w \in Refreshes, Close(w)
    PROVE  /\ \A v \in Refreshes : busy'[v] =>
                /\ v # w /\ busy[v]
                /\ selected'[v] = selected[v]
                /\ older'[v] = older[v] \ {w}
           /\ OverlapInv'
<1>1. \A v \in Refreshes :
        /\ v # w => /\ busy'[v] = busy[v]
                    /\ selected'[v] = selected[v]
                    /\ older'[v] = older[v] \ {w}
        /\ v = w => ~busy'[v] /\ older'[v] = {}
  BY DEF Close, AggInv, AggTypeOK
<1>2. OverlapInv'
  <2>1. \A v, u \in Refreshes :
            v \in older'[u] => v \in older[u] /\ v # w /\ u # w
    BY <1>1
  <2>2. \A u \in Refreshes : older'[u] \subseteq Refreshes
    BY <1>1 DEF AggInv, AggTypeOK
  <2>3. QED
    BY <1>1, <2>1, <2>2 DEF AggInv, OverlapInv, Key, Window
<1>3. QED
  BY <1>1, <1>2

\* What a run reads of a group is all there is in bronze.
LEMMA SelectionIsWhole ==
    ASSUME NEW w \in Refreshes, NEW e \in Selection(w), NEW f \in bronze,
           Key(f) = Key(e)
    PROVE  f \in Selection(w)
<1>1. CASE w \in DbtRuns
  <2>1. InReach(e, counted)
    BY <1>1 DEF Selection
  <2>2. InReach(f, counted)
    BY <2>1, SameKeySameReach
  <2>3. QED
    BY <1>1, <2>2 DEF Selection
<1>2. CASE w \notin DbtRuns
  BY <1>2 DEF Selection
<1>3. QED
  BY <1>1, <1>2

\* What a run reads of the groups that are counted is whole groups; while
\* everything is in reach, it reads all that is not counted.
LEMMA SelectionIsEnough ==
    ASSUME Stored, NEW w \in Refreshes
    PROVE  /\ \A e \in Selection(w), f \in counted :
                Key(f) = Key(e) => f \in Selection(w)
           /\ UncountedInReach /\ ~late /\ ~undone =>
                bronze \subseteq counted \cup Selection(w)
<1>1. \A e \in Selection(w), f \in counted :
            Key(f) = Key(e) => f \in Selection(w)
  BY SelectionIsWhole DEF Stored
<1>2. UncountedInReach /\ ~late /\ ~undone =>
            bronze \subseteq counted \cup Selection(w)
  BY DEF Selection, UncountedInReach
<1>3. QED
  BY <1>1, <1>2

-----------------------------------------------------------------------------
LEMMA ArriveKeepsInv ==
    ASSUME AggInv, NEW e \in Events, Arrive(e)
    PROVE  Stored' /\ OverlapInv' /\ GroupsWhole' /\ WaitingInv'
<1> USE DEF AggInv, Arrive, InsertEvent, table, overlap
<1>1. Stored'
  BY DEF Stored
<1>2. OverlapInv' /\ GroupsWhole'
  BY DEF OverlapInv, GroupsWhole, Fresh, Key, Window
<1>3. ASSUME ~late', ~undone'
      PROVE  UncountedInReach' /\ OlderIncluded' /\ UnreadInReach'
  <2>1. ~late /\ ~undone /\ InReach(e, bronze)
    BY <1>3
  <2>2. UncountedInReach'
    BY <2>1 DEF UncountedInReach, WaitingInv, Stored, InReach, Window
  <2>3. UnreadInReach'
    BY <2>1 DEF UnreadInReach, WaitingInv, Fresh, Stored, InReach, Window
  <2>4. OlderIncluded'
    BY <2>1 DEF OlderIncluded, WaitingInv, Fresh
  <2>5. QED
    BY <2>2, <2>3, <2>4
<1>4. QED
  BY <1>1, <1>2, <1>3 DEF WaitingInv

LEMMA BeginKeepsInv ==
    ASSUME AggInv, NEW w \in Refreshes, Begin(w)
    PROVE  Stored' /\ OverlapInv' /\ GroupsWhole' /\ WaitingInv'
<1>1. /\ selected'[w] = Selection(w) /\ busy'[w] /\ ~busy[w]
      /\ older'[w] = {v \in Refreshes : busy[v]}
      /\ UNCHANGED <<bronze, late, counted, outdated, undone>>
      /\ \A v \in Refreshes : v # w =>
            /\ busy'[v] = busy[v]
            /\ selected'[v] = selected[v]
            /\ older'[v] = older[v] /\ w \notin older[v]
  BY DEF Begin, AggInv, AggTypeOK, OverlapInv
<1>2. /\ \A e \in Selection(w), f \in counted :
            Key(f) = Key(e) => f \in Selection(w)
      /\ UncountedInReach /\ ~late /\ ~undone =>
            bronze \subseteq counted \cup Selection(w)
  BY SelectionIsEnough DEF AggInv
<1>3. \A v \in Refreshes : \A e \in Selection(w), f \in selected[v] :
            Key(f) = Key(e) => f \in Selection(w)
  BY SelectionIsWhole DEF AggInv, Stored
<1>4. Stored'
  BY <1>1 DEF AggInv, Stored, Selection
<1>5. OverlapInv'
  <2> USE DEF AggInv, AggTypeOK, OverlapInv
  <2>1. \A u \in Refreshes : \A v \in older'[u] : busy'[v]
    BY <1>1
  <2>2. \A u, v \in Refreshes :
            busy'[u] /\ busy'[v] => u = v \/ u \in older'[v] \/ v \in older'[u]
    BY <1>1
  <2>3. ASSUME NEW u \in Refreshes, NEW v \in older'[u],
               NEW e \in selected'[u], NEW f \in selected'[v], Key(f) = Key(e)
        PROVE  f \in selected'[u]
    <3>1. v \in Refreshes /\ v # w
      BY <1>1
    <3>2. CASE u = w
      BY <1>1, <1>3, <2>3, <3>1, <3>2
    <3>3. CASE u # w
      BY <1>1, <2>3, <3>1, <3>3
    <3>4. QED
      BY <3>2, <3>3
  <2>4. QED
    BY <2>1, <2>2, <2>3 DEF Key, Window
<1>6. GroupsWhole'
  BY <1>1, <1>2 DEF AggInv, GroupsWhole, Fresh, Key, Window
<1>7. ASSUME ~late', ~undone'
      PROVE  UncountedInReach' /\ OlderIncluded' /\ UnreadInReach'
  <2>1. UncountedInReach /\ OlderIncluded /\ UnreadInReach /\ ~late /\ ~undone
    BY <1>1, <1>7 DEF AggInv, WaitingInv
  <2>2. bronze \subseteq counted \cup Selection(w)
    BY <1>2, <2>1
  <2>3. UncountedInReach'
    BY <1>1, <2>1 DEF UncountedInReach, InReach, Window
  <2>4. OlderIncluded'
    BY <1>1, <2>1, <2>2 DEF OlderIncluded, Fresh, AggInv, AggTypeOK, Stored
  <2>5. UnreadInReach'
    BY <1>1, <2>1, <2>2 DEF UnreadInReach, Fresh, InReach, Window
  <2>6. QED
    BY <2>3, <2>4, <2>5
<1>8. QED
  BY <1>4, <1>5, <1>6, <1>7 DEF WaitingInv

LEMMA WriteKeepsInv ==
    ASSUME AggInv, NEW w \in Refreshes, Write(w)
    PROVE  /\ Stored' /\ OverlapInv' /\ GroupsWhole' /\ WaitingInv'
           /\ w \notin outdated => counted \subseteq counted'
<1>1. Close(w) /\ Commit(w) /\ busy[w]
  BY DEF Write, Commit, Close
<1>2. Stored'
  BY DEF AggInv, AggTypeOK, Stored, Write, Commit, Close
<1>3. w \notin outdated => counted' = counted \cup selected[w]
  BY WriteAdds
<1>4. OverlapInv'
  BY <1>1, CloseKeepsOverlap
<1>5. \* A writer that is still fresh has read after w.
      \A v \in Refreshes : Fresh(v)' =>
            /\ Fresh(v) /\ w \in older[v]
            /\ selected'[v] = selected[v]
            /\ older'[v] \subseteq older[v]
  BY <1>1, CloseKeepsOverlap DEF AggInv, OverlapInv, Fresh, Commit
<1>6. GroupsWhole'
  <2>1. counted' \subseteq counted \cup selected[w]
    BY DEF Write
  <2>2. QED
    BY <1>5, <2>1 DEF AggInv, GroupsWhole, OverlapInv, Key, Window
<1>7. ASSUME ~late', ~undone'
      PROVE  UncountedInReach' /\ OlderIncluded' /\ UnreadInReach'
  <2>1. /\ UncountedInReach /\ OlderIncluded /\ UnreadInReach
        /\ w \notin outdated /\ bronze' = bronze
    <3>1. ~late /\ bronze' = bronze
      BY <1>1, <1>7 DEF Close
    <3>2. ~undone /\ w \notin outdated
      BY <1>1, <1>7 DEF Commit
    <3>3. QED
      BY <3>1, <3>2 DEF AggInv, WaitingInv
  <2>2. counted' = counted \cup selected[w]
    BY <1>3, <2>1
  <2>3. UncountedInReach'
    BY <1>1, <2>1, <2>2
       DEF UncountedInReach, UnreadInReach, Fresh, InReach, Window
  <2>4. OlderIncluded'
    <3>1. \A v \in Refreshes : selected'[v] \subseteq selected[v]
      BY <1>1 DEF AggInv, AggTypeOK, Close
    <3>2. \A v \in Refreshes : older[v] \subseteq Refreshes
      BY DEF AggInv, AggTypeOK
    <3>3. QED
      BY <1>5, <2>1, <2>2, <3>1, <3>2 DEF OlderIncluded
  <2>5. UnreadInReach'
    <3>1. \A v \in Refreshes : Fresh(v)' =>
              counted' \cup selected'[v] = counted \cup selected[v]
      BY <1>5, <2>1, <2>2 DEF OlderIncluded
    <3>2. QED
      BY <1>5, <2>1, <3>1 DEF UnreadInReach, InReach, Window
  <2>6. QED
    BY <2>3, <2>4, <2>5
<1>8. QED
  BY <1>2, <1>3, <1>4, <1>6, <1>7 DEF WaitingInv

LEMMA AbortKeepsInv ==
    ASSUME AggInv, NEW w \in Refreshes, Abort(w)
    PROVE  Stored' /\ OverlapInv' /\ GroupsWhole' /\ WaitingInv'
<1>1. /\ Close(w) /\ UNCHANGED <<bronze, late, counted, undone>>
      /\ outdated' = outdated \ {w}
  BY DEF Abort, Close
<1>2. Stored'
  BY <1>1 DEF AggInv, AggTypeOK, Stored, Close
<1>3. OverlapInv'
  BY <1>1, CloseKeepsOverlap
<1>4. \A v \in Refreshes : Fresh(v)' =>
            /\ Fresh(v) /\ selected'[v] = selected[v]
            /\ older'[v] \subseteq older[v]
  BY <1>1, CloseKeepsOverlap DEF Fresh
<1>5. GroupsWhole'
  BY <1>1, <1>4 DEF AggInv, GroupsWhole, Key, Window
<1>6. WaitingInv'
  <2>1. CASE late \/ undone
    BY <1>1, <2>1 DEF WaitingInv
  <2>2. CASE ~late /\ ~undone
    <3>1. UncountedInReach'
      BY <1>1, <2>2 DEF AggInv, WaitingInv, UncountedInReach, InReach, Window
    <3>2. OlderIncluded'
      BY <1>1, <1>4, <2>2 DEF AggInv, WaitingInv, OlderIncluded, OverlapInv,
                              AggTypeOK, Close
    <3>3. UnreadInReach'
      BY <1>1, <1>4, <2>2 DEF AggInv, WaitingInv, UnreadInReach, InReach, Window
    <3>4. QED
      BY <3>1, <3>2, <3>3 DEF WaitingInv
  <2>3. QED
    BY <2>1, <2>2
<1>7. QED
  BY <1>2, <1>3, <1>5, <1>6

LEMMA StutterKeepsInv ==
    ASSUME AggInv, UNCHANGED aggVars
    PROVE  Stored' /\ OverlapInv' /\ GroupsWhole' /\ WaitingInv'
BY DEF AggInv, aggVars, table, overlap, Stored, OverlapInv, GroupsWhole,
       WaitingInv, OlderIncluded, UncountedInReach, UnreadInReach, Fresh,
       InReach, Key, Window

\* Each step keeps the invariant, and only a write changes counted; one that
\* takes something away sets undone.
LEMMA StepKeepsInv ==
    ASSUME AggInv, [AggNext]_aggVars
    PROVE  /\ Stored' /\ OverlapInv' /\ GroupsWhole' /\ WaitingInv'
           /\ \/ counted \subseteq counted'
              \/ undone' /\ \E w \in outdated : Write(w)
<1>1. ASSUME NEW e \in Events, Arrive(e) PROVE counted' = counted
  BY <1>1 DEF Arrive, table
<1>2. ASSUME NEW w \in Refreshes, Begin(w) PROVE counted' = counted
  BY <1>2 DEF Begin
<1>3. ASSUME NEW w \in Refreshes, Abort(w) PROVE counted' = counted
  BY <1>3 DEF Abort
<1>4. ASSUME NEW w \in Refreshes, Write(w), w \in outdated PROVE undone'
  BY <1>4 DEF Write, Commit
<1>5. CASE UNCHANGED aggVars
  BY <1>5, StutterKeepsInv DEF aggVars, table
<1>6. QED
  BY <1>1, <1>2, <1>3, <1>4, <1>5, ArriveKeepsInv, BeginKeepsInv,
     WriteKeepsInv, AbortKeepsInv DEF AggNext, RefreshStep

LEMMA AggInvariant == AggSpec => []AggInv
<1>1. AggInit => AggInv
  BY DEF AggInit, StoreInit, AggInv, AggTypeOK, Stored, OverlapInv, WaitingInv,
         OlderIncluded, UncountedInReach, UnreadInReach, GroupsWhole, Fresh
<1>2. AggInv /\ AggTypeOK' /\ [AggNext]_aggVars => AggInv'
  BY StepKeepsInv DEF AggInv
<1>3. QED
  BY <1>1, <1>2, AggTypeCorrect, PTL DEF AggSpec

-----------------------------------------------------------------------------
\* For any look-back and any pause between dbt runs: an event that waits to be
\* counted stays in reach of the next dbt run.
THEOREM UncountedStaysInReach == AggSpec => []UncountedInReach
<1>1. AggInv => UncountedInReach
  BY DEF AggInv, WaitingInv, UncountedInReach
<1>2. QED
  BY <1>1, AggInvariant, PTL

\* No writer, full or incremental, takes an event out of the table that a row
\* counts, however many are at work together, but one that writes after a
\* writer that read later than it did.
THEOREM CountedStaysCounted == AggSpec => CountsNeverFall
<1>1. AggInv /\ [AggNext]_aggVars
        => [\/ counted \subseteq counted'
            \/ \E w \in outdated : Write(w)]_aggVars
  BY StepKeepsInv
<1>2. QED
  BY <1>1, AggInvariant, PTL DEF AggSpec, CountsNeverFall

-----------------------------------------------------------------------------
LEMMA StepKeepsSeen ==
    ASSUME AggInv, ~late /\ ~undone => SeenIncluded,
           [AggNext]_aggVars, ~late', ~undone'
    PROVE  SeenIncluded'
<1> USE DEF AggInv, AggTypeOK
<1>1. counted \subseteq counted'
  BY StepKeepsInv
<1>2. ASSUME NEW e \in Events, Arrive(e) PROVE SeenIncluded'
  BY <1>2 DEF Arrive, InsertEvent, table, overlap, SeenIncluded, Fresh
<1>3. ASSUME NEW w \in Refreshes, Begin(w) PROVE SeenIncluded'
  <2>1. bronze \subseteq counted \cup Selection(w)
    BY <1>3, SelectionIsEnough DEF Begin, WaitingInv
  <2>2. QED
    BY <1>3, <2>1 DEF Begin, SeenIncluded, Fresh
<1>4. ASSUME NEW w \in Refreshes, Write(w) \/ Abort(w) PROVE SeenIncluded'
  <2>1. ~late /\ ~undone
    BY <1>4 DEF Write, Abort, Close, Commit
  <2>2. \A v \in Refreshes : Fresh(v)' =>
            /\ v # w /\ Fresh(v)
            /\ selected'[v] = selected[v] /\ seen'[v] = seen[v]
    BY <1>4 DEF Close, Write, Commit, Abort, Fresh
  <2>3. QED
    BY <1>1, <2>1, <2>2 DEF SeenIncluded
<1>5. CASE UNCHANGED aggVars
  BY <1>5 DEF aggVars, table, overlap, SeenIncluded, Fresh
<1>6. QED
  BY <1>2, <1>3, <1>4, <1>5 DEF AggNext, RefreshStep

\* A run of dbt that commits has made up for whatever refreshes were skipped or
\* failed before it began, for any look-back and any number of writers.
THEOREM WritersCatchUp == AggSpec => WriterCatchesUp
<1> DEFINE SeenInv == ~late /\ ~undone => SeenIncluded
<1>1. AggInit => SeenInv
  BY DEF AggInit, SeenIncluded, Fresh
<1>2. AggInv /\ SeenInv /\ [AggNext]_aggVars => SeenInv'
  BY StepKeepsSeen
<1>3. AggInv /\ SeenInv /\ [AggNext]_aggVars
        => [\A w \in Refreshes :
              Write(w) /\ ~late /\ ~undone' => seen[w] \subseteq counted']_aggVars
  <2> SUFFICES ASSUME AggInv, SeenInv, NEW w \in Refreshes, Write(w),
                      ~late, ~undone'
               PROVE  seen[w] \subseteq counted'
    OBVIOUS
  <2>1. ~undone /\ Fresh(w)
    BY DEF Write, Commit, Close, Fresh
  <2>2. counted' = counted \cup selected[w]
    BY <2>1, WriteAdds DEF Fresh
  <2>3. QED
    BY <2>1, <2>2 DEF SeenIncluded
<1>4. QED
  BY <1>1, <1>2, <1>3, AggInvariant, PTL DEF AggSpec, WriterCatchesUp

=============================================================================
