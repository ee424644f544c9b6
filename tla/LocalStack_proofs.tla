------------------------- MODULE LocalStack_proofs -------------------------
(***************************************************************************)
(* Proofs about the local stack, for every topic, every number of refresh  *)
(* jobs and dbt runs, every refresh interval and every reader.             *)
(***************************************************************************)
EXTENDS LocalStack, Aggregates_proofs, FiniteSetTheorems, WellFoundedInduction

\* How far the consumer has come with the message at hand.
PositionInv ==
    /\ phase = "down" => offset = 1 /\ processed = 0
    /\ phase = "poll" => processed <= offset - 1
    /\ phase \in {"metrics", "refresh"} =>
            /\ offset \in Offsets /\ Topic[offset] \in bronze
            /\ processed \in 1 .. offset
    /\ phase = "error" => offset \in Offsets /\ processed <= offset

ConsumerInv == ConsumerTypeOK /\ PositionInv /\ NothingSkipped

-----------------------------------------------------------------------------
(***************************************************************************)
(* The consumer and the reader do to the aggregates and to bronze what     *)
(* Aggregates says, and no more.                                           *)
(***************************************************************************)

LEMMA TopicFacts ==
    /\ Len(Topic) \in Nat
    /\ \A i \in Offsets : Topic[i] \in Events \cup {Rejected, Undecodable}
BY ConsumerAssumption DEF Offsets

LEMMA ConsumerIsAWriter == ConsumerRefresh \in Refreshes
BY ConsumerAssumption DEF Refreshes

LEMMA ConsumerStepIsAggStep ==
    ASSUME ConsumerNext
    PROVE  [AggNext]_aggVars
<1>1. CASE StoreEvent \/ StoreFails
  BY <1>1 DEF StoreEvent, StoreFails, AggNext
<1>2. CASE BeginRefresh \/ EndRefresh \/ RefreshFails \/ Crash
  BY <1>2, ConsumerIsAWriter
     DEF BeginRefresh, EndRefresh, RefreshFails, Crash, AggNext, RefreshStep
<1>3. CASE \/ StartConsumer \/ PollRaises \/ Invalid \/ WriteMetrics
           \/ MetricsFail \/ RecordError \/ RecordFails
  BY <1>3 DEF StartConsumer, PollRaises, Invalid, WriteMetrics, MetricsFail,
              RecordError, RecordFails
<1>4. CASE JobStep
  BY <1>4 DEF JobStep, AggNext
<1>5. QED
  BY <1>1, <1>2, <1>3, <1>4 DEF ConsumerNext, ConsumerStep

LEMMA StackStepIsAggStep ==
    ASSUME [Next]_stackVars
    PROVE  [AggNext]_aggVars
<1>1. CASE PagingNext /\ UNCHANGED <<late, table, consumerVars>>
  BY <1>1 DEF PagingNext, StartReading, ReadPage, StopReading, aggVars
<1>2. CASE UNCHANGED stackVars
  BY <1>2 DEF stackVars, localVars
<1>3. QED
  BY <1>1, <1>2, ConsumerStepIsAggStep DEF Next

\* The local stack implements the specification of its aggregates.
THEOREM StackImplementsAggregates == Spec => AggSpec
<1>1. Init => AggInit
  BY DEF Init, ConsumerInit
<1>2. [Next]_stackVars => [AggNext]_aggVars
  BY StackStepIsAggStep
<1>3. QED
  BY <1>1, <1>2, PTL DEF Spec, AggSpec

\* In the whole stack, too, an event waits for dbt within its reach.
THEOREM StackUncountedInReach == Spec => []UncountedInReach
BY StackImplementsAggregates, UncountedStaysInReach, PTL

\* In the whole stack, too, what is counted stays counted, but for what an
\* outdated writer undoes.
THEOREM StackCountsNeverFall == Spec => CountsNeverFall
BY StackImplementsAggregates, CountedStaysCounted, PTL

\* In the whole stack, too, one dbt run makes up for what was left out before.
THEOREM StackWritersCatchUp == Spec => WriterCatchesUp
BY StackImplementsAggregates, WritersCatchUp, PTL

\* Rows are added to bronze and never removed.
LEMMA BronzeGrows ==
    ASSUME AggTypeOK, [AggNext]_aggVars
    PROVE  bronze \subseteq bronze' /\ bronze' \subseteq Events
BY DEF AggNext, Arrive, InsertEvent, RefreshStep, Begin, Write, Commit, Abort,
       Close, AggTypeOK, aggVars

-----------------------------------------------------------------------------
(***************************************************************************)
(* Where the consumer is, and that it skips nothing.                       *)
(***************************************************************************)

LEMMA ConsumerKeepsInv ==
    ASSUME ConsumerInv, AggTypeOK', ConsumerNext
    PROVE  ConsumerInv'
<1> USE TopicFacts DEF ConsumerInv, ConsumerTypeOK, PositionInv, Offsets
<1>1. bronze \subseteq bronze'
  BY BronzeGrows, ConsumerStepIsAggStep
<1>2. ASSUME UNCHANGED <<offset, lastOffset>>, errors \subseteq errors'
      PROVE  NothingSkipped'
  BY <1>1, <1>2 DEF NothingSkipped, Handled
<1>3. ASSUME Down, UNCHANGED lastOffset,
             errors \subseteq errors', errors' \subseteq Offsets
      PROVE  ConsumerInv'
  <2>1. NothingSkipped'
    BY <1>1, <1>3 DEF NothingSkipped, Handled, Down
  <2>2. phase' = "down" /\ offset' = 1 /\ processed' = 0 /\ faulted' = FALSE
    BY <1>3 DEF Down
  <2>3. PositionInv'
    BY <2>2
  <2>4. ConsumerTypeOK'
    <3>1. 1 \in 1 .. Len(Topic) + 1 /\ 0 \in 0 .. Len(Topic)
      OBVIOUS
    <3>2. QED
      BY <1>3, <2>2, <3>1
  <2>5. QED
    BY <2>1, <2>3, <2>4
<1>4. CASE StartConsumer
  BY <1>2, <1>4 DEF StartConsumer
<1>5. CASE PollRaises
  BY <1>3, <1>5 DEF PollRaises
<1>6. CASE Invalid
  BY <1>2, <1>6 DEF Invalid
<1>7. CASE StoreEvent
  <2>1. Topic[offset] \in bronze'
    BY <1>7 DEF StoreEvent, Arrive, InsertEvent
  <2>2. QED
    BY <1>2, <1>7, <2>1 DEF StoreEvent
<1>8. CASE StoreFails
  BY <1>2, <1>8 DEF StoreFails
<1>9. CASE WriteMetrics
  <2>1. Handled(offset)
    BY <1>9 DEF WriteMetrics, Handled
  <2>2. NothingSkipped'
    BY <1>1, <1>9, <2>1 DEF WriteMetrics, Advance, NothingSkipped, Handled
  <2>3. QED
    BY <1>1, <1>9, <2>2 DEF WriteMetrics, Advance
<1>10. CASE MetricsFail
  <2>1. NothingSkipped'
    BY <1>1, <1>10 DEF MetricsFail, NothingSkipped, Handled
  <2>2. QED
    BY <1>10, <2>1 DEF MetricsFail
<1>11. CASE BeginRefresh
  BY <1>1, <1>2, <1>11 DEF BeginRefresh, consumerVars, position
<1>12. CASE EndRefresh
  <2>1. NothingSkipped'
    BY <1>1, <1>12 DEF EndRefresh, Advance, NothingSkipped, Handled
  <2>2. QED
    BY <1>12, <2>1 DEF EndRefresh, Advance
<1>13. CASE RefreshFails
  BY <1>2, <1>13 DEF RefreshFails
<1>14. CASE RecordError
  <2>1. NothingSkipped'
    BY <1>1, <1>14 DEF RecordError, Advance, NothingSkipped, Handled
  <2>2. QED
    BY <1>14, <2>1 DEF RecordError, Advance
<1>15. CASE RecordFails
  <2>1. errors \subseteq errors' /\ errors' \subseteq Offsets
    BY <1>15 DEF RecordFails
  <2>2. QED
    BY <1>3, <1>15, <2>1 DEF RecordFails
<1>16. CASE Crash
  BY <1>3, <1>16 DEF Crash
<1>17. CASE JobStep
  BY <1>1, <1>2, <1>17 DEF JobStep, consumerVars, position
<1>18. QED
  BY <1>4, <1>5, <1>6, <1>7, <1>8, <1>9, <1>10, <1>11, <1>12, <1>13, <1>14,
     <1>15, <1>16, <1>17 DEF ConsumerNext, ConsumerStep

LEMMA ConsumerInvHolds == Spec => []ConsumerInv
<1>1. Init => ConsumerInv
  <2>1. AggInit => AggTypeOK
    BY DEF AggInit, StoreInit, AggTypeOK
  <2>2. 1 \in 1 .. Len(Topic) + 1 /\ 0 \in 0 .. Len(Topic)
    BY TopicFacts
  <2>3. Init => ConsumerTypeOK
    BY <2>1, <2>2 DEF Init, ConsumerInit, ConsumerTypeOK
  <2>4. Init => PositionInv
    BY DEF Init, ConsumerInit, PositionInv
  <2>5. Init => NothingSkipped
    BY TopicFacts DEF Init, ConsumerInit, NothingSkipped, Offsets
  <2>6. QED
    BY <2>3, <2>4, <2>5 DEF ConsumerInv
<1>2. ConsumerInv /\ AggTypeOK' /\ [Next]_stackVars => ConsumerInv'
  <2> SUFFICES ASSUME ConsumerInv, AggTypeOK', [Next]_stackVars
               PROVE  ConsumerInv'
    OBVIOUS
  <2>1. CASE UNCHANGED <<bronze, consumerVars>>
    BY <2>1 DEF ConsumerInv, ConsumerTypeOK, PositionInv, NothingSkipped,
                Handled, consumerVars, position
  <2>2. PagingNext /\ UNCHANGED <<late, table, consumerVars>> => UNCHANGED bronze
    BY DEF PagingNext, StartReading, ReadPage, StopReading
  <2>3. QED
    BY <2>1, <2>2, ConsumerKeepsInv
       DEF Next, stackVars, localVars, aggVars
<1>3. QED
  BY <1>1, <1>2, StackImplementsAggregates, AggTypeCorrect, PTL DEF Spec

\* No failure, restart or crash makes the consumer pass over a message without
\* a trace, and latest_processed_offset never claims more.
THEOREM NothingIsSkipped == Spec => []NothingSkipped
<1>1. ConsumerInv => NothingSkipped
  BY DEF ConsumerInv
<1>2. QED
  BY <1>1, ConsumerInvHolds, PTL

-----------------------------------------------------------------------------
(***************************************************************************)
(* The reader, beside the consumer that adds rows, for every number of     *)
(* events, every set of limits and every bound.                            *)
(***************************************************************************)

\* The offset at which a row is found.
OffsetOf(e) == Cardinality(Newer(e))

\* Rows from offset o on.
RowsFrom(o) == {e \in bronze : OffsetOf(e) >= o}

RowsAreEvents == bronze \subseteq Events

\* The rows that the reader has still to get lie at its offset or behind it.
PagingInv ==
    /\ PagingTypeOK
    /\ pageOffset <= Cardinality(bronze)
    /\ missing \subseteq RowsFrom(pageOffset)
    /\ ReaderMissesNothing
    /\ limit = 0 => pageOffset = 0 /\ ~complete /\ missing = {}

LEMMA RowsAreFinite ==
    ASSUME RowsAreEvents, NEW S \in SUBSET bronze
    PROVE  /\ IsFiniteSet(S) /\ Cardinality(S) \in Nat
           /\ Cardinality(S) <= Cardinality(bronze)
           /\ Cardinality(bronze) \in Nat
           /\ Cardinality(bronze) <= Cardinality(Events)
           /\ Cardinality(Events) \in Nat
<1>1. IsFiniteSet(bronze)
  BY EventsAssumption, FS_Subset DEF RowsAreEvents
<1>2. IsFiniteSet(S) /\ Cardinality(S) <= Cardinality(bronze)
  BY <1>1, FS_Subset
<1>3. Cardinality(bronze) <= Cardinality(Events)
  BY EventsAssumption, FS_Subset DEF RowsAreEvents
<1>4. QED
  BY <1>1, <1>2, <1>3, EventsAssumption, FS_CardinalityType

\* A newer row has a lower offset: no two rows have the same one.
LEMMA NewerIsLower ==
    ASSUME RowsAreEvents, NEW e \in bronze, NEW f \in bronze, f > e
    PROVE  /\ Newer(f) \subseteq Newer(e) /\ f \in Newer(e) \ Newer(f)
           /\ OffsetOf(f) < OffsetOf(e)
<1>1. Newer(f) \subseteq Newer(e) /\ f \in Newer(e) \ Newer(f)
  <2>1. bronze \subseteq Nat
    BY EventsAssumption DEF RowsAreEvents
  <2>2. ~(f > f)
    BY <2>1
  <2>3. ASSUME NEW g \in bronze, g > f PROVE g > e
    BY <2>1, <2>3
  <2>4. QED
    BY <2>2, <2>3 DEF Newer
<1>2. /\ IsFiniteSet(Newer(e)) /\ Cardinality(Newer(e)) \in Nat
      /\ Cardinality(Newer(f)) \in Nat
  BY RowsAreFinite DEF Newer
<1>3. /\ Cardinality(Newer(f)) <= Cardinality(Newer(e))
      /\ Cardinality(Newer(f)) # Cardinality(Newer(e))
  BY <1>1, <1>2, FS_Subset
<1>4. QED
  BY <1>1, <1>2, <1>3 DEF OffsetOf

LEMMA OffsetsDiffer ==
    ASSUME RowsAreEvents, NEW e \in bronze, NEW f \in bronze, OffsetOf(e) = OffsetOf(f)
    PROVE  e = f
<1>1. OffsetOf(e) \in Nat /\ e \in Nat /\ f \in Nat
  BY RowsAreFinite, EventsAssumption DEF OffsetOf, Newer, RowsAreEvents
<1>2. ~(e > f) /\ ~(f > e)
  BY <1>1, NewerIsLower
<1>3. QED
  BY <1>1, <1>2

\* Offsets run up to the number of rows.
LEMMA OffsetBounded ==
    ASSUME RowsAreEvents, NEW e \in bronze
    PROVE  OffsetOf(e) \in 0 .. Cardinality(bronze) - 1
<1>1. Newer(e) \subseteq bronze /\ e \notin Newer(e)
  BY EventsAssumption DEF Newer, RowsAreEvents
<1>2. /\ Cardinality(Newer(e)) \in Nat /\ Cardinality(bronze) \in Nat
      /\ IsFiniteSet(bronze) /\ Cardinality(Newer(e)) <= Cardinality(bronze)
  BY <1>1, RowsAreFinite
<1>3. Cardinality(Newer(e)) # Cardinality(bronze)
  BY <1>1, <1>2, FS_Subset
<1>4. QED
  BY <1>2, <1>3 DEF OffsetOf

\* As many rows fit between two offsets as there are offsets.
LEMMA RowsBetweenOffsets ==
    ASSUME RowsAreEvents, NEW a \in Nat, NEW b \in Int, a <= b + 1,
           NEW S \in SUBSET bronze, \A e \in S : OffsetOf(e) \in a .. b
    PROVE  Cardinality(S) <= b - a + 1
<1> DEFINE f == [e \in S |-> OffsetOf(e)]
<1>1. f \in Injection(S, a .. b)
  <2>1. f \in [S -> a .. b]
    OBVIOUS
  <2>2. \A x, y \in S : f[x] = f[y] => x = y
    BY OffsetsDiffer
  <2>3. QED
    BY <2>1, <2>2 DEF Injection, IsInjective
<1>2. IsFiniteSet(a .. b) /\ Cardinality(a .. b) = b - a + 1
  BY FS_Interval
<1>3. Cardinality(S) <= Cardinality(a .. b)
  BY <1>1, <1>2, FS_Injection
<1>4. QED
  BY <1>2, <1>3

\* Behind an empty page there are no rows: if there is a row at offset o or
\* behind it, then there is one at o.
LEMMA NoHoleInOffsets ==
    ASSUME RowsAreEvents, NEW o \in Nat, RowsFrom(o) # {}
    PROVE  \E m \in bronze : OffsetOf(m) = o
<1> DEFINE N == {Newer(f) : f \in RowsFrom(o)}
<1>1. N \subseteq FiniteSubsetsOf(bronze) /\ N # {}
  BY RowsAreFinite DEF FiniteSubsetsOf, Newer, RowsFrom
<1>2. IsWellFoundedOn(StrictSubsetOrdering(bronze), FiniteSubsetsOf(bronze))
  BY FS_StrictSubsetOrderingWellFounded
<1>3. PICK n \in N : \A p \in N : <<p, n>> \notin StrictSubsetOrdering(bronze)
  BY <1>1, <1>2, WFMin
<1>4. PICK m \in RowsFrom(o) : n = Newer(m)
  BY <1>3
<1>5. \A f \in Newer(m) : f \notin RowsFrom(o)
  <2>1. SUFFICES ASSUME NEW f \in Newer(m), f \in RowsFrom(o) PROVE FALSE
    OBVIOUS
  <2>2. Newer(f) \subseteq Newer(m) /\ Newer(f) # Newer(m)
    BY <1>4, <2>1, NewerIsLower DEF Newer, RowsFrom
  <2>3. Newer(f) \in N
    BY <2>1
  <2>4. QED
    BY <1>3, <1>4, <2>2, <2>3 DEF StrictSubsetOrdering, Newer
<1>6. \A f \in Newer(m) : OffsetOf(f) \in 0 .. o - 1
  <2>1. SUFFICES ASSUME NEW f \in Newer(m) PROVE OffsetOf(f) \in 0 .. o - 1
    OBVIOUS
  <2>2. f \in bronze
    BY DEF Newer
  <2>3. OffsetOf(f) \in Nat /\ ~(OffsetOf(f) >= o)
    BY <1>5, <2>2, RowsAreFinite DEF RowsFrom, OffsetOf, Newer
  <2>4. QED
    BY <2>3
<1>7. Newer(m) \subseteq bronze
  BY DEF Newer
<1>8. Cardinality(Newer(m)) <= (o - 1) - 0 + 1
  BY <1>6, <1>7, RowsBetweenOffsets
<1>9. OffsetOf(m) \in Nat /\ OffsetOf(m) >= o /\ m \in bronze
  BY RowsAreFinite DEF RowsFrom, OffsetOf, Newer
<1>10. QED
  BY <1>8, <1>9 DEF OffsetOf

LEMMA ClampInRange == ASSUME NEW l \in Limits PROVE Clamp(l) \in 1 .. MaxLimit
BY LimitsAssumption DEF Clamp

LEMMA StartReadingKeepsInv ==
    ASSUME RowsAreEvents, PagingInv, NEW l \in Limits, StartReading(l)
    PROVE  PagingInv'
<1>1. Clamp(l) \in 1 .. MaxLimit
  BY ClampInRange
<1>2. pageOffset = 0 /\ ~complete
  BY DEF PagingInv, StartReading
<1>3. bronze \subseteq RowsFrom(0)
  BY RowsAreFinite DEF RowsFrom, OffsetOf, Newer
<1>4. missing' \subseteq RowsFrom(pageOffset)'
  BY <1>2, <1>3 DEF StartReading, RowsFrom, OffsetOf, Newer
<1>5. PagingTypeOK'
  BY <1>1, <1>2, LimitsAssumption
     DEF StartReading, PagingInv, PagingTypeOK, RowsAreEvents
<1>6. QED
  BY <1>1, <1>2, <1>4, <1>5
     DEF PagingInv, StartReading, ReaderMissesNothing

LEMMA ReadPageKeepsInv ==
    ASSUME RowsAreEvents, PagingInv, ReadPage
    PROVE  PagingInv'
<1> DEFINE P == Page(limit, pageOffset)
<1>1. /\ limit \in 1 .. MaxLimit /\ pageOffset \in Nat
      /\ missing \subseteq RowsFrom(pageOffset) /\ P \subseteq bronze
      /\ pageOffset <= Cardinality(bronze)
  BY LimitsAssumption DEF PagingInv, PagingTypeOK, ReadPage, Page
<1>2. Cardinality(P) \in Nat /\ Cardinality(bronze) \in Nat
  BY <1>1, RowsAreFinite
<1>3. Cardinality(P) <= limit
  <2>1. \A e \in P : OffsetOf(e) \in pageOffset .. pageOffset + limit - 1
    BY DEF Page, OffsetOf
  <2>2. Cardinality(P) <= (pageOffset + limit - 1) - pageOffset + 1
    BY <1>1, <2>1, RowsBetweenOffsets
  <2>3. QED
    BY <1>1, <1>2, <2>2
<1>4. pageOffset + Cardinality(P) <= Cardinality(bronze)
  <2>1. \A e \in P : OffsetOf(e) \in pageOffset .. Cardinality(bronze) - 1
    BY <1>1, <1>2, OffsetBounded DEF Page, OffsetOf
  <2>2. Cardinality(P) <= (Cardinality(bronze) - 1) - pageOffset + 1
    BY <1>1, <1>2, <2>1, RowsBetweenOffsets
  <2>3. QED
    BY <1>1, <1>2, <2>2
<1>5. \A e \in missing \ P : OffsetOf(e) >= pageOffset + limit
  BY <1>1, RowsAreFinite DEF Page, RowsFrom, OffsetOf, Newer
<1>6. ASSUME P = {} PROVE missing \ P = {}
  <2>1. SUFFICES ASSUME missing # {} PROVE FALSE
    OBVIOUS
  <2>2. PICK m \in bronze : OffsetOf(m) = pageOffset
    BY <1>1, <2>1, NoHoleInOffsets
  <2>3. m \in P
    BY <1>1, <2>2 DEF Page, OffsetOf
  <2>4. QED
    BY <1>6, <2>3
<1>7. /\ missing' = missing \ P /\ pageOffset' = pageOffset + Cardinality(P)
      /\ complete' = (P = {}) /\ bronze' = bronze /\ limit' = limit
  BY DEF ReadPage
<1>8. PagingTypeOK'
  BY <1>1, <1>2, <1>4, <1>7, RowsAreFinite DEF PagingInv, PagingTypeOK
<1>9. missing' \subseteq RowsFrom(pageOffset)'
  <2>1. \A e \in missing \ P : e \in bronze /\ OffsetOf(e) \in Nat
    BY <1>1, RowsAreFinite DEF RowsFrom, OffsetOf, Newer
  <2>2. \A e \in missing \ P : e \in bronze /\ OffsetOf(e) >= pageOffset'
    BY <1>1, <1>2, <1>3, <1>5, <1>7, <2>1
  <2>3. QED
    BY <1>7, <2>2 DEF RowsFrom, OffsetOf, Newer
<1>10. ReaderMissesNothing'
  BY <1>6, <1>7 DEF ReaderMissesNothing
<1>11. QED
  BY <1>1, <1>4, <1>7, <1>8, <1>9, <1>10 DEF PagingInv

LEMMA StopReadingKeepsInv ==
    ASSUME RowsAreEvents, PagingInv, StopReading
    PROVE  PagingInv'
<1>1. Cardinality(bronze) \in Nat /\ Cardinality(Events) \in Nat
  BY RowsAreFinite
<1>2. /\ limit' = 0 /\ pageOffset' = 0 /\ complete' = FALSE /\ missing' = {}
      /\ bronze' = bronze
  BY DEF StopReading
<1>3. 0 \in 0 .. MaxLimit /\ 0 \in 0 .. Cardinality(Events)
  BY <1>1, LimitsAssumption
<1>4. PagingTypeOK'
  BY <1>2, <1>3 DEF PagingTypeOK
<1>5. QED
  BY <1>1, <1>2, <1>4 DEF PagingInv, ReaderMissesNothing

\* A row that is added moves the others to higher offsets, if at all.
LEMMA InsertKeepsInv ==
    ASSUME RowsAreEvents, PagingInv, bronze \subseteq bronze', bronze' \subseteq Events,
           UNCHANGED reader
    PROVE  PagingInv'
<1>1. IsFiniteSet(bronze') /\ Cardinality(bronze') \in Nat
  BY EventsAssumption, FS_Subset, FS_CardinalityType
<1>2. Cardinality(bronze) <= Cardinality(bronze') /\ Cardinality(bronze) \in Nat
  BY <1>1, FS_Subset, RowsAreFinite
<1>3. \A e \in bronze : OffsetOf(e) \in Nat /\ OffsetOf(e)' \in Nat
                        /\ OffsetOf(e) <= OffsetOf(e)'
  <2>1. SUFFICES ASSUME NEW e \in bronze
                 PROVE  /\ OffsetOf(e) \in Nat /\ OffsetOf(e)' \in Nat
                        /\ OffsetOf(e) <= OffsetOf(e)'
    OBVIOUS
  <2>2. Newer(e) \subseteq {f \in bronze' : f > e}
    BY DEF Newer
  <2>3. /\ IsFiniteSet({f \in bronze' : f > e})
        /\ Cardinality({f \in bronze' : f > e}) \in Nat
    BY <1>1, FS_Subset, FS_CardinalityType
  <2>4. Cardinality(Newer(e)) <= Cardinality({f \in bronze' : f > e})
    BY <2>2, <2>3, FS_Subset
  <2>5. Cardinality(Newer(e)) \in Nat
    BY RowsAreFinite DEF Newer
  <2>6. QED
    BY <2>3, <2>4, <2>5 DEF OffsetOf, Newer
<1>4. missing' \subseteq RowsFrom(pageOffset)'
  <2>1. \A e \in missing : e \in bronze' /\ OffsetOf(e)' >= pageOffset
    BY <1>3 DEF PagingInv, PagingTypeOK, RowsFrom
  <2>2. QED
    BY <2>1 DEF reader, RowsFrom
<1>5. QED
  BY <1>1, <1>2, <1>4 DEF PagingInv, PagingTypeOK, ReaderMissesNothing, reader

LEMMA PagingKeepsInv == ASSUME RowsAreEvents, PagingInv, PagingNext PROVE PagingInv'
BY StartReadingKeepsInv, ReadPageKeepsInv, StopReadingKeepsInv DEF PagingNext

LEMMA PagingInvInit == ASSUME PagingInit, StoreInit PROVE PagingInv
<1>1. Cardinality(bronze) \in Nat /\ Cardinality(Events) \in Nat
  BY EventsAssumption, FS_EmptySet, FS_CardinalityType DEF StoreInit
<1>2. 0 \in 0 .. MaxLimit /\ 0 \in 0 .. Cardinality(Events)
  BY <1>1, LimitsAssumption
<1>3. PagingTypeOK
  BY <1>2 DEF PagingInit, PagingTypeOK
<1>4. QED
  BY <1>1, <1>3 DEF PagingInit, PagingInv, ReaderMissesNothing

-----------------------------------------------------------------------------
LEMMA PagingInvHolds == Spec => []PagingInv
<1>1. Init => PagingInv
  BY PagingInvInit DEF Init, ConsumerInit, AggInit
<1>2. PagingInv /\ AggTypeOK /\ [Next]_stackVars => PagingInv'
  <2> SUFFICES ASSUME PagingInv, AggTypeOK, [Next]_stackVars PROVE PagingInv'
    OBVIOUS
  <2>1. RowsAreEvents
    BY DEF AggTypeOK, RowsAreEvents
  <2>2. CASE UNCHANGED reader
    <3>1. bronze \subseteq bronze' /\ bronze' \subseteq Events
      BY BronzeGrows, StackStepIsAggStep
    <3>2. QED
      BY <2>1, <2>2, <3>1, InsertKeepsInv
  <2>3. CASE PagingNext
    BY <2>1, <2>3, PagingKeepsInv
  <2>4. QED
    BY <2>2, <2>3 DEF Next, stackVars
<1>3. QED
  BY <1>1, <1>2, StackImplementsAggregates, AggTypeCorrect, PTL DEF Spec

\* Paging by offset misses no row while rows are being added, whatever the
\* limit that was asked for.
THEOREM PagingMissesNothing == Spec => []ReaderMissesNothing
<1>1. PagingInv => ReaderMissesNothing
  BY DEF PagingInv
<1>2. QED
  BY <1>1, PagingInvHolds, PTL

\* Every variable of the local stack keeps its type.
THEOREM StackTypeCorrect == Spec => []StackTypeOK
<1>1. ConsumerInv /\ PagingInv => StackTypeOK
  BY DEF ConsumerInv, PagingInv, StackTypeOK
<1>2. QED
  BY <1>1, ConsumerInvHolds, PagingInvHolds, PTL

-----------------------------------------------------------------------------
(***************************************************************************)
(* How far silver is behind.                                               *)
(***************************************************************************)

Behind == Cardinality(bronze \ counted)

\* The consumer's part of SilverLag, phase by phase; p events were processed.
LagAfter(p) == p >= Interval => Behind <= p % Interval

LagInv ==
    /\ phase # "refresh" => ~busy[ConsumerRefresh]
    /\ phase = "refresh" => processed % Interval = 0
    /\ phase = "refresh" /\ busy[ConsumerRefresh]
            => selected[ConsumerRefresh] = bronze
    /\ ~faulted /\ ~undone =>
        /\ phase \in {"poll", "error"} => LagAfter(processed)
        /\ phase = "metrics" /\ processed - 1 >= Interval
            => Behind <= ((processed - 1) % Interval) + 1

LEMMA IntervalFact == Interval \in Nat \ {0}
BY ConsumerAssumption

LEMMA RemainderUnique ==
    ASSUME NEW n \in Nat \ {0}, NEW q \in Int, NEW r \in 0 .. n - 1
    PROVE  (n * q + r) % n = r
OBVIOUS

\* Counting on from a number to one that is no multiple.
LEMMA CountOn ==
    ASSUME NEW p \in Nat \ {0}, p % Interval # 0
    PROVE  ((p - 1) % Interval) + 1 = p % Interval
<1> DEFINE q == p \div Interval
           r == p % Interval
<1>1. q \in Int /\ r \in 0 .. Interval - 1 /\ p = Interval * q + r
  BY IntervalFact
<1>2. r - 1 \in 0 .. Interval - 1 /\ p - 1 = Interval * q + (r - 1)
  BY <1>1, IntervalFact
<1>3. (p - 1) % Interval = r - 1
  <2> HIDE DEF q, r
  <2>1. QED
    BY <1>1, <1>2, IntervalFact, RemainderUnique
<1>4. QED
  BY <1>1, <1>3

\* What a step does to the number of events that silver is behind.
LEMMA BehindFacts ==
    ASSUME AggTypeOK, AggTypeOK'
    PROVE  /\ Behind \in Nat /\ Behind' \in Nat
           /\ bronze' \ counted' \subseteq bronze \ counted => Behind' <= Behind
           /\ \A e : bronze' \ counted' \subseteq (bronze \ counted) \cup {e}
                => Behind' <= Behind + 1
           /\ bronze' \subseteq counted' => Behind' = 0
<1>1. IsFiniteSet(bronze \ counted) /\ IsFiniteSet(bronze' \ counted')
  BY EventsAssumption, FS_Subset DEF AggTypeOK
<1>2. Behind \in Nat /\ Behind' \in Nat
  BY <1>1, FS_CardinalityType DEF Behind
<1>3. ASSUME bronze' \ counted' \subseteq bronze \ counted PROVE Behind' <= Behind
  BY <1>1, <1>3, FS_Subset DEF Behind
<1>4. ASSUME NEW e, bronze' \ counted' \subseteq (bronze \ counted) \cup {e}
      PROVE  Behind' <= Behind + 1
  <2>1. /\ IsFiniteSet((bronze \ counted) \cup {e})
        /\ Cardinality((bronze \ counted) \cup {e}) \in {Behind, Behind + 1}
    BY <1>1, FS_AddElement DEF Behind
  <2>2. Behind' <= Cardinality((bronze \ counted) \cup {e})
    BY <1>4, <2>1, FS_Subset DEF Behind
  <2>3. QED
    BY <1>2, <2>1, <2>2
<1>5. ASSUME bronze' \subseteq counted' PROVE Behind' = 0
  <2>1. bronze' \ counted' = {}
    BY <1>5
  <2>2. QED
    BY <2>1, FS_EmptySet DEF Behind
<1>6. QED
  BY <1>2, <1>3, <1>4, <1>5

LEMMA ConsumerKeepsLag ==
    ASSUME ConsumerInv, AggTypeOK', LagInv, ConsumerStep
    PROVE  LagInv'
<1> DEFINE C == ConsumerRefresh
<1>1. /\ AggTypeOK /\ C \in Refreshes /\ C \notin DbtRuns
      /\ processed \in Nat /\ Interval \in Nat \ {0}
      /\ processed % Interval \in Nat /\ Behind \in Nat /\ Behind' \in Nat
  BY TopicFacts, IntervalFact, ConsumerIsAWriter, BehindFacts, ConsumerAssumption,
     WindowsAssumption DEF ConsumerInv, ConsumerTypeOK
<1>2. ASSUME Close(C) PROVE ~busy'[C]
  BY <1>1, <1>2 DEF Close, AggTypeOK
<1>3. CASE StartConsumer
  <2>1. /\ phase' = "poll" /\ processed' = 0 /\ busy' = busy /\ phase = "down"
    BY <1>3 DEF StartConsumer, aggVars, table, overlap, ConsumerInv, PositionInv
  <2>2. ~(0 >= Interval)
    BY <1>1
  <2>3. QED
    BY <2>1, <2>2 DEF LagInv, LagAfter
<1>4. CASE PollRaises \/ RecordFails
  BY <1>4 DEF PollRaises, RecordFails, Down, aggVars, table, overlap, LagInv
<1>5. CASE Crash
  <2>1. phase' = "down" /\ ~busy'[C]
    BY <1>2, <1>5 DEF Crash, Down, Write, Commit, Abort, aggVars, table, overlap
  <2>2. QED
    BY <2>1 DEF LagInv
<1>6. CASE Invalid
  BY <1>6 DEF Invalid, aggVars, table, overlap, LagInv, LagAfter, Behind
<1>7. CASE StoreEvent
  <2>1. /\ phase = "poll" /\ phase' = "metrics" /\ processed' = processed + 1
        /\ bronze' = bronze \cup {Topic[offset]}
        /\ UNCHANGED <<counted, busy, undone, faulted>>
    BY <1>7 DEF StoreEvent, Arrive, InsertEvent, table, overlap
  <2>2. bronze' \ counted' \subseteq (bronze \ counted) \cup {Topic[offset]}
    BY <2>1
  <2>3. Behind' <= Behind + 1
    BY <1>1, <2>2, BehindFacts
  <2>4. ~faulted /\ ~undone /\ processed >= Interval
            => Behind' <= (processed % Interval) + 1
    BY <1>1, <2>1, <2>3 DEF LagInv, LagAfter
  <2>5. processed' - 1 = processed
    BY <1>1, <2>1
  <2>6. QED
    BY <2>1, <2>4, <2>5 DEF LagInv
<1>8. CASE StoreFails
  BY <1>8 DEF StoreFails, Arrive, aggVars, table, overlap, LagInv
<1>9. CASE WriteMetrics
  <2>1. /\ phase = "metrics" /\ processed \in Nat \ {0}
        /\ UNCHANGED <<bronze, counted, busy, undone, faulted, processed>>
    BY <1>1, <1>9
       DEF WriteMetrics, aggVars, table, overlap, ConsumerInv, PositionInv
  <2>2. CASE processed % Interval = 0
    BY <1>9, <2>1, <2>2 DEF WriteMetrics, LagInv
  <2>3. CASE processed % Interval # 0
    <3>1. phase' = "poll"
      BY <1>9, <2>3 DEF WriteMetrics, Advance
    <3>2. ASSUME processed >= Interval, ~faulted, ~undone
          PROVE  Behind <= processed % Interval
      <4>1. Interval % Interval = 0
        BY <1>1
      <4>2. processed - 1 >= Interval
        BY <1>1, <2>3, <3>2, <4>1
      <4>3. ((processed - 1) % Interval) + 1 = processed % Interval
        BY <2>1, <2>3, CountOn
      <4>4. QED
        BY <2>1, <3>2, <4>2, <4>3 DEF LagInv
    <3>3. QED
      BY <2>1, <3>1, <3>2 DEF LagInv, LagAfter, Behind
  <2>4. QED
    BY <2>2, <2>3
<1>10. CASE MetricsFail
  BY <1>10 DEF MetricsFail, aggVars, table, overlap, LagInv
<1>11. CASE BeginRefresh
  <2>1. selected'[C] = bronze /\ bronze' = bronze
    BY <1>1, <1>11 DEF BeginRefresh, Begin, Selection, AggTypeOK
  <2>2. UNCHANGED <<phase, processed>> /\ phase = "refresh"
    BY <1>11 DEF BeginRefresh, consumerVars, position
  <2>3. QED
    BY <2>1, <2>2 DEF LagInv
<1>12. CASE EndRefresh
  <2>1. /\ phase = "refresh" /\ phase' = "poll" /\ processed' = processed
        /\ Write(C) /\ Close(C) /\ faulted' = faulted
    BY <1>12 DEF EndRefresh, Advance, Write, Commit
  <2>2. bronze' \subseteq counted'
    BY <2>1 DEF Write, Commit, Close, LagInv
  <2>3. Behind' = 0
    BY <1>1, <2>2, BehindFacts
  <2>4. ~busy'[C]
    BY <1>2, <2>1
  <2>5. LagAfter(processed)'
    BY <1>1, <2>1, <2>3 DEF LagAfter
  <2>6. QED
    BY <2>1, <2>4, <2>5 DEF LagInv
<1>13. CASE RefreshFails
  <2>1. ~busy'[C]
    BY <1>2, <1>13
       DEF RefreshFails, Write, Commit, Abort, aggVars, table, overlap
  <2>2. QED
    BY <1>13, <2>1 DEF RefreshFails, LagInv
<1>14. CASE RecordError
  BY <1>14 DEF RecordError, Advance, aggVars, table, overlap, LagInv, LagAfter,
               Behind
<1>15. QED
  BY <1>3, <1>4, <1>5, <1>6, <1>7, <1>8, <1>9, <1>10, <1>11, <1>12, <1>13, <1>14
     DEF ConsumerStep

LEMMA JobKeepsLag ==
    ASSUME AggInv, AggTypeOK', ConsumerInv, LagInv, JobStep
    PROVE  LagInv'
<1>1. PICK w \in Refreshes \ {ConsumerRefresh} : RefreshStep(w)
  BY DEF JobStep
<1>2. /\ bronze' = bronze /\ UNCHANGED <<phase, processed, faulted>>
      /\ busy'[ConsumerRefresh] = busy[ConsumerRefresh]
      /\ selected'[ConsumerRefresh] = selected[ConsumerRefresh]
      /\ undone => undone'
  BY <1>1, ConsumerIsAWriter DEF JobStep, RefreshStep, Begin, Write, Abort, Close,
     Commit, consumerVars, position, AggInv, AggTypeOK
<1>3. ~undone' => counted \subseteq counted'
  BY <1>1, StepKeepsInv DEF AggNext
<1>4. ~undone' => Behind' <= Behind
  <2>1. ~undone' => bronze' \ counted' \subseteq bronze \ counted
    BY <1>2, <1>3
  <2>2. QED
    BY <2>1, BehindFacts DEF AggInv
<1>5. Behind \in Nat /\ Behind' \in Nat
  BY BehindFacts DEF AggInv
<1>6. /\ processed \in Nat /\ processed % Interval \in Nat
      /\ phase = "metrics" => (processed - 1) % Interval \in Nat
  <2>1. processed \in Nat /\ (phase = "metrics" => processed - 1 \in Nat)
    BY TopicFacts DEF ConsumerInv, ConsumerTypeOK, PositionInv, Offsets
  <2>2. QED
    BY <2>1, IntervalFact
<1>7. ASSUME ~faulted', ~undone'
      PROVE  /\ phase \in {"poll", "error"} => LagAfter(processed)'
             /\ phase = "metrics" /\ processed - 1 >= Interval
                    => Behind' <= ((processed - 1) % Interval) + 1
  BY <1>2, <1>4, <1>5, <1>6, <1>7 DEF LagInv, LagAfter
<1>8. QED
  BY <1>2, <1>7 DEF LagInv

\* While no statement fails, silver is never behind by Interval events, whatever
\* dbt and the job do beside the consumer, unless one of them writes after a
\* writer that read later.
THEOREM SilverLagBounded == Spec => []SilverLag
<1>1. Init => LagInv
  <2>1. AggInit => ~busy[ConsumerRefresh]
    BY ConsumerIsAWriter DEF AggInit
  <2>2. QED
    BY <2>1 DEF Init, ConsumerInit, LagInv
<1>2. ConsumerInv /\ AggInv /\ AggTypeOK' /\ LagInv /\ [Next]_stackVars => LagInv'
  <2> SUFFICES ASSUME ConsumerInv, AggInv, AggTypeOK', LagInv, [Next]_stackVars
               PROVE  LagInv'
    OBVIOUS
  <2>1. CASE UNCHANGED <<bronze, table, consumerVars>>
    BY <2>1 DEF table, overlap, consumerVars, position, LagInv, LagAfter, Behind
  <2>2. PagingNext => UNCHANGED bronze
    BY DEF PagingNext, StartReading, ReadPage, StopReading
  <2>3. QED
    BY <2>1, <2>2, ConsumerKeepsLag, JobKeepsLag
       DEF Next, ConsumerNext, stackVars, localVars, aggVars
<1>3. LagInv => SilverLag
  BY DEF LagInv, LagAfter, SilverLag, Behind
<1>4. QED
  BY <1>1, <1>2, <1>3, ConsumerInvHolds, StackImplementsAggregates,
     AggInvariant, AggTypeCorrect, PTL DEF Spec

=============================================================================
