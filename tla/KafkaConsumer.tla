--------------------------- MODULE KafkaConsumer ---------------------------
(***************************************************************************)
(* The consumer of the local stack (apps/consumer): it reads the topic     *)
(* from the earliest offset each time it is started, stores each event,    *)
(* writes its metrics and refreshes silver after every Interval events.    *)
(* Every statement is a transaction on a connection of its own and may     *)
(* fail; the process may be gone after any of them.                        *)
(***************************************************************************)
EXTENDS Aggregates, Sequences

CONSTANTS
    Topic,             \* the messages: event ids, Rejected or Undecodable
    Rejected,          \* a JSON value that is no MarketEvent
    Undecodable,       \* a message value that is no JSON
    Interval,          \* SILVER_REFRESH_EVERY_N_EVENTS
    ConsumerRefresh    \* the consumer's refreshes, one of FullRefreshes

ASSUME ConsumerAssumption ==
    /\ Topic \in Seq(Events \cup {Rejected, Undecodable})
    /\ Rejected \notin Events /\ Undecodable \notin Events
    /\ Interval \in Nat \ {0}
    /\ ConsumerRefresh \in FullRefreshes

VARIABLES
    phase,         \* where main() is
    offset,        \* the message at hand, or the next one
    processed,
    errors,        \* offsets for which consumer_errors_total got a row
    lastOffset,    \* latest_processed_offset as the API shows it (0: none)
    faulted        \* history: a statement failed since the start

position == <<phase, offset>>
consumerVars == <<position, processed, errors, lastOffset, faulted>>
localVars == <<aggVars, consumerVars>>

Offsets == 1 .. Len(Topic)

ConsumerTypeOK ==
    /\ AggTypeOK
    /\ phase \in {"down", "poll", "metrics", "refresh", "error"}
    /\ offset \in 1 .. Len(Topic) + 1
    /\ processed \in 0 .. Len(Topic)
    /\ errors \in SUBSET Offsets
    /\ lastOffset \in 0 .. Len(Topic)
    /\ faulted \in BOOLEAN

ConsumerInit ==
    /\ AggInit
    /\ phase = "down"
    /\ offset = 1
    /\ processed = 0
    /\ errors = {}
    /\ lastOffset = 0
    /\ faulted = FALSE

-----------------------------------------------------------------------------
\* No group_id, so that no offset was committed: auto_offset_reset applies.
StartConsumer ==
    /\ phase = "down"
    /\ phase' = "poll"
    /\ UNCHANGED <<aggVars, offset, processed, errors, lastOffset, faulted>>

\* The process ends: nothing but its locals goes with it.
Down ==
    /\ phase' = "down"
    /\ offset' = 1
    /\ processed' = 0
    /\ faulted' = FALSE

\* value_deserializer raises in the fetch that holds an undecodable message,
\* at the latest when it is next: no handler is around the loop's iterator.
PollRaises ==
    /\ phase = "poll"
    /\ \E i \in Offsets : i >= offset /\ Topic[i] = Undecodable
    /\ Down
    /\ UNCHANGED <<aggVars, errors, lastOffset>>

Invalid ==
    /\ phase = "poll" /\ offset \in Offsets
    /\ Topic[offset] = Rejected
    /\ phase' = "error"
    /\ UNCHANGED <<aggVars, offset, processed, errors, lastOffset, faulted>>

StoreEvent ==
    /\ phase = "poll" /\ offset \in Offsets
    /\ Topic[offset] \in Events
    /\ Arrive(Topic[offset])
    /\ phase' = "metrics"
    /\ processed' = processed + 1
    /\ UNCHANGED <<offset, errors, lastOffset, faulted>>

\* The insert raises, its transaction committed or not.
StoreFails ==
    /\ phase = "poll" /\ offset \in Offsets
    /\ Topic[offset] \in Events
    /\ Arrive(Topic[offset]) \/ UNCHANGED aggVars
    /\ phase' = "error"
    /\ faulted' = TRUE
    /\ UNCHANGED <<offset, processed, errors, lastOffset>>

Advance == phase' = "poll" /\ offset' = offset + 1

\* Faulty: one event late.
WriteMetricsRefreshLate ==
    /\ phase = "metrics"
    /\ lastOffset' = offset
    /\ IF processed % Interval = 1 THEN phase' = "refresh" /\ UNCHANGED offset
                                   ELSE Advance
    /\ UNCHANGED <<aggVars, processed, errors, faulted>>

WriteMetrics ==
    /\ phase = "metrics"
    /\ lastOffset' = offset
    /\ IF processed % Interval = 0 THEN phase' = "refresh" /\ UNCHANGED offset
                                   ELSE Advance
    /\ UNCHANGED <<aggVars, processed, errors, faulted>>

\* One of the three inserts raises: the refresh that is due is left out too.
MetricsFail ==
    /\ phase = "metrics"
    /\ lastOffset' \in {lastOffset, offset}
    /\ phase' = "error"
    /\ faulted' = TRUE
    /\ UNCHANGED <<aggVars, offset, processed, errors>>

BeginRefresh ==
    /\ phase = "refresh"
    /\ Begin(ConsumerRefresh)
    /\ UNCHANGED consumerVars

EndRefresh ==
    /\ phase = "refresh"
    /\ Write(ConsumerRefresh)
    /\ Advance
    /\ UNCHANGED <<processed, errors, lastOffset, faulted>>

\* No connection, an error of the statement, or its answer lost.
RefreshFails ==
    /\ phase = "refresh"
    /\ \/ ~busy[ConsumerRefresh] /\ UNCHANGED aggVars
       \/ Abort(ConsumerRefresh)
       \/ Write(ConsumerRefresh)
    /\ phase' = "error"
    /\ faulted' = TRUE
    /\ UNCHANGED <<offset, processed, errors, lastOffset>>

\* Faulty: except Exception: pass
SwallowError ==
    /\ phase = "error"
    /\ Advance
    /\ UNCHANGED <<aggVars, processed, errors, lastOffset, faulted>>

RecordError ==
    /\ phase = "error"
    /\ errors' = errors \cup {offset}
    /\ Advance
    /\ UNCHANGED <<aggVars, processed, lastOffset, faulted>>

\* The handler's own insert raises, which nothing catches.
RecordFails ==
    /\ phase = "error"
    /\ errors' \in {errors, errors \cup {offset}}
    /\ Down
    /\ UNCHANGED <<aggVars, lastOffset>>

\* Killed or interrupted; the server ends an open refresh in one way or the
\* other.
Crash ==
    /\ phase # "down"
    /\ IF busy[ConsumerRefresh]
       THEN Write(ConsumerRefresh) \/ Abort(ConsumerRefresh)
       ELSE UNCHANGED aggVars
    /\ Down
    /\ UNCHANGED <<errors, lastOffset>>

ConsumerStep ==
    \/ StartConsumer \/ PollRaises
    \/ Invalid \/ StoreEvent \/ StoreFails
    \/ WriteMetrics \/ MetricsFail
    \/ BeginRefresh \/ EndRefresh \/ RefreshFails
    \/ RecordError \/ RecordFails
    \/ Crash

\* The silver refresh job and dbt.
JobStep ==
    /\ \E w \in Refreshes \ {ConsumerRefresh} : RefreshStep(w)
    /\ UNCHANGED consumerVars

ConsumerNext == ConsumerStep \/ JobStep

ConsumerSpec == ConsumerInit /\ [][ConsumerNext]_localVars

-----------------------------------------------------------------------------
(***************************************************************************)
(* Correctness.                                                            *)
(***************************************************************************)

Handled(i) == Topic[i] \in bronze \/ i \in errors

\* No message is skipped in silence: each one before the current offset, and
\* each one up to the latest_processed_offset that the API shows, is stored or
\* has its row in consumer_errors_total, whatever failed or was restarted.
NothingSkipped ==
    \A i \in Offsets : i < offset \/ i <= lastOffset => Handled(i)

\* Until a statement fails, silver is never behind by Interval events: between
\* two messages it counts every stored event but the last few, replays and
\* rejected messages included.
SilverLag ==
    phase = "poll" /\ processed >= Interval /\ ~faulted /\ ~undone
        => Cardinality(bronze \ counted) <= processed % Interval

=============================================================================
