----------------------------- MODULE EventStore -----------------------------
(***************************************************************************)
(* bronze.market_events as the readers of the local stack see it: rows are *)
(* added, one transaction each, and are never changed or removed.  An      *)
(* event is the number of its place in the order of (ingested_at,          *)
(* event_id); ingested_at is the time at which the transaction began, so   *)
(* that rows need not appear in that order.                                *)
(***************************************************************************)
EXTENDS Integers, FiniteSets

CONSTANT Events
ASSUME EventsAssumption == Events \subseteq Nat /\ IsFiniteSet(Events)

VARIABLE bronze

StoreInit == bronze = {}

\* ON CONFLICT (event_id) DO NOTHING
InsertEvent(e) == bronze' = bronze \cup {e}

=============================================================================
