--------------------------- MODULE IngestContract ---------------------------
(***************************************************************************)
(* What the ingestion path promises to those who publish and to those who  *)
(* read the event store, whatever the subscription, the worker and the     *)
(* database do in between: an event is recorded once and for all by one of *)
(* the messages that carry it, a message is acknowledged only when its     *)
(* event is recorded, and a message that is settled stays settled.         *)
(***************************************************************************)
CONSTANTS
    Messages,
    Events,
    Garbage,  \* contents of a message that are not events
    None

VARIABLES
    fate,     \* message -> where it is
    content,  \* message -> what it carries, None before it is sent
    record    \* event -> the message that recorded it, None if none did

ivars == <<fate, content, record>>

IInit ==
    /\ fate = [m \in Messages |-> "unpublished"]
    /\ content = [m \in Messages |-> None]
    /\ record = [e \in Events |-> None]

Send(m) ==
    /\ fate[m] = "unpublished"
    /\ fate' = [fate EXCEPT ![m] = "pending"]
    /\ \E c \in Events \cup Garbage : content' = [content EXCEPT ![m] = c]
    /\ UNCHANGED record

\* A copy of the message that is still about may record its event even after
\* the subscription has given the message up.
Record(m) ==
    /\ fate[m] # "unpublished"
    /\ content[m] \in Events /\ record[content[m]] = None
    /\ record' = [record EXCEPT ![content[m]] = m]
    /\ UNCHANGED <<fate, content>>

Acknowledge(m) ==
    /\ fate[m] = "pending"
    /\ content[m] \in Events /\ record[content[m]] # None
    /\ fate' = [fate EXCEPT ![m] = "acked"]
    /\ UNCHANGED <<content, record>>

GiveUp(m) ==
    /\ fate[m] = "pending"
    /\ \E s \in {"deadLettered", "expired"} : fate' = [fate EXCEPT ![m] = s]
    /\ UNCHANGED <<content, record>>

INext ==
    \E m \in Messages : Send(m) \/ Record(m) \/ Acknowledge(m) \/ GiveUp(m)

ISpec == IInit /\ [][INext]_ivars

=============================================================================
