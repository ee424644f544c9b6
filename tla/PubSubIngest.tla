---------------------------- MODULE PubSubIngest ----------------------------
(***************************************************************************)
(* Cloud ingestion: a Pub/Sub push subscription (infra/terraform/gcp) that *)
(* delivers at least once to the worker (apps/pubsub-worker), which        *)
(* inserts into bronze.market_events and answers with an HTTP status.      *)
(*                                                                         *)
(* There is one worker (max_instance_count 1, concurrency 1, and the       *)
(* handler blocks its event loop), so requests are served one at a time.   *)
(* Deadlines, answers and transactions live on their own: an attempt may   *)
(* be given up while its request still runs, and a transaction may outlive *)
(* the connection that opened it.                                          *)
(***************************************************************************)
EXTENDS Integers, FiniteSets

CONSTANTS
    Messages,    \* messages of the topic
    Events,      \* event_id values
    NoData,      \* a message without message.data (attributes only)
    BadPayload,  \* data that is not a MarketEvent
    None,
    MaxAttempts  \* max_delivery_attempts

\* A push request: a message and the number of the delivery attempt.
Requests == Messages \X (1 .. MaxAttempts)

\* What a message carries: an event, or something that is none.
Contents == Events \cup {NoData, BadPayload}

ASSUME ContentsAssumption ==
    NoData \notin Events /\ BadPayload \notin Events /\ NoData # BadPayload
ASSUME NoneAssumption ==
    None \notin Messages /\ None \notin Requests /\ None \notin Contents
ASSUME AttemptsAssumption == MaxAttempts \in Nat

VARIABLES
    sub,          \* message -> its state in the subscription
    content,      \* message -> what it carries, None before it is published
    attempts,     \* message -> delivery attempts made
    outstanding,  \* message -> is the ack deadline of the last one running?
    refused,      \* message -> was the last one answered with an error?
    requests,     \* push requests on their way to the worker
    pc,           \* the worker's next step
    request,      \* the request it serves
    status,       \* the HTTP status it is going to answer, 0 before
    row,          \* event -> message whose payload is in its bronze row
    open          \* requests whose transaction holds an uncommitted row

subscription == <<sub, content, attempts, outstanding, refused>>
worker == <<pc, request, status>>
database == <<row, open>>
vars == <<subscription, requests, worker, database>>

EventOf(r) == content[r[1]]
Valid(m) == content[m] \in Events

TypeOK ==
    /\ sub \in [Messages -> {"unpublished", "pending", "acked",
                             "deadLettered", "expired"}]
    /\ content \in [Messages -> Contents \cup {None}]
    /\ attempts \in [Messages -> 0 .. MaxAttempts]
    /\ outstanding \in [Messages -> BOOLEAN]
    /\ refused \in [Messages -> BOOLEAN]
    /\ requests \in SUBSET Requests
    /\ pc \in {"idle", "insert", "commit", "answer"}
    /\ request \in Requests \cup {None}
    /\ pc = "idle" <=> request = None
    /\ status \in {0, 200, 400, 500}
    /\ row \in [Events -> Messages \cup {None}]
    /\ open \in SUBSET Requests

Init ==
    /\ sub = [m \in Messages |-> "unpublished"]
    /\ content = [m \in Messages |-> None]
    /\ attempts = [m \in Messages |-> 0]
    /\ outstanding = [m \in Messages |-> FALSE]
    /\ refused = [m \in Messages |-> FALSE]
    /\ requests = {}
    /\ pc = "idle" /\ request = None /\ status = 0
    /\ row = [e \in Events |-> None]
    /\ open = {}

-----------------------------------------------------------------------------
(***************************************************************************)
(* The subscription.  Publishers may send anything and may send an event   *)
(* again; whether they learn that it arrived makes no difference here.  A  *)
(* definition marked "Faulty" is not part of the model: it is a plausible  *)
(* mistake in the definition below it, which a property must notice when   *)
(* it is put in its place.                                                 *)
(***************************************************************************)

Publish(m) ==
    /\ sub[m] = "unpublished"
    /\ sub' = [sub EXCEPT ![m] = "pending"]
    /\ \E c \in Contents : content' = [content EXCEPT ![m] = c]
    /\ UNCHANGED <<attempts, outstanding, refused, requests, worker, database>>

\* Faulty: no limit of delivery attempts.
PushForEver(m) ==
    /\ sub[m] = "pending" /\ ~outstanding[m]
    /\ attempts' = [attempts EXCEPT ![m] = @ + 1]
    /\ outstanding' = [outstanding EXCEPT ![m] = TRUE]
    /\ refused' = [refused EXCEPT ![m] = FALSE]
    /\ requests' = requests \cup {<<m, attempts[m] + 1>>}
    /\ UNCHANGED <<sub, content, worker, database>>

Push(m) ==
    /\ sub[m] = "pending" /\ ~outstanding[m] /\ attempts[m] < MaxAttempts
    /\ attempts' = [attempts EXCEPT ![m] = @ + 1]
    /\ outstanding' = [outstanding EXCEPT ![m] = TRUE]
    /\ refused' = [refused EXCEPT ![m] = FALSE]
    /\ requests' = requests \cup {<<m, attempts[m] + 1>>}
    /\ UNCHANGED <<sub, content, worker, database>>

\* The ack deadline (30 s) passes: no answer arrived, or none that counted.
DeadlinePasses(m) ==
    /\ outstanding[m]
    /\ outstanding' = [outstanding EXCEPT ![m] = FALSE]
    /\ UNCHANGED <<sub, content, attempts, refused, requests, worker, database>>

\* Faulty: max_delivery_attempts counts redeliveries.
DeadLetterLater(m) ==
    /\ sub[m] = "pending" /\ ~outstanding[m] /\ attempts[m] > MaxAttempts
    /\ sub' = [sub EXCEPT ![m] = "deadLettered"]
    /\ UNCHANGED <<content, attempts, outstanding, refused>>
    /\ UNCHANGED <<requests, worker, database>>

DeadLetter(m) ==
    /\ sub[m] = "pending" /\ ~outstanding[m] /\ attempts[m] = MaxAttempts
    /\ sub' = [sub EXCEPT ![m] = "deadLettered"]
    /\ UNCHANGED <<content, attempts, outstanding, refused>>
    /\ UNCHANGED <<requests, worker, database>>

\* message_retention_duration (600 s) is over.
Expire(m) ==
    /\ sub[m] = "pending"
    /\ sub' = [sub EXCEPT ![m] = "expired"]
    /\ outstanding' = [outstanding EXCEPT ![m] = FALSE]
    /\ UNCHANGED <<content, attempts, refused, requests, worker, database>>

\* A request that never reaches the worker (429 or 503 from Cloud Run, no
\* instance in time): the deadline of its attempt runs on.
DropRequest(r) ==
    /\ r \in requests
    /\ requests' = requests \ {r}
    /\ UNCHANGED <<subscription, worker, database>>

-----------------------------------------------------------------------------
(***************************************************************************)
(* The worker: pubsub_push and process_message.                            *)
(***************************************************************************)

Take(r) ==
    /\ pc = "idle" /\ r \in requests
    /\ requests' = requests \ {r}
    /\ request' = r

\* Not a MarketEvent: extract_pubsub_data raises (400), or decode_message or
\* validate_event does (500).
Refuse(r) ==
    /\ Take(r) /\ ~Valid(r[1])
    /\ pc' = "answer"
    /\ status' = IF EventOf(r) = NoData THEN 400 ELSE 500
    /\ UNCHANGED <<subscription, database>>

Accept(r) ==
    /\ Take(r) /\ Valid(r[1])
    /\ pc' = "insert"
    /\ UNCHANGED <<subscription, status, database>>

\* The INSERT of an event_id that an open transaction has inserted waits for
\* that transaction to end.
NotLocked == \A t \in open : EventOf(t) # EventOf(request)

\* Faulty: INSERT without ON CONFLICT DO NOTHING, replacing the row.
InsertOrReplace ==
    /\ pc = "insert" /\ NotLocked
    /\ pc' = "commit"
    /\ open' = open \cup {request}
    /\ UNCHANGED <<subscription, requests, request, status, row>>

InsertRow ==
    /\ pc = "insert" /\ NotLocked /\ row[EventOf(request)] = None
    /\ pc' = "commit"
    /\ open' = open \cup {request}
    /\ UNCHANGED <<subscription, requests, request, status, row>>

\* ON CONFLICT (event_id) DO NOTHING: the transaction inserts nothing.
SkipExisting ==
    /\ pc = "insert" /\ NotLocked /\ row[EventOf(request)] # None
    /\ pc' = "commit"
    /\ UNCHANGED <<subscription, requests, request, status, database>>

\* An exception before the commit is sent; the connection's transaction, if
\* any, is rolled back with it.
InsertFails ==
    /\ pc = "insert"
    /\ pc' = "answer" /\ status' = 500
    /\ UNCHANGED <<subscription, requests, request, database>>

\* The row of a transaction becomes visible.
Committed(t) ==
    /\ row' = [row EXCEPT ![EventOf(t)] = t[1]]
    /\ open' = open \ {t}

\* The with block of insert_bronze_event commits; then the answer is 200.
Commit ==
    /\ pc = "commit"
    /\ IF request \in open THEN Committed(request) ELSE UNCHANGED database
    /\ pc' = "answer" /\ status' = 200
    /\ UNCHANGED <<subscription, requests, request>>

\* Faulty: an error of the commit is logged and the message reported as ok.
CommitErrorSwallowed ==
    /\ pc = "commit"
    /\ pc' = "answer" /\ status' = 200
    /\ UNCHANGED <<subscription, requests, request, database>>

\* The connection breaks while the commit is under way.  The worker sees an
\* exception; the database may still commit the transaction.
CommitFails ==
    /\ pc = "commit"
    /\ pc' = "answer" /\ status' = 500
    /\ UNCHANGED <<subscription, requests, request, database>>

BecomeIdle == pc' = "idle" /\ request' = None /\ status' = 0

\* Faulty: every status acknowledges.
AcknowledgedAnyway ==
    /\ pc = "answer" /\ sub[request[1]] = "pending"
    /\ sub' = [sub EXCEPT ![request[1]] = "acked"]
    /\ outstanding' = [outstanding EXCEPT ![request[1]] = FALSE]
    /\ BecomeIdle
    /\ UNCHANGED <<content, attempts, refused, requests, database>>

\* A 2xx answer acknowledges the message, even one that arrives late.
Acknowledged ==
    /\ pc = "answer" /\ status = 200 /\ sub[request[1]] = "pending"
    /\ sub' = [sub EXCEPT ![request[1]] = "acked"]
    /\ outstanding' = [outstanding EXCEPT ![request[1]] = FALSE]
    /\ BecomeIdle
    /\ UNCHANGED <<content, attempts, refused, requests, database>>

\* Any other status ends the attempt; Pub/Sub makes no difference between
\* 400 and 500.
NotAcknowledged ==
    /\ pc = "answer" /\ status # 200
    /\ outstanding[request[1]] /\ attempts[request[1]] = request[2]
    /\ outstanding' = [outstanding EXCEPT ![request[1]] = FALSE]
    /\ refused' = [refused EXCEPT ![request[1]] = TRUE]
    /\ BecomeIdle
    /\ UNCHANGED <<sub, content, attempts, requests, database>>

\* The answer is lost, or comes too late to count.
AnswerIgnored ==
    /\ pc = "answer"
    /\ BecomeIdle
    /\ UNCHANGED <<subscription, requests, database>>

\* The instance dies at any point of a request.
Crash ==
    /\ pc # "idle"
    /\ BecomeIdle
    /\ UNCHANGED <<subscription, requests, database>>

-----------------------------------------------------------------------------
(***************************************************************************)
(* A transaction whose client is gone ends one way or the other.           *)
(***************************************************************************)
Orphan(t) == t \in open /\ ~(pc = "commit" /\ request = t)

OrphanCommits(t) ==
    /\ Orphan(t)
    /\ Committed(t)
    /\ UNCHANGED <<subscription, requests, worker>>

OrphanRollsBack(t) ==
    /\ Orphan(t)
    /\ open' = open \ {t}
    /\ UNCHANGED <<subscription, requests, worker, row>>

-----------------------------------------------------------------------------
SubscriptionStep ==
    \/ \E m \in Messages : \/ Publish(m) \/ Push(m) \/ DeadlinePasses(m)
                           \/ DeadLetter(m) \/ Expire(m)
    \/ \E r \in requests : DropRequest(r)

WorkerStep ==
    \/ \E r \in requests : Refuse(r) \/ Accept(r)
    \/ InsertRow \/ SkipExisting \/ InsertFails
    \/ Commit \/ CommitFails
    \/ Acknowledged \/ NotAcknowledged \/ AnswerIgnored
    \/ Crash

DatabaseStep == \E t \in open : OrphanCommits(t) \/ OrphanRollsBack(t)

Next == SubscriptionStep \/ WorkerStep \/ DatabaseStep

Spec == Init /\ [][Next]_vars

(***************************************************************************)
(* Pub/Sub keeps delivering, its deadlines pass, and it forwards what it   *)
(* gives up.  Nothing is assumed of the worker, which may crash for ever,  *)
(* nor of publishers and retention.                                        *)
(***************************************************************************)
Fairness ==
    \A m \in Messages :
        WF_vars(Push(m)) /\ WF_vars(DeadlinePasses(m)) /\ WF_vars(DeadLetter(m))

FairSpec == Spec /\ Fairness

-----------------------------------------------------------------------------
(***************************************************************************)
(* Correctness.                                                            *)
(***************************************************************************)

Stored(m) == Valid(m) /\ row[content[m]] # None

\* A message that was acknowledged, and so is never delivered again, carries
\* an event that is in bronze.market_events.
AckedMeansStored ==
    \A m \in Messages : sub[m] = "acked" => Stored(m)

\* The first payload committed for an event_id stays: no redelivery, no second
\* message with that event_id and no transaction that ends late replaces or
\* removes it.
FirstPayloadStays ==
    [][\A e \in Events : row[e] # None => row'[e] = row[e]]_row

\* A valid event that was published is in the end stored, or its message is
\* in the dead-letter topic or has outlived the retention: it is not silently
\* dropped by the worker.
ValidEventStoredOrGivenUp ==
    \A m \in Messages :
        Valid(m) /\ sub[m] = "pending"
            ~> Stored(m) \/ sub[m] \in {"deadLettered", "expired"}

\* Ingestion keeps the contract.
Contract == INSTANCE IngestContract WITH fate <- sub, record <- row,
    Garbage <- {NoData, BadPayload}
ImplementsContract == Contract!ISpec

-----------------------------------------------------------------------------
(***************************************************************************)
(* What documents say and the system does not do.                          *)
(***************************************************************************)

\* A dead-lettered message is one that the worker rejected: its payload is not
\* in the event store (docs/replay-backfill-strategy.md).
DeadLetteredNotStored ==
    \A m \in Messages :
        sub[m] = "deadLettered" /\ Valid(m) => row[content[m]] # m

\* A message answered with 400 is dead-lettered rather than retried
\* (apps/pubsub-worker/README.md).
BadRequestNotRetried ==
    [][\A m \in Messages : Push(m) /\ content[m] = NoData => ~refused[m]]_vars

=============================================================================
