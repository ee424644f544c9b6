------------------------ MODULE PubSubIngest_proofs ------------------------
(***************************************************************************)
(* Proofs about cloud ingestion, for every set of messages and events and  *)
(* every limit of delivery attempts.                                       *)
(***************************************************************************)
EXTENDS PubSubIngest, TLAPS

-----------------------------------------------------------------------------
\* Every variable keeps its type.
THEOREM TypeCorrect == Spec => []TypeOK
<1>1. Init => TypeOK
  BY AttemptsAssumption DEF Init, TypeOK, Contents
<1>2. TypeOK /\ [Next]_vars => TypeOK'
  <2> SUFFICES ASSUME TypeOK, [Next]_vars PROVE TypeOK'
    OBVIOUS
  <2> USE AttemptsAssumption, NoneAssumption
      DEF TypeOK, subscription, worker, database
  <2>1. ASSUME NEW m \in Messages, Publish(m) PROVE TypeOK'
    BY <2>1 DEF Publish, Contents
  <2>2. ASSUME NEW m \in Messages, Push(m) PROVE TypeOK'
    <3>1. attempts[m] + 1 \in 1 .. MaxAttempts
      BY <2>2 DEF Push
    <3>2. requests' \in SUBSET Requests
      BY <2>2, <3>1 DEF Push, Requests
    <3>3. QED
      BY <2>2, <3>1, <3>2 DEF Push
  <2>3. ASSUME NEW m \in Messages, DeadlinePasses(m) PROVE TypeOK'
    BY <2>3 DEF DeadlinePasses
  <2>4. ASSUME NEW m \in Messages, DeadLetter(m) PROVE TypeOK'
    BY <2>4 DEF DeadLetter
  <2>5. ASSUME NEW m \in Messages, Expire(m) PROVE TypeOK'
    BY <2>5 DEF Expire
  <2>6. ASSUME NEW r \in requests, DropRequest(r) PROVE TypeOK'
    BY <2>6 DEF DropRequest
  <2>7. ASSUME NEW r \in requests, Refuse(r) \/ Accept(r) PROVE TypeOK'
    BY <2>7 DEF Refuse, Accept, Take
  <2>8. CASE InsertRow
    BY <2>8 DEF InsertRow
  <2>9. CASE SkipExisting \/ InsertFails \/ CommitFails
    BY <2>9 DEF SkipExisting, InsertFails, CommitFails
  <2>10. ASSUME NEW t \in open, Committed(t)
         PROVE  row' \in [Events -> Messages \cup {None}] /\ open' \subseteq open
    <3>1. t[1] \in Messages
      BY DEF Requests
    <3>2. QED
      BY <2>10, <3>1 DEF Committed
  <2>11. CASE Commit
    BY <2>10, <2>11 DEF Commit
  <2>12. CASE Acknowledged
    BY <2>12 DEF Acknowledged, BecomeIdle
  <2>13. CASE NotAcknowledged
    BY <2>13 DEF NotAcknowledged, BecomeIdle
  <2>14. CASE AnswerIgnored \/ Crash
    BY <2>14 DEF AnswerIgnored, Crash, BecomeIdle
  <2>15. ASSUME NEW t \in open, OrphanCommits(t) PROVE TypeOK'
    BY <2>10, <2>15 DEF OrphanCommits
  <2>16. ASSUME NEW t \in open, OrphanRollsBack(t) PROVE TypeOK'
    BY <2>16 DEF OrphanRollsBack
  <2>17. CASE UNCHANGED vars
    BY <2>17 DEF vars
  <2>18. QED
    BY <2>1, <2>2, <2>3, <2>4, <2>5, <2>6, <2>7, <2>8, <2>9, <2>11, <2>12,
       <2>13, <2>14, <2>15, <2>16, <2>17
       DEF Next, SubscriptionStep, WorkerStep, DatabaseStep
<1>3. QED
  BY <1>1, <1>2, PTL DEF Spec

-----------------------------------------------------------------------------
(***************************************************************************)
(* The invariant.  What a request is about does not change while the       *)
(* request is alive (Published, Serving); the unique index lets one open *)
(* transaction per event_id hold a row, and only while there is no         *)
(* committed one (Locking); from the INSERT on the worker knows that the   *)
(* row is there or that its own transaction brings it (Promised).          *)
(***************************************************************************)
Published ==
    /\ \A m \in Messages : sub[m] = "unpublished" <=> content[m] = None
    /\ \A t \in open : Valid(t[1])

Serving == pc \in {"insert", "commit"} => Valid(request[1])

Locking ==
    /\ \A t, u \in open : EventOf(t) = EventOf(u) => t = u
    /\ \A t \in open : row[EventOf(t)] = None

Promised ==
    /\ pc = "commit" => request \in open \/ Stored(request[1])
    /\ pc = "answer" /\ status = 200 => Stored(request[1])

Inv == Published /\ Serving /\ Locking /\ Promised /\ AckedMeansStored

LEMMA InvHolds == Spec => []Inv
<1>1. Init => Inv
  BY DEF Init, Inv, Published, Serving, Locking, Promised, AckedMeansStored
<1>2. TypeOK /\ TypeOK' /\ Inv /\ [Next]_vars => Inv'
  <2> SUFFICES ASSUME TypeOK, TypeOK', Inv, [Next]_vars PROVE Inv'
    OBVIOUS
  <2> USE NoneAssumption
      DEF TypeOK, Requests, subscription, worker, database, Valid, EventOf,
          Stored, BecomeIdle, Inv, Published, Serving, Locking, Promised,
          AckedMeansStored
  <2>1. ASSUME NEW m \in Messages, Publish(m) PROVE Inv'
    BY <2>1 DEF Publish, Contents
  <2>2. ASSUME NEW m \in Messages, Push(m) PROVE Inv'
    BY <2>2 DEF Push
  <2>3. ASSUME NEW m \in Messages,
               DeadlinePasses(m) \/ DeadLetter(m) \/ Expire(m)
        PROVE  Inv'
    BY <2>3 DEF DeadlinePasses, DeadLetter, Expire
  <2>4. ASSUME NEW r \in requests, DropRequest(r) PROVE Inv'
    BY <2>4 DEF DropRequest
  <2>5. ASSUME NEW r \in requests, Refuse(r) \/ Accept(r) PROVE Inv'
    BY <2>5 DEF Refuse, Accept, Take
  <2>6. CASE InsertRow
    BY <2>6 DEF InsertRow, NotLocked
  <2>7. CASE SkipExisting \/ InsertFails \/ CommitFails
    BY <2>7 DEF SkipExisting, InsertFails, CommitFails
  <2>8. CASE Commit
    BY <2>8 DEF Commit, Committed
  <2>9. CASE Acknowledged \/ NotAcknowledged
    BY <2>9 DEF Acknowledged, NotAcknowledged
  <2>10. CASE AnswerIgnored \/ Crash
    BY <2>10 DEF AnswerIgnored, Crash
  <2>11. ASSUME NEW t \in open, OrphanCommits(t) \/ OrphanRollsBack(t)
         PROVE  Inv'
    BY <2>11 DEF OrphanCommits, OrphanRollsBack, Orphan, Committed
  <2>12. CASE UNCHANGED vars
    BY <2>12 DEF vars
  <2>13. QED
    BY <2>1, <2>2, <2>3, <2>4, <2>5, <2>6, <2>7, <2>8, <2>9, <2>10, <2>11,
       <2>12 DEF Next, SubscriptionStep, WorkerStep, DatabaseStep
<1>3. QED
  BY <1>1, <1>2, TypeCorrect, PTL DEF Spec

\* An acknowledged message's event is stored, whatever crashes, late answers
\* and broken commits came before.
THEOREM AckIsDurable == Spec => []AckedMeansStored
<1>1. Inv => AckedMeansStored
  BY DEF Inv
<1>2. QED
  BY <1>1, InvHolds, PTL

-----------------------------------------------------------------------------
\* A step that writes a row writes one that was not there, with the payload
\* of a message that carries the event.
LEMMA RowWriters ==
    ASSUME TypeOK, Inv, [Next]_vars
    PROVE  \/ UNCHANGED row
           \/ \E t \in open : /\ row[EventOf(t)] = None
                              /\ row' = [row EXCEPT ![EventOf(t)] = t[1]]
                              /\ UNCHANGED <<sub, content>>
<1> USE DEF subscription, worker, database
<1>1. CASE Commit
  BY <1>1 DEF Commit, Committed, Inv, Locking
<1>2. ASSUME NEW t \in open, OrphanCommits(t)
      PROVE  /\ row[EventOf(t)] = None
             /\ row' = [row EXCEPT ![EventOf(t)] = t[1]]
             /\ UNCHANGED <<sub, content>>
  BY <1>2 DEF OrphanCommits, Committed, Inv, Locking
<1>3. CASE SubscriptionStep
  BY <1>3 DEF SubscriptionStep, Publish, Push, DeadlinePasses, DeadLetter,
              Expire, DropRequest
<1>4. CASE WorkerStep /\ ~Commit
  BY <1>4 DEF WorkerStep, Refuse, Accept, InsertRow, SkipExisting,
     InsertFails, CommitFails, Acknowledged, NotAcknowledged, AnswerIgnored,
     Crash
<1>5. QED
  BY <1>1, <1>2, <1>3, <1>4 DEF Next, DatabaseStep, OrphanRollsBack, vars

\* A message is written once, by its publisher.
LEMMA ContentStays ==
    ASSUME TypeOK, Inv, [Next]_vars, NEW m \in Messages, content[m] # None
    PROVE  content'[m] = content[m]
<1>1. sub[m] # "unpublished"
  BY DEF Inv, Published
<1>2. QED
  BY <1>1 DEF Next, SubscriptionStep, WorkerStep, DatabaseStep, Publish, Push,
     DeadlinePasses, DeadLetter, Expire, DropRequest, Refuse, Accept, InsertRow,
     SkipExisting, InsertFails, Commit, CommitFails, Acknowledged,
     NotAcknowledged, AnswerIgnored, Crash, OrphanCommits, OrphanRollsBack,
     subscription, vars, TypeOK

\* The payload of a row is that of a message with the row's event_id, whatever
\* else messages with that event_id go through.
RowsAreOfMessages ==
    \A e \in Events : row[e] # None => /\ row[e] \in Messages
                                      /\ content[row[e]] = e

LEMMA RowsAreOfMessagesHolds == Spec => []RowsAreOfMessages
<1>1. Init => RowsAreOfMessages
  BY DEF Init, RowsAreOfMessages
<1>2. TypeOK /\ Inv /\ RowsAreOfMessages /\ [Next]_vars => RowsAreOfMessages'
  <2> SUFFICES ASSUME TypeOK, Inv, RowsAreOfMessages, [Next]_vars,
                      NEW e \in Events, row'[e] # None
               PROVE  row'[e] \in Messages /\ content'[row'[e]] = e
    BY DEF RowsAreOfMessages
  <2>1. e # None
    BY NoneAssumption DEF Contents
  <2>2. row'[e] \in Messages /\ content[row'[e]] = e
    <3>1. CASE UNCHANGED row
      BY <3>1 DEF RowsAreOfMessages
    <3>2. ASSUME NEW t \in open, row' = [row EXCEPT ![EventOf(t)] = t[1]]
          PROVE  row'[e] \in Messages /\ content[row'[e]] = e
      BY <3>2 DEF TypeOK, Requests, EventOf, RowsAreOfMessages
    <3>3. QED
      BY <3>1, <3>2, RowWriters
  <2>3. QED
    BY <2>1, <2>2, ContentStays
<1>3. QED
  BY <1>1, <1>2, TypeCorrect, InvHolds, PTL DEF Spec

\* The first payload committed for an event_id is never replaced.
THEOREM FirstWriterWins == Spec => FirstPayloadStays
<1>1. TypeOK /\ Inv /\ [Next]_vars
        => [\A e \in Events : row[e] # None => row'[e] = row[e]]_row
  <2> SUFFICES ASSUME TypeOK, Inv, [Next]_vars, NEW e \in Events,
                      row[e] # None, row' # row
               PROVE  row'[e] = row[e]
    OBVIOUS
  <2>1. QED
    BY RowWriters DEF TypeOK
<1>2. QED
  BY <1>1, TypeCorrect, InvHolds, PTL DEF Spec, FirstPayloadStays

-----------------------------------------------------------------------------
\* Ingestion implements its contract: the commit of a transaction is Record,
\* an answer of 200 that counts is Acknowledge.
THEOREM KeepsContract == Spec => ImplementsContract
<1>1. Init => Contract!IInit
  BY DEF Init, Contract!IInit
<1>2. TypeOK /\ Inv /\ [Next]_vars => [Contract!INext]_<<sub, content, row>>
  <2> SUFFICES ASSUME TypeOK, Inv, [Next]_vars
               PROVE  Contract!INext \/ UNCHANGED <<sub, content, row>>
    OBVIOUS
  <2> USE DEF subscription, worker, database
  <2>1. CASE row' # row
    <3>1. PICK t \in open : /\ row[EventOf(t)] = None
                            /\ row' = [row EXCEPT ![EventOf(t)] = t[1]]
                            /\ UNCHANGED <<sub, content>>
      BY <2>1, RowWriters
    <3>2. t[1] \in Messages /\ Valid(t[1]) /\ sub[t[1]] # "unpublished"
      BY NoneAssumption
         DEF TypeOK, Requests, Inv, Published, Valid, Contents
    <3>3. Contract!Record(t[1])
      BY <3>1, <3>2 DEF Contract!Record, EventOf, Valid
    <3>4. QED
      BY <3>2, <3>3 DEF Contract!INext
  <2>2. ASSUME NEW m \in Messages, Publish(m) PROVE Contract!Send(m)
    BY <2>2 DEF Publish, Contents, Contract!Send
  <2>3. ASSUME NEW m \in Messages, DeadLetter(m) \/ Expire(m)
        PROVE  Contract!GiveUp(m)
    BY <2>3 DEF DeadLetter, Expire, Contract!GiveUp
  <2>4. CASE Acknowledged
    <3>1. request[1] \in Messages
      BY <2>4 DEF Acknowledged, Inv, Serving, TypeOK, Requests
    <3>2. Contract!Acknowledge(request[1])
      BY <2>4 DEF Acknowledged, Inv, Promised, Stored, Valid,
                  Contract!Acknowledge
    <3>3. QED
      BY <3>1, <3>2 DEF Contract!INext
  <2>5. ASSUME row' = row,
               \/ \E m \in Messages : Push(m) \/ DeadlinePasses(m)
               \/ \E r \in requests : DropRequest(r)
               \/ WorkerStep /\ ~Acknowledged
               \/ DatabaseStep
               \/ UNCHANGED vars
        PROVE  UNCHANGED <<sub, content, row>>
    BY <2>5 DEF Push, DeadlinePasses, DropRequest, WorkerStep, Refuse, Accept,
       InsertRow, SkipExisting, InsertFails, Commit, CommitFails,
       NotAcknowledged, AnswerIgnored, Crash, DatabaseStep, OrphanCommits,
       OrphanRollsBack, vars
  <2>6. QED
    BY <2>1, <2>2, <2>3, <2>4, <2>5
       DEF Next, SubscriptionStep, Contract!INext
<1>3. QED
  BY <1>1, <1>2, TypeCorrect, InvHolds, PTL
     DEF Spec, ImplementsContract, Contract!ISpec, Contract!ivars

=============================================================================
