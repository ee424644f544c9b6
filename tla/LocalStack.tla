----------------------------- MODULE LocalStack -----------------------------
(***************************************************************************)
(* The local stack: the consumer stores the topic's events, the consumer,  *)
(* the silver refresh job and dbt aggregate them, and a client of the API  *)
(* reads them page by page.                                                *)
(***************************************************************************)
EXTENDS KafkaConsumer, EventsPaging

stackVars == <<localVars, reader>>

StackTypeOK == ConsumerTypeOK /\ PagingTypeOK

Init == ConsumerInit /\ PagingInit

Next ==
    \/ ConsumerNext /\ UNCHANGED reader
    \/ PagingNext /\ UNCHANGED <<late, table, consumerVars>>

\* No fairness: nothing restarts the consumer, and nothing schedules dbt.
Spec == Init /\ [][Next]_stackVars

=============================================================================
