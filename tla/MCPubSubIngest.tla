--------------------------- MODULE MCPubSubIngest ---------------------------
(***************************************************************************)
(* Small instances of cloud ingestion for TLC.  One event_id is enough:    *)
(* messages interfere only through it, and through the one worker.         *)
(***************************************************************************)
EXTENDS PubSubIngest

CONSTANTS m1, m2, e1

OneMessage == {m1}
TwoMessages == {m1, m2}
OneEvent == {e1}

=============================================================================
