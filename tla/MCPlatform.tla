----------------------------- MODULE MCPlatform -----------------------------
(***************************************************************************)
(* Small instances of the platform for TLC: two messages with an event     *)
(* each, delivered once or twice.                                          *)
(***************************************************************************)
EXTENDS Platform, TLC

CONSTANTS m1, m2, j1

TwoMessages == {m1, m2}
TwoEvents == 1 .. 2
OneEventEach == m1 :> 1 @@ m2 :> 2
OneExecution == {j1}

=============================================================================
