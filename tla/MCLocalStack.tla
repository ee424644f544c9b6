---------------------------- MODULE MCLocalStack ----------------------------
(***************************************************************************)
(* A small instance of the local stack for TLC.                            *)
(***************************************************************************)
EXTENDS LocalStack, TLC

CONSTANTS BTC, ETH, consumer, dbt

ThreeEvents == 1 .. 3

Symbols == <<BTC, BTC, ETH>>
Times == <<0, 1, 5>>

OneConsumer == {consumer}
OneDbt == {dbt}

Messages == <<1, Rejected, 2, 3, Undecodable>>

\* Below and above the API's bounds.
SomeLimits == {-1, 3}

=============================================================================
