-------------------------- MODULE MCGatewayDelivery --------------------------
(***************************************************************************)
(* A small instance of GatewayDelivery for TLC.                            *)
(***************************************************************************)
EXTENDS GatewayDelivery, TLC

Calls == Permutations(Call)
=============================================================================
