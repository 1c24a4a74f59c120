--------------------------- MODULE MCGatewaySession ---------------------------
(* Instances of GatewaySession for TLC. *)
EXTENDS GatewaySession

CONSTANTS a1, a2
=============================================================================
