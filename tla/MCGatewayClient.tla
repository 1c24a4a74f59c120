--------------------------- MODULE MCGatewayClient ---------------------------
(* Instances of GatewayClient for TLC. *)
EXTENDS GatewayClient, TLC

CONSTANTS r1, r2, s1, s2
=============================================================================
