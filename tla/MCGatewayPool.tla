---------------------------- MODULE MCGatewayPool ----------------------------
(* Small instances of GatewayPool for TLC. *)
EXTENDS GatewayPool
==============================================================================
