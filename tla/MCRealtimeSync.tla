---------------------------- MODULE MCRealtimeSync ---------------------------
(* Small instances of RealtimeSync for TLC. *)
EXTENDS RealtimeSync
=============================================================================
