------------------------------ MODULE MCJoining ------------------------------
(* Small instances of Joining for TLC. *)
EXTENDS Joining
=============================================================================
