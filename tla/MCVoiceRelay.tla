---------------------------- MODULE MCVoiceRelay ----------------------------
(* Small instances of VoiceRelay for TLC. *)
EXTENDS VoiceRelay
=============================================================================
