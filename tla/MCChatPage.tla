----------------------------- MODULE MCChatPage -----------------------------
(* Small instances of ChatPage for TLC. *)
EXTENDS ChatPage
=============================================================================
