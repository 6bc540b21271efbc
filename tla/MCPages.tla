------------------------------- MODULE MCPages -------------------------------
(***************************************************************************)
(* Small instances of the chat page, of the way into a company and of      *)
(* voice in the iOS shell, side by side: part says which of them a         *)
(* behaviour is of, and the others stay as they began.  Of the shell there *)
(* are two parts: two sessions in which nothing is played, and one session *)
(* in which two things are.                                                *)
(***************************************************************************)
EXTENDS ChatPage, Joining, NativeVoice, TLC

VARIABLE part

PagesInit ==
  /\ part \in {"chat", "join", "listen", "speak"}
  /\ PageInit /\ JoinInit /\ NativeInit
  \* What the chat page would choose does not matter when it is idle.
  /\ part # "chat" => \A m, n \in Messages : text[m] = text[n]

Listens == UNCHANGED talk /\ NativeNext

Speaks == UNCHANGED <<pageMuted, gone, troubles>> /\ NativeNext /\ press'[2] = "idle"

PagesNext ==
  /\ UNCHANGED part
  /\ \/ part = "chat" /\ PageNext /\ UNCHANGED <<joinVars, nativeVars>>
     \/ part = "join" /\ JoinNext /\ UNCHANGED <<pageVars, nativeVars>>
     \/ part = "listen" /\ Listens /\ UNCHANGED <<pageVars, joinVars>>
     \/ part = "speak" /\ Speaks /\ UNCHANGED <<pageVars, joinVars>>

PagesSpec == PagesInit /\ [][PagesNext]_<<part, pageVars, joinVars, nativeVars>>

Symmetry == Permutations(Texts)
=============================================================================
