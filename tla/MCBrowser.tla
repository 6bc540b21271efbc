------------------------------ MODULE MCBrowser ------------------------------
(***************************************************************************)
(* Small instances of what runs in the browser, side by side: part says    *)
(* which of them a behaviour is of, and the others stay as they began.     *)
(***************************************************************************)
EXTENDS VoiceRelay, RealtimeSync, ChatPage, SpeechQueue

VARIABLE part

BrowserInit ==
  /\ part \in {"voice", "sync", "page", "speech"}
  /\ VoiceInit /\ SyncInit /\ PageInit /\ SpeechInit
  \* What an idle component would choose does not matter.
  /\ part # "sync" => source = CHOOSE s \in Streams : TRUE
  /\ part # "speech" => voice = "other" /\ speech.mode = "server"

BrowserNext ==
  /\ UNCHANGED part
  /\ \/ part = "voice" /\ VoiceNext /\ UNCHANGED <<syncVars, pageVars, speechVars>>
     \/ part = "sync" /\ SyncNext /\ UNCHANGED <<voiceVars, pageVars, speechVars>>
     \/ part = "page" /\ PageNext /\ UNCHANGED <<voiceVars, syncVars, speechVars>>
     \/ part = "speech" /\ SpeechNext /\ UNCHANGED <<voiceVars, syncVars, pageVars>>

\* No fair action of a component is enabled before its first step, so that the
\* fairness of an idle one says nothing.
BrowserSpec ==
  /\ BrowserInit
  /\ [][BrowserNext]_<<part, voiceVars, syncVars, pageVars, speechVars>>
  /\ VoiceFairness /\ SyncFairness /\ PageFairness /\ SpeechFairness
=============================================================================
