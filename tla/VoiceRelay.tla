----------------------------- MODULE VoiceRelay ------------------------------
(***************************************************************************)
(* A realtime voice conversation in the browser: VoiceAgent                *)
(* (src/src/components/chat/voice-agent.tsx) asks the server for a session *)
(* at the gateway and starts a RealtimeGatewayRelaySession                 *)
(* (src/src/lib/realtime-voice-gateway-relay.ts), which opens an event     *)
(* stream, asks for the microphone and waits for both the provider and the *)
(* microphone.  A start that fails falls back to recorded voice, with a    *)
(* microphone of its own.                                                  *)
(*                                                                         *)
(* An action is what the browser runs between two awaits.  Playback, tool  *)
(* calls, transcripts and native voice are left out; microphones can be    *)
(* asked for (a secure context).                                           *)
(***************************************************************************)
EXTENDS Naturals

CONSTANTS
  Activations, \* presses of the voice button; each starts one session
  Nobody       \* a null realtimeRelayRef or streamRef

ASSUME NobodyAssumption == Nobody \notin Activations

VARIABLES
  session,  \* one activation of VoiceAgent with its relay session
  relayRef, \* realtimeRelayRef
  stream,   \* streamRef: the activation whose recording microphone it holds
  isActive, \* the button stops the conversation
  mounted,  \* VoiceAgent is on the page
  again     \* ghost: an activation began while another was under way

voiceVars == <<session, relayRef, stream, isActive, mounted, again>>

\* requesting: readiness, then the session; starting: start(); activating:
\* requestWakeLock; fallback: isServerSttAvailable; recording: getUserMedia.
Steps == {"none", "requesting", "starting", "activating", "fallback", "recording", "over"}
Activating == Steps \ {"none", "over"}

Session ==
  [pc : Steps,
   remote : {"none", "open", "ended"},              \* the session at the gateway
   source : {"none", "connecting", "open", "closed"}, \* eventSource
   emitted : BOOLEAN,                               \* the gateway said "ready"
   ready : BOOLEAN,                                 \* relayReady
   timer : BOOLEAN,                                 \* startupReadyTimer
   mic : {"none", "asked", "held", "live", "stopped"}, \* held: granted before "ready"
   closed : BOOLEAN,
   stops : Nat,                                     \* calls of closeRemoteSession
   \* The fallback's microphone; stranded: live though its set-up has failed.
   recorder : {"none", "live", "stranded", "stopped"}]

VoiceTypeOK ==
  /\ session \in [Activations -> Session]
  /\ {relayRef, stream} \subseteq Activations \cup {Nobody}
  /\ {isActive, mounted, again} \subseteq BOOLEAN

Fresh ==
  [pc |-> "none", remote |-> "none", source |-> "none", emitted |-> FALSE, ready |-> FALSE,
   timer |-> FALSE, mic |-> "none", closed |-> FALSE, stops |-> 0, recorder |-> "none"]

VoiceInit ==
  /\ session = [a \in Activations |-> Fresh]
  /\ relayRef = Nobody /\ stream = Nobody
  /\ isActive = FALSE
  /\ mounted = TRUE
  /\ again = FALSE

-----------------------------------------------------------------------------
(* The relay session.                                                      *)

\* Mutation: cleanupLocal without the tracks.
CleanupKeepsMic(s) == [s EXCEPT !.closed = TRUE, !.timer = FALSE, !.source = "closed"]

\* cleanupLocal stops the tracks of this.media only, which is set when the
\* start is complete: a held microphone is not among them.
CleanupLocal(s) ==
  [s EXCEPT !.closed = TRUE, !.timer = FALSE, !.source = "closed",
            !.mic = IF @ = "live" THEN "stopped" ELSE @]

CloseRemote(s) == [s EXCEPT !.stops = @ + 1]

\* Mutation: nobody rejects the promise.
Unrejected(s) == s

\* The promise relayReady is rejected: start() throws and startRealtimeRelay
\* returns false, unless "ready" has settled the promise before.
Rejected(s) == [s EXCEPT !.pc = IF @ = "starting" /\ ~s.ready THEN "fallback" ELSE @]

\* Mutation: stop() without its test of closed.
EndAgain(s) == Rejected(CloseRemote(CleanupLocal(s)))

\* fail() and stop(), which differ in what they report.
End(s) == IF s.closed THEN s ELSE Rejected(CloseRemote(CleanupLocal(s)))

\* Both promises are fulfilled: the pump runs, then requestWakeLock.
Started(s) == [s EXCEPT !.mic = "live", !.timer = FALSE, !.pc = "activating"]

\* The activation becomes s; a start that failed sets realtimeRelayRef to null,
\* whichever session it refers to.
Becomes(a, s) ==
  /\ session' = [session EXCEPT ![a] = s]
  /\ relayRef' = IF session[a].pc = "starting" /\ s.pc = "fallback" THEN Nobody ELSE relayRef

-----------------------------------------------------------------------------
(* The component and its user.                                             *)

Activate(a) ==
  /\ mounted /\ ~isActive
  /\ session[a].pc = "none"
  /\ session' = [session EXCEPT ![a].pc = "requesting"]
  /\ again' = (again \/ \E b \in Activations : session[b].pc \in Activating)
  /\ UNCHANGED <<relayRef, stream, isActive, mounted>>

\* The session exists; the code up to the await in start() runs at once.
SessionOpens(a) ==
  /\ session[a].pc = "requesting"
  /\ session' = [session EXCEPT ![a] =
                   [@ EXCEPT !.pc = "starting", !.remote = "open", !.source = "connecting",
                             !.timer = TRUE, !.mic = "asked"]]
  /\ relayRef' = a
  /\ UNCHANGED <<stream, isActive, mounted, again>>

\* The runtime is not ready for voice, which returns, or the request fails.
SessionRefused(a) ==
  /\ session[a].pc = "requesting"
  /\ session' = [session EXCEPT ![a].pc = "fallback"]
  /\ relayRef' \in {relayRef, Nobody}
  /\ UNCHANGED <<stream, isActive, mounted, again>>

\* The transport is not "gateway-relay": the session at the gateway stays, and
\* nobody listens to it.
SessionUnwired(a) ==
  /\ session[a].pc = "requesting"
  /\ session' = [session EXCEPT ![a] = [@ EXCEPT !.pc = "fallback", !.remote = "open"]]
  /\ UNCHANGED <<relayRef, stream, isActive, mounted, again>>

\* requestWakeLock is over, of the relay or of the recording.
Activated(a) ==
  /\ session[a].pc = "activating"
  /\ session' = [session EXCEPT ![a].pc = "over"]
  /\ isActive' = TRUE
  /\ UNCHANGED <<relayRef, stream, mounted, again>>

\* Speech to text at the server: recorded voice asks for the microphone.
FallsBack(a) ==
  /\ session[a].pc = "fallback"
  /\ \/ session' = [session EXCEPT ![a].pc = "recording"] /\ UNCHANGED isActive
     \/ session' = [session EXCEPT ![a].pc = "over"] /\ isActive' = FALSE
  /\ UNCHANGED <<relayRef, stream, mounted, again>>

\* The audio graph is built after streamRef is set: when that throws, the tracks
\* stay live and the button still starts.
RecorderGranted(a) ==
  /\ session[a].pc = "recording"
  /\ \/ session' = [session EXCEPT ![a] = [@ EXCEPT !.pc = "activating", !.recorder = "live"]]
     \/ session' = [session EXCEPT ![a] = [@ EXCEPT !.pc = "over", !.recorder = "stranded"]]
  /\ stream' = a
  /\ UNCHANGED <<relayRef, isActive, mounted, again>>

RecorderDenied(a) ==
  /\ session[a].pc = "recording"
  /\ session' = [session EXCEPT ![a].pc = "over"]
  /\ UNCHANGED <<relayRef, stream, isActive, mounted, again>>

\* Mutation: streamRef is set to null, its tracks are not stopped.
RecorderForgotten(s) == [s EXCEPT !.recorder = Nobody]

Recorded(s) == [s EXCEPT !.recorder = IF @ \in {"live", "stranded"} THEN "stopped" ELSE @]

Released(a) ==
  LET s == IF a = relayRef THEN End(session[a]) ELSE session[a]
  IN  IF a = stream THEN Recorded(s) ELSE s

\* Mutation: deactivate forgets the reference without a call of stop().
ReleaseStream ==
  /\ session' = [a \in Activations |-> IF a = stream THEN Recorded(session[a]) ELSE session[a]]
  /\ relayRef' = Nobody /\ stream' = Nobody
  /\ isActive' = FALSE
  /\ UNCHANGED again

\* deactivate: the session of the reference is stopped, and the microphone of
\* the recording.
Release ==
  /\ session' = [a \in Activations |-> Released(a)]
  /\ relayRef' = Nobody /\ stream' = Nobody
  /\ isActive' = FALSE
  /\ UNCHANGED again

Deactivate == mounted /\ isActive /\ Release /\ UNCHANGED mounted

\* The effect's cleanup; activations under way go on.
Unmount == mounted /\ mounted' = FALSE /\ Release

-----------------------------------------------------------------------------
(* What the relay session hears.                                           *)

others == <<stream, isActive, mounted, again>>

\* The events route has its pool client and subscribes.
Subscribed(a) ==
  /\ session[a].source = "connecting"
  /\ Becomes(a, [session[a] EXCEPT !.source = "open"])
  /\ UNCHANGED others

\* "ready" from the gateway: lost when nobody has subscribed.
ProviderReady(a) ==
  LET s == [session[a] EXCEPT !.emitted = TRUE]
      t == IF s.source = "open" THEN [s EXCEPT !.ready = TRUE] ELSE s
  IN  /\ session[a].remote = "open" /\ ~session[a].emitted
      /\ Becomes(a, IF t.ready /\ t.mic = "held" THEN Started(t) ELSE t)
      /\ UNCHANGED others

\* An event "error" of the gateway, a broken stream, or a refused audio frame.
RelayFails(a) ==
  /\ session[a].source \in {"connecting", "open"}
  /\ Becomes(a, End(session[a]))
  /\ UNCHANGED others

\* The gateway ends its session and says "close".
RemoteCloses(a) ==
  LET s == [session[a] EXCEPT !.remote = "ended"]
  IN  /\ session[a].remote = "open"
      /\ \/ s.source # "open" /\ Becomes(a, s)
         \/ s.source = "open" /\ Becomes(a, End(s))                      \* reason "error", or too early
         \/ s.source = "open" /\ s.ready /\ Becomes(a, CleanupLocal(s))
      /\ UNCHANGED others

\* The stop request reaches the gateway; its failure is ignored.
StopArrives(a) ==
  /\ session[a].remote = "open" /\ session[a].stops > 0
  /\ Becomes(a, [session[a] EXCEPT !.remote = "ended"])
  /\ UNCHANGED others

\* Fifteen seconds.  The timer is armed until start() ends, also after "ready".
TimerFires(a) ==
  /\ session[a].timer
  /\ Becomes(a, End([session[a] EXCEPT !.timer = FALSE]))
  /\ UNCHANGED others

\* getUserMedia: a session that is closed by now stops the tracks and throws.
MicGranted(a) ==
  LET s == session[a]
      t == [s EXCEPT !.pc = IF @ = "starting" THEN "fallback" ELSE @, !.mic = "stopped"]
  IN  /\ s.mic = "asked"
      /\ Becomes(a, IF s.closed THEN t ELSE IF s.ready THEN Started(s) ELSE [s EXCEPT !.mic = "held"])
      /\ UNCHANGED others

\* start() fails: it cleans up and closes the remote session unless that was done.
MicDenied(a) ==
  LET s == [session[a] EXCEPT !.mic = "stopped"]
      t == IF s.closed THEN s ELSE CloseRemote(CleanupLocal(s))
  IN  /\ session[a].mic = "asked"
      /\ Becomes(a, [t EXCEPT !.pc = IF @ = "starting" THEN "fallback" ELSE @])
      /\ UNCHANGED others

VoiceNext ==
  \/ Deactivate \/ Unmount
  \/ \E a \in Activations :
       \/ Activate(a) \/ SessionOpens(a) \/ SessionRefused(a) \/ SessionUnwired(a)
       \/ Activated(a)
       \/ FallsBack(a) \/ RecorderGranted(a) \/ RecorderDenied(a)
       \/ Subscribed(a) \/ ProviderReady(a) \/ RelayFails(a) \/ RemoteCloses(a) \/ StopArrives(a)
       \/ TimerFires(a) \/ MicGranted(a) \/ MicDenied(a)

VoiceSpec == VoiceInit /\ [][VoiceNext]_voiceVars

\* An armed timer fires and requests settle.  The gateway, the user and the
\* permission prompt owe nothing.
VoiceFairness ==
  \A a \in Activations :
    /\ WF_voiceVars(TimerFires(a))
    /\ WF_voiceVars(SessionOpens(a) \/ SessionRefused(a) \/ SessionUnwired(a))
    /\ WF_voiceVars(Activated(a)) /\ WF_voiceVars(FallsBack(a))

-----------------------------------------------------------------------------
\* Audio flows only from a session that is open: whatever ends it, and in
\* whatever order, its pump and its microphone stop with it.
LiveMicOpen == \A a \in Activations :
  session[a].mic = "live" => ~session[a].closed /\ session[a].source \in {"connecting", "open"}

\* The gateway hears of the end of a session once: errors, close events, the
\* timer and stop() race, and when the page is done with a session it listened
\* to, the gateway has ended it or was told.
ToldOnce == \A a \in Activations :
  /\ session[a].stops <= 1
  /\ session[a].closed /\ session[a].remote = "open" => session[a].stops = 1

\* While the component is mounted, and if no activation began during another,
\* whatever is open is in the references that the button and the unmount clean
\* up. The microphone of a recording that could not be set up is in them (the
\* button starts, so the unmount alone stops it) until a later one replaces it.
Reachable == mounted /\ ~again => \A a \in Activations :
  /\ session[a].source \in {"connecting", "open"} => relayRef = a
  /\ session[a].recorder = "live" => stream = a
  /\ session[a].recorder = "stranded" =>
       stream = a \/ \E b \in Activations \ {a} : session[b].recorder # "none"

\* A start does not hang unless the provider is ready and the user owes an
\* answer to the prompt.
StartSettles == \A a \in Activations :
  session[a].pc = "starting" ~> (session[a].pc # "starting" \/ (session[a].ready /\ session[a].mic = "asked"))

\* realtime-voice-gateway-relay.test.ts:114, "await vi.waitFor(() =>
\* expect(track.stop).toHaveBeenCalledOnce())": a session that failed while it
\* was starting stops the tracks it was granted.
MicReleased == \A a \in Activations : session[a].closed => session[a].mic \notin {"held", "live"}

\* What is open of a voice session is one thing with one end: microphone, stream,
\* the session at the gateway and the component's references to them.
VoiceSound == VoiceTypeOK /\ LiveMicOpen /\ ToldOnce /\ Reachable
=============================================================================
