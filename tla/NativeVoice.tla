----------------------------- MODULE NativeVoice -----------------------------
(***************************************************************************)
(* Voice in the iOS shell: VoiceAgent                                      *)
(* (src/src/components/chat/voice-agent.tsx) starts and stops the plugin   *)
(* CrewCmdVoiceSessionPlugin                                               *)
(* (src/apps/mobile/ios/App/App/CrewCmdVoiceSessionPlugin.swift), which    *)
(* listens, uploads what was said and plays what is answered.              *)
(*                                                                         *)
(* The plugin works on two serial queues, its capture queue and the main   *)
(* queue: an action is one block of theirs, or what the page or the system *)
(* does between them.  A job is a pair of its kind and what it is for.     *)
(* Samples, levels, voices and formats are left out, and so is what the    *)
(* status displays.                                                        *)
(***************************************************************************)
EXTENDS Naturals, SequencesExt

CONSTANTS
  Presses,     \* presses of the voice button; each starts one session
  Talks,       \* calls of playAudio and speakText
  Nobody,      \* no session, no call
  MaxTroubles  \* interruptions, and engines the system stops

ASSUME NobodyAssumption == Nobody \notin Presses \cup Talks
ASSUME TroubleBound == MaxTroubles \in Nat

VARIABLES
  press,     \* how far an activation of VoiceAgent has come
  nativeRef, \* nativeSessionActiveRef
  shown,     \* nativeSessionActive
  isActive,  \* the button stops the conversation
  mounted,   \* VoiceAgent is on the page
  pageMuted, \* isMicMuted
  loose,     \* ghost: an activation was under way when another began or the page was left
  capture,   \* captureQueue
  main,      \* DispatchQueue.main
  owner,     \* whose sessionKey, token and agent the plugin's fields are
  active,    \* the session is active
  engine,    \* audioEngine.isRunning
  watchdog,  \* audioWatchdog is set
  muted,     \* micMuted
  hushed,    \* playbackSuppressionUntil is to come
  recording, \* there are recordingSamples
  inFlight,  \* uploadInFlight
  upload,    \* the session whose words are being transcribed
  task,      \* backgroundTask is held
  troubles,  \* how often the system has interfered
  gone,      \* ghost: iOS has refused or ended the background task of this upload
  orphaned,  \* ghost: a start failed beside an active session
  talk,      \* what became of a call
  playing, playCall,    \* audioPlayer and audioPlaybackCall
  speaking, speechCall, \* the utterance of the synthesizer and speechCall
  owed,      \* utterances whose end the synthesizer has not told yet
  late       \* ghost: the end of an utterance was told when another had begun

buttonVars == <<press, nativeRef, shown, isActive, mounted, pageMuted, loose>>
micVars == <<owner, active, engine, watchdog, muted, orphaned>>
recordVars == <<hushed, recording, inFlight, upload, gone>>
talkVars == <<talk, playing, playCall, speaking, speechCall, owed, late>>
nativeVars == <<buttonVars, micVars, recordVars, talkVars, capture, main, task, troubles>>

Busy == {"prompt", "queued", "telling", "waking"}
CaptureJobs ==
  ({"start", "denied"} \X Presses) \cup ({"mute"} \X BOOLEAN) \cup ({"play", "speak"} \X Talks)
    \cup ({"stop", "recover", "answer", "expired", "hush"} \X {Nobody})
MainJobs == ({"told", "refused"} \X Presses) \cup ({"play", "speak", "refuse"} \X Talks)
  \cup ({"begin", "end", "silence"} \X {Nobody})

NativeTypeOK ==
  /\ press \in [Presses -> {"idle", "over"} \cup Busy]
  /\ {nativeRef, shown, isActive, mounted, pageMuted, loose} \subseteq BOOLEAN
  /\ capture \in Seq(CaptureJobs) /\ main \in Seq(MainJobs)
  /\ {owner, upload} \subseteq Presses \cup {Nobody}
  /\ {active, watchdog, muted, orphaned, hushed, recording, inFlight, gone, task, late} \subseteq BOOLEAN
  /\ engine \in {"on", "off"}
  /\ troubles \in 0..MaxTroubles
  /\ talk \in [Talks -> {"idle", "waiting", "heard", "told"}]
  /\ {playing, playCall, speaking, speechCall} \subseteq Talks \cup {Nobody}
  /\ owed \subseteq Talks

NativeInit ==
  /\ press = [p \in Presses |-> "idle"]
  /\ nativeRef = FALSE /\ shown = FALSE /\ isActive = FALSE /\ mounted = TRUE /\ pageMuted = FALSE
  /\ loose = FALSE
  /\ capture = <<>> /\ main = <<>>
  /\ owner = Nobody /\ active = FALSE /\ engine = "off" /\ watchdog = FALSE /\ muted = FALSE
  /\ orphaned = FALSE
  /\ hushed = FALSE /\ recording = FALSE /\ inFlight = FALSE /\ upload = Nobody /\ gone = FALSE
  /\ task = FALSE /\ troubles = 0
  /\ talk = [t \in Talks |-> "idle"]
  /\ playing = Nobody /\ playCall = Nobody /\ speaking = Nobody /\ speechCall = Nobody
  /\ owed = {} /\ late = FALSE

\* captureQueue.async and DispatchQueue.main.async, and the next block of a queue.
Captures(kind, who) == capture' = Append(capture, <<kind, who>>)
Mains(jobs) == main' = main \o jobs
NextCapture(kind, who) == capture # <<>> /\ Head(capture) = <<kind, who>> /\ capture' = Tail(capture)
NextMain(kind, who) == main # <<>> /\ Head(main) = <<kind, who>> /\ main' = Tail(main)

-----------------------------------------------------------------------------
(* The page.                                                               *)

\* activate, up to plugin.start, which sets the fields before it asks for the
\* microphone.
Press(p) ==
  /\ mounted /\ ~isActive /\ press[p] = "idle"
  /\ \A q \in Presses : q < p => press[q] # "idle"
  /\ press' = [press EXCEPT ![p] = "prompt"]
  /\ pageMuted' = FALSE /\ muted' = FALSE
  /\ owner' = p
  /\ loose' = (loose \/ \E q \in Presses : press[q] \in Busy)
  /\ UNCHANGED <<nativeRef, shown, isActive, mounted, active, engine, watchdog, orphaned, recordVars,
                 talkVars, capture, main, task, troubles>>

\* The prompt is answered.
Prompted(p) ==
  /\ press[p] = "prompt"
  /\ press' = [press EXCEPT ![p] = "queued"]
  /\ \E answer \in {"start", "denied"} : Captures(answer, p)
  /\ UNCHANGED <<nativeRef, shown, isActive, mounted, pageMuted, loose, micVars, recordVars, talkVars, main,
                 task, troubles>>

\* The effect that tells the plugin whether the page's microphone is muted, when what
\* it depends on has changed.
TellsMuted ==
  IF /\ mounted /\ isActive' /\ shown'
     /\ <<isActive', shown', pageMuted'>> # <<isActive, shown, pageMuted>>
    THEN Captures("mute", pageMuted') ELSE UNCHANGED capture

\* What activate does once start has been answered.
Goes(p) ==
  /\ press' = [press EXCEPT ![p] = IF nativeRef' THEN "waking" ELSE "over"]
  /\ isActive' = (isActive /\ nativeRef')
  /\ UNCHANGED <<mounted, pageMuted, loose, micVars, recordVars, talkVars, task, troubles>>
  /\ TellsMuted

\* start resolves; statusPayload is read when it does.
Told(p) == NextMain("told", p) /\ nativeRef' = active /\ shown' = active /\ Goes(p)

\* start rejects.
Refused(p) == NextMain("refused", p) /\ UNCHANGED <<nativeRef, shown>> /\ Goes(p)

\* Mutation: the effect does not depend on isActive, which becomes true last.
WokenUntold(p) ==
  /\ press[p] = "waking"
  /\ press' = [press EXCEPT ![p] = "over"]
  /\ isActive' = TRUE
  /\ UNCHANGED <<nativeRef, shown, mounted, pageMuted, loose, micVars, recordVars, talkVars, main, task,
                 troubles, capture>>

\* requestWakeLock has been answered: the button stops from now on.
Woken(p) ==
  /\ press[p] = "waking"
  /\ press' = [press EXCEPT ![p] = "over"]
  /\ isActive' = TRUE
  /\ UNCHANGED <<nativeRef, shown, mounted, pageMuted, loose, micVars, recordVars, talkVars, main, task,
                 troubles>>
  /\ TellsMuted

\* The button that mutes is shown while the conversation is active.  The bound is one
\* change that the plugin has not heard of.
PageMutes ==
  /\ mounted /\ isActive
  /\ \A i \in DOMAIN capture : capture[i][1] # "mute"
  /\ pageMuted' = ~pageMuted
  /\ UNCHANGED <<press, nativeRef, shown, isActive, mounted, loose, micVars, recordVars, talkVars, main, task,
                 troubles>>
  /\ TellsMuted

\* Every three seconds the page asks for the status; an answer that comes after the
\* conversation was stopped is dropped.
Poll ==
  /\ mounted /\ shown
  /\ nativeRef' = active
  /\ UNCHANGED <<press, shown, isActive, mounted, pageMuted, loose, micVars, recordVars, talkVars, capture,
                 main, task, troubles>>

\* Mutation: the ref is cleared before deactivate looks at it.
QuitsCleared ==
  /\ nativeRef' = FALSE /\ shown' = FALSE /\ isActive' = FALSE
  /\ UNCHANGED <<press, pageMuted, micVars, recordVars, talkVars, capture, main, task, troubles>>

\* deactivate.
Quits ==
  /\ IF nativeRef THEN Captures("stop", Nobody) ELSE UNCHANGED capture
  /\ nativeRef' = FALSE /\ shown' = FALSE /\ isActive' = FALSE
  /\ UNCHANGED <<press, pageMuted, micVars, recordVars, talkVars, main, task, troubles>>

Hangup == mounted /\ isActive /\ Quits /\ UNCHANGED <<mounted, loose>>

Leave ==
  /\ mounted /\ mounted' = FALSE
  /\ Quits
  /\ loose' = (loose \/ \E p \in Presses : press[p] \in Busy)

-----------------------------------------------------------------------------
(* The session, on the capture queue.                                      *)

MicRest == <<buttonVars, talkVars, task, troubles>>

\* Whoever waits for start hears of it through the main queue.
Tells(how, p) == /\ Mains(<<<<how, p>>>>)
                 /\ press' = [press EXCEPT ![p] = "telling"]
                 /\ UNCHANGED <<nativeRef, shown, isActive, mounted, pageMuted, loose, talkVars, task,
                                troubles>>

RunStart(p) ==
  /\ NextCapture("start", p)
  /\ active' = TRUE /\ engine' = "on" /\ watchdog' = TRUE
  /\ Tells("told", p)
  /\ UNCHANGED <<owner, muted, orphaned, recordVars>>

\* The audio session cannot be configured, or an engine that is off not be started.
StartFails(p) ==
  /\ NextCapture("start", p)
  /\ active' = FALSE
  /\ orphaned' = (orphaned \/ active)
  /\ Tells("refused", p)
  /\ UNCHANGED <<owner, engine, watchdog, muted, recordVars>>

RunDenied(p) == NextCapture("denied", p) /\ Tells("refused", p) /\ UNCHANGED <<micVars, recordVars>>

\* Mutation: stop leaves the engine to the end of what is being recorded.
RunStopKeepsEngine ==
  /\ NextCapture("stop", Nobody)
  /\ Mains(<<<<"silence", Nobody>>>>)
  /\ active' = FALSE /\ watchdog' = FALSE
  /\ engine' = IF recording THEN engine ELSE "off"
  /\ recording' = FALSE
  /\ UNCHANGED <<owner, muted, orphaned, hushed, inFlight, upload, gone, MicRest>>

RunStop ==
  /\ NextCapture("stop", Nobody)
  /\ Mains(<<<<"silence", Nobody>>>>)
  /\ active' = FALSE /\ watchdog' = FALSE /\ engine' = "off"
  /\ recording' = FALSE
  /\ UNCHANGED <<owner, muted, orphaned, hushed, inFlight, upload, gone, MicRest>>

\* Mutation: what was recorded until then is kept.
RunMuteKeeps(b) ==
  /\ NextCapture("mute", b)
  /\ muted' = b
  /\ UNCHANGED <<owner, active, engine, watchdog, orphaned, recordVars, main, MicRest>>

RunMute(b) ==
  /\ NextCapture("mute", b)
  /\ muted' = b
  /\ recording' = (recording /\ ~b)
  /\ UNCHANGED <<owner, active, engine, watchdog, orphaned, hushed, inFlight, upload, gone, main,
                 MicRest>>

\* recoverAudioEngine: the session is configured and the engine started again.
Recovers == engine' = IF active THEN "on" ELSE engine

\* Either of them fails; the engine may have been stopped for it.
RecoverFails == active /\ engine' \in {engine, "off"}

RunRecover ==
  /\ NextCapture("recover", Nobody)
  /\ Recovers \/ RecoverFails
  /\ UNCHANGED <<owner, active, watchdog, muted, orphaned, recordVars, main, MicRest>>

\* The watchdog's timer runs on the capture queue.
WatchdogFires ==
  /\ watchdog /\ active /\ engine = "off"
  /\ Recovers
  /\ UNCHANGED <<owner, active, watchdog, muted, orphaned, recordVars, capture, main, MicRest>>

\* The system interrupts, changes the route, resets the media services or puts the app
\* into the background: it may stop the engine, and most of it makes the plugin recover.
Trouble ==
  /\ troubles < MaxTroubles /\ troubles' = troubles + 1
  /\ engine' \in {engine, "off"}
  /\ Captures("recover", Nobody) \/ UNCHANGED capture
  /\ UNCHANGED <<buttonVars, owner, active, watchdog, muted, orphaned, recordVars, talkVars, main, task>>

-----------------------------------------------------------------------------
(* What is said.                                                           *)

\* Enough speech, in a buffer handed over while the engine ran.
Speech ==
  /\ active /\ ~muted /\ ~inFlight /\ ~hushed
  /\ ~recording /\ recording' = TRUE
  /\ UNCHANGED <<hushed, inFlight, upload, gone, micVars, capture, main, MicRest>>

\* The main queue has not begun a task yet: bounds how far it falls behind, to one
\* recording.
Begins == <<"begin", Nobody>> \in ToSet(main)

\* The end of an earlier task is still to be dealt with.
Late == <<"expired", Nobody>> \in ToSet(capture)

\* Mutation: uploadInFlight is set when the request is sent.
SilenceUnnoticed ==
  /\ active /\ ~muted /\ ~inFlight /\ ~hushed
  /\ recording /\ recording' = FALSE /\ ~Begins
  /\ upload' = owner /\ gone' = Late
  /\ Mains(<<<<"begin", Nobody>>>>)
  /\ UNCHANGED <<inFlight, hushed, micVars, capture, MicRest>>

\* Three seconds of silence: finishRecording and the request of uploadWav.
Silence ==
  /\ active /\ ~muted /\ ~inFlight /\ ~hushed
  /\ recording /\ recording' = FALSE /\ ~Begins
  /\ inFlight' = TRUE /\ upload' = owner /\ gone' = Late
  /\ Mains(<<<<"begin", Nobody>>>>)
  /\ UNCHANGED <<hushed, micVars, capture, MicRest>>

\* The same without a usable base URL.
SilenceRefused ==
  /\ active /\ ~muted /\ ~inFlight /\ ~hushed
  /\ recording /\ recording' = FALSE /\ ~Begins
  /\ Mains(<<<<"begin", Nobody>>, <<"end", Nobody>>>>)
  /\ gone' = Late
  /\ UNCHANGED <<inFlight, upload, hushed, micVars, capture, MicRest>>

\* The request ends, whatever with.
Answered ==
  /\ upload # Nobody /\ <<"answer", Nobody>> \notin ToSet(capture)
  /\ Captures("answer", Nobody)
  /\ UNCHANGED <<recordVars, micVars, main, MicRest>>

\* Mutation: the task is ended in the block that completes the request.
RunAnswerEnds ==
  /\ NextCapture("answer", Nobody)
  /\ inFlight' = FALSE /\ upload' = Nobody
  /\ task' = FALSE
  /\ UNCHANGED <<recording, hushed, gone, micVars, main, buttonVars, talkVars, troubles>>

\* Its completion; what was understood goes on to the chat of the fields.
RunAnswer ==
  /\ NextCapture("answer", Nobody)
  /\ inFlight' = FALSE /\ upload' = Nobody
  /\ Mains(<<<<"end", Nobody>>>>)
  /\ UNCHANGED <<recording, hushed, gone, micVars, MicRest>>

\* beginBackgroundTask and endBackgroundTask.  A task that is held is kept; iOS may
\* refuse a new one.
RunBegin ==
  /\ NextMain("begin", Nobody)
  /\ \/ task' = TRUE /\ UNCHANGED gone
     \/ ~task /\ UNCHANGED task /\ gone' = TRUE
  /\ UNCHANGED <<buttonVars, micVars, hushed, recording, inFlight, upload, talkVars, capture, troubles>>

RunEnd ==
  /\ NextMain("end", Nobody)
  /\ task' = FALSE
  /\ UNCHANGED <<buttonVars, micVars, recordVars, talkVars, capture, troubles>>

\* iOS wants the task back, once, and hears of it through both queues.
TaskExpires ==
  /\ task /\ ~gone /\ gone' = TRUE
  /\ Captures("expired", Nobody)
  /\ UNCHANGED <<hushed, recording, inFlight, upload, micVars, main, MicRest>>

RunExpired ==
  /\ NextCapture("expired", Nobody)
  /\ Mains(<<<<"end", Nobody>>>>)
  /\ UNCHANGED <<recordVars, micVars, MicRest>>

\* suppressRecordingForPlayback, and its end.
RunHush ==
  /\ NextCapture("hush", Nobody)
  /\ hushed' = TRUE /\ recording' = FALSE
  /\ UNCHANGED <<inFlight, upload, gone, micVars, main, MicRest>>

TailOver ==
  /\ hushed /\ hushed' = FALSE
  /\ UNCHANGED <<recording, inFlight, upload, gone, micVars, capture, main, MicRest>>

-----------------------------------------------------------------------------
(* What is answered.  The players work on the main queue.                  *)

PlayerRest == <<buttonVars, micVars, recordVars, task, troubles>>

\* Whoever waits for these calls hears of them.
Settles(calls) == talk' = [t \in Talks |-> IF t \in calls THEN "told" ELSE talk[t]]

\* playAudio and speakText, up to the capture queue.
Talk(t) ==
  /\ talk[t] = "idle" /\ \A u \in Talks : u < t => talk[u] # "idle"
  /\ talk' = [talk EXCEPT ![t] = "waiting"]
  /\ \E kind \in {"play", "speak"} : Captures(kind, t)
  /\ UNCHANGED <<playing, playCall, speaking, speechCall, owed, late, main, PlayerRest>>

\* The audio session is configured, or cannot be.
RunTalk(t) ==
  /\ \E kind \in {"play", "speak"} :
       /\ NextCapture(kind, t)
       /\ \E job \in {kind, "refuse"} : Mains(<<<<job, t>>>>)
  /\ UNCHANGED <<talkVars, PlayerRest>>

RunRefuse(t) ==
  /\ NextMain("refuse", t)
  /\ Settles({t})
  /\ UNCHANGED <<playing, playCall, speaking, speechCall, owed, late, capture, PlayerRest>>

\* Mutation: a call that is replaced is not told.
RunPlayForgets(t) ==
  /\ NextMain("play", t)
  /\ playing' = t /\ playCall' = t /\ UNCHANGED talk
  /\ UNCHANGED <<speaking, speechCall, owed, late, capture, PlayerRest>>

\* playAudio on the main queue: what was played stops; the player starts, or does not.
RunPlay(t) ==
  /\ NextMain("play", t)
  /\ \/ playing' = t /\ playCall' = t /\ Settles({playCall})
     \/ playing' = Nobody /\ playCall' = Nobody /\ Settles({playCall, t})
  /\ UNCHANGED <<speaking, speechCall, owed, late, capture, PlayerRest>>

\* stopSpeechPlayback: the synthesizer will tell of its end.
StopsSpeech == owed' = owed \cup ({speaking} \ {Nobody})

\* speakText on the main queue: both players stop.
RunSpeak(t) ==
  /\ NextMain("speak", t)
  /\ playing' = Nobody /\ playCall' = Nobody
  /\ StopsSpeech /\ speaking' = t /\ speechCall' = t
  /\ Settles({playCall, speechCall})
  /\ UNCHANGED <<late, capture, PlayerRest>>

\* Both players stop, for stop and for stopAudio.
Silences ==
  /\ playing' = Nobody /\ playCall' = Nobody
  /\ StopsSpeech /\ speaking' = Nobody /\ speechCall' = Nobody
  /\ Settles({playCall, speechCall})
  /\ UNCHANGED <<late, capture, PlayerRest>>

RunSilence == NextMain("silence", Nobody) /\ Silences

\* stopAudio, which does not pass the capture queue.  The bound is one on its way.
StopAudio ==
  /\ <<"silence", Nobody>> \notin ToSet(main) /\ \E t \in Talks : talk[t] # "idle"
  /\ Mains(<<<<"silence", Nobody>>>>)
  /\ UNCHANGED <<talkVars, capture, PlayerRest>>

\* The player has come to the end, which hushes, or cannot decode what it plays.
PlayerEnds ==
  /\ playing # Nobody
  /\ playing' = Nobody /\ playCall' = Nobody /\ Settles({playCall})
  /\ Captures("hush", Nobody) \/ UNCHANGED capture
  /\ UNCHANGED <<speaking, speechCall, owed, late, main, PlayerRest>>

\* didStart.
SpeechStarts ==
  /\ speaking # Nobody /\ talk[speaking] = "waiting"
  /\ talk' = [talk EXCEPT ![speaking] = "heard"]
  /\ Captures("hush", Nobody)
  /\ UNCHANGED <<playing, playCall, speaking, speechCall, owed, late, main, PlayerRest>>

\* didFinish.
SpeechEnds ==
  /\ speaking # Nobody
  /\ speaking' = Nobody /\ speechCall' = Nobody /\ Settles({speechCall})
  /\ Captures("hush", Nobody)
  /\ UNCHANGED <<playing, playCall, owed, late, main, PlayerRest>>

\* didCancel, for an utterance that was stopped: whatever call is there by then is
\* rejected.
SpeechCancelled(u) ==
  /\ u \in owed /\ owed' = owed \ {u}
  /\ late' = (late \/ speechCall # Nobody)
  /\ speechCall' = Nobody /\ Settles({speechCall})
  /\ Captures("hush", Nobody)
  /\ UNCHANGED <<playing, playCall, speaking, main, PlayerRest>>

-----------------------------------------------------------------------------
CaptureRuns ==
  \/ \E p \in Presses : RunStart(p) \/ StartFails(p) \/ RunDenied(p)
  \/ RunStop \/ RunRecover \/ RunAnswer \/ RunExpired \/ RunHush
  \/ \E b \in BOOLEAN : RunMute(b)
  \/ \E t \in Talks : RunTalk(t)

MainRuns ==
  \/ \E p \in Presses : Told(p) \/ Refused(p)
  \/ RunBegin \/ RunEnd \/ RunSilence
  \/ \E t \in Talks : RunRefuse(t) \/ RunPlay(t) \/ RunSpeak(t)

Page ==
  \/ \E p \in Presses : Press(p) \/ Prompted(p) \/ Woken(p)
  \/ PageMutes \/ Poll \/ Hangup \/ Leave \/ StopAudio
  \/ \E t \in Talks : Talk(t)

System ==
  \/ Trouble \/ WatchdogFires \/ Speech \/ Silence \/ SilenceRefused \/ Answered \/ TaskExpires \/ TailOver
  \/ PlayerEnds \/ SpeechStarts \/ SpeechEnds \/ \E u \in Talks : SpeechCancelled(u)

NativeNext == CaptureRuns \/ MainRuns \/ Page \/ System

NativeSpec == NativeInit /\ [][NativeNext]_nativeVars

-----------------------------------------------------------------------------
(* What must hold.                                                         *)

Queued(queue, kinds) == \E job \in ToSet(queue) : job[1] \in kinds

\* The microphone is open only in a session that is active, or beside which a second
\* start has failed, which leaves the engine running.
MicKnown == engine = "on" => active \/ orphaned

\* A session no activation is busy with, and no stop is on its way to, is one the button
\* stops, unless activations overlapped or the page was left during one.
SessionStoppable ==
  ~loose /\ active /\ ~Queued(capture, {"stop"}) /\ (\A p \in Presses : press[p] \notin Busy)
    => mounted /\ isActive /\ nativeRef

\* What the page shows of the microphone is what the plugin does with it, as soon as it
\* has heard of the last change.
MuteHeard ==
  mounted /\ isActive /\ shown /\ ~loose /\ ~Queued(capture, {"mute"}) => muted = pageMuted

\* Nothing is recorded when the session has stopped, when it is muted, or in the time that
\* follows the end of what was played and the begin and end of what was spoken; and one
\* recording is transcribed at a time, during which nothing else is recorded.  Playing as
\* such does not keep the plugin from recording.
RecordsWhenAsked == recording => (active \/ orphaned) /\ ~muted /\ ~hushed /\ ~inFlight

UploadTracked == inFlight <=> upload # Nobody

\* A transcription has its background task once the main queue has begun it, unless iOS
\* refused it or wanted it back; and no task outlives the transcription longer than its
\* end is queued.
TaskFollows ==
  /\ inFlight /\ ~Begins /\ ~gone => task
  /\ task => inFlight \/ Queued(main, {"end"})

\* The player and its call come and go together, and so do the synthesizer's unless it
\* told the end of an utterance when the next had begun; a call nobody was told about is
\* on a queue or is what is being played.
CallsMatch ==
  /\ playCall = playing
  /\ speechCall = speaking \/ late
  /\ \A t \in Talks :
       talk[t] \in {"waiting", "heard"} <=>
         \/ t \in {playCall, speechCall}
         \/ \E job \in ToSet(capture \o main) : job[1] \in {"play", "speak", "refuse"} /\ job[2] = t

\* Voice in the iOS shell as a whole: the microphone, the session, the mute button, the
\* recording, its upload and task, and the calls that play.
NativeSound ==
  /\ NativeTypeOK /\ MicKnown /\ SessionStoppable /\ MuteHeard
  /\ RecordsWhenAsked /\ UploadTracked /\ TaskFollows /\ CallsMatch
=============================================================================
