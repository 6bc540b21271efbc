----------------------------- MODULE SpeechQueue -----------------------------
(***************************************************************************)
(* Speaking the answer of an agent sentence by sentence in the web page:   *)
(* the queue, the look-ahead, the audio element with its object URLs, the  *)
(* browser's own speech, and the filler ("One second.") that is spoken     *)
(* while there is no answer yet (src/src/app/chat/page.tsx).               *)
(*                                                                         *)
(* Everything the page keeps is one record, and what it does without       *)
(* waiting is a function of it.  An action ends where the code waits: for  *)
(* an answer of /api/tts, or for an event of the element or the browser's  *)
(* speech.  Speech is enabled, and the page is not the native app.         *)
(***************************************************************************)
EXTENDS FiniteSets, Integers, Sequences

CONSTANTS
  MaxSentences, \* bound: sentences ever queued
  MaxUrls,      \* bound: object URLs ever created
  MaxAhead      \* bound: requests for one sentence ahead at once

ASSUME SpeechBounds == MaxSentences \in Nat /\ MaxUrls \in Nat /\ MaxAhead \in Nat

Sentences == 1..MaxSentences
NoUrl == 0
NoSentence == 0

\* The sentence that stands for the filler.
Filler == MaxSentences + 1

VARIABLES
  voice,  \* class of the agent's voice: isExplicitServerVoice, shouldUseDeviceTts, neither
  speech, \* what the page keeps
  queued, \* sentences queued so far
  sent,   \* a turn was sent whose answer has not begun
  said,   \* ghost: the last sentence that has begun to sound
  cut     \* ghost: a sentence under way was left to itself, and is not over, or a play()
          \* that was interrupted is still to be rejected

speechVars == <<voice, speech, queued, sent, said, cut>>

\* utter: how far the browser's speech of a sentence is; "cut" and "late" when it
\* was cancelled before and after it had started, and the event is to come.
Utterances == {"none", "waiting", "started", "cut", "late"}

Page ==
  [mode : {"server", "browser"}, queue : Seq(Sentences), speaking : BOOLEAN,
   kind : {"none", "filler", "response"}, begun : BOOLEAN, fetching : SUBSET Sentences,
   ahead : [Sentences -> 0..MaxAhead], held : [text : Sentences \cup {NoSentence}, url : 0..MaxUrls],
   active : 0..MaxUrls, live : SUBSET (1..MaxUrls), made : 0..MaxUrls,
   element : [of : 0..Filler, url : 0..MaxUrls], utter : [Sentences -> Utterances],
   quick : SUBSET Sentences, filler : {"none", "fetching", "stale", "browser"}]

SpeechTypeOK ==
  /\ voice \in {"explicit", "device", "other"}
  /\ speech \in Page
  /\ queued \in 0..MaxSentences /\ said \in 0..MaxSentences
  /\ {sent, cut} \subseteq BOOLEAN

NothingHeld == [text |-> NoSentence, url |-> NoUrl]
NothingPlays == [of |-> NoSentence, url |-> NoUrl]

SpeechInit ==
  /\ voice \in {"explicit", "device", "other"}
  /\ \E m \in {"server", "browser"} :
       speech = [mode |-> m, queue |-> <<>>, speaking |-> FALSE, kind |-> "none", begun |-> FALSE,
                 fetching |-> {}, ahead |-> [s \in Sentences |-> 0], held |-> NothingHeld,
                 active |-> NoUrl, live |-> {}, made |-> 0, element |-> NothingPlays,
                 utter |-> [s \in Sentences |-> "none"], quick |-> {}, filler |-> "none"]
  /\ queued = 0 /\ said = 0
  /\ sent = FALSE /\ cut = FALSE

-----------------------------------------------------------------------------
(* What the page does without waiting.                                     *)

\* The sentences that are being fetched, spoken or played.
Voices(p) ==
  p.fetching \cup {s \in Sentences : p.utter[s] # "none"} \cup ({p.element.of} \cap Sentences)

\* revokeAudioObjectUrl.
Revoke(p, url) ==
  [p EXCEPT !.live = @ \ {url}, !.active = IF @ = url THEN NoUrl ELSE @]

\* revokePrefetchedAudio.
RevokeHeld(p) == [Revoke(p, p.held.url) EXCEPT !.held = NothingHeld]

\* speechSynthesis.cancel: the event comes later.
CancelSpeech(p) ==
  [p EXCEPT !.utter = [s \in Sentences |->
                         CASE p.utter[s] = "waiting" -> "cut"
                           [] p.utter[s] = "started" -> "late"
                           [] OTHER -> p.utter[s]],
            !.filler = IF @ = "browser" THEN "none" ELSE @]

\* The token of the filler changes.
Outdate(p) == [p EXCEPT !.filler = IF @ = "fetching" THEN "stale" ELSE @]

StopFiller(p) ==
  IF p.kind # "filler" THEN Outdate(p)
  ELSE [Revoke(CancelSpeech(Outdate(p)), p.active) EXCEPT !.element = NothingPlays, !.kind = "none"]

\* Mutation: the audio that was fetched ahead is forgotten.
StopAllKeepingHeld(p) ==
  [Revoke(CancelSpeech(Outdate(p)), p.active) EXCEPT
     !.queue = <<>>, !.speaking = FALSE, !.kind = "none", !.element = NothingPlays,
     !.held = NothingHeld]

\* stopAllAudio.
StopAll(p) ==
  [RevokeHeld(Revoke(CancelSpeech(Outdate(p)), p.active)) EXCEPT
     !.queue = <<>>, !.speaking = FALSE, !.kind = "none", !.element = NothingPlays]

\* assignAudioObjectUrl, and the element plays it.
Play(p, s, url) ==
  [Revoke(p, p.active) EXCEPT !.active = url, !.element = [of |-> s, url |-> url]]

\* playBrowserTTS, for the filler.
Murmur(p) == [CancelSpeech(p) EXCEPT !.kind = "filler", !.filler = "browser"]

Idle(p) == [p EXCEPT !.speaking = FALSE, !.kind = "none"]

\* The next sentence is fetched ahead, unless it is for the browser's speech.
LooksAhead(p) ==
  /\ p.queue # <<>> /\ voice # "device" /\ (p.mode = "server" \/ voice = "explicit")
  /\ p.ahead[Head(p.queue)] < MaxAhead

\* The browser speaks: it is the voice, there is no server, or it is quicker for the
\* first sentence.
ByBrowser(p) == voice = "device" \/ (voice = "other" /\ (p.mode = "browser" \/ ~p.begun))

\* Mutation: a sentence that waits is spoken whatever is spoken now.
SpeakAnyway(p) ==
  IF p.queue = <<>> THEN p
  ELSE LET s == Head(p.queue) IN
    [StopFiller([p EXCEPT !.queue = Tail(@)]) EXCEPT
       !.speaking = TRUE, !.kind = "response", !.begun = TRUE, !.fetching = @ \cup {s}]

\* speakNextInQueue.
SpeakNext(p) ==
  IF p.speaking \/ p.queue = <<>> THEN p
  ELSE LET s == Head(p.queue)
           q == [StopFiller([p EXCEPT !.queue = Tail(@)]) EXCEPT
                   !.speaking = TRUE, !.kind = "response", !.begun = TRUE]
           r == IF LooksAhead(q) THEN [q EXCEPT !.ahead[Head(q.queue)] = @ + 1] ELSE q
       IN CASE ByBrowser(p) ->
                 [r EXCEPT !.utter[s] = "waiting",
                           !.quick = IF voice = "other" /\ ~p.begun THEN @ \cup {s} ELSE @ \ {s}]
            [] ~ByBrowser(p) /\ r.held.text = s -> Play([r EXCEPT !.held = NothingHeld], s, r.held.url)
            [] OTHER -> [r EXCEPT !.fetching = @ \cup {s}]

\* A sentence is over, and the next one follows.
GoOn(p) ==
  IF p.queue = <<>> THEN Idle(p) ELSE SpeakNext([p EXCEPT !.speaking = FALSE])

\* Mutation: the sentence goes to the end of the queue.
FallBackToTail(p, s) ==
  SpeakNext(Idle([CancelSpeech([p EXCEPT !.utter[s] = "none"]) EXCEPT !.queue = Append(@, s)]))

\* fallbackToServerTTS: the sentence goes back to the head of the queue.
FallBack(p, s) ==
  SpeakNext(Idle([CancelSpeech([p EXCEPT !.utter[s] = "none"]) EXCEPT !.queue = <<s>> \o @]))

\* What sounds is stopped or replaced; its play() may not have been settled.
Interrupted(p) == speech.element # NothingPlays /\ p.element # speech.element

\* The page is left like this; by: something else than the end of a sentence.
SpeechBecomes(p, by) ==
  /\ speech' = p
  /\ \/ cut' = ((cut \/ by) /\ (Voices(p) # {} \/ p.speaking))
     \/ cut' = TRUE /\ Interrupted(p)
  /\ said' = IF p.element.of \in Sentences /\ p.element # speech.element THEN p.element.of
             ELSE IF \E s \in Sentences : p.utter[s] = "started" /\ speech.utter[s] # "started"
               THEN CHOOSE s \in Sentences : p.utter[s] = "started" /\ speech.utter[s] # "started"
             ELSE said
  /\ UNCHANGED voice

HasVoices == Voices(speech) # {}

-----------------------------------------------------------------------------
(* The page.                                                               *)

\* queueSentenceForTTS.
Queues ==
  /\ queued < MaxSentences
  /\ queued' = queued + 1
  /\ SpeechBecomes(SpeakNext([speech EXCEPT !.queue = Append(@, queued')]), FALSE)
  /\ UNCHANGED sent

\* A turn is sent (page.tsx:3997), and the loading effect changes the token of the
\* filler; its answer begins (4075), or that of a thread.
TurnSent ==
  /\ ~sent /\ sent' = TRUE
  /\ SpeechBecomes(Outdate([speech EXCEPT !.begun = FALSE]), FALSE)
  /\ UNCHANGED queued

AnswerBegins ==
  /\ sent' = FALSE
  /\ SpeechBecomes([speech EXCEPT !.queue = <<>>, !.speaking = FALSE], HasVoices)
  /\ UNCHANGED queued

Stops ==
  /\ speech.queue # <<>> \/ speech.speaking \/ speech.filler # "none" \/ speech.held # NothingHeld
  /\ SpeechBecomes(StopAll(speech), HasVoices)
  /\ UNCHANGED <<queued, sent>>

\* A timer of the loading effect says something while there is no answer (playTTS);
\* bound: one such request at a time.
FillerBegins ==
  /\ ~speech.speaking /\ speech.filler = "none"
  /\ SpeechBecomes(IF voice = "device" \/ (voice = "other" /\ speech.mode = "browser")
               THEN Murmur(speech)
               ELSE [speech EXCEPT !.kind = "filler", !.filler = "fetching"],
             HasVoices)
  /\ UNCHANGED <<queued, sent>>

-----------------------------------------------------------------------------
(* Answers of /api/tts.                                                    *)

Made(p) == [p EXCEPT !.made = @ + 1, !.live = @ \cup {p.made + 1}]

Fetched(s) ==
  /\ s \in speech.fetching /\ speech.made < MaxUrls
  /\ LET p == Made([speech EXCEPT !.fetching = @ \ {s}])
     IN SpeechBecomes(Play(p, s, p.made), speech.element.of \in Sentences)
  /\ UNCHANGED <<queued, sent>>

\* The answer is an error, or there is none: then what the page holds as playing is
\* revoked as well.
FetchFails(s) ==
  /\ s \in speech.fetching
  /\ LET p == Idle([speech EXCEPT !.fetching = @ \ {s}])
     IN \E q \in {p, Revoke(p, p.active)} : SpeechBecomes(q, Cardinality(Voices(speech)) > 1)
  /\ UNCHANGED <<queued, sent>>

\* Mutation: the audio that was fetched ahead before is not revoked.
FetchedAheadOver(s) ==
  /\ speech.ahead[s] > 0 /\ speech.made < MaxUrls
  /\ LET p == Made([speech EXCEPT !.ahead[s] = @ - 1])
     IN SpeechBecomes([p EXCEPT !.held = [text |-> s, url |-> p.made]], FALSE)
  /\ UNCHANGED <<queued, sent>>

\* prefetchTTS.
FetchedAhead(s) ==
  /\ speech.ahead[s] > 0 /\ speech.made < MaxUrls
  /\ LET p == Made(RevokeHeld([speech EXCEPT !.ahead[s] = @ - 1]))
     IN SpeechBecomes([p EXCEPT !.held = [text |-> s, url |-> p.made]], FALSE)
  /\ UNCHANGED <<queued, sent>>

AheadFails(s) ==
  /\ speech.ahead[s] > 0
  /\ SpeechBecomes([speech EXCEPT !.ahead[s] = @ - 1], FALSE)
  /\ UNCHANGED <<queued, sent>>

\* A filler whose token is old is dropped.
FillerFetched ==
  /\ speech.filler \in {"fetching", "stale"} /\ speech.made < MaxUrls
  /\ LET p == Made([speech EXCEPT !.filler = "none"])
     IN SpeechBecomes(IF speech.filler = "stale" THEN Revoke(p, p.made) ELSE Play(p, Filler, p.made),
                speech.filler = "fetching" /\ HasVoices)
  /\ UNCHANGED <<queued, sent>>

\* The catch of playTTS: whatever plays is revoked, and the browser's speech takes
\* over, unless the voice is one of the server.
GivesUp(p) ==
  LET q == Revoke(p, p.active) IN IF voice = "explicit" THEN [q EXCEPT !.kind = "none"] ELSE Murmur(q)

\* The answer is an error, or there is none.
FillerFails ==
  /\ speech.filler \in {"fetching", "stale"}
  /\ LET p == [speech EXCEPT !.filler = "none"]
     IN SpeechBecomes(p, FALSE) \/ SpeechBecomes(GivesUp(p), HasVoices)
  /\ UNCHANGED <<queued, sent>>

\* play() is refused.
FillerRefused ==
  /\ speech.element.of = Filler
  /\ SpeechBecomes(GivesUp([speech EXCEPT !.element = NothingPlays]), HasVoices)
  /\ cut' => cut \/ HasVoices
  /\ UNCHANGED <<queued, sent>>

\* Mutation: the mode is that of the native app.
FillerUnavailableNative ==
  /\ speech.filler \in {"fetching", "stale"}
  /\ SpeechBecomes([speech EXCEPT !.filler = "none", !.mode = "native"], HasVoices)
  /\ UNCHANGED <<queued, sent>>

\* It has no backend (503), and the page uses the browser's speech from now on.
FillerUnavailable ==
  /\ speech.filler \in {"fetching", "stale"}
  /\ LET p == [speech EXCEPT !.filler = "none"]
     IN SpeechBecomes(IF voice = "explicit" THEN [p EXCEPT !.kind = "none"]
                ELSE Murmur([p EXCEPT !.mode = "browser"]), HasVoices)
  /\ UNCHANGED <<queued, sent>>

-----------------------------------------------------------------------------
(* Events of the element and of the browser's speech.                      *)

\* onended.
Ended ==
  /\ speech.element # NothingPlays
  /\ LET p == [Revoke(speech, speech.element.url) EXCEPT !.element = NothingPlays]
     IN SpeechBecomes(IF speech.element.of = Filler THEN [p EXCEPT !.kind = "none"] ELSE GoOn(p), FALSE)
  /\ cut' => cut
  /\ UNCHANGED <<queued, sent>>

\* onerror, or play() is refused.
PlayFails ==
  /\ speech.element # NothingPlays
  /\ LET p == [Revoke(speech, speech.element.url) EXCEPT !.element = NothingPlays]
     IN SpeechBecomes(IF speech.element.of = Filler THEN [p EXCEPT !.kind = "none"] ELSE Idle(p), FALSE)
  /\ cut' => cut
  /\ UNCHANGED <<queued, sent>>

\* play() of a sentence or of a filler that was interrupted is rejected only now: its
\* catch ends what the page holds as playing.
RefusedLate ==
  /\ cut
  /\ \/ SpeechBecomes(Idle(Revoke(speech, speech.active)), HasVoices)
     \/ SpeechBecomes(GivesUp(speech), HasVoices)
  /\ UNCHANGED <<queued, sent>>

UtterStarts(s) ==
  /\ speech.utter[s] = "waiting"
  /\ SpeechBecomes([speech EXCEPT !.utter[s] = "started"], FALSE)
  /\ UNCHANGED <<queued, sent>>

\* Mutation: the sentence counts as settled when it starts.
UtterEndsUnheard(s) ==
  /\ speech.utter[s] = "cut"
  /\ SpeechBecomes(GoOn([speech EXCEPT !.utter[s] = "none"]), FALSE)
  /\ UNCHANGED <<queued, sent>>

\* onend.
UtterEnds(s) ==
  /\ speech.utter[s] \in {"started", "cut", "late"}
  /\ SpeechBecomes(GoOn([speech EXCEPT !.utter[s] = "none"]), FALSE)
  /\ UNCHANGED <<queued, sent>>

\* onerror: a first sentence falls back when it has not started and is left to itself
\* when it has; any other ends the speech.
UtterFails(s) ==
  /\ speech.utter[s] # "none"
  /\ LET p == [speech EXCEPT !.utter[s] = "none"]
     IN IF s \notin speech.quick \/ speech.mode = "browser" THEN SpeechBecomes(Idle(p), FALSE)
        ELSE IF speech.utter[s] \in {"waiting", "cut"} THEN SpeechBecomes(FallBack(speech, s), FALSE)
        ELSE SpeechBecomes(p, TRUE)
  /\ UNCHANGED <<queued, sent>>

\* The timer of the first sentence: it has not started for 450 ms.
TooSlow(s) ==
  /\ speech.utter[s] \in {"waiting", "cut"} /\ s \in speech.quick /\ speech.mode = "server"
  /\ SpeechBecomes(FallBack(speech, s), FALSE)
  /\ UNCHANGED <<queued, sent>>

Murmured ==
  /\ speech.filler = "browser"
  /\ SpeechBecomes([speech EXCEPT !.filler = "none", !.kind = "none"], FALSE)
  /\ UNCHANGED <<queued, sent>>

-----------------------------------------------------------------------------
Hear(s) ==
  \/ Fetched(s) \/ FetchFails(s) \/ FetchedAhead(s) \/ AheadFails(s)
  \/ UtterStarts(s) \/ UtterEnds(s) \/ UtterFails(s) \/ TooSlow(s)

SpeechNext ==
  \/ Queues \/ TurnSent \/ AnswerBegins \/ Stops
  \/ FillerBegins \/ FillerFetched \/ FillerFails \/ FillerRefused \/ FillerUnavailable
  \/ Ended \/ PlayFails \/ RefusedLate \/ Murmured
  \/ \E s \in Sentences : Hear(s)

\* The network answers, and what sounds ends, if it does not fail.
SpeechFairness ==
  /\ WF_speechVars(Ended)
  /\ \A s \in Sentences :
       /\ WF_speechVars(Fetched(s) \/ FetchFails(s))
       /\ WF_speechVars(UtterStarts(s))
       /\ WF_speechVars(UtterEnds(s))

SpeechSpec == SpeechInit /\ [][SpeechNext]_speechVars /\ SpeechFairness

-----------------------------------------------------------------------------
(* Properties.                                                             *)

\* An object URL is alive exactly as long as the page holds it, as the one that plays
\* or the one fetched ahead.
UrlsHeld == speech.live = {speech.active, speech.held.url} \ {NoUrl}

\* One sentence sounds at a time, and the page knows when none does, unless one was
\* left to itself.
OneVoice ==
  ~cut => /\ Cardinality(Voices(speech)) <= 1
          /\ speech.speaking <=> Voices(speech) # {}

\* The sentences sound in the order in which they were queued.
InOrder == [][cut \/ said' >= said]_speechVars

\* Those that wait are spoken, dropped, or left by a failure for the next to come.
QueueDrains == speech.queue # <<>> /\ ~cut ~> speech.queue = <<>> \/ ~speech.speaking \/ cut

\* One sentence sounds at a time, and only its audio and the next are kept.
SpeechSound == SpeechTypeOK /\ UrlsHeld /\ OneVoice
=============================================================================
