------------------------ MODULE SpeechQueue_proofs -------------------------
(***************************************************************************)
(* Theorems about SpeechQueue, for any number of sentences, of URLs and of *)
(* times the loop runs.                                                    *)
(*                                                                         *)
(* A page holds a URL for each audio it may still play, each once (Urls),  *)
(* and one thing sounds at a time, which is the sentence the loop works on *)
(* (Alone, Tuned).  The sentences leave the queue in the order they were   *)
(* put there, for good but for the one that falls back to another voice:   *)
(* Ordered says where in that order the page is.  The helpers that stop    *)
(* something begin nothing (Quietly), which is what most of the steps need *)
(* to know of them.                                                        *)
(***************************************************************************)
EXTENDS SpeechQueue, SequenceTheorems, FiniteSetTheorems, TLAPS

\* The URLs a page holds are its own, and each is held once.
Urls(p) ==
  /\ p.live = {p.active, p.held.url} \ {NoUrl}
  /\ p.active <= p.made /\ p.held.url <= p.made /\ p.element.url <= p.made
  /\ p.held.url # NoUrl => p.held.url \notin {p.active, p.element.url}
  /\ p.element.of = NoSentence => p.element = NothingPlays

\* From p to q nothing begins to sound, and what waits, goes on or is held does so.
Quietly(p, q) ==
  /\ q.fetching = p.fetching /\ q.element \in {p.element, NothingPlays}
  /\ \A s \in Sentences : /\ q.utter[s] = "none" <=> p.utter[s] = "none"
                          /\ q.utter[s] = "started" => p.utter[s] = "started"

\* The queue, whether the loop runs, and what was fetched ahead are as before.
Keeps(p, q) ==
  q.queue = p.queue /\ q.speaking = p.speaking /\ q.held = p.held /\ q.made = p.made

LEMMA RevokeKeeps ==
  ASSUME NEW p \in Page, NEW url \in 0..MaxUrls
  PROVE  /\ Revoke(p, url) \in Page
         /\ Keeps(p, Revoke(p, url)) /\ Quietly(p, Revoke(p, url))
         /\ Revoke(p, url).utter = p.utter /\ Revoke(p, url).element = p.element
         /\ Revoke(p, url).live = p.live \ {url}
         /\ Revoke(p, url).active = IF p.active = url THEN NoUrl ELSE p.active
         /\ Urls(p) /\ (url = p.held.url => url = NoUrl) => Urls(Revoke(p, url))
<1> DEFINE live == p.live \ {url}
           active == IF p.active = url THEN NoUrl ELSE p.active
<1>1. live \in SUBSET (1..MaxUrls) /\ active \in 0..MaxUrls
  BY SpeechBounds DEF Page, NoUrl
<1>2. Revoke(p, url) = [p EXCEPT !.live = live, !.active = active]
  BY DEF Revoke, Page
<1>3. Revoke(p, url) \in Page
  <2>. HIDE DEF live, active
  <2>. QED
    BY <1>1, <1>2 DEF Page
<1>4. /\ Revoke(p, url).live = live /\ Revoke(p, url).active = active
      /\ Revoke(p, url).element = p.element /\ Revoke(p, url).fetching = p.fetching
      /\ Revoke(p, url).utter = p.utter /\ Keeps(p, Revoke(p, url))
  <2>. HIDE DEF live, active
  <2>. QED
    BY <1>2 DEF Page, Keeps
<1>5. Quietly(p, Revoke(p, url))
  BY <1>4 DEF Quietly
<1>6. Urls(p) /\ (url = p.held.url => url = NoUrl) => Urls(Revoke(p, url))
  BY <1>4, SpeechBounds DEF Page, NoUrl, Urls, Keeps
<1>. QED
  BY <1>3, <1>4, <1>5, <1>6

LEMMA CancelSpeechKeeps ==
  ASSUME NEW p \in Page
  PROVE  /\ CancelSpeech(p) \in Page
         /\ Keeps(p, CancelSpeech(p)) /\ Quietly(p, CancelSpeech(p))
         /\ CancelSpeech(p).element = p.element /\ CancelSpeech(p).active = p.active
         /\ \A s \in Sentences : CancelSpeech(p).utter[s] # "started"
         /\ Urls(p) => Urls(CancelSpeech(p))
<1>1. CancelSpeech(p) \in Page
  BY DEF CancelSpeech, Page, Utterances
<1>. QED
  BY <1>1 DEF CancelSpeech, Page, Urls, Keeps, Quietly, Utterances

LEMMA OutdateKeeps ==
  ASSUME NEW p \in Page
  PROVE  /\ Outdate(p) \in Page
         /\ Keeps(p, Outdate(p)) /\ Quietly(p, Outdate(p))
         /\ Outdate(p).element = p.element /\ Outdate(p).active = p.active
         /\ Urls(p) => Urls(Outdate(p))
<1>1. Outdate(p) \in Page
  BY DEF Outdate, Page
<1>. QED
  BY <1>1 DEF Outdate, Page, Urls, Keeps, Quietly

\* What does one after the other is quiet as a whole.
LEMMA QuietlyTwice ==
  ASSUME NEW p, NEW q, NEW r, Quietly(p, q), Quietly(q, r), Keeps(p, q), Keeps(q, r)
  PROVE  Quietly(p, r) /\ Keeps(p, r)
BY DEF Quietly, Keeps

LEMMA SilencedKeeps ==
  ASSUME NEW p \in Page, NEW kind \in {"none", "filler", "response"}
  PROVE  LET q == [p EXCEPT !.element = NothingPlays, !.kind = kind]
         IN q \in Page /\ Keeps(p, q) /\ Quietly(p, q) /\ (Urls(p) => Urls(q))
<1> DEFINE q == [p EXCEPT !.element = NothingPlays, !.kind = kind]
<1>1. NothingPlays \in [of : 0..Filler, url : 0..MaxUrls]
  BY SpeechBounds DEF NothingPlays, NoSentence, NoUrl, Filler
<1>2. q \in Page
  BY <1>1 DEF Page
<1>. QED
  BY <1>2 DEF Page, Urls, Keeps, Quietly, NothingPlays, NoUrl, NoSentence

LEMMA StopFillerKeeps ==
  ASSUME NEW p \in Page, Urls(p)
  PROVE  /\ StopFiller(p) \in Page /\ Urls(StopFiller(p))
         /\ Keeps(p, StopFiller(p)) /\ Quietly(p, StopFiller(p))
<1>1. CASE p.kind # "filler"
  BY <1>1, OutdateKeeps DEF StopFiller
<1>2. CASE p.kind = "filler"
  <2> DEFINE q == CancelSpeech(Outdate(p))
             r == Revoke(q, p.active)
  <2>1. q \in Page /\ Urls(q) /\ Quietly(p, q) /\ Keeps(p, q)
    BY OutdateKeeps, CancelSpeechKeeps, QuietlyTwice
  <2>2. p.active \in 0..MaxUrls /\ (p.active = q.held.url => p.active = NoUrl)
    BY <2>1 DEF Page, Urls, Keeps
  <2>3. r \in Page /\ Urls(r) /\ Quietly(q, r) /\ Keeps(q, r)
    BY <2>1, <2>2, RevokeKeeps
  <2>4. StopFiller(p) = [r EXCEPT !.element = NothingPlays, !.kind = "none"]
    BY <1>2 DEF StopFiller
  <2>. HIDE DEF q, r
  <2>5. Quietly(p, r) /\ Keeps(p, r)
    BY <2>1, <2>3, QuietlyTwice
  <2>. QED
    BY <2>3, <2>4, <2>5, SilencedKeeps, QuietlyTwice
<1>. QED
  BY <1>1, <1>2

\* An audio that nothing else holds plays.
LEMMA PlayPlays ==
  ASSUME NEW p \in Page, NEW s \in 1..Filler, NEW url \in 0..MaxUrls,
         p.live = {p.active, p.held.url, url} \ {NoUrl},
         p.active <= p.made, p.held.url <= p.made, url <= p.made,
         url # NoUrl => url \notin {p.active, p.held.url},
         p.held.url # NoUrl => p.held.url # p.active
  PROVE  /\ Play(p, s, url) \in Page /\ Urls(Play(p, s, url)) /\ Keeps(p, Play(p, s, url))
         /\ Play(p, s, url).element = [of |-> s, url |-> url]
         /\ Play(p, s, url).fetching = p.fetching /\ Play(p, s, url).utter = p.utter
<1> DEFINE r == Revoke(p, p.active)
           e == [of |-> s, url |-> url]
<1>1. p.active \in 0..MaxUrls
  BY DEF Page
<1>2. r \in Page /\ Keeps(p, r) /\ r.utter = p.utter /\ r.live = p.live \ {p.active} /\ r.fetching = p.fetching
  BY <1>1, RevokeKeeps DEF Quietly
<1>3. e \in [of : 0..Filler, url : 0..MaxUrls] /\ e.of = s /\ e.url = url /\ s # 0
  BY SpeechBounds DEF Filler
<1>4. Play(p, s, url) = [r EXCEPT !.active = url, !.element = e]
  BY DEF Play
<1>. HIDE DEF r, e
<1>5. Play(p, s, url) \in Page
  BY <1>2, <1>3, <1>4 DEF Page
<1>6. /\ Play(p, s, url).active = url /\ Play(p, s, url).element = e
      /\ Play(p, s, url).live = p.live \ {p.active} /\ Play(p, s, url).utter = p.utter
      /\ Play(p, s, url).fetching = p.fetching /\ Keeps(p, Play(p, s, url))
  BY <1>2, <1>4 DEF Page, Keeps
<1>7. Urls(Play(p, s, url))
  BY <1>3, <1>6 DEF Urls, Keeps, NoUrl, NoSentence
<1>. QED
  BY <1>5, <1>6, <1>7 DEF e

\* What of the browser's speech is over is over, and nothing starts.
NoneStarts(p, q, S) ==
  \A s \in S : /\ q.utter[s] = "none" <=> p.utter[s] = "none"
               /\ q.utter[s] = "started" => p.utter[s] = "started"

\* A sentence is fetched, played or spoken from now on.
Begins(p, q, s) ==
  \/ /\ q.fetching = p.fetching \cup {s} /\ q.element \in {p.element, NothingPlays}
     /\ NoneStarts(p, q, Sentences)
  \/ /\ q.fetching = p.fetching /\ q.element.of = s
     /\ NoneStarts(p, q, Sentences)
  \/ /\ q.fetching = p.fetching /\ q.element \in {p.element, NothingPlays}
     /\ q.utter[s] = "waiting" /\ NoneStarts(p, q, Sentences \ {s})

LEMMA SpeakNextBegins ==
  ASSUME NEW p \in Page, Urls(p), ~p.speaking, p.queue # <<>>
  PROVE  /\ Head(p.queue) \in Sentences
         /\ SpeakNext(p) \in Page /\ Urls(SpeakNext(p))
         /\ SpeakNext(p).queue = Tail(p.queue) /\ SpeakNext(p).speaking
         /\ Begins(p, SpeakNext(p), Head(p.queue))
<1> DEFINE s == Head(p.queue)
           p1 == [p EXCEPT !.queue = Tail(@)]
           p2 == StopFiller(p1)
           q == [p2 EXCEPT !.speaking = TRUE, !.kind = "response", !.begun = TRUE]
           r == IF LooksAhead(q) THEN [q EXCEPT !.ahead[Head(q.queue)] = @ + 1] ELSE q
<1>1. s \in Sentences /\ Tail(p.queue) \in Seq(Sentences)
  BY HeadTailProperties DEF Page
<1>2. p1 \in Page /\ Urls(p1) /\ Quietly(p, p1) /\ p1.queue = Tail(p.queue)
  BY <1>1 DEF Page, Urls, Quietly
<1>3. p2 \in Page /\ Urls(p2) /\ Quietly(p1, p2) /\ p2.queue = Tail(p.queue)
  BY <1>2, StopFillerKeeps DEF Keeps
<1>4. Quietly(p, p2)
  BY <1>2, <1>3 DEF Quietly
<1>. HIDE DEF p1, p2
<1>5. q \in Page /\ Urls(q) /\ Quietly(p, q) /\ q.queue = Tail(p.queue) /\ q.speaking
  BY <1>3, <1>4 DEF Page, Urls, Quietly
<1>. HIDE DEF q
<1>6. r \in Page /\ Urls(r) /\ Quietly(p, r) /\ r.queue = Tail(p.queue) /\ r.speaking
  <2>1. CASE LooksAhead(q)
    <3> DEFINE t == Head(q.queue)
               ahead == [q.ahead EXCEPT ![t] = @ + 1]
    <3>1. t \in Sentences
      BY <1>5, <2>1, HeadTailProperties DEF Page, LooksAhead
    <3>2. ahead \in [Sentences -> 0..MaxAhead]
      <4>1. q.ahead \in [Sentences -> 0..MaxAhead] /\ q.ahead[t] < MaxAhead
        BY <1>5, <2>1 DEF Page, LooksAhead
      <4>2. q.ahead[t] + 1 \in 0..MaxAhead
        BY <3>1, <4>1, SpeechBounds
      <4>. QED
        BY <4>1, <4>2
    <3>3. r = [q EXCEPT !.ahead = ahead]
      BY <1>5, <2>1 DEF Page
    <3>. HIDE DEF r, ahead
    <3>. QED
      BY <1>5, <3>2, <3>3 DEF Page, Urls, Quietly
  <2>2. CASE ~LooksAhead(q)
    BY <1>5, <2>2
  <2>. QED
    BY <2>1, <2>2
<1>7. SpeakNext(p) = CASE ByBrowser(p) ->
                 [r EXCEPT !.utter[s] = "waiting",
                           !.quick = IF voice = "other" /\ ~p.begun THEN @ \cup {s} ELSE @ \ {s}]
            [] ~ByBrowser(p) /\ r.held.text = s -> Play([r EXCEPT !.held = NothingHeld], s, r.held.url)
            [] OTHER -> [r EXCEPT !.fetching = @ \cup {s}]
  BY DEF SpeakNext, q, p1, p2
<1>. HIDE DEF r, s
<1>8. CASE ByBrowser(p)
  <2> DEFINE utter == [r.utter EXCEPT ![s] = "waiting"]
             quick == IF voice = "other" /\ ~p.begun THEN r.quick \cup {s} ELSE r.quick \ {s}
             n == [r EXCEPT !.utter = utter, !.quick = quick]
  <2>1. utter \in [Sentences -> Utterances] /\ quick \in SUBSET Sentences
    BY <1>1, <1>6 DEF Page, Utterances
  <2>2. utter[s] = "waiting" /\ \A t \in Sentences \ {s} : utter[t] = r.utter[t]
    BY <1>1, <1>6 DEF Page
  <2>3. SpeakNext(p) = n
    BY <1>6, <1>7, <1>8 DEF Page
  <2>. HIDE DEF utter, quick
  <2>4. n \in Page /\ Urls(n) /\ n.queue = Tail(p.queue) /\ n.speaking
    BY <1>6, <2>1 DEF Page, Urls
  <2>5. n.utter = utter /\ n.fetching = r.fetching /\ n.element = r.element
    BY <1>6 DEF Page
  <2>. HIDE DEF n
  <2>6. Begins(p, n, s)
    BY <1>6, <2>2, <2>5 DEF Begins, Quietly, NoneStarts
  <2>. QED
    BY <1>1, <2>3, <2>4, <2>6 DEF s
<1>9. CASE ~ByBrowser(p) /\ r.held.text = s
  <2> DEFINE h == [r EXCEPT !.held = NothingHeld]
             n == Play(h, s, r.held.url)
  <2>1. NothingHeld \in [text : Sentences \cup {NoSentence}, url : 0..MaxUrls]
    BY SpeechBounds DEF NothingHeld, NoUrl
  <2>2. h \in Page
    BY <1>6, <2>1 DEF Page
  <2>3. h.held = NothingHeld /\ h.live = r.live /\ h.active = r.active /\ h.made = r.made
        /\ h.queue = r.queue /\ h.speaking = r.speaking /\ h.fetching = r.fetching /\ h.utter = r.utter
    BY <1>6 DEF Page
  <2>4. r.held.url \in 0..MaxUrls /\ r.made \in Nat /\ s \in 1..Filler
    BY <1>1, <1>6, SpeechBounds DEF Page, Sentences, Filler
  <2>5. /\ h.live = {h.active, h.held.url, r.held.url} \ {NoUrl}
        /\ h.active <= h.made /\ h.held.url <= h.made /\ r.held.url <= h.made
        /\ r.held.url # NoUrl => r.held.url \notin {h.active, h.held.url}
        /\ h.held.url # NoUrl => h.held.url # h.active
    BY <1>6, <2>3, <2>4 DEF Urls, NothingHeld, NoUrl
  <2>. HIDE DEF h
  <2>6. /\ n \in Page /\ Urls(n) /\ Keeps(h, n) /\ n.element = [of |-> s, url |-> r.held.url]
        /\ n.fetching = h.fetching /\ n.utter = h.utter
    BY <2>2, <2>4, <2>5, PlayPlays
  <2>7. SpeakNext(p) = n
    BY <1>7, <1>9 DEF h
  <2>. HIDE DEF n
  <2>8. n.element.of = s
    BY <2>6
  <2>9. Begins(p, n, s)
    BY <1>6, <2>3, <2>6, <2>8 DEF Begins, Quietly, NoneStarts
  <2>. QED
    BY <1>1, <1>6, <2>3, <2>6, <2>7, <2>9 DEF Keeps, s
<1>10. CASE ~ByBrowser(p) /\ r.held.text # s
  <2> DEFINE n == [r EXCEPT !.fetching = @ \cup {s}]
  <2>1. n \in Page /\ Urls(n) /\ n.queue = Tail(p.queue) /\ n.speaking
    BY <1>1, <1>6 DEF Page, Urls
  <2>2. n.fetching = r.fetching \cup {s} /\ n.element = r.element /\ n.utter = r.utter
    BY <1>6 DEF Page
  <2>3. Begins(p, n, s)
    BY <1>6, <2>2 DEF Begins, Quietly, NoneStarts
  <2>4. SpeakNext(p) = n
    BY <1>7, <1>10
  <2>. QED
    BY <1>1, <2>1, <2>3, <2>4 DEF s
<1>. QED
  BY <1>1, <1>8, <1>9, <1>10 DEF s

-----------------------------------------------------------------------------
(* The sentences leave the queue in order and for good, but for the one    *)
(* that falls back, which is spoken again at once: all that sounds, or is  *)
(* about to, comes before all that waits.                                  *)

\* One sentence is fetched, spoken or played, in one of these ways.
Alone(p) ==
  /\ \A s, t \in Voices(p) : s = t
  /\ \A s \in p.fetching : p.utter[s] = "none" /\ p.element.of # s
  /\ \A s \in Sentences : p.element.of = s => p.utter[s] = "none"

\* The page speaks exactly when a sentence is under way, which has not been passed.
Tuned(p, last) ==
  /\ Alone(p)
  /\ p.speaking <=> Voices(p) # {}
  /\ \A s \in Voices(p) : last <= s

\* What waits is in order, after all that is under way and all that has sounded.
Ordered(p, n, last) ==
  /\ last <= n
  /\ \A s \in Voices(p) : s <= n
  /\ \A i \in DOMAIN p.queue :
       /\ p.queue[i] <= n /\ last < p.queue[i]
       /\ \A s \in Voices(p) : s < p.queue[i]
       /\ \A j \in DOMAIN p.queue : i < j => p.queue[i] < p.queue[j]

\* The inductive invariant.
SpeechInv ==
  /\ SpeechTypeOK /\ Urls(speech) /\ Ordered(speech, queued, said)
  /\ ~cut => Tuned(speech, said)

\* A sentence begins to sound from p to q.
Sounding(p, q, t) ==
  \/ q.element.of = t /\ q.element # p.element
  \/ q.utter[t] = "started" /\ p.utter[t] # "started"

\* No voice is added.
Fades(p, q) ==
  /\ q.fetching \subseteq p.fetching
  /\ q.element = p.element \/ q.element.of \notin Sentences
  /\ \A s \in Sentences : /\ p.utter[s] = "none" => q.utter[s] = "none"
                          /\ q.utter[s] = "started" => p.utter[s] = "started"

LEMMA FadesFades ==
  ASSUME NEW p \in Page, NEW q \in Page, Fades(p, q)
  PROVE  /\ Voices(q) \subseteq Voices(p)
         /\ Alone(p) => Alone(q)
         /\ \A t \in Sentences : ~Sounding(p, q, t)
<1>1. Voices(q) \subseteq Voices(p)
  BY DEF Fades, Voices
<1>2. Alone(p) => Alone(q)
  BY <1>1 DEF Fades, Alone, Page
<1>3. \A t \in Sentences : ~Sounding(p, q, t)
  BY DEF Fades, Sounding
<1>. QED
  BY <1>1, <1>2, <1>3

LEMMA QuietlyFades ==
  ASSUME NEW p \in Page, NEW q \in Page, Quietly(p, q)
  PROVE  Fades(p, q) /\ (Voices(p) = {} => Voices(q) = {})
<1>1. Fades(p, q)
  BY DEF Quietly, Fades, NothingPlays, Sentences, NoSentence
<1>. QED
  BY <1>1, FadesFades

LEMMA BeginsOne ==
  ASSUME NEW p \in Page, NEW q \in Page, NEW s \in Sentences, Begins(p, q, s)
  PROVE  /\ Voices(q) \subseteq Voices(p) \cup {s} /\ s \in Voices(q)
         /\ \A t \in Sentences : Sounding(p, q, t) => t = s
         /\ Voices(p) = {} => Alone(q)
<1> USE DEF NoneStarts, NothingPlays, Sentences, NoSentence
<1>1. Voices(q) \subseteq Voices(p) \cup {s} /\ s \in Voices(q)
  BY DEF Begins, Voices
<1>2. \A t \in Sentences : Sounding(p, q, t) => t = s
  BY DEF Begins, Sounding
<1>3. ASSUME Voices(p) = {} PROVE Alone(q)
  <2>1. /\ p.fetching = {} /\ p.element.of \notin Sentences
        /\ \A t \in Sentences : p.utter[t] = "none"
    BY <1>3 DEF Voices
  <2>2. \A t \in Voices(q) : t = s
    BY <1>1, <1>3
  <2>. QED
    BY <2>1, <2>2 DEF Begins, Alone
<1>. QED
  BY <1>1, <1>2, <1>3

\* The voices that are left keep the order.
LEMMA OrderKept ==
  ASSUME NEW p, NEW q, NEW n, NEW last, Ordered(p, n, last),
         Voices(q) \subseteq Voices(p), q.queue = p.queue
  PROVE  Ordered(q, n, last)
BY DEF Ordered

LEMMA QueueEmptied ==
  ASSUME NEW p, NEW q, NEW n, NEW last, Ordered(p, n, last),
         Voices(q) \subseteq Voices(p), q.queue = <<>>
  PROVE  Ordered(q, n, last)
BY DEF Ordered

LEMMA SpeakNextSound ==
  ASSUME NEW p \in Page, Urls(p), NEW n \in Nat, NEW last \in Nat, Ordered(p, n, last)
  PROVE  /\ SpeakNext(p) \in Page /\ Urls(SpeakNext(p)) /\ Ordered(SpeakNext(p), n, last)
         /\ \A t \in Sentences : Sounding(p, SpeakNext(p), t) => last <= t
         /\ Tuned(p, last) => Tuned(SpeakNext(p), last)
<1>1. CASE p.speaking \/ p.queue = <<>>
  <2>1. SpeakNext(p) = p
    BY <1>1 DEF SpeakNext
  <2>. QED
    BY <2>1 DEF Sounding
<1>2. CASE ~p.speaking /\ p.queue # <<>>
  <2> DEFINE q == SpeakNext(p)
             s == Head(p.queue)
  <2>1. /\ s \in Sentences /\ q \in Page /\ Urls(q) /\ q.queue = Tail(p.queue) /\ q.speaking
        /\ Begins(p, q, s)
    BY <1>2, SpeakNextBegins
  <2>. HIDE DEF q
  <2>2. /\ p.queue \in Seq(Sentences) /\ s = p.queue[1] /\ 1 \in DOMAIN p.queue
        /\ \A i \in DOMAIN q.queue : i + 1 \in DOMAIN p.queue /\ q.queue[i] = p.queue[i + 1] /\ i \in Nat \ {0}
    <3>1. p.queue \in Seq(Sentences) /\ q.queue \in Seq(Sentences)
      BY <2>1 DEF Page
    <3>2. /\ Len(q.queue) = Len(p.queue) - 1 /\ Len(p.queue) \in Nat \ {0}
          /\ DOMAIN p.queue = 1..Len(p.queue) /\ DOMAIN q.queue = 1..Len(q.queue)
          /\ \A i \in 1..Len(q.queue) : q.queue[i] = p.queue[i + 1]
      BY <1>2, <2>1, <3>1, HeadTailProperties, LenProperties, EmptySeq
    <3>3. s = p.queue[1]
      BY <3>1, <3>2
    <3>. QED
      BY <3>1, <3>2, <3>3
  <2>. HIDE DEF s
  <2>3. /\ Voices(q) \subseteq Voices(p) \cup {s} /\ s \in Voices(q)
        /\ \A t \in Sentences : Sounding(p, q, t) => t = s
        /\ Voices(p) = {} => Alone(q)
    BY <2>1, BeginsOne
  <2>4. last < s /\ s <= n
    BY <2>2 DEF Ordered
  <2>5. Ordered(q, n, last)
    <3>1. last <= n /\ \A t \in Voices(q) : t <= n
      BY <2>3, <2>4 DEF Ordered
    <3>2. ASSUME NEW i \in DOMAIN q.queue
          PROVE  /\ q.queue[i] <= n /\ last < q.queue[i]
                 /\ \A t \in Voices(q) : t < q.queue[i]
                 /\ \A j \in DOMAIN q.queue : i < j => q.queue[i] < q.queue[j]
      <4>1. i + 1 \in DOMAIN p.queue /\ q.queue[i] = p.queue[i + 1] /\ i \in Nat \ {0}
        BY <2>2
      <4>2. q.queue[i] <= n /\ last < q.queue[i] /\ \A t \in Voices(p) : t < q.queue[i]
        BY <4>1 DEF Ordered
      <4>3. s < q.queue[i]
        BY <2>2, <4>1 DEF Ordered
      <4>4. ASSUME NEW j \in DOMAIN q.queue, i < j PROVE q.queue[i] < q.queue[j]
        <5>1. j + 1 \in DOMAIN p.queue /\ q.queue[j] = p.queue[j + 1] /\ i + 1 < j + 1
          BY <2>2, <4>1, <4>4
        <5>. QED
          BY <4>1, <5>1 DEF Ordered
      <4>. QED
        BY <2>3, <4>2, <4>3, <4>4
    <3>. QED
      BY <3>1, <3>2 DEF Ordered
  <2>6. Tuned(p, last) => Tuned(q, last)
    BY <1>2, <2>1, <2>3, <2>4 DEF Tuned, Sentences
  <2>. QED
    BY <2>1, <2>3, <2>4, <2>5, <2>6 DEF q, Sentences
<1>. QED
  BY <1>1, <1>2

LEMMA SoundingThrough ==
  ASSUME NEW p, NEW q, NEW r, NEW t, Sounding(p, r, t)
  PROVE  Sounding(p, q, t) \/ Sounding(q, r, t)
BY DEF Sounding

LEMMA IdleKeeps ==
  ASSUME NEW p \in Page
  PROVE  /\ Idle(p) \in Page /\ Quietly(p, Idle(p)) /\ (Urls(p) => Urls(Idle(p)))
         /\ Idle(p).queue = p.queue /\ ~Idle(p).speaking
BY DEF Idle, Page, Quietly, Urls

\* The end of a sentence leaves the page with the next, or with none.
LEMMA GoOnSound ==
  ASSUME NEW p \in Page, Urls(p), NEW n \in Nat, NEW last \in Nat, Ordered(p, n, last)
  PROVE  /\ GoOn(p) \in Page /\ Urls(GoOn(p)) /\ Ordered(GoOn(p), n, last)
         /\ \A t \in Sentences : Sounding(p, GoOn(p), t) => last <= t
         /\ Voices(p) = {} => Tuned(GoOn(p), last)
<1>1. CASE p.queue = <<>>
  <2>1. GoOn(p) = Idle(p)
    BY <1>1 DEF GoOn
  <2>2. GoOn(p) \in Page /\ Urls(GoOn(p)) /\ Quietly(p, GoOn(p)) /\ GoOn(p).queue = p.queue /\ ~GoOn(p).speaking
    BY <2>1, IdleKeeps
  <2>3. Fades(p, GoOn(p)) /\ (Voices(p) = {} => Voices(GoOn(p)) = {})
    BY <2>2, QuietlyFades
  <2>4. Voices(p) = {} => Alone(p)
    BY DEF Alone, Voices, Page
  <2>5. Voices(p) = {} => Tuned(GoOn(p), last)
    BY <2>2, <2>3, <2>4, FadesFades DEF Tuned
  <2>. QED
    BY <2>2, <2>3, <2>5, FadesFades, OrderKept
<1>2. CASE p.queue # <<>>
  <2> DEFINE q == [p EXCEPT !.speaking = FALSE]
  <2>1. /\ q \in Page /\ Urls(q) /\ Quietly(p, q) /\ q.queue = p.queue /\ ~q.speaking
        /\ q.element = p.element /\ q.utter = p.utter /\ q.fetching = p.fetching
    BY DEF Page, Urls, Quietly
  <2>2. GoOn(p) = SpeakNext(q)
    BY <1>2 DEF GoOn
  <2>. HIDE DEF q
  <2>3. Fades(p, q) /\ (Voices(p) = {} => Voices(q) = {})
    BY <2>1, QuietlyFades
  <2>4. Ordered(q, n, last)
    BY <2>1, <2>3, FadesFades, OrderKept
  <2>5. Voices(p) = {} => Tuned(q, last)
    BY <2>1, <2>3 DEF Tuned, Alone, Voices, Page
  <2>6. \A t \in Sentences : Sounding(p, SpeakNext(q), t) => Sounding(q, SpeakNext(q), t)
    BY <2>1 DEF Sounding
  <2>. QED
    BY <2>1, <2>2, <2>4, <2>5, <2>6, SpeakNextSound
<1>. QED
  BY <1>1, <1>2

\* The sentence that falls back is the next.
LEMMA FallBackSound ==
  ASSUME NEW p \in Page, Urls(p), NEW n \in Nat, NEW last \in Nat, Ordered(p, n, last),
         NEW s \in Sentences, p.utter[s] # "none"
  PROVE  /\ FallBack(p, s) \in Page /\ Urls(FallBack(p, s)) /\ Ordered(FallBack(p, s), n, last)
         /\ \A t \in Sentences : Sounding(p, FallBack(p, s), t) => t = s
         /\ Tuned(p, last) => Tuned(FallBack(p, s), last)
<1> DEFINE p1 == [p EXCEPT !.utter[s] = "none"]
           p2 == CancelSpeech(p1)
           p3 == [p2 EXCEPT !.queue = <<s>> \o @]
           p4 == Idle(p3)
           q == SpeakNext(p4)
<1>0. FallBack(p, s) = q
  BY DEF FallBack
<1>1. /\ p1 \in Page /\ Urls(p1) /\ Fades(p, p1) /\ p1.queue = p.queue
      /\ (s \in p.fetching \cup {p.element.of} \/ s \notin Voices(p1))
  <2> DEFINE utter == [p.utter EXCEPT ![s] = "none"]
  <2>1. utter \in [Sentences -> Utterances]
    BY DEF Page, Utterances
  <2>2. utter[s] = "none" /\ \A t \in Sentences \ {s} : utter[t] = p.utter[t]
    BY DEF Page
  <2>3. p1 = [p EXCEPT !.utter = utter]
    BY DEF Page
  <2>. HIDE DEF utter
  <2>4. p1 \in Page
    BY <2>1, <2>3 DEF Page
  <2>5. p1.utter = utter /\ p1.fetching = p.fetching /\ p1.element = p.element /\ p1.queue = p.queue /\ Urls(p1)
    BY <2>3 DEF Page, Urls
  <2>. QED
    BY <2>2, <2>4, <2>5 DEF Fades, Voices
<1>. HIDE DEF p1
<1>2. p2 \in Page /\ Urls(p2) /\ Quietly(p1, p2) /\ p2.queue = p.queue
  BY <1>1, CancelSpeechKeeps DEF Keeps
<1>. HIDE DEF p2
<1>3. p.queue \in Seq(Sentences) /\ <<s>> \in Seq(Sentences)
  BY DEF Page
<1>4. <<s>> \o p.queue \in Seq(Sentences)
  BY <1>3, ConcatProperties
<1>5. p3 \in Page /\ Urls(p3) /\ Quietly(p2, p3) /\ p3.queue = <<s>> \o p.queue
  BY <1>2, <1>4 DEF Page, Urls, Quietly
<1>. HIDE DEF p3
<1>6. p4 \in Page /\ Urls(p4) /\ Quietly(p3, p4) /\ p4.queue = <<s>> \o p.queue /\ ~p4.speaking
  BY <1>5, IdleKeeps
<1>. HIDE DEF p4
<1>7. <<s>> \o p.queue # <<>> /\ Head(<<s>> \o p.queue) = s /\ Tail(<<s>> \o p.queue) = p.queue
  BY <1>3
<1>8. q \in Page /\ Urls(q) /\ q.queue = p.queue /\ q.speaking /\ Begins(p4, q, s)
  BY <1>6, <1>7, SpeakNextBegins
<1>. HIDE DEF q
<1>9. Fades(p1, p2) /\ Fades(p2, p3) /\ Fades(p3, p4)
  BY <1>1, <1>2, <1>5, <1>6, QuietlyFades
<1>10. Voices(p4) \subseteq Voices(p1) /\ Voices(p1) \subseteq Voices(p)
  BY <1>1, <1>2, <1>5, <1>6, <1>9, FadesFades
<1>11. s \in Voices(p)
  BY DEF Voices
<1>12. /\ Voices(q) \subseteq Voices(p4) \cup {s} /\ s \in Voices(q)
       /\ \A t \in Sentences : Sounding(p4, q, t) => t = s
       /\ Voices(p4) = {} => Alone(q)
  BY <1>6, <1>8, BeginsOne
<1>13. Ordered(q, n, last)
  BY <1>8, <1>10, <1>11, <1>12, OrderKept
<1>14. \A t \in Sentences : Sounding(p, q, t) => t = s
  BY <1>1, <1>2, <1>5, <1>6, <1>9, <1>12, FadesFades, SoundingThrough
<1>15. ASSUME Tuned(p, last) PROVE Tuned(q, last)
  <2>1. Voices(p) = {s} /\ s \notin p.fetching /\ p.element.of # s
    BY <1>11, <1>15 DEF Tuned, Alone
  <2>2. Voices(p4) = {}
    BY <1>1, <1>10, <2>1
  <2>. QED
    BY <1>8, <1>12, <1>15, <2>1, <2>2 DEF Tuned
<1>. QED
  BY <1>0, <1>8, <1>13, <1>14, <1>15

-----------------------------------------------------------------------------
(* The steps of the page.                                                  *)

\* What a step has to show of the page it leaves.
LEMMA SpeechGoesOn ==
  ASSUME SpeechInv, NEW q, NEW by \in BOOLEAN, SpeechBecomes(q, by),
         queued' \in 0..MaxSentences, sent' \in BOOLEAN,
         q \in Page, Urls(q), Ordered(q, queued', said),
         ~cut /\ ~by => Tuned(q, said),
         ~cut => \A t \in Sentences : Sounding(speech, q, t) => said <= t
  PROVE  SpeechInv' /\ (cut \/ said' >= said)
<1>. USE DEF SpeechInv, SpeechBecomes
<1>1. said' = said \/ \E t \in Sentences : said' = t /\ t \in Voices(q) /\ Sounding(speech, q, t)
  <2>1. CASE q.element.of \in Sentences /\ q.element # speech.element
    BY <2>1 DEF Sounding, Voices
  <2>2. CASE /\ ~(q.element.of \in Sentences /\ q.element # speech.element)
             /\ \E s \in Sentences : q.utter[s] = "started" /\ speech.utter[s] # "started"
    <3>1. said' = CHOOSE s \in Sentences : q.utter[s] = "started" /\ speech.utter[s] # "started"
      BY <2>2
    <3>2. said' \in Sentences /\ q.utter[said'] = "started" /\ speech.utter[said'] # "started"
      BY <2>2, <3>1
    <3>. QED
      BY <3>2 DEF Sounding, Voices
  <2>3. CASE /\ ~(q.element.of \in Sentences /\ q.element # speech.element)
             /\ ~\E s \in Sentences : q.utter[s] = "started" /\ speech.utter[s] # "started"
    BY <2>3
  <2>. QED
    BY <2>1, <2>2, <2>3
<1>2. said' \in 0..MaxSentences
  BY <1>1 DEF SpeechTypeOK, Sentences
<1>3. speech' = q /\ cut' \in BOOLEAN /\ voice' = voice
  OBVIOUS
<1>4. SpeechTypeOK'
  BY <1>2, <1>3 DEF SpeechTypeOK
<1>5. Ordered(q, queued', said')
  BY <1>1 DEF Ordered
<1>6. ~cut' => Tuned(q, said')
  <2>1. CASE Voices(q) = {} /\ ~q.speaking
    BY <2>1 DEF Tuned, Alone, Voices, Page
  <2>2. CASE ~cut /\ ~by
    <3>1. Tuned(q, said)
      BY <2>2
    <3>. HIDE DEF SpeechBecomes, SpeechInv
    <3>. QED
      BY <1>1, <3>1 DEF Tuned, Alone, Sentences
  <2>. QED
    BY <2>1, <2>2
<1>7. cut \/ said' >= said
  <2>1. said \in Int /\ said' \in Int
    BY <1>2 DEF SpeechTypeOK
  <2>2. cut \/ \A t \in Sentences : Sounding(speech, q, t) => said <= t
    OBVIOUS
  <2>. HIDE DEF SpeechBecomes, SpeechInv
  <2>. QED
    BY <1>1, <2>1, <2>2
<1>. QED
  BY <1>3, <1>4, <1>5, <1>6, <1>7

LEMMA SpeechFades ==
  ASSUME SpeechInv, NEW q \in Page, Fades(speech, q), q.queue \in {speech.queue, <<>>}
  PROVE  /\ Ordered(q, queued, said) /\ \A t \in Sentences : ~Sounding(speech, q, t)
         /\ Voices(q) \subseteq Voices(speech)
         /\ ~cut => Alone(q) /\ \A s \in Voices(q) : said <= s
<1>1. /\ speech \in Page /\ Ordered(speech, queued, said)
      /\ ~cut => Alone(speech) /\ \A s \in Voices(speech) : said <= s
  BY DEF SpeechInv, SpeechTypeOK, Tuned
<1>. QED
  BY <1>1, FadesFades, OrderKept, QueueEmptied

\* A page on which nothing is under way, and which knows it.
LEMMA Silent ==
  ASSUME NEW p \in Page, Voices(p) = {}, ~p.speaking, NEW last
  PROVE  Tuned(p, last)
BY DEF Tuned, Alone, Voices, Page

LEMMA MurmurKeeps ==
  ASSUME NEW p \in Page
  PROVE  /\ Murmur(p) \in Page /\ Keeps(p, Murmur(p)) /\ Quietly(p, Murmur(p))
         /\ Urls(p) => Urls(Murmur(p))
<1> DEFINE q == CancelSpeech(p)
<1>1. q \in Page /\ Keeps(p, q) /\ Quietly(p, q) /\ (Urls(p) => Urls(q))
  BY CancelSpeechKeeps
<1>2. Murmur(p) = [q EXCEPT !.kind = "filler", !.filler = "browser"]
  BY DEF Murmur
<1>. HIDE DEF q
<1>3. Murmur(p) \in Page
  BY <1>1, <1>2 DEF Page
<1>4. Keeps(q, Murmur(p)) /\ Quietly(q, Murmur(p)) /\ (Urls(q) => Urls(Murmur(p)))
  BY <1>1, <1>2 DEF Page, Keeps, Quietly, Urls
<1>. QED
  BY <1>1, <1>3, <1>4, QuietlyTwice

LEMMA GivesUpKeeps ==
  ASSUME NEW p \in Page, Urls(p)
  PROVE  /\ GivesUp(p) \in Page /\ Urls(GivesUp(p))
         /\ Keeps(p, GivesUp(p)) /\ Quietly(p, GivesUp(p))
<1> DEFINE q == Revoke(p, p.active)
<1>1. p.active \in 0..MaxUrls /\ (p.active = p.held.url => p.active = NoUrl)
  BY DEF Page, Urls
<1>2. q \in Page /\ Urls(q) /\ Keeps(p, q) /\ Quietly(p, q)
  BY <1>1, RevokeKeeps
<1>3. GivesUp(p) = IF voice = "explicit" THEN [q EXCEPT !.kind = "none"] ELSE Murmur(q)
  BY DEF GivesUp
<1>. HIDE DEF q
<1>4. CASE voice = "explicit"
  <2>1. LET r == [q EXCEPT !.kind = "none"] IN r \in Page /\ Urls(r) /\ Keeps(q, r) /\ Quietly(q, r)
    BY <1>2 DEF Page, Urls, Keeps, Quietly
  <2>. QED
    BY <1>2, <1>3, <1>4, <2>1, QuietlyTwice
<1>5. CASE voice # "explicit"
  BY <1>2, <1>3, <1>5, MurmurKeeps, QuietlyTwice
<1>. QED
  BY <1>4, <1>5

LEMMA StopAllKeeps ==
  ASSUME NEW p \in Page, Urls(p)
  PROVE  /\ StopAll(p) \in Page /\ Urls(StopAll(p)) /\ Quietly(p, StopAll(p))
         /\ StopAll(p).queue = <<>> /\ ~StopAll(p).speaking
<1> DEFINE p1 == CancelSpeech(Outdate(p))
           p2 == Revoke(p1, p.active)
           p3 == Revoke(p2, p2.held.url)
           p4 == [p3 EXCEPT !.held = NothingHeld]
           q == [p4 EXCEPT !.queue = <<>>, !.speaking = FALSE, !.kind = "none", !.element = NothingPlays]
<1>0. StopAll(p) = q
  BY DEF StopAll, RevokeHeld
<1>1. p1 \in Page /\ Urls(p1) /\ Quietly(p, p1) /\ Keeps(p, p1) /\ p1.active = p.active
  BY OutdateKeeps, CancelSpeechKeeps, QuietlyTwice
<1>. HIDE DEF p1
<1>2. p.active \in 0..MaxUrls /\ (p.active = p1.held.url => p.active = NoUrl)
  BY <1>1 DEF Page, Urls
<1>3. p2 \in Page /\ Urls(p2) /\ Quietly(p1, p2) /\ Keeps(p1, p2) /\ p2.active = NoUrl
  BY <1>1, <1>2, RevokeKeeps
<1>. HIDE DEF p2
<1>4. p2.held.url \in 0..MaxUrls
  BY <1>3 DEF Page
<1>5. /\ p3 \in Page /\ Quietly(p2, p3) /\ Keeps(p2, p3) /\ p3.live = p2.live \ {p2.held.url}
      /\ p3.active = NoUrl /\ p3.element = p2.element
  BY <1>3, <1>4, RevokeKeeps
<1>6. p3.live = {}
  BY <1>3, <1>5 DEF Urls
<1>. HIDE DEF p3
<1>7. NothingHeld \in [text : Sentences \cup {NoSentence}, url : 0..MaxUrls] /\ NothingHeld.url = NoUrl
  BY SpeechBounds DEF NothingHeld, NoUrl
<1>8. p4 \in Page /\ p4.held = NothingHeld /\ Quietly(p3, p4) /\ p4.live = {} /\ p4.active = NoUrl
      /\ p4.made = p3.made /\ p4.element = p3.element
  BY <1>5, <1>6, <1>7 DEF Page, Quietly
<1>. HIDE DEF p4
<1>9. NothingPlays \in [of : 0..Filler, url : 0..MaxUrls] /\ <<>> \in Seq(Sentences)
  BY SpeechBounds DEF NothingPlays, NoSentence, NoUrl, Filler
<1>10. q \in Page
  BY <1>8, <1>9 DEF Page
<1>11. /\ q.queue = <<>> /\ ~q.speaking /\ q.element = NothingPlays /\ q.fetching = p4.fetching /\ q.utter = p4.utter
       /\ q.live = {} /\ q.active = NoUrl /\ q.held = NothingHeld /\ q.made \in Nat
  BY <1>8, SpeechBounds DEF Page
<1>. HIDE DEF q
<1>12. Urls(q)
  BY <1>7, <1>11 DEF Urls, NothingPlays, NoUrl
<1>13. Quietly(p, q)
  BY <1>1, <1>3, <1>5, <1>8, <1>11 DEF Quietly
<1>. QED
  BY <1>0, <1>10, <1>11, <1>12, <1>13

LEMMA MadeKeeps ==
  ASSUME NEW p \in Page, p.made < MaxUrls
  PROVE  /\ Made(p) \in Page /\ Made(p).made = p.made + 1 /\ Made(p).live = p.live \cup {p.made + 1}
         /\ Made(p).queue = p.queue /\ Made(p).speaking = p.speaking /\ Made(p).held = p.held
         /\ Made(p).active = p.active /\ Made(p).element = p.element
         /\ Made(p).fetching = p.fetching /\ Made(p).utter = p.utter
<1> DEFINE made == p.made + 1
           live == p.live \cup {p.made + 1}
<1>1. made \in 0..MaxUrls /\ live \in SUBSET (1..MaxUrls)
  BY SpeechBounds DEF Page
<1>2. Made(p) = [p EXCEPT !.made = made, !.live = live]
  BY DEF Made
<1>. HIDE DEF made, live
<1>. QED
  BY <1>1, <1>2 DEF Page, made, live

\* What every step has to show: the invariant, and that what sounds goes forward.
SpeechGoal == SpeechInv' /\ (cut \/ said' >= said)

\* A quiet step that leaves the queue, and the page speaking as before.
LEMMA QuietStep ==
  ASSUME SpeechInv, NEW q \in Page, NEW by \in BOOLEAN, SpeechBecomes(q, by),
         Urls(q), Quietly(speech, q), q.queue = speech.queue, q.speaking = speech.speaking,
         speech.element.of \in Sentences => q.element = speech.element,
         queued' = queued, sent' \in BOOLEAN
  PROVE  SpeechGoal
<1>1. speech \in Page /\ queued \in 0..MaxSentences
  BY DEF SpeechInv, SpeechTypeOK
<1>2. Fades(speech, q)
  BY <1>1, QuietlyFades
<1>3. Voices(q) = Voices(speech)
  BY <1>1 DEF Quietly, Voices, NothingPlays, NoSentence, Sentences
<1>4. Ordered(q, queued, said) /\ \A t \in Sentences : ~Sounding(speech, q, t)
  BY <1>2, SpeechFades
<1>5. ~cut => Tuned(q, said)
  BY <1>2, <1>3, SpeechFades DEF Tuned, SpeechInv
<1>. QED
  BY <1>1, <1>4, <1>5, SpeechGoesOn DEF SpeechGoal

LEMMA QueuesStep ==
  ASSUME SpeechInv, Queues
  PROVE  SpeechGoal
<1> DEFINE p == [speech EXCEPT !.queue = Append(@, queued')]
<1>1. /\ speech \in Page /\ Urls(speech) /\ Ordered(speech, queued, said) /\ (~cut => Tuned(speech, said))
      /\ queued \in 0..MaxSentences /\ queued' = queued + 1 /\ queued' \in Sentences /\ sent' = sent /\ sent \in BOOLEAN
      /\ said \in Nat
  BY SpeechBounds DEF SpeechInv, SpeechTypeOK, Queues, Sentences
<1>2. speech.queue \in Seq(Sentences)
  BY <1>1 DEF Page
<1>3. Append(speech.queue, queued') \in Seq(Sentences)
  BY <1>1, <1>2, AppendProperties
<1>4. /\ p \in Page /\ Urls(p) /\ p.queue = Append(speech.queue, queued') /\ p.fetching = speech.fetching
      /\ p.utter = speech.utter /\ p.element = speech.element /\ p.speaking = speech.speaking
  BY <1>1, <1>3 DEF Page, Urls
<1>5. SpeechBecomes(SpeakNext(p), FALSE)
  BY DEF Queues
<1>. HIDE DEF p
<1>6. Voices(p) = Voices(speech)
  BY <1>4 DEF Voices
<1>7. Ordered(p, queued', said)
  <2>1. said <= queued' /\ \A t \in Voices(p) : t <= queued'
    BY <1>1, <1>6 DEF Ordered, Voices, Page, Sentences
  <2>2. ASSUME NEW k \in DOMAIN p.queue
        PROVE  /\ p.queue[k] <= queued' /\ said < p.queue[k]
               /\ \A t \in Voices(p) : t < p.queue[k]
               /\ \A j \in DOMAIN p.queue : k < j => p.queue[k] < p.queue[j]
    <3>1. /\ Len(speech.queue) \in Nat /\ DOMAIN speech.queue = 1..Len(speech.queue)
          /\ DOMAIN p.queue = 1..(Len(speech.queue) + 1)
          /\ p.queue[Len(speech.queue) + 1] = queued'
          /\ \A j \in 1..Len(speech.queue) : p.queue[j] = speech.queue[j] /\ p.queue[j] \in Sentences
      BY <1>1, <1>2, <1>3, <1>4, AppendProperties, LenProperties, ElementOfSeq
    <3>0. \A j \in 1..Len(speech.queue) :
             /\ speech.queue[j] <= queued /\ said < speech.queue[j]
             /\ \A t \in Voices(p) : t < speech.queue[j]
             /\ \A l \in 1..Len(speech.queue) : j < l => speech.queue[j] < speech.queue[l]
      BY <1>1, <1>6, <3>1 DEF Ordered
    <3>2. ASSUME NEW j \in 1..Len(speech.queue) PROVE p.queue[j] < queued'
      <4>1. p.queue[j] \in Int /\ p.queue[j] <= queued
        BY <3>0, <3>1 DEF Sentences
      <4>2. queued \in Int /\ queued' = queued + 1
        BY <1>1
      <4>. QED
        BY <4>1, <4>2
    <3>3. \A t \in Voices(p) : t < queued'
      <4>1. Voices(speech) \subseteq Sentences
        BY <1>1 DEF Voices, Page
      <4>2. \A t \in Voices(speech) : t <= queued
        BY <1>1 DEF Ordered
      <4>. QED
        BY <1>1, <1>6, <4>1, <4>2 DEF Sentences
    <3>4. CASE k = Len(speech.queue) + 1
      <4>1. p.queue[k] = queued' /\ \A j \in DOMAIN p.queue : ~(k < j)
        BY <3>1, <3>4
      <4>2. said < queued'
        BY <1>1 DEF Ordered
      <4>. QED
        BY <1>1, <3>3, <4>1, <4>2 DEF Sentences
    <3>5. CASE k \in 1..Len(speech.queue)
      <4>1. p.queue[k] = speech.queue[k] /\ p.queue[k] \in Sentences
        BY <3>1, <3>5
      <4>2. p.queue[k] <= queued' /\ said < p.queue[k] /\ \A t \in Voices(p) : t < p.queue[k]
        BY <1>1, <3>0, <3>5, <4>1 DEF Sentences
      <4>3. ASSUME NEW j \in DOMAIN p.queue, k < j PROVE p.queue[k] < p.queue[j]
        <5>1. CASE j = Len(speech.queue) + 1
          BY <3>1, <3>2, <3>5, <5>1
        <5>2. CASE j \in 1..Len(speech.queue)
          BY <3>0, <3>1, <3>5, <4>3, <5>2
        <5>. QED
          BY <3>1, <5>1, <5>2
      <4>. QED
        BY <4>2, <4>3
    <3>. QED
      BY <3>1, <3>4, <3>5
  <2>. QED
    BY <2>1, <2>2 DEF Ordered
<1>8. Tuned(speech, said) => Tuned(p, said)
  BY <1>4, <1>6 DEF Tuned, Alone
<1>9. \A q : \A t : Sounding(speech, q, t) => Sounding(p, q, t)
  BY <1>4 DEF Sounding
<1> DEFINE q == SpeakNext(p)
<1>10. /\ q \in Page /\ Urls(q) /\ Ordered(q, queued', said) /\ (Tuned(p, said) => Tuned(q, said))
       /\ \A t \in Sentences : Sounding(p, q, t) => said <= t
  BY <1>1, <1>4, <1>7, SpeakNextSound DEF Sentences
<1>11. SpeechBecomes(q, FALSE)
  BY <1>5
<1>. HIDE DEF q
<1>12. (~cut => Tuned(q, said)) /\ \A t \in Sentences : Sounding(speech, q, t) => said <= t
  BY <1>1, <1>8, <1>9, <1>10
<1>13. queued' \in 0..MaxSentences
  BY <1>1, SpeechBounds DEF Sentences
<1>. QED
  BY <1>1, <1>10, <1>11, <1>12, <1>13, SpeechGoesOn DEF SpeechGoal

LEMMA SpeechFacts ==
  ASSUME SpeechInv
  PROVE  /\ speech \in Page /\ Urls(speech) /\ Ordered(speech, queued, said)
         /\ ~cut => Tuned(speech, said)
         /\ queued \in 0..MaxSentences /\ queued \in Nat /\ said \in Nat
         /\ sent \in BOOLEAN /\ HasVoices \in BOOLEAN
BY DEF SpeechInv, SpeechTypeOK, HasVoices

\* A step on which no voice is added.
LEMMA FadeStep ==
  ASSUME SpeechInv, NEW q \in Page, NEW by \in BOOLEAN, SpeechBecomes(q, by),
         Urls(q), Fades(speech, q), q.queue \in {speech.queue, <<>>},
         ~cut /\ ~by => (q.speaking <=> Voices(q) # {}),
         queued' = queued, sent' \in BOOLEAN
  PROVE  SpeechGoal
<1>1. queued' \in 0..MaxSentences
  BY SpeechFacts
<1>2. Ordered(q, queued', said) /\ \A t \in Sentences : ~Sounding(speech, q, t)
  BY SpeechFades
<1>3. ~cut /\ ~by => Tuned(q, said)
  BY SpeechFades DEF Tuned
<1>. QED
  BY <1>1, <1>2, <1>3, SpeechGoesOn DEF SpeechGoal

LEMMA TurnSentStep ==
  ASSUME SpeechInv, TurnSent
  PROVE  SpeechGoal
<1> DEFINE p == [speech EXCEPT !.begun = FALSE]
<1>1. speech \in Page /\ Urls(speech)
  BY SpeechFacts
<1>2. p \in Page /\ Urls(p) /\ Quietly(speech, p) /\ Keeps(speech, p) /\ p.element = speech.element
  BY <1>1 DEF Page, Urls, Quietly, Keeps
<1>3. SpeechBecomes(Outdate(p), FALSE) /\ sent' \in BOOLEAN /\ queued' = queued
  BY DEF TurnSent
<1>. HIDE DEF p
<1>4. Outdate(p) \in Page /\ Urls(Outdate(p)) /\ Quietly(speech, Outdate(p)) /\ Keeps(speech, Outdate(p))
      /\ Outdate(p).element = speech.element
  BY <1>2, OutdateKeeps, QuietlyTwice
<1>. QED
  BY <1>3, <1>4, QuietStep DEF Keeps

LEMMA AnswerBeginsStep ==
  ASSUME SpeechInv, AnswerBegins
  PROVE  SpeechGoal
<1> DEFINE q == [speech EXCEPT !.queue = <<>>, !.speaking = FALSE]
<1>1. speech \in Page /\ Urls(speech) /\ HasVoices \in BOOLEAN
  BY SpeechFacts
<1>2. <<>> \in Seq(Sentences)
  OBVIOUS
<1>3. q \in Page /\ Urls(q) /\ Quietly(speech, q) /\ q.queue = <<>> /\ ~q.speaking
  BY <1>1, <1>2 DEF Page, Urls, Quietly
<1>4. SpeechBecomes(q, HasVoices) /\ sent' \in BOOLEAN /\ queued' = queued
  BY DEF AnswerBegins
<1>. HIDE DEF q
<1>5. Fades(speech, q) /\ (~HasVoices => Voices(q) = {})
  BY <1>1, <1>3, QuietlyFades DEF HasVoices
<1>. QED
  BY <1>1, <1>3, <1>4, <1>5, FadeStep

LEMMA StopsStep ==
  ASSUME SpeechInv, Stops
  PROVE  SpeechGoal
<1> DEFINE q == StopAll(speech)
<1>1. speech \in Page /\ Urls(speech) /\ HasVoices \in BOOLEAN /\ sent \in BOOLEAN
  BY SpeechFacts
<1>2. q \in Page /\ Urls(q) /\ Quietly(speech, q) /\ q.queue = <<>> /\ ~q.speaking
  BY <1>1, StopAllKeeps
<1>3. SpeechBecomes(q, HasVoices) /\ sent' \in BOOLEAN /\ queued' = queued
  BY <1>1 DEF Stops
<1>. HIDE DEF q
<1>4. Fades(speech, q) /\ (~HasVoices => Voices(q) = {})
  BY <1>1, <1>2, QuietlyFades DEF HasVoices
<1>. QED
  BY <1>1, <1>2, <1>3, <1>4, FadeStep

LEMMA FillerBeginsStep ==
  ASSUME SpeechInv, FillerBegins
  PROVE  SpeechGoal
<1> DEFINE q == [speech EXCEPT !.kind = "filler", !.filler = "fetching"]
<1>1. speech \in Page /\ Urls(speech) /\ HasVoices \in BOOLEAN /\ sent \in BOOLEAN
  BY SpeechFacts
<1>2. q \in Page /\ Urls(q) /\ Quietly(speech, q) /\ Keeps(speech, q)
  BY <1>1 DEF Page, Urls, Quietly, Keeps
<1>3. Murmur(speech) \in Page /\ Urls(Murmur(speech)) /\ Quietly(speech, Murmur(speech)) /\ Keeps(speech, Murmur(speech))
  BY <1>1, MurmurKeeps
<1>4. (SpeechBecomes(Murmur(speech), HasVoices) \/ SpeechBecomes(q, HasVoices)) /\ sent' \in BOOLEAN /\ queued' = queued
      /\ ~speech.speaking
  BY <1>1 DEF FillerBegins
<1>. HIDE DEF q
<1>5. ASSUME NEW r \in Page, Urls(r), Quietly(speech, r), Keeps(speech, r), SpeechBecomes(r, HasVoices)
      PROVE  SpeechGoal
  <2>1. Fades(speech, r) /\ (~HasVoices => Voices(r) = {})
    BY <1>1, <1>5, QuietlyFades DEF HasVoices
  <2>. QED
    BY <1>1, <1>4, <1>5, <2>1, FadeStep DEF Keeps
<1>. QED
  BY <1>2, <1>3, <1>4, <1>5

LEMMA FetchedStep ==
  ASSUME SpeechInv, NEW s \in Sentences, Fetched(s)
  PROVE  SpeechGoal
<1> DEFINE p1 == [speech EXCEPT !.fetching = @ \ {s}]
           p == Made(p1)
           q == Play(p, s, p.made)
           by == speech.element.of \in Sentences
<1>1. /\ speech \in Page /\ Urls(speech) /\ sent \in BOOLEAN /\ Ordered(speech, queued, said)
      /\ ~cut => Tuned(speech, said)
      /\ queued \in 0..MaxSentences
  BY SpeechFacts
<1>2. s \in speech.fetching /\ speech.made < MaxUrls /\ sent' = sent /\ queued' = queued /\ SpeechBecomes(q, by)
  BY DEF Fetched
<1>3. /\ p1 \in Page /\ Urls(p1) /\ p1.made = speech.made /\ p1.fetching = speech.fetching \ {s} /\ p1.utter = speech.utter
      /\ p1.element = speech.element /\ p1.queue = speech.queue /\ p1.speaking = speech.speaking
  BY <1>1 DEF Page, Urls
<1>. HIDE DEF p1
<1>4. /\ p \in Page /\ p.made = p1.made + 1 /\ p.live = p1.live \cup {p1.made + 1}
      /\ p.queue = p1.queue /\ p.speaking = p1.speaking /\ p.held = p1.held
      /\ p.active = p1.active /\ p.element = p1.element
      /\ p.fetching = p1.fetching /\ p.utter = p1.utter
  BY <1>2, <1>3, MadeKeeps
<1>. HIDE DEF p
<1>5. p.made \in 0..MaxUrls /\ p1.made \in Nat /\ p1.active \in Nat /\ p1.held.url \in Nat /\ s \in 1..Filler
  BY <1>3, <1>4, SpeechBounds DEF Page, Sentences, Filler
<1>6. /\ p.live = {p.active, p.held.url, p.made} \ {NoUrl}
      /\ p.active <= p.made /\ p.held.url <= p.made /\ p.made <= p.made
      /\ p.made # NoUrl => p.made \notin {p.active, p.held.url}
      /\ p.held.url # NoUrl => p.held.url # p.active
  BY <1>3, <1>4, <1>5 DEF Urls, NoUrl
<1>7. /\ q \in Page /\ Urls(q) /\ Keeps(p, q) /\ q.element = [of |-> s, url |-> p.made]
      /\ q.fetching = p.fetching /\ q.utter = p.utter
  BY <1>4, <1>5, <1>6, PlayPlays
<1>. HIDE DEF q
<1>8. /\ q.fetching = speech.fetching \ {s} /\ q.utter = speech.utter /\ q.element.of = s
      /\ q.queue = speech.queue /\ q.speaking = speech.speaking
  BY <1>3, <1>4, <1>7 DEF Keeps
<1>9. Voices(q) \subseteq Voices(speech) /\ s \in Voices(q)
  BY <1>2, <1>8 DEF Voices
<1>10. Ordered(q, queued, said)
  BY <1>1, <1>8, <1>9, OrderKept
<1>11. \A t \in Sentences : Sounding(speech, q, t) => t = s
  BY <1>8 DEF Sounding
<1>12. ~cut => Tuned(q, said)
  BY <1>1, <1>2, <1>8, <1>9 DEF Tuned, Alone, Page
<1>13. ~cut => \A t \in Sentences : Sounding(speech, q, t) => said <= t
  BY <1>1, <1>9, <1>11 DEF Tuned
<1>14. by \in BOOLEAN
  OBVIOUS
<1>. HIDE DEF by
<1>. QED
  BY <1>1, <1>2, <1>7, <1>10, <1>12, <1>13, <1>14, SpeechGoesOn DEF SpeechGoal

LEMMA FetchFailsStep ==
  ASSUME SpeechInv, NEW s \in Sentences, FetchFails(s)
  PROVE  SpeechGoal
<1> DEFINE p1 == [speech EXCEPT !.fetching = @ \ {s}]
           p == Idle(p1)
           r == Revoke(p, p.active)
           by == Cardinality(Voices(speech)) > 1
<1>1. /\ speech \in Page /\ Urls(speech) /\ sent \in BOOLEAN
      /\ ~cut => Tuned(speech, said)
  BY SpeechFacts
<1>2. s \in speech.fetching /\ sent' = sent /\ queued' = queued /\ (SpeechBecomes(p, by) \/ SpeechBecomes(r, by))
  BY DEF FetchFails
<1>3. /\ p1 \in Page /\ Urls(p1) /\ p1.fetching = speech.fetching \ {s} /\ p1.utter = speech.utter
      /\ p1.element = speech.element /\ p1.queue = speech.queue
  BY <1>1 DEF Page, Urls
<1>. HIDE DEF p1
<1>4. p \in Page /\ Urls(p) /\ Quietly(p1, p) /\ p.queue = p1.queue /\ ~p.speaking /\ p.element = p1.element
  BY <1>3, IdleKeeps DEF Idle, Page
<1>. HIDE DEF p
<1>5. p.active \in 0..MaxUrls /\ (p.active = p.held.url => p.active = NoUrl)
  BY <1>4 DEF Page, Urls
<1>6. r \in Page /\ Urls(r) /\ Quietly(p, r) /\ Keeps(p, r) /\ r.element = p.element
  BY <1>4, <1>5, RevokeKeeps
<1>. HIDE DEF r
<1>7. by \in BOOLEAN
  OBVIOUS
<1>. HIDE DEF by
<1>8. ASSUME NEW q \in Page, Urls(q), q.queue = speech.queue, ~q.speaking, q.fetching = p1.fetching, q.element = p1.element,
             \A t \in Sentences : /\ q.utter[t] = "none" <=> p1.utter[t] = "none"
                                  /\ q.utter[t] = "started" => p1.utter[t] = "started",
             SpeechBecomes(q, by)
      PROVE  SpeechGoal
  <2>1. Fades(speech, q)
    BY <1>3, <1>8 DEF Fades
  <2>2. ~cut => Voices(q) = {}
    BY <1>1, <1>2, <1>3, <1>8 DEF Tuned, Alone, Voices
  <2>. QED
    BY <1>1, <1>2, <1>7, <1>8, <2>1, <2>2, FadeStep
<1>9. /\ p.queue = speech.queue /\ ~p.speaking /\ p.fetching = p1.fetching /\ p.element = p1.element
      /\ \A t \in Sentences : /\ p.utter[t] = "none" <=> p1.utter[t] = "none"
                              /\ p.utter[t] = "started" => p1.utter[t] = "started"
  BY <1>3, <1>4 DEF Quietly
<1>10. /\ r.queue = speech.queue /\ ~r.speaking /\ r.fetching = p1.fetching /\ r.element = p1.element
       /\ \A t \in Sentences : /\ r.utter[t] = "none" <=> p1.utter[t] = "none"
                               /\ r.utter[t] = "started" => p1.utter[t] = "started"
  BY <1>6, <1>9 DEF Quietly, Keeps
<1>. QED
  BY <1>2, <1>4, <1>6, <1>8, <1>9, <1>10

LEMMA AheadFailsKeeps ==
  ASSUME NEW p \in Page, NEW s \in Sentences, p.ahead[s] > 0
  PROVE  LET q == [p EXCEPT !.ahead[s] = @ - 1]
         IN /\ q \in Page /\ Quietly(p, q) /\ Keeps(p, q) /\ (Urls(p) => Urls(q))
            /\ q.element = p.element /\ q.made = p.made /\ q.live = p.live /\ q.active = p.active
<1> DEFINE ahead == [p.ahead EXCEPT ![s] = @ - 1]
           q == [p EXCEPT !.ahead = ahead]
<1>1. ahead \in [Sentences -> 0..MaxAhead]
  <2>1. p.ahead \in [Sentences -> 0..MaxAhead]
    BY DEF Page
  <2>2. p.ahead[s] - 1 \in 0..MaxAhead
    BY <2>1, SpeechBounds
  <2>. QED
    BY <2>1, <2>2
<1>2. [p EXCEPT !.ahead[s] = @ - 1] = q
  BY DEF Page
<1>. HIDE DEF ahead
<1>3. q \in Page
  BY <1>1 DEF Page
<1>4. /\ Quietly(p, q) /\ Keeps(p, q) /\ (Urls(p) => Urls(q))
      /\ q.element = p.element /\ q.made = p.made /\ q.live = p.live /\ q.active = p.active
  BY <1>1 DEF Page, Quietly, Keeps, Urls
<1>. QED
  BY <1>2, <1>3, <1>4

LEMMA AheadFailsStep ==
  ASSUME SpeechInv, NEW s \in Sentences, AheadFails(s)
  PROVE  SpeechGoal
<1> DEFINE q == [speech EXCEPT !.ahead[s] = @ - 1]
<1>1. speech \in Page /\ Urls(speech) /\ sent \in BOOLEAN
  BY SpeechFacts
<1>2. speech.ahead[s] > 0 /\ SpeechBecomes(q, FALSE) /\ sent' = sent /\ queued' = queued
  BY DEF AheadFails
<1>3. q \in Page /\ Quietly(speech, q) /\ Keeps(speech, q) /\ Urls(q) /\ q.element = speech.element
  BY <1>1, <1>2, AheadFailsKeeps
<1>. HIDE DEF q
<1>. QED
  BY <1>1, <1>2, <1>3, QuietStep DEF Keeps

LEMMA FetchedAheadStep ==
  ASSUME SpeechInv, NEW s \in Sentences, FetchedAhead(s)
  PROVE  SpeechGoal
<1> DEFINE p1 == [speech EXCEPT !.ahead[s] = @ - 1]
           p2 == Revoke(p1, p1.held.url)
           p3 == [p2 EXCEPT !.held = NothingHeld]
           p == Made(p3)
           held == [text |-> s, url |-> p.made]
           q == [p EXCEPT !.held = held]
<1>1. speech \in Page /\ Urls(speech) /\ sent \in BOOLEAN
  BY SpeechFacts
<1>2. speech.ahead[s] > 0 /\ SpeechBecomes(q, FALSE) /\ sent' = sent /\ queued' = queued /\ speech.made < MaxUrls
  BY DEF FetchedAhead, RevokeHeld
<1>3. p1 \in Page /\ Quietly(speech, p1) /\ Keeps(speech, p1) /\ Urls(p1) /\ p1.element = speech.element
  BY <1>1, <1>2, AheadFailsKeeps
<1>. HIDE DEF p1
<1>4. p1.held.url \in 0..MaxUrls
  BY <1>3 DEF Page
<1>5. /\ p2 \in Page /\ Quietly(p1, p2) /\ Keeps(p1, p2) /\ p2.live = p1.live \ {p1.held.url}
      /\ p2.active = (IF p1.active = p1.held.url THEN NoUrl ELSE p1.active) /\ p2.element = p1.element
  BY <1>3, <1>4, RevokeKeeps
<1>6. p2.live = {p2.active} \ {NoUrl} /\ p2.active <= p2.made /\ p2.element.url <= p2.made
      /\ (p2.element.of = NoSentence => p2.element = NothingPlays)
  BY <1>3, <1>5 DEF Urls, Keeps, NoUrl, Page
<1>. HIDE DEF p2
<1>7. NothingHeld \in [text : Sentences \cup {NoSentence}, url : 0..MaxUrls]
  BY SpeechBounds DEF NothingHeld, NoUrl
<1>8. /\ p3 \in Page /\ p3.live = p2.live /\ p3.active = p2.active /\ p3.made = p2.made /\ p3.element = p2.element
      /\ p3.queue = p2.queue /\ p3.speaking = p2.speaking /\ p3.fetching = p2.fetching /\ p3.utter = p2.utter
  BY <1>5, <1>7 DEF Page
<1>. HIDE DEF p3
<1>9. p3.made < MaxUrls
  BY <1>2, <1>3, <1>5, <1>8 DEF Keeps
<1>10. /\ p \in Page /\ p.made = p3.made + 1 /\ p.live = p3.live \cup {p3.made + 1}
       /\ p.queue = p3.queue /\ p.speaking = p3.speaking
       /\ p.active = p3.active /\ p.element = p3.element
       /\ p.fetching = p3.fetching /\ p.utter = p3.utter
  BY <1>8, <1>9, MadeKeeps
<1>. HIDE DEF p
<1>11. held \in [text : Sentences \cup {NoSentence}, url : 0..MaxUrls] /\ held.url = p.made
  BY <1>10 DEF Page
<1>. HIDE DEF held
<1>12. /\ q \in Page /\ q.held = held /\ q.live = p.live /\ q.active = p.active /\ q.made = p.made
       /\ q.element = p.element /\ q.queue = p.queue /\ q.speaking = p.speaking
       /\ q.fetching = p.fetching /\ q.utter = p.utter
  BY <1>10, <1>11 DEF Page
<1>. HIDE DEF q
<1>13. p3.made \in Nat /\ p3.active \in Nat /\ p3.element.url \in Nat
  BY <1>8, SpeechBounds DEF Page
<1>14. Urls(q)
  BY <1>6, <1>8, <1>10, <1>11, <1>12, <1>13 DEF Urls, NoUrl
<1>15. Quietly(speech, q) /\ q.queue = speech.queue /\ q.speaking = speech.speaking /\ q.element = speech.element
  BY <1>3, <1>5, <1>8, <1>10, <1>12 DEF Quietly, Keeps
<1>. QED
  BY <1>1, <1>2, <1>12, <1>14, <1>15, QuietStep

\* The browser's speech is quiet as well.
LEMMA AfterFiller ==
  ASSUME SpeechInv, NEW p \in Page, NEW q \in Page, Quietly(speech, p), Keeps(speech, p),
         Quietly(p, q), Keeps(p, q), Urls(q), speech.element.of \in Sentences => q.element = speech.element,
         NEW by \in BOOLEAN, SpeechBecomes(q, by), queued' = queued, sent' = sent
  PROVE  SpeechGoal
<1>1. Quietly(speech, q) /\ Keeps(speech, q)
  BY QuietlyTwice
<1>. QED
  BY <1>1, SpeechFacts, QuietStep DEF Keeps

LEMMA GivesUpElement ==
  ASSUME NEW p \in Page
  PROVE  GivesUp(p).element = p.element /\ Murmur(p).element = p.element
<1>1. p.active \in 0..MaxUrls
  BY DEF Page
<1> DEFINE q == Revoke(p, p.active)
<1>2. q \in Page /\ q.element = p.element
  BY <1>1, RevokeKeeps
<1>3. \A r \in Page : Murmur(r).element = r.element
  <2>1. ASSUME NEW r \in Page PROVE Murmur(r).element = r.element
    <3> DEFINE c == CancelSpeech(r)
    <3>1. c \in Page /\ c.element = r.element
      BY CancelSpeechKeeps
    <3>2. Murmur(r) = [c EXCEPT !.kind = "filler", !.filler = "browser"]
      BY DEF Murmur
    <3>. HIDE DEF c
    <3>. QED
      BY <3>1, <3>2 DEF Page
  <2>. QED
    BY <2>1
<1>4. GivesUp(p) = IF voice = "explicit" THEN [q EXCEPT !.kind = "none"] ELSE Murmur(q)
  BY DEF GivesUp
<1>. HIDE DEF q
<1>5. [q EXCEPT !.kind = "none"].element = q.element
  BY <1>2 DEF Page
<1>. QED
  BY <1>2, <1>3, <1>4, <1>5

LEMMA FillerFailsStep ==
  ASSUME SpeechInv, FillerFails
  PROVE  SpeechGoal
<1> DEFINE p == [speech EXCEPT !.filler = "none"]
<1>1. speech \in Page /\ Urls(speech) /\ HasVoices \in BOOLEAN
  BY SpeechFacts
<1>2. p \in Page /\ Quietly(speech, p) /\ Keeps(speech, p) /\ Urls(p) /\ p.element = speech.element
  BY <1>1 DEF Page, Quietly, Keeps, Urls
<1>3. (SpeechBecomes(p, FALSE) \/ SpeechBecomes(GivesUp(p), HasVoices)) /\ queued' = queued /\ sent' = sent
  BY DEF FillerFails
<1>. HIDE DEF p
<1>4. CASE SpeechBecomes(p, FALSE)
  BY <1>1, <1>2, <1>3, <1>4, SpeechFacts, QuietStep DEF Keeps
<1>5. CASE SpeechBecomes(GivesUp(p), HasVoices)
  BY <1>1, <1>2, <1>3, <1>5, GivesUpKeeps, GivesUpElement, AfterFiller
<1>. QED
  BY <1>3, <1>4, <1>5

LEMMA FillerRefusedStep ==
  ASSUME SpeechInv, FillerRefused
  PROVE  SpeechGoal
<1> DEFINE p == [speech EXCEPT !.element = NothingPlays]
<1>1. speech \in Page /\ Urls(speech) /\ HasVoices \in BOOLEAN
  BY SpeechFacts
<1>2. NothingPlays \in [of : 0..Filler, url : 0..MaxUrls]
  BY SpeechBounds DEF NothingPlays, NoSentence, NoUrl, Filler
<1>3. p \in Page /\ Quietly(speech, p) /\ Keeps(speech, p)
  BY <1>1, <1>2 DEF Page, Quietly, Keeps
<1>4. Urls(p)
  BY <1>1, <1>2 DEF Page, Urls, NothingPlays, NoUrl
<1>5. SpeechBecomes(GivesUp(p), HasVoices) /\ queued' = queued /\ sent' = sent /\ speech.element.of \notin Sentences
  BY SpeechBounds DEF FillerRefused, Filler, Sentences
<1>. HIDE DEF p
<1>. QED
  BY <1>1, <1>3, <1>4, <1>5, GivesUpKeeps, AfterFiller

LEMMA FillerUnavailableStep ==
  ASSUME SpeechInv, FillerUnavailable
  PROVE  SpeechGoal
<1> DEFINE p == [speech EXCEPT !.filler = "none", !.kind = "none"]
           q == [speech EXCEPT !.filler = "none", !.mode = "browser"]
<1>1. speech \in Page /\ Urls(speech) /\ HasVoices \in BOOLEAN
  BY SpeechFacts
<1>2. p \in Page /\ Quietly(speech, p) /\ Keeps(speech, p) /\ Urls(p) /\ p.element = speech.element
  BY <1>1 DEF Page, Quietly, Keeps, Urls
<1>3. q \in Page /\ Quietly(speech, q) /\ Keeps(speech, q) /\ Urls(q) /\ q.element = speech.element
  BY <1>1 DEF Page, Quietly, Keeps, Urls
<1>4. (SpeechBecomes(p, HasVoices) \/ SpeechBecomes(Murmur(q), HasVoices)) /\ queued' = queued /\ sent' = sent
  BY DEF FillerUnavailable
<1>. HIDE DEF p, q
<1>5. CASE SpeechBecomes(p, HasVoices)
  BY <1>1, <1>2, <1>4, <1>5, SpeechFacts, QuietStep DEF Keeps
<1>6. CASE SpeechBecomes(Murmur(q), HasVoices)
  BY <1>1, <1>3, <1>4, <1>6, MurmurKeeps, GivesUpElement, AfterFiller
<1>. QED
  BY <1>4, <1>5, <1>6

LEMMA FillerFetchedStep ==
  ASSUME SpeechInv, FillerFetched
  PROVE  SpeechGoal
<1> DEFINE p1 == [speech EXCEPT !.filler = "none"]
           p == Made(p1)
           q == Revoke(p, p.made)
           r == Play(p, Filler, p.made)
           by == speech.filler = "fetching" /\ HasVoices
<1>1. /\ speech \in Page /\ Urls(speech) /\ sent \in BOOLEAN /\ HasVoices \in BOOLEAN
      /\ ~cut => Tuned(speech, said)
  BY SpeechFacts
<1>2. /\ speech.made < MaxUrls /\ queued' = queued /\ sent' = sent
      /\ \/ SpeechBecomes(q, by)
         \/ speech.filler = "fetching" /\ SpeechBecomes(r, by)
  BY DEF FillerFetched
<1>3. p1 \in Page /\ Urls(p1) /\ Quietly(speech, p1) /\ Keeps(speech, p1) /\ p1.element = speech.element
  BY <1>1 DEF Page, Urls, Quietly, Keeps
<1>. HIDE DEF p1
<1>4. p1.made < MaxUrls
  BY <1>2, <1>3 DEF Keeps
<1>5. /\ p \in Page /\ p.made = p1.made + 1 /\ p.live = p1.live \cup {p1.made + 1}
      /\ p.queue = p1.queue /\ p.speaking = p1.speaking /\ p.held = p1.held
      /\ p.active = p1.active /\ p.element = p1.element
      /\ p.fetching = p1.fetching /\ p.utter = p1.utter
  BY <1>3, <1>4, MadeKeeps
<1>. HIDE DEF p
<1>6. p.made \in 0..MaxUrls /\ p1.made \in Nat /\ p1.active \in Nat /\ p1.held.url \in Nat /\ p1.element.url \in Nat
      /\ Filler \in 1..Filler /\ Filler \notin Sentences
  BY <1>3, <1>5, SpeechBounds DEF Page, Sentences, Filler
<1>7. by \in BOOLEAN
  BY <1>1
<1>. HIDE DEF by
<1>8. CASE SpeechBecomes(q, by)
  <2>1. /\ q \in Page /\ Quietly(p, q) /\ Keeps(p, q) /\ q.element = p.element
        /\ q.live = p.live \ {p.made} /\ q.active = IF p.active = p.made THEN NoUrl ELSE p.active
    BY <1>5, <1>6, RevokeKeeps
  <2>. HIDE DEF q
  <2>2. Urls(q)
    BY <1>3, <1>5, <1>6, <2>1 DEF Urls, Keeps, NoUrl
  <2>3. Quietly(speech, q) /\ q.queue = speech.queue /\ q.speaking = speech.speaking /\ q.element = speech.element
    BY <1>3, <1>5, <2>1 DEF Quietly, Keeps
  <2>. QED
    BY <1>1, <1>2, <1>7, <1>8, <2>1, <2>2, <2>3, QuietStep
<1>9. CASE speech.filler = "fetching" /\ SpeechBecomes(r, by)
  <2>1. /\ p.live = {p.active, p.held.url, p.made} \ {NoUrl}
        /\ p.active <= p.made /\ p.held.url <= p.made /\ p.made <= p.made
        /\ p.made # NoUrl => p.made \notin {p.active, p.held.url}
        /\ p.held.url # NoUrl => p.held.url # p.active
    BY <1>3, <1>5, <1>6 DEF Urls, NoUrl
  <2>2. /\ r \in Page /\ Urls(r) /\ Keeps(p, r) /\ r.element = [of |-> Filler, url |-> p.made]
        /\ r.fetching = p.fetching /\ r.utter = p.utter
    BY <1>5, <1>6, <2>1, PlayPlays
  <2>. HIDE DEF r
  <2>3. r.element.of \notin Sentences /\ r.queue = speech.queue /\ r.speaking = speech.speaking
        /\ r.fetching = speech.fetching
        /\ \A s \in Sentences : /\ r.utter[s] = "none" <=> speech.utter[s] = "none"
                                /\ r.utter[s] = "started" => speech.utter[s] = "started"
    BY <1>3, <1>5, <1>6, <2>2 DEF Keeps, Quietly
  <2>4. Fades(speech, r)
    BY <2>3 DEF Fades
  <2>5. ~by => Voices(speech) = {} /\ Voices(r) = {}
    BY <1>9, <2>3 DEF by, HasVoices, Voices
  <2>6. ~cut /\ ~by => (r.speaking <=> Voices(r) # {})
    BY <1>1, <2>3, <2>5 DEF Tuned
  <2>. QED
    BY <1>1, <1>2, <1>7, <1>9, <2>2, <2>3, <2>4, <2>6, FadeStep
<1>. QED
  BY <1>2, <1>8, <1>9

\* What plays is over.
LEMMA ElementOver ==
  ASSUME NEW p \in Page, Urls(p)
  PROVE  LET q == [Revoke(p, p.element.url) EXCEPT !.element = NothingPlays]
         IN q \in Page /\ Urls(q) /\ Quietly(p, q) /\ Keeps(p, q) /\ q.element = NothingPlays
<1> DEFINE r == Revoke(p, p.element.url)
           q == [r EXCEPT !.element = NothingPlays]
<1>1. p.element.url \in 0..MaxUrls /\ (p.element.url = p.held.url => p.element.url = NoUrl)
  BY DEF Page, Urls
<1>2. r \in Page /\ Urls(r) /\ Quietly(p, r) /\ Keeps(p, r)
  BY <1>1, RevokeKeeps
<1>. HIDE DEF r
<1>3. NothingPlays \in [of : 0..Filler, url : 0..MaxUrls]
  BY SpeechBounds DEF NothingPlays, NoSentence, NoUrl, Filler
<1>4. q \in Page /\ q.element = NothingPlays /\ Quietly(r, q) /\ Keeps(r, q)
  BY <1>2, <1>3 DEF Page, Quietly, Keeps
<1>5. Urls(q)
  BY <1>2, <1>3 DEF Page, Urls, NothingPlays, NoUrl
<1>6. Quietly(p, q) /\ Keeps(p, q)
  BY <1>2, <1>4, QuietlyTwice
<1>. QED
  BY <1>4, <1>5, <1>6 DEF r

\* A sentence is over, and the page goes on to the next.
LEMMA OverGoesOn ==
  ASSUME SpeechInv, NEW p \in Page, Urls(p), Fades(speech, p), p.queue = speech.queue,
         ~cut => Voices(p) = {}, SpeechBecomes(GoOn(p), FALSE), queued' = queued, sent' = sent
  PROVE  SpeechGoal
<1> DEFINE q == GoOn(p)
<1>1. queued \in 0..MaxSentences /\ queued \in Nat /\ said \in Nat /\ sent \in BOOLEAN
  BY SpeechFacts
<1>2. Ordered(p, queued, said) /\ \A t \in Sentences : ~Sounding(speech, p, t)
  BY SpeechFades
<1>3. /\ q \in Page /\ Urls(q) /\ Ordered(q, queued, said)
      /\ \A t \in Sentences : Sounding(p, q, t) => said <= t
      /\ Voices(p) = {} => Tuned(q, said)
  BY <1>1, <1>2, GoOnSound
<1>4. SpeechBecomes(q, FALSE)
  OBVIOUS
<1>. HIDE DEF q
<1>5. \A t \in Sentences : Sounding(speech, q, t) => said <= t
  BY <1>2, <1>3, SoundingThrough
<1>. QED
  BY <1>1, <1>3, <1>4, <1>5, SpeechGoesOn DEF SpeechGoal

\* A sentence is over, and the page waits for the next that is queued.
LEMMA OverIdles ==
  ASSUME SpeechInv, NEW p \in Page, Urls(p), Fades(speech, p), p.queue = speech.queue,
         ~cut => Voices(p) = {}, SpeechBecomes(Idle(p), FALSE), queued' = queued, sent' = sent
  PROVE  SpeechGoal
<1> DEFINE q == Idle(p)
<1>1. q \in Page /\ Urls(q) /\ Quietly(p, q) /\ q.queue = p.queue /\ ~q.speaking
  BY IdleKeeps
<1>2. SpeechBecomes(q, FALSE)
  OBVIOUS
<1>. HIDE DEF q
<1>3. Fades(speech, q)
  BY <1>1 DEF Fades, Quietly, NothingPlays, NoSentence, Sentences
<1>4. ~cut => Voices(q) = {}
  BY <1>1, QuietlyFades
<1>. QED
  BY <1>1, <1>2, <1>3, <1>4, SpeechFacts, FadeStep

\* onended, onerror, or a refused play.
LEMMA SpeechOverStep ==
  ASSUME SpeechInv, Ended \/ PlayFails
  PROVE  SpeechGoal
<1> DEFINE p == [Revoke(speech, speech.element.url) EXCEPT !.element = NothingPlays]
           k == [p EXCEPT !.kind = "none"]
<1>1. /\ speech \in Page /\ Urls(speech) /\ sent \in BOOLEAN /\ Ordered(speech, queued, said)
      /\ ~cut => Tuned(speech, said)
      /\ queued \in 0..MaxSentences /\ queued \in Nat /\ said \in Nat
  BY SpeechFacts
<1>2. /\ speech.element # NothingPlays /\ queued' = queued /\ sent' = sent
      /\ \/ speech.element.of = Filler /\ SpeechBecomes(k, FALSE)
         \/ speech.element.of # Filler /\ SpeechBecomes(GoOn(p), FALSE)
         \/ speech.element.of # Filler /\ SpeechBecomes(Idle(p), FALSE)
  BY DEF Ended, PlayFails
<1>3. p \in Page /\ Urls(p) /\ Quietly(speech, p) /\ Keeps(speech, p) /\ p.element = NothingPlays
  BY <1>1, ElementOver
<1>. HIDE DEF p
<1>4. Fades(speech, p)
  BY <1>1, <1>3, QuietlyFades
<1>5. Ordered(p, queued, said) /\ \A t \in Sentences : ~Sounding(speech, p, t)
  BY <1>3, <1>4, SpeechFades DEF Keeps
<1>6. speech.element.of # Filler => speech.element.of \in Sentences
  BY <1>1, <1>2, SpeechBounds DEF Page, Urls, Sentences, Filler, NoSentence
<1>7. ~cut /\ speech.element.of # Filler => Voices(p) = {}
  <2>1. ASSUME ~cut, speech.element.of # Filler PROVE Voices(p) = {}
    <3>1. Alone(speech) /\ speech.element.of \in Voices(speech) /\ speech.element.of \in Sentences
      BY <1>1, <1>6, <2>1 DEF Tuned, Voices
    <3>2. speech.fetching = {} /\ \A t \in Sentences : speech.utter[t] = "none"
      BY <1>1, <3>1 DEF Alone, Voices, Page
    <3>3. p.element.of \notin Sentences
      BY <1>3 DEF NothingPlays, NoSentence, Sentences
    <3>. QED
      BY <1>3, <3>2, <3>3 DEF Quietly, Voices
  <2>. QED
    BY <2>1
<1>8. CASE speech.element.of = Filler /\ SpeechBecomes(k, FALSE)
  <2>1. k \in Page /\ Urls(k) /\ Quietly(p, k) /\ Keeps(p, k)
    BY <1>3 DEF Page, Urls, Quietly, Keeps
  <2>2. Quietly(speech, k) /\ Keeps(speech, k)
    BY <1>3, <2>1, QuietlyTwice
  <2>3. speech.element.of \notin Sentences
    BY <1>8, SpeechBounds DEF Filler, Sentences
  <2>. HIDE DEF k
  <2>. QED
    BY <1>1, <1>2, <1>8, <2>1, <2>2, <2>3, QuietStep DEF Keeps
<1>9. CASE SpeechBecomes(GoOn(p), FALSE) /\ speech.element.of # Filler
  BY <1>2, <1>3, <1>4, <1>7, <1>9, OverGoesOn DEF Keeps
<1>10. CASE SpeechBecomes(Idle(p), FALSE) /\ speech.element.of # Filler
  BY <1>2, <1>3, <1>4, <1>7, <1>10, OverIdles DEF Keeps
<1>. QED
  BY <1>2, <1>8, <1>9, <1>10

LEMMA RefusedLateStep ==
  ASSUME SpeechInv, RefusedLate
  PROVE  SpeechGoal
<1> DEFINE r == Revoke(speech, speech.active)
           q == Idle(r)
           g == GivesUp(speech)
<1>1. /\ speech \in Page /\ Urls(speech) /\ HasVoices \in BOOLEAN
      /\ sent \in BOOLEAN /\ queued \in 0..MaxSentences
  BY SpeechFacts
<1>2. /\ cut /\ queued' = queued /\ sent' = sent
      /\ SpeechBecomes(q, HasVoices) \/ SpeechBecomes(g, HasVoices)
  BY DEF RefusedLate
<1>3. speech.active \in 0..MaxUrls /\ (speech.active = speech.held.url => speech.active = NoUrl)
  BY <1>1 DEF Page, Urls
<1>4. r \in Page /\ Urls(r) /\ Quietly(speech, r) /\ Keeps(speech, r)
  BY <1>1, <1>3, RevokeKeeps
<1>. HIDE DEF r
<1>5. q \in Page /\ Urls(q) /\ Quietly(r, q) /\ q.queue = speech.queue
  BY <1>4, IdleKeeps DEF Keeps
<1>6. g \in Page /\ Urls(g) /\ Quietly(speech, g) /\ g.queue = speech.queue
  BY <1>1, GivesUpKeeps DEF Keeps
<1>. HIDE DEF q, g
<1>7. Quietly(speech, q)
  BY <1>4, <1>5 DEF Quietly
<1>8. Fades(speech, q) /\ Fades(speech, g)
  BY <1>1, <1>5, <1>6, <1>7, QuietlyFades
<1>. QED
  BY <1>1, <1>2, <1>5, <1>6, <1>8, FadeStep

\* How far the browser's speech of one sentence is.
LEMMA UtterMoves ==
  ASSUME NEW p \in Page, NEW s \in Sentences, NEW v \in Utterances
  PROVE  LET q == [p EXCEPT !.utter[s] = v]
         IN /\ q \in Page /\ Keeps(p, q) /\ (Urls(p) => Urls(q))
            /\ q.utter[s] = v /\ \A t \in Sentences \ {s} : q.utter[t] = p.utter[t]
            /\ q.fetching = p.fetching /\ q.element = p.element
<1> DEFINE utter == [p.utter EXCEPT ![s] = v]
           q == [p EXCEPT !.utter = utter]
<1>1. utter \in [Sentences -> Utterances]
  BY DEF Page
<1>2. utter[s] = v /\ \A t \in Sentences \ {s} : utter[t] = p.utter[t]
  BY DEF Page
<1>3. [p EXCEPT !.utter[s] = v] = q
  BY DEF Page
<1>. HIDE DEF utter
<1>4. q \in Page
  BY <1>1 DEF Page
<1>5. /\ q.utter = utter /\ q.fetching = p.fetching /\ q.element = p.element
      /\ Keeps(p, q) /\ (Urls(p) => Urls(q))
  BY DEF Page, Keeps, Urls
<1>. HIDE DEF q
<1>. QED
  BY <1>2, <1>3, <1>4, <1>5

\* Once the browser is done with a sentence none is left, unless one was cut.
LEMMA UtterOver ==
  ASSUME SpeechInv, NEW s \in Sentences, speech.utter[s] # "none"
  PROVE  LET p == [speech EXCEPT !.utter[s] = "none"]
         IN /\ p \in Page /\ Urls(p) /\ Fades(speech, p) /\ p.queue = speech.queue
            /\ ~cut => Voices(p) = {}
<1> DEFINE p == [speech EXCEPT !.utter[s] = "none"]
<1>1. speech \in Page /\ Urls(speech) /\ (~cut => Tuned(speech, said)) /\ "none" \in Utterances
  BY SpeechFacts DEF Utterances
<1>2. /\ p \in Page /\ Keeps(speech, p) /\ Urls(p)
      /\ p.utter[s] = "none" /\ \A t \in Sentences \ {s} : p.utter[t] = speech.utter[t]
      /\ p.fetching = speech.fetching /\ p.element = speech.element
  BY <1>1, UtterMoves
<1>. HIDE DEF p
<1>3. Fades(speech, p)
  BY <1>2 DEF Fades
<1>4. ASSUME ~cut PROVE Voices(p) = {}
  <2>1. Alone(speech) /\ s \in Voices(speech)
    BY <1>1, <1>4 DEF Tuned, Voices
  <2>2. s \notin speech.fetching /\ speech.element.of # s
    BY <1>1, <2>1 DEF Alone
  <2>3. Voices(p) \subseteq Voices(speech) \ {s}
    BY <1>2, <2>2 DEF Voices
  <2>. QED
    BY <2>1, <2>3 DEF Alone
<1>. QED
  BY <1>2, <1>3, <1>4 DEF Keeps, p

LEMMA UtterStartsStep ==
  ASSUME SpeechInv, NEW s \in Sentences, UtterStarts(s)
  PROVE  SpeechGoal
<1> DEFINE q == [speech EXCEPT !.utter[s] = "started"]
<1>1. /\ speech \in Page /\ Urls(speech) /\ Ordered(speech, queued, said)
      /\ ~cut => Tuned(speech, said)
      /\ queued \in 0..MaxSentences /\ sent \in BOOLEAN /\ "started" \in Utterances
  BY SpeechFacts DEF Utterances
<1>2. speech.utter[s] = "waiting" /\ SpeechBecomes(q, FALSE) /\ queued' = queued /\ sent' = sent
  BY DEF UtterStarts
<1>3. /\ q \in Page /\ Keeps(speech, q) /\ Urls(q)
      /\ q.utter[s] = "started" /\ \A t \in Sentences \ {s} : q.utter[t] = speech.utter[t]
      /\ q.fetching = speech.fetching /\ q.element = speech.element
  BY <1>1, UtterMoves
<1>. HIDE DEF q
<1>4. Voices(q) = Voices(speech) /\ s \in Voices(speech)
  BY <1>2, <1>3 DEF Voices
<1>5. Ordered(q, queued, said)
  BY <1>1, <1>3, <1>4, OrderKept DEF Keeps
<1>6. \A t \in Sentences : Sounding(speech, q, t) => t = s
  BY <1>3 DEF Sounding
<1>7. ASSUME ~cut PROVE Tuned(q, said) /\ said <= s
  <2>1. Tuned(speech, said)
    BY <1>1, <1>7
  <2>2. Alone(q)
    <3>1. s \notin speech.fetching /\ speech.element.of # s /\ speech.fetching \subseteq Sentences
      BY <1>1, <1>2, <2>1 DEF Tuned, Alone, Page
    <3>. QED
      BY <1>3, <1>4, <2>1, <3>1 DEF Tuned, Alone
  <2>. QED
    BY <1>3, <1>4, <2>1, <2>2 DEF Tuned, Keeps
<1>. QED
  BY <1>1, <1>2, <1>3, <1>5, <1>6, <1>7, SpeechGoesOn DEF SpeechGoal

LEMMA UtterEndsStep ==
  ASSUME SpeechInv, NEW s \in Sentences, UtterEnds(s)
  PROVE  SpeechGoal
<1> DEFINE p == [speech EXCEPT !.utter[s] = "none"]
<1>1. /\ speech.utter[s] # "none" /\ SpeechBecomes(GoOn(p), FALSE)
      /\ queued' = queued /\ sent' = sent
  BY DEF UtterEnds
<1>2. /\ p \in Page /\ Urls(p) /\ Fades(speech, p) /\ p.queue = speech.queue
      /\ ~cut => Voices(p) = {}
  BY <1>1, UtterOver
<1>. HIDE DEF p
<1>. QED
  BY <1>1, <1>2, OverGoesOn

\* The sentence that falls back is the one that was under way.
LEMMA FallsBackStep ==
  ASSUME SpeechInv, NEW s \in Sentences, speech.utter[s] # "none",
         SpeechBecomes(FallBack(speech, s), FALSE), queued' = queued, sent' = sent
  PROVE  SpeechGoal
<1> DEFINE q == FallBack(speech, s)
<1>1. /\ speech \in Page /\ Urls(speech) /\ Ordered(speech, queued, said)
      /\ ~cut => Tuned(speech, said)
      /\ queued \in 0..MaxSentences /\ queued \in Nat /\ said \in Nat /\ sent \in BOOLEAN
  BY SpeechFacts
<1>2. /\ q \in Page /\ Urls(q) /\ Ordered(q, queued, said)
      /\ \A t \in Sentences : Sounding(speech, q, t) => t = s
      /\ Tuned(speech, said) => Tuned(q, said)
  BY <1>1, FallBackSound
<1>3. SpeechBecomes(q, FALSE)
  OBVIOUS
<1>. HIDE DEF q
<1>4. ~cut => said <= s
  BY <1>1 DEF Tuned, Voices
<1>. QED
  BY <1>1, <1>2, <1>3, <1>4, SpeechGoesOn DEF SpeechGoal

LEMMA UtterFailsStep ==
  ASSUME SpeechInv, NEW s \in Sentences, UtterFails(s)
  PROVE  SpeechGoal
<1> DEFINE p == [speech EXCEPT !.utter[s] = "none"]
<1>1. /\ speech.utter[s] # "none" /\ queued' = queued /\ sent' = sent
      /\ \/ SpeechBecomes(Idle(p), FALSE)
         \/ SpeechBecomes(FallBack(speech, s), FALSE)
         \/ SpeechBecomes(p, TRUE)
  BY DEF UtterFails
<1>2. /\ p \in Page /\ Urls(p) /\ Fades(speech, p) /\ p.queue = speech.queue
      /\ ~cut => Voices(p) = {}
  BY <1>1, UtterOver
<1>. HIDE DEF p
<1>3. CASE SpeechBecomes(Idle(p), FALSE)
  BY <1>1, <1>2, <1>3, OverIdles
<1>4. CASE SpeechBecomes(FallBack(speech, s), FALSE)
  BY <1>1, <1>4, FallsBackStep
<1>5. CASE SpeechBecomes(p, TRUE)
  BY <1>1, <1>2, <1>5, SpeechFacts, FadeStep
<1>. QED
  BY <1>1, <1>3, <1>4, <1>5

LEMMA TooSlowStep ==
  ASSUME SpeechInv, NEW s \in Sentences, TooSlow(s)
  PROVE  SpeechGoal
<1>1. /\ speech.utter[s] # "none" /\ SpeechBecomes(FallBack(speech, s), FALSE)
      /\ queued' = queued /\ sent' = sent
  BY DEF TooSlow
<1>. QED
  BY <1>1, FallsBackStep

LEMMA MurmuredStep ==
  ASSUME SpeechInv, Murmured
  PROVE  SpeechGoal
<1> DEFINE q == [speech EXCEPT !.filler = "none", !.kind = "none"]
<1>1. speech \in Page /\ Urls(speech) /\ sent \in BOOLEAN
  BY SpeechFacts
<1>2. SpeechBecomes(q, FALSE) /\ queued' = queued /\ sent' = sent
  BY DEF Murmured
<1>3. q \in Page /\ Quietly(speech, q) /\ Keeps(speech, q) /\ Urls(q) /\ q.element = speech.element
  BY <1>1 DEF Page, Quietly, Keeps, Urls
<1>. HIDE DEF q
<1>. QED
  BY <1>1, <1>2, <1>3, QuietStep DEF Keeps

-----------------------------------------------------------------------------
(* What follows for every run of the page.                                 *)

LEMMA SpeechStart == SpeechInit => SpeechInv
<1> SUFFICES ASSUME SpeechInit PROVE SpeechInv
  OBVIOUS
<1>1. PICK m \in {"server", "browser"} :
        speech = [mode |-> m, queue |-> <<>>, speaking |-> FALSE, kind |-> "none",
                  begun |-> FALSE, fetching |-> {}, ahead |-> [s \in Sentences |-> 0],
                  held |-> NothingHeld, active |-> NoUrl, live |-> {}, made |-> 0,
                  element |-> NothingPlays, utter |-> [s \in Sentences |-> "none"],
                  quick |-> {}, filler |-> "none"]
  BY DEF SpeechInit
<1>2. /\ NothingPlays \in [of : 0..Filler, url : 0..MaxUrls]
      /\ NothingHeld \in [text : Sentences \cup {NoSentence}, url : 0..MaxUrls]
      /\ <<>> \in Seq(Sentences) /\ 0 \in 0..MaxUrls /\ 0 \in 0..MaxAhead
      /\ 0 \in 0..MaxSentences
  BY SpeechBounds DEF NothingPlays, NothingHeld, NoSentence, NoUrl, Filler
<1>3. speech \in Page
  BY <1>1, <1>2 DEF Page, Utterances, NoUrl
<1>4. Urls(speech)
  BY <1>1 DEF Urls, NoUrl, NothingPlays, NothingHeld
<1>5. Voices(speech) = {} /\ ~speech.speaking /\ speech.queue = <<>>
  BY <1>1 DEF Voices, NothingPlays, NoSentence, Sentences
<1>6. queued = 0 /\ said = 0 /\ cut = FALSE /\ sent = FALSE
      /\ voice \in {"explicit", "device", "other"}
  BY DEF SpeechInit
<1>7. Ordered(speech, queued, said)
  BY <1>5, <1>6 DEF Ordered
<1>8. Tuned(speech, said)
  BY <1>3, <1>5, Silent
<1>9. SpeechTypeOK
  BY <1>2, <1>3, <1>6 DEF SpeechTypeOK
<1>. QED
  BY <1>4, <1>7, <1>8, <1>9 DEF SpeechInv

LEMMA SpeechStep == SpeechInv /\ SpeechNext => SpeechGoal
<1> SUFFICES ASSUME SpeechInv, SpeechNext PROVE SpeechGoal
  OBVIOUS
<1>1. CASE Queues
  BY <1>1, QueuesStep
<1>2. CASE TurnSent \/ AnswerBegins \/ Stops
  BY <1>2, TurnSentStep, AnswerBeginsStep, StopsStep
<1>3. CASE FillerBegins \/ FillerFetched \/ FillerFails \/ FillerRefused \/ FillerUnavailable
  BY <1>3, FillerBeginsStep, FillerFetchedStep, FillerFailsStep, FillerRefusedStep,
     FillerUnavailableStep
<1>4. CASE Ended \/ PlayFails
  BY <1>4, SpeechOverStep
<1>5. CASE RefusedLate \/ Murmured
  BY <1>5, RefusedLateStep, MurmuredStep
<1>6. ASSUME NEW s \in Sentences, Hear(s) PROVE SpeechGoal
  <2>1. CASE Fetched(s) \/ FetchFails(s) \/ FetchedAhead(s) \/ AheadFails(s)
    BY <2>1, FetchedStep, FetchFailsStep, FetchedAheadStep, AheadFailsStep
  <2>2. CASE UtterStarts(s) \/ UtterEnds(s) \/ UtterFails(s) \/ TooSlow(s)
    BY <2>2, UtterStartsStep, UtterEndsStep, UtterFailsStep, TooSlowStep
  <2>. QED
    BY <1>6, <2>1, <2>2 DEF Hear
<1>. QED
  BY <1>1, <1>2, <1>3, <1>4, <1>5, <1>6 DEF SpeechNext

LEMMA SpeechRests == SpeechInv /\ UNCHANGED speechVars => SpeechInv'
BY DEF SpeechInv, SpeechTypeOK, Urls, Ordered, Tuned, Alone, Voices, speechVars

\* The page holds each object URL once, its sentences leave the queue in order, and
\* while none was left to itself it knows of the one that sounds (the queue, the
\* look-ahead and the element of page.tsx), after every event.
THEOREM SpeechInvariant == SpeechSpec => []SpeechInv
<1>1. SpeechInv /\ [SpeechNext]_speechVars => SpeechInv'
  BY SpeechStep, SpeechRests DEF SpeechGoal
<1>. QED
  BY SpeechStart, <1>1, PTL DEF SpeechSpec

\* An object URL is alive exactly as long as the page holds it (assignAudioObjectUrl,
\* revokePrefetchedAudio), one sentence sounds at a time, and the page knows when none
\* does (speakNextInQueue, fallbackToServerTTS), unless one was left to itself.
THEOREM SpeechIsSound == SpeechSpec => []SpeechSound
<1>1. SpeechInv => SpeechSound
  <2> SUFFICES ASSUME SpeechInv PROVE SpeechSound
    OBVIOUS
  <2>1. SpeechTypeOK /\ UrlsHeld
    BY DEF SpeechInv, Urls, UrlsHeld
  <2>2. ASSUME ~cut PROVE Cardinality(Voices(speech)) <= 1
    <3>1. \A s, t \in Voices(speech) : s = t
      BY <2>2 DEF SpeechInv, Tuned, Alone
    <3>2. CASE Voices(speech) = {}
      BY <3>2, FS_EmptySet
    <3>3. CASE Voices(speech) # {}
      <4>1. PICK s \in Voices(speech) : Voices(speech) = {s}
        BY <3>1, <3>3
      <4>. QED
        BY <4>1, FS_Singleton
    <3>. QED
      BY <3>2, <3>3
  <2>3. ~cut => (speech.speaking <=> Voices(speech) # {})
    BY DEF SpeechInv, Tuned
  <2>. QED
    BY <2>1, <2>2, <2>3 DEF SpeechSound, OneVoice
<1>. QED
  BY <1>1, SpeechInvariant, PTL

\* What begins to sound comes no earlier in the answer than what sounded last, unless a
\* sentence was left to itself (queueSentenceForTTS, fallbackToServerTTS).
THEOREM SentencesInOrder == SpeechSpec => InOrder
<1>1. SpeechInv /\ [SpeechNext]_speechVars => [cut \/ said' >= said]_speechVars
  BY SpeechStep DEF SpeechGoal
<1>. QED
  BY <1>1, SpeechInvariant, PTL DEF SpeechSpec, InOrder
=============================================================================
