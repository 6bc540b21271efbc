------------------------ MODULE NativeVoice_proofs -------------------------
(***************************************************************************)
(* Theorems about NativeVoice, for any number of activations and calls, any *)
(* interference of the system, and queues of any length.                   *)
(*                                                                         *)
(* The page and the plugin know of each other by what is on the two queues, *)
(* so the inductive invariant NativeInv is about these.  An activation that *)
(* waits has its one block on the queue it waits for (PressInv); a call    *)
(* nobody was told about is on one of the queues, once, or is the call of a *)
(* player (CallInv); the last that is said of the microphone is what the   *)
(* page shows (MuteInv); and the task of a transcription begins after the  *)
(* ends of those before (TaskInv).  SessionInv is about activations that do *)
(* not overlap: a stop is in front of whatever starts, and the page thinks *)
(* of the session what it is told of it.                                   *)
(*                                                                         *)
(* What a step does to a queue is that jobs are added to its end or its    *)
(* first is taken.  Most of it is not about the jobs a part of the         *)
(* invariant speaks of (Plain), and changes nothing of that part.          *)
(***************************************************************************)
EXTENDS NativeVoice, SequenceTheorems, TLAPS

\* In a queue, a job of these kinds, and one for somebody; none is there twice; those of
\* one kind are before those of another.
Holds(q, K) == \E i \in DOMAIN q : q[i][1] \in K
HoldsFor(q, K, who) == \E i \in DOMAIN q : q[i][1] \in K /\ q[i][2] = who
Once(q, K) ==
  \A i, j \in DOMAIN q : q[i][1] \in K /\ q[j][1] \in K /\ q[i][2] = q[j][2] => i = j
Before(q, K, L) == \A i, j \in DOMAIN q : q[i][1] \in K /\ q[j][1] \in L => i < j

\* One of the second kinds is behind each of the first; the last of these kinds is for
\* this one.
Followed(q, K, L) ==
  \A i \in DOMAIN q : q[i][1] \in K => \E j \in DOMAIN q : i < j /\ q[j][1] \in L
LastFor(q, K, who) ==
  \A i \in DOMAIN q :
    q[i][1] \in K /\ (\A j \in DOMAIN q : q[j][1] \in K => j <= i) => q[i][2] = who

\* The jobs that answer a press of the button, those that tell it, and those of a call.
Starting == {"start", "denied"}
Telling == {"told", "refused"}
Calling == {"play", "speak", "refuse"}

\* Each activation has its one block on the queue it waits for.
PressInv ==
  /\ \A p \in Presses : /\ press[p] = "queued" <=> HoldsFor(capture, Starting, p)
                        /\ press[p] = "telling" <=> HoldsFor(main, Telling, p)
  /\ Once(capture, Starting) /\ Once(main, Telling)
  /\ active \/ (\E p \in Presses : press[p] # "idle") => owner # Nobody

\* No stop is on its way.
NoStop == ~Holds(capture, {"stop"})

\* While activations do not overlap, the page knows of the session.
SessionInv ==
  /\ Before(capture, {"stop"}, Starting)
  /\ shown = nativeRef
  /\ \A p, q \in Presses : press[p] \in Busy /\ press[q] \in Busy => p = q
  /\ \A p \in Presses :
       /\ press[p] \in Busy => mounted /\ ~isActive
       /\ press[p] \in {"prompt", "queued"} => ~nativeRef /\ (NoStop => ~active)
       /\ press[p] = "telling" => /\ ~nativeRef /\ NoStop
                                  /\ HoldsFor(main, {"told"}, p) => active
                                  /\ HoldsFor(main, {"refused"}, p) => ~active
       /\ press[p] = "waking" => nativeRef /\ active /\ NoStop
  /\ (\A p \in Presses : press[p] \notin Busy) =>
       /\ isActive = nativeRef
       /\ isActive => mounted /\ active /\ NoStop
       /\ ~isActive /\ NoStop => ~active

\* The last the plugin is told, or has been told, is what the page shows.
MuteInv ==
  mounted /\ isActive /\ shown /\ ~loose =>
    /\ ~Holds(capture, {"mute"}) => muted = pageMuted
    /\ LastFor(capture, {"mute"}, pageMuted)

\* The task of a transcription begins after the ends of those before, and ends after it
\* has begun.
TaskInv ==
  /\ Holds(capture, {"expired"}) => gone
  /\ inFlight /\ ~gone =>
       IF Holds(main, {"begin"}) THEN Before(main, {"end"}, {"begin"})
       ELSE task /\ ~Holds(main, {"end"})
  /\ inFlight \/ Followed(main, {"begin"}, {"end"})
  /\ task => inFlight \/ Holds(main, {"end"})

\* What becomes of a call nobody was told about.
Underway == {"waiting", "heard"}

\* A call nobody was told about is in one place.
CallInv ==
  /\ playCall = playing
  /\ speechCall = speaking \/ late
  /\ playCall # Nobody => playCall # speechCall
  /\ Once(capture, Calling) /\ Once(main, Calling)
  /\ \A t \in Talks :
       /\ ~(HoldsFor(capture, Calling, t) /\ HoldsFor(main, Calling, t))
       /\ HoldsFor(capture, Calling, t) \/ HoldsFor(main, Calling, t) => t \notin {playCall, speechCall}
       /\ talk[t] \in Underway <=>
            \/ t \in {playCall, speechCall}
            \/ HoldsFor(capture, Calling, t) \/ HoldsFor(main, Calling, t)

\* The inductive invariant.
NativeInv ==
  /\ NativeTypeOK /\ MicKnown /\ RecordsWhenAsked /\ UploadTracked
  /\ PressInv /\ (~loose => SessionInv) /\ MuteInv /\ TaskInv /\ CallInv

-----------------------------------------------------------------------------
(* The two queues.                                                         *)

\* What happens to q on the way to r is not about these kinds.
Plain(q, r, K) ==
  \/ r = q
  \/ \E x : x[1] \notin K /\ r = Append(q, x)
  \/ \E x, y : x[1] \notin K /\ y[1] \notin K /\ r = Append(Append(q, x), y)
  \/ q # <<>> /\ Head(q)[1] \notin K /\ r = Tail(q)

LEMMA Longer ==
  ASSUME NEW S, NEW q \in Seq(S), NEW x, NEW r, r = Append(q, x)
  PROVE  /\ Len(q) \in Nat /\ DOMAIN q = 1..Len(q) /\ DOMAIN r = 1..(Len(q) + 1)
         /\ r[Len(q) + 1] = x
         /\ \A i \in 1..Len(q) : r[i] = q[i]
         /\ x \in S => r \in Seq(S)
<1>1. q \in Seq(S \cup {x}) /\ x \in S \cup {x}
  OBVIOUS
<1>2. Len(q) \in Nat /\ DOMAIN q = 1..Len(q)
  BY LenProperties
<1>3. /\ r \in Seq(S \cup {x}) /\ Len(r) = Len(q) + 1 /\ r[Len(q) + 1] = x
      /\ \A i \in 1..Len(q) : r[i] = q[i]
  BY <1>1, AppendProperties
<1>4. DOMAIN r = 1..(Len(q) + 1)
  BY <1>3, LenProperties
<1>5. x \in S => r \in Seq(S)
  BY AppendProperties
<1>. QED
  BY <1>2, <1>3, <1>4, <1>5

LEMMA Shorter ==
  ASSUME NEW S, NEW q \in Seq(S), q # <<>>, NEW r, r = Tail(q)
  PROVE  /\ Len(q) \in Nat \ {0} /\ DOMAIN q = 1..Len(q) /\ DOMAIN r = 1..(Len(q) - 1)
         /\ q[1] = Head(q) /\ Head(q) \in S
         /\ \A i \in 1..(Len(q) - 1) : r[i] = q[i + 1]
         /\ r \in Seq(S)
<1>1. Len(q) \in Nat \ {0} /\ DOMAIN q = 1..Len(q)
  BY LenProperties, EmptySeq
<1>2. /\ r \in Seq(S) /\ Len(r) = Len(q) - 1 /\ Head(q) \in S
      /\ \A i \in 1..Len(r) : r[i] = q[i + 1]
  BY HeadTailProperties
<1>3. DOMAIN r = 1..(Len(q) - 1)
  BY <1>2, LenProperties
<1>4. q[1] = Head(q)
  BY <1>1
<1>. QED
  BY <1>1, <1>2, <1>3, <1>4

\* A job is added.
LEMMA Added ==
  ASSUME NEW S, NEW q \in Seq(S), NEW x, NEW r, r = Append(q, x), NEW K, NEW L
  PROVE  /\ Holds(r, K) <=> Holds(q, K) \/ x[1] \in K
         /\ \A who : HoldsFor(r, K, who) <=> HoldsFor(q, K, who) \/ (x[1] \in K /\ x[2] = who)
         /\ Once(q, K) /\ (x[1] \in K => ~HoldsFor(q, K, x[2])) => Once(r, K)
         /\ Before(q, K, L) /\ (x[1] \in K => x[1] \notin L /\ ~Holds(q, L)) => Before(r, K, L)
         /\ Followed(q, K, L) /\ (x[1] \notin K) => Followed(r, K, L)
         /\ x[1] \in L \ K => Followed(r, K, L)
         /\ \A who : LastFor(q, K, who) /\ x[1] \notin K => LastFor(r, K, who)
         /\ x[1] \in K => LastFor(r, K, x[2])
<1> DEFINE n == Len(q)
<1>1. /\ n \in Nat /\ DOMAIN q = 1..n /\ DOMAIN r = 1..(n + 1)
      /\ r[n + 1] = x /\ \A i \in 1..n : r[i] = q[i]
  BY Longer
<1>. HIDE DEF n
<1>2. \A i \in DOMAIN r : i = n + 1 \/ i \in 1..n
  BY <1>1
<1>3. n + 1 \in DOMAIN r /\ \A i \in 1..n : i \in DOMAIN r /\ i \in Int /\ i < n + 1
  BY <1>1
<1>4. Holds(r, K) <=> Holds(q, K) \/ x[1] \in K
  BY <1>1, <1>2, <1>3 DEF Holds
<1>5. \A who : HoldsFor(r, K, who) <=> HoldsFor(q, K, who) \/ (x[1] \in K /\ x[2] = who)
  BY <1>1, <1>2, <1>3 DEF HoldsFor
<1>6. Once(q, K) /\ (x[1] \in K => ~HoldsFor(q, K, x[2])) => Once(r, K)
  BY <1>1, <1>2, <1>3 DEF Once, HoldsFor
<1>7. Before(q, K, L) /\ (x[1] \in K => x[1] \notin L /\ ~Holds(q, L)) => Before(r, K, L)
  BY <1>1, <1>2, <1>3 DEF Before, Holds
<1>8. Followed(q, K, L) /\ (x[1] \notin K) => Followed(r, K, L)
  BY <1>1, <1>2, <1>3 DEF Followed
<1>9. x[1] \in L \ K => Followed(r, K, L)
  BY <1>1, <1>2, <1>3 DEF Followed
<1>10. \A who : LastFor(q, K, who) /\ x[1] \notin K => LastFor(r, K, who)
  BY <1>1, <1>2, <1>3 DEF LastFor
<1>11. x[1] \in K => LastFor(r, K, x[2])
  BY <1>1, <1>2, <1>3 DEF LastFor
<1>. QED
  BY <1>4, <1>5, <1>6, <1>7, <1>8, <1>9, <1>10, <1>11

\* The first job is taken.
LEMMA Taken ==
  ASSUME NEW S, NEW q \in Seq(S), q # <<>>, NEW x, x = Head(q), NEW r, r = Tail(q), NEW K, NEW L
  PROVE  /\ Holds(q, K) <=> Holds(r, K) \/ x[1] \in K
         /\ \A who : HoldsFor(q, K, who) <=> HoldsFor(r, K, who) \/ (x[1] \in K /\ x[2] = who)
         /\ Once(q, K) => Once(r, K) /\ (x[1] \in K => ~HoldsFor(r, K, x[2]))
         /\ Before(q, K, L) => Before(r, K, L) /\ (x[1] \in L => ~Holds(q, K))
         /\ Followed(q, K, L) => Followed(r, K, L) /\ (x[1] \in K => Holds(r, L))
         /\ \A who : LastFor(q, K, who) =>
              LastFor(r, K, who) /\ (x[1] \in K /\ ~Holds(r, K) => x[2] = who)
<1> DEFINE n == Len(q)
<1>1. /\ n \in Nat \ {0} /\ DOMAIN q = 1..n /\ DOMAIN r = 1..(n - 1)
      /\ q[1] = x /\ \A i \in 1..(n - 1) : r[i] = q[i + 1]
  BY Shorter
<1>. HIDE DEF n
<1>2. \A i \in DOMAIN r : i \in Nat \ {0} /\ i + 1 \in DOMAIN q /\ r[i] = q[i + 1]
  BY <1>1
<1>3. 1 \in DOMAIN q /\ \A i \in DOMAIN q \ {1} : i - 1 \in DOMAIN r /\ r[i - 1] = q[i] /\ i \in Int /\ 1 < i
  BY <1>1
<1>4. Holds(q, K) <=> Holds(r, K) \/ x[1] \in K
  BY <1>1, <1>2, <1>3 DEF Holds
<1>5. \A who : HoldsFor(q, K, who) <=> HoldsFor(r, K, who) \/ (x[1] \in K /\ x[2] = who)
  BY <1>1, <1>2, <1>3 DEF HoldsFor
<1>6. Once(q, K) => Once(r, K) /\ (x[1] \in K => ~HoldsFor(r, K, x[2]))
  BY <1>1, <1>2, <1>3 DEF Once, HoldsFor
<1>7. ASSUME Before(q, K, L) PROVE Before(r, K, L) /\ (x[1] \in L => ~Holds(q, K))
  <2>1. ASSUME NEW i \in DOMAIN r, NEW j \in DOMAIN r, r[i][1] \in K, r[j][1] \in L PROVE i < j
    <3>1. i + 1 < j + 1
      BY <1>2, <1>7, <2>1 DEF Before
    <3>. QED
      BY <1>2, <3>1
  <2>2. x[1] \in L => ~Holds(q, K)
    BY <1>1, <1>7 DEF Before, Holds
  <2>. QED
    BY <2>1, <2>2 DEF Before
<1>8. ASSUME Followed(q, K, L) PROVE Followed(r, K, L) /\ (x[1] \in K => Holds(r, L))
  <2>1. ASSUME NEW i \in DOMAIN r, r[i][1] \in K
        PROVE  \E j \in DOMAIN r : i < j /\ r[j][1] \in L
    <3>1. PICK j \in DOMAIN q : i + 1 < j /\ q[j][1] \in L
      BY <1>2, <1>8, <2>1 DEF Followed
    <3>2. j - 1 \in DOMAIN r /\ r[j - 1] = q[j] /\ i < j - 1
      BY <1>2, <1>3, <3>1
    <3>. QED
      BY <3>1, <3>2
  <2>2. ASSUME x[1] \in K PROVE Holds(r, L)
    <3>1. PICK j \in DOMAIN q : 1 < j /\ q[j][1] \in L
      BY <1>1, <1>3, <1>8, <2>2 DEF Followed
    <3>. QED
      BY <1>3, <3>1 DEF Holds
  <2>. QED
    BY <2>1, <2>2 DEF Followed
<1>9. ASSUME NEW who, LastFor(q, K, who)
      PROVE  LastFor(r, K, who) /\ (x[1] \in K /\ ~Holds(r, K) => x[2] = who)
  <2>1. ASSUME NEW i \in DOMAIN r, r[i][1] \in K, \A j \in DOMAIN r : r[j][1] \in K => j <= i
        PROVE  r[i][2] = who
    <3>1. i + 1 \in DOMAIN q /\ q[i + 1] = r[i] /\ i \in Nat \ {0}
      BY <1>2
    <3>2. ASSUME NEW j \in DOMAIN q, q[j][1] \in K PROVE j <= i + 1
      <4>1. CASE j = 1
        BY <3>1, <4>1
      <4>2. CASE j # 1
        <5>1. j - 1 \in DOMAIN r /\ r[j - 1] = q[j] /\ j \in Int
          BY <1>3, <4>2
        <5>2. j - 1 <= i
          BY <2>1, <3>2, <5>1
        <5>. QED
          BY <3>1, <5>1, <5>2
      <4>. QED
        BY <4>1, <4>2
    <3>3. q[i + 1][1] \in K
      BY <2>1, <3>1
    <3>4. q[i + 1][2] = who
      BY <1>9, <3>1, <3>2, <3>3 DEF LastFor
    <3>. QED
      BY <3>1, <3>4
  <2>2. ASSUME x[1] \in K, ~Holds(r, K) PROVE x[2] = who
    <3>1. \A j \in DOMAIN q : q[j][1] \in K => j = 1
      BY <1>3, <2>2 DEF Holds
    <3>2. 1 \in DOMAIN q /\ q[1] = x /\ \A j \in DOMAIN q : q[j][1] \in K => j <= 1
      BY <1>1, <3>1
    <3>. QED
      BY <1>9, <2>2, <3>2 DEF LastFor
  <2>. QED
    BY <2>1, <2>2 DEF LastFor
<1>. QED
  BY <1>4, <1>5, <1>6, <1>7, <1>8, <1>9

\* What both queues say of these kinds is the same.
Alike(q, r, K, L) ==
  /\ Holds(r, K) <=> Holds(q, K)
  /\ \A who : HoldsFor(r, K, who) <=> HoldsFor(q, K, who)
  /\ Once(q, K) => Once(r, K)
  /\ Before(q, K, L) => Before(r, K, L)
  /\ Followed(q, K, L) => Followed(r, K, L)
  /\ \A who : LastFor(q, K, who) => LastFor(r, K, who)

LEMMA AddedAlike ==
  ASSUME NEW S, NEW q \in Seq(S), NEW x, NEW r, r = Append(q, x), NEW J, x[1] \notin J,
         NEW K \in SUBSET J, NEW L \in SUBSET J
  PROVE  Alike(q, r, K, L)
BY Added DEF Alike

\* What is not about these kinds changes nothing of them.
LEMMA PlainKeeps ==
  ASSUME NEW S, NEW q \in Seq(S), NEW r, NEW J, Plain(q, r, J), NEW K \in SUBSET J, NEW L \in SUBSET J
  PROVE  Alike(q, r, K, L)
<1>1. CASE r = q
  BY <1>1 DEF Alike
<1>2. ASSUME NEW x, x[1] \notin J, r = Append(q, x)
      PROVE  Alike(q, r, K, L)
  BY <1>2, AddedAlike
<1>3. ASSUME NEW x, NEW y, x[1] \notin J, y[1] \notin J, r = Append(Append(q, x), y)
      PROVE  Alike(q, r, K, L)
  <2> DEFINE m == Append(q, x)
  <2>1. q \in Seq(S \cup {x}) /\ x \in S \cup {x}
    OBVIOUS
  <2>2. m \in Seq(S \cup {x}) /\ Alike(q, m, K, L)
    BY <1>3, <2>1, AddedAlike, AppendProperties
  <2>3. r = Append(m, y)
    BY <1>3
  <2>. HIDE DEF m
  <2>4. Alike(m, r, K, L)
    BY <1>3, <2>2, <2>3, AddedAlike
  <2>. QED
    BY <2>2, <2>4 DEF Alike
<1>4. ASSUME q # <<>>, Head(q)[1] \notin J, r = Tail(q)
      PROVE  Alike(q, r, K, L)
  BY <1>4, Taken DEF Alike
<1>. QED
  BY <1>1, <1>2, <1>3, <1>4 DEF Plain

LEMMA CapturesPlain ==
  ASSUME NEW kind, NEW who, Captures(kind, who), NEW K, kind \notin K
  PROVE  Plain(capture, capture', K)
BY DEF Captures, Plain

LEMMA NextCapturePlain ==
  ASSUME NEW kind, NEW who, NextCapture(kind, who), NEW K, kind \notin K
  PROVE  Plain(capture, capture', K)
BY DEF NextCapture, Plain

\* The main queue gets a job, or two.
LEMMA MainsAppends ==
  ASSUME NativeTypeOK, NEW x, NEW y
  PROVE  /\ main \o <<x>> = Append(main, x)
         /\ main \o <<x, y>> = Append(Append(main, x), y)
<1>1. main \in Seq(MainJobs \cup {x, y}) /\ x \in MainJobs \cup {x, y} /\ y \in MainJobs \cup {x, y}
  BY DEF NativeTypeOK
<1>. QED
  BY <1>1

LEMMA MainsPlain ==
  ASSUME NativeTypeOK, NEW kind, NEW who, Mains(<<<<kind, who>>>>), NEW K, kind \notin K
  PROVE  Plain(main, main', K)
<1>1. main' = Append(main, <<kind, who>>)
  BY MainsAppends DEF Mains
<1>. QED
  BY <1>1 DEF Plain

LEMMA NextMainPlain ==
  ASSUME NEW kind, NEW who, NextMain(kind, who), NEW K, kind \notin K
  PROVE  Plain(main, main', K)
BY DEF NextMain, Plain

LEMMA SamePlain == ASSUME NEW q, NEW K PROVE Plain(q, q, K)
BY DEF Plain

-----------------------------------------------------------------------------
(* The types.                                                              *)

LEMMA CapturesTypes ==
  ASSUME NativeTypeOK, NEW kind, NEW who, <<kind, who>> \in CaptureJobs, Captures(kind, who)
  PROVE  capture' \in Seq(CaptureJobs)
<1>1. capture' = Append(capture, <<kind, who>>) /\ capture \in Seq(CaptureJobs)
  BY DEF Captures, NativeTypeOK
<1>. QED
  BY <1>1, Longer

LEMMA NextCaptureTypes ==
  ASSUME NativeTypeOK, NEW kind, NEW who, NextCapture(kind, who)
  PROVE  capture' \in Seq(CaptureJobs) /\ <<kind, who>> \in CaptureJobs
<1>1. /\ capture' = Tail(capture) /\ capture # <<>> /\ Head(capture) = <<kind, who>>
      /\ capture \in Seq(CaptureJobs)
  BY DEF NextCapture, NativeTypeOK
<1>. QED
  BY <1>1, Shorter

LEMMA MainsTypes ==
  ASSUME NativeTypeOK, NEW jobs \in Seq(MainJobs), Mains(jobs)
  PROVE  main' \in Seq(MainJobs)
<1>1. main' = main \o jobs /\ main \in Seq(MainJobs)
  BY DEF Mains, NativeTypeOK
<1>. QED
  BY <1>1, ConcatProperties

LEMMA NextMainTypes ==
  ASSUME NativeTypeOK, NEW kind, NEW who, NextMain(kind, who)
  PROVE  main' \in Seq(MainJobs) /\ <<kind, who>> \in MainJobs
<1>1. /\ main' = Tail(main) /\ main # <<>> /\ Head(main) = <<kind, who>>
      /\ main \in Seq(MainJobs)
  BY DEF NextMain, NativeTypeOK
<1>. QED
  BY <1>1, Shorter

LEMMA TellsMutedTypes ==
  ASSUME NativeTypeOK, TellsMuted, pageMuted' \in BOOLEAN
  PROVE  capture' \in Seq(CaptureJobs)
<1>1. CASE Captures("mute", pageMuted')
  BY <1>1, CapturesTypes DEF CaptureJobs
<1>2. CASE UNCHANGED capture
  BY <1>2 DEF NativeTypeOK
<1>. QED
  BY <1>1, <1>2 DEF TellsMuted

\* The page.
LEMMA PageTypes ==
  ASSUME NativeTypeOK,
         \/ \E p \in Presses : Press(p) \/ Prompted(p) \/ Woken(p)
         \/ PageMutes \/ Poll \/ Hangup \/ Leave
  PROVE  NativeTypeOK'
<1>1. ASSUME NEW p \in Presses, Press(p) PROVE NativeTypeOK'
  BY <1>1 DEF Press, NativeTypeOK, recordVars, talkVars, Busy
<1>2. ASSUME NEW p \in Presses, Prompted(p) PROVE NativeTypeOK'
  <2>1. capture' \in Seq(CaptureJobs)
    BY <1>2, CapturesTypes DEF Prompted, CaptureJobs
  <2>. QED
    BY <1>2, <2>1 DEF Prompted, NativeTypeOK, micVars, recordVars, talkVars, Busy
<1>3. ASSUME NEW p \in Presses, Woken(p) PROVE NativeTypeOK'
  <2>1. capture' \in Seq(CaptureJobs)
    BY <1>3, TellsMutedTypes DEF Woken, NativeTypeOK
  <2>. QED
    BY <1>3, <2>1 DEF Woken, NativeTypeOK, micVars, recordVars, talkVars
<1>4. CASE PageMutes
  <2>1. capture' \in Seq(CaptureJobs)
    BY <1>4, TellsMutedTypes DEF PageMutes, NativeTypeOK
  <2>. QED
    BY <1>4, <2>1 DEF PageMutes, NativeTypeOK, micVars, recordVars, talkVars
<1>5. CASE Poll
  BY <1>5 DEF Poll, NativeTypeOK, micVars, recordVars, talkVars
<1>6. CASE Hangup \/ Leave
  <2>1. ASSUME Quits PROVE capture' \in Seq(CaptureJobs)
    <3>1. CASE Captures("stop", Nobody)
      BY <3>1, CapturesTypes DEF CaptureJobs
    <3>2. CASE UNCHANGED capture
      BY <3>2 DEF NativeTypeOK
    <3>. QED
      BY <2>1, <3>1, <3>2 DEF Quits
  <2>2. Quits /\ mounted' \in BOOLEAN /\ loose' \in BOOLEAN
    BY <1>6 DEF Hangup, Leave, NativeTypeOK
  <2>. QED
    BY <2>1, <2>2 DEF Quits, NativeTypeOK, micVars, recordVars, talkVars
<1>. QED
  BY <1>1, <1>2, <1>3, <1>4, <1>5, <1>6

LEMMA ToldTypes ==
  ASSUME NativeTypeOK, NEW p \in Presses, Told(p) \/ Refused(p)
  PROVE  NativeTypeOK'
<1>1. main' \in Seq(MainJobs)
  BY NextMainTypes DEF Told, Refused
<1>2. Goes(p) /\ nativeRef' \in BOOLEAN /\ shown' \in BOOLEAN
  BY DEF Told, Refused, NativeTypeOK
<1>3. capture' \in Seq(CaptureJobs)
  BY <1>2, TellsMutedTypes DEF Goes, NativeTypeOK
<1>. QED
  BY <1>1, <1>2, <1>3 DEF Goes, NativeTypeOK, micVars, recordVars, talkVars, Busy

\* The session, on the capture queue.
LEMMA MicTypes ==
  ASSUME NativeTypeOK,
         \/ \E p \in Presses : RunStart(p) \/ StartFails(p) \/ RunDenied(p)
         \/ RunStop \/ RunRecover \/ WatchdogFires \/ Trouble
         \/ \E b \in BOOLEAN : RunMute(b)
  PROVE  NativeTypeOK'
<1>1. ASSUME NEW p \in Presses, RunStart(p) \/ StartFails(p) \/ RunDenied(p) PROVE NativeTypeOK'
  <2>1. capture' \in Seq(CaptureJobs)
    BY <1>1, NextCaptureTypes DEF RunStart, StartFails, RunDenied
  <2>2. \A how \in {"told", "refused"} : <<<<how, p>>>> \in Seq(MainJobs)
    BY DEF MainJobs
  <2>3. PICK how \in {"told", "refused"} : Tells(how, p)
    BY <1>1 DEF RunStart, StartFails, RunDenied
  <2>4. main' \in Seq(MainJobs)
    BY <2>2, <2>3, MainsTypes DEF Tells
  <2>5. /\ {owner', upload'} \subseteq Presses \cup {Nobody} /\ engine' \in {"on", "off"}
        /\ {active', watchdog', muted', orphaned', hushed', recording', inFlight', gone'} \subseteq BOOLEAN
    BY <1>1 DEF RunStart, StartFails, RunDenied, NativeTypeOK, micVars, recordVars
  <2>. QED
    BY <2>1, <2>3, <2>4, <2>5 DEF Tells, NativeTypeOK, talkVars, Busy
<1>2. CASE RunStop
  <2>1. capture' \in Seq(CaptureJobs)
    BY <1>2, NextCaptureTypes DEF RunStop
  <2>2. main' \in Seq(MainJobs)
    BY <1>2, MainsTypes DEF RunStop, MainJobs
  <2>. QED
    BY <1>2, <2>1, <2>2 DEF RunStop, NativeTypeOK, MicRest, buttonVars, talkVars
<1>3. CASE RunRecover
  <2>1. capture' \in Seq(CaptureJobs)
    BY <1>3, NextCaptureTypes DEF RunRecover
  <2>. QED
    BY <1>3, <2>1 DEF RunRecover, Recovers, RecoverFails, NativeTypeOK, MicRest, buttonVars,
       talkVars, recordVars
<1>4. CASE WatchdogFires
  BY <1>4 DEF WatchdogFires, Recovers, NativeTypeOK, MicRest, buttonVars, talkVars, recordVars
<1>5. CASE Trouble
  <2>1. capture' \in Seq(CaptureJobs)
    BY <1>5, CapturesTypes DEF Trouble, CaptureJobs, NativeTypeOK
  <2>2. troubles' \in 0..MaxTroubles
    BY <1>5, TroubleBound DEF Trouble, NativeTypeOK
  <2>. QED
    BY <1>5, <2>1, <2>2 DEF Trouble, NativeTypeOK, buttonVars, talkVars, recordVars
<1>6. ASSUME NEW b \in BOOLEAN, RunMute(b) PROVE NativeTypeOK'
  <2>1. capture' \in Seq(CaptureJobs)
    BY <1>6, NextCaptureTypes DEF RunMute
  <2>. QED
    BY <1>6, <2>1 DEF RunMute, NativeTypeOK, MicRest, buttonVars, talkVars
<1>. QED
  BY <1>1, <1>2, <1>3, <1>4, <1>5, <1>6

\* What is said.
LEMMA RecordTypes ==
  ASSUME NativeTypeOK,
         \/ Speech \/ Silence \/ SilenceRefused \/ Answered \/ RunAnswer \/ RunBegin \/ RunEnd
         \/ TaskExpires \/ RunExpired \/ RunHush \/ TailOver
  PROVE  NativeTypeOK'
<1>1. CASE Speech \/ TailOver
  BY <1>1 DEF Speech, TailOver, NativeTypeOK, micVars, MicRest, buttonVars, talkVars
<1>2. CASE Silence
  <2>1. main' \in Seq(MainJobs)
    BY <1>2, MainsTypes DEF Silence, MainJobs
  <2>2. gone' \in BOOLEAN
    BY <1>2 DEF Silence, Late
  <2>. QED
    BY <1>2, <2>1, <2>2 DEF Silence, NativeTypeOK, micVars, MicRest, buttonVars, talkVars
<1>3. CASE SilenceRefused
  <2>1. main' \in Seq(MainJobs)
    <3>1. <<"begin", Nobody>> \in MainJobs /\ <<"end", Nobody>> \in MainJobs
      BY DEF MainJobs
    <3> DEFINE jobs == <<<<"begin", Nobody>>, <<"end", Nobody>>>>
    <3>2. jobs \in Seq(MainJobs)
      BY <3>1
    <3>3. Mains(jobs)
      BY <1>3 DEF SilenceRefused
    <3>. HIDE DEF jobs
    <3>. QED
      BY <3>2, <3>3, MainsTypes
  <2>2. gone' \in BOOLEAN
    BY <1>3 DEF SilenceRefused, Late
  <2>. QED
    BY <1>3, <2>1, <2>2 DEF SilenceRefused, NativeTypeOK, micVars, MicRest, buttonVars, talkVars
<1>4. CASE Answered
  <2>1. capture' \in Seq(CaptureJobs)
    BY <1>4, CapturesTypes DEF Answered, CaptureJobs
  <2>. QED
    BY <1>4, <2>1 DEF Answered, NativeTypeOK, micVars, MicRest, buttonVars, talkVars, recordVars
<1>5. CASE RunAnswer
  <2>1. capture' \in Seq(CaptureJobs)
    BY <1>5, NextCaptureTypes DEF RunAnswer
  <2>2. main' \in Seq(MainJobs)
    BY <1>5, MainsTypes DEF RunAnswer, MainJobs
  <2>. QED
    BY <1>5, <2>1, <2>2 DEF RunAnswer, NativeTypeOK, micVars, MicRest, buttonVars, talkVars
<1>6. CASE RunBegin \/ RunEnd
  <2>1. main' \in Seq(MainJobs)
    BY <1>6, NextMainTypes DEF RunBegin, RunEnd
  <2>. QED
    BY <1>6, <2>1 DEF RunBegin, RunEnd, NativeTypeOK, micVars, recordVars, buttonVars, talkVars
<1>7. CASE TaskExpires
  <2>1. capture' \in Seq(CaptureJobs)
    BY <1>7, CapturesTypes DEF TaskExpires, CaptureJobs
  <2>. QED
    BY <1>7, <2>1 DEF TaskExpires, NativeTypeOK, micVars, MicRest, buttonVars, talkVars
<1>8. CASE RunExpired
  <2>1. capture' \in Seq(CaptureJobs)
    BY <1>8, NextCaptureTypes DEF RunExpired
  <2>2. main' \in Seq(MainJobs)
    BY <1>8, MainsTypes DEF RunExpired, MainJobs
  <2>. QED
    BY <1>8, <2>1, <2>2 DEF RunExpired, NativeTypeOK, micVars, MicRest, buttonVars, talkVars,
       recordVars
<1>9. CASE RunHush
  <2>1. capture' \in Seq(CaptureJobs)
    BY <1>9, NextCaptureTypes DEF RunHush
  <2>. QED
    BY <1>9, <2>1 DEF RunHush, NativeTypeOK, micVars, MicRest, buttonVars, talkVars
<1>. QED
  BY <1>1, <1>2, <1>3, <1>4, <1>5, <1>6, <1>7, <1>8, <1>9

LEMMA SettlesTypes ==
  ASSUME NativeTypeOK, NEW calls, Settles(calls)
  PROVE  talk' \in [Talks -> {"idle", "waiting", "heard", "told"}]
BY DEF Settles, NativeTypeOK

\* What is answered.
LEMMA TalkTypes ==
  ASSUME NativeTypeOK,
         \/ \E t \in Talks : Talk(t) \/ RunTalk(t) \/ RunRefuse(t) \/ RunPlay(t) \/ RunSpeak(t)
         \/ RunSilence \/ StopAudio \/ PlayerEnds \/ SpeechStarts \/ SpeechEnds
         \/ \E u \in Talks : SpeechCancelled(u)
  PROVE  NativeTypeOK'
<1>1. ASSUME NEW t \in Talks, Talk(t) PROVE NativeTypeOK'
  <2>1. capture' \in Seq(CaptureJobs)
    BY <1>1, CapturesTypes DEF Talk, CaptureJobs
  <2>. QED
    BY <1>1, <2>1 DEF Talk, NativeTypeOK, PlayerRest, buttonVars, micVars, recordVars
<1>2. ASSUME NEW t \in Talks, RunTalk(t) PROVE NativeTypeOK'
  <2>1. PICK kind \in {"play", "speak"}, job \in {"play", "speak", "refuse"} :
          NextCapture(kind, t) /\ Mains(<<<<job, t>>>>)
    BY <1>2 DEF RunTalk
  <2>2. capture' \in Seq(CaptureJobs)
    BY <2>1, NextCaptureTypes
  <2>3. main' \in Seq(MainJobs)
    BY <2>1, MainsTypes DEF MainJobs
  <2>. QED
    BY <1>2, <2>2, <2>3 DEF RunTalk, NativeTypeOK, PlayerRest, buttonVars, micVars, recordVars,
       talkVars
<1>3. ASSUME NEW t \in Talks, RunRefuse(t) \/ RunPlay(t) \/ RunSpeak(t) PROVE NativeTypeOK'
  <2>1. main' \in Seq(MainJobs)
    BY <1>3, NextMainTypes DEF RunRefuse, RunPlay, RunSpeak
  <2>2. talk' \in [Talks -> {"idle", "waiting", "heard", "told"}]
    BY <1>3, SettlesTypes DEF RunRefuse, RunPlay, RunSpeak
  <2>. QED
    BY <1>3, <2>1, <2>2 DEF RunRefuse, RunPlay, RunSpeak, StopsSpeech, NativeTypeOK, PlayerRest,
       buttonVars, micVars, recordVars
<1>4. CASE RunSilence
  <2>1. main' \in Seq(MainJobs)
    BY <1>4, NextMainTypes DEF RunSilence
  <2>2. talk' \in [Talks -> {"idle", "waiting", "heard", "told"}]
    BY <1>4, SettlesTypes DEF RunSilence, Silences
  <2>. QED
    BY <1>4, <2>1, <2>2 DEF RunSilence, Silences, StopsSpeech, NativeTypeOK, PlayerRest, buttonVars,
       micVars, recordVars
<1>5. CASE StopAudio
  <2>1. main' \in Seq(MainJobs)
    BY <1>5, MainsTypes DEF StopAudio, MainJobs
  <2>. QED
    BY <1>5, <2>1 DEF StopAudio, NativeTypeOK, PlayerRest, buttonVars, micVars, recordVars, talkVars
<1>6. CASE PlayerEnds \/ SpeechStarts \/ SpeechEnds \/ \E u \in Talks : SpeechCancelled(u)
  <2>1. Captures("hush", Nobody) \/ UNCHANGED capture
    BY <1>6 DEF PlayerEnds, SpeechStarts, SpeechEnds, SpeechCancelled
  <2>2. capture' \in Seq(CaptureJobs)
    BY <2>1, CapturesTypes DEF CaptureJobs, NativeTypeOK
  <2>3. talk' \in [Talks -> {"idle", "waiting", "heard", "told"}]
    <3>1. CASE PlayerEnds \/ SpeechEnds \/ \E u \in Talks : SpeechCancelled(u)
      BY <3>1, SettlesTypes DEF PlayerEnds, SpeechEnds, SpeechCancelled
    <3>2. CASE SpeechStarts
      BY <3>2 DEF SpeechStarts, NativeTypeOK
    <3>. QED
      BY <1>6, <3>1, <3>2
  <2>. QED
    BY <1>6, <2>2, <2>3 DEF PlayerEnds, SpeechStarts, SpeechEnds, SpeechCancelled, NativeTypeOK,
       PlayerRest, buttonVars, micVars, recordVars
<1>. QED
  BY <1>1, <1>2, <1>3, <1>4, <1>5, <1>6

-----------------------------------------------------------------------------
(* The microphone and the recording.                                       *)

\* The microphone is open and recorded only when it may be.
MicInv == MicKnown /\ RecordsWhenAsked

MicAside == UNCHANGED <<micVars, hushed, recording, inFlight>>

LEMMA PageLeavesMic ==
  ASSUME \/ \E p \in Presses : Prompted(p) \/ Woken(p) \/ Told(p) \/ Refused(p) \/ RunDenied(p)
         \/ PageMutes \/ Poll \/ Hangup \/ Leave
  PROVE  MicAside
BY DEF Prompted, Woken, Told, Refused, Goes, RunDenied, PageMutes, Poll, Hangup, Leave, Quits,
       MicAside, recordVars

LEMMA TalkLeavesMic ==
  ASSUME \/ \E t \in Talks : Talk(t) \/ RunTalk(t) \/ RunRefuse(t) \/ RunPlay(t) \/ RunSpeak(t)
         \/ RunSilence \/ StopAudio \/ PlayerEnds \/ SpeechStarts \/ SpeechEnds
         \/ \E u \in Talks : SpeechCancelled(u)
  PROVE  MicAside /\ UNCHANGED <<buttonVars, upload, gone, task>>
BY DEF Talk, RunTalk, RunRefuse, RunPlay, RunSpeak, RunSilence, Silences, StopAudio, PlayerEnds,
       SpeechStarts, SpeechEnds, SpeechCancelled, PlayerRest, MicAside, recordVars

LEMMA TaskLeavesMic ==
  ASSUME Answered \/ RunBegin \/ RunEnd \/ TaskExpires \/ RunExpired
  PROVE  MicAside
BY DEF Answered, RunBegin, RunEnd, TaskExpires, RunExpired, MicAside, recordVars

LEMMA MicStep ==
  ASSUME NativeTypeOK, MicInv, NativeNext
  PROVE  MicInv'
<1>1. /\ {active, orphaned, muted, hushed, recording, inFlight} \subseteq BOOLEAN
      /\ engine \in {"on", "off"}
      /\ engine = "on" => active \/ orphaned
      /\ recording => (active \/ orphaned) /\ ~muted /\ ~hushed /\ ~inFlight
  BY DEF NativeTypeOK, MicInv, MicKnown, RecordsWhenAsked
<1>2. SUFFICES /\ engine' = "on" => active' \/ orphaned'
               /\ recording' => (active' \/ orphaned') /\ ~muted' /\ ~hushed' /\ ~inFlight'
  BY DEF MicInv, MicKnown, RecordsWhenAsked
<1>3. CASE MicAside
  BY <1>1, <1>3 DEF MicAside, micVars
<1>4. ASSUME NEW p \in Presses, Press(p) \/ RunStart(p) \/ StartFails(p)
      PROVE  /\ engine' = "on" => active' \/ orphaned'
             /\ recording' => (active' \/ orphaned') /\ ~muted' /\ ~hushed' /\ ~inFlight'
  BY <1>1, <1>4 DEF Press, RunStart, StartFails, recordVars
<1>5. CASE RunStop \/ RunRecover \/ WatchdogFires \/ Trouble \/ \E b \in BOOLEAN : RunMute(b)
  BY <1>1, <1>5 DEF RunStop, RunRecover, Recovers, RecoverFails, WatchdogFires, Trouble, RunMute,
     recordVars
<1>6. CASE Speech \/ Silence \/ SilenceRefused \/ RunAnswer \/ RunHush \/ TailOver
  BY <1>1, <1>6 DEF Speech, Silence, SilenceRefused, RunAnswer, RunHush, TailOver, micVars
<1>. QED
  BY <1>3, <1>4, <1>5, <1>6, PageLeavesMic, TalkLeavesMic, TaskLeavesMic
     DEF NativeNext, CaptureRuns, MainRuns, Page, System

-----------------------------------------------------------------------------
(* Which jobs the steps add and take.                                      *)

\* The jobs of the capture queue that the page waits for, and those of the task.
ForPage == {"start", "denied", "stop", "mute"}
ForTask == {"expired"}

\* The page, and the session it starts and stops.
Paging ==
  \/ \E p \in Presses :
       \/ Press(p) \/ Prompted(p) \/ Woken(p) \/ RunStart(p) \/ StartFails(p) \/ RunDenied(p)
       \/ Told(p) \/ Refused(p)
  \/ PageMutes \/ Poll \/ Hangup \/ Leave \/ RunStop \/ \E b \in BOOLEAN : RunMute(b)

\* The engine, which the system stops and the plugin starts again.
Recovering == RunRecover \/ WatchdogFires \/ Trouble

\* What is said, from the recording to the end of its background task.
Hearing ==
  \/ Speech \/ Silence \/ SilenceRefused \/ Answered \/ RunAnswer \/ RunBegin \/ RunEnd
  \/ TaskExpires \/ RunExpired \/ RunHush \/ TailOver

\* What is answered.
Answering ==
  \/ \E t \in Talks : Talk(t) \/ RunTalk(t) \/ RunRefuse(t) \/ RunPlay(t) \/ RunSpeak(t)
  \/ RunSilence \/ StopAudio \/ PlayerEnds \/ SpeechStarts \/ SpeechEnds
  \/ \E u \in Talks : SpeechCancelled(u)

LEMMA StepKinds == NativeNext => Paging \/ Recovering \/ Hearing \/ Answering
BY DEF NativeNext, CaptureRuns, MainRuns, Page, System, Paging, Recovering, Hearing, Answering

LEMMA TellsMutedPlain ==
  ASSUME TellsMuted, NEW K, "mute" \notin K
  PROVE  Plain(capture, capture', K)
<1>1. CASE Captures("mute", pageMuted')
  BY <1>1, CapturesPlain
<1>2. CASE UNCHANGED capture
  BY <1>2, SamePlain
<1>. QED
  BY <1>1, <1>2 DEF TellsMuted

LEMMA QuitsPlain ==
  ASSUME Quits, NEW K, "stop" \notin K
  PROVE  Plain(capture, capture', K)
<1>1. CASE Captures("stop", Nobody)
  BY <1>1, CapturesPlain
<1>2. CASE UNCHANGED capture
  BY <1>2, SamePlain
<1>. QED
  BY <1>1, <1>2 DEF Quits

LEMMA PagingPlain ==
  ASSUME NativeTypeOK, Paging
  PROVE  /\ Plain(capture, capture', ForTask \cup Calling)
         /\ Plain(main, main', {"begin", "end"} \cup Calling)
         /\ UNCHANGED <<talkVars, inFlight, upload, gone, task>>
<1> DEFINE K == ForTask \cup Calling
           L == {"begin", "end"} \cup Calling
<1>1. /\ "start" \notin K /\ "denied" \notin K /\ "stop" \notin K /\ "mute" \notin K
      /\ "told" \notin L /\ "refused" \notin L /\ "silence" \notin L
  BY DEF ForTask, Calling, Calling
<1>. HIDE DEF K, L
<1>2. ASSUME Poll \/ \E p \in Presses : Press(p)
      PROVE  Plain(capture, capture', K) /\ Plain(main, main', L)
  BY <1>2, SamePlain DEF Press, Poll
<1>3. ASSUME NEW p \in Presses, Prompted(p)
      PROVE  Plain(capture, capture', K) /\ Plain(main, main', L)
  BY <1>1, <1>3, CapturesPlain, SamePlain DEF Prompted
<1>4. ASSUME PageMutes \/ \E p \in Presses : Woken(p)
      PROVE  Plain(capture, capture', K) /\ Plain(main, main', L)
  BY <1>1, <1>4, TellsMutedPlain, SamePlain DEF Woken, PageMutes
<1>5. ASSUME NEW p \in Presses, RunStart(p) \/ StartFails(p) \/ RunDenied(p)
      PROVE  Plain(capture, capture', K) /\ Plain(main, main', L)
  <2>1. PICK kind \in {"start", "denied"}, how \in {"told", "refused"} :
          NextCapture(kind, p) /\ Mains(<<<<how, p>>>>)
    BY <1>5 DEF RunStart, StartFails, RunDenied, Tells
  <2>. QED
    BY <1>1, <2>1, NextCapturePlain, MainsPlain
<1>6. ASSUME NEW p \in Presses, Told(p) \/ Refused(p)
      PROVE  Plain(capture, capture', K) /\ Plain(main, main', L)
  <2>1. PICK how \in {"told", "refused"} : NextMain(how, p) /\ TellsMuted
    BY <1>6 DEF Told, Refused, Goes
  <2>. QED
    BY <1>1, <2>1, TellsMutedPlain, NextMainPlain
<1>7. ASSUME Hangup \/ Leave
      PROVE  Plain(capture, capture', K) /\ Plain(main, main', L)
  BY <1>1, <1>7, QuitsPlain, SamePlain DEF Hangup, Leave, Quits
<1>8. ASSUME RunStop
      PROVE  Plain(capture, capture', K) /\ Plain(main, main', L)
  <2>1. NextCapture("stop", Nobody) /\ Mains(<<<<"silence", Nobody>>>>)
    BY <1>8 DEF RunStop
  <2>. QED
    BY <1>1, <2>1, NextCapturePlain, MainsPlain
<1>9. ASSUME NEW b \in BOOLEAN, RunMute(b)
      PROVE  Plain(capture, capture', K) /\ Plain(main, main', L)
  BY <1>1, <1>9, NextCapturePlain, SamePlain DEF RunMute
<1>10. UNCHANGED <<talkVars, inFlight, upload, gone, task>>
  BY DEF Paging, Press, Prompted, Woken, RunStart, StartFails, RunDenied, Tells, Told, Refused,
     Goes,
     PageMutes, Poll, Hangup, Leave, Quits, RunStop, RunMute, recordVars, MicRest
<1>11. Plain(capture, capture', K) /\ Plain(main, main', L)
  BY <1>2, <1>3, <1>4, <1>5, <1>6, <1>7, <1>8, <1>9 DEF Paging
<1>. QED
  BY <1>10, <1>11 DEF K, L

LEMMA RecoveringPlain ==
  ASSUME NativeTypeOK, Recovering
  PROVE  /\ Plain(capture, capture', ForPage \cup ForTask \cup Calling)
         /\ main' = main
         /\ UNCHANGED <<buttonVars, talkVars, owner, active, muted, inFlight, upload, gone, task>>
<1>1. \/ NextCapture("recover", Nobody) \/ Captures("recover", Nobody) \/ UNCHANGED capture
  BY DEF Recovering, RunRecover, WatchdogFires, Trouble
<1>2. "recover" \notin ForPage \cup ForTask \cup Calling
  BY DEF ForPage, ForTask, Calling
<1>3. Plain(capture, capture', ForPage \cup ForTask \cup Calling)
  <2> DEFINE K == ForPage \cup ForTask \cup Calling
  <2>. HIDE DEF K
  <2>1. "recover" \notin K
    BY <1>2 DEF K
  <2>2. Plain(capture, capture', K)
    BY <1>1, <2>1, NextCapturePlain, CapturesPlain, SamePlain
  <2>. QED
    BY <2>2 DEF K
<1>. QED
  BY <1>3 DEF Recovering, RunRecover, WatchdogFires, Trouble, MicRest, recordVars

LEMMA HearingPlain ==
  ASSUME NativeTypeOK, Hearing
  PROVE  /\ Plain(capture, capture', ForPage \cup Calling)
         /\ Plain(main, main', Telling \cup Calling)
         /\ UNCHANGED <<buttonVars, talkVars, micVars>>
<1> DEFINE K == ForPage \cup Calling
           L == Telling \cup Calling
<1>1. /\ "answer" \notin K /\ "expired" \notin K /\ "hush" \notin K
      /\ "begin" \notin L /\ "end" \notin L
  BY DEF ForPage, Calling, Telling, Calling
<1>. HIDE DEF K, L
<1>2. ASSUME Speech \/ TailOver
      PROVE  Plain(capture, capture', K) /\ Plain(main, main', L)
  BY <1>2, SamePlain DEF Speech, TailOver
<1>3. ASSUME Silence
      PROVE  Plain(capture, capture', K) /\ Plain(main, main', L)
  BY <1>1, <1>3, SamePlain, MainsPlain DEF Silence
<1>4. ASSUME SilenceRefused
      PROVE  Plain(capture, capture', K) /\ Plain(main, main', L)
  <2>1. main' = Append(Append(main, <<"begin", Nobody>>), <<"end", Nobody>>)
    BY <1>4, MainsAppends DEF SilenceRefused, Mains
  <2>2. Plain(main, main', L)
    BY <1>1, <2>1 DEF Plain
  <2>. QED
    BY <1>4, <2>2, SamePlain DEF SilenceRefused
<1>5. ASSUME Answered \/ TaskExpires
      PROVE  Plain(capture, capture', K) /\ Plain(main, main', L)
  BY <1>1, <1>5, SamePlain, CapturesPlain DEF Answered, TaskExpires
<1>6. ASSUME RunAnswer \/ RunExpired
      PROVE  Plain(capture, capture', K) /\ Plain(main, main', L)
  BY <1>1, <1>6, NextCapturePlain, MainsPlain DEF RunAnswer, RunExpired
<1>7. ASSUME RunBegin \/ RunEnd
      PROVE  Plain(capture, capture', K) /\ Plain(main, main', L)
  BY <1>1, <1>7, NextMainPlain, SamePlain DEF RunBegin, RunEnd
<1>8. ASSUME RunHush
      PROVE  Plain(capture, capture', K) /\ Plain(main, main', L)
  BY <1>1, <1>8, NextCapturePlain, SamePlain DEF RunHush
<1>9. UNCHANGED <<buttonVars, talkVars, micVars>>
  BY DEF Hearing, Speech, TailOver, Silence, SilenceRefused, Answered, TaskExpires, RunAnswer,
     RunExpired, RunBegin, RunEnd, RunHush, MicRest
<1>10. Plain(capture, capture', K) /\ Plain(main, main', L)
  BY <1>2, <1>3, <1>4, <1>5, <1>6, <1>7, <1>8 DEF Hearing
<1>. QED
  BY <1>9, <1>10 DEF K, L

LEMMA AnsweringPlain ==
  ASSUME NativeTypeOK, Answering
  PROVE  /\ Plain(capture, capture', ForPage \cup ForTask)
         /\ Plain(main, main', Telling \cup {"begin", "end"})
         /\ UNCHANGED <<buttonVars, micVars, recordVars, task>>
<1> DEFINE K == ForPage \cup ForTask
           L == Telling \cup {"begin", "end"}
<1>1. /\ "play" \notin K /\ "speak" \notin K /\ "hush" \notin K
      /\ "play" \notin L /\ "speak" \notin L /\ "refuse" \notin L /\ "silence" \notin L
  BY DEF ForPage, ForTask, Telling
<1>. HIDE DEF K, L
<1>2. ASSUME NEW t \in Talks, Talk(t)
      PROVE  Plain(capture, capture', K) /\ Plain(main, main', L)
  BY <1>1, <1>2, CapturesPlain, SamePlain DEF Talk
<1>3. ASSUME NEW t \in Talks, RunTalk(t)
      PROVE  Plain(capture, capture', K) /\ Plain(main, main', L)
  <2>1. PICK kind \in {"play", "speak"}, job \in {"play", "speak", "refuse"} :
          NextCapture(kind, t) /\ Mains(<<<<job, t>>>>)
    BY <1>3 DEF RunTalk
  <2>. QED
    BY <1>1, <2>1, NextCapturePlain, MainsPlain
<1>4. ASSUME NEW t \in Talks, RunRefuse(t) \/ RunPlay(t) \/ RunSpeak(t)
      PROVE  Plain(capture, capture', K) /\ Plain(main, main', L)
  BY <1>1, <1>4, SamePlain, NextMainPlain DEF RunRefuse, RunPlay, RunSpeak
<1>5. ASSUME RunSilence
      PROVE  Plain(capture, capture', K) /\ Plain(main, main', L)
  BY <1>1, <1>5, SamePlain, NextMainPlain DEF RunSilence, Silences
<1>6. ASSUME StopAudio
      PROVE  Plain(capture, capture', K) /\ Plain(main, main', L)
  BY <1>1, <1>6, SamePlain, MainsPlain DEF StopAudio
<1>7. ASSUME PlayerEnds \/ SpeechStarts \/ SpeechEnds \/ \E u \in Talks : SpeechCancelled(u)
      PROVE  Plain(capture, capture', K) /\ Plain(main, main', L)
  <2>1. (Captures("hush", Nobody) \/ UNCHANGED capture) /\ main' = main
    BY <1>7 DEF PlayerEnds, SpeechStarts, SpeechEnds, SpeechCancelled
  <2>. QED
    BY <1>1, <2>1, CapturesPlain, SamePlain
<1>8. UNCHANGED <<buttonVars, micVars, recordVars, task>>
  BY DEF Answering, Talk, RunTalk, RunRefuse, RunPlay, RunSpeak, RunSilence, Silences, StopAudio,
     PlayerEnds, SpeechStarts, SpeechEnds, SpeechCancelled, PlayerRest
<1>9. Plain(capture, capture', K) /\ Plain(main, main', L)
  BY <1>2, <1>3, <1>4, <1>5, <1>6, <1>7 DEF Answering
<1>. QED
  BY <1>8, <1>9 DEF K, L

-----------------------------------------------------------------------------
(* The task of a transcription.                                            *)

LEMMA TaskAside ==
  ASSUME NativeTypeOK, TaskInv, UNCHANGED <<inFlight, gone, task>>,
         Plain(capture, capture', ForTask), Plain(main, main', {"begin", "end"})
  PROVE  TaskInv'
<1>1. capture \in Seq(CaptureJobs) /\ main \in Seq(MainJobs)
  BY DEF NativeTypeOK
<1>2. Holds(capture', {"expired"}) <=> Holds(capture, {"expired"})
  <2>1. Alike(capture, capture', {"expired"}, {"expired"})
    BY <1>1, PlainKeeps DEF ForTask
  <2>. QED
    BY <2>1 DEF Alike
<1>3. /\ Holds(main', {"begin"}) <=> Holds(main, {"begin"})
      /\ Followed(main, {"begin"}, {"end"}) => Followed(main', {"begin"}, {"end"})
  <2>1. Alike(main, main', {"begin"}, {"end"})
    BY <1>1, PlainKeeps
  <2>. QED
    BY <2>1 DEF Alike
<1>4. /\ Holds(main', {"end"}) <=> Holds(main, {"end"})
      /\ Before(main, {"end"}, {"begin"}) => Before(main', {"end"}, {"begin"})
  <2>1. Alike(main, main', {"end"}, {"begin"})
    BY <1>1, PlainKeeps
  <2>. QED
    BY <2>1 DEF Alike
<1>5. inFlight' = inFlight /\ gone' = gone /\ task' = task
  OBVIOUS
<1>. QED
  BY <1>2, <1>3, <1>4, <1>5 DEF TaskInv

\* Begins and Late, as seen by their kinds.
LEMMA BeginsLate ==
  ASSUME NativeTypeOK
  PROVE  /\ Begins <=> Holds(main, {"begin"})
         /\ Late <=> Holds(capture, {"expired"})
<1>1. \A i \in DOMAIN main : main[i] \in MainJobs
  BY DEF NativeTypeOK
<1>2. \A x \in MainJobs : x[1] = "begin" <=> x = <<"begin", Nobody>>
  BY DEF MainJobs
<1>3. \A i \in DOMAIN capture : capture[i] \in CaptureJobs
  BY DEF NativeTypeOK
<1>4. \A x \in CaptureJobs : x[1] = "expired" <=> x = <<"expired", Nobody>>
  BY DEF CaptureJobs
<1>5. Begins <=> Holds(main, {"begin"})
  BY <1>1, <1>2 DEF Begins, Holds, ToSet
<1>6. Late <=> Holds(capture, {"expired"})
  BY <1>3, <1>4 DEF Late, Holds, ToSet
<1>. QED
  BY <1>5, <1>6

LEMMA PlainLess ==
  ASSUME NEW q, NEW r, NEW K, NEW J \in SUBSET K, Plain(q, r, K)
  PROVE  Plain(q, r, J)
BY DEF Plain

LEMMA TaskStep ==
  ASSUME NativeTypeOK, TaskInv, NativeNext
  PROVE  TaskInv'
<1>1. capture \in Seq(CaptureJobs) /\ main \in Seq(MainJobs)
  BY DEF NativeTypeOK
<1>2. CASE Paging
  <2>1. Plain(capture, capture', ForTask) /\ Plain(main, main', {"begin", "end"})
    BY <1>2, PagingPlain, PlainLess
  <2>. QED
    BY <1>2, <2>1, PagingPlain, TaskAside
<1>3. CASE Recovering
  <2>1. Plain(capture, capture', ForTask) /\ Plain(main, main', {"begin", "end"})
    BY <1>3, RecoveringPlain, PlainLess, SamePlain
  <2>. QED
    BY <1>3, <2>1, RecoveringPlain, TaskAside
<1>4. CASE Answering
  <2>1. Plain(capture, capture', ForTask) /\ Plain(main, main', {"begin", "end"})
    BY <1>4, AnsweringPlain, PlainLess
  <2>2. UNCHANGED <<inFlight, gone, task>>
    BY <1>4, AnsweringPlain DEF recordVars
  <2>. QED
    BY <2>1, <2>2, TaskAside
<1>5. CASE Speech \/ TailOver
  <2>1. Plain(capture, capture', ForTask) /\ Plain(main, main', {"begin", "end"})
    BY <1>5, SamePlain DEF Speech, TailOver
  <2>2. UNCHANGED <<inFlight, gone, task>>
    BY <1>5 DEF Speech, TailOver, MicRest
  <2>. QED
    BY <2>1, <2>2, TaskAside
<1>6. CASE Answered \/ RunHush
  <2>1. "answer" \notin ForTask /\ "hush" \notin ForTask
    BY DEF ForTask
  <2>2. Plain(capture, capture', ForTask) /\ Plain(main, main', {"begin", "end"})
    BY <1>6, <2>1, SamePlain, CapturesPlain, NextCapturePlain DEF Answered, RunHush
  <2>3. UNCHANGED <<inFlight, gone, task>>
    BY <1>6 DEF Answered, RunHush, MicRest, recordVars
  <2>. QED
    BY <2>2, <2>3, TaskAside
<1>7. CASE Silence
  <2>1. /\ ~inFlight /\ ~Holds(main, {"begin"}) /\ inFlight' = TRUE
        /\ (gone' <=> Holds(capture, {"expired"})) /\ capture' = capture /\ task' = task
        /\ main' = Append(main, <<"begin", Nobody>>)
    <3>1. /\ ~inFlight /\ ~Begins /\ inFlight' = TRUE /\ gone' = Late
          /\ capture' = capture /\ task' = task /\ Mains(<<<<"begin", Nobody>>>>)
      BY <1>7 DEF Silence, MicRest
    <3>2. gone' <=> Late
      BY <3>1
    <3>3. main' = Append(main, <<"begin", Nobody>>)
      BY <3>1, MainsAppends DEF Mains
    <3>. QED
      BY <3>1, <3>2, <3>3, BeginsLate
  <2>2. /\ Holds(main', {"begin"})
        /\ Before(main', {"end"}, {"begin"})
    <3>1. Before(main, {"end"}, {"begin"})
      BY <2>1 DEF Before, Holds
    <3>2. <<"begin", Nobody>>[1] = "begin"
      OBVIOUS
    <3>. QED
      BY <1>1, <2>1, <3>1, <3>2, Added
  <2>3. Holds(capture', {"expired"}) <=> Holds(capture, {"expired"})
    BY <2>1
  <2>. QED
    BY <2>1, <2>2, <2>3 DEF TaskInv
<1>8. CASE SilenceRefused
  <2> DEFINE m == Append(main, <<"begin", Nobody>>)
  <2>1. /\ ~inFlight /\ inFlight' = inFlight
        /\ (gone' <=> Holds(capture, {"expired"})) /\ capture' = capture /\ task' = task
        /\ main' = Append(m, <<"end", Nobody>>)
    <3>1. /\ ~inFlight /\ inFlight' = inFlight /\ gone' = Late
          /\ capture' = capture /\ task' = task
          /\ Mains(<<<<"begin", Nobody>>, <<"end", Nobody>>>>)
      BY <1>8 DEF SilenceRefused, MicRest
    <3>2. gone' <=> Late
      BY <3>1
    <3>3. main' = Append(m, <<"end", Nobody>>)
      BY <3>1, MainsAppends DEF Mains
    <3>. QED
      BY <3>1, <3>2, <3>3, BeginsLate
  <2>2. m \in Seq(MainJobs)
    BY <1>1 DEF MainJobs
  <2>3. <<"end", Nobody>>[1] \in {"end"} \ {"begin"} /\ <<"end", Nobody>>[1] \in {"end"}
    OBVIOUS
  <2>. HIDE DEF m
  <2>4. Followed(main', {"begin"}, {"end"}) /\ Holds(main', {"end"})
    BY <2>1, <2>2, <2>3, Added
  <2>5. Holds(capture', {"expired"}) <=> Holds(capture, {"expired"})
    BY <2>1
  <2>. QED
    BY <2>1, <2>4, <2>5 DEF TaskInv
<1>9. CASE RunAnswer
  <2>1. /\ ~inFlight' /\ gone' = gone /\ task' = task
        /\ NextCapture("answer", Nobody) /\ main' = Append(main, <<"end", Nobody>>)
    BY <1>9, MainsAppends DEF RunAnswer, Mains, MicRest
  <2>2. <<"end", Nobody>>[1] \in {"end"} \ {"begin"} /\ <<"end", Nobody>>[1] \in {"end"}
    OBVIOUS
  <2>3. Followed(main', {"begin"}, {"end"}) /\ Holds(main', {"end"})
    BY <1>1, <2>1, <2>2, Added
  <2>4. Holds(capture', {"expired"}) <=> Holds(capture, {"expired"})
    <3>1. Plain(capture, capture', {"expired"})
      BY <2>1, NextCapturePlain
    <3>2. Alike(capture, capture', {"expired"}, {"expired"})
      BY <1>1, <3>1, PlainKeeps
    <3>. QED
      BY <3>2 DEF Alike
  <2>. QED
    BY <2>1, <2>3, <2>4 DEF TaskInv
<1>10. CASE RunBegin
  <2>1. /\ UNCHANGED <<inFlight, capture>>
        /\ main # <<>> /\ Head(main) = <<"begin", Nobody>> /\ main' = Tail(main)
    BY <1>10 DEF RunBegin, NextMain
  <2>2. <<"begin", Nobody>>[1] = "begin"
    OBVIOUS
  <2>3. /\ Holds(main, {"begin"})
        /\ Before(main, {"end"}, {"begin"}) => ~Holds(main, {"end"}) /\ Before(main', {"end"}, {"begin"})
        /\ Followed(main, {"begin"}, {"end"}) => Followed(main', {"begin"}, {"end"}) /\ Holds(main', {"end"})
    BY <1>1, <2>1, <2>2, Taken
  <2>4. Holds(main, {"end"}) <=> Holds(main', {"end"})
    BY <1>1, <2>1, <2>2, Taken
  <2>5. Holds(capture', {"expired"}) <=> Holds(capture, {"expired"})
    BY <2>1
  <2>6. \/ task' = TRUE /\ gone' = gone
        \/ task' = task /\ ~task /\ gone' = TRUE
    BY <1>10, Zenon DEF RunBegin
  <2>. QED
    BY <2>1, <2>3, <2>4, <2>5, <2>6 DEF TaskInv
<1>11. CASE RunEnd
  <2>1. /\ task' = FALSE /\ UNCHANGED <<inFlight, gone, capture>>
        /\ main # <<>> /\ Head(main) = <<"end", Nobody>> /\ main' = Tail(main)
    BY <1>11 DEF RunEnd, NextMain, recordVars
  <2>2. <<"end", Nobody>>[1] = "end"
    OBVIOUS
  <2>3. /\ Holds(main, {"end"})
        /\ Before(main, {"end"}, {"begin"}) => Before(main', {"end"}, {"begin"})
    BY <1>1, <2>1, <2>2, Taken
  <2>4. /\ Holds(main, {"begin"}) <=> Holds(main', {"begin"})
        /\ Followed(main, {"begin"}, {"end"}) => Followed(main', {"begin"}, {"end"})
    BY <1>1, <2>1, <2>2, Taken
  <2>5. Holds(capture', {"expired"}) <=> Holds(capture, {"expired"})
    BY <2>1
  <2>. QED
    BY <2>1, <2>3, <2>4, <2>5 DEF TaskInv
<1>12. CASE TaskExpires
  <2>1. gone' = TRUE /\ UNCHANGED <<inFlight, task, main>>
    BY <1>12 DEF TaskExpires, MicRest
  <2>. QED
    BY <2>1 DEF TaskInv
<1>13. CASE RunExpired
  <2>1. /\ UNCHANGED <<inFlight, gone, task>> /\ main' = Append(main, <<"end", Nobody>>)
        /\ capture # <<>> /\ Head(capture) = <<"expired", Nobody>> /\ capture' = Tail(capture)
    BY <1>13, MainsAppends DEF RunExpired, NextCapture, Mains, MicRest, recordVars
  <2>2. <<"end", Nobody>>[1] \in {"end"} \ {"begin"} /\ <<"end", Nobody>>[1] \in {"end"}
    OBVIOUS
  <2>3. Followed(main', {"begin"}, {"end"}) /\ Holds(main', {"end"})
    <3>1. main' = Append(main, <<"end", Nobody>>)
      BY <2>1
    <3>. QED
      BY <1>1, <2>2, <3>1, Added
  <2>4. Holds(capture, {"expired"})
    <3>1. <<"expired", Nobody>>[1] \in {"expired"}
      OBVIOUS
    <3>. QED
      BY <1>1, <2>1, <3>1, Taken
  <2>. QED
    BY <2>1, <2>3, <2>4 DEF TaskInv
<1>. QED
  BY <1>2, <1>3, <1>4, <1>5, <1>6, <1>7, <1>8, <1>9, <1>10, <1>11, <1>12, <1>13, StepKinds
     DEF Hearing

-----------------------------------------------------------------------------
(* The calls.                                                              *)

LEMMA PlainCalls ==
  ASSUME NEW S, NEW q \in Seq(S), NEW r, Plain(q, r, Calling)
  PROVE  /\ \A who : HoldsFor(r, Calling, who) <=> HoldsFor(q, Calling, who)
         /\ Once(q, Calling) => Once(r, Calling)
<1>1. Alike(q, r, Calling, Calling)
  BY PlainKeeps
<1>. QED
  BY <1>1 DEF Alike

LEMMA CallAside ==
  ASSUME NativeTypeOK, CallInv, UNCHANGED talkVars,
         Plain(capture, capture', Calling), Plain(main, main', Calling)
  PROVE  CallInv'
<1>1. capture \in Seq(CaptureJobs) /\ main \in Seq(MainJobs)
  BY DEF NativeTypeOK
<1>2. /\ \A who : HoldsFor(capture', Calling, who) <=> HoldsFor(capture, Calling, who)
      /\ \A who : HoldsFor(main', Calling, who) <=> HoldsFor(main, Calling, who)
      /\ Once(capture, Calling) => Once(capture', Calling)
      /\ Once(main, Calling) => Once(main', Calling)
  BY <1>1, PlainCalls
<1>3. UNCHANGED <<talk, playing, playCall, speaking, speechCall, owed, late>>
  BY DEF talkVars
<1>. QED
  BY <1>2, <1>3 DEF CallInv

\* A call is on one of the queues, or is the call of a player.
Queues(t) == HoldsFor(capture, Calling, t) \/ HoldsFor(main, Calling, t)
Plays(t) == t \in {playCall, speechCall}

\* These calls are told of their end; the others are where they were, or are played.
Ends(calls) ==
  /\ Settles(calls)
  /\ playCall' = playing' /\ (speechCall' = speaking' \/ late')
  /\ playCall' # Nobody => playCall' # speechCall'
  /\ Once(capture', Calling) /\ Once(main', Calling)
  /\ \A t \in Talks :
       /\ HoldsFor(capture', Calling, t) => HoldsFor(capture, Calling, t)
       /\ HoldsFor(main', Calling, t) => HoldsFor(main, Calling, t)
       /\ Queues(t)' => ~Plays(t)'
       /\ t \in calls => ~Plays(t)' /\ ~Queues(t)'
       /\ t \notin calls => (Plays(t)' \/ Queues(t)' <=> Plays(t) \/ Queues(t))

LEMMA CallsEnd ==
  ASSUME NativeTypeOK, CallInv, NEW calls, Ends(calls)
  PROVE  CallInv'
<1>1. \A t \in Talks : talk'[t] = IF t \in calls THEN "told" ELSE talk[t]
  BY DEF Ends, Settles
<1>2. ASSUME NEW t \in Talks
      PROVE  /\ ~(HoldsFor(capture', Calling, t) /\ HoldsFor(main', Calling, t))
             /\ Queues(t)' => ~Plays(t)'
             /\ talk'[t] \in Underway <=> Plays(t)' \/ Queues(t)'
  <2>1. /\ ~(HoldsFor(capture, Calling, t) /\ HoldsFor(main, Calling, t))
        /\ talk[t] \in Underway <=> Plays(t) \/ Queues(t)
    BY DEF CallInv, Plays, Queues
  <2>2. /\ HoldsFor(capture', Calling, t) => HoldsFor(capture, Calling, t)
        /\ HoldsFor(main', Calling, t) => HoldsFor(main, Calling, t)
        /\ Queues(t)' => ~Plays(t)'
        /\ t \in calls => ~Plays(t)' /\ ~Queues(t)'
        /\ t \notin calls => (Plays(t)' \/ Queues(t)' <=> Plays(t) \/ Queues(t))
    BY DEF Ends
  <2>3. CASE t \in calls
    BY <1>1, <2>1, <2>2, <2>3 DEF Underway
  <2>4. CASE t \notin calls
    BY <1>1, <2>1, <2>2, <2>4
  <2>. QED
    BY <2>3, <2>4
<1>3. /\ playCall' = playing' /\ (speechCall' = speaking' \/ late')
      /\ playCall' # Nobody => playCall' # speechCall'
      /\ Once(capture', Calling) /\ Once(main', Calling)
  BY DEF Ends
<1>. QED
  BY <1>2, <1>3 DEF CallInv, Plays, Queues

LEMMA TalkStep ==
  ASSUME NativeTypeOK, CallInv, NEW t \in Talks, Talk(t)
  PROVE  CallInv'
<1>1. PICK kind \in {"play", "speak"} : capture' = Append(capture, <<kind, t>>)
  BY DEF Talk, Captures
<1>2. /\ talk[t] = "idle" /\ main' = main /\ talk' = [talk EXCEPT ![t] = "waiting"]
      /\ UNCHANGED <<playing, playCall, speaking, speechCall, late>>
      /\ capture \in Seq(CaptureJobs) /\ talk \in [Talks -> {"idle", "waiting", "heard", "told"}]
  BY DEF Talk, NativeTypeOK
<1>3. <<kind, t>>[1] \in Calling /\ <<kind, t>>[2] = t
  BY DEF Calling
<1>4. ~HoldsFor(capture, Calling, t) /\ ~HoldsFor(main, Calling, t) /\ t \notin {playCall, speechCall}
  BY <1>2 DEF CallInv, Underway
<1>5. /\ \A who : HoldsFor(capture', Calling, who) <=> HoldsFor(capture, Calling, who) \/ t = who
      /\ Once(capture, Calling) => Once(capture', Calling)
  BY <1>1, <1>2, <1>3, <1>4, Added
<1>6. talk'[t] = "waiting" /\ \A u \in Talks \ {t} : talk'[u] = talk[u]
  BY <1>2
<1>. QED
  BY <1>2, <1>4, <1>5, <1>6 DEF CallInv, Underway

LEMMA RunTalkStep ==
  ASSUME NativeTypeOK, CallInv, NEW t \in Talks, RunTalk(t)
  PROVE  CallInv'
<1>1. PICK kind \in {"play", "speak"}, job \in {"play", "speak", "refuse"} :
        NextCapture(kind, t) /\ Mains(<<<<job, t>>>>)
  BY DEF RunTalk
<1>2. /\ capture # <<>> /\ Head(capture) = <<kind, t>> /\ capture' = Tail(capture)
      /\ main' = Append(main, <<job, t>>)
      /\ UNCHANGED <<talk, playing, playCall, speaking, speechCall, owed, late>>
      /\ capture \in Seq(CaptureJobs) /\ main \in Seq(MainJobs)
  BY <1>1, MainsAppends DEF RunTalk, NextCapture, Mains, talkVars, NativeTypeOK
<1>3. /\ <<kind, t>>[1] \in Calling /\ <<kind, t>>[2] = t
      /\ <<job, t>>[1] \in Calling /\ <<job, t>>[2] = t
  BY DEF Calling
<1>4. /\ \A who : HoldsFor(capture, Calling, who) <=> HoldsFor(capture', Calling, who) \/ t = who
      /\ Once(capture, Calling) => Once(capture', Calling) /\ ~HoldsFor(capture', Calling, t)
  <2>1. <<kind, t>>[1] \in Calling /\ <<kind, t>>[2] = t
    BY <1>3
  <2>2. /\ capture # <<>> /\ <<kind, t>> = Head(capture) /\ capture' = Tail(capture)
        /\ capture \in Seq(CaptureJobs)
    BY <1>2
  <2>. QED
    BY <2>1, <2>2, Taken
<1>5. ~HoldsFor(main, Calling, t)
  BY <1>4 DEF CallInv
<1>6. /\ \A who : HoldsFor(main', Calling, who) <=> HoldsFor(main, Calling, who) \/ t = who
      /\ Once(main, Calling) => Once(main', Calling)
  BY <1>2, <1>3, <1>5, Added
<1>. QED
  BY <1>2, <1>4, <1>5, <1>6 DEF CallInv

\* A call that comes to the main queue.
LEMMA CallArrives ==
  ASSUME NativeTypeOK, CallInv, NEW t \in Talks, NEW kind \in {"play", "speak", "refuse"},
         NextMain(kind, t), capture' = capture
  PROVE  /\ \A who : HoldsFor(main, Calling, who) <=> HoldsFor(main', Calling, who) \/ t = who
         /\ Once(main', Calling) /\ ~HoldsFor(main', Calling, t)
         /\ \A who : HoldsFor(capture', Calling, who) <=> HoldsFor(capture, Calling, who)
         /\ Once(capture', Calling)
         /\ t \notin {playCall, speechCall} /\ ~HoldsFor(capture, Calling, t)
<1>1. main # <<>> /\ Head(main) = <<kind, t>> /\ main' = Tail(main) /\ main \in Seq(MainJobs)
  BY DEF NextMain, NativeTypeOK
<1>2. <<kind, t>>[1] \in Calling /\ <<kind, t>>[2] = t
  BY DEF Calling
<1>3. /\ \A who : HoldsFor(main, Calling, who) <=> HoldsFor(main', Calling, who) \/ t = who
      /\ Once(main, Calling) => Once(main', Calling) /\ ~HoldsFor(main', Calling, t)
  BY <1>1, <1>2, Taken
<1>. QED
  BY <1>3 DEF CallInv

LEMMA RunRefuseStep ==
  ASSUME NativeTypeOK, CallInv, NEW t \in Talks, RunRefuse(t)
  PROVE  CallInv'
<1>1. /\ NextMain("refuse", t) /\ capture' = capture /\ Settles({t})
      /\ UNCHANGED <<playing, playCall, speaking, speechCall, late>>
  BY DEF RunRefuse
<1>2. /\ \A who : HoldsFor(main, Calling, who) <=> HoldsFor(main', Calling, who) \/ t = who
      /\ Once(main', Calling) /\ ~HoldsFor(main', Calling, t)
      /\ \A who : HoldsFor(capture', Calling, who) <=> HoldsFor(capture, Calling, who)
      /\ Once(capture', Calling)
      /\ t \notin {playCall, speechCall} /\ ~HoldsFor(capture, Calling, t)
  BY <1>1, CallArrives
<1>3. Ends({t})
  BY <1>1, <1>2 DEF Ends, CallInv, Queues, Plays
<1>. QED
  BY <1>3, CallsEnd

LEMMA RunPlayStep ==
  ASSUME NativeTypeOK, CallInv, NEW t \in Talks, RunPlay(t)
  PROVE  CallInv'
<1>1. /\ NextMain("play", t) /\ capture' = capture
      /\ UNCHANGED <<speaking, speechCall, owed, late>>
      /\ \/ playing' = t /\ playCall' = t /\ Settles({playCall})
         \/ playing' = Nobody /\ playCall' = Nobody /\ Settles({playCall, t})
  BY DEF RunPlay
<1>2. /\ \A who : HoldsFor(main, Calling, who) <=> HoldsFor(main', Calling, who) \/ t = who
      /\ Once(main', Calling) /\ ~HoldsFor(main', Calling, t)
      /\ \A who : HoldsFor(capture', Calling, who) <=> HoldsFor(capture, Calling, who)
      /\ Once(capture', Calling)
      /\ t \notin {playCall, speechCall} /\ ~HoldsFor(capture, Calling, t)
  BY <1>1, CallArrives
<1>3. Nobody \notin Talks
  BY NobodyAssumption
<1>4. CASE playing' = t /\ playCall' = t /\ Settles({playCall})
  <2>1. Ends({playCall})
    BY <1>1, <1>2, <1>3, <1>4 DEF Ends, CallInv, Queues, Plays
  <2>. QED
    BY <2>1, CallsEnd
<1>5. CASE playing' = Nobody /\ playCall' = Nobody /\ Settles({playCall, t})
  <2>1. Ends({playCall, t})
    BY <1>1, <1>2, <1>3, <1>5 DEF Ends, CallInv, Queues, Plays
  <2>. QED
    BY <2>1, CallsEnd
<1>. QED
  BY <1>1, <1>4, <1>5

LEMMA RunSpeakStep ==
  ASSUME NativeTypeOK, CallInv, NEW t \in Talks, RunSpeak(t)
  PROVE  CallInv'
<1>1. /\ NextMain("speak", t) /\ capture' = capture
      /\ playing' = Nobody /\ playCall' = Nobody /\ speaking' = t /\ speechCall' = t
      /\ Settles({playCall, speechCall})
  BY DEF RunSpeak
<1>2. /\ \A who : HoldsFor(main, Calling, who) <=> HoldsFor(main', Calling, who) \/ t = who
      /\ Once(main', Calling) /\ ~HoldsFor(main', Calling, t)
      /\ \A who : HoldsFor(capture', Calling, who) <=> HoldsFor(capture, Calling, who)
      /\ Once(capture', Calling)
      /\ t \notin {playCall, speechCall} /\ ~HoldsFor(capture, Calling, t)
  BY <1>1, CallArrives
<1>3. Ends({playCall, speechCall})
  BY <1>1, <1>2, NobodyAssumption DEF Ends, CallInv, Queues, Plays
<1>. QED
  BY <1>3, CallsEnd

\* The queues hold the same calls.
LEMMA CallsStay ==
  ASSUME NativeTypeOK, CallInv, Plain(capture, capture', Calling), Plain(main, main', Calling)
  PROVE  /\ \A who : HoldsFor(capture', Calling, who) <=> HoldsFor(capture, Calling, who)
         /\ \A who : HoldsFor(main', Calling, who) <=> HoldsFor(main, Calling, who)
         /\ Once(capture', Calling) /\ Once(main', Calling)
<1>1. capture \in Seq(CaptureJobs) /\ main \in Seq(MainJobs)
  BY DEF NativeTypeOK
<1>. QED
  BY <1>1, PlainCalls DEF CallInv

LEMMA SilencesStep ==
  ASSUME NativeTypeOK, CallInv, RunSilence
  PROVE  CallInv'
<1>1. /\ NextMain("silence", Nobody) /\ capture' = capture
      /\ playing' = Nobody /\ playCall' = Nobody /\ speaking' = Nobody /\ speechCall' = Nobody
      /\ Settles({playCall, speechCall})
  BY DEF RunSilence, Silences
<1>2. Plain(capture, capture', Calling) /\ Plain(main, main', Calling)
  <2>1. "silence" \notin Calling
    BY DEF Calling
  <2>. QED
    BY <1>1, <2>1, SamePlain, NextMainPlain
<1>3. Ends({playCall, speechCall})
  BY <1>1, <1>2, CallsStay, NobodyAssumption DEF Ends, CallInv, Queues, Plays
<1>. QED
  BY <1>3, CallsEnd

LEMMA PlayersStep ==
  ASSUME NativeTypeOK, CallInv,
         PlayerEnds \/ SpeechStarts \/ SpeechEnds \/ \E u \in Talks : SpeechCancelled(u)
  PROVE  CallInv'
<1>1. (Captures("hush", Nobody) \/ UNCHANGED capture) /\ main' = main
  BY DEF PlayerEnds, SpeechStarts, SpeechEnds, SpeechCancelled
<1>2. Plain(capture, capture', Calling) /\ Plain(main, main', Calling)
  <2>1. "hush" \notin Calling
    BY DEF Calling
  <2>. QED
    BY <1>1, <2>1, SamePlain, CapturesPlain
<1>3. CASE PlayerEnds
  <2>1. /\ playing' = Nobody /\ playCall' = Nobody /\ Settles({playCall})
        /\ UNCHANGED <<speaking, speechCall, owed, late>>
    BY <1>3 DEF PlayerEnds
  <2>2. Ends({playCall})
    BY <1>2, <2>1, CallsStay, NobodyAssumption DEF Ends, CallInv, Queues, Plays
  <2>. QED
    BY <2>2, CallsEnd
<1>4. CASE SpeechEnds
  <2>1. /\ speaking' = Nobody /\ speechCall' = Nobody /\ Settles({speechCall})
        /\ UNCHANGED <<playing, playCall, owed, late>>
    BY <1>4 DEF SpeechEnds
  <2>2. Ends({speechCall})
    BY <1>2, <2>1, CallsStay, NobodyAssumption DEF Ends, CallInv, Queues, Plays
  <2>. QED
    BY <2>2, CallsEnd
<1>5. ASSUME NEW u \in Talks, SpeechCancelled(u) PROVE CallInv'
  <2>1. /\ late' = (late \/ speechCall # Nobody)
        /\ speechCall' = Nobody /\ Settles({speechCall})
        /\ UNCHANGED <<playing, playCall, speaking>>
    BY <1>5 DEF SpeechCancelled
  <2>2. speechCall' = speaking' \/ late'
    BY <2>1 DEF CallInv
  <2>3. Ends({speechCall})
    BY <1>2, <2>1, <2>2, CallsStay, NobodyAssumption DEF Ends, CallInv, Queues, Plays
  <2>. QED
    BY <2>3, CallsEnd
<1>6. CASE SpeechStarts
  <2>1. /\ talk[speaking] = "waiting" /\ talk' = [talk EXCEPT ![speaking] = "heard"]
        /\ UNCHANGED <<playing, playCall, speaking, speechCall, owed, late>>
        /\ talk \in [Talks -> {"idle", "waiting", "heard", "told"}]
    BY <1>6 DEF SpeechStarts, NativeTypeOK
  <2>2. \A t \in Talks : talk'[t] \in Underway <=> talk[t] \in Underway
    BY <2>1 DEF Underway
  <2>. QED
    BY <1>2, <2>1, <2>2, CallsStay DEF CallInv
<1>. QED
  BY <1>3, <1>4, <1>5, <1>6

LEMMA CallStep ==
  ASSUME NativeTypeOK, CallInv, NativeNext
  PROVE  CallInv'
<1>1. CASE Paging \/ Recovering \/ Hearing
  <2>1. Plain(capture, capture', Calling) /\ Plain(main, main', Calling)
    BY <1>1, PagingPlain, RecoveringPlain, HearingPlain, PlainLess, SamePlain
  <2>2. UNCHANGED talkVars
    BY <1>1, PagingPlain, RecoveringPlain, HearingPlain
  <2>. QED
    BY <2>1, <2>2, CallAside
<1>2. CASE Answering
  <2>1. CASE StopAudio
    <3>1. "silence" \notin Calling
      BY DEF Calling
    <3>2. Plain(capture, capture', Calling) /\ Plain(main, main', Calling)
      BY <2>1, <3>1, SamePlain, MainsPlain DEF StopAudio
    <3>3. UNCHANGED talkVars
      BY <2>1 DEF StopAudio
    <3>. QED
      BY <3>2, <3>3, CallAside
  <2>2. CASE RunSilence
    BY <2>2, SilencesStep
  <2>3. CASE PlayerEnds \/ SpeechStarts \/ SpeechEnds \/ \E u \in Talks : SpeechCancelled(u)
    BY <2>3, PlayersStep
  <2>4. ASSUME NEW t \in Talks, Talk(t) \/ RunTalk(t) \/ RunRefuse(t) \/ RunPlay(t) \/ RunSpeak(t)
        PROVE  CallInv'
    BY <2>4, TalkStep, RunTalkStep, RunRefuseStep, RunPlayStep, RunSpeakStep
  <2>. QED
    BY <1>2, <2>1, <2>2, <2>3, <2>4 DEF Answering
<1>. QED
  BY <1>1, <1>2, StepKinds

-----------------------------------------------------------------------------
(* The activations.                                                        *)

\* The queues hold the same blocks of activations.
LEMMA PressesStay ==
  ASSUME NativeTypeOK, PressInv, Plain(capture, capture', Starting), Plain(main, main', Telling)
  PROVE  /\ \A who : HoldsFor(capture', Starting, who) <=> HoldsFor(capture, Starting, who)
         /\ \A who : HoldsFor(main', Telling, who) <=> HoldsFor(main, Telling, who)
         /\ Once(capture', Starting) /\ Once(main', Telling)
<1>1. capture \in Seq(CaptureJobs) /\ main \in Seq(MainJobs)
  BY DEF NativeTypeOK
<1>2. Alike(capture, capture', Starting, Starting) /\ Alike(main, main', Telling, Telling)
  BY <1>1, PlainKeeps
<1>. QED
  BY <1>2 DEF Alike, PressInv

LEMMA PressAside ==
  ASSUME NativeTypeOK, PressInv, Plain(capture, capture', Starting), Plain(main, main', Telling),
         owner' = owner, active' => active,
         \A p \in Presses : /\ press'[p] = "queued" <=> press[p] = "queued"
                            /\ press'[p] = "telling" <=> press[p] = "telling"
                            /\ press'[p] # "idle" => press[p] # "idle"
  PROVE  PressInv'
BY PressesStay DEF PressInv

LEMMA PressStarts ==
  ASSUME NativeTypeOK, PressInv, NEW p \in Presses, Press(p)
  PROVE  PressInv'
<1>1. /\ press[p] = "idle" /\ press' = [press EXCEPT ![p] = "prompt"] /\ owner' = p
      /\ capture' = capture /\ main' = main
      /\ press \in [Presses -> {"idle", "over"} \cup Busy]
  BY DEF Press, NativeTypeOK
<1>2. press'[p] = "prompt" /\ \A q \in Presses \ {p} : press'[q] = press[q]
  BY <1>1
<1>3. p # Nobody
  BY NobodyAssumption
<1>. QED
  BY <1>1, <1>2, <1>3 DEF PressInv

LEMMA PromptedStep ==
  ASSUME NativeTypeOK, PressInv, NEW p \in Presses, Prompted(p)
  PROVE  PressInv'
<1>1. /\ press[p] = "prompt" /\ press' = [press EXCEPT ![p] = "queued"]
      /\ owner' = owner /\ active' = active /\ main' = main
      /\ press \in [Presses -> {"idle", "over"} \cup Busy] /\ capture \in Seq(CaptureJobs)
  BY DEF Prompted, NativeTypeOK, micVars
<1>2. PICK answer \in Starting : capture' = Append(capture, <<answer, p>>)
  BY DEF Prompted, Captures, Starting
<1>3. press'[p] = "queued" /\ \A q \in Presses \ {p} : press'[q] = press[q]
  BY <1>1
<1>4. ~HoldsFor(capture, Starting, p)
  BY <1>1 DEF PressInv
<1>5. /\ \A who : HoldsFor(capture', Starting, who) <=> HoldsFor(capture, Starting, who) \/ p = who
      /\ Once(capture, Starting) => Once(capture', Starting)
  <2>1. <<answer, p>>[1] \in Starting /\ <<answer, p>>[2] = p
    BY <1>2
  <2>. QED
    BY <1>1, <1>2, <1>4, <2>1, Added
<1>. QED
  BY <1>1, <1>3, <1>5 DEF PressInv

\* The block of an activation runs on the capture queue, and its answer is on the way.
LEMMA BlockRuns ==
  ASSUME NativeTypeOK, PressInv, NEW p \in Presses, NEW kind \in Starting, NEW how \in Telling,
         NextCapture(kind, p), Tells(how, p)
  PROVE  /\ press[p] = "queued" /\ press'[p] = "telling"
         /\ \A q \in Presses \ {p} : press'[q] = press[q]
         /\ \A who : HoldsFor(capture, Starting, who) <=> HoldsFor(capture', Starting, who) \/ p = who
         /\ ~HoldsFor(capture', Starting, p)
         /\ \A who : HoldsFor(main', Telling, who) <=> HoldsFor(main, Telling, who) \/ p = who
         /\ \A K : HoldsFor(main', K, p) <=> HoldsFor(main, K, p) \/ how \in K
         /\ Once(capture', Starting) /\ Once(main', Telling)
         /\ owner # Nobody
<1>1. /\ capture # <<>> /\ <<kind, p>> = Head(capture) /\ capture' = Tail(capture)
      /\ capture \in Seq(CaptureJobs)
  BY DEF NextCapture, NativeTypeOK
<1>2. <<kind, p>>[1] \in Starting /\ <<kind, p>>[2] = p
  OBVIOUS
<1>3. /\ \A who : HoldsFor(capture, Starting, who) <=> HoldsFor(capture', Starting, who) \/ p = who
      /\ Once(capture, Starting) => Once(capture', Starting) /\ ~HoldsFor(capture', Starting, p)
  BY <1>1, <1>2, Taken
<1>4. press[p] = "queued"
  BY <1>3 DEF PressInv
<1>5. press' = [press EXCEPT ![p] = "telling"] /\ press \in [Presses -> {"idle", "over"} \cup Busy]
  BY DEF Tells, NativeTypeOK
<1>6. press'[p] = "telling" /\ \A q \in Presses \ {p} : press'[q] = press[q]
  BY <1>5
<1>7. ~HoldsFor(main, Telling, p)
  BY <1>4 DEF PressInv
<1>8. main \in Seq(MainJobs) /\ main' = Append(main, <<how, p>>)
  BY MainsAppends DEF Tells, Mains, NativeTypeOK
<1>9. <<how, p>>[1] = how /\ <<how, p>>[2] = p
  OBVIOUS
<1>10. /\ \A who : HoldsFor(main', Telling, who) <=> HoldsFor(main, Telling, who) \/ p = who
       /\ Once(main, Telling) => Once(main', Telling)
  BY <1>7, <1>8, <1>9, Added
<1>11. \A K : HoldsFor(main', K, p) <=> HoldsFor(main, K, p) \/ how \in K
  BY <1>8, <1>9, Added
<1>. QED
  BY <1>3, <1>4, <1>6, <1>10, <1>11 DEF PressInv

LEMMA RunStartStep ==
  ASSUME NativeTypeOK, PressInv, NEW p \in Presses, RunStart(p) \/ StartFails(p) \/ RunDenied(p)
  PROVE  PressInv'
<1>1. PICK kind \in Starting, how \in Telling : NextCapture(kind, p) /\ Tells(how, p)
  BY DEF RunStart, StartFails, RunDenied, Starting, Telling
<1>2. owner' = owner
  BY DEF RunStart, StartFails, RunDenied, micVars
<1>3. /\ press[p] = "queued" /\ press'[p] = "telling"
      /\ \A q \in Presses \ {p} : press'[q] = press[q]
      /\ \A who : HoldsFor(capture, Starting, who) <=> HoldsFor(capture', Starting, who) \/ p = who
      /\ ~HoldsFor(capture', Starting, p)
      /\ \A who : HoldsFor(main', Telling, who) <=> HoldsFor(main, Telling, who) \/ p = who
      /\ Once(capture', Starting) /\ Once(main', Telling) /\ owner # Nobody
  BY <1>1, BlockRuns
<1>. QED
  BY <1>2, <1>3 DEF PressInv

\* An activation is answered.
LEMMA AnswerComes ==
  ASSUME NativeTypeOK, PressInv, NEW p \in Presses, NEW how \in Telling, NextMain(how, p), Goes(p)
  PROVE  /\ press[p] = "telling" /\ press'[p] \in {"waking", "over"}
         /\ press'[p] = "waking" <=> nativeRef'
         /\ \A q \in Presses \ {p} : press'[q] = press[q]
         /\ \A who : HoldsFor(main, Telling, who) <=> HoldsFor(main', Telling, who) \/ p = who
         /\ ~HoldsFor(main', Telling, p) /\ Once(main', Telling)
         /\ HoldsFor(main, {how}, p)
         /\ Plain(capture, capture', ForPage \ {"mute"})
<1>1. /\ main # <<>> /\ <<how, p>> = Head(main) /\ main' = Tail(main) /\ main \in Seq(MainJobs)
  BY DEF NextMain, NativeTypeOK
<1>2. <<how, p>>[1] = how /\ <<how, p>>[2] = p
  OBVIOUS
<1>3. /\ \A who : HoldsFor(main, Telling, who) <=> HoldsFor(main', Telling, who) \/ p = who
      /\ Once(main, Telling) => Once(main', Telling) /\ ~HoldsFor(main', Telling, p)
  BY <1>1, <1>2, Taken
<1>4. HoldsFor(main, {how}, p)
  BY <1>1, <1>2, Taken
<1>5. press[p] = "telling"
  BY <1>3 DEF PressInv
<1>6. /\ press' = [press EXCEPT ![p] = IF nativeRef' THEN "waking" ELSE "over"]
      /\ press \in [Presses -> {"idle", "over"} \cup Busy]
  BY DEF Goes, NativeTypeOK
<1>7. /\ press'[p] = IF nativeRef' THEN "waking" ELSE "over"
      /\ \A q \in Presses \ {p} : press'[q] = press[q]
  BY <1>6
<1>8. Plain(capture, capture', ForPage \ {"mute"})
  BY TellsMutedPlain DEF Goes
<1>. QED
  BY <1>3, <1>4, <1>5, <1>7, <1>8 DEF PressInv

LEMMA ToldStep ==
  ASSUME NativeTypeOK, PressInv, NEW p \in Presses, Told(p) \/ Refused(p)
  PROVE  PressInv'
<1>1. PICK how \in Telling : NextMain(how, p) /\ Goes(p)
  BY DEF Told, Refused, Telling
<1>2. /\ press[p] = "telling" /\ press'[p] \in {"waking", "over"}
      /\ \A q \in Presses \ {p} : press'[q] = press[q]
      /\ \A who : HoldsFor(main, Telling, who) <=> HoldsFor(main', Telling, who) \/ p = who
      /\ ~HoldsFor(main', Telling, p) /\ Once(main', Telling)
      /\ Plain(capture, capture', ForPage \ {"mute"})
  BY <1>1, AnswerComes
<1>3. /\ \A who : HoldsFor(capture', Starting, who) <=> HoldsFor(capture, Starting, who)
      /\ Once(capture', Starting)
  <2>1. capture \in Seq(CaptureJobs) /\ Starting \in SUBSET (ForPage \ {"mute"})
    BY DEF NativeTypeOK, Starting, ForPage
  <2>2. Alike(capture, capture', Starting, Starting)
    BY <1>2, <2>1, PlainKeeps
  <2>. QED
    BY <2>2 DEF Alike, PressInv
<1>4. owner' = owner /\ active' = active
  BY <1>1 DEF Goes, micVars
<1>. QED
  BY <1>2, <1>3, <1>4 DEF PressInv

LEMMA PressStep ==
  ASSUME NativeTypeOK, PressInv, NativeNext
  PROVE  PressInv'
<1>1. CASE Recovering \/ Hearing \/ Answering
  <2>1. Starting \in SUBSET ForPage
    BY DEF Starting, ForPage
  <2>2. Plain(capture, capture', Starting) /\ Plain(main, main', Telling)
    BY <1>1, <2>1, RecoveringPlain, HearingPlain, AnsweringPlain, PlainLess, SamePlain
  <2>3. UNCHANGED <<press, owner, active>>
    BY <1>1, RecoveringPlain, HearingPlain, AnsweringPlain DEF buttonVars, micVars
  <2>. QED
    BY <2>2, <2>3, PressAside
<1>2. CASE Poll \/ PageMutes \/ Hangup \/ Leave \/ RunStop \/ \E b \in BOOLEAN : RunMute(b)
  <2>1. "mute" \notin Starting /\ "stop" \notin Starting /\ "silence" \notin Telling
    BY DEF Starting, Telling
  <2>2. Plain(capture, capture', Starting)
    BY <1>2, <2>1, TellsMutedPlain, QuitsPlain, NextCapturePlain, SamePlain
       DEF Poll, PageMutes, Hangup, Leave, RunStop, RunMute
  <2>3. Plain(main, main', Telling)
    BY <1>2, <2>1, MainsPlain, SamePlain DEF Poll, PageMutes, Hangup, Leave, Quits, RunStop, RunMute
  <2>4. press' = press /\ owner' = owner /\ (active' => active)
    BY <1>2 DEF Poll, PageMutes, Hangup, Leave, Quits, RunStop, RunMute, micVars, MicRest,
       buttonVars
  <2>. QED
    BY <2>2, <2>3, <2>4, PressAside
<1>3. ASSUME NEW p \in Presses, Woken(p) PROVE PressInv'
  <2>1. "mute" \notin Starting
    BY DEF Starting
  <2>2. Plain(capture, capture', Starting) /\ Plain(main, main', Telling)
    BY <1>3, <2>1, TellsMutedPlain, SamePlain DEF Woken
  <2>3. /\ press[p] = "waking" /\ press' = [press EXCEPT ![p] = "over"]
        /\ owner' = owner /\ active' = active
        /\ press \in [Presses -> {"idle", "over"} \cup Busy]
    BY <1>3 DEF Woken, micVars, NativeTypeOK
  <2>4. \A q \in Presses : /\ press'[q] = "queued" <=> press[q] = "queued"
                           /\ press'[q] = "telling" <=> press[q] = "telling"
                           /\ press'[q] # "idle" => press[q] # "idle"
    BY <2>3
  <2>. QED
    BY <2>2, <2>3, <2>4, PressAside
<1>4. ASSUME NEW p \in Presses,
             Press(p) \/ Prompted(p) \/ RunStart(p) \/ StartFails(p) \/ RunDenied(p) \/ Told(p)
               \/ Refused(p)
      PROVE  PressInv'
  BY <1>4, PressStarts, PromptedStep, RunStartStep, ToldStep
<1>. QED
  BY <1>1, <1>2, <1>3, <1>4, StepKinds DEF Paging

\* A session has an owner, whose words are uploaded.
LEMMA UploadStep ==
  ASSUME NativeTypeOK, PressInv, UploadTracked, NativeNext
  PROVE  UploadTracked'
<1>1. CASE Paging \/ Recovering \/ Answering
  BY <1>1, PagingPlain, RecoveringPlain, AnsweringPlain DEF UploadTracked, recordVars
<1>2. CASE Speech \/ SilenceRefused \/ Answered \/ RunBegin \/ RunEnd \/ TaskExpires \/ RunExpired
           \/ RunHush \/ TailOver
  BY <1>2 DEF Speech, SilenceRefused, Answered, RunBegin, RunEnd, TaskExpires, RunExpired, RunHush,
     TailOver, UploadTracked, recordVars
<1>3. CASE Silence
  BY <1>3 DEF Silence, UploadTracked, PressInv
<1>4. CASE RunAnswer
  BY <1>4 DEF RunAnswer, UploadTracked
<1>. QED
  BY <1>1, <1>2, <1>3, <1>4, StepKinds DEF Hearing

-----------------------------------------------------------------------------
(* The session and the page.                                               *)

\* The jobs that stop and start a session.
ForSession == {"stop"} \cup Starting

LEMMA SessionPlain ==
  ASSUME NativeTypeOK, Plain(capture, capture', ForSession)
  PROVE  /\ Before(capture, {"stop"}, Starting) => Before(capture', {"stop"}, Starting)
         /\ NoStop' <=> NoStop
<1>1. /\ capture \in Seq(CaptureJobs) /\ {"stop"} \in SUBSET ForSession
      /\ Starting \in SUBSET ForSession
  BY DEF NativeTypeOK, ForSession
<1>2. Alike(capture, capture', {"stop"}, Starting)
  BY <1>1, PlainKeeps
<1>. QED
  BY <1>2 DEF Alike, NoStop

LEMMA SessionAside ==
  ASSUME NativeTypeOK, SessionInv, Plain(capture, capture', ForSession), Plain(main, main', Telling),
         UNCHANGED <<press, nativeRef, shown, isActive, mounted, active>>
  PROVE  SessionInv'
<1>1. Before(capture', {"stop"}, Starting) /\ (NoStop' <=> NoStop)
  BY SessionPlain DEF SessionInv
<1>2. \A K \in SUBSET Telling : \A who : HoldsFor(main', K, who) <=> HoldsFor(main, K, who)
  <2>1. main \in Seq(MainJobs)
    BY DEF NativeTypeOK
  <2>2. \A K \in SUBSET Telling : Alike(main, main', K, K)
    BY <2>1, PlainKeeps
  <2>. QED
    BY <2>2 DEF Alike
<1>3. {"told"} \in SUBSET Telling /\ {"refused"} \in SUBSET Telling
  BY DEF Telling
<1>4. \A who : /\ HoldsFor(main', {"told"}, who) <=> HoldsFor(main, {"told"}, who)
               /\ HoldsFor(main', {"refused"}, who) <=> HoldsFor(main, {"refused"}, who)
  BY <1>2, <1>3
<1>. QED
  BY <1>1, <1>4 DEF SessionInv

\* Nothing is to be started unless an activation waits for it.
LEMMA NobodyStarts ==
  ASSUME NativeTypeOK, PressInv, \A p \in Presses : press[p] \notin Busy
  PROVE  ~Holds(capture, Starting)
<1>1. capture \in Seq(CaptureJobs)
  BY DEF NativeTypeOK
<1>2. ASSUME NEW i \in DOMAIN capture, capture[i][1] \in Starting PROVE FALSE
  <2>1. capture[i] \in CaptureJobs
    <3>1. capture \in [1..Len(capture) -> CaptureJobs] /\ DOMAIN capture = 1..Len(capture)
      BY <1>1, LenProperties
    <3>. QED
      BY <3>1
  <2>2. capture[i][2] \in Presses
    BY <1>2, <2>1 DEF CaptureJobs, Starting
  <2>3. HoldsFor(capture, Starting, capture[i][2])
    BY <1>2 DEF HoldsFor
  <2>. QED
    BY <2>2, <2>3 DEF PressInv, Busy
<1>. QED
  BY <1>2 DEF Holds

LEMMA PressSession ==
  ASSUME NativeTypeOK, ~loose => SessionInv, NEW p \in Presses, Press(p), ~loose'
  PROVE  SessionInv'
<1>1. /\ mounted /\ ~isActive /\ press' = [press EXCEPT ![p] = "prompt"]
      /\ ~loose /\ \A q \in Presses : press[q] \notin Busy
      /\ press \in [Presses -> {"idle", "over"} \cup Busy]
      /\ UNCHANGED <<nativeRef, shown, isActive, mounted, active, capture, main>>
  BY DEF Press, NativeTypeOK, micVars
<1>2. press'[p] = "prompt" /\ \A q \in Presses \ {p} : press'[q] \notin Busy
  BY <1>1
<1>3. /\ Before(capture, {"stop"}, Starting) /\ shown = nativeRef
      /\ ~nativeRef /\ (NoStop => ~active)
  BY <1>1 DEF SessionInv
<1>4. (NoStop' <=> NoStop) /\ "prompt" \in Busy
  BY <1>1 DEF NoStop, Busy
<1>5. \A q \in Presses : press'[q] \in Busy => q = p
  BY <1>2
<1>6. \A q \in Presses : press'[q] \in Busy => press'[q] = "prompt"
  BY <1>2
<1>. QED
  BY <1>1, <1>2, <1>3, <1>4, <1>5, <1>6 DEF SessionInv, Busy

LEMMA PromptedSession ==
  ASSUME NativeTypeOK, SessionInv, NEW p \in Presses, Prompted(p)
  PROVE  SessionInv'
<1>1. /\ press[p] = "prompt" /\ press' = [press EXCEPT ![p] = "queued"]
      /\ press \in [Presses -> {"idle", "over"} \cup Busy] /\ capture \in Seq(CaptureJobs)
      /\ UNCHANGED <<nativeRef, shown, isActive, mounted, active, main>>
  BY DEF Prompted, NativeTypeOK, micVars
<1>2. PICK answer \in Starting : capture' = Append(capture, <<answer, p>>)
  BY DEF Prompted, Captures, Starting
<1>3. <<answer, p>>[1] = answer /\ answer \notin {"stop"}
  BY <1>2 DEF Starting
<1>4. Before(capture', {"stop"}, Starting) /\ (NoStop' <=> NoStop)
  <2>1. Before(capture, {"stop"}, Starting)
    BY DEF SessionInv
  <2>2. Before(capture', {"stop"}, Starting)
    BY <1>1, <1>2, <1>3, <2>1, Added
  <2>3. Holds(capture', {"stop"}) <=> Holds(capture, {"stop"})
    BY <1>1, <1>2, <1>3, Added
  <2>. QED
    BY <2>2, <2>3 DEF NoStop
<1>5. press'[p] = "queued" /\ \A q \in Presses \ {p} : press'[q] = press[q]
  BY <1>1
<1>6. \A q \in Presses \ {p} : press[q] \notin Busy
  BY <1>1 DEF SessionInv, Busy
<1>7. mounted /\ ~isActive /\ ~nativeRef /\ shown = nativeRef /\ (NoStop => ~active)
  BY <1>1 DEF SessionInv, Busy
<1>8. \A q \in Presses : press'[q] \in Busy => q = p
  BY <1>5, <1>6
<1>. QED
  BY <1>1, <1>4, <1>5, <1>7, <1>8 DEF SessionInv, Busy

LEMMA StartSession ==
  ASSUME NativeTypeOK, PressInv, SessionInv, NEW p \in Presses,
         RunStart(p) \/ StartFails(p) \/ RunDenied(p)
  PROVE  SessionInv'
<1>1. PICK kind \in Starting, how \in Telling :
        /\ NextCapture(kind, p) /\ Tells(how, p)
        /\ how = "told" => active'
        /\ how = "refused" => ~active' \/ active' = active
  BY DEF RunStart, StartFails, RunDenied, Starting, Telling, micVars
<1>2. UNCHANGED <<nativeRef, shown, isActive, mounted>>
  BY <1>1 DEF Tells
<1>3. /\ press[p] = "queued" /\ press'[p] = "telling"
      /\ \A q \in Presses \ {p} : press'[q] = press[q]
      /\ \A K : HoldsFor(main', K, p) <=> HoldsFor(main, K, p) \/ how \in K
  BY <1>1, BlockRuns
<1>4. NoStop /\ NoStop' /\ Before(capture', {"stop"}, Starting)
  <2>1. /\ capture # <<>> /\ <<kind, p>> = Head(capture) /\ capture' = Tail(capture)
        /\ capture \in Seq(CaptureJobs)
    BY <1>1 DEF NextCapture, NativeTypeOK
  <2>2. <<kind, p>>[1] \in Starting
    BY <1>1
  <2>3. Before(capture, {"stop"}, Starting)
    BY DEF SessionInv
  <2> DEFINE x == <<kind, p>>
             K == {"stop"}
  <2>4. x = Head(capture) /\ x[1] \in Starting
    BY <2>1, <2>2
  <2>5. Before(capture, K, Starting)
    BY <2>3
  <2>. HIDE DEF x, K
  <2>6. Before(capture, K, Starting) =>
          Before(capture', K, Starting) /\ (x[1] \in Starting => ~Holds(capture, K))
    BY <2>1, <2>4, Taken
  <2>7. Holds(capture', K) => Holds(capture, K)
    BY <2>1, <2>4, Taken
  <2>. QED
    BY <2>4, <2>5, <2>6, <2>7 DEF NoStop, K
<1>5. \A q \in Presses \ {p} : press[q] \notin Busy
  BY <1>3 DEF SessionInv, Busy
<1>6. mounted /\ ~isActive /\ ~nativeRef /\ shown = nativeRef /\ ~active
  BY <1>3, <1>4 DEF SessionInv, Busy
<1>7. ~HoldsFor(main, Telling, p)
  BY <1>3 DEF PressInv
<1>8. ~HoldsFor(main, {"told"}, p) /\ ~HoldsFor(main, {"refused"}, p)
  BY <1>7 DEF HoldsFor, Telling
<1>9. /\ HoldsFor(main', {"told"}, p) => active'
      /\ HoldsFor(main', {"refused"}, p) => ~active'
  BY <1>1, <1>3, <1>6, <1>8
<1>10. \A q \in Presses : press'[q] \in Busy => q = p
  BY <1>3, <1>5
<1>. QED
  BY <1>2, <1>3, <1>4, <1>6, <1>9, <1>10 DEF SessionInv, Busy

LEMMA AnswerSession ==
  ASSUME NativeTypeOK, PressInv, SessionInv, NEW p \in Presses, Told(p) \/ Refused(p)
  PROVE  SessionInv'
<1>1. PICK how \in Telling : NextMain(how, p) /\ Goes(p)
                             /\ nativeRef' = (IF how = "told" THEN active ELSE nativeRef)
                             /\ shown' = (IF how = "told" THEN active ELSE shown)
  BY DEF Told, Refused, Telling
<1>2. /\ press[p] = "telling" /\ press'[p] \in {"waking", "over"}
      /\ press'[p] = "waking" <=> nativeRef'
      /\ \A q \in Presses \ {p} : press'[q] = press[q]
      /\ HoldsFor(main, {how}, p)
      /\ Plain(capture, capture', ForPage \ {"mute"})
  BY <1>1, AnswerComes
<1>3. \A q \in Presses \ {p} : press[q] \notin Busy
  BY <1>2 DEF SessionInv, Busy
<1>4. mounted /\ ~isActive /\ ~nativeRef /\ shown = nativeRef /\ NoStop
  BY <1>2 DEF SessionInv, Busy
<1>5. IF how = "told" THEN active ELSE ~active
  BY <1>1, <1>2 DEF SessionInv, Telling
<1>6. Plain(capture, capture', ForSession)
  <2>1. ForPage \ {"mute"} = ForSession
    BY DEF ForPage, ForSession, Starting
  <2>. QED
    BY <1>2, <2>1
<1>7. Before(capture', {"stop"}, Starting) /\ NoStop'
  BY <1>4, <1>6, SessionPlain DEF SessionInv
<1>8. /\ active' = active /\ mounted' = mounted /\ ~isActive'
      /\ (nativeRef' <=> active) /\ (shown' <=> active)
      /\ nativeRef' \in BOOLEAN /\ shown' \in BOOLEAN /\ isActive' \in BOOLEAN
  BY <1>1, <1>4, <1>5 DEF Goes, micVars, NativeTypeOK
<1>9. \A q \in Presses : press'[q] \in Busy => q = p
  BY <1>2, <1>3
<1>10. press'[p] = "waking" \/ (press'[p] = "over" /\ ~active')
  BY <1>2, <1>8
<1>11. \A q \in Presses : press'[q] \in Busy => press'[q] = "waking" /\ active' /\ nativeRef'
  BY <1>2, <1>8, <1>9, <1>10 DEF Busy
<1>12. (\A q \in Presses : press'[q] \notin Busy) => ~active' /\ ~nativeRef'
  BY <1>8, <1>10, <1>2 DEF Busy
<1>13. shown' = nativeRef'
  BY <1>8
<1>14. \A q \in Presses : press'[q] \in {"prompt", "queued", "telling", "waking"} => press'[q] \in Busy
  BY DEF Busy
<1>15. isActive' = FALSE /\ (~nativeRef' => nativeRef' = FALSE)
  BY <1>8
<1>. QED
  BY <1>4, <1>7, <1>8, <1>9, <1>11, <1>12, <1>13, <1>14, <1>15 DEF SessionInv

LEMMA WokenSession ==
  ASSUME NativeTypeOK, SessionInv, NEW p \in Presses, Woken(p)
  PROVE  SessionInv'
<1>1. /\ press[p] = "waking" /\ press' = [press EXCEPT ![p] = "over"]
      /\ press \in [Presses -> {"idle", "over"} \cup Busy] /\ isActive' = TRUE /\ TellsMuted
      /\ UNCHANGED <<nativeRef, shown, mounted, active, main>>
  BY DEF Woken, NativeTypeOK, micVars
<1>2. Plain(capture, capture', ForSession)
  <2>1. "mute" \notin ForSession
    BY DEF ForSession, Starting
  <2>. QED
    BY <1>1, <2>1, TellsMutedPlain
<1>3. mounted /\ nativeRef /\ active /\ NoStop /\ shown = nativeRef
  BY <1>1 DEF SessionInv, Busy
<1>4. Before(capture', {"stop"}, Starting) /\ NoStop'
  BY <1>2, <1>3, SessionPlain DEF SessionInv
<1>5. press'[p] = "over" /\ \A q \in Presses \ {p} : press'[q] = press[q]
  BY <1>1
<1>6. \A q \in Presses : press'[q] \notin Busy
  BY <1>1, <1>5 DEF SessionInv, Busy
<1>7. nativeRef = TRUE
  BY <1>3 DEF NativeTypeOK
<1>. QED
  BY <1>1, <1>3, <1>4, <1>6, <1>7 DEF SessionInv, Busy

LEMMA PollSession ==
  ASSUME NativeTypeOK, SessionInv, Poll
  PROVE  SessionInv'
<1>1. shown /\ nativeRef' = active /\ UNCHANGED <<press, shown, isActive, mounted, capture, main, active>>
  BY DEF Poll, micVars
<1>2. nativeRef /\ nativeRef \in BOOLEAN /\ active \in BOOLEAN
  BY <1>1 DEF SessionInv, NativeTypeOK
<1>3. active
  <2>1. CASE \A p \in Presses : press[p] \notin Busy
    BY <1>2, <2>1 DEF SessionInv
  <2>2. ASSUME NEW p \in Presses, press[p] \in Busy PROVE active
    BY <1>2, <2>2 DEF SessionInv, Busy
  <2>. QED
    BY <2>1, <2>2
<1>4. nativeRef' = nativeRef
  BY <1>1, <1>2, <1>3
<1>5. Plain(capture, capture', ForSession) /\ Plain(main, main', Telling)
  BY <1>1, SamePlain
<1>. QED
  BY <1>1, <1>4, <1>5, SessionAside

\* The conversation is stopped.
LEMMA QuitsSession ==
  ASSUME NativeTypeOK, PressInv, ~loose => SessionInv, Hangup \/ Leave, ~loose'
  PROVE  SessionInv'
<1>1. ~loose /\ SessionInv
  <2>1. CASE Hangup
    BY <2>1 DEF Hangup
  <2>2. CASE Leave
    BY <2>2 DEF Leave
  <2>. QED
    BY <2>1, <2>2
<1>2. \A p \in Presses : press[p] \notin Busy
  <2>1. CASE Hangup
    BY <1>1, <2>1 DEF Hangup, SessionInv
  <2>2. CASE Leave
    BY <2>2 DEF Leave
  <2>. QED
    BY <2>1, <2>2
<1>3. ~Holds(capture, Starting)
  BY <1>2, NobodyStarts
<1>4. /\ press' = press /\ nativeRef' = FALSE /\ shown' = FALSE /\ isActive' = FALSE
      /\ active' = active /\ main' = main
      /\ IF nativeRef THEN Captures("stop", Nobody) ELSE UNCHANGED capture
  BY DEF Hangup, Leave, Quits, micVars
<1>5. Before(capture', {"stop"}, Starting) /\ (NoStop' => ~active)
  <2>1. CASE nativeRef
    <3>1. capture' = Append(capture, <<"stop", Nobody>>) /\ capture \in Seq(CaptureJobs)
      BY <1>4, <2>1 DEF Captures, NativeTypeOK
    <3>2. <<"stop", Nobody>>[1] = "stop" /\ "stop" \notin Starting
      BY DEF Starting
    <3>3. Before(capture, {"stop"}, Starting)
      BY <1>1 DEF SessionInv
    <3>4. Before(capture', {"stop"}, Starting)
      BY <1>3, <3>1, <3>2, <3>3, Added
    <3>5. Holds(capture', {"stop"})
      BY <3>1, <3>2, Added
    <3>. QED
      BY <3>4, <3>5 DEF NoStop
  <2>2. CASE ~nativeRef
    <3>1. capture' = capture
      BY <1>4, <2>2
    <3>2. Before(capture, {"stop"}, Starting) /\ (NoStop => ~active)
      BY <1>1, <1>2, <2>2 DEF SessionInv
    <3>. QED
      BY <3>1, <3>2 DEF NoStop
  <2>. QED
    BY <2>1, <2>2
<1>6. \A p \in Presses : press'[p] \notin Busy
  BY <1>2, <1>4
<1>. QED
  BY <1>4, <1>5, <1>6 DEF SessionInv, Busy

LEMMA StopSession ==
  ASSUME NativeTypeOK, SessionInv, RunStop
  PROVE  SessionInv'
<1>1. /\ capture # <<>> /\ <<"stop", Nobody>> = Head(capture) /\ capture' = Tail(capture)
      /\ capture \in Seq(CaptureJobs)
  BY DEF RunStop, NextCapture, NativeTypeOK
<1>2. <<"stop", Nobody>>[1] = "stop"
  OBVIOUS
<1>3. ~NoStop
  <2>1. Holds(capture, {"stop"})
    BY <1>1, <1>2, Taken
  <2>. QED
    BY <2>1 DEF NoStop
<1>4. Before(capture', {"stop"}, Starting)
  <2>1. Before(capture, {"stop"}, Starting)
    BY DEF SessionInv
  <2>. QED
    BY <1>1, <2>1, Taken
<1>5. ~active' /\ UNCHANGED <<press, nativeRef, shown, isActive, mounted>>
  BY DEF RunStop, MicRest, buttonVars
<1>6. \A p \in Presses : press[p] \in Busy => press[p] \in {"prompt", "queued"}
  BY <1>3 DEF SessionInv, Busy
<1>7. \A p \in Presses : press[p] \notin {"telling", "waking"}
  BY <1>3 DEF SessionInv, Busy
<1>8. (\A p \in Presses : press[p] \notin Busy) => isActive = nativeRef /\ ~isActive
  BY <1>3 DEF SessionInv
<1>9. \A p \in Presses : press[p] \in {"prompt", "queued"} => ~nativeRef
  BY DEF SessionInv
<1>10. /\ shown = nativeRef
       /\ \A p, q \in Presses : press[p] \in Busy /\ press[q] \in Busy => p = q
       /\ \A p \in Presses : press[p] \in Busy => mounted /\ ~isActive
  BY DEF SessionInv
<1>. QED
  BY <1>4, <1>5, <1>7, <1>8, <1>9, <1>10 DEF SessionInv

LEMMA SessionStep ==
  ASSUME NativeTypeOK, PressInv, ~loose => SessionInv, NativeNext
  PROVE  ~loose' => SessionInv'
<1>. SUFFICES ASSUME ~loose' PROVE SessionInv'
  OBVIOUS
<1>1. CASE Recovering \/ Hearing \/ Answering
  <2>1. ForSession \in SUBSET ForPage
    BY DEF ForSession, Starting, ForPage
  <2>2. Plain(capture, capture', ForSession) /\ Plain(main, main', Telling)
    BY <1>1, <2>1, RecoveringPlain, HearingPlain, AnsweringPlain, PlainLess, SamePlain
  <2>3. UNCHANGED <<press, nativeRef, shown, isActive, mounted, active, loose>>
    BY <1>1, RecoveringPlain, HearingPlain, AnsweringPlain DEF buttonVars, micVars
  <2>. QED
    BY <2>2, <2>3, SessionAside
<1>2. CASE PageMutes \/ \E b \in BOOLEAN : RunMute(b)
  <2>1. "mute" \notin ForSession
    BY DEF ForSession, Starting
  <2>2. Plain(capture, capture', ForSession) /\ Plain(main, main', Telling)
    BY <1>2, <2>1, TellsMutedPlain, NextCapturePlain, SamePlain DEF PageMutes, RunMute
  <2>3. UNCHANGED <<press, nativeRef, shown, isActive, mounted, active, loose>>
    BY <1>2 DEF PageMutes, RunMute, micVars, MicRest, buttonVars
  <2>. QED
    BY <2>2, <2>3, SessionAside
<1>3. ASSUME NEW p \in Presses,
             Prompted(p) \/ Woken(p) \/ RunStart(p) \/ StartFails(p) \/ RunDenied(p) \/ Told(p)
               \/ Refused(p)
      PROVE  SessionInv'
  <2>1. ~loose
    BY <1>3 DEF Prompted, Woken, RunStart, StartFails, RunDenied, Tells, Told, Refused, Goes
  <2>. QED
    BY <1>3, <2>1, PromptedSession, WokenSession, StartSession, AnswerSession
<1>4. ASSUME NEW p \in Presses, Press(p) PROVE SessionInv'
  BY <1>4, PressSession
<1>5. CASE Hangup \/ Leave
  BY <1>5, QuitsSession
<1>6. CASE Poll \/ RunStop
  <2>1. ~loose
    BY <1>6 DEF Poll, RunStop, MicRest, buttonVars
  <2>. QED
    BY <1>6, <2>1, PollSession, StopSession
<1>. QED
  BY <1>1, <1>2, <1>3, <1>4, <1>5, <1>6, StepKinds DEF Paging

-----------------------------------------------------------------------------
(* The mute button.                                                        *)

LEMMA MuteAside ==
  ASSUME NativeTypeOK, MuteInv, Plain(capture, capture', {"mute"}), UNCHANGED <<muted, pageMuted>>,
         mounted' => mounted, isActive' => isActive, shown' => shown, ~loose' => ~loose
  PROVE  MuteInv'
<1>1. Alike(capture, capture', {"mute"}, {"mute"})
  <2>1. capture \in Seq(CaptureJobs)
    BY DEF NativeTypeOK
  <2>. QED
    BY <2>1, PlainKeeps
<1>. QED
  BY <1>1 DEF MuteInv, Alike

\* The effect follows what the page shows.
LEMMA MuteTold ==
  ASSUME NativeTypeOK, MuteInv, TellsMuted, UNCHANGED <<muted, mounted, loose>>
  PROVE  MuteInv'
<1>1. CASE Captures("mute", pageMuted')
  <2>1. capture \in Seq(CaptureJobs) /\ capture' = Append(capture, <<"mute", pageMuted'>>)
    BY <1>1 DEF Captures, NativeTypeOK
  <2>2. <<"mute", pageMuted'>>[1] = "mute" /\ <<"mute", pageMuted'>>[2] = pageMuted'
    OBVIOUS
  <2> DEFINE x == <<"mute", pageMuted'>>
  <2>3. capture' = Append(capture, x) /\ x[1] \in {"mute"}
    BY <2>1, <2>2
  <2>. HIDE DEF x
  <2>4. Holds(capture', {"mute"}) /\ LastFor(capture', {"mute"}, x[2])
    BY <2>1, <2>3, Added
  <2>. QED
    BY <2>2, <2>4 DEF x, MuteInv
<1>2. CASE ~Captures("mute", pageMuted')
  <2>1. /\ capture' = capture
        /\ ~(/\ mounted /\ isActive' /\ shown'
             /\ <<isActive', shown', pageMuted'>> # <<isActive, shown, pageMuted>>)
    BY <1>2 DEF TellsMuted
  <2>2. ASSUME mounted', isActive', shown', ~loose'
        PROVE  /\ mounted /\ isActive /\ shown /\ ~loose
               /\ pageMuted' = pageMuted
    BY <2>1, <2>2
  <2>. QED
    BY <2>1, <2>2 DEF MuteInv
<1>. QED
  BY <1>1, <1>2

\* The plugin is muted as the first job says, which is the last if there is no other.
LEMMA MuteRuns ==
  ASSUME NativeTypeOK, MuteInv, NEW b \in BOOLEAN, RunMute(b)
  PROVE  MuteInv'
<1>1. /\ capture # <<>> /\ <<"mute", b>> = Head(capture) /\ capture' = Tail(capture)
      /\ capture \in Seq(CaptureJobs)
  BY DEF RunMute, NextCapture, NativeTypeOK
<1>2. <<"mute", b>>[1] \in {"mute"} /\ <<"mute", b>>[2] = b
  OBVIOUS
<1>3. LastFor(capture, {"mute"}, pageMuted) =>
        /\ LastFor(capture', {"mute"}, pageMuted)
        /\ ~Holds(capture', {"mute"}) => b = pageMuted
  BY <1>1, <1>2, Taken
<1>4. muted' = b /\ UNCHANGED <<mounted, isActive, shown, loose, pageMuted>>
  BY DEF RunMute, MicRest, buttonVars
<1>. QED
  BY <1>3, <1>4 DEF MuteInv

LEMMA MuteStep ==
  ASSUME NativeTypeOK, MuteInv, NativeNext
  PROVE  MuteInv'
<1>1. CASE Recovering \/ Hearing \/ Answering
  <2>1. {"mute"} \in SUBSET ForPage
    BY DEF ForPage
  <2>2. Plain(capture, capture', {"mute"})
    BY <1>1, <2>1, RecoveringPlain, HearingPlain, AnsweringPlain, PlainLess
  <2>3. UNCHANGED <<mounted, isActive, shown, loose, pageMuted, muted>>
    BY <1>1, RecoveringPlain, HearingPlain, AnsweringPlain DEF buttonVars, micVars
  <2>. QED
    BY <2>2, <2>3, MuteAside
<1>2. ASSUME NEW p \in Presses, Prompted(p) \/ RunStart(p) \/ StartFails(p) \/ RunDenied(p)
      PROVE  MuteInv'
  <2>1. Plain(capture, capture', {"mute"})
    BY <1>2, CapturesPlain, NextCapturePlain DEF Prompted, RunStart, StartFails, RunDenied
  <2>2. UNCHANGED <<mounted, isActive, shown, loose, pageMuted, muted>>
    BY <1>2 DEF Prompted, RunStart, StartFails, RunDenied, Tells, micVars
  <2>. QED
    BY <2>1, <2>2, MuteAside
<1>3. CASE Poll \/ RunStop
  <2>1. Plain(capture, capture', {"mute"})
    BY <1>3, SamePlain, NextCapturePlain DEF Poll, RunStop
  <2>2. UNCHANGED <<mounted, isActive, shown, loose, pageMuted, muted>>
    BY <1>3 DEF Poll, RunStop, micVars, MicRest, buttonVars
  <2>. QED
    BY <2>1, <2>2, MuteAside
<1>4. CASE Hangup \/ Leave
  <2>1. isActive' = FALSE
    BY <1>4 DEF Hangup, Leave, Quits
  <2>. QED
    BY <2>1 DEF MuteInv
<1>5. ASSUME NEW p \in Presses, Press(p) PROVE MuteInv'
  <2>1. ~isActive'
    BY <1>5 DEF Press
  <2>. QED
    BY <2>1 DEF MuteInv
<1>6. CASE PageMutes \/ \E p \in Presses : Woken(p)
  <2>1. TellsMuted /\ UNCHANGED <<muted, mounted, loose>>
    BY <1>6 DEF PageMutes, Woken, micVars
  <2>. QED
    BY <2>1, MuteTold
<1>7. ASSUME NEW p \in Presses, Told(p) \/ Refused(p) PROVE MuteInv'
  <2>1. TellsMuted /\ UNCHANGED <<muted, mounted, loose>>
    BY <1>7 DEF Told, Refused, Goes, micVars
  <2>. QED
    BY <2>1, MuteTold
<1>8. ASSUME NEW b \in BOOLEAN, RunMute(b) PROVE MuteInv'
  BY <1>8, MuteRuns
<1>. QED
  BY <1>1, <1>2, <1>3, <1>4, <1>5, <1>6, <1>7, <1>8, StepKinds DEF Paging

-----------------------------------------------------------------------------
(* The whole.                                                              *)

LEMMA TypeStep ==
  ASSUME NativeTypeOK, NativeNext
  PROVE  NativeTypeOK'
BY PageTypes, ToldTypes, MicTypes, RecordTypes, TalkTypes DEF NativeNext, CaptureRuns, MainRuns,
   Page, System

LEMMA EmptyQueues ==
  ASSUME NEW K, NEW L
  PROVE  /\ ~Holds(<<>>, K) /\ \A who : ~HoldsFor(<<>>, K, who) /\ LastFor(<<>>, K, who)
         /\ Once(<<>>, K) /\ Before(<<>>, K, L) /\ Followed(<<>>, K, L)
<1>1. DOMAIN <<>> = {}
  OBVIOUS
<1>. QED
  BY <1>1 DEF Holds, HoldsFor, Once, Before, Followed, LastFor

LEMMA NativeStart == NativeInit => NativeInv
<1>. SUFFICES ASSUME NativeInit PROVE NativeInv
  OBVIOUS
<1>1. capture = <<>> /\ main = <<>>
  BY DEF NativeInit
<1>2. NativeTypeOK
  <2>1. capture \in Seq(CaptureJobs) /\ main \in Seq(MainJobs)
    BY <1>1
  <2>2. press \in [Presses -> {"idle", "over"} \cup Busy]
        /\ talk \in [Talks -> {"idle", "waiting", "heard", "told"}]
    BY DEF NativeInit
  <2>3. troubles \in 0..MaxTroubles
    BY TroubleBound DEF NativeInit
  <2>. QED
    BY <2>1, <2>2, <2>3 DEF NativeInit, NativeTypeOK
<1>3. MicKnown /\ RecordsWhenAsked /\ UploadTracked
  BY DEF NativeInit, MicKnown, RecordsWhenAsked, UploadTracked
<1>4. PressInv
  BY <1>1, EmptyQueues DEF NativeInit, PressInv
<1>5. SessionInv
  BY <1>1, EmptyQueues DEF NativeInit, SessionInv, Busy
<1>6. MuteInv
  BY DEF NativeInit, MuteInv
<1>7. TaskInv
  BY <1>1, EmptyQueues DEF NativeInit, TaskInv
<1>8. CallInv
  BY <1>1, EmptyQueues, NobodyAssumption DEF NativeInit, CallInv, Underway
<1>. QED
  BY <1>2, <1>3, <1>4, <1>5, <1>6, <1>7, <1>8 DEF NativeInv

LEMMA NativeStep == NativeInv /\ [NativeNext]_nativeVars => NativeInv'
<1>. SUFFICES ASSUME NativeInv, [NativeNext]_nativeVars PROVE NativeInv'
  OBVIOUS
<1>1. CASE NativeNext
  <2>1. NativeTypeOK' /\ PressInv' /\ UploadTracked'
    BY <1>1, TypeStep, PressStep, UploadStep DEF NativeInv
  <2>2. MicKnown' /\ RecordsWhenAsked'
    BY <1>1, MicStep DEF NativeInv, MicInv
  <2>3. ~loose' => SessionInv'
    BY <1>1, SessionStep DEF NativeInv
  <2>4. MuteInv' /\ TaskInv' /\ CallInv'
    BY <1>1, MuteStep, TaskStep, CallStep DEF NativeInv
  <2>. QED
    BY <2>1, <2>2, <2>3, <2>4 DEF NativeInv
<1>2. CASE UNCHANGED nativeVars
  BY <1>2 DEF nativeVars, buttonVars, micVars, recordVars, talkVars, NativeInv, NativeTypeOK,
     MicKnown,
     RecordsWhenAsked, UploadTracked, PressInv, SessionInv, NoStop, MuteInv, TaskInv, CallInv
<1>. QED
  BY <1>1, <1>2

THEOREM NativeInvariant == NativeSpec => []NativeInv
BY NativeStart, NativeStep, PTL DEF NativeSpec

\* What the properties say of a queue is what the invariant says.
LEMMA QueuedHolds ==
  ASSUME NEW S, NEW q \in Seq(S), NEW K
  PROVE  Queued(q, K) <=> Holds(q, K)
<1>1. ToSet(q) = {q[i] : i \in DOMAIN q}
  BY DEF ToSet
<1>. QED
  BY <1>1 DEF Queued, Holds

LEMMA QueuedEither ==
  ASSUME NativeTypeOK, NEW K, NEW t
  PROVE  (\E job \in ToSet(capture \o main) : job[1] \in K /\ job[2] = t)
           <=> HoldsFor(capture, K, t) \/ HoldsFor(main, K, t)
<1> DEFINE c == Len(capture)
           m == Len(main)
           q == capture \o main
<1>1. capture \in Seq(CaptureJobs \cup MainJobs) /\ main \in Seq(CaptureJobs \cup MainJobs)
  BY DEF NativeTypeOK
<1>2. /\ c \in Nat /\ m \in Nat /\ DOMAIN capture = 1..c /\ DOMAIN main = 1..m
  BY <1>1, LenProperties
<1>3. /\ q \in Seq(CaptureJobs \cup MainJobs) /\ Len(q) = c + m
      /\ \A i \in 1..(c + m) : q[i] = IF i <= c THEN capture[i] ELSE main[i - c]
  BY <1>1, ConcatProperties
<1>4. DOMAIN q = 1..(c + m)
  BY <1>3, LenProperties
<1>5. ToSet(q) = {q[i] : i \in DOMAIN q}
  BY DEF ToSet
<1>. HIDE DEF c, m, q
<1>6. \A i \in DOMAIN capture : i \in DOMAIN q /\ q[i] = capture[i]
  BY <1>2, <1>3, <1>4
<1>7. \A i \in DOMAIN main : c + i \in DOMAIN q /\ q[c + i] = main[i]
  BY <1>2, <1>3, <1>4
<1>8. \A i \in DOMAIN q : \/ i \in DOMAIN capture /\ q[i] = capture[i]
                          \/ i - c \in DOMAIN main /\ q[i] = main[i - c]
  BY <1>2, <1>3, <1>4
<1>9. (\E job \in ToSet(q) : job[1] \in K /\ job[2] = t)
        <=> HoldsFor(capture, K, t) \/ HoldsFor(main, K, t)
  BY <1>5, <1>6, <1>7, <1>8 DEF HoldsFor
<1>. QED
  BY <1>9 DEF q

\* The microphone, the session and its button, the mute button, the recording, its upload
\* and its background task, and the calls that play, whatever the page, the two queues and
\* the system do in which order (NativeSound).
THEOREM NativeIsSound == NativeSpec => []NativeSound
<1>1. NativeInv => NativeSound
  <2>. SUFFICES ASSUME NativeInv PROVE NativeSound
    OBVIOUS
  <2>1. NativeTypeOK /\ capture \in Seq(CaptureJobs) /\ main \in Seq(MainJobs)
    BY DEF NativeInv, NativeTypeOK
  <2>2. /\ \A K : Queued(capture, K) <=> Holds(capture, K)
        /\ \A K : Queued(main, K) <=> Holds(main, K)
    BY <2>1, QueuedHolds
  <2>3. SessionStoppable
    <3>. SUFFICES ASSUME ~loose, active, ~Queued(capture, {"stop"}), \A p \in Presses : press[p] \notin Busy
                  PROVE  mounted /\ isActive /\ nativeRef
      BY DEF SessionStoppable
    <3>1. SessionInv /\ NoStop
      BY <2>2 DEF NativeInv, NoStop
    <3>2. isActive = nativeRef /\ (isActive => mounted) /\ (~isActive => ~active)
      BY <3>1 DEF SessionInv
    <3>. QED
      BY <3>2
  <2>4. MuteHeard
    BY <2>2 DEF NativeInv, MuteInv, MuteHeard
  <2>5. TaskFollows
    <3>1. Begins <=> Holds(main, {"begin"})
      BY <2>1, BeginsLate
    <3>. QED
      BY <2>2, <3>1 DEF NativeInv, TaskInv, TaskFollows
  <2>6. CallsMatch
    <3>1. \A t \in Talks :
            (\E job \in ToSet(capture \o main) : job[1] \in {"play", "speak", "refuse"} /\ job[2] = t)
              <=> HoldsFor(capture, Calling, t) \/ HoldsFor(main, Calling, t)
      BY <2>1, QueuedEither DEF Calling
    <3>2. CallInv
      BY DEF NativeInv
    <3>. QED
      BY <3>1, <3>2 DEF CallInv, CallsMatch, Underway
  <2>. QED
    BY <2>1, <2>3, <2>4, <2>5, <2>6 DEF NativeInv, NativeSound
<1>. QED
  BY <1>1, NativeInvariant, PTL
=============================================================================
