-------------------------- MODULE Realtime_proofs ---------------------------
(***************************************************************************)
(* Theorems about what the browser keeps open: RealtimeSync, for any       *)
(* number of events and connections, any replay limit and all faults, and  *)
(* VoiceRelay, for any number of activations.                              *)
(*                                                                         *)
(* The page's reconnectTimer is set only while it has no connection, so    *)
(* whatever opens a connection finds none, or closes the one there is. An  *)
(* event that is stored before a connection subscribes is found by its     *)
(* replay, one stored later is published to it: neither needs the other's  *)
(* order.                                                                  *)
(*                                                                         *)
(* Three of the properties of VoiceRelay speak of one session, and         *)
(* SessionInv ties its fields together. Reachable is about all of them: it *)
(* needs Alone, that as long as no activation began during another there   *)
(* is at most one under way, none while the button stops, and that         *)
(* whatever is open belongs to that one or to what the button stops.       *)
(***************************************************************************)
EXTENDS RealtimeSync, VoiceRelay, SequenceTheorems, TLAPS

-----------------------------------------------------------------------------
(* Events and connections.                                                 *)

\* The reconnectTimer and the connection exclude each other.
TimerAlone == reconnectTimer => source = NoStream

SyncAlone == OneStream /\ TimerAlone

-----------------------------------------------------------------------------
(* Type correctness.                                                       *)

LEMMA FirstRowsTyped == \A n : FirstRows(n) \subseteq Events
  BY DEF FirstRows, After, Stored

LEMMA WriteTyped ==
  ASSUME SyncTypeOK, NEW e \in Events, Write(e)
  PROVE  SyncTypeOK'
<1>1. CASE Insert(e) BY <1>1 DEF SyncTypeOK, Insert, Rows, connection, pageSide
<1>2. CASE Commit(e) BY <1>2 DEF SyncTypeOK, Commit, Rows, connection, pageSide
<1>3. CASE InsertFails(e) BY <1>3 DEF SyncTypeOK, InsertFails, Rows, connection, pageSide
<1>4. CASE Publish(e)
  <2>1. reading' \in [Streams -> SUBSET Events]
    BY <1>4 DEF SyncTypeOK, Publish
  <2> QED BY <1>4, <2>1 DEF SyncTypeOK, Publish, Rows, pageSide
<1>5. CASE AnswerLost(e)
  <2>1. missed' \in [Streams -> SUBSET Events]
    BY <1>5 DEF SyncTypeOK, AnswerLost
  <2> QED BY <1>5, <2>1 DEF SyncTypeOK, AnswerLost, Rows, pageSide
<1> QED BY <1>1, <1>2, <1>3, <1>4, <1>5 DEF Write

LEMMA ReplayTyped ==
  ASSUME SyncTypeOK, NEW s \in Streams, Replay(s)
  PROVE  SyncTypeOK'
<1>1. FirstRows(since[s]) \subseteq Events
  BY FirstRowsTyped
<1>2. (FirstRows(since[s]) # After(since[s])) \in BOOLEAN
  OBVIOUS
<1> HIDE DEF FirstRows, After
<1>3. truncated' \in [Streams -> BOOLEAN]
  BY <1>2 DEF Replay, SyncTypeOK
<1>4. replay' \in [Streams -> SUBSET Events]
  BY <1>1 DEF Replay, SyncTypeOK
<1> QED BY <1>3, <1>4 DEF Replay, SyncTypeOK, pageSide

LEMMA SendReplayedTyped ==
  ASSUME SyncTypeOK, NEW s \in Streams, SendReplayed(s)
  PROVE  SyncTypeOK'
<1>1. PICK e : /\ replay' = [replay EXCEPT ![s] = @ \ {e}]
               /\ wire' = [wire EXCEPT ![s] = Append(@, e)]
               /\ e \in replay[s]
  BY DEF SendReplayed
<1> QED BY <1>1, AppendProperties DEF SendReplayed, SyncTypeOK, pageSide

LEMMA SendLiveTyped ==
  ASSUME SyncTypeOK, NEW s \in Streams, NEW e \in Events, SendLive(s, e)
  PROVE  SyncTypeOK'
<1>1. wire' \in [Streams -> Seq(Events)]
  BY AppendProperties DEF SendLive, SyncTypeOK
<1> QED BY <1>1 DEF SendLive, SyncTypeOK, pageSide

LEMMA ConnectTyped ==
  ASSUME SyncTypeOK, NEW T, Connect(T)
  PROVE  /\ source' \in Streams
         /\ state' \in [Streams -> {"none", "requested", "replaying", "live"}]
         /\ since' \in [Streams -> Nat]
         /\ replay' \in [Streams -> SUBSET Events]
         /\ reading' \in [Streams -> SUBSET Events]
         /\ wire' \in [Streams -> Seq(Events)]
         /\ truncated' \in [Streams -> BOOLEAN]
         /\ broken' \in [Streams -> BOOLEAN]
         /\ missed' \in [Streams -> SUBSET Events]
<1>1. PICK s \in Streams : source' = s /\ Reconnected(T, s, cursor)
  BY DEF Connect
<1>2. <<>> \in Seq(Events)
  BY EmptySeq
<1>3. wire' \in [Streams -> Seq(Events)]
  BY <1>1, <1>2 DEF Reconnected, SyncTypeOK
<1>4. /\ state' \in [Streams -> {"none", "requested", "replaying", "live"}]
      /\ since' \in [Streams -> Nat]
  BY <1>1 DEF Reconnected, SyncTypeOK
<1>5. /\ replay' \in [Streams -> SUBSET Events]
      /\ reading' \in [Streams -> SUBSET Events]
      /\ missed' \in [Streams -> SUBSET Events]
  BY <1>1 DEF Reconnected, SyncTypeOK
<1>6. /\ truncated' \in [Streams -> BOOLEAN]
      /\ broken' \in [Streams -> BOOLEAN]
  BY <1>1 DEF Reconnected, SyncTypeOK
<1> QED BY <1>1, <1>3, <1>4, <1>5, <1>6

LEMMA LostTyped ==
  ASSUME SyncTypeOK, NEW s \in Streams, Lost(s), row' \in [Events -> Rows]
  PROVE  SyncTypeOK'
<1>1. <<>> \in Seq(Events)
  BY EmptySeq
<1>2. wire' \in [Streams -> Seq(Events)]
  BY <1>1 DEF Lost, Reconnected, SyncTypeOK
<1>3. /\ truncated' \in [Streams -> BOOLEAN]
      /\ broken' \in [Streams -> BOOLEAN]
      /\ missed' \in [Streams -> SUBSET Events]
  BY DEF Lost, Reconnected, SyncTypeOK
<1> QED BY <1>2, <1>3 DEF Lost, Reconnected, SyncTypeOK

LEMMA ReceiveTyped ==
  ASSUME SyncTypeOK, NEW s \in Streams, Receive(s)
  PROVE  SyncTypeOK'
<1>1. /\ Head(wire[s]) \in Events
      /\ Tail(wire[s]) \in Seq(Events)
  BY HeadTailProperties DEF Receive, SyncTypeOK
<1>2. Events \subseteq Nat
  BY DEF Events
<1> QED BY <1>1, <1>2 DEF Receive, SyncTypeOK

LEMMA RestartTyped ==
  ASSUME SyncTypeOK, Restart
  PROVE  SyncTypeOK'
<1>1. row' \in [Events -> Rows]
  BY DEF Restart, SyncTypeOK, Rows
<1>2. CASE \E s \in Streams : Lost(s)
  BY <1>1, <1>2, LostTyped
<1>3. CASE UNCHANGED <<state, connection, pageSide>>
  BY <1>1, <1>3 DEF SyncTypeOK, connection, pageSide
<1> QED BY <1>2, <1>3 DEF Restart

LEMMA TypeInit == SyncInit => SyncTypeOK
<1> SUFFICES ASSUME SyncInit PROVE SyncTypeOK
  OBVIOUS
<1>1. <<>> \in Seq(Events)
  BY EmptySeq
<1>2. wire \in [Streams -> Seq(Events)]
  BY <1>1 DEF SyncInit
<1>3. /\ truncated \in [Streams -> BOOLEAN]
      /\ broken \in [Streams -> BOOLEAN]
  BY DEF SyncInit
<1> QED BY <1>2, <1>3 DEF SyncInit, SyncTypeOK, Rows

LEMMA TypeStep == SyncTypeOK /\ [SyncNext]_syncVars => SyncTypeOK'
<1> SUFFICES ASSUME SyncTypeOK, [SyncNext]_syncVars PROVE SyncTypeOK'
  OBVIOUS
<1>1. CASE \E e \in Events : Write(e)
  BY <1>1, WriteTyped
<1>2. ASSUME NEW s \in Streams, Serve(s) PROVE SyncTypeOK'
  <2>1. CASE Accept(s) BY <2>1 DEF Accept, SyncTypeOK, connection, pageSide
  <2>2. CASE ReplayFails(s) BY <2>2 DEF ReplayFails, SyncTypeOK, pageSide
  <2>3. ASSUME NEW e \in Events, LiveFails(s, e) PROVE SyncTypeOK'
    BY <2>3 DEF LiveFails, SyncTypeOK, pageSide
  <2> QED BY <1>2, <2>1, <2>2, <2>3, ReplayTyped, SendReplayedTyped, SendLiveTyped DEF Serve
<1>3. CASE \E s \in Streams : Receive(s)
  BY <1>3, ReceiveTyped
<1>4. CASE \E s \in Streams : NetworkFails(s)
  <2>1. row' \in [Events -> Rows]
    BY <1>4 DEF NetworkFails, SyncTypeOK
  <2> QED BY <1>4, <2>1, LostTyped DEF NetworkFails
<1>5. CASE ReconnectFires
  BY <1>5, ConnectTyped DEF ReconnectFires, SyncTypeOK
<1>6. CASE Resume
  BY <1>6, ConnectTyped DEF Resume, SyncTypeOK
<1>7. CASE Settled
  BY <1>7 DEF Settled, SyncTypeOK, connection
<1>8. CASE UNCHANGED syncVars
  BY <1>8 DEF syncVars, SyncTypeOK
<1> QED BY <1>1, <1>2, <1>3, <1>4, <1>5, <1>6, <1>7, <1>8, RestartTyped DEF SyncNext

\* Rows, connections and the page keep their types.
THEOREM SyncTypeCorrect == SyncSpec => []SyncTypeOK
  BY TypeInit, TypeStep, PTL DEF SyncSpec

-----------------------------------------------------------------------------
(* One connection.                                                         *)

\* What leaves the page's connection and reconnectTimer alone and opens none.
Stays == /\ \A s \in Streams : state'[s] # "none" => state[s] # "none"
         /\ UNCHANGED <<source, reconnectTimer>>

LEMMA ConnectAlone ==
  ASSUME OneStream, NEW T, {source} \ {NoStream} \subseteq T \/ source = NoStream, Connect(T),
         state \in [Streams -> {"none", "requested", "replaying", "live"}],
         ~reconnectTimer'
  PROVE  SyncAlone'
<1>1. PICK s \in Streams : source' = s /\ Reconnected(T, s, cursor)
  BY DEF Connect
<1>2. \A r \in Streams : state'[r] # "none" => r = s
  BY <1>1, StreamsAssumption DEF Reconnected, OneStream
<1> QED BY <1>1, <1>2, StreamsAssumption DEF SyncAlone, OneStream, TimerAlone

LEMMA LostAlone ==
  ASSUME OneStream, NEW s \in Streams, Lost(s)
  PROVE  SyncAlone' /\ \A r \in Streams : state'[r] = "none"
<1>1. \A r \in Streams : state'[r] = "none"
  BY StreamsAssumption DEF Lost, Reconnected, OneStream
<1> QED BY <1>1 DEF Lost, SyncAlone, OneStream, TimerAlone

LEMMA StaysAlone == SyncAlone /\ Stays => SyncAlone'
  BY DEF SyncAlone, Stays, OneStream, TimerAlone

LEMMA AloneStep == SyncTypeOK /\ SyncAlone /\ [SyncNext]_syncVars => SyncAlone'
<1> SUFFICES ASSUME SyncTypeOK, SyncAlone, [SyncNext]_syncVars PROVE SyncAlone'
  OBVIOUS
<1>1. ASSUME NEW e \in Events, Write(e) PROVE Stays
  BY <1>1 DEF Write, Insert, Commit, InsertFails, AnswerLost, Publish, Stays, pageSide
<1>2. ASSUME NEW s \in Streams, Serve(s) \/ Receive(s) PROVE Stays
  <2>1. CASE Accept(s) BY <2>1 DEF Accept, SyncTypeOK, Stays, pageSide
  <2>2. CASE Replay(s) BY <2>2 DEF Replay, SyncTypeOK, Stays, pageSide
  <2>3. CASE ReplayFails(s) BY <2>3 DEF ReplayFails, SyncTypeOK, Stays, pageSide
  <2>4. CASE SendReplayed(s) BY <2>4 DEF SendReplayed, Stays, pageSide
  <2>5. CASE \E e \in Events : SendLive(s, e) \/ LiveFails(s, e)
    BY <2>5 DEF SendLive, LiveFails, Stays, pageSide
  <2>6. CASE Receive(s) BY <2>6 DEF Receive, Stays
  <2> QED BY <1>2, <2>1, <2>2, <2>3, <2>4, <2>5, <2>6 DEF Serve
<1>3. ASSUME NEW s \in Streams, Lost(s) PROVE SyncAlone'
  BY <1>3, LostAlone DEF SyncAlone
<1>4. CASE ReconnectFires
  <2>1. source = NoStream
    BY <1>4 DEF ReconnectFires, SyncAlone, TimerAlone
  <2> QED BY <1>4, <2>1, ConnectAlone DEF ReconnectFires, SyncAlone, SyncTypeOK
<1>5. CASE Resume
  <2>1. /\ Connect({source} \ {NoStream})
        /\ ~reconnectTimer'
    BY <1>5 DEF Resume
  <2> QED BY <2>1, ConnectAlone DEF SyncAlone, SyncTypeOK
<1>6. CASE Settled \/ UNCHANGED syncVars
  BY <1>6, StaysAlone DEF Settled, Stays, syncVars
<1>7. CASE Restart
  <2>1. CASE UNCHANGED <<state, connection, pageSide>>
    BY <2>1, StaysAlone DEF Stays, pageSide
  <2> QED BY <1>3, <1>7, <2>1 DEF Restart
<1> QED
  BY <1>1, <1>2, <1>3, <1>4, <1>5, <1>6, <1>7, StaysAlone DEF SyncNext, NetworkFails

\* Timer, errors and resumes, in any order, leave the page one connection.
THEOREM OneConnection == SyncSpec => []OneStream
<1>1. SyncInit => SyncTypeOK /\ SyncAlone
  BY TypeInit DEF SyncInit, SyncAlone, OneStream, TimerAlone
<1>2. SyncTypeOK /\ SyncAlone /\ [SyncNext]_syncVars => (SyncTypeOK /\ SyncAlone)'
  BY TypeStep, AloneStep
<1>3. SyncAlone => OneStream
  BY DEF SyncAlone
<1> QED BY <1>1, <1>2, <1>3, PTL DEF SyncSpec

-----------------------------------------------------------------------------
(* Replay and subscription together cover the table.                       *)

\* What an open connection owes the page for a stored event.
Owed(s, e) == \/ e \in applied \cup InFlight(s)
              \/ row[e] = "committed"
              \/ state[s] = "replaying"
              \/ e \in missed[s]

\* What a step must keep for the connections that were open before it.
KeepsOwing ==
  /\ \A s \in Streams : Open(s)' =>
       \/ state'[s] = "replaying"
       \/ /\ Open(s) /\ since'[s] = since[s]
          /\ truncated[s] => truncated'[s]
          /\ broken[s] => broken'[s]
          /\ \A e \in Stored' : Owed(s, e) => broken'[s] \/ Owed(s, e)'
  /\ \A e \in Stored' : e \in Stored \/ row'[e] = "committed"

LEMMA KeptCovers == StreamCovers /\ KeepsOwing => StreamCovers'
  BY DEF StreamCovers, KeepsOwing, Owed

LEMMA AppendRange ==
  ASSUME NEW w \in Seq(Events), NEW e \in Events
  PROVE  Range(Append(w, e)) = Range(w) \cup {e}
<1>1. Append(w, e) \in Seq(Events)
  BY AppendProperties
<1>2. Range(Append(w, e)) = {Append(w, e)[i] : i \in 1 .. Len(w) + 1}
  <2>1. Range(Append(w, e)) = {Append(w, e)[i] : i \in 1 .. Len(Append(w, e))}
    BY <1>1, RangeEquality
  <2>2. Len(Append(w, e)) = Len(w) + 1
    BY AppendProperties
  <2> QED BY <2>1, <2>2
<1>3. Range(w) = {w[i] : i \in 1 .. Len(w)}
  BY RangeEquality
<1>4. Len(w) \in Nat
  BY LenProperties
<1> QED BY <1>2, <1>3, <1>4, AppendProperties

LEMMA TailRange ==
  ASSUME NEW w \in Seq(Events), w # <<>>
  PROVE  Range(w) = Range(Tail(w)) \cup {Head(w)}
<1>1. Range(w) = {w[i] : i \in 1 .. Len(w)}
  BY RangeEquality
<1>2. Range(Tail(w)) = {Tail(w)[i] : i \in 1 .. Len(Tail(w))}
  BY HeadTailProperties, RangeEquality
<1>3. Len(w) \in Nat /\ Len(w) # 0
  BY LenProperties, EmptySeq
<1>4. Head(w) = w[1]
  OBVIOUS
<1>5. \A i \in 1 .. Len(w) : i = 1 \/ w[i] = Tail(w)[i - 1]
  BY <1>3, HeadTailProperties
<1>6. \A i \in 1 .. Len(w) : w[i] \in Range(Tail(w)) \cup {Head(w)}
  <2>1. Len(Tail(w)) = Len(w) - 1
    BY HeadTailProperties
  <2>2. \A i \in 1 .. Len(w) : i # 1 => i - 1 \in 1 .. Len(Tail(w))
    BY <1>3, <2>1
  <2> QED BY <1>2, <1>4, <1>5, <2>2
<1>7. \A i \in 1 .. Len(Tail(w)) : Tail(w)[i] \in Range(w)
  BY <1>1, <1>3, HeadTailProperties
<1> QED BY <1>1, <1>2, <1>3, <1>4, <1>6, <1>7

LEMMA WriteKeepsOwing ==
  ASSUME SyncTypeOK, NEW e \in Events, Write(e)
  PROVE  KeepsOwing
<1> USE DEF KeepsOwing, Owed, Open, InFlight, Stored, SyncTypeOK, connection, pageSide
<1>1. CASE Insert(e) BY <1>1 DEF Insert
<1>2. CASE Commit(e) BY <1>2 DEF Commit
<1>3. CASE InsertFails(e) BY <1>3 DEF InsertFails
<1>4. CASE Publish(e) BY <1>4 DEF Publish
<1>5. CASE AnswerLost(e) BY <1>5 DEF AnswerLost
<1> QED BY <1>1, <1>2, <1>3, <1>4, <1>5 DEF Write

LEMMA ReplayCovers ==
  ASSUME SyncTypeOK, StreamCovers, NEW s \in Streams, Replay(s)
  PROVE  StreamCovers'
<1>1. ~truncated'[s] => replay'[s] = After(since[s])
  BY DEF Replay, SyncTypeOK
<1>2. \A r \in Streams : r # s =>
        UNCHANGED <<state[r], truncated[r], replay[r]>>
  BY DEF Replay, SyncTypeOK
<1>3. UNCHANGED <<row, since, reading, wire, broken, missed, applied, Stored>>
  BY DEF Replay, pageSide, Stored
<1>4. \A e \in Stored : e > since[s] => e \in After(since[s])
  BY DEF After
<1>5. ~truncated'[s] => \A e \in Stored : e > since[s] => e \in InFlight(s)'
  BY <1>1, <1>4 DEF InFlight
<1> QED BY <1>2, <1>3, <1>5 DEF StreamCovers, Open, InFlight

LEMMA SendsKeepOwing ==
  ASSUME SyncTypeOK, NEW s \in Streams, NEW e \in Events,
         wire' = [wire EXCEPT ![s] = Append(@, e)],
         \/ replay' = [replay EXCEPT ![s] = @ \ {e}] /\ reading' = reading
         \/ reading' = [reading EXCEPT ![s] = @ \ {e}] /\ replay' = replay,
         UNCHANGED <<row, state, since, truncated, broken, missed, applied>>
  PROVE  KeepsOwing
<1>1. Range(wire'[s]) = Range(wire[s]) \cup {e}
  BY AppendRange DEF SyncTypeOK
<1>2. \A r \in Streams : InFlight(r) \subseteq InFlight(r)'
  BY <1>1 DEF InFlight, SyncTypeOK
<1> QED BY <1>2 DEF KeepsOwing, Owed, Open, Stored

LEMMA ReceiveKeepsOwing ==
  ASSUME SyncTypeOK, NEW s \in Streams, Receive(s)
  PROVE  KeepsOwing
<1>1. Range(wire[s]) = Range(wire'[s]) \cup {Head(wire[s])}
  BY TailRange DEF Receive, SyncTypeOK
<1>2. \A r \in Streams : applied \cup InFlight(r) \subseteq applied' \cup InFlight(r)'
  BY <1>1 DEF Receive, InFlight, SyncTypeOK
<1> QED BY <1>2 DEF Receive, KeepsOwing, Owed, Open, Stored

LEMMA ConnectKeepsOwing ==
  ASSUME SyncTypeOK, NEW T, Connect(T), UNCHANGED <<row, applied>>
  PROVE  KeepsOwing
<1>1. PICK s \in Streams : Reconnected(T, s, cursor)
  BY DEF Connect
<1>2. \A r \in Streams : Open(r)' =>
        /\ r # s /\ r \notin T /\ Open(r)
        /\ UNCHANGED <<state[r], since[r], truncated[r], broken[r], missed[r], InFlight(r)>>
  BY <1>1 DEF Reconnected, Open, InFlight, SyncTypeOK
<1> QED BY <1>2 DEF KeepsOwing, Owed, Stored

LEMMA CoversStep == SyncTypeOK /\ SyncAlone /\ StreamCovers /\ [SyncNext]_syncVars => StreamCovers'
<1> SUFFICES ASSUME SyncTypeOK, SyncAlone, StreamCovers, [SyncNext]_syncVars PROVE StreamCovers'
  OBVIOUS
<1>1. CASE \E e \in Events : Write(e)
  BY <1>1, WriteKeepsOwing, KeptCovers
<1>2. ASSUME NEW s \in Streams, Serve(s) PROVE StreamCovers'
  <2>1. CASE Accept(s)
    BY <2>1, KeptCovers DEF Accept, KeepsOwing, Owed, Open, InFlight, Stored, SyncTypeOK, connection, pageSide
  <2>2. CASE ReplayFails(s)
    BY <2>2 DEF ReplayFails, StreamCovers, Open, InFlight, Stored, SyncTypeOK, pageSide
  <2>3. CASE SendReplayed(s)
    <3>1. PICK e \in replay[s] : /\ replay' = [replay EXCEPT ![s] = @ \ {e}]
                                 /\ wire' = [wire EXCEPT ![s] = Append(@, e)]
      BY <2>3 DEF SendReplayed
    <3>2. e \in Events
      BY DEF SyncTypeOK
    <3> QED BY <2>3, <3>1, <3>2, SendsKeepOwing, KeptCovers DEF SendReplayed, pageSide
  <2>4. ASSUME NEW e \in Events, SendLive(s, e) PROVE StreamCovers'
    BY <2>4, SendsKeepOwing, KeptCovers DEF SendLive, pageSide
  <2>5. ASSUME NEW e \in Events, LiveFails(s, e) PROVE StreamCovers'
    BY <2>5 DEF LiveFails, StreamCovers, Open, InFlight, Stored, SyncTypeOK, pageSide
  <2> QED BY <1>2, <2>1, <2>2, <2>3, <2>4, <2>5, ReplayCovers DEF Serve
<1>3. CASE \E s \in Streams : Receive(s)
  BY <1>3, ReceiveKeepsOwing, KeptCovers
<1>4. ASSUME NEW s \in Streams, Lost(s) PROVE StreamCovers'
  BY <1>4, LostAlone DEF SyncAlone, StreamCovers, Open
<1>5. CASE ReconnectFires \/ Resume
  BY <1>5, ConnectKeepsOwing, KeptCovers DEF ReconnectFires, Resume
<1>6. CASE Settled \/ UNCHANGED syncVars
  BY <1>6 DEF Settled, syncVars, connection, StreamCovers, Open, InFlight, Stored
<1>7. CASE Restart
  BY <1>4, <1>7 DEF Restart, StreamCovers, Open
<1> QED BY <1>1, <1>2, <1>3, <1>4, <1>5, <1>6, <1>7 DEF SyncNext, NetworkFails

\* No event falls between the replay of a connection and its subscription, but
\* one that is not published because the answer of its insert was lost.
THEOREM NothingBetween == SyncSpec => []StreamCovers
<1> DEFINE Inv == SyncTypeOK /\ SyncAlone /\ StreamCovers
<1>1. SyncInit => Inv
  BY TypeInit DEF SyncInit, SyncAlone, OneStream, TimerAlone, StreamCovers, Open, Stored
<1>2. Inv /\ [SyncNext]_syncVars => Inv'
  BY TypeStep, AloneStep, CoversStep
<1>3. Inv => StreamCovers
  OBVIOUS
<1> QED BY <1>1, <1>2, <1>3, PTL DEF SyncSpec

\* For any events and connections, the page has one connection whose replay and
\* live part leave nothing out, a row whose insert lost its answer excepted.
THEOREM SyncIsSound == SyncSpec => []SyncSound
  BY SyncTypeCorrect, OneConnection, NothingBetween, PTL
  DEF SyncSound

-----------------------------------------------------------------------------
(* Voice sessions.                                                         *)

SessionInv(s) ==
  /\ s.closed <=> s.source = "closed"
  /\ s.pc \in {"none", "requesting"} => s.source = "none"
  /\ s.source = "none" =>
       /\ s.mic = "none" /\ s.stops = 0
       /\ ~s.timer /\ ~s.ready
  /\ s.mic \in {"asked", "held"} /\ ~s.closed => s.pc = "starting"
  /\ s.mic = "live" => ~s.closed
  /\ s.ready => s.emitted
  /\ ~s.closed => s.stops = 0
  /\ s.stops <= 1
  /\ s.closed /\ s.remote = "open" => s.stops = 1
  /\ s.pc \in {"fallback", "recording"} => s.source \in {"none", "closed"}
  /\ s.recorder = "live" => s.pc \in {"activating", "over"}
  /\ s.recorder = "stranded" => s.pc = "over"

\* The reference is set to a session that has opened its event stream.
RefOpened == relayRef # Nobody => session[relayRef].source # "none"

Uses(s) == s.source \in {"connecting", "open"} \/ s.recorder = "live"

OneUnderWay == \A a, b \in Activations :
  session[a].pc \in Activating /\ session[b].pc \in Activating => a = b
Owned == \A a \in Activations : Uses(session[a]) => session[a].pc \in Activating \/ isActive
NotWhileActive == \A a \in Activations : session[a].pc \in Activating => ~isActive
Alone == mounted /\ ~again => OneUnderWay /\ Owned /\ NotWhileActive

IInv ==
  /\ VoiceTypeOK
  /\ \A a \in Activations : SessionInv(session[a])
  /\ RefOpened
  /\ Alone
  /\ Reachable

USE NobodyAssumption

\* A stranded microphone is the one of streamRef, or another has been.
StrandReached(a) == session[a].recorder = "stranded" =>
  stream = a \/ \E b \in Activations \ {a} : session[b].recorder # "none"

\* It stays reached when nothing un-records and streamRef changes to a recording.
LEMMA StaysReached ==
  ASSUME NEW a \in Activations, StrandReached(a),
         \A b \in Activations : session[b].recorder # "none" => session'[b].recorder # "none",
         session'[a].recorder = "stranded" => session[a].recorder = "stranded" \/ stream' = a,
         \/ stream' = stream
         \/ stream' \in Activations /\ session'[stream'].recorder # "none"
  PROVE  StrandReached(a)'
  BY DEF StrandReached

-----------------------------------------------------------------------------
(* The operations of a session, field by field.                            *)

LEMMA CleanupType ==
  ASSUME NEW s \in Session
  PROVE  /\ CleanupLocal(s) \in Session
         /\ CleanupLocal(s).closed /\ CleanupLocal(s).source = "closed" /\ ~CleanupLocal(s).timer
         /\ CleanupLocal(s).mic = IF s.mic = "live" THEN "stopped" ELSE s.mic
         /\ CleanupLocal(s).pc = s.pc /\ CleanupLocal(s).remote = s.remote
         /\ CleanupLocal(s).stops = s.stops /\ CleanupLocal(s).recorder = s.recorder
         /\ CleanupLocal(s).ready = s.ready
         /\ CleanupLocal(s).emitted = s.emitted
  BY DEF CleanupLocal, Session

LEMMA CloseType ==
  ASSUME NEW s \in Session
  PROVE  /\ CloseRemote(s) \in Session
         /\ CloseRemote(s).stops = s.stops + 1
         /\ CloseRemote(s).closed = s.closed /\ CloseRemote(s).source = s.source
         /\ CloseRemote(s).timer = s.timer /\ CloseRemote(s).mic = s.mic
         /\ CloseRemote(s).pc = s.pc /\ CloseRemote(s).remote = s.remote
         /\ CloseRemote(s).recorder = s.recorder /\ CloseRemote(s).ready = s.ready
         /\ CloseRemote(s).emitted = s.emitted
  BY DEF CloseRemote, Session

LEMMA RejectedType ==
  ASSUME NEW s \in Session
  PROVE  /\ Rejected(s) \in Session
         /\ Rejected(s).pc = IF s.pc = "starting" /\ ~s.ready THEN "fallback" ELSE s.pc
         /\ Rejected(s).stops = s.stops
         /\ Rejected(s).closed = s.closed /\ Rejected(s).source = s.source
         /\ Rejected(s).timer = s.timer /\ Rejected(s).mic = s.mic
         /\ Rejected(s).remote = s.remote
         /\ Rejected(s).recorder = s.recorder /\ Rejected(s).ready = s.ready
         /\ Rejected(s).emitted = s.emitted
  BY DEF Rejected, Session, Steps

\* A session that was opened is closed by End, and told so if it was not before.
LEMMA EndCloses ==
  ASSUME NEW s \in Session, SessionInv(s), s.source # "none"
  PROVE  /\ End(s) \in Session
         /\ SessionInv(End(s))
         /\ End(s).source = "closed"
         /\ End(s).recorder = s.recorder
         /\ End(s).pc = s.pc \/ (s.pc = "starting" /\ End(s).pc = "fallback")
<1> DEFINE c == CleanupLocal(s)
           r == CloseRemote(c)
<1>1. CASE s.closed
  BY <1>1 DEF End, SessionInv
<1>2. CASE ~s.closed
  <2>1. End(s) = Rejected(r)
    BY <1>2 DEF End
  <2>2. c \in Session /\ r \in Session
    BY CleanupType, CloseType
  <2> DEFINE e == Rejected(r)
  <2>3. /\ e.ready = s.ready /\ e.emitted = s.emitted
        /\ e.closed /\ e.source = "closed" /\ e.remote = s.remote
        /\ e.mic = IF s.mic = "live" THEN "stopped" ELSE s.mic
        /\ e.recorder = s.recorder
        /\ e.pc = IF s.pc = "starting" /\ ~s.ready THEN "fallback" ELSE s.pc
    BY <2>2, CleanupType, CloseType, RejectedType
  <2>4. e.stops = 1
    BY <2>2, <1>2, CleanupType, CloseType, RejectedType DEF SessionInv
  <2>5. e \in Session
    BY <2>2, RejectedType
  <2> HIDE DEF c, r, e
  <2>6. SessionInv(e)
    BY <2>3, <2>4, <2>5 DEF SessionInv, Session
  <2>. QED
    BY <2>1, <2>3, <2>5, <2>6 DEF e
<1>. QED
  BY <1>1, <1>2 DEF Session

LEMMA RecordedType ==
  ASSUME NEW s \in Session, SessionInv(s)
  PROVE  /\ Recorded(s) \in Session
         /\ SessionInv(Recorded(s))
         /\ Recorded(s).recorder \notin {"live", "stranded"}
         /\ Recorded(s).recorder = "none" => s.recorder = "none"
         /\ Recorded(s).source = s.source /\ Recorded(s).pc = s.pc
  BY DEF Recorded, Session, SessionInv

-----------------------------------------------------------------------------
(* One activation changes: what the others need to know of it.             *)

\* Its step keeps the session in order, opens nothing, begins nothing, and
\* leaves the flags of the component alone.
Quiet(a, s) ==
  /\ s \in Session /\ SessionInv(s)
  /\ session[a].source = "none" <=> s.source = "none"
  /\ Uses(s) => Uses(session[a])
  /\ s.source \in {"connecting", "open"} => session[a].source \in {"connecting", "open"}
  /\ s.recorder = session[a].recorder
  /\ s.pc \in Activating <=> session[a].pc \in Activating
  /\ session[a].pc = "starting" /\ s.pc = "fallback" => s.source = "closed"

LEMMA QuietStep ==
  ASSUME IInv, NEW a \in Activations, NEW s, Quiet(a, s), Becomes(a, s), UNCHANGED others
  PROVE  IInv'
<1>1. /\ session' = [session EXCEPT ![a] = s]
      /\ relayRef' \in {relayRef, Nobody}
      /\ relayRef' = Nobody => relayRef = Nobody \/ (session[a].pc = "starting" /\ s.pc = "fallback")
      /\ UNCHANGED <<stream, isActive, mounted, again>>
  BY DEF Becomes, others
<1>2. session \in [Activations -> Session] /\ s \in Session
  BY DEF IInv, VoiceTypeOK, Quiet
<1>3. session'[a] = s /\ \A b \in Activations : b # a => session'[b] = session[b]
  BY <1>1, <1>2
<1>4. VoiceTypeOK'
  BY <1>1, <1>2 DEF IInv, VoiceTypeOK
<1>5. \A b \in Activations : SessionInv(session'[b])
  BY <1>3 DEF IInv, Quiet
<1>6. RefOpened'
  BY <1>1, <1>3, <1>4 DEF IInv, RefOpened, Quiet, VoiceTypeOK
<1>7. Alone'
  BY <1>1, <1>3 DEF IInv, Alone, OneUnderWay, Owned, NotWhileActive, Quiet
<1>8. Reachable'
  <2> SUFFICES ASSUME mounted /\ ~again, NEW b \in Activations
               PROVE  /\ session'[b].source \in {"connecting", "open"} => relayRef' = b
                      /\ session'[b].recorder = "live" => stream' = b
                      /\ StrandReached(b)'
    BY <1>1 DEF Reachable, StrandReached
  <2>1. session'[b].recorder = session[b].recorder
    BY <1>3 DEF Quiet
  <2>2. ASSUME session'[b].source \in {"connecting", "open"} PROVE relayRef' = b
    <3>1. session[b].source \in {"connecting", "open"} /\ relayRef = b
      BY <2>2, <1>3 DEF IInv, Reachable, Quiet
    <3>2. ASSUME session[a].pc = "starting", s.pc = "fallback" PROVE FALSE
      <4>1. session[a].pc \in Activating /\ s.source = "closed" /\ b # a
        BY <3>2, <2>2, <1>3 DEF Activating, Steps, Quiet
      <4>2. Uses(session[b]) /\ session[b].pc \in Activating
        BY <4>1, <3>1 DEF IInv, Alone, Owned, NotWhileActive, Uses
      <4>. QED
        BY <4>1, <4>2 DEF IInv, Alone, OneUnderWay
    <3>. QED
      BY <3>1, <3>2, <1>1
  <2>3. StrandReached(b)'
    <3>1. StrandReached(b) /\ stream' = stream
      BY <1>1 DEF IInv, Reachable, StrandReached
    <3>2. \A c \in Activations : session'[c].recorder = session[c].recorder
      BY <1>3 DEF Quiet
    <3>. QED
      BY <3>1, <3>2, StaysReached
  <2>. QED
    BY <2>1, <2>2, <2>3, <1>1 DEF IInv, Reachable
<1>. QED
  BY <1>4, <1>5, <1>6, <1>7, <1>8 DEF IInv

-----------------------------------------------------------------------------
(* The steps.                                                              *)

LEMMA SubscribedStep ==
  ASSUME IInv, NEW a \in Activations, Subscribed(a)
  PROVE  IInv'
<1> DEFINE s == session[a]
           t == [s EXCEPT !.source = "open"]
<1>1. s \in Session /\ SessionInv(s) /\ s.source = "connecting"
  BY DEF IInv, VoiceTypeOK, Subscribed
<1>2. /\ t \in Session /\ t.source = "open" /\ t.pc = s.pc /\ t.recorder = s.recorder
      /\ SessionInv(t)
  BY <1>1 DEF Session, SessionInv
<1>3. Quiet(a, t)
  BY <1>1, <1>2 DEF Quiet, Uses, SessionInv
<1>. QED
  BY <1>3, QuietStep DEF Subscribed

LEMMA StartedType ==
  ASSUME NEW s \in Session, SessionInv(s), s.source = "open", s.pc = "starting", s.ready
  PROVE  /\ Started(s) \in Session /\ SessionInv(Started(s))
         /\ Started(s).source = "open" /\ Started(s).pc = "activating"
         /\ Started(s).recorder = s.recorder
  BY DEF Started, Session, Steps, SessionInv

LEMMA StartedQuiet ==
  ASSUME NEW a \in Activations, session[a].pc = "starting", session[a].source = "open",
         NEW s \in Session, SessionInv(s), s.ready, s.pc = "starting", s.source = "open",
         s.recorder = session[a].recorder
  PROVE  Quiet(a, Started(s))
  BY StartedType DEF Quiet, Uses, Activating, Steps

LEMMA ProviderReadyStep ==
  ASSUME IInv, NEW a \in Activations, ProviderReady(a)
  PROVE  IInv'
<1> DEFINE s == session[a]
           e == [s EXCEPT !.emitted = TRUE]
           t == IF e.source = "open" THEN [e EXCEPT !.ready = TRUE] ELSE e
<1>1. s \in Session /\ SessionInv(s) /\ s.remote = "open" /\ ~s.emitted
  BY DEF IInv, VoiceTypeOK, ProviderReady
<1>2. /\ e \in Session /\ SessionInv(e) /\ e.source = s.source
      /\ e.pc = s.pc /\ e.recorder = s.recorder /\ e.ready = s.ready
      /\ ~e.ready /\ e.emitted
  BY <1>1 DEF Session, SessionInv
<1> HIDE DEF e
<1>3. /\ t \in Session /\ SessionInv(t) /\ t.source = s.source /\ t.pc = s.pc
      /\ t.recorder = s.recorder
      /\ t.ready => t.source = "open"
  BY <1>2 DEF Session, SessionInv
<1>4. t.ready /\ t.mic = "held" => t.pc = "starting"
  BY <1>3 DEF SessionInv
<1>5. Becomes(a, IF t.ready /\ t.mic = "held" THEN Started(t) ELSE t) /\ UNCHANGED others
  BY DEF ProviderReady, e
<1> HIDE DEF t
<1>6. Quiet(a, t)
  BY <1>1, <1>2, <1>3 DEF Quiet, Uses, SessionInv
<1>7. CASE t.ready /\ t.mic = "held"
  BY <1>3, <1>4, <1>5, <1>7, StartedQuiet, QuietStep
<1>8. CASE ~(t.ready /\ t.mic = "held")
  BY <1>5, <1>6, <1>8, QuietStep
<1>. QED
  BY <1>7, <1>8

LEMMA EndQuiet ==
  ASSUME NEW a \in Activations, NEW s \in Session, SessionInv(s),
         session[a].source # "none", s.source = session[a].source,
         s.recorder = session[a].recorder, s.pc = session[a].pc
  PROVE  Quiet(a, End(s))
  BY EndCloses DEF Quiet, Uses, Activating, Steps

LEMMA RelayFailsStep ==
  ASSUME IInv, NEW a \in Activations, RelayFails(a)
  PROVE  IInv'
<1>1. Quiet(a, End(session[a]))
  BY EndQuiet DEF IInv, VoiceTypeOK, RelayFails
<1>. QED
  BY <1>1, QuietStep DEF RelayFails

LEMMA TimerFiresStep ==
  ASSUME IInv, NEW a \in Activations, TimerFires(a)
  PROVE  IInv'
<1> DEFINE s == session[a]
           t == [s EXCEPT !.timer = FALSE]
<1>1. s \in Session /\ SessionInv(s) /\ s.timer
  BY DEF IInv, VoiceTypeOK, TimerFires
<1>2. /\ t \in Session /\ SessionInv(t) /\ t.source = s.source /\ t.source # "none"
      /\ t.recorder = s.recorder /\ t.pc = s.pc
  BY <1>1 DEF Session, SessionInv
<1>3. Becomes(a, End(t)) /\ UNCHANGED others
  BY DEF TimerFires
<1> HIDE DEF t
<1>. QED
  BY <1>2, <1>3, EndQuiet, QuietStep

LEMMA RemoteEnded ==
  ASSUME IInv, NEW a \in Activations, session[a].remote = "open"
  PROVE  LET t == [session[a] EXCEPT !.remote = "ended"]
         IN  /\ t \in Session /\ SessionInv(t) /\ t.source = session[a].source
             /\ t.recorder = session[a].recorder /\ t.pc = session[a].pc
             /\ t.remote = "ended"
<1>1. session[a] \in Session /\ SessionInv(session[a])
  BY DEF IInv, VoiceTypeOK
<1>. QED
  BY <1>1 DEF Session, SessionInv

LEMMA RemoteClosesStep ==
  ASSUME IInv, NEW a \in Activations, RemoteCloses(a)
  PROVE  IInv'
<1> DEFINE t == [session[a] EXCEPT !.remote = "ended"]
<1>1. /\ t \in Session /\ SessionInv(t) /\ t.source = session[a].source
      /\ t.recorder = session[a].recorder /\ t.pc = session[a].pc
      /\ t.remote = "ended"
  BY RemoteEnded DEF RemoteCloses
<1>2. /\ \/ t.source # "open" /\ Becomes(a, t)
         \/ t.source = "open" /\ Becomes(a, End(t))
         \/ t.source = "open" /\ t.ready /\ Becomes(a, CleanupLocal(t))
      /\ UNCHANGED others
  BY DEF RemoteCloses
<1> HIDE DEF t
<1>3. Quiet(a, t)
  BY <1>1 DEF Quiet, Uses, SessionInv
<1>4. ASSUME t.source = "open" PROVE Quiet(a, CleanupLocal(t))
  <2>1. CleanupLocal(t) \in Session /\ SessionInv(CleanupLocal(t))
    BY <1>1, <1>4, CleanupType DEF SessionInv
  <2>. QED
    BY <2>1, <1>1, <1>4, CleanupType DEF Quiet, Uses
<1>. QED
  BY <1>1, <1>2, <1>3, <1>4, EndQuiet, QuietStep

LEMMA StopArrivesStep ==
  ASSUME IInv, NEW a \in Activations, StopArrives(a)
  PROVE  IInv'
<1> DEFINE t == [session[a] EXCEPT !.remote = "ended"]
<1>1. Quiet(a, t)
  BY RemoteEnded DEF StopArrives, Quiet, Uses, SessionInv
<1>. QED
  BY <1>1, QuietStep DEF StopArrives

LEMMA MicGrantedStep ==
  ASSUME IInv, NEW a \in Activations, MicGranted(a)
  PROVE  IInv'
<1> DEFINE s == session[a]
           t == [s EXCEPT !.pc = IF @ = "starting" THEN "fallback" ELSE @, !.mic = "stopped"]
           h == [s EXCEPT !.mic = "held"]
<1>1. s \in Session /\ SessionInv(s) /\ s.mic = "asked" /\ s.source # "none"
  BY DEF IInv, VoiceTypeOK, MicGranted, SessionInv
<1>2. UNCHANGED others
  BY DEF MicGranted
<1>3. CASE s.closed
  <2>1. /\ t \in Session /\ SessionInv(t) /\ t.source = "closed" /\ t.recorder = s.recorder
        /\ t.pc = IF s.pc = "starting" THEN "fallback" ELSE s.pc
    BY <1>1, <1>3 DEF Session, Steps, SessionInv
  <2>2. Becomes(a, t)
    BY <1>3 DEF MicGranted
  <2> HIDE DEF t
  <2>3. Quiet(a, t)
    BY <2>1, <1>1, <1>3 DEF Quiet, Uses, Activating, Steps
  <2>. QED
    BY <2>2, <2>3, <1>2, QuietStep
<1>4. CASE ~s.closed /\ s.ready
  <2>1. s.pc = "starting" /\ Becomes(a, Started(s))
    BY <1>1, <1>4 DEF MicGranted, SessionInv
  <2>2. /\ Started(s) \in Session /\ SessionInv(Started(s)) /\ Started(s).source = s.source
        /\ Started(s).pc = "activating" /\ Started(s).recorder = s.recorder
    BY <1>1, <1>4, <2>1 DEF Started, Session, Steps, SessionInv
  <2>3. Quiet(a, Started(s))
    BY <2>1, <2>2, <1>1 DEF Quiet, Uses, Activating, Steps
  <2>. QED
    BY <2>1, <2>3, <1>2, QuietStep
<1>5. CASE ~s.closed /\ ~s.ready
  <2>1. /\ h \in Session /\ SessionInv(h) /\ h.source = s.source /\ h.recorder = s.recorder
        /\ h.pc = s.pc
    BY <1>1, <1>5 DEF Session, SessionInv
  <2>2. Becomes(a, h)
    BY <1>5 DEF MicGranted
  <2> HIDE DEF h
  <2>3. Quiet(a, h)
    BY <2>1, <1>1 DEF Quiet, Uses, SessionInv
  <2>. QED
    BY <2>2, <2>3, <1>2, QuietStep
<1>. QED
  BY <1>3, <1>4, <1>5

LEMMA MicDeniedStep ==
  ASSUME IInv, NEW a \in Activations, MicDenied(a)
  PROVE  IInv'
<1> DEFINE s == [session[a] EXCEPT !.mic = "stopped"]
           t == IF s.closed THEN s ELSE CloseRemote(CleanupLocal(s))
           f == [t EXCEPT !.pc = IF @ = "starting" THEN "fallback" ELSE @]
<1>1. /\ session[a] \in Session /\ SessionInv(session[a])
      /\ session[a].mic = "asked" /\ session[a].source # "none"
  BY DEF IInv, VoiceTypeOK, MicDenied, SessionInv
<1>2. /\ s \in Session /\ SessionInv(s) /\ s.source = session[a].source
      /\ s.recorder = session[a].recorder /\ s.pc = session[a].pc
  BY <1>1 DEF Session, SessionInv
<1>3. Becomes(a, f) /\ UNCHANGED others
  BY DEF MicDenied
<1> HIDE DEF s
<1>4. /\ t \in Session /\ SessionInv(t)
      /\ t.source = "closed" /\ t.recorder = s.recorder /\ t.pc = s.pc
  <2>1. CASE s.closed
    BY <1>2, <2>1 DEF SessionInv
  <2>2. CASE ~s.closed
    <3>1. CleanupLocal(s) \in Session /\ t = CloseRemote(CleanupLocal(s))
      BY <1>2, <2>2, CleanupType
    <3>2. /\ t \in Session /\ t.closed /\ t.source = "closed" /\ t.recorder = s.recorder
          /\ t.pc = s.pc /\ t.remote = s.remote /\ t.ready = s.ready /\ t.emitted = s.emitted
          /\ t.mic = IF s.mic = "live" THEN "stopped" ELSE s.mic
      BY <1>2, <3>1, CleanupType, CloseType
    <3>3. t.stops = 1
      BY <1>2, <2>2, <3>1, CleanupType, CloseType DEF SessionInv
    <3> HIDE DEF t
    <3>4. SessionInv(t)
      BY <1>2, <3>2, <3>3, <1>1 DEF SessionInv, Session
    <3>. QED
      BY <3>2, <3>4
  <2>. QED
    BY <2>1, <2>2
<1> HIDE DEF t
<1>5. /\ f \in Session /\ SessionInv(f) /\ f.source = "closed" /\ f.recorder = s.recorder
      /\ f.pc = IF s.pc = "starting" THEN "fallback" ELSE s.pc
  BY <1>4 DEF Session, Steps, SessionInv
<1> HIDE DEF f
<1>6. Quiet(a, f)
  BY <1>1, <1>2, <1>5 DEF Quiet, Uses, Activating, Steps
<1>. QED
  BY <1>3, <1>6, QuietStep

-----------------------------------------------------------------------------
(* The component's own steps.                                              *)

\* The parts of IInv that are about one session, for a step of one activation.
LEMMA OneChanges ==
  ASSUME IInv, NEW a \in Activations, NEW s \in Session, SessionInv(s),
         session' = [session EXCEPT ![a] = s],
         s.source # "none" \/ session[a].source = "none",
         relayRef' \in {relayRef, Nobody, a}, relayRef' = a => s.source # "none",
         stream' \in {stream, a}, {isActive', mounted', again'} \subseteq BOOLEAN
  PROVE  /\ VoiceTypeOK' /\ RefOpened' /\ \A b \in Activations : SessionInv(session'[b])
         /\ session'[a] = s /\ \A b \in Activations : b # a => session'[b] = session[b]
<1>1. session \in [Activations -> Session] /\ {relayRef, stream} \subseteq Activations \cup {Nobody}
  BY DEF IInv, VoiceTypeOK
<1>2. session'[a] = s /\ \A b \in Activations : b # a => session'[b] = session[b]
  BY <1>1
<1>3. VoiceTypeOK'
  BY <1>1 DEF VoiceTypeOK
<1>4. \A b \in Activations : SessionInv(session'[b])
  BY <1>2 DEF IInv
<1>5. RefOpened'
  BY <1>1, <1>2 DEF IInv, RefOpened
<1>. QED
  BY <1>2, <1>3, <1>4, <1>5

LEMMA ActivateStep ==
  ASSUME IInv, NEW a \in Activations, Activate(a)
  PROVE  IInv'
<1> DEFINE s == [session[a] EXCEPT !.pc = "requesting"]
<1>1. /\ session[a] \in Session /\ SessionInv(session[a]) /\ session[a].pc = "none"
      /\ {isActive, mounted, again} \subseteq BOOLEAN
  BY DEF IInv, VoiceTypeOK, Activate
<1>2. /\ s \in Session /\ SessionInv(s) /\ s.pc = "requesting" /\ s.source = "none"
      /\ session[a].source = "none" /\ ~Uses(s) /\ s.recorder = session[a].recorder
  BY <1>1 DEF Session, Steps, SessionInv, Uses
<1>3. /\ session' = [session EXCEPT ![a] = s]
      /\ again' \in BOOLEAN
      /\ ~again' => ~again /\ \A b \in Activations : session[b].pc \notin Activating
      /\ ~isActive /\ UNCHANGED <<relayRef, stream, isActive, mounted>>
  BY <1>1 DEF Activate
<1> HIDE DEF s
<1>4. /\ VoiceTypeOK' /\ RefOpened' /\ \A b \in Activations : SessionInv(session'[b])
      /\ session'[a] = s /\ \A b \in Activations : b # a => session'[b] = session[b]
  <2>1. relayRef' = relayRef /\ relayRef # a
    BY <1>2, <1>3 DEF IInv, RefOpened, VoiceTypeOK
  <2>. QED
    BY <1>1, <1>2, <1>3, <2>1, OneChanges
<1>5. Alone'
  BY <1>1, <1>2, <1>3, <1>4 DEF IInv, Alone, OneUnderWay, Owned, NotWhileActive
<1>6. Reachable'
  <2> SUFFICES ASSUME mounted /\ ~again, NEW b \in Activations
               PROVE  /\ session'[b].source \in {"connecting", "open"} => relayRef' = b
                      /\ session'[b].recorder = "live" => stream' = b
                      /\ StrandReached(b)'
    BY <1>3 DEF Reachable, StrandReached
  <2>1. StrandReached(b)'
    <3>1. StrandReached(b)
      BY DEF IInv, Reachable, StrandReached
    <3>2. \A c \in Activations : session'[c].recorder = session[c].recorder
      BY <1>4, <1>2
    <3>. QED
      BY <3>1, <3>2, <1>3, StaysReached
  <2>. QED
    BY <1>2, <1>3, <1>4, <2>1 DEF IInv, Reachable, Uses
<1>. QED
  BY <1>4, <1>5, <1>6 DEF IInv

\* While one activation is under way and nothing began during another, what is
\* in use belongs to it.
LEMMA OwnedByOne ==
  ASSUME IInv, mounted, ~again, NEW a \in Activations, session[a].pc \in Activating,
         NEW b \in Activations, Uses(session[b])
  PROVE  b = a
  BY DEF IInv, Alone, OneUnderWay, Owned, NotWhileActive

LEMMA SessionOpensStep ==
  ASSUME IInv, NEW a \in Activations, SessionOpens(a)
  PROVE  IInv'
<1> DEFINE s == [session[a] EXCEPT !.pc = "starting", !.remote = "open", !.source = "connecting",
                                   !.timer = TRUE, !.mic = "asked"]
<1>1. /\ session[a] \in Session /\ SessionInv(session[a]) /\ session[a].pc = "requesting"
      /\ {isActive, mounted, again} \subseteq BOOLEAN
  BY DEF IInv, VoiceTypeOK, SessionOpens
<1>2. /\ s \in Session /\ SessionInv(s) /\ s.pc = "starting" /\ s.source = "connecting"
      /\ session[a].pc \in Activating /\ s.pc \in Activating
      /\ s.recorder = session[a].recorder /\ s.recorder # "live"
  BY <1>1 DEF Session, Steps, Activating, SessionInv
<1>3. session' = [session EXCEPT ![a] = s] /\ relayRef' = a /\ UNCHANGED others
  BY DEF SessionOpens, others
<1> HIDE DEF s
<1>4. /\ VoiceTypeOK' /\ RefOpened' /\ \A b \in Activations : SessionInv(session'[b])
      /\ session'[a] = s /\ \A b \in Activations : b # a => session'[b] = session[b]
  BY <1>1, <1>2, <1>3, OneChanges DEF others
<1>5. Alone'
  BY <1>2, <1>3, <1>4 DEF IInv, Alone, OneUnderWay, Owned, NotWhileActive, others
<1>6. Reachable'
  BY <1>2, <1>3, <1>4, OwnedByOne, StaysReached DEF IInv, Reachable, Uses, others, StrandReached
<1>. QED
  BY <1>4, <1>5, <1>6 DEF IInv

\* A step of an activation under way that has no session yet or any more.
LEMMA IdleStep ==
  ASSUME IInv, NEW a \in Activations, session[a].pc \in {"requesting", "fallback", "recording"},
         NEW s \in Session, SessionInv(s), s.source = session[a].source,
         session' = [session EXCEPT ![a] = s],
         relayRef' \in {relayRef, Nobody},
         UNCHANGED <<mounted, again>>,
         \/ s.pc \in Activating /\ isActive' = isActive
         \/ s.pc = "over" /\ isActive' \in {isActive, FALSE},
         \/ s.recorder = session[a].recorder /\ stream' = stream
         \/ s.recorder = "live" /\ s.pc \in Activating /\ stream' = a
         \/ s.recorder = "stranded" /\ stream' = a
  PROVE  IInv'
<1>1. /\ session[a] \in Session /\ SessionInv(session[a])
      /\ {isActive, mounted, again} \subseteq BOOLEAN
      /\ relayRef \in Activations \cup {Nobody}
  BY DEF IInv, VoiceTypeOK
<1>2. /\ session[a].pc \in Activating
      /\ s.source \notin {"connecting", "open"}
      /\ ~Uses(session[a])
  BY <1>1 DEF Activating, Steps, SessionInv, Uses, Session
<1>3. relayRef' = a => s.source # "none"
  BY <1>1 DEF IInv, RefOpened
<1>4. {isActive', mounted', again'} \subseteq BOOLEAN
  BY <1>1
<1>5. /\ VoiceTypeOK' /\ RefOpened' /\ \A b \in Activations : SessionInv(session'[b])
      /\ session'[a] = s /\ \A b \in Activations : b # a => session'[b] = session[b]
  BY <1>3, <1>4, OneChanges
<1>6. ASSUME mounted, ~again, NEW b \in Activations, b # a
      PROVE  ~Uses(session'[b]) /\ session'[b].pc \notin Activating
  BY <1>2, <1>5, <1>6, OwnedByOne DEF IInv, Alone, OneUnderWay
<1>7. mounted /\ ~again => ~isActive
  BY <1>2 DEF IInv, Alone, NotWhileActive
<1>8. Uses(s) => s.pc \in Activating /\ stream' = a /\ s.recorder = "live"
  BY <1>2 DEF Uses
<1>9. Alone'
  BY <1>5, <1>6, <1>7, <1>8 DEF Alone, OneUnderWay, Owned, NotWhileActive
<1>10. Reachable'
  <2> SUFFICES ASSUME mounted /\ ~again, NEW b \in Activations
               PROVE  /\ session'[b].source \in {"connecting", "open"} => relayRef' = b
                      /\ session'[b].recorder = "live" => stream' = b
                      /\ StrandReached(b)'
    BY DEF Reachable, StrandReached
  <2>1. StrandReached(b)
    BY DEF IInv, Reachable, StrandReached
  <2>2. StrandReached(b)'
    BY <1>5, <2>1, StaysReached
  <2>. QED
    BY <1>2, <1>5, <1>6, <1>8, <2>2 DEF Uses
<1>. QED
  BY <1>5, <1>9, <1>10 DEF IInv

LEMMA SessionRefusedStep ==
  ASSUME IInv, NEW a \in Activations, SessionRefused(a)
  PROVE  IInv'
<1> DEFINE s == [session[a] EXCEPT !.pc = "fallback"]
<1>1. session[a] \in Session /\ SessionInv(session[a]) /\ session[a].pc = "requesting"
  BY DEF IInv, VoiceTypeOK, SessionRefused
<1>2. /\ s \in Session /\ SessionInv(s) /\ s.source = session[a].source
      /\ s.pc \in Activating /\ s.recorder = session[a].recorder
  BY <1>1 DEF Session, Steps, Activating, SessionInv
<1>. QED
  BY <1>1, <1>2, IdleStep DEF SessionRefused

LEMMA SessionUnwiredStep ==
  ASSUME IInv, NEW a \in Activations, SessionUnwired(a)
  PROVE  IInv'
<1> DEFINE s == [session[a] EXCEPT !.pc = "fallback", !.remote = "open"]
<1>1. session[a] \in Session /\ SessionInv(session[a]) /\ session[a].pc = "requesting"
  BY DEF IInv, VoiceTypeOK, SessionUnwired
<1>2. /\ s \in Session /\ SessionInv(s) /\ s.source = session[a].source
      /\ s.pc \in Activating /\ s.recorder = session[a].recorder
  BY <1>1 DEF Session, Steps, Activating, SessionInv
<1>. QED
  BY <1>1, <1>2, IdleStep DEF SessionUnwired

LEMMA FallsBackStep ==
  ASSUME IInv, NEW a \in Activations, FallsBack(a)
  PROVE  IInv'
<1> DEFINE s(pc) == [session[a] EXCEPT !.pc = pc]
<1>1. session[a] \in Session /\ SessionInv(session[a]) /\ session[a].pc = "fallback"
  BY DEF IInv, VoiceTypeOK, FallsBack
<1>2. ASSUME NEW pc \in {"recording", "over"}
      PROVE  /\ s(pc) \in Session /\ SessionInv(s(pc)) /\ s(pc).source = session[a].source
             /\ s(pc).pc = pc /\ s(pc).recorder = session[a].recorder
  BY <1>1 DEF Session, Steps, SessionInv
<1>3. CASE session' = [session EXCEPT ![a].pc = "recording"] /\ UNCHANGED isActive
  <2>1. "recording" \in Activating
    BY DEF Activating, Steps
  <2>. QED
    BY <1>1, <1>2, <1>3, <2>1, IdleStep DEF FallsBack
<1>4. CASE session' = [session EXCEPT ![a].pc = "over"] /\ isActive' = FALSE
  BY <1>1, <1>2, <1>4, IdleStep DEF FallsBack
<1>. QED
  BY <1>3, <1>4 DEF FallsBack

LEMMA RecorderGrantedStep ==
  ASSUME IInv, NEW a \in Activations, RecorderGranted(a)
  PROVE  IInv'
<1> DEFINE s(pc, recorder) == [session[a] EXCEPT !.pc = pc, !.recorder = recorder]
<1>1. session[a] \in Session /\ SessionInv(session[a]) /\ session[a].pc = "recording"
  BY DEF IInv, VoiceTypeOK, RecorderGranted
<1>2. UNCHANGED <<relayRef, isActive, mounted, again>> /\ stream' = a
  BY DEF RecorderGranted
<1>3. CASE session' = [session EXCEPT ![a] = s("activating", "live")]
  <2>1. /\ s("activating", "live") \in Session /\ SessionInv(s("activating", "live"))
        /\ s("activating", "live").source = session[a].source
        /\ s("activating", "live").pc \in Activating
        /\ s("activating", "live").recorder = "live"
    BY <1>1 DEF Session, Steps, Activating, SessionInv
  <2>. QED
    BY <1>1, <1>2, <1>3, <2>1, IdleStep
<1>4. CASE session' = [session EXCEPT ![a] = s("over", "stranded")]
  <2>1. /\ s("over", "stranded") \in Session /\ SessionInv(s("over", "stranded"))
        /\ s("over", "stranded").source = session[a].source
        /\ s("over", "stranded").pc = "over"
        /\ s("over", "stranded").recorder = "stranded"
    BY <1>1 DEF Session, Steps, SessionInv
  <2>. QED
    BY <1>1, <1>2, <1>4, <2>1, IdleStep
<1>. QED
  BY <1>3, <1>4 DEF RecorderGranted

LEMMA RecorderDeniedStep ==
  ASSUME IInv, NEW a \in Activations, RecorderDenied(a)
  PROVE  IInv'
<1> DEFINE s == [session[a] EXCEPT !.pc = "over"]
<1>1. session[a] \in Session /\ SessionInv(session[a]) /\ session[a].pc = "recording"
  BY DEF IInv, VoiceTypeOK, RecorderDenied
<1>2. /\ s \in Session /\ SessionInv(s) /\ s.source = session[a].source
      /\ s.pc = "over" /\ s.recorder = session[a].recorder
  BY <1>1 DEF Session, Steps, SessionInv
<1>. QED
  BY <1>1, <1>2, IdleStep DEF RecorderDenied

LEMMA ActivatedStep ==
  ASSUME IInv, NEW a \in Activations, Activated(a)
  PROVE  IInv'
<1> DEFINE s == [session[a] EXCEPT !.pc = "over"]
<1>1. /\ session[a] \in Session /\ SessionInv(session[a]) /\ session[a].pc = "activating"
      /\ {isActive, mounted, again} \subseteq BOOLEAN
  BY DEF IInv, VoiceTypeOK, Activated
<1>2. /\ s \in Session /\ SessionInv(s) /\ s.source = session[a].source
      /\ s.pc \notin Activating /\ session[a].pc \in Activating /\ s.recorder = session[a].recorder
  BY <1>1 DEF Session, Steps, Activating, SessionInv
<1>3. session' = [session EXCEPT ![a] = s] /\ isActive' = TRUE /\ UNCHANGED <<relayRef, stream, mounted, again>>
  BY DEF Activated
<1> HIDE DEF s
<1>4. /\ VoiceTypeOK' /\ RefOpened' /\ \A b \in Activations : SessionInv(session'[b])
      /\ session'[a] = s /\ \A b \in Activations : b # a => session'[b] = session[b]
  <2>1. relayRef' = relayRef /\ (relayRef = a => s.source # "none")
    BY <1>2, <1>3 DEF IInv, RefOpened
  <2>. QED
    BY <1>1, <1>2, <1>3, <2>1, OneChanges
<1>5. Alone'
  BY <1>2, <1>3, <1>4 DEF IInv, Alone, OneUnderWay, Owned, NotWhileActive
<1>6. Reachable'
  BY <1>2, <1>3, <1>4, StaysReached DEF IInv, Reachable, StrandReached
<1>. QED
  BY <1>4, <1>5, <1>6 DEF IInv

LEMMA ReleasedType ==
  ASSUME IInv, NEW a \in Activations
  PROVE  /\ Released(a) \in Session /\ SessionInv(Released(a))
         /\ a = relayRef => Released(a).source = "closed"
         /\ a # relayRef => Released(a).source = session[a].source
         /\ a = stream => Released(a).recorder \notin {"live", "stranded"}
         /\ Released(a).recorder = "none" => session[a].recorder = "none"
         /\ a # stream => Released(a).recorder = session[a].recorder
         /\ Released(a).pc \in Activating => session[a].pc \in Activating
<1> DEFINE s == IF a = relayRef THEN End(session[a]) ELSE session[a]
<1>1. session[a] \in Session /\ SessionInv(session[a])
  BY DEF IInv, VoiceTypeOK
<1>2. /\ s \in Session /\ SessionInv(s) /\ s.recorder = session[a].recorder
      /\ a = relayRef => s.source = "closed"
      /\ a # relayRef => s.source = session[a].source
      /\ s.pc \in Activating => session[a].pc \in Activating
  <2>1. CASE a = relayRef
    <3>1. session[a].source # "none"
      BY <2>1 DEF IInv, RefOpened
    <3>. QED
      BY <1>1, <2>1, <3>1, EndCloses DEF Activating, Steps
  <2>2. CASE a # relayRef
    BY <1>1, <2>2
  <2>. QED
    BY <2>1, <2>2
<1>3. Released(a) = IF a = stream THEN Recorded(s) ELSE s
  BY DEF Released
<1> HIDE DEF s
<1>. QED
  BY <1>2, <1>3, RecordedType

\* A release by the button or the unmount: nothing reachable stays open.
LEMMA ReleaseStep ==
  ASSUME IInv, mounted, Release, mounted' \in BOOLEAN
  PROVE  IInv'
<1>1. /\ session' = [a \in Activations |-> Released(a)]
      /\ relayRef' = Nobody /\ stream' = Nobody /\ isActive' = FALSE /\ again' = again
  BY DEF Release
<1>2. again \in BOOLEAN
  BY DEF IInv, VoiceTypeOK
<1>3. \A a \in Activations : session'[a] = Released(a)
  BY <1>1
<1>4. VoiceTypeOK'
  BY <1>1, <1>2, ReleasedType DEF VoiceTypeOK
<1>5. (\A a \in Activations : SessionInv(session[a]))' /\ RefOpened'
  BY <1>1, <1>3, ReleasedType DEF RefOpened
<1>6. ASSUME ~again, NEW a \in Activations PROVE ~Uses(session'[a])
  BY <1>3, <1>6, ReleasedType DEF IInv, Reachable, Uses
<1>7. Alone'
  BY <1>1, <1>3, <1>6, ReleasedType DEF IInv, Alone, OneUnderWay, Owned, NotWhileActive
<1>8. ASSUME ~again, NEW a \in Activations PROVE StrandReached(a)'
  <2>1. StrandReached(a)
    BY <1>8 DEF IInv, Reachable, StrandReached
  <2>. QED
    BY <1>3, <2>1, ReleasedType DEF StrandReached
<1>9. Reachable'
  BY <1>1, <1>6, <1>8 DEF Reachable, Uses, StrandReached
<1>. QED
  BY <1>4, <1>5, <1>7, <1>9 DEF IInv

-----------------------------------------------------------------------------
LEMMA Initially == VoiceInit => IInv
<1> SUFFICES ASSUME VoiceInit PROVE IInv
  OBVIOUS
<1>1. /\ Fresh \in Session /\ SessionInv(Fresh) /\ ~Uses(Fresh)
      /\ Fresh.pc \notin Activating /\ Fresh.recorder = "none"
  BY DEF Fresh, Session, Steps, SessionInv, Uses, Activating
<1>2. \A a \in Activations : session[a] = Fresh
  BY DEF VoiceInit
<1>3. Reachable
  BY <1>1, <1>2 DEF Reachable, Uses
<1>. QED
  BY <1>1, <1>2, <1>3 DEF VoiceInit, IInv, VoiceTypeOK, RefOpened, Alone, OneUnderWay, Owned, NotWhileActive

LEMMA Inductive == IInv /\ [VoiceNext]_voiceVars => IInv'
<1> SUFFICES ASSUME IInv, [VoiceNext]_voiceVars PROVE IInv'
  OBVIOUS
<1>1. CASE Deactivate
  <2>1. mounted /\ mounted' \in BOOLEAN
    BY <1>1 DEF Deactivate, IInv, VoiceTypeOK
  <2>. QED
    BY <1>1, <2>1, ReleaseStep DEF Deactivate
<1>2. CASE Unmount
  BY <1>2, ReleaseStep DEF Unmount
<1>3. ASSUME NEW a \in Activations,
             \/ Activate(a) \/ SessionOpens(a) \/ SessionRefused(a) \/ SessionUnwired(a)
             \/ Activated(a) \/ FallsBack(a) \/ RecorderGranted(a) \/ RecorderDenied(a)
      PROVE  IInv'
  BY <1>3, ActivateStep, SessionOpensStep, SessionRefusedStep, SessionUnwiredStep, ActivatedStep,
     FallsBackStep, RecorderGrantedStep, RecorderDeniedStep
<1>4. ASSUME NEW a \in Activations,
             \/ Subscribed(a) \/ ProviderReady(a) \/ RelayFails(a) \/ RemoteCloses(a)
             \/ StopArrives(a) \/ TimerFires(a) \/ MicGranted(a) \/ MicDenied(a)
      PROVE  IInv'
  BY <1>4, SubscribedStep, ProviderReadyStep, RelayFailsStep, RemoteClosesStep, StopArrivesStep,
     TimerFiresStep, MicGrantedStep, MicDeniedStep
<1>5. CASE UNCHANGED voiceVars
  BY <1>5 DEF voiceVars, IInv, VoiceTypeOK, RefOpened, Alone, OneUnderWay, Owned, NotWhileActive, Reachable
<1>. QED
  BY <1>1, <1>2, <1>3, <1>4, <1>5 DEF VoiceNext

LEMMA Invariance == VoiceSpec => []IInv
  BY Initially, Inductive, PTL DEF VoiceSpec

\* The fields of every session and the references of the component keep their
\* types.
THEOREM VoiceTypeCorrect == VoiceSpec => []VoiceTypeOK
<1>1. IInv => VoiceTypeOK
  BY DEF IInv
<1>. QED
  BY <1>1, Invariance, PTL

\* Whatever ends a session, in any order with the prompt and "ready", its pump
\* and its microphone have stopped.
THEOREM PumpStops == VoiceSpec => []LiveMicOpen
<1>1. IInv => LiveMicOpen
  BY DEF IInv, VoiceTypeOK, Session, SessionInv, LiveMicOpen
<1>. QED
  BY <1>1, Invariance, PTL

\* The gateway is told of the end of a session exactly when it has to be.
THEOREM StopSentOnce == VoiceSpec => []ToldOnce
<1>1. IInv => ToldOnce
  BY DEF IInv, SessionInv, ToldOnce
<1>. QED
  BY <1>1, Invariance, PTL

\* Without a second press during an activation, the references that the button
\* and the unmount clean up hold every open session and every recording, and the
\* microphone of one that could not be set up until another takes its place.
THEOREM NothingUnreachable == VoiceSpec => []Reachable
<1>1. IInv => Reachable
  BY DEF IInv
<1>. QED
  BY <1>1, Invariance, PTL

\* For any number of activations, what is open of a session ends with it, is told
\* once and can be reached, a microphone whose set-up threw excepted once another
\* recording has begun.
THEOREM VoiceIsSound == VoiceSpec => []VoiceSound
  BY VoiceTypeCorrect, PumpStops, StopSentOnce, NothingUnreachable, PTL
  DEF VoiceSound
=============================================================================
