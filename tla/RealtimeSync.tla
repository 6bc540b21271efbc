---------------------------- MODULE RealtimeSync -----------------------------
(***************************************************************************)
(* The durable event stream between the server and one open page:          *)
(* appendRealtimeEvent (src/src/lib/realtime-events.ts) inserts a row of   *)
(* realtime_events and then publishes its sequence number in the process;  *)
(* GET /api/chat/events replays the rows after the page's cursor and, at   *)
(* the same time, forwards what is published; ChatEventProvider keeps one  *)
(* EventSource, applies what it receives and remembers the last sequence   *)
(* number as its cursor.                                                   *)
(*                                                                         *)
(* An event is its sequence number. All events belong to sessions the user *)
(* may read; the page has a cursor, so that the timestamp catch-up for     *)
(* pages without one is left out.                                          *)
(***************************************************************************)
EXTENDS Naturals, FiniteSets, Sequences, Functions

CONSTANTS
  MaxEvents,   \* bound: rows of realtime_events
  Streams,     \* SSE connections that can exist at once
  NoStream,    \* the page's eventSource is null
  ReplayLimit, \* limit of loadRealtimeEventsAfterCursor, 500 in the code
  Faults       \* what may go wrong, a subset of AllFaults

AllFaults == {"network", "restart", "insert", "answer", "query"}

ASSUME EventsAssumption == MaxEvents \in Nat
ASSUME StreamsAssumption == NoStream \notin Streams
ASSUME LimitAssumption == ReplayLimit \in Nat
ASSUME FaultsAssumption == Faults \subseteq AllFaults

VARIABLES
  row,      \* row of realtime_events by sequence number
  state,    \* "none": no such connection; "requested"; "replaying"; "live"
  since,    \* lastEventId of the connection's request
  replay,   \* rows that sendCatchup has read and not sent
  reading,  \* published events being read again for the connection
  wire,     \* sent and not received
  truncated,\* ghost: the replay left rows out because of its limit
  broken,   \* ghost: a query of the connection's replay failed
  missed,   \* ghost: events that the connection was never told of, or could not read
  source,   \* eventSource of the page
  reconnectTimer, \* reconnectTimer is set
  settling, \* reconnecting: a reconnection less than 250 ms ago
  cursor,   \* lastEventId of the page
  applied   \* events the page has applied

syncVars == <<row, state, since, replay, reading, wire, truncated, broken,
          missed, source, reconnectTimer, settling, cursor, applied>>

connection == <<since, replay, reading, wire, truncated, broken, missed>>
pageSide == <<source, reconnectTimer, settling, cursor, applied>>

Events == 1 .. MaxEvents

\* A row is inserting between nextval and the commit, committed until the
\* process has published it; a restart, or the loss of the answer to the insert,
\* leaves it unpublished for ever.
Rows == {"none", "inserting", "rejected", "committed", "published", "unpublished"}
Stored == {e \in Events : row[e] \in {"committed", "published", "unpublished"}}

InFlight(s) == replay[s] \cup reading[s] \cup Range(wire[s])

Open(s) == state[s] \in {"replaying", "live"}   \* start() has run: subscribed

SyncTypeOK ==
  /\ row \in [Events -> Rows]
  /\ state \in [Streams -> {"none", "requested", "replaying", "live"}]
  /\ since \in [Streams -> Nat]
  /\ replay \in [Streams -> SUBSET Events]
  /\ reading \in [Streams -> SUBSET Events]
  /\ wire \in [Streams -> Seq(Events)]
  /\ truncated \in [Streams -> BOOLEAN]
  /\ broken \in [Streams -> BOOLEAN]
  /\ missed \in [Streams -> SUBSET Events]
  /\ source \in Streams \cup {NoStream}
  /\ {reconnectTimer, settling} \subseteq BOOLEAN
  /\ cursor \in Nat
  /\ applied \subseteq Events

\* The effect of the provider has connected, and there are no events yet.
SyncInit ==
  /\ row = [e \in Events |-> "none"]
  /\ source \in Streams
  /\ state = [s \in Streams |-> IF s = source THEN "live" ELSE "none"]
  /\ since = [s \in Streams |-> 0]
  /\ replay = [s \in Streams |-> {}]
  /\ reading = [s \in Streams |-> {}]
  /\ wire = [s \in Streams |-> <<>>]
  /\ truncated = [s \in Streams |-> FALSE]
  /\ broken = [s \in Streams |-> FALSE]
  /\ missed = [s \in Streams |-> {}]
  /\ reconnectTimer = FALSE
  /\ settling = FALSE
  /\ cursor = 0
  /\ applied = {}

-----------------------------------------------------------------------------
(* appendRealtimeEvent.                                                    *)

\* The sequence number is taken when the row is inserted, not when it commits.
Insert(e) ==
  /\ row[e] = "none"
  /\ \A d \in Events : d < e => row[d] # "none"
  /\ row' = [row EXCEPT ![e] = "inserting"]
  /\ UNCHANGED <<state, connection, pageSide>>

Commit(e) ==
  /\ row[e] = "inserting"
  /\ row' = [row EXCEPT ![e] = "committed"]
  /\ UNCHANGED <<state, connection, pageSide>>

\* The insert fails and has not committed. (withRetry then repeats it, which is
\* another Insert, or appendRealtimeEvent throws.)
InsertFails(e) ==
  /\ row[e] = "inserting" /\ "insert" \in Faults
  /\ row' = [row EXCEPT ![e] = "rejected"]
  /\ UNCHANGED <<state, connection, pageSide>>

\* The insert fails although it has committed: its number is not known to the
\* process, and a repeated insert takes another one. A connection that has
\* replayed already will not hear of the row.
AnswerLost(e) ==
  /\ row[e] = "committed" /\ "answer" \in Faults
  /\ row' = [row EXCEPT ![e] = "unpublished"]
  /\ missed' = [s \in Streams |-> IF state[s] = "live" /\ e \notin InFlight(s)
                                 THEN missed[s] \cup {e} ELSE missed[s]]
  /\ UNCHANGED <<state, since, replay, reading, wire, truncated, broken, pageSide>>

\* Mutation: the connection subscribes when its replay has been sent.
PublishToReplayed(e) ==
  /\ row[e] = "committed"
  /\ row' = [row EXCEPT ![e] = "published"]
  /\ reading' = [s \in Streams |-> IF state[s] = "live" /\ replay[s] = {}
                                  THEN reading[s] \cup {e} ELSE reading[s]]
  /\ UNCHANGED <<state, since, replay, wire, truncated, broken, missed, pageSide>>

\* publishRealtimeChatEvent: every subscriber starts to read the row again.
Publish(e) ==
  /\ row[e] = "committed"
  /\ row' = [row EXCEPT ![e] = "published"]
  /\ reading' = [s \in Streams |-> IF Open(s) THEN reading[s] \cup {e} ELSE reading[s]]
  /\ UNCHANGED <<state, since, replay, wire, truncated, broken, missed, pageSide>>

-----------------------------------------------------------------------------
(* GET /api/chat/events.                                                   *)

\* start(): the query of sendCatchup is sent and the connection subscribes
\* before anything else can run.
Accept(s) ==
  /\ state[s] = "requested"
  /\ state' = [state EXCEPT ![s] = "replaying"]
  /\ UNCHANGED <<row, connection, pageSide>>

\* loadRealtimeEventsAfterCursor: the first ReplayLimit rows after n.
After(n) == {e \in Stored : e > n}
FirstRows(n) == {e \in After(n) : Cardinality({d \in After(n) : d < e}) < ReplayLimit}

\* The query of sendCatchup returns.
Replay(s) ==
  /\ state[s] = "replaying"
  /\ state' = [state EXCEPT ![s] = "live"]
  /\ replay' = [replay EXCEPT ![s] = FirstRows(since[s])]
  /\ truncated' = [truncated EXCEPT ![s] = FirstRows(since[s]) # After(since[s])]
  /\ UNCHANGED <<row, since, reading, wire, broken, missed, pageSide>>

\* The next row of the replay passes canReadSessionId and is enqueued.
SendReplayed(s) ==
  /\ \E e \in replay[s] :
       /\ \A d \in replay[s] : e <= d
       /\ replay' = [replay EXCEPT ![s] = @ \ {e}]
       /\ wire' = [wire EXCEPT ![s] = Append(@, e)]
  /\ UNCHANGED <<row, state, since, reading, truncated, broken, missed, pageSide>>

\* loadRealtimeEventBySequence and canReadSessionId return, in any order.
SendLive(s, e) ==
  /\ e \in reading[s]
  /\ reading' = [reading EXCEPT ![s] = @ \ {e}]
  /\ wire' = [wire EXCEPT ![s] = Append(@, e)]
  /\ UNCHANGED <<row, state, since, replay, truncated, broken, missed, pageSide>>

\* A query fails for good, that of the page or an access check of one of its
\* rows: it is logged, the rest of the replay is dropped, the connection stays.
ReplayFails(s) ==
  /\ state[s] = "replaying" \/ (state[s] = "live" /\ replay[s] # {})
  /\ "query" \in Faults
  /\ state' = [state EXCEPT ![s] = "live"]
  /\ replay' = [replay EXCEPT ![s] = {}]
  /\ broken' = [broken EXCEPT ![s] = TRUE]
  /\ UNCHANGED <<row, since, reading, wire, truncated, missed, pageSide>>

LiveFails(s, e) ==
  /\ e \in reading[s] /\ "query" \in Faults
  /\ reading' = [reading EXCEPT ![s] = @ \ {e}]
  /\ missed' = [missed EXCEPT ![s] = @ \cup {e}]
  /\ UNCHANGED <<row, state, since, replay, wire, truncated, broken, pageSide>>

-----------------------------------------------------------------------------
(* ChatEventProvider. A connection that the page closes is forgotten: what *)
(* the server goes on to send reaches nobody.                              *)

\* The connections T are gone, and s, if it is one, is requested.
Reconnected(T, s, n) ==
  /\ state' = [r \in Streams |-> IF r = s THEN "requested"
                                 ELSE IF r \in T THEN "none" ELSE state[r]]
  /\ since' = [r \in Streams |-> IF r = s THEN n ELSE IF r \in T THEN 0 ELSE since[r]]
  /\ replay' = [r \in Streams |-> IF r \in T \cup {s} THEN {} ELSE replay[r]]
  /\ reading' = [r \in Streams |-> IF r \in T \cup {s} THEN {} ELSE reading[r]]
  /\ wire' = [r \in Streams |-> IF r \in T \cup {s} THEN <<>> ELSE wire[r]]
  /\ truncated' = [r \in Streams |-> IF r \in T \cup {s} THEN FALSE ELSE truncated[r]]
  /\ broken' = [r \in Streams |-> IF r \in T \cup {s} THEN FALSE ELSE broken[r]]
  /\ missed' = [r \in Streams |-> IF r \in T \cup {s} THEN {} ELSE missed[r]]

\* Mutation: the page holds an event back until the one before it has come.
ReceiveWithoutGaps(s) ==
  /\ s = source /\ wire[s] # <<>>
  /\ LET e == Head(wire[s])
     IN  /\ e = cursor + 1
         /\ cursor' = e
         /\ applied' = applied \cup {e}
  /\ wire' = [wire EXCEPT ![s] = Tail(@)]
  /\ UNCHANGED <<row, state, since, replay, reading, truncated, broken, missed, source,
                 reconnectTimer, settling>>

\* handleEvent, with setLastEventId and addMessage or applyProgressEvent.
Receive(s) ==
  /\ s = source /\ wire[s] # <<>>
  /\ LET e == Head(wire[s])
     IN  /\ cursor' = e
         /\ applied' = applied \cup {e}
  /\ wire' = [wire EXCEPT ![s] = Tail(@)]
  /\ UNCHANGED <<row, state, since, replay, reading, truncated, broken, missed, source,
                 reconnectTimer, settling>>

\* connect: the page's eventSource becomes a new connection.
Connect(T) ==
  \E s \in Streams :
    /\ state[s] = "none" \/ s \in T
    /\ source' = s
    /\ Reconnected(T, s, cursor)

\* The timer fires.
ReconnectFires ==
  /\ reconnectTimer
  /\ reconnectTimer' = FALSE
  /\ Connect({})
  /\ UNCHANGED <<row, settling, cursor, applied>>

\* Mutation: the pending timer survives a reconnection.
ResumeKeepsTimer ==
  /\ ~settling
  /\ settling' = TRUE
  /\ Connect({source} \ {NoStream})
  /\ UNCHANGED <<row, reconnectTimer, cursor, applied>>

\* reconnectNow: the page has become visible, has got the focus or is shown.
Resume ==
  /\ ~settling
  /\ settling' = TRUE
  /\ reconnectTimer' = FALSE
  /\ Connect({source} \ {NoStream})
  /\ UNCHANGED <<row, cursor, applied>>

Settled ==
  /\ settling
  /\ settling' = FALSE
  /\ UNCHANGED <<row, state, connection, source, reconnectTimer, cursor, applied>>

\* Mutation: the page closes its eventSource and leaves the rest to the browser.
LostWithoutTimer(s) ==
  /\ state[s] # "none"
  /\ Reconnected({s, source} \ {NoStream}, NoStream, 0)
  /\ source' = NoStream
  /\ UNCHANGED <<reconnectTimer, settling, cursor, applied>>

\* Mutation: the cursor is forgotten with the connection.
LostWithCursor(s) ==
  /\ state[s] # "none"
  /\ Reconnected({s, source} \ {NoStream}, NoStream, 0)
  /\ source' = NoStream /\ cursor' = NoStream
  /\ reconnectTimer' = TRUE
  /\ UNCHANGED <<settling, applied>>

\* onerror of connection s closes the page's eventSource and sets the timer.
Lost(s) ==
  /\ state[s] # "none"
  /\ Reconnected({s, source} \ {NoStream}, NoStream, 0)
  /\ source' = NoStream
  /\ reconnectTimer' = TRUE
  /\ UNCHANGED <<settling, cursor, applied>>

NetworkFails(s) == "network" \in Faults /\ Lost(s) /\ UNCHANGED row

\* The server restarts: its connections end, what it had not published never is.
Restart ==
  /\ "restart" \in Faults
  /\ row' = [e \in Events |-> IF row[e] = "committed" THEN "unpublished"
                              ELSE IF row[e] = "inserting" THEN "rejected" ELSE row[e]]
  /\ \/ \E s \in Streams : Lost(s)
     \/ /\ \A s \in Streams : state[s] = "none"
        /\ UNCHANGED <<state, connection, pageSide>>

Write(e) == Insert(e) \/ Commit(e) \/ InsertFails(e) \/ AnswerLost(e) \/ Publish(e)
Serve(s) == \/ Accept(s) \/ Replay(s) \/ ReplayFails(s) \/ SendReplayed(s)
            \/ \E e \in Events : SendLive(s, e) \/ LiveFails(s, e)

SyncNext ==
  \/ \E e \in Events : Write(e)
  \/ \E s \in Streams : Serve(s) \/ Receive(s) \/ NetworkFails(s)
  \/ Restart \/ ReconnectFires \/ Resume \/ Settled

SyncSpec == SyncInit /\ [][SyncNext]_syncVars

\* Queries return, the network delivers and timers fire; nobody has to write,
\* and nobody has to come back to the page.
SyncFairness ==
  /\ \A e \in Events : WF_syncVars(Commit(e)) /\ WF_syncVars(Publish(e))
  /\ \A s \in Streams :
       /\ WF_syncVars(Accept(s)) /\ WF_syncVars(Replay(s))
       /\ WF_syncVars(SendReplayed(s)) /\ WF_syncVars(Receive(s))
       /\ \A e \in Events : WF_syncVars(SendLive(s, e))
  /\ WF_syncVars(ReconnectFires) /\ WF_syncVars(Settled)

-----------------------------------------------------------------------------
(* Safety.                                                                 *)

\* Timer, errors and resumes, in any order, leave the page one connection.
OneStream == \A s \in Streams : state[s] # "none" => s = source

\* No event falls between replay and subscription: what is stored after the
\* cursor of an open connection was applied, is on its way, is about to be
\* published to it or to be found by its replay. Exempt are a replay that was cut
\* off or failed, and each event that could not be read again or whose insert
\* lost its answer after the replay.
StreamCovers ==
  \A s \in Streams : Open(s) /\ ~truncated[s] /\ ~broken[s] =>
    \A e \in Stored \ missed[s] : e > since[s] =>
      \/ e \in applied \cup InFlight(s)
      \/ row[e] = "committed"
      \/ state[s] = "replaying"

\* docs/specs/realtime-chat-sync.md:740, "A disconnected client can reconnect
\* with a cursor and receive missed events in order": what the page missed is
\* after the cursor it reconnects with, or yet to be published.
MissedAfterCursor ==
  source = NoStream =>
    \A e \in Stored : e \in applied \/ e > cursor \/ row[e] = "committed"

\* A page has one connection, and between its replay and its live part nothing falls.
SyncSound == SyncTypeOK /\ OneStream /\ StreamCovers

(* Liveness.                                                               *)

\* The connections that owe the page an event: it is stored, after their cursor, and
\* nothing of what StreamCovers excepts has happened.
Owing(e) ==
  {s \in Streams : /\ Open(s) /\ e \in Stored \ applied /\ e > since[s]
                   /\ ~truncated[s] /\ ~broken[s] /\ e \notin missed[s]}

\* A stored event after the cursor of a connection that stays is applied.
Delivered == \A e \in Events : Owing(e) # {} ~> Owing(e) = {}

\* A page that lost its connection asks for another one.
Reconnects == source = NoStream ~> source # NoStream

\* What is stored reaches the page, and a page without connection gets one.
SyncSettles == Delivered /\ Reconnects
=============================================================================
