----------------------------- MODULE EventBridge -----------------------------
(***************************************************************************)
(* The session bridge (src/src/lib/gateway-event-bridge.ts): one object in *)
(* the server that holds a client of the pool, listens to its events and   *)
(* copies the gateway's list of sessions into the database.  Its connect() *)
(* is called when the bridge starts, by the reconnect timer and by a       *)
(* refresh without a connection.                                           *)
(*                                                                         *)
(* The list of sessions is the number of times it has changed; an event    *)
(* says that it did.  What the status route reports (connected, counters)  *)
(* and the events that are no reason to refresh are left out.  The pool is *)
(* GatewayPool; here it returns an open client or dials another one.       *)
(***************************************************************************)
EXTENDS Integers

CONSTANTS
  Links,       \* clients of the pool
  NoEnd,      \* the bridge has no client
  Runs,       \* runs of the reconnect timer that can be under way at once
  MaxChanges, \* bound: changes of the gateway's sessions
  MaxFaults   \* bound: lost connections, failed dials, lists and writes

ASSUME LinksAssumption == NoEnd \notin Links
ASSUME RunsAssumption == {"start", "refresh"} \cap Runs = {}
ASSUME BridgeBounds == MaxChanges \in Nat /\ MaxFaults \in Nat

Callers == {"start", "refresh"} \cup Runs

VARIABLES
  dial,       \* the await of each call of connect()
  live,       \* clients whose connection is open
  end,        \* client, with the listeners attached
  bridgeHolds,\* holds of the bridge on each client
  again,      \* reconnectTimer is set
  begun,      \* startEventBridge was called
  interval,   \* fallbackRefreshTimer
  debounce,   \* refreshTimer
  refresh,    \* the await of the refresh in flight
  listed,     \* the sessions it has been given
  version,    \* the sessions of the gateway
  mirror,     \* gatewaySessions
  missed,     \* ghost: a change nothing in the bridge will look at
  faults      \* faults so far

dialVars == <<dial, again, begun, interval>>
refreshVars == <<debounce, refresh, listed, mirror, missed>>
bridgeVars == <<dialVars, live, end, bridgeHolds, refreshVars, version, faults>>

BridgeTypeOK ==
  /\ dial \in [Callers -> {"no", "looking", "dialing"}]
  /\ live \subseteq Links
  /\ end \in Links \cup {NoEnd}
  /\ bridgeHolds \in [Links -> Nat]
  /\ {again, begun, interval, debounce, missed} \subseteq BOOLEAN
  /\ refresh \in {"no", "connecting", "listing", "writing"}
  /\ {listed, version, mirror, faults} \subseteq Nat

BridgeInit ==
  /\ dial = [w \in Callers |-> "no"]
  /\ live = {} /\ end = NoEnd
  /\ bridgeHolds = [c \in Links |-> 0]
  /\ again = FALSE /\ begun = FALSE /\ interval = FALSE
  /\ debounce = FALSE /\ refresh = "no"
  /\ listed = 0 /\ version = 0 /\ mirror = 0 /\ faults = 0
  /\ missed = FALSE

MayFail == faults < MaxFaults /\ faults' = faults + 1

-----------------------------------------------------------------------------
(* connect().                                                              *)

\* Mutation: the client that was attached before is not released.
AttachedOver(c) == [bridgeHolds EXCEPT ![c] = @ + 1]

\* holdClient of the new client, detachListeners with releaseClient of the old one.
Attached(c) ==
  LET held == [bridgeHolds EXCEPT ![c] = @ + 1] IN
  IF end = NoEnd THEN held ELSE [held EXCEPT ![end] = IF @ <= 1 THEN 0 ELSE @ - 1]

\* What the caller does when its connect() returns, with or without a client.
Continues(w, e) ==
  /\ interval' = (interval \/ w = "start")
  /\ refresh' = IF w # "refresh" THEN refresh
                ELSE IF e \in live' THEN "listing" ELSE "no"
  /\ missed' = (missed \/ (w = "refresh" /\ e \notin live'))

Installs(w, c) ==
  /\ bridgeHolds' = Attached(c)
  /\ end' = c
  /\ dial' = [dial EXCEPT ![w] = "no"]
  /\ Continues(w, c)
  /\ UNCHANGED <<again, begun, debounce, listed, mirror, version, faults>>

Begin ==
  /\ ~begun
  /\ begun' = TRUE
  /\ dial' = [dial EXCEPT !["start"] = "looking"]
  /\ UNCHANGED <<again, interval, live, end, bridgeHolds, refreshVars, version, faults>>

Finds(w, c) ==
  /\ dial[w] = "looking" /\ c \in live
  /\ UNCHANGED live
  /\ Installs(w, c)

FindsNone(w) ==
  /\ dial[w] = "looking" /\ live = {}
  /\ dial' = [dial EXCEPT ![w] = "dialing"]
  /\ UNCHANGED <<again, begun, interval, live, end, bridgeHolds, refreshVars, version, faults>>

DialOpens(w, c) ==
  /\ dial[w] = "dialing"
  /\ c \notin live /\ bridgeHolds[c] = 0 /\ c # end
  /\ live' = live \cup {c}
  /\ Installs(w, c)

DialFails(w) ==
  /\ dial[w] # "no" /\ MayFail
  /\ dial' = [dial EXCEPT ![w] = "no"]
  /\ again' = TRUE
  /\ UNCHANGED live
  /\ Continues(w, end)
  /\ UNCHANGED <<begun, end, bridgeHolds, debounce, listed, mirror, version>>

Reconnects(w) ==
  /\ again /\ dial[w] = "no"
  /\ again' = FALSE
  /\ dial' = [dial EXCEPT ![w] = "looking"]
  /\ UNCHANGED <<begun, interval, live, end, bridgeHolds, refreshVars, version, faults>>

-----------------------------------------------------------------------------
(* Refreshing.                                                             *)

\* refreshSessions: a call during another one is content with what that one does.
RefreshNow ==
  \/ /\ refresh # "no"
     /\ missed' = (missed \/ refresh = "writing")
     /\ UNCHANGED <<refresh, dial>>
  \/ /\ refresh = "no" /\ end \in live
     /\ refresh' = "listing"
     /\ UNCHANGED <<missed, dial>>
  \/ /\ refresh = "no" /\ end \notin live
     /\ refresh' = "connecting"
     /\ dial' = [dial EXCEPT !["refresh"] = "looking"]
     /\ UNCHANGED missed

DebounceOver ==
  /\ debounce
  /\ debounce' = FALSE
  /\ RefreshNow
  /\ UNCHANGED <<again, begun, interval, live, end, bridgeHolds, listed, mirror, version, faults>>

Interval ==
  /\ interval
  /\ refresh = "no" \* otherwise the call only waits
  /\ RefreshNow
  /\ UNCHANGED <<again, begun, interval, live, end, bridgeHolds, debounce, listed, mirror,
                 version, faults>>

\* Mutation: the bridge's own session is not counted.
ListsWithoutOwn ==
  /\ refresh = "listing" /\ end \in live
  /\ refresh' = "writing" /\ listed' = version - 1
  /\ missed' = FALSE
  /\ UNCHANGED <<dialVars, live, end, bridgeHolds, debounce, mirror, version, faults>>

Lists ==
  /\ refresh = "listing" /\ end \in live
  /\ refresh' = "writing" /\ listed' = version
  /\ missed' = FALSE
  /\ UNCHANGED <<dialVars, live, end, bridgeHolds, debounce, mirror, version, faults>>

\* Mutation: a refresh that is done ends the timer for the next one.
WritesAndClears ==
  /\ refresh = "writing"
  /\ refresh' = "no" /\ mirror' = listed
  /\ debounce' = FALSE
  /\ UNCHANGED <<dialVars, live, end, bridgeHolds, listed, missed, version, faults>>

\* Rows are only inserted and updated: of the sessions that are listed the copy is now
\* current, and rows of sessions that are listed no more stay.
WritesRows ==
  /\ refresh = "writing"
  /\ refresh' = "no" /\ mirror' = listed
  /\ UNCHANGED <<dialVars, live, end, bridgeHolds, debounce, listed, missed, version, faults>>

\* Mutation: the refresh that failed stays in flight.
RefreshFailsForGood ==
  /\ refresh \in {"listing", "writing"}
  /\ MayFail
  /\ refresh' = "connecting" /\ missed' = TRUE
  /\ again' = TRUE
  /\ UNCHANGED <<dial, begun, interval, live, end, bridgeHolds, debounce, listed, mirror, version>>

\* The connection is gone, or the database fails.
RefreshFails ==
  /\ refresh \in {"listing", "writing"}
  /\ MayFail
  /\ refresh' = "no" /\ missed' = TRUE
  /\ again' = TRUE
  /\ UNCHANGED <<dial, begun, interval, live, end, bridgeHolds, debounce, listed, mirror, version>>

\* The connection a refresh waits for is gone: its call is rejected.
ListLost ==
  /\ refresh = "listing" /\ end \notin live
  /\ refresh' = "no" /\ missed' = TRUE
  /\ again' = TRUE
  /\ UNCHANGED <<dial, begun, interval, live, end, bridgeHolds, debounce, listed, mirror, version,
                 faults>>

-----------------------------------------------------------------------------
(* The gateway.                                                            *)

Change ==
  /\ version < MaxChanges
  /\ version' = version + 1
  /\ IF end \in live THEN debounce' = TRUE /\ UNCHANGED missed
     ELSE missed' = TRUE /\ UNCHANGED debounce
  /\ UNCHANGED <<dialVars, live, end, bridgeHolds, refresh, listed, mirror, faults>>

Lose(c) ==
  /\ c \in live /\ MayFail
  /\ live' = live \ {c}
  /\ UNCHANGED <<dialVars, end, bridgeHolds, refreshVars, version>>

-----------------------------------------------------------------------------
BridgeNext ==
  \/ Begin \/ DebounceOver \/ Interval
  \/ Lists \/ WritesRows \/ RefreshFails \/ ListLost \/ Change
  \/ \E w \in Callers : FindsNone(w) \/ DialFails(w)
  \/ \E w \in Callers, c \in Links : Finds(w, c) \/ DialOpens(w, c)
  \/ \E w \in Runs : Reconnects(w)
  \/ \E c \in Links : Lose(c)

BridgeSpec == BridgeInit /\ [][BridgeNext]_bridgeVars

\* The interval goes on, queries and calls settle.  Nobody has to start the bridge.
BridgeFairness ==
  /\ WF_bridgeVars(Interval)
  /\ WF_bridgeVars(Lists \/ ListLost \/ RefreshFails)
  /\ WF_bridgeVars(WritesRows \/ RefreshFails)
  /\ \A w \in Callers :
       WF_bridgeVars(FindsNone(w) \/ DialFails(w) \/ \E c \in Links : Finds(w, c) \/ DialOpens(w, c))

-----------------------------------------------------------------------------
(* Properties.                                                             *)

\* Whoever calls connect() and in whatever order the calls return, the bridge holds
\* the client it listens to, once, and no other one.
HoldsItsClient == \A c \in Links : bridgeHolds[c] = IF c = end THEN 1 ELSE 0

\* A bridge at rest has copied the sessions, unless a change was not heard, a refresh
\* failed, or the refresh for it was merged into one that had the list already.
RestIsCurrent == refresh = "no" /\ ~debounce /\ ~missed => mirror = version

\* Whatever was missed, the interval copies it once the gateway stays reachable.
Mirrored == \A v \in 1..MaxChanges : (begun /\ version >= v) ~> (mirror >= v)

\* The bridge holds the client it hears, and what it has heard of it has copied.
BridgeSound == BridgeTypeOK /\ HoldsItsClient /\ RestIsCurrent
=============================================================================
