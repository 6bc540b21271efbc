---------------------------- MODULE GatewayClient ----------------------------
(***************************************************************************)
(* One GatewayClient (src/src/lib/gateway-client.ts): connect() with its   *)
(* challenge, signed handshake, time limit, persisted credential and one   *)
(* retry with the device token; rpc() with its own time limit; close().    *)
(*                                                                         *)
(* A socket is one WebSocket; this.ws is the last one created. Frames and  *)
(* payloads are left out: a handshake is accepted, with or without a new   *)
(* device token, or refused for a reason. Callers call rpc() when their    *)
(* connect() has returned, connect() again only on a client that is not    *)
(* connected (reconnectAfterGatewayRestart) and persists nothing, and      *)
(* close() between calls of connect().                                     *)
(***************************************************************************)
EXTENDS Naturals

CONSTANTS
  Calls,       \* calls of rpc()
  MaxSockets   \* bound: WebSockets the client creates

ASSUME MaxSocketsAssumption == MaxSockets \in Nat

VARIABLES
  loopback,   \* the gateway URL is a loopback address
  shared,     \* the client has a shared auth token
  deviceAuth, \* the client has a device token
  socket,     \* state of each WebSocket
  ws,         \* this.ws, 0 for null
  created,    \* sockets created so far
  connect,    \* progress of the last call of connect()
  retried,    \* the attempt under way is the retry of connect()
  timer,      \* sockets whose connect timer is armed
  handshake,  \* sockets whose connect request is pending
  connected,  \* this.connected
  call,       \* outcome of each call of rpc(), "waiting" until it settles
  pending,    \* calls in the pending map, their timers armed
  abandoned   \* ghost: sockets that a failed connect() left behind

clientVars == <<loopback, shared, deviceAuth, socket, ws, created, connect, retried,
          timer, handshake, connected, call, pending, abandoned>>

credentials == <<loopback, shared, deviceAuth>>

Sockets == 1 .. MaxSockets
Reasons == {"token mismatch", "device token mismatch", "other"}

ClientTypeOK ==
  /\ {loopback, shared, deviceAuth, retried, connected} \subseteq BOOLEAN
  /\ socket \in [Sockets -> {"none", "connecting", "open", "challenged", "failing", "closed"}]
  /\ ws \in 0 .. MaxSockets
  /\ created \in 0 .. MaxSockets
  /\ connect \in {"idle", "dialing", "persisting", "lost", "invalidating", "resolved", "rejected"}
  /\ timer \subseteq Sockets
  /\ handshake \subseteq Sockets
  /\ call \in [Calls -> {"idle", "waiting", "answered", "failed", "timedout"}]
  /\ pending \subseteq Calls
  /\ abandoned \subseteq Sockets

ClientInit ==
  /\ loopback \in BOOLEAN /\ shared \in BOOLEAN /\ deviceAuth \in BOOLEAN
  /\ socket = [s \in Sockets |-> "none"]
  /\ ws = 0 /\ created = 0
  /\ connect = "idle" /\ retried = FALSE
  /\ timer = {} /\ handshake = {}
  /\ connected = FALSE
  /\ call = [c \in Calls |-> "idle"]
  /\ pending = {} /\ abandoned = {}

-----------------------------------------------------------------------------
(* connect(). Each call of it creates at most two sockets.                 *)

\* connectOnce: a new socket becomes this.ws and has its timer armed.
DialSocket(sockets, timers) ==
  /\ created' = created + 1
  /\ ws' = created'
  /\ socket' = [sockets EXCEPT ![created'] = "connecting"]
  /\ timer' = timers \cup {created'}

ClosedAt(s) == [r \in Sockets |-> IF r = s /\ socket[r] # "none" THEN "closed" ELSE socket[r]]
Failed(C) == [c \in Calls |-> IF c \in C THEN "failed" ELSE call[c]]

\* Mutation: connect() may dial without end.
ConnectUnbounded ==
  /\ connect \in {"idle", "resolved", "rejected"} /\ ~connected
  /\ connect' = "dialing" /\ retried' = FALSE
  /\ DialSocket(socket, timer)
  /\ abandoned' = abandoned \cup ({ws} \ {0})
  /\ UNCHANGED <<credentials, handshake, connected, call, pending>>

\* connect() and its first connectOnce.
Connect ==
  /\ connect \in {"idle", "resolved", "rejected"} /\ ~connected
  /\ created + 2 <= MaxSockets
  /\ connect' = "dialing" /\ retried' = FALSE
  /\ DialSocket(socket, timer)
  /\ abandoned' = abandoned \cup ({ws} \ {0})
  /\ UNCHANGED <<credentials, handshake, connected, call, pending>>

Opens(s) ==
  /\ socket[s] = "connecting"
  /\ socket' = [socket EXCEPT ![s] = "open"]
  /\ UNCHANGED <<credentials, ws, created, connect, retried, timer, handshake, connected, call, pending, abandoned>>

\* connect.challenge: the signed connect request is sent.
Challenge(s) ==
  /\ socket[s] = "open" /\ s = ws
  /\ socket' = [socket EXCEPT ![s] = "challenged"]
  /\ handshake' = handshake \cup {s}
  /\ UNCHANGED <<credentials, ws, created, connect, retried, timer, connected, call, pending, abandoned>>

Answered(s) == s \in handshake /\ socket[s] = "challenged" /\ s = ws

\* Mutation: an accepted handshake leaves the connect timer armed.
AcceptedKeepsTimer(s) ==
  /\ Answered(s)
  /\ handshake' = handshake \ {s}
  /\ connected' = TRUE
  /\ connect' \in {"resolved", "persisting"}
  /\ UNCHANGED <<credentials, socket, ws, created, retried, timer, call, pending, abandoned>>

\* The gateway accepts; a device token it sends along is persisted first.
Accepted(s) ==
  /\ Answered(s)
  /\ handshake' = handshake \ {s}
  /\ timer' = timer \ {s}
  /\ connected' = TRUE
  /\ connect' \in {"resolved", "persisting"}
  /\ UNCHANGED <<credentials, socket, ws, created, retried, call, pending, abandoned>>

\* onDeviceAuthUpdated is under way, for a connect() that an "error" may have rejected.
Persisting == connect \in {"persisting", "lost"}

\* It has returned, whatever became of the connection.
Persisted ==
  /\ Persisting
  /\ connect' = IF connect = "lost" THEN "rejected" ELSE "resolved"
  /\ deviceAuth' = TRUE
  /\ UNCHANGED <<loopback, shared, socket, ws, created, retried, timer, handshake, connected, call, pending, abandoned>>

\* onDeviceAuthUpdated throws: resetTransportForRetry drops what is pending.
PersistFails ==
  /\ Persisting
  /\ connect' = "rejected"
  /\ socket' = ClosedAt(ws) /\ ws' = 0
  /\ connected' = FALSE /\ handshake' = {} /\ pending' = {}
  /\ UNCHANGED <<credentials, created, retried, timer, call, abandoned>>

UsesDeviceToken == retried \/ (~shared /\ deviceAuth)
CanRetry(reason) == ~retried /\ shared /\ deviceAuth /\ loopback /\ reason = "token mismatch"

\* Mutation: the retry dials while the refused socket is still open.
RetryBesideSocket(s, reason) ==
  /\ Answered(s) /\ CanRetry(reason)
  /\ DialSocket(socket, timer \ {s})
  /\ retried' = TRUE
  /\ connected' = FALSE /\ handshake' = {} /\ pending' = {}
  /\ UNCHANGED <<credentials, connect, call, abandoned>>

\* The shared token is refused and the gateway advises the device token:
\* resetTransportForRetry, then the second connectOnce.
Retry(s, reason) ==
  /\ Answered(s) /\ CanRetry(reason)
  /\ DialSocket(ClosedAt(s), timer \ {s})
  /\ retried' = TRUE
  /\ connected' = FALSE /\ handshake' = {} /\ pending' = {}
  /\ UNCHANGED <<credentials, connect, call, abandoned>>

\* Any other refusal rejects connect(), a refused device token after
\* onDeviceAuthInvalid. The socket stays.
Refused(s, reason) ==
  /\ Answered(s) /\ ~CanRetry(reason)
  /\ handshake' = handshake \ {s}
  /\ timer' = timer \ {s}
  /\ IF UsesDeviceToken /\ reason = "device token mismatch"
     THEN connect' = "invalidating" /\ deviceAuth' = FALSE
     ELSE connect' = "rejected" /\ UNCHANGED deviceAuth
  /\ UNCHANGED <<loopback, shared, socket, ws, created, retried, connected, call, pending, abandoned>>

Invalidated ==
  /\ connect = "invalidating"
  /\ connect' = "rejected"
  /\ UNCHANGED <<credentials, socket, ws, created, retried, timer, handshake, connected, call, pending, abandoned>>

\* Mutation: the connect timer resets the transport and tells nobody.
TimerFiresSilently(s) ==
  /\ s \in timer
  /\ timer' = timer \ {s}
  /\ socket' = ClosedAt(ws) /\ ws' = 0
  /\ connected' = FALSE /\ handshake' = {} /\ pending' = {}
  /\ connect' = "idle"
  /\ UNCHANGED <<credentials, created, retried, call, abandoned>>

\* The connect timer: resetTransportForRetry and "Connection timeout".
TimerFires(s) ==
  /\ s \in timer
  /\ timer' = timer \ {s}
  /\ socket' = ClosedAt(ws) /\ ws' = 0
  /\ connected' = FALSE /\ handshake' = {} /\ pending' = {}
  /\ connect' = IF connect = "dialing" THEN "rejected" ELSE connect
  /\ UNCHANGED <<credentials, created, retried, call, abandoned>>

-----------------------------------------------------------------------------
(* The network. The handlers of a socket that is no longer this.ws return. *)

\* "error": connectOnce rejects; "close" follows.
Errors(s) ==
  /\ socket[s] \in {"connecting", "open", "challenged"}
  /\ socket' = [socket EXCEPT ![s] = "failing"]
  /\ IF s = ws
     THEN /\ timer' = timer \ {s}
          /\ connect' = CASE connect = "dialing" -> "rejected"
                          [] connect = "persisting" -> "lost"
                          [] OTHER -> connect
     ELSE UNCHANGED <<timer, connect>>
  /\ UNCHANGED <<credentials, ws, created, retried, handshake, connected, call, pending, abandoned>>

\* Mutation: a connection that closes forgets its calls without rejecting them.
ClosesForgetting(s) ==
  /\ socket[s] \in {"open", "challenged", "failing"}
  /\ socket' = [socket EXCEPT ![s] = "closed"]
  /\ IF s = ws
     THEN /\ connected' = FALSE
          /\ pending' = {} /\ handshake' = {}
          /\ timer' = timer \ {s}
          /\ connect' = IF connect = "dialing" THEN "rejected" ELSE connect
     ELSE UNCHANGED <<connected, pending, handshake, timer, connect>>
  /\ UNCHANGED <<credentials, ws, created, retried, call, abandoned>>

\* "close": the challenge, the connect request and every call are rejected.
Closes(s) ==
  /\ socket[s] \in {"open", "challenged", "failing"}
  /\ socket' = [socket EXCEPT ![s] = "closed"]
  /\ IF s = ws
     THEN /\ connected' = FALSE
          /\ call' = Failed(pending)
          /\ pending' = {} /\ handshake' = {}
          /\ timer' = timer \ {s}
          /\ connect' = IF connect = "dialing" THEN "rejected" ELSE connect
     ELSE UNCHANGED <<connected, call, pending, handshake, timer, connect>>
  /\ UNCHANGED <<credentials, ws, created, retried, abandoned>>

-----------------------------------------------------------------------------
(* rpc() and close().                                                      *)

\* Nobody has a client whose credential is still being persisted.
Rpc(c) ==
  /\ call[c] = "idle" /\ ~Persisting
  /\ IF connected
     THEN /\ call' = [call EXCEPT ![c] = "waiting"]
          /\ pending' = pending \cup {c}
     ELSE /\ call' = [call EXCEPT ![c] = "failed"]
          /\ UNCHANGED pending
  /\ UNCHANGED <<credentials, socket, ws, created, connect, retried, timer, handshake, connected, abandoned>>

Settle(c, outcome) ==
  /\ c \in pending
  /\ call' = [call EXCEPT ![c] = outcome]
  /\ pending' = pending \ {c}
  /\ UNCHANGED <<credentials, socket, ws, created, connect, retried, timer, handshake, connected, abandoned>>

\* handleMessage: a response for a request that is still pending.
Response(c) ==
  /\ ws # 0 /\ socket[ws] = "challenged"
  /\ Settle(c, "answered") \/ Settle(c, "failed")

\* Mutation: a call has no time limit while the connection is up.
RpcTimeoutNotUp(c) == ~connected /\ Settle(c, "timedout")

RpcTimeout(c) == Settle(c, "timedout")

\* Mutation: the calls that close() ends look like calls that took too long.
CloseAsTimeout ==
  /\ connect \in {"resolved", "rejected", "lost"} /\ ws # 0
  /\ socket' = ClosedAt(ws) /\ ws' = 0
  /\ call' = [c \in Calls |-> IF c \in pending THEN "timedout" ELSE call[c]]
  /\ pending' = {} /\ handshake' = {}
  /\ timer' = timer \ handshake
  /\ connected' = FALSE
  /\ UNCHANGED <<credentials, created, connect, retried, abandoned>>

Close ==
  /\ connect \in {"resolved", "rejected", "lost"} /\ ws # 0
  /\ socket' = ClosedAt(ws) /\ ws' = 0
  /\ call' = Failed(pending)
  /\ pending' = {} /\ handshake' = {}
  /\ timer' = timer \ handshake
  /\ connected' = FALSE
  /\ UNCHANGED <<credentials, created, connect, retried, abandoned>>

Connecting(s) ==
  \/ Opens(s) \/ Challenge(s) \/ Accepted(s) \/ TimerFires(s) \/ Errors(s) \/ Closes(s)
  \/ \E reason \in Reasons : Retry(s, reason) \/ Refused(s, reason)

ClientNext ==
  \/ Connect \/ Persisted \/ PersistFails \/ Invalidated \/ Close
  \/ \E s \in Sockets : Connecting(s)
  \/ \E c \in Calls : Rpc(c) \/ Response(c) \/ RpcTimeout(c)

ClientSpec == ClientInit /\ [][ClientNext]_clientVars

\* Timers fire and the queries of the credential callbacks return; the gateway
\* and the network need not do anything.
ClientFairness ==
  /\ \A s \in Sockets : WF_clientVars(TimerFires(s))
  /\ \A c \in Calls : WF_clientVars(RpcTimeout(c))
  /\ WF_clientVars(Persisted) /\ WF_clientVars(Invalidated)

-----------------------------------------------------------------------------
(* Properties.                                                             *)

\* The connect timer runs exactly while the socket it was armed for is being
\* dialled: no late timer ends the connection of a retry or of a later connect().
TimerWhileDialing == timer = IF connect = "dialing" THEN {ws} ELSE {}

\* A call waits only on a connection that is up, and only while it is in the
\* pending map, where its answer, its time limit and the close find it.
NobodyForgotten ==
  /\ pending = {c \in Calls : call[c] = "waiting"}
  /\ pending # {} => connected

\* A socket that is replaced has been closed, except by a connect() that was
\* called again after a failed one without close().
ReplacedSocketClosed ==
  \A s \in Sockets : socket[s] \in {"connecting", "open", "challenged"} => s = ws \/ s \in abandoned

Channel == INSTANCE RpcChannel WITH up <- connected

\* The client is a channel whose calls end with the connection.
IsChannel == Channel!Init /\ [][Channel!Next]_(Channel!vars)

\* Every call of rpc() settles.
ChannelSettles == Channel!Spec

\* Every call of connect() settles.
ConnectSettles == connect = "dialing" ~> connect \in {"resolved", "rejected"}

\* Socket, timers and pending calls belong together, whatever a retry, a close or an
\* event of an earlier socket comes between.
SocketsSound ==
  /\ ClientTypeOK /\ TimerWhileDialing /\ NobodyForgotten /\ ReplacedSocketClosed

\* Nobody waits for ever on a client: neither on rpc() nor on connect().
ClientSettles == ChannelSettles /\ ConnectSettles
=============================================================================
