----------------------------- MODULE GatewayPool -----------------------------
(***************************************************************************)
(* The gateway connection pool, src/src/lib/gateway-chat-pool.ts, together *)
(* with the way the routes use it: a request asks for the client of a      *)
(* runtime, a chat turn (or a realtime stream) holds the client for as     *)
(* long as it works with it, and the pool recycles a client that is no     *)
(* longer connected or that is older than five minutes and not held.       *)
(*                                                                         *)
(* JavaScript runs one task at a time, so an action is the code between    *)
(* two awaits; other requests may run at every await.                      *)
(***************************************************************************)
EXTENDS Naturals, FiniteSets

CONSTANTS
  Runtimes,       \* the runtimes (rows of companyRuntimes) with a gateway
  Requests,       \* the HTTP requests that ask the pool for a client
  Turns,          \* those that hold the client: chat turns, realtime streams
  Clients,        \* GatewayClient objects; every dial creates a new one
  NoClient,       \* null
  MaxCandidates   \* number of URLs buildGatewayCandidates returns

ASSUME RequestsAssumption == IsFiniteSet(Requests) /\ Turns \subseteq Requests
ASSUME ClientsAssumption == NoClient \notin Clients
ASSUME CandidatesAssumption == MaxCandidates \in Nat \ {0}

VARIABLES
  pool,       \* runtime -> pooled client, or NoClient
  aged,       \* runtime -> the pool entry is at least MAX_CONNECTION_AGE_MS old
  holds,      \* activeClientHolds; 0 stands for "not in the map"
  lastStatus, \* lastConnectionByRuntime, its status only
  conn,       \* client -> the state of its WebSocket
  home,       \* client -> the runtime it was dialled for
  pc,         \* request -> the await it is suspended at
  runtime,    \* request -> the runtime it asked for
  client,     \* request -> the client it is dialling or was handed
  tries,      \* request -> candidates dialled so far
  cancelled,  \* requests aborted by the user before they got a client
  strayed,    \* ghost: clients released by a turn that never held them
  overlapped  \* ghost: runtimes that two requests dialled at the same time

poolVars == <<pool, aged, holds, lastStatus, conn, home, pc, runtime, client,
          tries, cancelled, strayed, overlapped>>

entryVars == <<pool, aged, lastStatus>>
requestVars == <<runtime, client, tries, cancelled>>
ghosts == <<strayed, overlapped>>

(***************************************************************************)
(* "lookup"     awaiting the row of the runtime                            *)
(* "dialing"    awaiting the candidate URLs, or about to dial the next one *)
(* "connecting" awaiting the handshake                                     *)
(* "persisting" connected, the issued device credential is being stored    *)
(* "repairing"  connected by a fallback URL, awaiting repairRuntimeUrl     *)
(* "returned"   the pool has answered, the caller has not yet resumed      *)
(* "using"      the caller works with the client                           *)
(***************************************************************************)
Acquiring == {"lookup", "dialing", "connecting", "persisting", "repairing"}
PCs == Acquiring \cup {"idle", "returned", "using", "done", "failed"}

\* The requests that are creating the new connection of runtime r.
Dialers(r) == {u \in Requests : /\ runtime[u] = r
                                /\ pc[u] \in Acquiring \ {"lookup"}}

\* The turns between their holdClient and their releaseClient of c.
HoldersOf(c) == {u \in Turns : pc[u] = "using" /\ client[u] = c}

PoolTypeOK ==
  /\ pool \in [Runtimes -> Clients \cup {NoClient}]
  /\ aged \in [Runtimes -> BOOLEAN]
  /\ holds \in [Clients -> Nat]
  /\ lastStatus \in [Runtimes -> {"none", "connected", "failed"}]
  /\ conn \in [Clients -> {"new", "connecting", "open", "lost", "closed"}]
  /\ home \in [Clients -> Runtimes]
  /\ pc \in [Requests -> PCs]
  /\ runtime \in [Requests -> Runtimes]
  /\ client \in [Requests -> Clients \cup {NoClient}]
  /\ tries \in [Requests -> 0 .. MaxCandidates]
  /\ cancelled \subseteq Turns
  /\ strayed \subseteq Clients
  /\ overlapped \subseteq Runtimes

PoolInit ==
  /\ pool = [r \in Runtimes |-> NoClient]
  /\ aged = [r \in Runtimes |-> FALSE]
  /\ holds = [c \in Clients |-> 0]
  /\ lastStatus = [r \in Runtimes |-> "none"]
  /\ conn = [c \in Clients |-> "new"]
  /\ home \in {[c \in Clients |-> r] : r \in Runtimes}
  /\ pc = [u \in Requests |-> "idle"]
  /\ runtime \in [Requests -> Runtimes]
  /\ client = [u \in Requests |-> NoClient]
  /\ tries = [u \in Requests |-> 0]
  /\ cancelled = {}
  /\ strayed = {}
  /\ overlapped = {}

-----------------------------------------------------------------------------
(* holdClient and releaseClient, as functions of the hold counts.          *)

Held(h, c) == [h EXCEPT ![c] = @ + 1]

\* Mutation: one release forgets every other holder.
ReleaseDropsEntry(h, c) == [h EXCEPT ![c] = 0]
\* Mutation: a release does not ask whether there is a hold.
ReleaseUnchecked(h, c) == [h EXCEPT ![c] = @ - 1]
Released(h, c) == [h EXCEPT ![c] = IF @ <= 1 THEN 0 ELSE @ - 1]

Goto(u, label) == pc' = [pc EXCEPT ![u] = label]

-----------------------------------------------------------------------------
(* A request asks for a client, and getClientForRuntime decides.           *)

\* The request calls getGatewayClientForRuntime (or getGatewayClient).
Start(u) ==
  /\ pc[u] = "idle"
  /\ Goto(u, "lookup")
  /\ UNCHANGED <<entryVars, holds, conn, home, requestVars, ghosts>>

\* The row is missing, has no gateway URL, or the query fails.
LookupFails(u) ==
  /\ pc[u] = "lookup"
  /\ Goto(u, "failed")
  /\ UNCHANGED <<entryVars, holds, conn, home, requestVars, ghosts>>

Reusable(r) ==
  /\ pool[r] # NoClient
  /\ conn[pool[r]] = "open"
  /\ ~aged[r]

\* Mid-request: too old, but somebody holds it.
\* Mutation: holds do not defer recycling.
RecycleDeferredIgnoringHolds(r) == FALSE
RecycleDeferred(r) ==
  /\ pool[r] # NoClient
  /\ conn[pool[r]] = "open"
  /\ holds[pool[r]] > 0

\* The pooled client is handed out again.
Reuse(u) ==
  /\ pc[u] = "lookup"
  /\ Reusable(runtime[u]) \/ RecycleDeferred(runtime[u])
  /\ client' = [client EXCEPT ![u] = pool[runtime[u]]]
  /\ Goto(u, "returned")
  /\ UNCHANGED <<entryVars, holds, conn, home, runtime, tries, cancelled, ghosts>>

\* Mutation: the stale client is closed but stays in the pool.
RecycleKeepsEntry(u) ==
  /\ pc[u] = "lookup"
  /\ LET r == runtime[u]
         old == pool[r]
     IN  /\ ~Reusable(r) /\ ~RecycleDeferred(r)
         /\ overlapped' = IF Dialers(r) # {} THEN overlapped \cup {r} ELSE overlapped
         /\ holds' = [c \in Clients |-> IF c = old THEN 0 ELSE holds[c]]
         /\ conn' = [c \in Clients |-> IF c = old THEN "closed" ELSE conn[c]]
  /\ Goto(u, "dialing")
  /\ UNCHANGED <<pool, aged, lastStatus, home, requestVars, strayed>>
\* Mutation: the stale client is dropped from the pool without being closed.
RecycleForgetsToClose(u) ==
  /\ pc[u] = "lookup"
  /\ ~Reusable(runtime[u]) /\ ~RecycleDeferred(runtime[u])
  /\ pool' = [pool EXCEPT ![runtime[u]] = NoClient]
  /\ overlapped' = IF Dialers(runtime[u]) # {} THEN overlapped \cup {runtime[u]} ELSE overlapped
  /\ Goto(u, "dialing")
  /\ UNCHANGED <<aged, lastStatus, holds, conn, home, requestVars, strayed>>
\* The stale client, if there is one, is closed and forgotten, and the
\* request goes on to connect a new one.
Recycle(u) ==
  /\ pc[u] = "lookup"
  /\ LET r == runtime[u]
         old == pool[r]
     IN  /\ ~Reusable(r) /\ ~RecycleDeferred(r)
         /\ overlapped' = IF Dialers(r) # {} THEN overlapped \cup {r} ELSE overlapped
         /\ holds' = [c \in Clients |-> IF c = old THEN 0 ELSE holds[c]]
         /\ conn' = [c \in Clients |-> IF c = old THEN "closed" ELSE conn[c]]
         /\ pool' = [pool EXCEPT ![r] = NoClient]
  /\ Goto(u, "dialing")
  /\ UNCHANGED <<aged, lastStatus, home, requestVars, strayed>>

-----------------------------------------------------------------------------
(* connectWithFallback: the candidate URLs are tried in turn.              *)

\* The device key cannot be read or sealed before the first candidate is dialled.
SealFails(u) ==
  /\ pc[u] = "dialing" /\ tries[u] = 0
  /\ Goto(u, "failed")
  /\ UNCHANGED <<entryVars, holds, conn, home, requestVars, ghosts>>

\* Mutation: the loop over the candidates never advances.
DialForgetsAttempts(u, c) ==
  /\ pc[u] = "dialing"
  /\ conn[c] = "new"
  /\ conn' = [conn EXCEPT ![c] = "connecting"]
  /\ home' = [home EXCEPT ![c] = runtime[u]]
  /\ client' = [client EXCEPT ![u] = c]
  /\ tries' = [tries EXCEPT ![u] = 1]
  /\ Goto(u, "connecting")
  /\ UNCHANGED <<entryVars, holds, runtime, cancelled, ghosts>>
\* A new GatewayClient for the next candidate; connect() is called.
Dial(u, c) ==
  /\ pc[u] = "dialing"
  /\ tries[u] < MaxCandidates
  /\ conn[c] = "new"
  /\ conn' = [conn EXCEPT ![c] = "connecting"]
  /\ home' = [home EXCEPT ![c] = runtime[u]]
  /\ client' = [client EXCEPT ![u] = c]
  /\ tries' = [tries EXCEPT ![u] = @ + 1]
  /\ Goto(u, "connecting")
  /\ UNCHANGED <<entryVars, holds, runtime, cancelled, ghosts>>

\* The gateway accepts the connect frame: connected = true.
Handshake(u) ==
  /\ pc[u] = "connecting"
  /\ conn' = [conn EXCEPT ![client[u]] = "open"]
  /\ Goto(u, "persisting")
  /\ UNCHANGED <<entryVars, holds, home, requestVars, ghosts>>

\* connect() or repairRuntimeUrl rejects: the client is closed. An
\* authentication or pairing failure ends the loop, any other failure goes
\* on with the next candidate.
AttemptFails(u) ==
  /\ pc[u] \in {"connecting", "persisting", "repairing"}
  /\ lastStatus' = [lastStatus EXCEPT ![runtime[u]] = "failed"]
  /\ conn' = [conn EXCEPT ![client[u]] = "closed"]
  /\ \/ Goto(u, "failed")
     \/ tries[u] < MaxCandidates /\ Goto(u, "dialing")
  /\ UNCHANGED <<pool, aged, holds, home, requestVars, ghosts>>

\* pool.set: unconditional, whatever the pool holds by now.
Install(u) ==
  /\ pool' = [pool EXCEPT ![runtime[u]] = client[u]]
  /\ aged' = [aged EXCEPT ![runtime[u]] = FALSE]

\* Mutation: the client is pooled before its URL is repaired.
PoolBeforeRepair(u) ==
  /\ pc[u] = "persisting"
  /\ lastStatus' = [lastStatus EXCEPT ![runtime[u]] = "connected"]
  /\ Install(u)
  /\ Goto(u, IF tries[u] = 1 THEN "returned" ELSE "repairing")
  /\ UNCHANGED <<holds, conn, home, requestVars, ghosts>>
\* connect() resolves. The stored URL (the first candidate) needs no repair.
ConnectResolves(u) ==
  /\ pc[u] = "persisting"
  /\ lastStatus' = [lastStatus EXCEPT ![runtime[u]] = "connected"]
  /\ IF tries[u] = 1
       THEN Install(u) /\ Goto(u, "returned")
       ELSE UNCHANGED <<pool, aged>> /\ Goto(u, "repairing")
  /\ UNCHANGED <<holds, conn, home, requestVars, ghosts>>

\* The fallback URL has been written to the row of the runtime.
Repaired(u) ==
  /\ pc[u] = "repairing"
  /\ Install(u)
  /\ Goto(u, "returned")
  /\ UNCHANGED <<lastStatus, holds, conn, home, requestVars, ghosts>>

-----------------------------------------------------------------------------
(* The caller.                                                             *)

\* A chat turn resumes with its client and holds it.
Hold(u) ==
  /\ pc[u] = "returned" /\ u \in Turns \ cancelled
  /\ holds' = Held(holds, client[u])
  /\ Goto(u, "using")
  /\ UNCHANGED <<entryVars, conn, home, requestVars, ghosts>>

\* A plain request (history, sessions, voices) uses the client unheld.
Use(u) ==
  /\ pc[u] = "returned" /\ u \notin Turns
  /\ Goto(u, "using")
  /\ UNCHANGED <<entryVars, holds, conn, home, requestVars, ghosts>>

\* A chat turn that was aborted while it waited for its client runs
\* releaseHeldClient, which only asks whether there is a client.
Abandon(u) ==
  /\ pc[u] = "returned" /\ u \in cancelled
  /\ holds' = Released(holds, client[u])
  /\ strayed' = strayed \cup {client[u]}
  /\ Goto(u, "done")
  /\ UNCHANGED <<entryVars, conn, home, requestVars, overlapped>>

\* Mutation: the turn ends without releasing its client.
FinishForgetsRelease(u) ==
  /\ pc[u] = "using"
  /\ Goto(u, "done")
  /\ UNCHANGED <<entryVars, holds, conn, home, requestVars, ghosts>>
\* The turn ends (finishStream, catch or finally) and releases its client.
Finish(u) ==
  /\ pc[u] = "using"
  /\ holds' = IF u \in Turns THEN Released(holds, client[u]) ELSE holds
  /\ Goto(u, "done")
  /\ UNCHANGED <<entryVars, conn, home, requestVars, ghosts>>

\* The abort endpoint, before the turn has its client.
Abort(u) ==
  /\ u \in Turns \ cancelled
  /\ pc[u] \in Acquiring \cup {"returned"}
  /\ cancelled' = cancelled \cup {u}
  /\ UNCHANGED <<entryVars, holds, conn, home, pc, runtime, client, tries, ghosts>>

-----------------------------------------------------------------------------
(* The environment.                                                        *)

\* The gateway or the network closes the WebSocket.
Drop(c) ==
  /\ conn[c] = "open"
  /\ conn' = [conn EXCEPT ![c] = "lost"]
  /\ UNCHANGED <<entryVars, holds, home, pc, requestVars, ghosts>>

\* Five minutes have passed since the entry was put in the pool.
Age(r) ==
  /\ pool[r] # NoClient /\ ~aged[r]
  /\ aged' = [aged EXCEPT ![r] = TRUE]
  /\ UNCHANGED <<pool, lastStatus, holds, conn, home, pc, requestVars, ghosts>>

Acquire(u) ==
  \/ LookupFails(u) \/ Reuse(u) \/ Recycle(u) \/ SealFails(u)
  \/ \E c \in Clients : Dial(u, c)
  \/ Handshake(u) \/ AttemptFails(u) \/ ConnectResolves(u) \/ Repaired(u)

PoolNext ==
  \/ \E u \in Requests : \/ Start(u) \/ Acquire(u) \/ Hold(u) \/ Use(u)
                         \/ Abandon(u) \/ Finish(u) \/ Abort(u)
  \/ \E c \in Clients : Drop(c)
  \/ \E r \in Runtimes : Age(r)

PoolSpec == PoolInit /\ [][PoolNext]_poolVars

\* Queries, handshakes and repairs settle: the driver and the 30 s connection
\* timer bound them. Nothing makes a turn end or a user abort.
PoolFairness == \A u \in Requests : WF_poolVars(Acquire(u))

-----------------------------------------------------------------------------
(* Safety.                                                                 *)

\* Every counted hold is backed by a turn that is using the client: a hold
\* nobody will release would keep an old connection in the pool for ever
\* (getClientForRuntime hands a held client out whatever its age).
HoldsBacked == \A c \in Clients : holds[c] <= Cardinality(HoldersOf(c))

\* While a connection is open, activeClientHolds counts exactly the turns that
\* hold it, unless an aborted turn has released it without ever holding it.
HoldsExact ==
  \A c \in Clients : conn[c] = "open" /\ c \notin strayed
                       => holds[c] = Cardinality(HoldersOf(c))

\* The pool never offers a client the pool itself has closed, and never a
\* client dialled for another runtime: closing and forgetting go together.
PoolEntriesUsable ==
  \A r \in Runtimes : pool[r] # NoClient => /\ conn[pool[r]] \in {"open", "lost"}
                                            /\ home[pool[r]] = r

\* The map, the connections and the hold counts agree, in whatever order requests
\* take, abandon and give back what connections are lost, aged and replaced.
PoolSound == PoolTypeOK /\ HoldsBacked /\ HoldsExact /\ PoolEntriesUsable

\* Two connections to one runtime are open at once only if two requests were
\* dialling it at the same time.
OneConnectionUnlessOverlap ==
  \A c, d \in Clients :
    conn[c] = "open" /\ conn[d] = "open" /\ c # d /\ home[c] = home[d]
      => home[c] \in overlapped

\* The pool closes no open connection a turn is holding, except one that an
\* aborted turn has released in that turn's place.
RecycleSparesHeld ==
  [][\A c \in Clients \ strayed :
       conn[c] = "open" /\ conn'[c] = "closed" => HoldersOf(c) = {}]_poolVars

\* gateway-chat-pool.ts:45-47, "Mark a client as in use so the pool won't
\* recycle it mid-request."
NeverRecycledMidRequest ==
  [][\A c \in Clients :
       conn[c] = "open" /\ conn'[c] = "closed" => HoldersOf(c) = {}]_poolVars

(* Liveness.                                                               *)

\* Every request that asks for a client is answered: with a client, or with
\* an error once the candidates are exhausted.
AcquisitionSettles ==
  \A u \in Requests : pc[u] = "lookup" ~> pc[u] \notin Acquiring
=============================================================================
