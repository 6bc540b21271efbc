# CrewCMD in TLA+

CrewCMD is a Next.js application in which people work with AI agents that run
behind an OpenClaw gateway or as processes of the server. Most of it is records
behind routes: one request, one query, one answer. This directory is about the
rest, the parts that keep state in the process, in the page or in a row while
several things happen at once, and that ordinary tests reach only in the orders
somebody thought of. Paths below are relative to the repository's root.

## Contents

| Component | Specification | Checked by | Proofs |
|---|---|---|---|
| Gateway connection pool | `GatewayPool` | `MCServer`, `MCServerLive`, `MCGatewayPool` | `Clients_proofs` |
| Gateway client | `GatewayClient`, `RpcChannel` (abstract) | `MCServerLive` | `Clients_proofs` |
| Realtime tool consultation | `RealtimeConsult` | `MCServerLive` | `Clients_proofs` |
| Session event bridge | `EventBridge` | `MCServerLive` | `Clients_proofs` |
| Chat turn | `ChatTurn` | `MCChatTurn` | `ChatTurn_proofs` |
| Chat page | `ChatPage` | `MCPages`, `MCBrowser`, `MCChatPage` | `ChatPage_proofs` |
| Spoken answers | `SpeechQueue` | `MCBrowser` | `SpeechQueue_proofs` |
| Realtime events and chat sync | `RealtimeSync` | `MCBrowser`, `MCRealtimeSync` | `Realtime_proofs` |
| Realtime voice session | `VoiceRelay` | `MCBrowser`, `MCVoiceRelay` | `Realtime_proofs` |
| Voice in the iOS shell | `NativeVoice` | `MCPages` | `NativeVoice_proofs` |
| Local agent processes | `AgentRuntime` | `MCServer`, `MCServerLive` | `AgentRuntime_proofs` |
| Runtime credentials | `RuntimeCredentials` | `MCServer` | `Records_proofs` |
| Governance | `Governance` | `MCServer` | `Records_proofs` |
| Workspaces, sessions and retries | `FindOrCreate` | `MCServer` | `Records_proofs` |
| Skill synchronisation | `SkillSync` | `MCServer` | `Records_proofs` |
| Invitations and sign-up | `Joining` | `MCPages`, `MCJoining` | `Records_proofs` |

`PROJECT.json` lists every component, run, mutant, finding, hazard and theorem,
and maps each definition to the lines it models.

## The system

### Inventory

**Gateway connection pool** (`src/src/lib/gateway-chat-pool.ts`).
State: a map from runtimes to clients with their age, the number of holds on
each client. Operations: look up a client, dial one through the candidate URLs
of a runtime, install it, hold and release it, discard lost or aged clients.
Called by the chat route, the session bridge, the voice routes and every route
that needs an RPC. Hard: the map is read before several awaits and written
after them; a client may be held, aged and lost at once. Correct if hold counts
are the number of holders, the pool never closes a connection somebody holds,
never offers a closed one, and does not dial twice without need.

**Gateway client** (`src/src/lib/gateway-client.ts`).
State: one WebSocket, the handshake in progress, pending calls with a timer
each, a stored device credential. Operations: `connect()` with a challenge, a
possible rejection of the credential and one retry on a new socket; `rpc()`;
`close()`. Hard: events of an old socket after a new one was dialled, timers
racing answers, a retry that empties the pending map. Correct if every call is
settled exactly once, timers end only what they were armed for, and replaced
sockets are closed.

**Realtime tool consultation**
(`src/src/app/api/runtimes/[id]/talk/realtime/relay/route.ts`).
State: the listener, timers and polls of one tool call of a voice session.
Operations: ask the agent, hear its events, read its history, give up, answer
the provider. Hard: final event, history, limit and grace period race. Correct
if the provider gets one result, the answer where there is one, and no timer or
listener stays.

**Session event bridge** (`src/src/lib/gateway-event-bridge.ts`).
State: the client it holds, its listeners, a reconnect timer, a debounce and one
refresh under way. Operations: connect (from three places), hear of a change or
the end, list the sessions, write their rows. Hard: `connect()` overlaps with
itself; changes come during a refresh. Correct if it holds the client it hears,
once, and has copied what it heard of.

**Chat turn** (`src/src/app/api/chat/route.ts`, `src/src/app/api/chat/history/route.ts`,
`src/src/app/api/chat/runs/[id]/abort/route.ts`).
State: the run's row, the text so far, a set of flags and timers in the closure
of one POST, the stream to the browser. Operations: acquire a client, send,
handle gateway events, poll the history, abort, time out, finish. Hard: up to
five things can end a turn (final event, poll, inactivity, abort, send error),
each through `finishStream`, which awaits four times between its first test and
its last assignment; and each query is repeated when its answer is lost. Correct if
one message is stored (or copies of it by such a retry) and one outcome told,
only the gateway completes a run, and the client is always given back.

**Chat page** (`src/src/app/chat/page.tsx`, `src/src/lib/chat-store.ts`).
State: the conversation on the screen, its list, the store of messages per
conversation, the turn that is streamed with its controller and run id, a queue
of messages to send next. Operations: send, queue, upload, create a task, stop,
interrupt, hear of events, reload, switch channels. Hard: closures of one
conversation run while another is on the screen; the row of a message comes by
two ways in any order. Correct if conversations do not mix, a message appears
once where it was written, and what waits has something to wait for.

**Spoken answers** (`src/src/app/chat/page.tsx`).
State: a queue of sentences, requests to `/api/tts` under way and ahead, an audio
element with object URLs, the browser's own speech, a filler. Hard: all of them
end at any time, and each may start the next. Correct if one voice sounds, in
order, object URLs are given back, and the queue drains.

**Realtime events** (`src/src/lib/realtime-events.ts`, `src/src/lib/chat-pubsub.ts`,
`src/src/app/api/chat/events/route.ts`, `src/src/components/chat/chat-event-provider.tsx`).
State: the table of events with its sequence, the subscriptions of the process,
the page's EventSource, its cursor and its reconnect timer. Operations: append,
publish, replay, forward, connect, reconnect, resume. Hard: sequence numbers
are taken before the commit, each live event is read again on its own, the replay
runs beside them, an insert may commit and fail all the same, and pages come
back by three browser events and a timer. Correct if the page has one
connection and receives what it missed.

**Realtime voice** (`src/src/lib/realtime-voice-gateway-relay.ts`,
`src/src/components/chat/voice-agent.tsx`, `src/src/app/api/runtimes/[id]/talk/realtime`).
State: the relay session with its microphone, event stream and startup timer,
the component's references to it. Operations: activate, start, hear of
readiness, errors and closes, stop, fall back to recording, unmount. Hard: the
microphone prompt, the provider and the timer race, and the button does not
know of an activation under way. Correct if audio flows only while the session
is open, the gateway hears of its end once, and what is open can be stopped.

**Voice in the iOS shell**
(`src/apps/mobile/ios/App/App/CrewCmdVoiceSessionPlugin.swift`, `voice-agent.tsx`).
State: the plugin's session, engine, recording, upload, background task and the
two players with the calls that wait for them; two queues of blocks. Operations:
start, stop, mute, play, speak, stop playing, and what the system does to them.
Hard: each operation is cut into blocks on two queues. Correct if the microphone
is open only in a session the button can stop, muting is obeyed, and every call
is answered.

**Local agent processes** (`src/src/lib/agent-runtime.ts` and the routes start,
stop, restart, task and output/stream of an agent).
State: maps of processes and children, output buffers with their subscribers.
Operations: start, stop, restart, execute a task, follow the output, shut down.
Hard: starts overlap, children exit, ignore signals or cannot be spawned.
Correct if a child that runs can be stopped, the status is the child's, and
every call ends.

**Runtime credentials** (`src/src/lib/runtime-device-auth.ts`, the pool, PATCH of
a runtime, the import). State: one JSON column. Three writers read it, wait and
write all of it. Correct if credentials go with their device, a rejected one
stays away, and nobody loses what others stored.

**Governance** (`src/src/lib/governance.ts` and its routes). State: approval
requests, audit log, versions of a configuration. Each decision and each edit is
several queries without a transaction. Correct if log and status agree, version
numbers are gapless and unique, and no edit is lost.

**Workspaces, sessions and retries** (`src/src/lib/workspace.ts`,
`resolveSessionId`, `withRetry` of `src/src/db/index.ts`). Find-or-create by
requests that know nothing of each other, over a connection that may lose an
answer. Correct if all are given the same row and fail for a reason.

**Skill synchronisation** (`src/src/lib/sync-skill-to-openclaw.ts` and five
routes). State: rows of assignments, and the gateway's configuration, changed
by patches guarded by a hash. Correct if the configuration follows the rows and
what others wrote stays.

**Invitations and sign-up** (`src/src/app/api/auth/signup/route.ts`,
`src/src/app/api/invite/accept/route.ts`, `src/src/app/join/page.tsx`). State:
users, members, one invitation with two consumers. Correct if it brings in one
person, once, and the first user alone becomes the administrator.

The components that are left out are at the end, with the reason.

### How the parts meet

The chat route asks the pool for a client (`getGatewayClientForRuntime`), holds
it for the length of the turn (`holdClient`, `releaseClient`), sends and polls
with `rpc()`, and hears of the answer through the client's listeners. What it
decides becomes rows, and through `appendRealtimeEvent` events that other
windows receive over the event route. Voice, consultations and the bridge take
the same clients. The page sends messages to the chat route, hears of them by
two ways and speaks the answers; the button of the voice agent starts a relay
session in a browser and a native one in the iOS shell. The models cut the system
at these calls:

- `ChatTurn` sees the pool as acquisition that succeeds or fails and as one
  hold; `GatewayPool` sees a turn as a holder that may be aborted while it
  waits. The first shows that a turn that is done gives its hold back, the
  second that the pool respects the holds it knows of. `EventBridge` does the
  same for a holder that lasts.
- `GatewayPool` sees a client as a connection that opens, fails or is lost;
  `GatewayClient` opens that box and shows what `rpc()` promises, stated
  abstractly in `RpcChannel`: a call is settled once, as answered or failed.
  `RealtimeConsult` and `EventBridge` rely on that promise.
- `RealtimeSync` sees every producer of events as an insert; which events a
  turn produces, and in which order, is in `ChatTurn` (`verdicts`). `ChatPage`
  sees the route as something that stores and answers at some time.
- `RuntimeCredentials` is what `connectWithFallback` of the pool does to the
  metadata of a runtime while `GatewayPool` shows what it does to the map.

## How the models are made

The server and the page are JavaScript: what runs between two awaits is atomic.
One action is such a piece, from the resumption to the next await, with every
assignment it makes; `pc`-like variables say which await a request is suspended
at. In a module about rows an action ends at the next query, in `NativeVoice` at
the end of a block of a queue. Outcomes of awaits, arrivals of frames, timers and
faults are nondeterministic. Texts, payloads, URLs and identities are abstracted
to what the code distinguishes. Ghost variables, named as such where they are
declared, record how a known exception came about, so that a property can say
"unless". Definitions under a "Mutation:" comment are bugs the code could have
had; they take no part in a specification and exist to show that a property
notices them.

### GatewayPool

`pool` is the map, `conn` the state of a WebSocket (`new`, `connecting`, `open`,
`lost`, `closed`), `holds` is `activeClientHolds`, `aged` an entry past its
maximum age, `pc`, `runtime`, `client` the await, target and client of a request.
Requests are chat turns, which hold what they get, or plain. `strayed` and
`overlapped` are ghosts: clients on which an aborted turn released a hold it had
not taken, and runtimes two requests dialled at the same time.

### GatewayClient and RpcChannel

`socket[s]` is a WebSocket with its place in the handshake, `ws` the current one,
`timer` the connect timers, `pending` the map of calls, `call[c]` what the caller
sees. Left out: frames, payloads, signatures and the methods that only name an
RPC. Assumed of the callers, as they are in `src`: `rpc()` after `connect()`
returned, `connect()` when not connected, `close()` between connects. A
`connect()` has at most two sockets, which is the code's own limit.
`RpcChannel` has three actions (a call is made, answered, failed); `IsChannel` is
its safety and `ChannelSettles` all of it, with its fairness.

### RealtimeConsult and EventBridge

A consultation is `runRealtimeToolCall` with `waitForChatFinal`: the run that is
asked, the polls of its history, the limit and the grace period, and the one
result (`Answers`, `Apologises`). The bridge is one object with the callers of
`connect()` that are under way, the client it holds, and one refresh; the list of
sessions is the number of times it has changed. The ghost `missed` says that a
change came which nothing in the bridge will look at.

### ChatTurn

One turn. `finisher[f]` is an execution of `finishStream`, with the await it is
at; two of them can be under way, which is what it takes for them to disturb
each other. `deferred`, `done`, `persisted`, `finalSeen` and the timers are the
route's variables; `saved`, `verdicts`, `pushed` and `status` what the outside
sees. `persistAndPublish` is two steps, since its later queries may throw when the
message is stored (`Saved`, `Published`), and `messageId` is the id that a
notification needs. A query fails as `withRetry` lets it (`QueryFails`): it is repeated
`Retries` times, and it may have committed; `lost` (a ghost) counts the inserts of
the message that did. Assumed: a configured database, an existing run row, notification wanted,
one history session. Left out: prompts, tools, uploads, a second abort.

### ChatPage

`view` is the conversation on the screen, `store` the messages per conversation,
`stage[m]` how far the page has come with a message, `dest[m]` the conversation it
is sent to, `written[m]` (a ghost) the one it was written in. An entry of the
store is what was typed, what the server has stored, or an answer. Turns, uploads, task creations, stops, reloads and event deliveries
interleave with switches. Ghosts say what uproots the page (a switch with work
under way, a queue whose turn did not end) and bound the properties to that.

### SpeechQueue

All the page keeps of speech is one record, and each callback a function of it.
A voice is a sentence or the filler; an object URL is a number. What ends the
audio element, a request or an utterance is an action; so is the rejection of a
`play()` that the element was taken away from, which arrives when it plays
something else or nothing (`RefusedLate`). `cut` (a ghost) says that something else
than the end of a sentence has intervened, such an interruption included.

### RealtimeSync

An event is its sequence number. `row[e]` follows an event from `nextval` over
the commit to the publication; `state`, `replay`, `reading` and `wire` belong to a
connection of the route; `source`, `timer`, `settling`, `cursor` and `applied` to the page.
Assumed: the page has a cursor, so the catch-up by timestamp is left out, and
the user may read all events. A restart ends every connection and leaves what
was committed unpublished. `AnswerLost` leaves one row unpublished without a
restart: its insert has committed, its answer was lost, and the repeated insert is
another row. A connection that has done its replay never hears of it; `missed` (a
ghost) says so, and `StreamCovers` and `Delivered` except it by name.

### VoiceRelay

`session[a]` is one press of the button with its relay session: `pc` the await
of the activation, `source` the event stream, `mic` the microphone (`held` when
it was granted and the provider is not ready), `remote` the session at the
gateway, `stops` the stop requests sent for it, `recorder` the microphone of the
fallback (`stranded` when its set-up threw after `streamRef` was set). A session of
another transport than the relay is left at the gateway (`SessionUnwired`).
`relayRef` and `stream` are the component's references, `again` a ghost:
an activation began while another was under way. Left out: playback, barge-in,
tool calls, what is recorded; the page may use microphones.

### NativeVoice

`capture` and `main` are the plugin's queues, a job a pair of its kind and what
it is for; `press`, `nativeRef`, `shown`, `isActive` are the page's side, the rest
the plugin's fields. `loose`, `gone`, `orphaned` and `late` are ghosts: an activation
under way when another began or the page was left; a background task iOS has
ended or refused to begin; a start that failed beside an active session; the end of an utterance
told when the next had begun.

### AgentRuntime

One agent. A call makes at most one process and one child, named after it;
`callAt` is the await a call is at, `child` the map entry, `current` the process the
maps name, `lasting` the processes with an adapter that outlives its child.
Children exit, ignore SIGTERM, fail to spawn. `twoStarts` and `givenUp` are
ghosts, each necessary: two starts that overlapped, and a stop that stopped
waiting for its child or could not signal it.

### RuntimeCredentials, Governance, FindOrCreate, SkillSync, Joining

These are about rows, and share a form: requests are a set, each with the query
it is at and what it has read; the rows are variables; ghosts name the overlaps
after which the code promises less (`overtaken`, `crossed`, `mixed`, `late`,
`calm`, `raced` and the like). The metadata of a runtime is a record of what three
writers put there, and an update that fails may have been written; a configuration
is the set of edits it contains; a gateway configuration has a hash that every
write changes. Whether an error of the database carries the
driver's text is left open in `FindOrCreate`, for the code is ready for either.

## Properties

Runs check the properties below. Most are conjunctions of named parts, each
with a comment of its own in its module and with a mutant of its own; a part
can be checked, or proved, by itself.

| Property | Parts, besides the types | Says |
|---|---|---|
| `PoolSound` | `HoldsBacked`, `HoldsExact`, `PoolEntriesUsable` | hold counts are the holders, entries are usable |
| `OneConnectionUnlessOverlap` | | two connections to a runtime only after overlapping dials |
| `RecycleSparesHeld` | | no step closes an open connection somebody holds, stray releases aside |
| `AcquisitionSettles` | | whoever asks for a client gets one or an error |
| `SocketsSound` | `TimerWhileDialing`, `NobodyForgotten`, `ReplacedSocketClosed` | timers, pending calls and old sockets of a client |
| `IsChannel`, `ClientSettles` | `ChannelSettles`, `ConnectSettles` | `GatewayClient` implements `RpcChannel`; calls and connects settle |
| `ConsultSound`, `ConsultEnds` | `NothingLeft`, `OneResult`, `AnswerNotMissed` | one result, the answer if there is one, nothing left behind |
| `BridgeSound`, `Mirrored` | `HoldsItsClient`, `RestIsCurrent` | the bridge holds what it hears; a bridge at rest has copied the sessions, and gets there |
| `OneOutcome` | `SavedOnce`, `OneVerdict`, `PushFollowsMessage` | one message, or copies by lost answers, and one last verdict per turn |
| `DoneIsDone` | `CompletionNeedsFinal`, `DoneReleasesClient`, `DoneIsRecorded` | a turn that is over is over for row, pool and gateway |
| `DeferredTurnIsPolled` | | a deferred turn is polled while attempts are left |
| `WatchedTurnEnds`, `AnswerNotified` | | a turn that is watched ends; a full answer that was stored and announced is notified |
| `ViewsApart`, `SentOnce`, `WorkOwned` | `StoreApart`, `ListIsOfView`; `ConfirmedOnce`, `SentWhereWritten`; `BusyIsTrue`, `QueueHasOwner` | conversations do not mix; a message is once where it was written; what waits has work that ends it |
| `TextStays`, `QueueServed` | | nothing typed vanishes unsaid; a queued message is sent |
| `SpeechSound`, `InOrder`, `QueueDrains` | `UrlsHeld`, `OneVoice` | one voice, sentences in order, the queue drains |
| `SyncSound`, `SyncSettles` | `OneStream`, `StreamCovers`; `Delivered`, `Reconnects` | one connection without a gap between replay and live part; stored events arrive, lost answers aside |
| `VoiceSound`, `StartSettles` | `LiveMicOpen`, `ToldOnce`, `Reachable` | audio only while open, one stop, everything that is open referenced; a start ends |
| `NativeSound` | `MicKnown`, `SessionStoppable`, `MuteHeard`, `RecordsWhenAsked`, `UploadTracked`, `TaskFollows`, `CallsMatch` | the same in the iOS shell, with its recording, task and players |
| `ChildrenKept`, `ViewersFollow`, `CallsEnd` | `ChildKnown`, `StatusIsTrue`, `TaskIsCurrent`; `ViewerServed`, `ViewerForgotten`; `CallsSettle`, `GoneForgotten` | children can be stopped, status and streams are true, calls end |
| `CredentialsAgree`, `NothingLost` | `CredentialOfItsDevice`, `InStep`, `RejectedStaysAway` | credentials go with their device; writers lose nothing |
| `HistoryTrue`, `EditsKept` | `LogAgrees`, `NumbersGapless`, `NumbersOnce`, `NewestIsCurrent` | log, versions and configuration record what happened |
| `FoundOnce` | `OneWorkspace`, `OwnersHaveOne`, `OneSession`, `FailsForAReason` | find-or-create finds or makes one row |
| `SkillsFollow`, `OthersKept` | `AllowedIsAssigned`, `OnWhenAssigned`, `OffWhenNobody` | the gateway's configuration follows the rows |
| `JoinSound` | `OneInvitee`, `OneAdmin`, `MemberOnce`, `JoinsOne`, `AcceptedBelongs` | an invitation brings in one person, once |

## Runs

| Run | Instance | Checks |
|---|---|---|
| `server` | `MCServer`: pool (2 turns, 1 plain request, 3 clients, 2 URLs), credentials (1 dial, 1 re-authentication, 1 import, 2 tokens), governance (2 deciders, 2 editors, 1 rollback), rows (2 + 2 callers, 1 retry), skills (2 agents, 3 calls, 2 at once), processes (3 calls), outputs (1 call, 2 viewers) | safety of the server's parts |
| `server_live` | `MCServerLive`: pool (1 turn, 1 plain request, 4 clients), client (2 calls, 3 sockets), consultation (2 finals), bridge (3 links, 1 refresh from outside, 2 changes, 2 faults), processes (2 calls), outputs (1 call, 2 viewers) | safety of the parts that wait, and that every wait ends |
| `turn` | every fault but a dropped socket, 2 executions of `finishStream`, 1 poll, 2 events, 1 retry | safety of a turn |
| `turn_live` | a dropped socket and failing queries, 2 executions, 1 poll, 1 event, 1 retry | a watched turn ends, its answer is notified |
| `pages` | `MCPages`: chat page (2 channels, 2 messages, 2 texts, background), joining (3 people), native voice (2 sessions; 1 session with 2 calls) | safety of the pages and the iOS shell |
| `browser` | `MCBrowser`: voice (2 presses), sync (2 events, 2 connections, replay limit 1, every fault), chat page (1 channel, 2 messages), speech (2 sentences, 3 URLs, 1 ahead) | safety of what runs in the browser, and its progress |
| `pool_mid_request` | 2 turns, 1 plain request, 1 URL | *violated*: a held connection is recycled |
| `turn_disconnected` | browser leaves | *violated*: the turn need not end |
| `sync_missed` | 2 events, 2 connections, network | *violated*: what was missed is received after a reconnection |
| `voice_mic` | 1 press | *violated*: an ended session has stopped the tracks it was granted |
| `page_leak` | 2 channels, 2 messages | *violated*: switching cannot leak into the wrong chat |
| `joins` | 3 people | *violated*: the invitation's third step joins the company |

### Side by side

The modules `MCServer`, `MCServerLive`, `MCPages` and `MCBrowser` put components side by side:
a variable `part` is chosen initially, the actions of that component run and the
others keep their initial state. The states of a run are the sum, not the
product, of those of its parts, which share nothing in these modules: what they
do share is modelled inside them, as the calls under "How the parts meet". No
fair action of an idle part is enabled, so that its fairness says nothing.

### Bounds

Two requests on one runtime are needed for a race in the pool, a third for a
hold that outlives them; the clients suffice for one per candidate URL of the
two that race, and no request runs out of them in `server_live`. Two executions
of `finishStream` can disagree, a third adds no new pair; one retry repeats a query
that has committed, the second of the code repeats the same. A dropped socket is
left to `turn_live`, where it matters: it keeps every other event from coming. Two events let one be
overtaken; the replay limit of one stands for 500 and bites. A call that is
pending on one socket while another is dialled needs two sockets, the retry a
third. Two presses cover a press during an activation. Two messages and two
channels let a turn, a queue and a switch meet; that two messages may say the
same is what optimistic entries are confused by. Three local calls let a start
meet a start and a stop; viewers matter to one process only, so that streams are
a part of their own. Each pair of writers of a row is there, a third only where
it is another operation. Counters that the code bounds itself (80 polls, URLs,
sockets) are parameters. Two bounds are in the guards of `NativeVoice`: one change of
the mute button the plugin has not heard of, and one recording the main queue
has not begun a task for.

`server` is checked up to a permutation of the agents that have skills, `pages` up to
one of the texts, `turn` up to one of the executions of `finishStream`; none of these
runs has a liveness property. `InOrder` of `MCServer` lets
local calls begin in one order, which loses nothing since they are alike.

Distinct states: `server` 5.0 million, `server_live` 124 thousand, `turn` 13.1 million,
`turn_live` 1.7 million, `pages` 6.8 million, `browser` 317 thousand; `browser` is the
slowest for its size since most of its properties are temporal. Each takes one to
three minutes.

The runs set `CHECK_DEADLOCK FALSE`: a turn, a request or a session is over at
some time, and a gateway may keep silent for ever.

### Fairness

Assumed: awaits of queries settle (the driver has time limits), an armed timer
fires, code that can run does, and a row that was inserted is committed and
published unless the process stops or the answer of the insert is lost. A request of the page to the server ends
(`Finish` or `Fail`, `Uploaded` or `UploadFails`); audio that plays ends, and the
browser tells the end of an utterance it has begun, or the page's own
watchdog gives it up. Not assumed: anything of the gateway, of a child process, of
`executeTask`, of the user or of a network. `ConnectSettles`, `WatchedTurnEnds`,
`StartSettles`, `ConsultEnds` and `CallsSettle` hold because of the code's own timers.
`Delivered` says something only of a connection that lasts and of the rows it owes
(`Owing`), `Reconnects` of a page
that lost its own; `Mirrored` needs that links do not fail for ever, which the bound on
faults says. `NativeVoice` and the modules
about rows have no liveness: what they wait for is a system or a database.

### What the violated runs say

- `NeverRecycledMidRequest`: a turn aborted before it got its client calls
  `releaseHeldClient()` without having held it. The hold it takes away belongs
  to another turn, whose connection may then be recycled. `RecycleSparesHeld` is
  what remains true.
- `DisconnectedTurnEnds`: after the browser has cancelled the stream, `enqueue`
  throws out of the chat handler and out of the recovery in `finishStream`: the
  turn the comment wants to keep alive is left unfinished, with its client held.
- `MissedAfterCursor`: a connection reads each published event again on its own, so
  of two live events the later may be sent first; it moves the page's cursor past
  the one that is still to come, and when the connection ends there no other asks
  for it.
- `MicReleased`: a microphone granted before the provider is ready is in no
  field that `cleanupLocal` knows, and stays on when the start fails.
- `NothingLeaks`: a message with files is sent in one channel and the user goes to
  another while they are uploaded; what is left of the sending makes its own channel
  the current one (`page.tsx:3910`), and the list on the screen is filled with that
  channel's messages.
- `SignUpJoins`: signing up marks the invitation accepted, so that the acceptance
  that follows is refused; the page goes to the dashboard all the same.

### Observed while modelling

What follows is what the code does and the models say, without a sentence of
the repository that denies it. Properties hold around these with a named
exception.

- Pool: two requests that miss it together leave two connections.
- Chat turn: an insert of the answer that is repeated after its answer was lost
  stores it twice; a query that throws after the insert leaves an answer that is
  stored and never notified.
- Chat page: a history reloaded in one channel replaces the list of another
  (`page.tsx:2241`).
- Chat turn: the run id is not consulted when the session matches, so that two
  turns of one session receive each other's final events; a turn deferred after
  its polls are used up is not polled any more.
- Chat page: text typed in one channel goes to another when its turn takes it
  from the queue; a turn that ends clears the controller and run id of whichever
  is current (`page.tsx:4342`), a stop aborts whichever is current (4671); a stop
  word or a failed upload from the queue leaves the rest of it waiting; selecting
  the channel that is shown blanks its list and `loading` may stay set.
- Speech: a `play()` rejected late revokes what the element plays by then, as does a
  filler request that fails late; a stop during a fetch does not stop what is
  fetched; the fast start speaks after a stop.
- iOS shell: a transcript is sent to the chat by the plugin and once more by the
  page that is told of it, and by the session current when it arrives; the end of
  a stopped utterance rejects the call of the next; stopAudio overtakes a
  playAudio that is on the capture queue; a page that is left during a start
  leaves a session nobody stops; `ensure-ios-voice-session.mjs` carries an older
  copy of the plugin.
- Local agents: `child.killed` is true once SIGTERM was sent, so that SIGKILL never
  follows and a child that ignores SIGTERM stays, in no map; its late close event
  then speaks of the next child; two starts at once leave a child the shutdown
  does not find; restart may stop an agent for which it then has no adapter.
- Skills: deleting a skill that two agents of a runtime have leaves its entry at
  the gateway; disabling it for one agent disables it for all.
- Governance: a decision may replace a decision; a rollback writes a version and
  never the agent.
- Realtime voice: when the audio graph cannot be built the microphone stays on and
  the button still starts; the next recording overwrites the reference to it. A
  session that is not of the relay transport is not stopped at the gateway.
- Sync: a row whose insert lost its answer is not published and only a replay
  delivers it; after a change of company the cursor of the other one is kept.
- Find-or-create: conflicts are recognised by the text of an error, which a newer
  driver wraps (`src/src/app/api/agents/route.ts:31` reads the cause).

## Proofs

The theorems hold for every value of the constants under the named assumptions
of each module, which say little more than that a null reference is no object
and that bounds are numbers. Every safety property of a passing run, invariant or
action property, is a theorem; a conjunction is proved from the theorems of its
parts. Each component has one inductive invariant, checked first with TLC on
small instances; a lemma per action, or per kind of action, shows that it is
kept.

- `Clients_proofs`, the pool: a client is unknown before it is dialled and private
  to its dialler until handed out; only then is the number of its holders its hold
  count. Counting needs the cardinality of a set that changes by one element.
- `Clients_proofs`, the clients: `resetTransportForRetry` empties the pending map
  without rejecting anything, which is harmless because no call is pending while
  `connect()` is under way (`QuietConnect`, `ClientInv`). `ImplementsChannel` maps every
  step to a step of `RpcChannel` or a stutter. `ConsultInv` says which timers and
  askers go with which step; `CopyInv` what a refresh under way has still to see.
- `ChatTurn_proofs`: what the executions of `finishStream` share is claimed
  between awaits. `persisted` is set before the insert is awaited, so that one
  execution inserts and what it repeats is the same message; the row is
  updated before `done`, the outcome is told in the step that sets `done`. All
  other steps are quiet for these facts, and one lemma settles them together.
  `PollInv` adds which of poll timer, poll and execution a deferred turn waits for.
- `ChatPage_proofs`: `EntryInv` says where entries of a message may be at each
  stage, `CalmInv` that without the named exceptions at most one turn is under way
  and belongs to the refs, `ScreenInv` which reloads may still replace the list.
- `Realtime_proofs`, events: the timer and a connection exclude each other
  (`SyncAlone`), hence one connection; a row stored before the subscription is in
  the replay, one stored later is published or in `missed`, hence nothing between,
  whatever the order of commits (`StreamCovers` is inductive with it).
- `Realtime_proofs`, voice sessions: `SessionInv` ties the fields of one session
  together. `Reachable` is about all sessions: it needs that without a second press
  at most one activation is under way, none while the button stops, and that
  whatever is open belongs to one of the two.
- `SpeechQueue_proofs`: the state is one record that functions transform, so each
  helper gets a lemma: what it keeps (`Keeps`), that it begins no sound (`Quietly`),
  or which sentence it begins (`Begins`). `SpeechInv` then joins three facts about
  the record: each URL is held once (`Urls`), one sentence sounds and the loop knows
  of it (`Tuned`), and what waits comes after what is under way and after what has
  sounded (`Ordered`). The last holds also when a sentence was left to itself, the
  second does not, which is why `cut` guards it and not the queue.
- `NativeVoice_proofs`: page and plugin know of each other by the jobs on two
  queues, so `NativeInv` is about these. An activation has one block on the queue it
  waits for (`PressInv`); a call nobody was told about is on a queue, once, or is a
  player's (`CallInv`); the last job about the microphone says what the page shows
  (`MuteInv`); the task of a transcription begins after the ends of earlier ones
  (`TaskInv`); and, unless activations overlapped (`loose`), every stop is in front of
  every start, and the page's three fields follow the plugin's one (`SessionInv`). No
  induction over the queues is needed: a job is added to the end or the first is
  taken, and two lemmas (`Added`, `Taken`) say what that does to six statements about
  jobs of some kinds. What is not about those kinds changes none (`PlainKeeps`).
- `Records_proofs`: one invariant per module (`CredInv`, `GovInv`, `FocInv`,
  `SkillInv`, `JoinInv`) that ties what a request has read to what the rows say, or
  to the ghost that records the overlap. For the skills, `CalmInv` says how far the
  one call under way has come with the allowlists and the entry, as long as no call
  failed or overlapped with it.
- `AgentRuntime_proofs`: `ViewInv` for the subscriptions, `KnownInv` for children and
  maps outside `twoStarts` and `givenUp`, `TaskInv` for tasks that share an agent.

Only model-checked: liveness (`WatchedTurnEnds`, `AnswerNotified`, `ClientSettles`,
`AcquisitionSettles`, `ConsultEnds`, `Mirrored`, `CallsEnd`, `StartSettles`,
`SyncSettles`, `QueueServed`, `QueueDrains`), because fairness and `ENABLED` are beyond
the prover. No module needs recursion; a recursive operator, or induction over
data, would stay with TLC.

## Not modelled

The map covers about seven per cent of the implementation's lines. That is not
a matter of effort alone: of the rest, most is markup, forms, styles, schemas,
normalisation of other systems' data, and routes that run one query per
request. A model of such a route restates it, and no order of events can make
it wrong.

- *Active runs and execution events*: the store is written and not read; the
  rest are functions of one event.
- *Heartbeat engine, budgets*: what would race (claiming due schedules,
  resetting budgets) has no caller.
- *Escalation, collaboration policy, access*: decisions over rows, without
  state; they have table tests.
- *Blueprint provisioning, runtime providers, mobile push*: one request after
  another, translation of data, best effort.
- *Chat content, work items, database schema*: one query per request.
- *Command line, hooks, desktop*: programs that install, start or embed the
  application.
- *User interface*: what shows answers; what keeps state is modelled above.

Within the modelled components: the JSON mode and the tools of a chat turn,
mentions and threads of the page, playback and barge-in of realtime voice, the
catch-up by timestamp, the cipher and the shared token of a runtime, and files
below the server's own directories.

## What is left

1. `ChatTurn` over an abstract pool that `GatewayPool` implements, so that the hold of
   the one is the hold of the other, and two turns of one session, whose shared
   events no property covers yet.
2. A change of company in `RealtimeSync`, and the transcript of `NativeVoice` joined to
   `ChatPage`, where it is sent twice.
3. The heartbeat engine, when something runs its schedules.
