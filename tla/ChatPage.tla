------------------------------ MODULE ChatPage ------------------------------
(***************************************************************************)
(* The chat page (src/src/app/chat/page.tsx): what the user writes while   *)
(* answers are on their way, turns that are streamed, stopped and          *)
(* interrupted, the store of messages per conversation                     *)
(* (src/src/lib/chat-store.ts) and the switch from one channel to another. *)
(* An action is what the page runs between two awaits.                     *)
(*                                                                         *)
(* A conversation is a channel with one active agent, the workspace's      *)
(* default, so the key of a view is the key of what is sent from it.       *)
(* Mentions of other agents, threads, speech and the wording of messages   *)
(* are left out.  The list on the screen is only the conversation it is    *)
(* of.  The route behind the page is ChatTurn; here it stores what it is   *)
(* sent and answers at some time.                                          *)
(***************************************************************************)
EXTENDS Naturals, Sequences, FiniteSets

CONSTANTS
  Conversations, \* the channels
  First,         \* the one the page was opened with
  Messages,      \* what the user writes, in this order; a message names its turn
  Texts,         \* what a message says, since the store compares texts
  Nothing,       \* null: no controller, no run id, no conversation
  Background     \* bound: whether the page goes to the background

ASSUME PageAssumption ==
  /\ Nothing \notin Messages \cup Conversations
  /\ First \in Conversations /\ Background \in BOOLEAN
  /\ Messages \subseteq Nat

VARIABLES
  view,        \* activeStoreKey, as rendered
  ref,         \* activeStoreKeyRef
  listOf,      \* the conversation whose messages the list on the screen holds
  text,        \* what each message says
  stage,       \* where each message is
  dest,        \* requestStoreKey of its turn
  written,     \* ghost: the conversation it was written in
  queue,       \* queuedMainMessagesRef
  loading,     \* isLoadingRef and isLoading
  requestKey,  \* activeMainRequestStoreKeyRef
  controller,  \* abortControllerRef: the turn that abort() ends
  runRef,      \* activeChatRunIdRef
  stops,       \* stopActiveRun calls whose request is on its way
  heard,       \* the rows the stream of a turn has named
  saved,       \* the messages that have a row at the server
  store,       \* messagesByAgent
  reloads,     \* refreshSessionPreview calls on their way
  strayed,     \* ghost: the user left a conversation with work under way,
  uprooted,    \* ghost: more than turns under way, or one broke off in the background
  swallowed    \* ghost: a message of the queue ended without a turn

turnVars == <<text, stage, dest, queue, loading, requestKey, controller, runRef>>
listVars == <<store, listOf>>
ghostVars == <<written, strayed, uprooted, swallowed>>
pageVars == <<view, ref, turnVars, stops, heard, saved, listVars, reloads, ghostVars>>

\* "due": taken from the queue, its timer of 0 ms runs.  "creating": a /task.
\* "local": shown and not sent.
Stages == {"unwritten", "queued", "due", "uploading", "creating", "streaming",
           "answered", "cancelled", "failed", "local", "created", "unsent"}
\* The user writes one message after the other.
IsNext(m) == stage[m] = "unwritten" /\ \A n \in Messages : n < m => stage[n] # "unwritten"
UnderWay(m) == stage[m] \in {"due", "uploading", "creating", "streaming"}

\* An entry of the store: "typed" is the optimistic one, "user" and "answer" have
\* the ids of rows.
Entry == [kind : {"typed", "user", "answer"}, msg : Messages]
E(k, m) == [kind |-> k, msg |-> m]
SameText(d, e) ==
  IF "answer" \in {d.kind, e.kind} THEN d = e ELSE text[d.msg] = text[e.msg]

PageTypeOK ==
  /\ {view, ref, listOf} \subseteq Conversations
  /\ text \in [Messages -> Texts]
  /\ stage \in [Messages -> Stages]
  /\ dest \in [Messages -> Conversations \cup {Nothing}]
  /\ written \in [Messages -> Conversations \cup {Nothing}]
  /\ queue \in Seq(Messages)
  /\ {loading, strayed, uprooted, swallowed} \subseteq BOOLEAN
  /\ requestKey \in Conversations \cup {Nothing}
  /\ {controller, runRef} \subseteq Messages \cup {Nothing}
  /\ stops \subseteq Messages
  /\ heard \in [Messages -> SUBSET {"run", "user"}]
  /\ saved \subseteq Messages
  /\ store \in [Conversations -> SUBSET Entry]
  /\ reloads \subseteq Conversations

PageInit ==
  /\ view = First /\ ref = First /\ listOf = First
  /\ text \in [Messages -> Texts]
  /\ stage = [m \in Messages |-> "unwritten"]
  /\ dest = [m \in Messages |-> Nothing]
  /\ written = [m \in Messages |-> Nothing]
  /\ queue = <<>>
  /\ loading = FALSE
  /\ requestKey = Nothing /\ controller = Nothing /\ runRef = Nothing
  /\ stops = {} /\ saved = {} /\ reloads = {}
  /\ heard = [m \in Messages |-> {}]
  /\ store = [c \in Conversations |-> {}]
  /\ strayed = FALSE /\ uprooted = FALSE /\ swallowed = FALSE

-----------------------------------------------------------------------------
(* The store and the list on the screen.                                   *)

\* Mutation: nothing is done if the row is there.
ReplaceUnlessThere(S, m) ==
  IF E("typed", m) \in S /\ E("user", m) \notin S
  THEN {e \in S : ~SameText(e, E("typed", m))} \cup {E("user", m)}
  ELSE S

\* Mutation: every optimistic entry goes.
ReplaceAllTyped(S, m) ==
  IF E("typed", m) \in S THEN {e \in S : e.kind # "typed"} \cup {E("user", m)} ELSE S

\* replaceOptimisticMessage: the optimistic entry becomes the row, and every
\* other entry that says the same goes.
ReplaceOptimistic(S, m) ==
  IF E("typed", m) \in S
  THEN {e \in S : ~SameText(e, E("typed", m))} \cup {E("user", m)}
  ELSE S

\* The conversation c of the store becomes S, with conversation k current: the
\* subscription makes the list that of k, unless it is as long and ends alike.
StoreBecomes(c, S, k) ==
  /\ store' = [store EXCEPT ![c] = S]
  /\ listOf' \in IF S = store[c] THEN {listOf} ELSE {listOf, k}

-----------------------------------------------------------------------------
(* Sending.                                                                *)

\* Mutation: the next message goes where the user is now.
NextQueuedToView(m, end) ==
  IF queue = <<>>
  THEN stage' = [stage EXCEPT ![m] = end] /\ UNCHANGED <<queue, dest>>
  ELSE /\ stage' = [stage EXCEPT ![m] = end, ![Head(queue)] = "due"]
       /\ dest' = [dest EXCEPT ![Head(queue)] = CHOOSE c \in Conversations : c # dest[m]]
       /\ queue' = Tail(queue)

\* Mutation: the queue waits for the user.
NextQueuedNever(m, end) == stage' = [stage EXCEPT ![m] = end] /\ UNCHANGED <<queue, dest>>

\* m ends, and the first message of the queue is sent by the same closure after
\* a timer of 0 ms: to the conversation of m.
NextQueued(m, end) ==
  IF queue = <<>>
  THEN stage' = [stage EXCEPT ![m] = end] /\ UNCHANGED <<queue, dest>>
  ELSE /\ stage' = [stage EXCEPT ![m] = end, ![Head(queue)] = "due"]
       /\ dest' = [dest EXCEPT ![Head(queue)] = dest[m]]
       /\ queue' = Tail(queue)

\* Mutation: loading ends with no turn.
SettleStillLoading(m, end) ==
  /\ controller' = Nothing /\ runRef' = Nothing
  /\ requestKey' = IF requestKey = dest[m] THEN Nothing ELSE requestKey
  /\ loading' = loading
  /\ NextQueued(m, end)

\* What follows the try and catch of a turn.
Settle(m, end) ==
  /\ controller' = Nothing /\ runRef' = Nothing
  /\ requestKey' = IF requestKey = dest[m] THEN Nothing ELSE requestKey
  /\ loading' = IF ref = dest[m] THEN FALSE ELSE loading
  /\ NextQueued(m, end)

\* The part of sendMessage that starts a turn in conversation c.
Opens(m, c) ==
  /\ ref' = c
  /\ stage' = [stage EXCEPT ![m] = "streaming"]
  /\ dest' = [dest EXCEPT ![m] = c]
  /\ loading' = TRUE /\ requestKey' = c /\ controller' = m /\ runRef' = Nothing
  /\ StoreBecomes(c, store[c] \cup {E("typed", m)}, c)
  /\ UNCHANGED <<text, queue, view, stops, heard, saved, reloads, strayed, uprooted>>

\* A stop word, or a message to an agent that a stop word has paused: it stays on
\* the screen.
StaysLocal(m) ==
  /\ stage' = [stage EXCEPT ![m] = "local"]
  /\ UNCHANGED <<text, view, ref, dest, queue, loading, requestKey, controller, runRef, stops,
                 heard, saved, listVars, reloads, strayed, uprooted>>

\* /task: a POST of its own.
Creates(m, c) ==
  /\ stage' = [stage EXCEPT ![m] = "creating"]
  /\ dest' = [dest EXCEPT ![m] = c]
  /\ loading' = TRUE
  /\ UNCHANGED <<text, view, ref, queue, requestKey, controller, runRef, stops, heard, saved,
                 listVars, reloads, strayed, uprooted>>

\* With files: they are uploaded first, before anything says that the page is busy.
Uploads(m, c) ==
  /\ stage' = [stage EXCEPT ![m] = "uploading"]
  /\ dest' = [dest EXCEPT ![m] = c]
  /\ UNCHANGED <<text, view, ref, queue, loading, requestKey, controller, runRef, stops, heard,
                 saved, listVars, reloads, strayed, uprooted>>

\* sendMessage for the composer, with nothing on its way.
Send(m) ==
  /\ IsNext(m) /\ ~loading
  /\ written' = [written EXCEPT ![m] = view]
  /\ StaysLocal(m) \/ Creates(m, view) \/ Uploads(m, view) \/ Opens(m, view)
  /\ UNCHANGED swallowed

\* enqueueMainMessage.
Enqueue(m) ==
  /\ IsNext(m) /\ loading
  /\ stage' = [stage EXCEPT ![m] = "queued"]
  /\ written' = [written EXCEPT ![m] = view]
  /\ queue' = Append(queue, m)
  /\ UNCHANGED <<text, view, ref, dest, loading, requestKey, controller, runRef, stops, heard,
                 saved, listVars, reloads, strayed, uprooted, swallowed>>

\* The timer of a queued message.
SendQueued(m) ==
  /\ stage[m] = "due"
  /\ \/ StaysLocal(m) /\ swallowed' = TRUE
     \/ /\ Creates(m, dest[m]) \/ Uploads(m, dest[m]) \/ Opens(m, dest[m])
        /\ UNCHANGED swallowed
  /\ UNCHANGED written

Uploaded(m) ==
  /\ stage[m] = "uploading"
  /\ Opens(m, dest[m])
  /\ UNCHANGED <<written, swallowed>>

\* sendMessage returns, and does not look at the queue.  The files of the composer
\* come back to it: sending them again is another message.
UploadFails(m) ==
  /\ stage[m] = "uploading"
  /\ stage' = [stage EXCEPT ![m] = "unsent"]
  /\ swallowed' = TRUE
  /\ UNCHANGED <<text, view, ref, dest, queue, loading, requestKey, controller, runRef, stops,
                 heard, saved, listVars, reloads, written, strayed, uprooted>>

\* The answer of /api/tasks, good or bad.
Created(m) ==
  /\ stage[m] = "creating"
  /\ loading' = FALSE
  /\ NextQueued(m, "created")
  /\ UNCHANGED <<text, view, ref, requestKey, controller, runRef, stops, heard, saved, listVars,
                 reloads, ghostVars>>

-----------------------------------------------------------------------------
(* The stream of a turn.                                                   *)

\* The row of the run is known.
HearRun(m) ==
  /\ stage[m] = "streaming" /\ "run" \notin heard[m]
  /\ heard' = [heard EXCEPT ![m] = @ \cup {"run"}]
  /\ runRef' = m
  /\ UNCHANGED <<text, view, ref, stage, dest, queue, loading, requestKey, controller, stops,
                 saved, listVars, reloads, ghostVars>>

\* The row of the user's message is known.
HearUser(m) ==
  /\ stage[m] = "streaming" /\ "user" \notin heard[m] /\ m \in saved
  /\ heard' = [heard EXCEPT ![m] = @ \cup {"user"}]
  /\ StoreBecomes(dest[m], ReplaceOptimistic(store[dest[m]], m), ref)
  /\ UNCHANGED <<view, ref, turnVars, stops, saved, reloads, ghostVars>>

\* Mutation: the answer goes to the conversation on the screen.
AnswerInto(m) == ref

\* The conversation whose store takes the answer.
AnswerTo(m) == dest[m]

\* The stream ends; an answer, if there is one, is stored under the id of its row.
Finish(m) ==
  /\ stage[m] = "streaming"
  /\ \/ UNCHANGED listVars
     \/ /\ m \in saved
        /\ StoreBecomes(AnswerTo(m), store[AnswerTo(m)] \cup {E("answer", m)}, ref)
  /\ Settle(m, "answered")
  /\ UNCHANGED <<text, view, ref, stops, heard, saved, reloads, ghostVars>>

\* The connection breaks.  If the page was in the background during the turn, it
\* reloads the history; what it keeps of the visibility is left out.
Fail(m) ==
  /\ stage[m] = "streaming"
  /\ Settle(m, "failed")
  /\ \/ UNCHANGED <<reloads, uprooted>>
     \/ /\ Background
        /\ reloads' = reloads \cup {dest[m]}
        /\ uprooted' = (uprooted \/ ref # dest[m])
  /\ UNCHANGED <<text, view, ref, stops, heard, saved, listVars, written, strayed, swallowed>>

\* controller.abort() and the catch that follows at once.
Aborts(m) ==
  /\ stage[m] = "streaming"
  /\ Settle(m, "cancelled")
  /\ UNCHANGED <<text, listVars, reloads>>

Escape ==
  /\ loading /\ controller # Nothing
  /\ Aborts(controller)
  /\ UNCHANGED <<view, ref, stops, heard, saved, ghostVars>>

\* Mutation: the request is made without a run to name.
PressStopUnknown ==
  /\ loading
  /\ stops' = stops \cup {runRef}
  /\ UNCHANGED <<turnVars, listVars, reloads, view, ref, heard, saved, ghostVars>>

\* stopActiveRun: the request first, if the run is known.
PressStop ==
  /\ loading
  /\ \/ runRef = Nothing /\ controller # Nothing /\ Aborts(controller) /\ UNCHANGED stops
     \/ /\ runRef # Nothing
        /\ stops' = stops \cup {runRef}
        /\ UNCHANGED <<turnVars, listVars, reloads>>
  /\ UNCHANGED <<view, ref, heard, saved, ghostVars>>

\* finally(abortLocalStream): of whatever turn is the current one by now.
StopReturns(m) ==
  /\ m \in stops
  /\ stops' = stops \ {m}
  /\ \/ controller # Nothing /\ Aborts(controller)
     \/ controller = Nothing /\ UNCHANGED <<turnVars, listVars, reloads>>
  /\ UNCHANGED <<view, ref, heard, saved, ghostVars>>

-----------------------------------------------------------------------------
(* The server, the event stream, the switch of conversation, the background.*)

\* The route stores what it was sent.
Saves(m) ==
  /\ m \notin saved
  /\ stage[m] \in {"streaming", "answered", "cancelled", "failed"}
  /\ saved' = saved \cup {m}
  /\ UNCHANGED <<view, ref, turnVars, stops, heard, listVars, reloads, ghostVars>>

\* The row reaches the store by the event stream or a history of the conversation;
\* a row of an answer does as well, and is left out here.
Live(m) ==
  /\ m \in saved /\ E("user", m) \notin store[dest[m]]
  /\ StoreBecomes(dest[m], store[dest[m]] \cup {E("user", m)}, ref)
  /\ UNCHANGED <<view, ref, turnVars, stops, heard, saved, reloads, ghostVars>>

\* Mutation: the messages of the conversation that was left stay on the screen.
SelectChannelKeepsList(c) ==
  /\ view' = c /\ ref' = c /\ listOf' = listOf
  /\ loading' = (loading /\ (c = view \/ requestKey \in {Nothing, c}))
  /\ strayed' = (strayed \/ queue # <<>> \/ \E m \in Messages : UnderWay(m))
  /\ uprooted' = (uprooted \/ queue # <<>> \/ reloads # {}
                    \/ \E m \in Messages : stage[m] \in {"due", "uploading"})
  /\ UNCHANGED <<text, stage, dest, queue, requestKey, controller, runRef, stops, heard, saved,
                 store, reloads, written, swallowed>>

\* selectChannel, and the effects of a new activeStoreKey: they load its messages
\* and its progress and end the loading.  For the same channel no effect runs.
SelectChannel(c) ==
  /\ view' = c /\ ref' = c /\ listOf' = c
  /\ loading' = (loading /\ (c = view \/ requestKey \in {Nothing, c}))
  /\ strayed' = (strayed \/ queue # <<>> \/ \E m \in Messages : UnderWay(m))
  /\ uprooted' = (uprooted \/ queue # <<>> \/ reloads # {}
                    \/ \E m \in Messages : stage[m] \in {"due", "uploading"})
  /\ UNCHANGED <<text, stage, dest, queue, requestKey, controller, runRef, stops, heard, saved,
                 store, reloads, written, swallowed>>

\* The page is back from the background, not busy, and something was interrupted.
Recover ==
  /\ Background /\ ~loading
  /\ reloads' = reloads \cup {view}
  /\ UNCHANGED <<view, ref, turnVars, stops, heard, saved, listVars, ghostVars>>

\* refreshSessionPreview: the list becomes the conversation it loaded, whichever
\* is on the screen.
Reloaded(c) ==
  /\ c \in reloads
  /\ reloads' = reloads \ {c}
  /\ store' = [store EXCEPT ![c] = @ \cup {E("user", m) : m \in {n \in saved : dest[n] = c}}]
  /\ listOf' = c
  /\ UNCHANGED <<view, ref, turnVars, stops, heard, saved, ghostVars>>

ReloadFails(c) ==
  /\ c \in reloads
  /\ reloads' = reloads \ {c}
  /\ UNCHANGED <<view, ref, turnVars, stops, heard, saved, listVars, ghostVars>>

-----------------------------------------------------------------------------
PageNext ==
  \/ \E m \in Messages :
       \/ Send(m) \/ Enqueue(m) \/ SendQueued(m)
       \/ Uploaded(m) \/ UploadFails(m) \/ Created(m)
       \/ HearRun(m) \/ HearUser(m) \/ Finish(m) \/ Fail(m)
       \/ StopReturns(m) \/ Saves(m) \/ Live(m)
  \/ Escape \/ PressStop \/ Recover
  \/ \E c \in Conversations : SelectChannel(c) \/ Reloaded(c) \/ ReloadFails(c)

PageSpec == PageInit /\ [][PageNext]_pageVars

\* Timers fire, uploads and task creations return, and the route ends its stream
\* (ChatTurn): the user is under no obligation.
PageFairness ==
  \A m \in Messages :
    /\ WF_pageVars(SendQueued(m))
    /\ WF_pageVars(Uploaded(m) \/ UploadFails(m))
    /\ WF_pageVars(Created(m))
    /\ WF_pageVars(Finish(m) \/ Fail(m))

-----------------------------------------------------------------------------
(* Properties.                                                             *)

\* The store of a conversation holds nothing of another one, whatever the user
\* does while turns, events and histories arrive.
StoreApart == \A c \in Conversations : \A e \in store[c] : dest[e.msg] = c

\* Once the server's row of a message is known, its optimistic entry is gone from
\* the store, also when the event stream brought the row first.
ConfirmedOnce ==
  \A m \in Messages : "user" \in heard[m] => E("typed", m) \notin store[dest[m]]

\* What a conversation says stays in its store: an entry only leaves it while
\* another one that says the same remains.
TextStays ==
  [][\A c \in Conversations : \A e \in store[c] :
       \E d \in store'[c] : SameText(d, e)]_pageVars

Misdirected == \E m \in Messages : dest[m] \notin {Nothing, written[m]}

\* Unless the user left a conversation with work under way, a message is sent to
\* the conversation it was written in.
SentWhereWritten == strayed \/ ~Misdirected

\* The list on the screen is of the conversation on the screen, also while turns of
\* other conversations go on; unless the user left one with messages waiting, files
\* on their way or a history being reloaded, or with a turn that breaks off while the
\* page is in the background, or a message went to another conversation.
ListIsOfView == uprooted \/ Misdirected \/ listOf = view

\* Unless the user left a conversation with work under way, the page is only
\* busy while a turn or a task creation goes on.
BusyIsTrue ==
  ~strayed /\ loading => \E m \in Messages : stage[m] \in {"streaming", "creating"}

\* A queue is always somebody's to continue, unless one of its messages ended
\* without a turn (a stop word, an upload that failed).
QueueHasOwner ==
  ~strayed /\ ~swallowed /\ queue # <<>> => \E m \in Messages : UnderWay(m)

\* A queued message is sent in the end, with the same exceptions.
QueueServed ==
  \A m \in Messages : (stage[m] = "queued") ~> (stage[m] # "queued" \/ strayed \/ swallowed)

\* The list on the screen is of the conversation on the screen.
NothingLeaks == listOf = view

\* Conversations do not mix, neither in the store nor on the screen.
ViewsApart == PageTypeOK /\ StoreApart /\ ListIsOfView

\* A message is where it was written, and there once.
SentOnce == ConfirmedOnce /\ SentWhereWritten

\* Whatever waits or is shown as busy has work under way that ends it.
WorkOwned == BusyIsTrue /\ QueueHasOwner
=============================================================================
