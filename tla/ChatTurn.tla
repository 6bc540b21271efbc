------------------------------ MODULE ChatTurn -------------------------------
(***************************************************************************)
(* One chat turn of POST /api/chat, src/src/app/api/chat/route.ts: the     *)
(* server sends the user's message to the gateway, streams what the agent  *)
(* answers to the browser, and at the end saves the answer, records the    *)
(* outcome of the run, notifies the user's phone and releases the gateway  *)
(* client. The end can be reached from six places (the gateway's final,    *)
(* aborted and error events, the history poll, the inactivity timer and    *)
(* the abort endpoint), and finishStream awaits four times before it sets  *)
(* its "done" flag, so several of its executions run side by side.         *)
(*                                                                         *)
(* An action is the code between two awaits.                               *)
(***************************************************************************)
EXTENDS Naturals, FiniteSets, Sequences

CONSTANTS
  Faults,        \* what may go wrong, a subset of AllFaults
  Finishers,     \* bound: executions of finishStream that may run side by side
  MaxPolls,      \* ACTIVE_HISTORY_POLL_MAX_ATTEMPTS, 80 in the code
  Retries,       \* retries of withRetry, 2 in the code
  MaxEvents      \* bound: chat events the gateway sends for this session

AllFaults == {"disconnect", "drop", "acquire", "send", "abort", "history", "db"}

ASSUME FaultsAssumption == Faults \subseteq AllFaults
ASSUME BoundsAssumption == MaxPolls \in Nat /\ MaxEvents \in Nat
ASSUME RetriesAssumption == Retries \in Nat

VARIABLES
  start,     \* where startGatewayTurn is
  hold,      \* "none": client is null; "held"; "released"
  done,      \* done
  cancelled, \* cancelled: the abort endpoint was called
  open,      \* FALSE once the browser has cancelled the stream
  last,      \* lastStreamedText
  full,      \* fullAssistantText
  fromPoll,  \* historySnapshotStreamed
  tool,      \* hasToolActivity
  deferred,  \* deferredToolCompletion
  delivered, \* deliveredSourceReplyText
  armed,     \* the inactivity timer is running
  poll,      \* a history poll is scheduled
  polling,   \* "no", "reading" or "finishing": pollActiveHistory in flight
  polls,     \* historyPollAttempts
  aborting,  \* the abort endpoint: "no", "waiting" for chat.abort, "over"
  finisher,  \* the executions of finishStream
  persisted, \* assistantPersisted
  saved,     \* the assistant messages in the database
  messageId, \* assistantMessageId is set: persistAndPublish has returned
  status,    \* status column of the chat_runs row
  pushed,    \* number of completion notifications sent
  verdicts,  \* the run_completed, run_aborted and run_error progress events sent
  connected, \* the gateway client's connection is up
  history,   \* what the gateway's transcript would let the server recover
  events,    \* chat events the gateway has sent
  finalSeen, \* ghost: a final event of the gateway was handled
  lost,      \* ghost: inserts of the message that committed and yet failed
  unrecorded \* ghost: an update of the chat_runs row failed for good

vars == <<start, hold, done, cancelled, open, last, full, fromPoll, tool, deferred,
          delivered, armed, poll, polling, polls, aborting, finisher, persisted, saved,
          messageId, status, pushed, verdicts, connected, history, events, finalSeen,
          lost, unrecorded>>

text == <<last, full>>
flags == <<fromPoll, tool, deferred, delivered>>
timers == <<armed, poll>>
message == <<persisted, saved, messageId, lost>>
records == <<message, status, pushed, done, unrecorded>>
results == <<records, verdicts>>
world == <<connected, history, events, finalSeen, open>>

-----------------------------------------------------------------------------
(* Texts: nothing, a completion placeholder such as "Done.", the beginning *)
(* of the answer, the answer, or an error report.                          *)

Texts == {"", "placeholder", "part", "answer", "error"}

\* startsWith
Extends(t, prefix) == prefix = "" \/ t = prefix \/ (prefix = "part" /\ t = "answer")

Kinds == {"complete", "abort", "fail"}   \* how finishStream was called
StatusOf(kind) == CASE kind = "complete" -> "completed"
                    [] kind = "abort"    -> "aborted"
                    [] kind = "fail"     -> "failed"

Idle == [pc |-> "free", kind |-> "abort", ask |-> FALSE, text |-> "", polled |-> FALSE,
         left |-> Retries]

\* left: how often withRetry may yet repeat the query that is in flight.
Executions == [pc : {"free", "recover", "save", "publish", "record", "notify", "close"},
               kind : Kinds, ask : BOOLEAN, text : Texts, polled : BOOLEAN,
               left : 0 .. Retries]

TypeOK ==
  /\ start \in {"idle", "acquiring", "sending", "sent", "over"}
  /\ hold \in {"none", "held", "released"}
  /\ {done, cancelled, open, fromPoll, tool, deferred, armed, poll, persisted,
      messageId, connected, finalSeen, unrecorded} \subseteq BOOLEAN
  /\ {last, full, delivered, history} \subseteq Texts
  /\ polling \in {"no", "reading", "finishing"}
  /\ polls \in 0 .. MaxPolls
  /\ aborting \in {"no", "waiting", "over"}
  /\ finisher \in [Finishers -> Executions]
  /\ saved \in Seq([text : Texts, interrupted : BOOLEAN])
  /\ status \in {"running", "completed", "aborted", "failed"}
  /\ pushed \in Nat /\ lost \in Nat
  /\ verdicts \in Seq({"run_completed", "run_aborted", "run_error"})
  /\ events \in 0 .. MaxEvents

Init ==
  /\ start = "idle" /\ hold = "none"
  /\ done = FALSE /\ cancelled = FALSE /\ open = TRUE
  /\ last = "" /\ full = "" /\ delivered = ""
  /\ fromPoll = FALSE /\ tool = FALSE /\ deferred = FALSE
  /\ armed = FALSE /\ poll = FALSE /\ polling = "no" /\ polls = 0
  /\ aborting = "no"
  /\ finisher = [f \in Finishers |-> Idle]
  /\ persisted = FALSE /\ saved = <<>> /\ messageId = FALSE /\ lost = 0
  /\ status = "running" /\ pushed = 0 /\ verdicts = <<>>
  /\ connected = TRUE /\ history = "" /\ events = 0
  /\ finalSeen = FALSE /\ unrecorded = FALSE

-----------------------------------------------------------------------------
(* streamAssistantSnapshot(t). It assigns both texts and then enqueues the *)
(* new content, which throws when the browser has cancelled the stream.    *)

Accepts(t) == ~done /\ t # "" /\ Extends(t, last)
Fresh(t) == Accepts(t) /\ t # last
Throws(t) == Fresh(t) /\ ~open
Snapshot(t) == /\ full' = IF Accepts(t) THEN t ELSE full
               /\ last' = IF Accepts(t) THEN t ELSE last

\* startHistoryPolling
StartPolling == poll' = (~done /\ ~cancelled)

\* Mutation: the deferred turn waits for the poll that is running already.
DeferWithoutPoll(markTool) == /\ deferred' = TRUE
                              /\ tool' = (tool \/ markTool)
                              /\ armed' = TRUE
                              /\ UNCHANGED poll

\* deferCompletionUntilAssistantText
Defer(markTool) == /\ deferred' = TRUE
                   /\ tool' = (tool \/ markTool)
                   /\ StartPolling
                   /\ armed' = TRUE

\* What chat.history yields: an error counts as nothing.
Recoverable == IF ~connected THEN {""}
               ELSE {history} \cup (IF "history" \in Faults THEN {""} ELSE {})

\* The texts that recoverMissingAssistantText would go and ask the gateway for.
Missing == \/ fromPoll' \/ full' = ""
           \/ tool' /\ full' = "placeholder"

\* finishStream is called: it checks done and awaits the recovery of the text.
\* The caller has constrained fromPoll', full', tool', hold' and polling'.
Begin(kind) ==
  \E f \in Finishers :
    /\ finisher[f].pc = "free"
    /\ finisher' = [finisher EXCEPT
         ![f] = [pc |-> "recover", kind |-> kind, text |-> "",
                 polled |-> polling' = "finishing" /\ polling = "reading",
                 ask |-> hold' # "none" /\ Missing, left |-> Retries]]

-----------------------------------------------------------------------------
(* startGatewayTurn                                                        *)

StartTurn ==
  /\ start = "idle"
  /\ start' = IF cancelled \/ done THEN "over" ELSE "acquiring"
  /\ UNCHANGED <<hold, cancelled, text, flags, timers, polling, polls, aborting,
                 finisher, results, world>>

\* Mutation: the turn is not looked at again once the client is there.
AcquiredUnchecked ==
  /\ start = "acquiring"
  /\ start' = "sending" /\ hold' = "held" /\ armed' = TRUE
  /\ UNCHANGED <<cancelled, text, flags, poll, polling, polls, aborting, finisher,
                 results, world>>

\* Mutation: the inactivity timer waits for the first event to be armed.
AcquiredWithoutTimer ==
  /\ start = "acquiring"
  /\ IF cancelled \/ done THEN start' = "over" /\ hold' = "released"
                         ELSE start' = "sending" /\ hold' = "held"
  /\ UNCHANGED <<cancelled, text, flags, timers, polling, polls, aborting, finisher,
                 results, world>>

Acquired ==
  /\ start = "acquiring"
  /\ IF cancelled \/ done
       THEN /\ start' = "over" /\ hold' = "released"
            /\ UNCHANGED armed
       ELSE /\ start' = "sending" /\ hold' = "held"
            /\ armed' = TRUE
  /\ UNCHANGED <<cancelled, text, flags, poll, polling, polls, aborting, finisher,
                 results, world>>

\* The catch clause of startGatewayTurn.
TurnFails ==
  /\ start' = "over"
  /\ hold' = IF hold = "held" THEN "released" ELSE hold
  /\ UNCHANGED <<cancelled, last, flags, timers, polling, polls, aborting, records, world>>
  /\ IF cancelled \/ done
       THEN UNCHANGED <<full, verdicts, finisher>>
       ELSE full' = "error" /\ verdicts' = Append(verdicts, "run_error") /\ Begin("fail")

AcquireFails == start = "acquiring" /\ "acquire" \in Faults /\ TurnFails

SendFails == start = "sending" /\ ("send" \in Faults \/ ~connected) /\ TurnFails

Sent ==
  /\ start = "sending" /\ connected
  /\ IF cancelled \/ done
       THEN start' = "over" /\ UNCHANGED poll
       ELSE start' = "sent" /\ StartPolling
  /\ UNCHANGED <<hold, cancelled, text, flags, armed, polling, polls, aborting, finisher,
                 results, world>>

-----------------------------------------------------------------------------
(* chatHandler: the events of the gateway for this session. The handler is *)
(* registered while the turn holds the client, and its exceptions are      *)
(* swallowed by GatewayClient.handleMessage.                               *)

Receive ==
  /\ hold = "held" /\ connected /\ ~done
  /\ events < MaxEvents
  /\ events' = events + 1
  /\ UNCHANGED <<start, hold, cancelled, polling, polls, aborting, records,
                 connected, history, open>>

\* A delta carries the text so far.
Delta(t) ==
  /\ Receive
  /\ Snapshot(t)
  /\ armed' = TRUE
  /\ UNCHANGED <<flags, poll, verdicts, finisher, finalSeen>>

\* A tool or activity event, or a final that is not a chat event.
ToolEvent ==
  /\ Receive
  /\ tool' = TRUE /\ armed' = TRUE
  /\ UNCHANGED <<text, fromPoll, deferred, delivered, poll, verdicts, finisher, finalSeen>>

\* A tool event that carries the reply the agent delivered through a tool.
\* Streaming it throws before the timer is re-armed and the tool noted.
SourceReply ==
  /\ Receive
  /\ delivered' = "answer"
  /\ Snapshot("answer")
  /\ fromPoll' = (fromPoll \/ (Fresh("answer") /\ open))
  /\ IF Throws("answer") THEN UNCHANGED <<tool, armed>> ELSE tool' = TRUE /\ armed' = TRUE
  /\ UNCHANGED <<deferred, poll, verdicts, finisher, finalSeen>>

\* A final event with text t; toolOnly if it consists of tool blocks.
Final(t, toolOnly) ==
  LET treat == t = "placeholder" /\ (tool \/ delivered # "")
      finalText == IF treat THEN delivered ELSE t
  IN  /\ Receive
      /\ finalSeen' = TRUE /\ UNCHANGED verdicts
      /\ IF finalText = "" /\ treat
           THEN /\ UNCHANGED <<text, fromPoll, delivered>>
                /\ IF full \notin {"", "placeholder"}
                     THEN /\ armed' = TRUE /\ UNCHANGED <<tool, deferred, poll>>
                          /\ Begin("complete")
                     ELSE Defer(tool) /\ UNCHANGED finisher
           ELSE /\ last' = IF Accepts(finalText) THEN finalText ELSE last
                /\ full' = IF finalText # "" THEN finalText ELSE full
                /\ UNCHANGED <<fromPoll, delivered>>
                /\ IF full' = ""
                     THEN Defer(toolOnly) /\ UNCHANGED finisher
                     ELSE /\ armed' = TRUE /\ UNCHANGED <<tool, deferred, poll>>
                          /\ IF Throws(finalText) THEN UNCHANGED finisher
                                                  ELSE Begin("complete")

Aborted ==
  /\ Receive
  /\ armed' = TRUE
  /\ UNCHANGED <<text, flags, poll, verdicts, finalSeen>>
  /\ Begin("abort")

\* run_error is told to all windows; then the error chunk is enqueued, which
\* throws without a browser, before the turn is finished.
Error ==
  /\ Receive
  /\ armed' = TRUE
  /\ verdicts' = Append(verdicts, "run_error")
  /\ UNCHANGED <<last, flags, poll, finalSeen>>
  /\ IF open THEN full' = "error" /\ Begin("fail")
             ELSE UNCHANGED <<full, finisher>>

GatewayEvent ==
  \/ \E t \in {"part", "answer", "placeholder"} : Delta(t)
  \/ ToolEvent
  \/ SourceReply
  \/ \E t \in {"", "answer", "placeholder"} : Final(t, FALSE)
  \/ Final("", TRUE)
  \/ Aborted
  \/ Error

-----------------------------------------------------------------------------
(* The history poll, the inactivity timer and the abort endpoint.          *)

\* Mutation: the number of attempts is not looked at.
PollFiresUnbounded ==
  /\ poll
  /\ poll' = FALSE
  /\ IF done \/ cancelled \/ polling # "no"
       THEN UNCHANGED <<polling, polls>>
       ELSE polling' = "reading" /\ polls' = polls + 1
  /\ UNCHANGED <<start, hold, cancelled, text, flags, armed, aborting, finisher, results,
                 world>>

PollFires ==
  /\ poll
  /\ IF done \/ cancelled \/ polling # "no" \/ polls >= MaxPolls
       THEN poll' = FALSE /\ UNCHANGED <<polling, polls>>
       ELSE poll' = FALSE /\ polling' = "reading" /\ polls' = polls + 1
  /\ UNCHANGED <<start, hold, cancelled, text, flags, armed, aborting, finisher, results,
                 world>>

\* The finally clause of pollActiveHistory.
Reschedule == /\ polling' = "no"
              /\ poll' = (poll \/ (~done /\ ~cancelled /\ polls < MaxPolls))

\* Mutation: every new text found in the transcript ends the turn.
PollReadsAndFinishes ==
  /\ polling = "reading"
  /\ UNCHANGED <<start, hold, cancelled, polls, aborting, results, world>>
  /\ \E t \in Recoverable :
       /\ Snapshot(t)
       /\ IF Fresh(t) /\ open
            THEN /\ fromPoll' = TRUE /\ armed' = TRUE
                 /\ UNCHANGED <<tool, deferred, delivered, poll>>
                 /\ polling' = "finishing" /\ Begin("complete")
            ELSE Reschedule /\ UNCHANGED <<flags, armed, finisher>>

PollReads ==
  /\ polling = "reading"
  /\ UNCHANGED <<start, hold, cancelled, polls, aborting, results, world>>
  /\ \E t \in Recoverable :
       /\ Snapshot(t)
       /\ IF Fresh(t) /\ open
            THEN /\ fromPoll' = TRUE /\ armed' = TRUE
                 /\ UNCHANGED <<tool, deferred, delivered>>
                 /\ IF deferred
                      THEN polling' = "finishing" /\ UNCHANGED poll /\ Begin("complete")
                      ELSE Reschedule /\ UNCHANGED finisher
            ELSE Reschedule /\ UNCHANGED <<flags, armed, finisher>>

\* The poll that called finishStream resumes when that has returned.
PollFinished ==
  /\ polling = "finishing"
  /\ \A f \in Finishers : ~finisher[f].polled
  /\ Reschedule
  /\ UNCHANGED <<start, hold, cancelled, text, flags, armed, polls, aborting, finisher,
                 results, world>>

\* 300 s without an event.
InactivityFires ==
  /\ armed /\ ~done
  /\ armed' = FALSE
  /\ UNCHANGED <<start, hold, cancelled, text, flags, poll, polling, polls, aborting,
                 results, world>>
  /\ Begin("abort")

\* POST /api/chat/runs/[id]/abort while the turn is registered.
Abort ==
  /\ ~done /\ aborting = "no"
  /\ cancelled' = TRUE
  /\ UNCHANGED <<start, hold, text, flags, timers, polling, polls, results, world>>
  /\ IF hold = "none" THEN aborting' = "over" /\ Begin("abort")
                      ELSE aborting' = "waiting" /\ UNCHANGED finisher

AbortAcknowledged ==
  /\ aborting = "waiting"
  /\ aborting' = "over"
  /\ UNCHANGED <<start, hold, cancelled, text, flags, timers, polling, polls, results, world>>
  /\ IF done THEN UNCHANGED finisher ELSE Begin("abort")

\* chat.abort rejects: the handler of the abort registry rejects with it.
AbortRejected ==
  /\ aborting = "waiting" /\ ("abort" \in Faults \/ ~connected)
  /\ aborting' = "over"
  /\ UNCHANGED <<start, hold, cancelled, text, flags, timers, polling, polls, finisher,
                 results, world>>

\* The same endpoint when the turn is not registered any more.
LateAbort ==
  /\ done /\ aborting = "no"
  /\ aborting' = "over"
  /\ status' = "aborted"
  /\ UNCHANGED <<start, hold, cancelled, text, flags, timers, polling, polls, finisher,
                 message, pushed, verdicts, done, unrecorded, world>>

-----------------------------------------------------------------------------
(* finishStream after each of its awaits.                                  *)

Goto(f, label) ==
  finisher' = [finisher EXCEPT ![f].pc = label, ![f].text = "", ![f].left = Retries]
Leave(f) == finisher' = [finisher EXCEPT ![f] = Idle]

\* withRetry: a query that failed is repeated, if its error is one of the
\* network and attempts are left, or throws, and the execution goes on at label.
QueryFails(f, label) ==
  /\ "db" \in Faults
  /\ \/ /\ finisher[f].left > 0
        /\ finisher' = [finisher EXCEPT ![f].left = @ - 1]
     \/ Goto(f, label)

\* Mutation: assistantPersisted is left to be set when the insert has returned.
ClaimMessageLate(f) ==
  /\ UNCHANGED persisted
  /\ finisher' = [finisher EXCEPT
       ![f].pc = IF saved # <<>> \/ full' = "" THEN "record" ELSE "save",
       ![f].text = full']

\* Mutation: whoever comes second skips the run's row too.
ClaimMessageOrClose(f) ==
  /\ persisted' = TRUE
  /\ finisher' = [finisher EXCEPT
       ![f].pc = IF persisted THEN "close" ELSE IF full' = "" THEN "record" ELSE "save",
       ![f].text = IF persisted THEN "" ELSE full']

\* The synchronous part of persistAssistant.
ClaimMessage(f) ==
  /\ persisted' = TRUE
  /\ finisher' = [finisher EXCEPT
       ![f].pc = IF persisted \/ full' = "" THEN "record" ELSE "save",
       ![f].text = IF persisted THEN "" ELSE full', ![f].ask = FALSE]

Recovered(f) ==
  /\ finisher[f].pc = "recover"
  /\ \E t \in IF finisher[f].ask THEN Recoverable ELSE {""} :
       /\ Snapshot(t)
       /\ IF Throws(t)
            THEN Leave(f) /\ UNCHANGED <<flags, timers, persisted>>
            ELSE IF finisher[f].kind = "complete" /\ tool /\ full' = ""
              THEN Leave(f) /\ Defer(TRUE) /\ UNCHANGED <<fromPoll, delivered, persisted>>
              ELSE /\ armed' = FALSE /\ poll' = FALSE
                   /\ ClaimMessage(f)
                   /\ UNCHANGED flags
  /\ UNCHANGED <<start, hold, cancelled, polling, polls, aborting, saved, messageId, lost,
                 status, pushed, verdicts, done, unrecorded, world>>

\* The message as persistAssistant stores it.
Message(f) == [text |-> finisher[f].text, interrupted |-> finisher[f].kind # "complete"]

\* The insert of persistAndPublish. One that fails may have committed all the
\* same: repeated, it stores the message again; given up, it has stored it.
Saved(f) ==
  /\ finisher[f].pc = "save"
  /\ \/ saved' = Append(saved, Message(f)) /\ Goto(f, "publish") /\ UNCHANGED lost
     \/ /\ QueryFails(f, "record")
        /\ \/ saved' = Append(saved, Message(f)) /\ lost' = lost + 1
           \/ UNCHANGED <<saved, lost>>
  /\ UNCHANGED <<start, hold, cancelled, text, flags, timers, polling, polls, aborting,
                 persisted, messageId, status, pushed, verdicts, done, unrecorded, world>>

\* The rest of persistAndPublish: it touches the session and appends the event,
\* and returns the message, or one of its queries throws.
Published(f) ==
  /\ finisher[f].pc = "publish"
  /\ \/ messageId' = TRUE
     \/ "db" \in Faults /\ UNCHANGED messageId
  /\ Goto(f, "record")
  /\ UNCHANGED <<start, hold, cancelled, text, flags, timers, polling, polls, aborting,
                 persisted, saved, lost, status, pushed, verdicts, done, unrecorded, world>>

\* Mutation: a completed run is notified with or without a stored message.
RecordedAndNotify(f) ==
  /\ finisher[f].pc = "record"
  /\ status' = StatusOf(finisher[f].kind)
  /\ Goto(f, IF finisher[f].kind = "complete" THEN "notify" ELSE "close")
  /\ UNCHANGED <<start, hold, cancelled, text, flags, timers, polling, polls, aborting,
                 message, pushed, verdicts, done, unrecorded, world>>

\* Mutation: no notification while the browser has the stream open.
RecordedOnScreen(f) ==
  /\ finisher[f].pc = "record"
  /\ status' = StatusOf(finisher[f].kind)
  /\ Goto(f, IF finisher[f].kind = "complete" /\ messageId /\ ~open THEN "notify" ELSE "close")
  /\ UNCHANGED <<start, hold, cancelled, text, flags, timers, polling, polls, aborting,
                 message, pushed, verdicts, done, unrecorded, world>>

\* The update of completeChatRun, whatever the row says by now. It too may
\* commit and yet fail; once it has thrown nobody is notified.
Recorded(f) ==
  /\ finisher[f].pc = "record"
  /\ \/ /\ status' = StatusOf(finisher[f].kind)
        /\ Goto(f, IF finisher[f].kind = "complete" /\ messageId /\ full # ""
                     THEN "notify" ELSE "close")
        /\ UNCHANGED unrecorded
     \/ /\ QueryFails(f, "close")
        /\ status' \in {status, StatusOf(finisher[f].kind)}
        /\ unrecorded' = (unrecorded \/ finisher'[f].pc = "close")
  /\ UNCHANGED <<start, hold, cancelled, text, flags, timers, polling, polls, aborting,
                 message, pushed, verdicts, done, world>>

\* sendAgentReplyNotification
Notified(f) ==
  /\ finisher[f].pc = "notify"
  /\ pushed' = pushed + 1
  /\ Goto(f, "close")
  /\ UNCHANGED <<start, hold, cancelled, text, flags, timers, polling, polls, aborting,
                 message, status, verdicts, done, unrecorded, world>>

\* Mutation: the last progress event is sent without a look at done.
ClosedAnyway(f) ==
  /\ finisher[f].pc = "close"
  /\ verdicts' = Append(verdicts, IF finisher[f].kind = "complete" THEN "run_completed"
                                                                  ELSE "run_aborted")
  /\ done' = TRUE
  /\ hold' = IF hold = "held" THEN "released" ELSE hold
  /\ Leave(f)
  /\ UNCHANGED <<start, cancelled, text, flags, timers, polling, polls, aborting,
                 message, status, pushed, unrecorded, world>>

\* The last progress event, done, [DONE], and the clean-up.
Closed(f) ==
  /\ finisher[f].pc = "close"
  /\ verdicts' = IF done \/ finisher[f].kind = "fail" THEN verdicts
                 ELSE Append(verdicts, IF finisher[f].kind = "complete" THEN "run_completed"
                                                                        ELSE "run_aborted")
  /\ done' = TRUE
  /\ hold' = IF hold = "held" THEN "released" ELSE hold
  /\ Leave(f)
  /\ UNCHANGED <<start, cancelled, text, flags, timers, polling, polls, aborting,
                 message, status, pushed, unrecorded, world>>

Finish(f) == Recovered(f) \/ Saved(f) \/ Published(f) \/ Recorded(f) \/ Notified(f) \/ Closed(f)

-----------------------------------------------------------------------------
(* The environment, as long as it matters to the turn.                     *)

\* The browser goes away: a locked phone, a suspended WebView, a closed tab. A
\* stream that the server has closed is not cancelled any more.
Disconnect ==
  /\ "disconnect" \in Faults /\ open /\ ~done
  /\ open' = FALSE
  /\ UNCHANGED <<start, hold, cancelled, text, flags, timers, polling, polls, aborting,
                 finisher, results, connected, history, events, finalSeen>>

\* The gateway's WebSocket closes.
Drop ==
  /\ "drop" \in Faults /\ connected /\ hold # "none" /\ ~done
  /\ connected' = FALSE
  /\ UNCHANGED <<start, hold, cancelled, text, flags, timers, polling, polls, aborting,
                 finisher, results, history, events, finalSeen, open>>

\* The agent's answer reaches the gateway's transcript.
Transcribe ==
  /\ start \in {"sending", "sent"} /\ history = "" /\ ~done
  /\ history' = "answer"
  /\ UNCHANGED <<start, hold, cancelled, text, flags, timers, polling, polls, aborting,
                 finisher, results, connected, events, finalSeen, open>>

Server ==
  \/ StartTurn \/ Acquired \/ AcquireFails \/ Sent \/ SendFails
  \/ PollFires \/ PollReads \/ PollFinished
  \/ AbortAcknowledged \/ AbortRejected
  \/ \E f \in Finishers : Finish(f)

Next == Server \/ GatewayEvent \/ InactivityFires \/ Abort \/ LateAbort
        \/ Disconnect \/ Drop \/ Transcribe

Spec == Init /\ [][Next]_vars

\* Every await settles (queries and RPCs have time limits) and a timer that
\* stays armed fires. The gateway, the user and the network owe nothing.
FairSpec ==
  /\ Spec
  /\ WF_vars(StartTurn) /\ WF_vars(Acquired \/ AcquireFails) /\ WF_vars(Sent \/ SendFails)
  /\ WF_vars(PollFires) /\ WF_vars(PollReads) /\ WF_vars(PollFinished)
  /\ WF_vars(AbortAcknowledged \/ AbortRejected)
  /\ WF_vars(InactivityFires)
  /\ \A f \in Finishers : WF_vars(Finish(f))

-----------------------------------------------------------------------------
(* Safety.                                                                 *)

\* route.ts:1494, "Guarded to run at most once": whatever ends the turn, and
\* however often, one assistant message is stored. It is stored again only by
\* the retry of an insert that had committed, and then it is the same message.
SavedOnce ==
  /\ Len(saved) <= 1 + lost
  /\ \A i, j \in DOMAIN saved : saved[i] = saved[j]

\* run_completed or run_aborted is the last the windows are told, so there is
\* one of them at most and no error is reported after it.
OneVerdict == \A i \in DOMAIN verdicts : verdicts[i] # "run_error" => i = Len(verdicts)

\* A run is completed, in its row or in a progress event, only after the
\* gateway's own final event: no timer and no poll completes it by itself.
CompletionNeedsFinal ==
  (status = "completed" \/ "run_completed" \in {verdicts[i] : i \in DOMAIN verdicts}
     \/ \E i \in DOMAIN saved : ~saved[i].interrupted)
  => finalSeen

\* When the turn is done its client is free and nobody keeps it from the pool.
DoneReleasesClient == done => hold # "held"

\* When the turn is done its row does not say "running", unless the database
\* refused an update.
DoneIsRecorded == done => status # "running" \/ unrecorded

\* A deferred turn, one whose final event brought no answer, does not wait for
\* its inactivity timer while polls are left: a poll is scheduled or running.
Waiting == deferred /\ ~done /\ ~cancelled /\ \A f \in Finishers : finisher[f].pc = "free"
DeferredTurnIsPolled == Waiting /\ polls < MaxPolls => poll \/ polling # "no"

\* A notification carries the id of a message that is stored.
PushFollowsMessage == pushed > 0 => messageId /\ saved # <<>>

\* However many of its enders a turn has, it has one outcome: one message, or
\* copies of it by retries, one verdict, and a notification only of what was stored.
OneOutcome == TypeOK /\ SavedOnce /\ OneVerdict /\ PushFollowsMessage

\* A turn that is over is over for the database, the pool and the gateway.
DoneIsDone == CompletionNeedsFinal /\ DoneReleasesClient /\ DoneIsRecorded

(* Liveness.                                                               *)

\* As long as the browser stays, every turn ends and lets its client go,
\* whatever the gateway, the network and the database do.
WatchedTurnEnds == [](open) => <>(done /\ hold # "held")

\* An answer saved in full and announced to the windows is notified, unless the
\* update of the run's row failed. (When persistAndPublish throws after its
\* insert the answer is stored and nobody is notified.)
AnswerNotified ==
  (messageId /\ \E i \in DOMAIN saved : ~saved[i].interrupted) ~> (pushed > 0 \/ unrecorded)

\* route.ts:1564-1566, "Keep the gateway turn alive so completion can trigger
\* a mobile push and the UI can rehydrate": the turn also ends without browser.
DisconnectedTurnEnds == ~open ~> done
=============================================================================
