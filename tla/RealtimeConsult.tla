--------------------------- MODULE RealtimeConsult ---------------------------
(***************************************************************************)
(* A tool call of a voice session: the provider asks the agent and waits   *)
(* for its answer (runRealtimeToolCall and waitForChatFinal of             *)
(* src/src/app/api/runtimes/[id]/talk/realtime/relay/route.ts).            *)
(*                                                                         *)
(* One call.  The final event of the run, polls of its history and a timer *)
(* race; a final event without an answer is put off for a grace period.    *)
(* What an event or a history says is whether the answer is in it.         *)
(***************************************************************************)
EXTENDS Naturals

CONSTANT MaxFinals \* bound: final events of the run that the gateway sends

ASSUME FinalsAssumption == MaxFinals \in Nat

VARIABLES
  step,      \* the await the route is at
  held,      \* holds of the route on the client
  lost,      \* the connection of the client is gone
  finals,    \* final events sent so far
  history,   \* the history of the run has the answer
  listening, \* onEvent is attached
  settled,   \* settled, and the promise with it
  limit,     \* timer: the time limit is armed
  poll,      \* historyPollTimeout is armed
  asking,    \* who waits for the history: "nobody", "poll", "event", "limit"
  known,     \* ghost: the history had the answer when it was asked
  reply,     \* latestSourceReplyText
  grace,     \* deferredFinalDeadlineMs: "none", "running", "over"
  outcome,   \* of the promise
  cut,       \* ghost: the limit came while a poll was on its way
  broken,    \* ghost: a history could not be read
  told,      \* final results the provider has received
  unsure     \* ghost: a final result was sent and its answer did not come

gatewayVars == <<lost, finals, history>>
waitVars == <<listening, settled, limit, poll, asking, known, reply, grace, outcome, cut, broken>>
consultVars == <<step, held, gatewayVars, waitVars, told, unsure>>

ConsultTypeOK ==
  /\ step \in {"idle", "calling", "auditing", "working", "waiting", "answering",
               "apologising", "done"}
  /\ held \in {0, 1}
  /\ {lost, history, listening, settled, limit, poll, known, reply, cut, broken, unsure}
       \subseteq BOOLEAN
  /\ finals \in Nat
  /\ asking \in {"nobody", "poll", "event", "limit"}
  /\ grace \in {"none", "running", "over"}
  /\ outcome \in {"none", "text", "empty", "error", "timeout"}
  /\ told \in Nat

ConsultInit ==
  /\ step = "idle" /\ held = 0
  /\ lost = FALSE /\ finals = 0 /\ history = FALSE
  /\ listening = FALSE /\ settled = FALSE /\ limit = FALSE /\ poll = FALSE
  /\ asking = "nobody" /\ known = FALSE /\ reply = FALSE /\ grace = "none"
  /\ outcome = "none" /\ cut = FALSE /\ broken = FALSE
  /\ told = 0 /\ unsure = FALSE

-----------------------------------------------------------------------------
(* runRealtimeToolCall.                                                    *)

\* A tool other than openclaw_agent_consult is refused without any of this.
Ask ==
  /\ step = "idle"
  /\ step' = "calling" /\ held' = held + 1
  /\ UNCHANGED <<gatewayVars, waitVars, told, unsure>>

\* realtimeClientToolCall returns the run, and the audit looks up its session.
Asked ==
  /\ \/ step = "calling" /\ ~lost /\ step' = "auditing"
     \/ step = "auditing" /\ step' = "working"
  /\ UNCHANGED <<held, gatewayVars, waitVars, told, unsure>>

\* No run, no session, no working result: the provider is told of the error.
AskFails ==
  /\ step \in {"calling", "auditing", "working"}
  /\ step' = "apologising"
  /\ UNCHANGED <<held, gatewayVars, waitVars, told, unsure>>

\* The provider knows that it has to wait; waitForChatFinal.
Waits ==
  /\ step = "working" /\ ~lost
  /\ step' = "waiting"
  /\ listening' = TRUE /\ limit' = TRUE /\ poll' = TRUE
  /\ UNCHANGED <<held, gatewayVars, settled, asking, known, reply, grace, outcome, cut, broken,
                 told, unsure>>

Ends == step' = "done" /\ held' = held - 1

\* Mutation: the audit of the completion may fail and is reported.
AnswersAudited ==
  /\ step = "answering"
  /\ \/ /\ ~lost /\ told' = told + 1 /\ UNCHANGED unsure
        /\ Ends \/ (step' = "apologising" /\ held' = held)
     \/ told' \in {told, told + 1} /\ unsure' = TRUE /\ step' = "apologising" /\ held' = held
  /\ UNCHANGED <<gatewayVars, waitVars>>

\* The result is sent.  A call that fails may have arrived.
Answers ==
  /\ step = "answering"
  /\ \/ ~lost /\ told' = told + 1 /\ Ends /\ UNCHANGED unsure
     \/ told' \in {told, told + 1} /\ unsure' = TRUE /\ step' = "apologising" /\ held' = held
  /\ UNCHANGED <<gatewayVars, waitVars>>

\* Mutation: the catch gives the client back as well as the finally.
ApologisesReleasing ==
  /\ step = "apologising"
  /\ told' \in (IF lost THEN {told} ELSE {told, told + 1})
  /\ step' = "done" /\ held' = held - 2
  /\ UNCHANGED <<gatewayVars, waitVars, unsure>>

\* The error is sent, and whether it arrives does not matter.
Apologises ==
  /\ step = "apologising"
  /\ told' \in (IF lost THEN {told} ELSE {told, told + 1})
  /\ Ends
  /\ UNCHANGED <<gatewayVars, waitVars, unsure>>

-----------------------------------------------------------------------------
(* waitForChatFinal.                                                       *)

\* Mutation: the poll stays armed.
SettlesPolling(result) ==
  /\ settled' = TRUE /\ outcome' = result
  /\ limit' = FALSE /\ listening' = FALSE /\ poll' = poll
  /\ step' = IF result \in {"text", "empty"} THEN "answering" ELSE "apologising"

\* cleanup, with resolve or reject.
Settles(result) ==
  /\ settled' = TRUE /\ outcome' = result
  /\ limit' = FALSE /\ listening' = FALSE /\ poll' = FALSE
  /\ step' = IF result \in {"text", "empty"} THEN "answering" ELSE "apologising"

\* recoverFromHistory, up to its await.
Recovers(reason) ==
  IF asking = "nobody" THEN asking' = reason /\ known' = history
  ELSE UNCHANGED <<asking, known>>

PollDue ==
  /\ poll
  /\ poll' = FALSE
  /\ Recovers("poll")
  /\ UNCHANGED <<step, held, gatewayVars, listening, settled, limit, reply, grace, outcome, cut,
                 broken, told, unsure>>

\* Mutation: the limit is over and nobody is told.
LimitReachedSilently ==
  /\ limit
  /\ limit' = FALSE
  /\ Recovers("limit")
  /\ cut' = (cut \/ asking # "nobody")
  /\ UNCHANGED <<step, held, gatewayVars, listening, settled, poll, reply, grace, outcome, broken,
                 told, unsure>>

\* The time limit: a last look at the history, and none if one is on its way.
LimitReached ==
  /\ limit
  /\ IF asking = "nobody"
     THEN /\ limit' = FALSE
          /\ Recovers("limit")
          /\ UNCHANGED <<step, listening, settled, poll, outcome, cut>>
     ELSE Settles("timeout") /\ cut' = TRUE /\ UNCHANGED <<asking, known>>
  /\ UNCHANGED <<held, gatewayVars, reply, grace, broken, told, unsure>>

\* The promise of the time limit goes on when its history has come to nothing.
NotRecovered ==
  IF asking = "limit" THEN Settles("timeout")
  ELSE /\ poll' = TRUE
       /\ UNCHANGED <<step, listening, settled, limit, outcome>>

\* Mutation: what the events have said is not considered.
HistoryOnly(found) ==
  IF settled THEN UNCHANGED <<step, listening, settled, limit, poll, outcome>>
  ELSE IF found THEN Settles("text")
  ELSE IF grace = "over" THEN Settles("empty")
  ELSE NotRecovered

\* What a history that was read leads to.
HistoryGives(found) ==
  IF settled THEN UNCHANGED <<step, listening, settled, limit, poll, outcome>>
  ELSE IF found \/ reply THEN Settles("text")
  ELSE IF grace = "over" THEN Settles("empty")
  ELSE NotRecovered

HistoryRead ==
  /\ asking # "nobody" /\ ~lost
  /\ \E found \in BOOLEAN :
       /\ found => history
       /\ known => found
       /\ HistoryGives(found)
  /\ asking' = "nobody"
  /\ UNCHANGED <<held, gatewayVars, known, reply, grace, cut, broken, told, unsure>>

HistoryFails ==
  /\ asking # "nobody"
  /\ IF settled THEN UNCHANGED <<step, listening, settled, limit, poll, outcome>>
     ELSE IF grace = "over" THEN Settles("empty")
     ELSE NotRecovered
  /\ broken' = TRUE
  /\ asking' = "nobody"
  /\ UNCHANGED <<held, gatewayVars, known, reply, grace, cut, told, unsure>>

GraceOver ==
  /\ grace = "running"
  /\ grace' = "over"
  /\ UNCHANGED <<step, held, gatewayVars, listening, settled, limit, poll, asking, known, reply,
                 outcome, cut, broken, told, unsure>>

-----------------------------------------------------------------------------
(* The gateway: a run begins with the call and may go on after it.         *)

Running == step \notin {"idle", "calling"} /\ ~lost

\* The run's answer gets into its history.
Remembers ==
  /\ Running /\ ~history
  /\ history' = TRUE
  /\ UNCHANGED <<step, held, lost, finals, waitVars, told, unsure>>

\* A tool sends the answer to its source: an event that carries it, no final one.
SourceReply ==
  /\ Running /\ listening
  /\ reply' = TRUE
  /\ UNCHANGED <<step, held, gatewayVars, listening, settled, limit, poll, asking, known, grace,
                 outcome, cut, broken, told, unsure>>

\* A final event with the answer, with a placeholder, or with no text.
Final(kind) ==
  /\ Running /\ finals < MaxFinals
  /\ finals' = finals + 1
  /\ \/ ~listening /\ UNCHANGED <<step, waitVars>>
     \/ /\ listening
        /\ IF kind = "text" \/ (kind = "placeholder" /\ reply)
           THEN Settles("text") /\ UNCHANGED <<asking, known, grace>>
           ELSE /\ grace' = IF grace = "none" THEN "running" ELSE grace
                /\ Recovers("event")
                /\ UNCHANGED <<step, listening, settled, limit, poll, outcome>>
        /\ UNCHANGED <<reply, cut, broken>>
  /\ UNCHANGED <<held, lost, history, told, unsure>>

\* An event that says aborted, error or failed.
RunFails ==
  /\ Running /\ listening
  /\ Settles("error")
  /\ UNCHANGED <<held, gatewayVars, asking, known, reply, grace, cut, broken, told, unsure>>

ConnectionLost ==
  /\ step # "idle" /\ ~lost
  /\ lost' = TRUE
  /\ UNCHANGED <<step, held, finals, history, waitVars, told, unsure>>

-----------------------------------------------------------------------------
ConsultNext ==
  \/ Ask \/ Asked \/ AskFails \/ Waits \/ Answers \/ Apologises
  \/ PollDue \/ LimitReached \/ HistoryRead \/ HistoryFails \/ GraceOver
  \/ Remembers \/ SourceReply \/ RunFails \/ ConnectionLost
  \/ \E kind \in {"text", "placeholder", "empty"} : Final(kind)

ConsultSpec == ConsultInit /\ [][ConsultNext]_consultVars

\* Timers fire, and calls of the client settle (GatewayClient): the agent, the
\* gateway and the network owe nothing.
ConsultFairness ==
  /\ WF_consultVars(Asked \/ AskFails \/ Waits)
  /\ WF_consultVars(Answers) /\ WF_consultVars(Apologises)
  /\ WF_consultVars(LimitReached)
  /\ WF_consultVars(HistoryRead \/ HistoryFails)

-----------------------------------------------------------------------------
(* Properties.                                                             *)

\* After the call is settled no timer is armed and no listener attached, also
\* when a history comes back later.
NothingLeft == settled => ~limit /\ ~poll /\ ~listening

\* The provider gets one final result, unless the gateway did not say whether it
\* had received the first.
OneResult == told > 1 => unsure

\* An answer that an event or the history has brought is not passed over, unless the
\* limit came during a poll or a history could not be read.
AnswerNotMissed == outcome \in {"timeout", "empty"} => cut \/ broken \/ ~(reply \/ known)

\* A call of the provider ends, and the client is given back, whatever the agent does.
ConsultEnds == (step = "calling") ~> (step = "done" /\ held = 0)

\* A voice tool call has one result, the answer where there is one, and leaves nothing
\* behind, in whatever order event, polls, limit and grace period come.
ConsultSound == ConsultTypeOK /\ NothingLeft /\ OneResult /\ AnswerNotMissed
=============================================================================
