--------------------------- MODULE ChatTurn_proofs ---------------------------
(***************************************************************************)
(* Theorems about ChatTurn, for every set of faults and all bounds.        *)
(*                                                                         *)
(* What the executions of finishStream share is settled between awaits:    *)
(* assistantPersisted is claimed before the insert is awaited, the row is  *)
(* updated before done is set, and the last progress event and done are    *)
(* set in one step. The inductive invariant says so for every execution;   *)
(* everything else the server does is a QuietStep for these facts.         *)
(***************************************************************************)
EXTENDS ChatTurn, SequenceTheorems, TLAPS

\* Nothing is stored before an execution has claimed to do it.
UnclaimedUnsaved == ~persisted => saved = <<>> /\ lost = 0

\* Whoever is storing the message has claimed it, alone.
SaverIsAlone ==
  \A f \in Finishers : finisher[f].pc \in {"save", "publish"} =>
    /\ persisted
    /\ \A g \in Finishers : finisher[g].pc \in {"save", "publish"} => g = f

\* While it has no answer, all that is stored is its own, an insert with a lost
\* answer each.
SavedByMe ==
  \A f \in Finishers : finisher[f].pc = "save" =>
    /\ Len(saved) = lost
    /\ \A i \in DOMAIN saved : saved[i] = Message(f)

SaveClaimed == UnclaimedUnsaved /\ SaverIsAlone /\ SavedByMe

\* run_completed and run_aborted are told in the step that sets done.
VerdictWithDone == ~done => \A i \in DOMAIN verdicts : verdicts[i] = "run_error"

\* Completions start with the gateway's final event or a deferral it caused.
FinalComesFirst ==
  /\ deferred => finalSeen
  /\ \A f \in Finishers : finisher[f].kind = "complete" => finalSeen

\* Past the update of the row it has a terminal status.
RecordComesFirst ==
  \A f \in Finishers : finisher[f].pc \in {"notify", "close"} => status # "running" \/ unrecorded

\* Past the insert there is a message, and past the choice to notify its id.
MessageComesFirst ==
  /\ messageId => saved # <<>>
  /\ \A f \in Finishers : /\ finisher[f].pc = "publish" => saved # <<>>
                          /\ finisher[f].pc = "notify" => messageId

Verdicts == VerdictWithDone /\ OneVerdict
Completions == FinalComesFirst /\ CompletionNeedsFinal
Records == RecordComesFirst /\ DoneIsRecorded
Pushes == MessageComesFirst /\ PushFollowsMessage

IInv == /\ TypeOK
        /\ SaveClaimed /\ SavedOnce
        /\ Verdicts
        /\ Completions
        /\ DoneReleasesClient
        /\ Records
        /\ Pushes

-----------------------------------------------------------------------------
(* Type correctness.                                                       *)

\* finishStream takes a free slot, or there is none and it is not called.
LEMMA BeginTakesFreeSlot ==
  ASSUME NEW kind, Begin(kind)
  PROVE  \E f \in Finishers :
           /\ finisher[f].pc = "free"
           /\ finisher' = [finisher EXCEPT
                ![f] = [pc |-> "recover", kind |-> kind, text |-> "",
                        polled |-> polling' = "finishing" /\ polling = "reading",
                        ask |-> hold' # "none" /\ Missing, left |-> Retries]]
  BY DEF Begin

LEMMA BeginTyped ==
  ASSUME TypeOK, NEW kind \in Kinds, Begin(kind),
         fromPoll' \in BOOLEAN, tool' \in BOOLEAN
  PROVE  finisher' \in [Finishers -> Executions]
<1>1. PICK f \in Finishers, p \in BOOLEAN, a \in BOOLEAN :
         finisher' = [finisher EXCEPT ![f] = [pc |-> "recover", kind |-> kind, text |-> "",
                                              polled |-> p, ask |-> a, left |-> Retries]]
  BY BeginTakesFreeSlot DEF Missing
<1>2. [pc |-> "recover", kind |-> kind, text |-> "", polled |-> p, ask |-> a,
       left |-> Retries] \in Executions
  BY RetriesAssumption DEF Executions, Texts
<1> QED
  BY <1>1, <1>2 DEF TypeOK

LEMMA SnapshotTyped ==
  ASSUME TypeOK, NEW t \in Texts, Snapshot(t)
  PROVE  full' \in Texts /\ last' \in Texts
  BY DEF TypeOK, Snapshot

LEMMA ReceiveTyped ==
  ASSUME TypeOK, Receive
  PROVE  events' \in 0 .. MaxEvents
  BY BoundsAssumption DEF TypeOK, Receive

LEMMA RunErrorTyped ==
  ASSUME TypeOK
  PROVE  Append(verdicts, "run_error") \in Seq({"run_completed", "run_aborted", "run_error"})
<1>1. "run_error" \in {"run_completed", "run_aborted", "run_error"}
  OBVIOUS
<1> QED
  BY <1>1, AppendProperties DEF TypeOK

\* Moving an execution on.
LEMMA GotoMoves ==
  ASSUME TypeOK, NEW f \in Finishers,
         NEW label \in {"save", "publish", "record", "notify", "close"}, Goto(f, label)
  PROVE  /\ finisher' \in [Finishers -> Executions]
         /\ finisher'[f].pc = label /\ finisher'[f].kind = finisher[f].kind
         /\ \A g \in Finishers \ {f} : finisher'[g] = finisher[g]
<1> DEFINE e == [finisher[f] EXCEPT !.pc = label, !.text = "", !.left = Retries]
<1>1. finisher[f] \in Executions /\ finisher \in [Finishers -> Executions]
  BY DEF TypeOK
<1>2. Retries \in 0 .. Retries /\ "" \in Texts
  BY RetriesAssumption DEF Texts
<1>3. e \in Executions /\ e.pc = label /\ e.kind = finisher[f].kind
  BY <1>1, <1>2 DEF Executions
<1>4. finisher' = [finisher EXCEPT ![f] = e]
  BY <1>1 DEF Goto
<1> HIDE DEF e
<1> QED
  BY <1>1, <1>3, <1>4

\* withRetry leaves the execution at the query or moves it on.
LEMMA QueryFailsMoves ==
  ASSUME TypeOK, NEW f \in Finishers, NEW label \in {"record", "close"}, QueryFails(f, label)
  PROVE  /\ finisher' \in [Finishers -> Executions]
         /\ \/ finisher'[f].pc = label
            \/ finisher'[f].pc = finisher[f].pc /\ finisher'[f].text = finisher[f].text
         /\ finisher'[f].kind = finisher[f].kind
         /\ \A g \in Finishers \ {f} : finisher'[g] = finisher[g]
<1>1. CASE Goto(f, label)
  BY <1>1, GotoMoves
<1>2. CASE finisher[f].left > 0 /\ finisher' = [finisher EXCEPT ![f].left = @ - 1]
  <2> DEFINE e == [finisher[f] EXCEPT !.left = @ - 1]
  <2>1. finisher[f] \in Executions /\ finisher \in [Finishers -> Executions]
    BY DEF TypeOK
  <2>2. finisher[f].left - 1 \in 0 .. Retries
    BY <1>2, <2>1, RetriesAssumption DEF Executions
  <2>3. /\ e \in Executions
        /\ e.pc = finisher[f].pc /\ e.text = finisher[f].text /\ e.kind = finisher[f].kind
    BY <2>1, <2>2 DEF Executions
  <2>4. finisher' = [finisher EXCEPT ![f] = e]
    BY <1>2, <2>1
  <2> HIDE DEF e
  <2> QED
    BY <2>1, <2>3, <2>4
<1> QED
  BY <1>1, <1>2 DEF QueryFails

\* Leaving finishStream frees the slot.
LEMMA LeaveMoves ==
  ASSUME TypeOK, NEW f \in Finishers, Leave(f)
  PROVE  /\ finisher' \in [Finishers -> Executions]
         /\ Idle \in Executions /\ Idle.pc = "free" /\ Idle.kind = "abort"
         /\ finisher' = [finisher EXCEPT ![f] = Idle]
         /\ finisher'[f].pc = "free" /\ finisher'[f].kind = "abort"
         /\ \A g \in Finishers \ {f} : finisher'[g] = finisher[g]
<1>1. Idle \in Executions /\ Idle.pc = "free" /\ Idle.kind = "abort"
  BY RetriesAssumption DEF Idle, Executions, Kinds, Texts
<1> QED
  BY <1>1 DEF Leave, TypeOK

\* Claiming the message leads to its insert, or past it.
LEMMA ClaimMoves ==
  ASSUME TypeOK, full' \in Texts, NEW f \in Finishers, ClaimMessage(f)
  PROVE  /\ finisher' \in [Finishers -> Executions]
         /\ persisted'
         /\ finisher'[f].pc \in {"record", "save"}
         /\ finisher'[f].pc = "save" => ~persisted
         /\ finisher'[f].kind = finisher[f].kind
         /\ \A g \in Finishers \ {f} : finisher'[g] = finisher[g]
<1>1. PICK p \in {"record", "save"}, x \in Texts :
        /\ finisher' = [finisher EXCEPT ![f].pc = p, ![f].text = x, ![f].ask = FALSE]
        /\ p = "save" => ~persisted
  BY DEF ClaimMessage, Texts
<1>5. persisted'
  BY DEF ClaimMessage
<1> DEFINE e == [finisher[f] EXCEPT !.pc = p, !.text = x, !.ask = FALSE]
<1>2. finisher[f] \in Executions /\ finisher \in [Finishers -> Executions]
  BY DEF TypeOK
<1>3. e \in Executions /\ e.pc = p /\ e.kind = finisher[f].kind
  BY <1>2 DEF Executions
<1>4. finisher' = [finisher EXCEPT ![f] = e]
  BY <1>1, <1>2
<1> HIDE DEF e
<1> QED
  BY <1>1, <1>2, <1>3, <1>4, <1>5

LEMMA RecoverableTexts ==
  ASSUME TypeOK
  PROVE  Recoverable \subseteq Texts
  BY DEF TypeOK, Recoverable, Texts

LEMMA InitTyped == Init => TypeOK
<1> SUFFICES ASSUME Init PROVE TypeOK
  OBVIOUS
<1>1. Idle \in Executions
  BY RetriesAssumption DEF Idle, Executions, Kinds, Texts
<1>2. 0 \in 0 .. MaxPolls /\ 0 \in 0 .. MaxEvents
  BY BoundsAssumption
<1>3. finisher \in [Finishers -> Executions]
  BY <1>1 DEF Init
<1>4. saved \in Seq([text : Texts, interrupted : BOOLEAN])
  BY EmptySeq DEF Init
<1>5. verdicts \in Seq({"run_completed", "run_aborted", "run_error"})
  BY EmptySeq DEF Init
<1> QED
  BY <1>2, <1>3, <1>4, <1>5 DEF Init, TypeOK, Texts

LEMMA NextTyped == TypeOK /\ [Next]_vars => TypeOK'
<1> SUFFICES ASSUME TypeOK, [Next]_vars PROVE TypeOK'
  OBVIOUS

<1>1. CASE StartTurn
  BY <1>1 DEF StartTurn, TypeOK, text, flags, timers, results, records, message, world
<1>2. CASE Acquired
  BY <1>2 DEF Acquired, TypeOK, text, flags, timers, results, records, message, world
<1>3. CASE AcquireFails
  BY <1>3, BeginTyped, RunErrorTyped DEF AcquireFails, TurnFails, Kinds, Texts, TypeOK, text, flags, timers, results, records, message, world
<1>4. CASE SendFails
  BY <1>4, BeginTyped, RunErrorTyped DEF SendFails, TurnFails, Kinds, Texts, TypeOK, text, flags, timers, results, records, message, world
<1>5. CASE Sent
  BY <1>5 DEF Sent, StartPolling, TypeOK, text, flags, timers, results, records, message, world
<1>6. CASE PollFires
  <2>1. polls' \in 0 .. MaxPolls
    BY <1>6, BoundsAssumption DEF PollFires, TypeOK
  <2> QED
    BY <1>6, <2>1 DEF PollFires, TypeOK, text, flags, timers, results, records, message, world
<1>7. CASE PollReads
  BY <1>7, BeginTyped, SnapshotTyped, RecoverableTexts DEF PollReads, Reschedule, Kinds, TypeOK, text, flags, timers, results, records, message, world
<1>8. CASE PollFinished
  BY <1>8 DEF PollFinished, Reschedule, TypeOK, text, flags, timers, results, records, message, world
<1>9. CASE AbortAcknowledged
  BY <1>9, BeginTyped DEF AbortAcknowledged, Kinds, TypeOK, text, flags, timers, results, records, message, world
<1>10. CASE AbortRejected
  BY <1>10 DEF AbortRejected, TypeOK, text, flags, timers, results, records, message, world
<1>11. CASE \E f \in Finishers : Finish(f)
  <2> PICK f \in Finishers : Finish(f)
    BY <1>11
  <2> USE DEF Executions
  <2>1. CASE Recovered(f)
    <3>1. PICK t \in Texts : /\ Snapshot(t)
                             /\ \/ /\ Leave(f) /\ UNCHANGED <<timers, flags, persisted>>
                                \/ /\ Leave(f) /\ Defer(TRUE) /\ UNCHANGED <<fromPoll, delivered, persisted>>
                                \/ /\ armed' = FALSE /\ poll' = FALSE /\ ClaimMessage(f) /\ UNCHANGED flags
      BY <2>1, RecoverableTexts DEF Recovered, Texts
    <3>2. full' \in Texts /\ last' \in Texts
      BY <3>1, SnapshotTyped
    <3>3. finisher' \in [Finishers -> Executions]
      BY <3>1, <3>2, LeaveMoves, ClaimMoves
    <3> QED
      BY <2>1, <3>1, <3>2, <3>3 DEF Recovered, Defer, StartPolling, ClaimMessage, TypeOK, text, flags, timers, results, records, message, world
  <2>2. CASE Saved(f)
    <3>1. Message(f) \in [text : Texts, interrupted : BOOLEAN]
      BY DEF TypeOK, Message
    <3>2. saved' = Append(saved, Message(f)) \/ saved' = saved
      BY <2>2 DEF Saved
    <3>3. Append(saved, Message(f)) \in Seq([text : Texts, interrupted : BOOLEAN])
      BY <3>1, AppendProperties DEF TypeOK
    <3>4. saved' \in Seq([text : Texts, interrupted : BOOLEAN])
      BY <3>2, <3>3 DEF TypeOK
    <3>5. lost' \in Nat
      BY <2>2 DEF Saved, TypeOK
    <3>6. Goto(f, "publish") \/ QueryFails(f, "record")
      BY <2>2 DEF Saved
    <3>7. finisher' \in [Finishers -> Executions]
      BY <3>6, QueryFailsMoves, GotoMoves
    <3> QED
      BY <2>2, <3>4, <3>5, <3>7 DEF Saved, TypeOK, text, flags, timers, world
  <2>3. CASE Published(f)
    <3>1. finisher' \in [Finishers -> Executions]
      BY <2>3, GotoMoves DEF Published
    <3> QED
      BY <2>3, <3>1 DEF Published, TypeOK, text, flags, timers, world
  <2>4. CASE Recorded(f)
    <3>1. \/ Goto(f, "notify") \/ Goto(f, "close")
          \/ QueryFails(f, "close")
      BY <2>4 DEF Recorded
    <3>2. finisher' \in [Finishers -> Executions]
      BY <3>1, QueryFailsMoves, GotoMoves
    <3>3. status' \in {status, StatusOf(finisher[f].kind)} /\ unrecorded' \in BOOLEAN
      BY <2>4 DEF Recorded, TypeOK
    <3>4. StatusOf(finisher[f].kind) \in {"completed", "aborted", "failed"}
      BY DEF StatusOf, Kinds, TypeOK
    <3> QED
      BY <2>4, <3>2, <3>3, <3>4 DEF Recorded, TypeOK, text, flags, timers, message, world
  <2>6. CASE Notified(f)
    <3>1. finisher' \in [Finishers -> Executions]
      BY <2>6, GotoMoves DEF Notified
    <3> QED
      BY <2>6, <3>1 DEF Notified, TypeOK, text, flags, timers, message, world
  <2>5. CASE Closed(f)
    <3>1. verdicts' \in Seq({"run_completed", "run_aborted", "run_error"})
      BY <2>5 DEF Closed, TypeOK
    <3> QED
      BY <2>5, <3>1, LeaveMoves DEF Closed, TypeOK, text, flags, timers, message, world
  <2> QED
    BY <2>1, <2>2, <2>3, <2>4, <2>5, <2>6 DEF Finish
<1>12. CASE GatewayEvent
  <2>1. CASE \E t \in {"part", "answer", "placeholder"} : Delta(t)
    BY <2>1, SnapshotTyped, ReceiveTyped DEF Delta, Receive, Texts, TypeOK, text, flags, timers, results, records, message, world
  <2>2. CASE ToolEvent
    BY <2>2, ReceiveTyped DEF ToolEvent, Receive, TypeOK, text, flags, timers, results, records, message, world
  <2>3. CASE SourceReply
    BY <2>3, SnapshotTyped, ReceiveTyped DEF SourceReply, Receive, Fresh, Accepts, Extends, Texts, TypeOK, text, flags, timers, results, records, message, world
  <2>4. ASSUME NEW t \in {"", "answer", "placeholder"}, NEW toolOnly \in BOOLEAN, Final(t, toolOnly)
        PROVE  TypeOK'
    <3>1. full' \in Texts /\ last' \in Texts /\ UNCHANGED <<fromPoll, delivered>>
      BY <2>4 DEF Final, Texts, TypeOK, text
    <3>2. poll' \in BOOLEAN /\ armed' \in BOOLEAN /\ deferred' \in BOOLEAN /\ tool' \in BOOLEAN
      BY <2>4 DEF Final, Defer, StartPolling, TypeOK
    <3>3. finisher' = finisher \/ Begin("complete")
      BY <2>4 DEF Final
    <3>4. finisher' \in [Finishers -> Executions]
      BY <3>1, <3>2, <3>3, BeginTyped DEF Kinds, TypeOK
    <3> QED
      BY <2>4, <3>1, <3>2, <3>4, ReceiveTyped DEF Final, Receive, TypeOK, text, flags, timers, results, records, message, world
  <2>5. CASE Aborted
    BY <2>5, BeginTyped, ReceiveTyped DEF Aborted, Receive, Kinds, TypeOK, text, flags, timers, results, records, message, world
  <2>6. CASE Error
    BY <2>6, BeginTyped, ReceiveTyped, RunErrorTyped DEF Error, Receive, Kinds, Texts, TypeOK, text, flags, timers, results, records, message, world
  <2> QED
    BY <1>12, <2>1, <2>2, <2>3, <2>4, <2>5, <2>6 DEF GatewayEvent
<1>13. CASE InactivityFires
  BY <1>13, BeginTyped DEF InactivityFires, Kinds, TypeOK, text, flags, timers, results, records, message, world
<1>14. CASE Abort
  BY <1>14, BeginTyped DEF Abort, Kinds, TypeOK, text, flags, timers, results, records, message, world
<1>15. CASE LateAbort
  BY <1>15 DEF LateAbort, TypeOK, text, flags, timers, results, records, message, world
<1>16. CASE Disconnect
  BY <1>16 DEF Disconnect, TypeOK, text, flags, timers, results, records, message, world
<1>17. CASE Drop
  BY <1>17 DEF Drop, TypeOK, text, flags, timers, results, records, message, world
<1>18. CASE Transcribe
  BY <1>18 DEF Transcribe, Texts, TypeOK, text, flags, timers, results, records, message, world
<1>19. CASE UNCHANGED vars
  BY <1>19 DEF vars, TypeOK
<1> QED
  BY <1>1, <1>2, <1>3, <1>4, <1>5, <1>6, <1>7, <1>8, <1>9, <1>10, <1>11, <1>12, <1>13, <1>14, <1>15, <1>16, <1>17, <1>18, <1>19 DEF Next, Server

\* Every variable of a turn keeps its type.
THEOREM TypeCorrect == Spec => []TypeOK
<1>1. Init => TypeOK
  BY InitTyped
<1>2. TypeOK /\ [Next]_vars => TypeOK'
  BY NextTyped
<1> QED
  BY <1>1, <1>2, PTL DEF Spec

-----------------------------------------------------------------------------
(* The inductive invariant.                                                *)

\* What every step other than the later parts of finishStream does to it: it
\* starts an execution of finishStream or ends one early, or leaves them alone.
QuietStep ==
  /\ UNCHANGED <<persisted, saved, messageId, lost, pushed, done, unrecorded>>
  /\ verdicts' = verdicts \/ (~done /\ verdicts' = Append(verdicts, "run_error"))
  /\ status' \in {status, "aborted"}
  /\ finalSeen => finalSeen'
  /\ deferred' => finalSeen'
  /\ done => hold' # "held"
  /\ \/ finisher' = finisher
     \/ \E f \in Finishers, r \in Executions :
          /\ r.pc \in {"free", "recover"}
          /\ r.kind = "complete" => finalSeen'
          /\ finisher' = [finisher EXCEPT ![f] = r]

\* What becomes of "all of the first n" when one is appended.
LEMMA AppendedElements ==
  ASSUME NEW S, NEW seq \in Seq(S), NEW e \in S
  PROVE  /\ Append(seq, e) \in Seq(S)
         /\ Len(Append(seq, e)) = Len(seq) + 1
         /\ Append(seq, e) # <<>>
         /\ \A i \in DOMAIN seq : i \in DOMAIN Append(seq, e) /\ Append(seq, e)[i] = seq[i]
         /\ \A i \in DOMAIN Append(seq, e) :
               \/ i \in DOMAIN seq /\ Append(seq, e)[i] = seq[i]
               \/ i = Len(seq) + 1 /\ Append(seq, e)[i] = e
  BY AppendProperties

LEMMA QuietPreserves ==
  ASSUME IInv, TypeOK', QuietStep
  PROVE  IInv'
<1> USE DEF QuietStep, TypeOK
<1>1. SaveClaimed' /\ SavedOnce'
  <2>1. UnclaimedUnsaved' /\ SavedOnce'
    BY DEF IInv, SaveClaimed, UnclaimedUnsaved, SavedOnce
  <2>2. SaverIsAlone'
    BY DEF IInv, SaveClaimed, SaverIsAlone
  <2>3. SavedByMe'
    BY DEF IInv, SaveClaimed, SavedByMe, Message
  <2> QED
    BY <2>1, <2>2, <2>3 DEF SaveClaimed
<1>2. Verdicts'
  <2>1. CASE verdicts' = verdicts
    BY <2>1 DEF IInv, Verdicts, VerdictWithDone, OneVerdict
  <2>2. CASE ~done /\ verdicts' = Append(verdicts, "run_error")
    <3>1. \A i \in DOMAIN verdicts' : verdicts'[i] = "run_error"
      BY <2>2, AppendedElements DEF IInv, Verdicts, VerdictWithDone
    <3> QED
      BY <3>1 DEF Verdicts, VerdictWithDone, OneVerdict
  <2> QED
    BY <2>1, <2>2
<1>3. FinalComesFirst'
  BY DEF IInv, Completions, FinalComesFirst
<1>4. CompletionNeedsFinal'
  <2>1. "run_completed" \in {verdicts'[i] : i \in DOMAIN verdicts'}
          => "run_completed" \in {verdicts[i] : i \in DOMAIN verdicts}
    BY AppendedElements
  <2> QED
    BY <2>1 DEF IInv, Completions, CompletionNeedsFinal
<1>5. DoneReleasesClient'
  BY DEF DoneReleasesClient
<1>6. Records'
  BY DEF IInv, Records, RecordComesFirst, DoneIsRecorded
<1>7. Pushes'
  BY DEF IInv, Pushes, MessageComesFirst, PushFollowsMessage
<1> QED
  BY <1>1, <1>2, <1>3, <1>4, <1>5, <1>6, <1>7 DEF IInv, Completions

LEMMA BeginIsQuiet ==
  ASSUME TypeOK, NEW kind \in Kinds, Begin(kind), kind = "complete" => finalSeen'
  PROVE  \E f \in Finishers, r \in Executions :
           /\ r.pc \in {"free", "recover"}
           /\ r.kind = "complete" => finalSeen'
           /\ finisher' = [finisher EXCEPT ![f] = r]
<1>1. PICK f \in Finishers, p \in BOOLEAN, a \in BOOLEAN :
         finisher' = [finisher EXCEPT ![f] = [pc |-> "recover", kind |-> kind, text |-> "",
                                              polled |-> p, ask |-> a, left |-> Retries]]
  BY BeginTakesFreeSlot DEF Missing
<1>2. [pc |-> "recover", kind |-> kind, text |-> "", polled |-> p, ask |-> a,
       left |-> Retries] \in Executions
  BY RetriesAssumption DEF Executions, Texts
<1> QED
  BY <1>1, <1>2

LEMMA ServerStepsQuiet ==
  ASSUME IInv,
         StartTurn \/ Acquired \/ AcquireFails \/ Sent \/ SendFails
           \/ PollFires \/ PollReads \/ PollFinished \/ AbortAcknowledged \/ AbortRejected
           \/ InactivityFires \/ Abort \/ LateAbort \/ Disconnect \/ Drop \/ Transcribe
  PROVE  QuietStep
<1>1. CASE StartTurn
  BY <1>1 DEF StartTurn, QuietStep, IInv, DoneReleasesClient, Completions, FinalComesFirst, text, flags, timers, results, records, message, world
<1>2. CASE Acquired
  BY <1>2 DEF Acquired, QuietStep, IInv, DoneReleasesClient, Completions, FinalComesFirst, text, flags, timers, results, records, message, world
<1>3. CASE AcquireFails
  BY <1>3, BeginIsQuiet DEF AcquireFails, TurnFails, Kinds, QuietStep, IInv, DoneReleasesClient, Completions, FinalComesFirst, text, flags, timers, results, records, message, world
<1>4. CASE Sent
  BY <1>4 DEF Sent, QuietStep, IInv, DoneReleasesClient, Completions, FinalComesFirst, text, flags, timers, results, records, message, world
<1>5. CASE SendFails
  BY <1>5, BeginIsQuiet DEF SendFails, TurnFails, Kinds, QuietStep, IInv, DoneReleasesClient, Completions, FinalComesFirst, text, flags, timers, results, records, message, world
<1>6. CASE PollFires
  BY <1>6 DEF PollFires, QuietStep, IInv, DoneReleasesClient, Completions, FinalComesFirst, text, flags, timers, results, records, message, world
<1>7. CASE PollReads
  BY <1>7, BeginIsQuiet DEF PollReads, Reschedule, Kinds, QuietStep, IInv, DoneReleasesClient, Completions, FinalComesFirst, text, flags, timers, results, records, message, world
<1>8. CASE PollFinished
  BY <1>8 DEF PollFinished, QuietStep, IInv, DoneReleasesClient, Completions, FinalComesFirst, text, flags, timers, results, records, message, world
<1>9. CASE AbortAcknowledged
  BY <1>9, BeginIsQuiet DEF AbortAcknowledged, Kinds, QuietStep, IInv, DoneReleasesClient, Completions, FinalComesFirst, text, flags, timers, results, records, message, world
<1>10. CASE AbortRejected
  BY <1>10 DEF AbortRejected, QuietStep, IInv, DoneReleasesClient, Completions, FinalComesFirst, text, flags, timers, results, records, message, world
<1>11. CASE InactivityFires
  BY <1>11, BeginIsQuiet DEF InactivityFires, Kinds, QuietStep, IInv, DoneReleasesClient, Completions, FinalComesFirst, text, flags, timers, results, records, message, world
<1>12. CASE Abort
  BY <1>12, BeginIsQuiet DEF Abort, Kinds, QuietStep, IInv, DoneReleasesClient, Completions, FinalComesFirst, text, flags, timers, results, records, message, world
<1>13. CASE LateAbort
  BY <1>13 DEF LateAbort, QuietStep, IInv, DoneReleasesClient, Completions, FinalComesFirst, text, flags, timers, results, records, message, world
<1>14. CASE Disconnect
  BY <1>14 DEF Disconnect, QuietStep, IInv, DoneReleasesClient, Completions, FinalComesFirst, text, flags, timers, results, records, message, world
<1>15. CASE Drop
  BY <1>15 DEF Drop, QuietStep, IInv, DoneReleasesClient, Completions, FinalComesFirst, text, flags, timers, results, records, message, world
<1>16. CASE Transcribe
  BY <1>16 DEF Transcribe, QuietStep, IInv, DoneReleasesClient, Completions, FinalComesFirst, text, flags, timers, results, records, message, world
<1> QED
  BY <1>1, <1>2, <1>3, <1>4, <1>5, <1>6, <1>7, <1>8, <1>9, <1>10, <1>11, <1>12, <1>13, <1>14, <1>15, <1>16

LEMMA EventsQuiet ==
  ASSUME IInv, GatewayEvent
  PROVE  QuietStep
<1>0. ASSUME Receive
      PROVE  /\ persisted' = persisted /\ saved' = saved /\ pushed' = pushed
             /\ messageId' = messageId /\ lost' = lost
             /\ done' = done /\ unrecorded' = unrecorded
             /\ status' = status /\ ~done
  BY <1>0 DEF Receive, records, message
<1>1. CASE \E t \in {"part", "answer", "placeholder"} : Delta(t)
  BY <1>0, <1>1 DEF Delta, QuietStep, IInv, DoneReleasesClient, Completions, FinalComesFirst, text, flags, timers, results, records, message, world
<1>2. CASE ToolEvent
  BY <1>0, <1>2 DEF ToolEvent, QuietStep, IInv, DoneReleasesClient, Completions, FinalComesFirst, text, flags, timers, results, records, message, world
<1>3. CASE SourceReply
  BY <1>0, <1>3 DEF SourceReply, QuietStep, IInv, DoneReleasesClient, Completions, FinalComesFirst, text, flags, timers, results, records, message, world
<1>4. ASSUME NEW t \in {"", "answer", "placeholder"}, NEW toolOnly \in BOOLEAN, Final(t, toolOnly)
      PROVE  QuietStep
  <2>1. finalSeen' /\ Receive /\ verdicts' = verdicts
    BY <1>4 DEF Final
  <2>2. finisher' = finisher \/ Begin("complete")
    BY <1>4 DEF Final
  <2> QED
    BY <1>0, <2>1, <2>2, BeginIsQuiet DEF QuietStep, IInv, Kinds
<1>5. CASE Aborted
  BY <1>0, <1>5, BeginIsQuiet DEF Aborted, Kinds, QuietStep, IInv, DoneReleasesClient, Completions, FinalComesFirst, text, flags, timers, results, records, message, world
<1>6. CASE Error
  BY <1>0, <1>6, BeginIsQuiet DEF Error, Kinds, QuietStep, IInv, DoneReleasesClient, Completions, FinalComesFirst, text, flags, timers, results, records, message, world
<1> QED
  BY <1>1, <1>2, <1>3, <1>4, <1>5, <1>6 DEF GatewayEvent

\* A step of an execution that is not, or no longer, storing the message.
LEMMA ClaimKept ==
  ASSUME SaveClaimed, SavedOnce, UNCHANGED <<persisted, saved, lost>>,
         NEW f \in Finishers, finisher'[f].pc \notin {"save", "publish"},
         \A g \in Finishers \ {f} : finisher'[g] = finisher[g]
  PROVE  SaveClaimed' /\ SavedOnce'
<1>1. UnclaimedUnsaved' /\ SavedOnce'
  BY DEF SaveClaimed, UnclaimedUnsaved, SavedOnce
<1>2. SaverIsAlone'
  BY DEF SaveClaimed, SaverIsAlone
<1>3. SavedByMe'
  BY DEF SaveClaimed, SavedByMe, Message
<1> QED
  BY <1>1, <1>2, <1>3 DEF SaveClaimed

LEMMA FinishPreserves ==
  ASSUME IInv, TypeOK', NEW f \in Finishers, Finish(f)
  PROVE  IInv'
<1> USE DEF IInv, TypeOK, Executions
<1>1. CASE Recovered(f)
  <2>0. full' \in Texts
    OBVIOUS
  <2>1. CASE Leave(f)
    <3>1. /\ Idle \in Executions /\ Idle.pc = "free" /\ Idle.kind = "abort"
          /\ finisher' = [finisher EXCEPT ![f] = Idle]
          /\ finisher'[f].pc = "free"
      BY <2>1, LeaveMoves
    <3>2. ~ClaimMessage(f)
      BY <2>0, <3>1, ClaimMoves
    <3>3. deferred' => finalSeen'
      BY <1>1, <3>2 DEF Recovered, Defer, Completions, FinalComesFirst, flags, world
    <3>4. UNCHANGED <<persisted, saved, messageId, lost, status, pushed, verdicts, done,
                      unrecorded, finalSeen, hold>>
      BY <1>1, <3>2 DEF Recovered, world
    <3>5. QuietStep
      BY <3>1, <3>3, <3>4 DEF QuietStep, DoneReleasesClient
    <3> QED
      BY <3>5, QuietPreserves
  <2>2. CASE ClaimMessage(f) /\ UNCHANGED flags
    <3>1. /\ UNCHANGED <<saved, messageId, lost, status, pushed, verdicts, done, unrecorded,
                         deferred, finalSeen, hold>>
          /\ finisher[f].pc = "recover"
      BY <1>1, <2>2 DEF Recovered, flags, world
    <3>2. /\ persisted'
          /\ finisher'[f].pc \in {"record", "save"}
          /\ finisher'[f].pc = "save" => ~persisted
          /\ finisher'[f].kind = finisher[f].kind
          /\ \A g \in Finishers \ {f} : finisher'[g] = finisher[g]
      BY <2>0, <2>2, ClaimMoves
    <3>3. SaveClaimed'
      <4>1. UnclaimedUnsaved'
        BY <3>2 DEF UnclaimedUnsaved
      <4>2. SaverIsAlone'
        BY <3>1, <3>2 DEF SaveClaimed, SaverIsAlone
      <4>3. finisher'[f].pc = "save" => saved' = <<>> /\ lost' = 0
        BY <3>1, <3>2 DEF SaveClaimed, UnclaimedUnsaved
      <4>4. SavedByMe'
        BY <3>1, <3>2, <4>3 DEF SaveClaimed, SavedByMe, Message
      <4> QED
        BY <4>1, <4>2, <4>4 DEF SaveClaimed
    <3>4. SavedOnce'
      BY <3>1 DEF SavedOnce
    <3>5. Completions'
      BY <3>1, <3>2 DEF Completions, FinalComesFirst, CompletionNeedsFinal
    <3>6. Verdicts' /\ DoneReleasesClient' /\ Records' /\ Pushes'
      BY <3>1, <3>2 DEF Verdicts, VerdictWithDone, OneVerdict, DoneReleasesClient, Records,
                        RecordComesFirst, DoneIsRecorded, Pushes, MessageComesFirst, PushFollowsMessage
    <3> QED
      BY <3>3, <3>4, <3>5, <3>6
  <2> QED
    BY <1>1, <2>1, <2>2 DEF Recovered
<1>2. CASE Saved(f)
  <2>1. /\ UNCHANGED <<persisted, messageId, status, pushed, verdicts, done, unrecorded,
                       deferred, finalSeen, hold>>
        /\ finisher[f].pc = "save"
    BY <1>2 DEF Saved, flags, world
  <2>2. /\ finisher'[f].pc \in {"save", "publish", "record"}
        /\ finisher'[f].kind = finisher[f].kind
        /\ finisher'[f].pc = "save" => finisher'[f].text = finisher[f].text
        /\ \A g \in Finishers \ {f} : finisher'[g] = finisher[g]
    BY <1>2, <2>1, GotoMoves, QueryFailsMoves DEF Saved
  <2>3. \/ UNCHANGED <<saved, lost>> /\ finisher'[f].pc # "publish"
        \/ saved' = Append(saved, Message(f)) /\ lost' = lost + 1
        \/ saved' = Append(saved, Message(f)) /\ lost' = lost /\ finisher'[f].pc = "publish"
    BY <1>2, <2>1, GotoMoves, QueryFailsMoves DEF Saved
  <2>4. /\ persisted
        /\ Len(saved) = lost
        /\ \A i \in DOMAIN saved : saved[i] = Message(f)
        /\ \A g \in Finishers \ {f} : finisher[g].pc \notin {"save", "publish"}
    BY <2>1 DEF SaveClaimed, SaverIsAlone, SavedByMe
  <2>5. /\ Message(f) \in [text : Texts, interrupted : BOOLEAN]
        /\ Message(f).interrupted = (finisher[f].kind # "complete")
    BY DEF Message
  <2>6. /\ saved' = saved \/ saved' = Append(saved, Message(f))
        /\ \A i \in DOMAIN saved' : saved'[i] = Message(f)
        /\ saved # <<>> => saved' # <<>>
        /\ saved' = Append(saved, Message(f)) => Len(saved') = Len(saved) + 1 /\ saved' # <<>>
    <3>1. saved \in Seq([text : Texts, interrupted : BOOLEAN])
      BY DEF TypeOK
    <3> HIDE DEF IInv, TypeOK, Executions
    <3>2. /\ Len(Append(saved, Message(f))) = Len(saved) + 1
          /\ Append(saved, Message(f)) # <<>>
          /\ \A i \in DOMAIN Append(saved, Message(f)) :
               \/ i \in DOMAIN saved /\ Append(saved, Message(f))[i] = saved[i]
               \/ Append(saved, Message(f))[i] = Message(f)
      BY <2>5, <3>1, AppendedElements
    <3>3. CASE saved' = saved
      <4>1. Append(saved, Message(f)) # saved
        BY <3>1, <3>2
      <4> QED
        BY <2>4, <3>3, <4>1
    <3>4. CASE saved' = Append(saved, Message(f))
      BY <2>4, <3>2, <3>4
    <3> QED
      BY <2>3, <3>3, <3>4
  <2>7. Len(saved') \in {lost', lost' + 1} /\ (finisher'[f].pc = "save" => Len(saved') = lost')
    BY <2>3, <2>4, <2>6
  <2>8. SaveClaimed'
    <3>1. UnclaimedUnsaved'
      BY <2>1, <2>4 DEF UnclaimedUnsaved
    <3>2. SaverIsAlone'
      BY <2>1, <2>2, <2>4 DEF SaverIsAlone
    <3>3. SavedByMe'
      BY <2>2, <2>4, <2>6, <2>7 DEF SavedByMe, Message
    <3> QED
      BY <3>1, <3>2, <3>3 DEF SaveClaimed
  <2>9. SavedOnce'
    <3>1. lost' \in Nat
      OBVIOUS
    <3>2. Len(saved') <= 1 + lost'
      <4> HIDE DEF IInv, TypeOK, Executions
      <4>1. \A n \in Nat : n <= 1 + n /\ n + 1 <= 1 + n
        OBVIOUS
      <4> QED
        BY <2>7, <3>1, <4>1
    <3> QED
      BY <2>6, <3>2 DEF SavedOnce
  <2>10. FinalComesFirst'
    BY <2>1, <2>2 DEF Completions, FinalComesFirst
  <2>11. CompletionNeedsFinal'
    <3>1. (\E i \in DOMAIN saved' : ~saved'[i].interrupted) => finalSeen'
      BY <2>1, <2>5, <2>6 DEF Completions, FinalComesFirst
    <3> QED
      BY <2>1, <3>1 DEF Completions, CompletionNeedsFinal
  <2>12. Verdicts' /\ DoneReleasesClient'
    BY <2>1 DEF Verdicts, VerdictWithDone, OneVerdict, DoneReleasesClient
  <2>13. Records'
    BY <2>1, <2>2 DEF Records, RecordComesFirst, DoneIsRecorded
  <2>14. Pushes'
    <3>1. finisher'[f].pc = "publish" => saved' # <<>>
      BY <2>3, <2>6
    <3> QED
      BY <2>1, <2>2, <2>6, <3>1 DEF Pushes, MessageComesFirst, PushFollowsMessage
  <2> QED
    BY <2>8, <2>9, <2>10, <2>11, <2>12, <2>13, <2>14 DEF Completions
<1>3. CASE Published(f)
  <2>1. /\ UNCHANGED <<persisted, saved, lost, status, pushed, verdicts, done, unrecorded,
                       deferred, finalSeen, hold>>
        /\ messageId' \in {messageId, TRUE}
        /\ finisher[f].pc = "publish"
    BY <1>3 DEF Published, flags, world
  <2>2. /\ finisher'[f].pc = "record" /\ finisher'[f].kind = finisher[f].kind
        /\ \A g \in Finishers \ {f} : finisher'[g] = finisher[g]
    BY <1>3, GotoMoves DEF Published
  <2>3. SaveClaimed' /\ SavedOnce'
    BY <2>1, <2>2, ClaimKept
  <2>4. Completions' /\ Records'
    BY <2>1, <2>2 DEF Completions, FinalComesFirst, CompletionNeedsFinal,
                      Records, RecordComesFirst, DoneIsRecorded
  <2>5. Verdicts' /\ DoneReleasesClient'
    BY <2>1 DEF Verdicts, VerdictWithDone, OneVerdict, DoneReleasesClient
  <2>6. Pushes'
    BY <2>1, <2>2 DEF Pushes, MessageComesFirst, PushFollowsMessage
  <2> QED
    BY <2>3, <2>4, <2>5, <2>6
<1>4. CASE Recorded(f)
  <2>1. /\ UNCHANGED <<persisted, saved, messageId, lost, pushed, verdicts, done, deferred,
                       finalSeen, hold>>
        /\ finisher[f].pc = "record"
    BY <1>4 DEF Recorded, flags, message, world
  <2>2. \/ Goto(f, "notify") /\ messageId
        \/ Goto(f, "close")
        \/ QueryFails(f, "close")
    BY <1>4 DEF Recorded
  <2>3. /\ finisher'[f].pc \in {"record", "notify", "close"}
        /\ finisher'[f].kind = finisher[f].kind
        /\ finisher'[f].pc = "notify" => messageId
        /\ \A g \in Finishers \ {f} : finisher'[g] = finisher[g]
    BY <2>1, <2>2, GotoMoves, QueryFailsMoves
  <2>4. /\ status' \in {status, StatusOf(finisher[f].kind)}
        /\ unrecorded => unrecorded'
        /\ finisher'[f].pc \in {"notify", "close"} =>
              status' = StatusOf(finisher[f].kind) \/ unrecorded'
    <3> HIDE DEF IInv, TypeOK, Executions
    <3>1. CASE status' = StatusOf(finisher[f].kind) /\ UNCHANGED unrecorded
      BY <3>1
    <3>2. CASE /\ status' \in {status, StatusOf(finisher[f].kind)}
               /\ unrecorded' = (unrecorded \/ finisher'[f].pc = "close")
               /\ finisher'[f].pc # "notify"
      BY <3>2
    <3>3. QueryFails(f, "close") => finisher'[f].pc # "notify"
      BY <2>1, QueryFailsMoves DEF IInv
    <3> QED
      BY <1>4, <3>1, <3>2, <3>3 DEF Recorded
  <2>5. /\ StatusOf(finisher[f].kind) # "running"
        /\ StatusOf(finisher[f].kind) = "completed" => finisher[f].kind = "complete"
    BY DEF StatusOf, Kinds
  <2>6. SaveClaimed' /\ SavedOnce'
    BY <2>1, <2>3, ClaimKept
  <2>7. Completions'
    BY <2>1, <2>3, <2>4, <2>5 DEF Completions, FinalComesFirst, CompletionNeedsFinal
  <2>8. Records'
    BY <2>1, <2>3, <2>4, <2>5 DEF Records, RecordComesFirst, DoneIsRecorded
  <2>9. Verdicts' /\ DoneReleasesClient'
    BY <2>1 DEF Verdicts, VerdictWithDone, OneVerdict, DoneReleasesClient
  <2>10. Pushes'
    BY <2>1, <2>3 DEF Pushes, MessageComesFirst, PushFollowsMessage
  <2> QED
    BY <2>6, <2>7, <2>8, <2>9, <2>10
<1>5. CASE Notified(f)
  <2>1. /\ UNCHANGED <<persisted, saved, messageId, lost, status, verdicts, done, unrecorded,
                       deferred, finalSeen, hold>>
        /\ finisher[f].pc = "notify"
    BY <1>5 DEF Notified, flags, message, world
  <2>2. /\ finisher'[f].pc = "close" /\ finisher'[f].kind = finisher[f].kind
        /\ \A g \in Finishers \ {f} : finisher'[g] = finisher[g]
    BY <1>5, GotoMoves DEF Notified
  <2>3. SaveClaimed' /\ SavedOnce'
    BY <2>1, <2>2, ClaimKept
  <2>4. Completions' /\ Records' /\ Pushes'
    BY <2>1, <2>2 DEF Completions, FinalComesFirst, CompletionNeedsFinal,
                Records, RecordComesFirst, DoneIsRecorded, Pushes, MessageComesFirst, PushFollowsMessage
  <2>5. Verdicts' /\ DoneReleasesClient'
    BY <2>1 DEF Verdicts, VerdictWithDone, OneVerdict, DoneReleasesClient
  <2> QED
    BY <2>3, <2>4, <2>5
<1>6. CASE Closed(f)
  <2>1. /\ UNCHANGED <<persisted, saved, messageId, lost, status, pushed, unrecorded, deferred,
                       finalSeen>>
        /\ done' /\ hold' # "held"
        /\ finisher[f].pc = "close"
    BY <1>6 DEF Closed, flags, message, world
  <2>2. /\ finisher'[f].pc = "free" /\ finisher'[f].kind = "abort"
        /\ \A g \in Finishers \ {f} : finisher'[g] = finisher[g]
    BY <1>6, LeaveMoves DEF Closed
  <2>3. SaveClaimed' /\ SavedOnce'
    BY <2>1, <2>2, ClaimKept
  <2>4. Records' /\ Pushes' /\ DoneReleasesClient'
    BY <2>1, <2>2 DEF Records, RecordComesFirst, DoneIsRecorded, Pushes,
                MessageComesFirst, PushFollowsMessage, DoneReleasesClient
  <2>5. \/ verdicts' = verdicts
        \/ /\ ~done
           /\ \E v \in {"run_completed", "run_aborted"} :
                /\ verdicts' = Append(verdicts, v)
                /\ v = "run_completed" => finisher[f].kind = "complete"
    BY <1>6 DEF Closed
  <2>6. /\ \A i \in DOMAIN verdicts' : verdicts'[i] # "run_error" => i = Len(verdicts')
        /\ "run_completed" \in {verdicts'[i] : i \in DOMAIN verdicts'}
             => \/ "run_completed" \in {verdicts[i] : i \in DOMAIN verdicts}
                \/ finisher[f].kind = "complete"
    <3>1. CASE verdicts' = verdicts
      BY <3>1 DEF Verdicts, OneVerdict
    <3>2. ASSUME ~done, NEW v \in {"run_completed", "run_aborted", "run_error"},
                 verdicts' = Append(verdicts, v), v = "run_completed" => finisher[f].kind = "complete"
          PROVE  <2>6!1 /\ <2>6!2
      <4>1. \A i \in DOMAIN verdicts : verdicts[i] = "run_error"
        BY <3>2 DEF Verdicts, VerdictWithDone
      <4>2. \A i \in DOMAIN verdicts' :
              verdicts'[i] = "run_error" \/ (i = Len(verdicts') /\ verdicts'[i] = v)
        BY <3>2, <4>1, AppendedElements
      <4> QED
        BY <3>2, <4>2
    <3> QED
      BY <2>5, <3>1, <3>2
  <2>7. Verdicts'
    BY <2>1, <2>6 DEF Verdicts, VerdictWithDone, OneVerdict
  <2>8. FinalComesFirst'
    BY <2>1, <2>2 DEF Completions, FinalComesFirst
  <2>9. CompletionNeedsFinal'
    BY <2>1, <2>6 DEF Completions, FinalComesFirst, CompletionNeedsFinal
  <2> QED
    BY <2>3, <2>4, <2>7, <2>8, <2>9 DEF Completions
<1> QED
  BY <1>1, <1>2, <1>3, <1>4, <1>5, <1>6 DEF Finish

LEMMA InitInv == Init => IInv
<1> SUFFICES ASSUME Init PROVE IInv
  OBVIOUS
<1>1. \A f \in Finishers : finisher[f].pc = "free" /\ finisher[f].kind = "abort"
  BY DEF Init, Idle
<1>2. Len(saved) = 0 /\ Len(verdicts) = 0
  BY DEF Init
<1>6. ~done /\ ~deferred
  BY DEF Init
<1>7. saved = <<>> /\ verdicts = <<>> /\ ~messageId /\ lost = 0 /\ status = "running" /\ pushed = 0
  BY DEF Init
<1>3. SaveClaimed /\ SavedOnce /\ Verdicts
  BY <1>1, <1>2, <1>7 DEF SaveClaimed, UnclaimedUnsaved, SaverIsAlone, SavedByMe, SavedOnce, Verdicts, VerdictWithDone, OneVerdict
<1>4. Completions
  BY <1>1, <1>6, <1>7 DEF Completions, FinalComesFirst, CompletionNeedsFinal
<1>5. DoneReleasesClient /\ Records /\ Pushes
  BY <1>1, <1>6, <1>7 DEF DoneReleasesClient, Records, RecordComesFirst, DoneIsRecorded, Pushes,
             MessageComesFirst, PushFollowsMessage
<1> QED
  BY <1>3, <1>4, <1>5, InitTyped DEF IInv

LEMMA NextInv == IInv /\ [Next]_vars => IInv'
<1> SUFFICES ASSUME IInv, [Next]_vars PROVE IInv'
  OBVIOUS
<1>1. TypeOK'
  BY NextTyped DEF IInv
<1>2. CASE UNCHANGED vars
  <2>1. QuietStep
    BY <1>2 DEF vars, QuietStep, IInv, DoneReleasesClient, Completions, FinalComesFirst
  <2> QED
    BY <1>1, <2>1, QuietPreserves
<1>3. CASE \E f \in Finishers : Finish(f)
  BY <1>1, <1>3, FinishPreserves
<1>4. CASE GatewayEvent
  BY <1>1, <1>4, EventsQuiet, QuietPreserves
<1>5. CASE Next /\ ~GatewayEvent /\ ~(\E f \in Finishers : Finish(f))
  <2>1. QuietStep
    BY <1>5, ServerStepsQuiet DEF Next, Server
  <2> QED
    BY <1>1, <2>1, QuietPreserves
<1> QED
  BY <1>2, <1>3, <1>4, <1>5

\* Whatever ends a turn, and however often, one assistant message is stored,
\* but for copies of it by retries of inserts whose answer was lost.
THEOREM MessageSavedOnce == Spec => []SavedOnce
<1>1. Init => IInv
  BY InitInv
<1>2. IInv /\ [Next]_vars => IInv'
  BY NextInv
<1>3. IInv => SavedOnce
  BY DEF IInv, Verdicts, Completions, Records, Pushes
<1> QED
  BY <1>1, <1>2, <1>3, PTL DEF Spec

\* The browser and the other windows are told one outcome, and nothing after it.
THEOREM VerdictSentOnce == Spec => []OneVerdict
<1>1. Init => IInv
  BY InitInv
<1>2. IInv /\ [Next]_vars => IInv'
  BY NextInv
<1>3. IInv => OneVerdict
  BY DEF IInv, Verdicts, Completions, Records, Pushes
<1> QED
  BY <1>1, <1>2, <1>3, PTL DEF Spec

\* Nothing completes a run but the gateway's own final event.
THEOREM NoCompletionWithoutFinal == Spec => []CompletionNeedsFinal
<1>1. Init => IInv
  BY InitInv
<1>2. IInv /\ [Next]_vars => IInv'
  BY NextInv
<1>3. IInv => CompletionNeedsFinal
  BY DEF IInv, Verdicts, Completions, Records, Pushes
<1> QED
  BY <1>1, <1>2, <1>3, PTL DEF Spec

\* A turn that is done keeps no gateway client from the pool.
THEOREM ClientReleasedWhenDone == Spec => []DoneReleasesClient
<1>1. Init => IInv
  BY InitInv
<1>2. IInv /\ [Next]_vars => IInv'
  BY NextInv
<1>3. IInv => DoneReleasesClient
  BY DEF IInv, Verdicts, Completions, Records, Pushes
<1> QED
  BY <1>1, <1>2, <1>3, PTL DEF Spec

\* A turn that is done has a terminal row, or the database refused an update.
THEOREM RunRecordedWhenDone == Spec => []DoneIsRecorded
<1>1. Init => IInv
  BY InitInv
<1>2. IInv /\ [Next]_vars => IInv'
  BY NextInv
<1>3. IInv => DoneIsRecorded
  BY DEF IInv, Verdicts, Completions, Records, Pushes
<1> QED
  BY <1>1, <1>2, <1>3, PTL DEF Spec

\* Nobody is notified of a message that is not stored.
THEOREM MessageBeforePush == Spec => []PushFollowsMessage
<1>1. Init => IInv
  BY InitInv
<1>2. IInv /\ [Next]_vars => IInv'
  BY NextInv
<1>3. IInv => PushFollowsMessage
  BY DEF IInv, Verdicts, Completions, Records, Pushes
<1> QED
  BY <1>1, <1>2, <1>3, PTL DEF Spec

-----------------------------------------------------------------------------
(* Deferred turns are polled. A poll may be cancelled only by an execution *)
(* of finishStream that cannot come back: it goes on until it sets done.   *)

Ending == \E f \in Finishers : finisher[f].pc \in {"save", "publish", "record", "notify", "close"}

PollInv == deferred /\ ~done /\ ~cancelled /\ polls < MaxPolls
             => Ending \/ poll \/ polling # "no"

\* Calling finishStream leaves the executions past the recovery where they are.
LEMMA BeginKeepsEnding ==
  ASSUME TypeOK, NEW kind \in Kinds, Begin(kind)
  PROVE  Ending => Ending'
<1>1. PICK f \in Finishers : /\ finisher[f].pc = "free"
                             /\ \A g \in Finishers : g # f => finisher'[g] = finisher[g]
  BY BeginTakesFreeSlot DEF TypeOK
<1> QED
  BY <1>1 DEF Ending

\* Steps that take no poll away, and no execution of finishStream.
LEMMA PollsKept ==
  ASSUME TypeOK, PollInv,
         finisher' = finisher \/ (\E kind \in Kinds : Begin(kind)),
         deferred' = deferred, done' = done, cancelled => cancelled',
         polls' = polls, poll => poll', polling # "no" => polling' # "no"
  PROVE  PollInv'
<1>1. Ending => Ending'
  BY BeginKeepsEnding DEF Ending
<1> QED
  BY <1>1 DEF PollInv

\* startHistoryPolling schedules a poll while the turn is neither done nor cancelled.
LEMMA StartPollingPolls ==
  ASSUME TypeOK, StartPolling, done' = done, cancelled' = cancelled
  PROVE  PollInv'
  BY DEF StartPolling, PollInv, TypeOK

LEMMA ReschedulePolls ==
  ASSUME TypeOK, Reschedule, done' = done, cancelled' = cancelled, polls' = polls
  PROVE  PollInv'
  BY DEF Reschedule, PollInv, TypeOK

LEMMA EventPolls == TypeOK /\ PollInv /\ GatewayEvent => PollInv'
<1> SUFFICES ASSUME TypeOK, PollInv, GatewayEvent PROVE PollInv'
  OBVIOUS
<1>1. Receive /\ UNCHANGED <<done, cancelled, polling, polls>>
  BY DEF GatewayEvent, Delta, ToolEvent, SourceReply, Final, Aborted, Error, Receive, results, records
<1>2. \/ /\ UNCHANGED <<deferred, poll>>
         /\ finisher' = finisher \/ Begin("complete") \/ Begin("abort") \/ Begin("fail")
      \/ StartPolling
  <2>1. CASE \E t \in {"", "answer", "placeholder"}, b \in BOOLEAN : Final(t, b)
    BY <2>1 DEF Final, Defer
  <2>2. CASE ~\E t \in {"", "answer", "placeholder"}, b \in BOOLEAN : Final(t, b)
    BY <2>2 DEF GatewayEvent, Delta, ToolEvent, SourceReply, Aborted, Error, flags
  <2> QED
    BY <2>1, <2>2
<1> QED
  BY <1>1, <1>2, PollsKept, StartPollingPolls DEF Kinds

LEMMA PollingPolls == TypeOK /\ PollInv /\ (PollFires \/ PollReads \/ PollFinished) => PollInv'
<1> SUFFICES ASSUME TypeOK, PollInv, PollFires \/ PollReads \/ PollFinished PROVE PollInv'
  OBVIOUS
<1>1. CASE PollFires
  <2>1. /\ finisher' = finisher /\ deferred' = deferred /\ done' = done
        /\ cancelled' = cancelled
    BY <1>1 DEF PollFires, flags, results, records
  <2>2. Ending' <=> Ending
    BY <2>1 DEF Ending
  <2>3. \/ done \/ cancelled \/ (polls >= MaxPolls /\ polls' = polls)
        \/ (polling # "no" /\ polling' = polling)
        \/ polling' = "reading"
    BY <1>1 DEF PollFires
  <2>4. ~(polls >= MaxPolls /\ polls < MaxPolls)
    BY BoundsAssumption DEF TypeOK
  <2> QED
    BY <2>1, <2>2, <2>3, <2>4 DEF PollInv
<1>2. CASE PollReads
  <2>1. /\ done' = done /\ cancelled' = cancelled /\ polls' = polls
    BY <1>2 DEF PollReads, results, records
  <2>2. Reschedule \/ polling' = "finishing"
    BY <1>2 DEF PollReads
  <2> QED
    BY <2>1, <2>2, ReschedulePolls DEF PollInv
<1>3. CASE PollFinished
  BY <1>3, ReschedulePolls DEF PollFinished, results, records
<1> QED
  BY <1>1, <1>2, <1>3

LEMMA FinishPolls == ASSUME TypeOK, PollInv, NEW f \in Finishers, Finish(f) PROVE PollInv'
<1>1. UNCHANGED <<cancelled, polling, polls>>
  BY DEF Finish, Recovered, Saved, Published, Recorded, Notified, Closed
<1>2. CASE Recovered(f)
  <2>1. finisher[f].pc = "recover" /\ done' = done
    BY <1>2 DEF Recovered
  <2>6. full' \in Texts
    BY <1>2, SnapshotTyped, RecoverableTexts DEF Recovered, Texts
  <2>2. \/ Leave(f) /\ UNCHANGED <<deferred, poll>>
        \/ StartPolling
        \/ ClaimMessage(f)
    BY <1>2 DEF Recovered, Defer, flags, timers
  <2>3. CASE Leave(f) /\ UNCHANGED <<deferred, poll>>
    <3>1. Ending => Ending'
      BY <2>1, <2>3 DEF Ending, Leave, TypeOK
    <3> QED
      BY <1>1, <2>1, <2>3, <3>1 DEF PollInv
  <2>4. CASE StartPolling
    BY <1>1, <2>1, <2>4, StartPollingPolls
  <2>5. CASE ClaimMessage(f)
    <3>1. finisher'[f].pc \in {"record", "save"}
      BY <2>5, <2>6, ClaimMoves
    <3> QED
      BY <3>1 DEF PollInv, Ending
  <2> QED
    BY <2>2, <2>3, <2>4, <2>5
<1>3. CASE Saved(f) \/ Published(f) \/ Recorded(f) \/ Notified(f)
  <2>1. finisher'[f].pc \in {"save", "publish", "record", "notify", "close"}
    BY <1>3, GotoMoves, QueryFailsMoves DEF Saved, Published, Recorded, Notified
  <2> QED
    BY <2>1 DEF PollInv, Ending
<1>4. CASE Closed(f)
  BY <1>4 DEF Closed, PollInv
<1> QED
  BY <1>2, <1>3, <1>4 DEF Finish

LEMMA NextPolls == TypeOK /\ PollInv /\ [Next]_vars => PollInv'
<1> SUFFICES ASSUME TypeOK, PollInv, [Next]_vars PROVE PollInv'
  OBVIOUS
<1>1. CASE GatewayEvent
  BY <1>1, EventPolls
<1>2. CASE PollFires \/ PollReads \/ PollFinished
  BY <1>2, PollingPolls
<1>3. CASE \E f \in Finishers : Finish(f)
  BY <1>3, FinishPolls
<1>4. CASE Sent
  <2>1. UNCHANGED <<finisher, deferred, done, cancelled, polling, polls>>
    BY <1>4 DEF Sent, flags, results, records
  <2>2. UNCHANGED poll \/ StartPolling
    BY <1>4 DEF Sent
  <2> QED
    BY <2>1, <2>2, PollsKept, StartPollingPolls
<1>5. CASE AcquireFails \/ SendFails
  <2>1. UNCHANGED <<deferred, done, cancelled, polling, polls, poll>>
    BY <1>5 DEF AcquireFails, SendFails, TurnFails, flags, timers, results, records
  <2>2. finisher' = finisher \/ Begin("fail")
    BY <1>5 DEF AcquireFails, SendFails, TurnFails
  <2> QED
    BY <2>1, <2>2, PollsKept DEF Kinds
<1>6. CASE StartTurn \/ Acquired \/ AbortRejected \/ LateAbort \/ Disconnect \/ Drop
           \/ Transcribe \/ UNCHANGED vars
  <2>1. UNCHANGED <<finisher, deferred, done, cancelled, polling, polls, poll>>
    BY <1>6 DEF StartTurn, Acquired, AbortRejected, LateAbort, Disconnect, Drop, Transcribe,
                flags, timers, results, records, vars
  <2> QED
    BY <2>1, PollsKept
<1>7. CASE AbortAcknowledged \/ InactivityFires \/ Abort
  <2>1. UNCHANGED <<deferred, done, polling, polls, poll>> /\ (cancelled => cancelled')
    BY <1>7 DEF AbortAcknowledged, InactivityFires, Abort, flags, timers, results, records
  <2>2. finisher' = finisher \/ Begin("abort")
    BY <1>7 DEF AbortAcknowledged, InactivityFires, Abort
  <2> QED
    BY <2>1, <2>2, PollsKept DEF Kinds
<1> QED
  BY <1>1, <1>2, <1>3, <1>4, <1>5, <1>6, <1>7 DEF Next, Server

\* A turn whose final event brought no answer is polled while attempts are left.
THEOREM DeferredIsPolled == Spec => []DeferredTurnIsPolled
<1>1. Init => TypeOK /\ PollInv
  BY InitTyped DEF Init, PollInv
<1>2. TypeOK /\ PollInv /\ [Next]_vars => TypeOK' /\ PollInv'
  BY NextTyped, NextPolls
<1>3. PollInv => DeferredTurnIsPolled
  BY DEF PollInv, DeferredTurnIsPolled, Waiting, Ending
<1> QED
  BY <1>1, <1>2, <1>3, PTL DEF Spec

\* However many executions of finishStream overlap, a turn has one message (or
\* copies of it by retries), one verdict and notifies only of what it stored.
THEOREM TurnHasOneOutcome == Spec => []OneOutcome
  BY TypeCorrect, MessageSavedOnce, VerdictSentOnce, MessageBeforePush, PTL
  DEF OneOutcome

\* A turn that is over is over for its row, the pool and the gateway.
THEOREM TurnIsOverEverywhere == Spec => []DoneIsDone
  BY NoCompletionWithoutFinal, ClientReleasedWhenDone, RunRecordedWhenDone, PTL
  DEF DoneIsDone
=============================================================================
