-------------------------- MODULE ChatPage_proofs --------------------------
(***************************************************************************)
(* Theorems about ChatPage, for any conversations, messages and texts.     *)
(*                                                                         *)
(* DestInv ties the stage of a message to where it goes; without it not    *)
(* even the types are inductive.  QueueInv says that the queue is what is  *)
(* queued.  EntryInv places every entry of the store.  CalmInv is what     *)
(* holds as long as the user stays: everything under way was written in    *)
(* the conversation on the screen, which the reference names.  ScreenInv   *)
(* is the weaker fact that survives turns of other conversations: what     *)
(* will still touch the screen belongs to it.  The end of a turn and its   *)
(* queue, and the sending of a message, are seen by all of them through    *)
(* MovesOn and MovesAlone.                                                 *)
(***************************************************************************)
EXTENDS ChatPage, SequenceTheorems, TLAPS

USE PageAssumption

Opened(m) == stage[m] \in {"streaming", "answered", "cancelled", "failed"}
Waiting(m) == stage[m] \in {"due", "uploading"}

\* A message has a conversation once it is on its way, and nothing is known of it at
\* the server before its turn has begun.
DestInv ==
  \A m \in Messages :
    /\ stage[m] \in {"unwritten", "queued"} => dest[m] = Nothing
    /\ stage[m] # "unwritten" => written[m] \in Conversations
    /\ UnderWay(m) \/ Opened(m) => dest[m] \in Conversations
    /\ m \in saved \/ heard[m] # {} => Opened(m)

\* The queue holds each message that waits for its turn, once.
QueueInv ==
  /\ \A i \in 1..Len(queue) : stage[queue[i]] = "queued"
  /\ \A i, j \in 1..Len(queue) : queue[i] = queue[j] => i = j
  /\ \A m \in Messages : stage[m] = "queued" => \E i \in 1..Len(queue) : queue[i] = m

LEMMA NextQueuedType ==
  ASSUME PageTypeOK, NEW m \in Messages, NEW end \in Stages, NextQueued(m, end)
  PROVE  /\ stage' \in [Messages -> Stages]
         /\ dest' \in [Messages -> Conversations \cup {Nothing}]
         /\ queue' \in Seq(Messages)
<1>1. CASE queue = <<>>
  BY <1>1 DEF NextQueued, PageTypeOK
<1>2. CASE queue # <<>>
  <2>1. Head(queue) \in Messages /\ Tail(queue) \in Seq(Messages)
    BY <1>2, HeadTailProperties DEF PageTypeOK
  <2>2. queue' \in Seq(Messages)
    BY <1>2, <2>1 DEF NextQueued, PageTypeOK
  <2>3. stage' \in [Messages -> Stages]
    BY <1>2, <2>1 DEF NextQueued, PageTypeOK, Stages
  <2>4. dest' \in [Messages -> Conversations \cup {Nothing}]
    BY <1>2, <2>1 DEF NextQueued, PageTypeOK
  <2>. QED
    BY <2>2, <2>3, <2>4
<1>. QED
  BY <1>1, <1>2

LEMMA SettleType ==
  ASSUME PageTypeOK, NEW m \in Messages, NEW end \in Stages, Settle(m, end)
  PROVE  /\ stage' \in [Messages -> Stages]
         /\ dest' \in [Messages -> Conversations \cup {Nothing}]
         /\ queue' \in Seq(Messages)
         /\ loading' \in BOOLEAN
         /\ requestKey' \in Conversations \cup {Nothing}
         /\ {controller', runRef'} \subseteq Messages \cup {Nothing}
<1>1. NextQueued(m, end)
  BY DEF Settle
<1>2. loading \in BOOLEAN /\ requestKey \in Conversations \cup {Nothing}
  BY DEF PageTypeOK
<1>3. loading' \in BOOLEAN
  BY <1>2 DEF Settle
<1>4. requestKey' \in Conversations \cup {Nothing}
  BY <1>2 DEF Settle
<1>5. {controller', runRef'} \subseteq Messages \cup {Nothing}
  BY DEF Settle
<1>. QED
  BY <1>1, <1>3, <1>4, <1>5, NextQueuedType

LEMMA StoreType ==
  ASSUME PageTypeOK, NEW c \in Conversations, NEW S, S \subseteq Entry,
         NEW k \in Conversations, StoreBecomes(c, S, k)
  PROVE  store' \in [Conversations -> SUBSET Entry] /\ listOf' \in Conversations
  BY DEF StoreBecomes, PageTypeOK

LEMMA EntryType ==
  ASSUME NEW m \in Messages
  PROVE  E("typed", m) \in Entry /\ E("user", m) \in Entry /\ E("answer", m) \in Entry
  BY DEF E, Entry

LEMMA OpensType ==
  ASSUME PageTypeOK, NEW m \in Messages, NEW c \in Conversations, Opens(m, c)
  PROVE  /\ ref' \in Conversations /\ listOf' \in Conversations
         /\ store' \in [Conversations -> SUBSET Entry]
         /\ stage' \in [Messages -> Stages]
         /\ dest' \in [Messages -> Conversations \cup {Nothing}]
         /\ {controller', runRef'} \subseteq Messages \cup {Nothing}
         /\ loading' \in BOOLEAN /\ requestKey' \in Conversations
         /\ UNCHANGED <<text, queue, view, stops, heard, saved, reloads, strayed, uprooted>>
<1>1. store[c] \cup {E("typed", m)} \subseteq Entry
  BY EntryType DEF PageTypeOK
<1>2. store' \in [Conversations -> SUBSET Entry] /\ listOf' \in Conversations
  BY <1>1, StoreType DEF Opens
<1>. QED
  BY <1>2 DEF Opens, PageTypeOK, Stages

LEMMA SendingType ==
  ASSUME PageTypeOK, NEW m \in Messages, NEW c \in Conversations,
         StaysLocal(m) \/ Creates(m, c) \/ Uploads(m, c) \/ Opens(m, c),
         written' \in [Messages -> Conversations \cup {Nothing}], swallowed' \in BOOLEAN
  PROVE  PageTypeOK'
<1>1. CASE StaysLocal(m)
  BY <1>1 DEF StaysLocal, PageTypeOK, listVars, Stages
<1>2. CASE Creates(m, c)
  BY <1>2 DEF Creates, PageTypeOK, listVars, Stages
<1>3. CASE Uploads(m, c)
  BY <1>3 DEF Uploads, PageTypeOK, listVars, Stages
<1>4. CASE Opens(m, c)
  BY <1>4, OpensType DEF PageTypeOK
<1>. QED
  BY <1>1, <1>2, <1>3, <1>4

LEMMA ReplaceType ==
  ASSUME NEW m \in Messages, NEW S, S \subseteq Entry
  PROVE  ReplaceOptimistic(S, m) \subseteq Entry
  BY EntryType DEF ReplaceOptimistic

LEMMA AbortsType ==
  ASSUME PageTypeOK, NEW m \in Messages, Aborts(m),
         UNCHANGED <<view, ref, heard, saved, ghostVars>>, stops' \subseteq Messages
  PROVE  PageTypeOK'
<1>1. Settle(m, "cancelled") /\ "cancelled" \in Stages /\ UNCHANGED <<text, listVars, reloads>>
  BY DEF Aborts, Stages
<1>. QED
  BY <1>1, SettleType DEF PageTypeOK, listVars, ghostVars

LEMMA TypeStep ==
  ASSUME PageTypeOK, DestInv, PageNext
  PROVE  PageTypeOK'
<1>1. ASSUME NEW m \in Messages, Send(m) PROVE PageTypeOK'
  <2>1. written' \in [Messages -> Conversations \cup {Nothing}] /\ swallowed' \in BOOLEAN
    BY <1>1 DEF Send, PageTypeOK
  <2>2. view \in Conversations
    BY DEF PageTypeOK
  <2>. QED
    BY <1>1, <2>1, <2>2, SendingType DEF Send
<1>2. ASSUME NEW m \in Messages, Enqueue(m) PROVE PageTypeOK'
  <2>1. queue' \in Seq(Messages)
    BY <1>2, AppendProperties DEF Enqueue, PageTypeOK
  <2>. QED
    BY <1>2, <2>1 DEF Enqueue, PageTypeOK, listVars, Stages
<1>3. ASSUME NEW m \in Messages, SendQueued(m) PROVE PageTypeOK'
  <2>1. written' \in [Messages -> Conversations \cup {Nothing}] /\ swallowed' \in BOOLEAN
    BY <1>3 DEF SendQueued, PageTypeOK
  <2>2. CASE StaysLocal(m)
    BY <2>1, <2>2, First \in Conversations, SendingType
  <2>3. CASE Creates(m, dest[m]) \/ Uploads(m, dest[m]) \/ Opens(m, dest[m])
    <3>1. dest[m] \in Conversations
      BY <1>3 DEF SendQueued, DestInv, UnderWay
    <3>. QED
      BY <2>1, <2>3, <3>1, SendingType
  <2>. QED
    BY <1>3, <2>2, <2>3 DEF SendQueued
<1>4. ASSUME NEW m \in Messages, Uploaded(m) PROVE PageTypeOK'
  <2>1. dest[m] \in Conversations
    BY <1>4 DEF Uploaded, DestInv, UnderWay
  <2>. QED
    BY <1>4, <2>1, SendingType DEF Uploaded, PageTypeOK
<1>5. ASSUME NEW m \in Messages, UploadFails(m) PROVE PageTypeOK'
  BY <1>5 DEF UploadFails, PageTypeOK, listVars, Stages
<1>6. ASSUME NEW m \in Messages, Created(m) PROVE PageTypeOK'
  <2>1. NextQueued(m, "created") /\ "created" \in Stages
    BY <1>6 DEF Created, Stages
  <2>. QED
    BY <1>6, <2>1, NextQueuedType DEF Created, PageTypeOK, listVars, ghostVars
<1>7. ASSUME NEW m \in Messages, HearRun(m) PROVE PageTypeOK'
  BY <1>7 DEF HearRun, PageTypeOK, listVars, ghostVars
<1>8. ASSUME NEW m \in Messages, HearUser(m) PROVE PageTypeOK'
  <2>1. dest[m] \in Conversations
    BY <1>8 DEF HearUser, DestInv, Opened
  <2>2. store' \in [Conversations -> SUBSET Entry] /\ listOf' \in Conversations
    <3> DEFINE S == ReplaceOptimistic(store[dest[m]], m)
    <3>1. S \subseteq Entry
      BY <2>1, ReplaceType DEF PageTypeOK
    <3>2. StoreBecomes(dest[m], S, ref) /\ ref \in Conversations
      BY <1>8 DEF HearUser, PageTypeOK
    <3> HIDE DEF S
    <3>. QED
      BY <2>1, <3>1, <3>2, StoreType
  <2>3. heard' \in [Messages -> SUBSET {"run", "user"}]
    BY <1>8 DEF HearUser, PageTypeOK
  <2>. QED
    BY <1>8, <2>2, <2>3 DEF HearUser, PageTypeOK, turnVars, ghostVars
<1>9. ASSUME NEW m \in Messages, Finish(m) PROVE PageTypeOK'
  <2>1. Settle(m, "answered") /\ "answered" \in Stages
    BY <1>9 DEF Finish, Stages
  <2>2. store' \in [Conversations -> SUBSET Entry] /\ listOf' \in Conversations
    <3>1. CASE UNCHANGED listVars
      BY <3>1 DEF listVars, PageTypeOK
    <3>2. CASE StoreBecomes(AnswerTo(m), store[AnswerTo(m)] \cup {E("answer", m)}, ref)
      <4>1. AnswerTo(m) \in Conversations /\ ref \in Conversations
        BY <1>9 DEF Finish, AnswerTo, DestInv, Opened, PageTypeOK
      <4>2. store[AnswerTo(m)] \cup {E("answer", m)} \subseteq Entry
        BY <4>1, EntryType DEF PageTypeOK
      <4>. QED
        BY <3>2, <4>1, <4>2, StoreType
    <3>. QED
      BY <1>9, <3>1, <3>2 DEF Finish
  <2>. QED
    BY <1>9, <2>1, <2>2, SettleType DEF Finish, PageTypeOK, ghostVars
<1>10. ASSUME NEW m \in Messages, Fail(m) PROVE PageTypeOK'
  <2>1. Settle(m, "failed") /\ "failed" \in Stages
    BY <1>10 DEF Fail, Stages
  <2>2. reloads' \subseteq Conversations /\ uprooted' \in BOOLEAN
    BY <1>10 DEF Fail, DestInv, Opened, PageTypeOK
  <2>. QED
    BY <1>10, <2>1, <2>2, SettleType DEF Fail, PageTypeOK, listVars
<1>11. ASSUME NEW m \in Messages, StopReturns(m) PROVE PageTypeOK'
  <2>1. stops' \subseteq Messages
    BY <1>11 DEF StopReturns, PageTypeOK
  <2>2. CASE controller # Nothing /\ Aborts(controller)
    BY <1>11, <2>1, <2>2, AbortsType DEF StopReturns, PageTypeOK
  <2>3. CASE UNCHANGED <<turnVars, listVars, reloads>>
    BY <1>11, <2>1, <2>3 DEF StopReturns, PageTypeOK, turnVars, listVars, ghostVars
  <2>. QED
    BY <1>11, <2>2, <2>3 DEF StopReturns
<1>12. ASSUME NEW m \in Messages, Saves(m) PROVE PageTypeOK'
  BY <1>12 DEF Saves, PageTypeOK, turnVars, listVars, ghostVars
<1>13. ASSUME NEW m \in Messages, Live(m) PROVE PageTypeOK'
  <2>1. dest[m] \in Conversations /\ ref \in Conversations
    BY <1>13 DEF Live, DestInv, Opened, PageTypeOK
  <2>2. store[dest[m]] \cup {E("user", m)} \subseteq Entry
    BY <2>1, EntryType DEF PageTypeOK
  <2>3. store' \in [Conversations -> SUBSET Entry] /\ listOf' \in Conversations
    BY <1>13, <2>1, <2>2, StoreType DEF Live
  <2>. QED
    BY <1>13, <2>3 DEF Live, PageTypeOK, turnVars, ghostVars
<1>14. ASSUME Escape PROVE PageTypeOK'
  BY <1>14, AbortsType DEF Escape, PageTypeOK
<1>15. ASSUME PressStop PROVE PageTypeOK'
  <2>1. CASE controller # Nothing /\ Aborts(controller) /\ UNCHANGED stops
    BY <1>15, <2>1, AbortsType DEF PressStop, PageTypeOK
  <2>2. CASE runRef # Nothing /\ stops' = stops \cup {runRef} /\ UNCHANGED <<turnVars, listVars, reloads>>
    BY <1>15, <2>2 DEF PressStop, PageTypeOK, turnVars, listVars, ghostVars
  <2>. QED
    BY <1>15, <2>1, <2>2 DEF PressStop
<1>16. ASSUME Recover PROVE PageTypeOK'
  BY <1>16 DEF Recover, PageTypeOK, turnVars, listVars, ghostVars
<1>17. ASSUME NEW c \in Conversations, SelectChannel(c) PROVE PageTypeOK'
  <2>1. {loading', strayed', uprooted'} \subseteq BOOLEAN
    BY <1>17 DEF SelectChannel, PageTypeOK, UnderWay
  <2>. QED
    BY <1>17, <2>1 DEF SelectChannel, PageTypeOK
<1>18. ASSUME NEW c \in Conversations, Reloaded(c) PROVE PageTypeOK'
  <2>1. store' \in [Conversations -> SUBSET Entry]
    BY <1>18, EntryType DEF Reloaded, PageTypeOK
  <2>. QED
    BY <1>18, <2>1 DEF Reloaded, PageTypeOK, turnVars, ghostVars
<1>19. ASSUME NEW c \in Conversations, ReloadFails(c) PROVE PageTypeOK'
  BY <1>19 DEF ReloadFails, PageTypeOK, turnVars, listVars, ghostVars
<1>. QED
  BY <1>1, <1>2, <1>3, <1>4, <1>5, <1>6, <1>7, <1>8, <1>9, <1>10, <1>11, <1>12, <1>13,
     <1>14, <1>15, <1>16, <1>17, <1>18, <1>19 DEF PageNext

-----------------------------------------------------------------------------
(* Who moves when a turn ends, and when a message is sent.                 *)

\* m ends and the first of the queue, if there is one, goes where m went.
MovesOn(m, end) ==
  /\ stage'[m] = end /\ dest'[m] = dest[m]
  /\ \A n \in Messages \ {m} :
       \/ stage'[n] = stage[n] /\ dest'[n] = dest[n]
       \/ stage[n] = "queued" /\ stage'[n] = "due" /\ dest'[n] = dest[m]
  /\ queue # <<>> => \E n \in Messages : stage'[n] = "due"
  /\ queue = <<>> => queue' = <<>>

\* Only m changes, and it is neither taken from the queue nor put into it.
MovesAlone(m) ==
  /\ queue' = queue
  /\ stage[m] # "queued" /\ stage'[m] \notin {"queued", "unwritten"}
  /\ \A n \in Messages \ {m} : stage'[n] = stage[n] /\ dest'[n] = dest[n]

\* What a step never changes: where a message went and was written, and that its
\* turn has begun.
KeepsPlace ==
  \A n \in Messages :
    /\ Opened(n) => Opened(n)'
    /\ dest[n] # Nothing => dest'[n] = dest[n]
    /\ stage[n] # "unwritten" => written'[n] = written[n]

LEMMA NextQueuedMoves ==
  ASSUME PageTypeOK, QueueInv, NEW m \in Messages, stage[m] \notin {"queued", "unwritten"},
         NEW end \in Stages \ {"queued", "unwritten"}, NextQueued(m, end)
  PROVE  MovesOn(m, end) /\ QueueInv'
<1>1. CASE queue = <<>>
  <2>1. stage' = [stage EXCEPT ![m] = end] /\ queue' = queue /\ dest' = dest
    BY <1>1 DEF NextQueued
  <2>2. \A n \in Messages : stage'[n] = IF n = m THEN end ELSE stage[n]
    BY <2>1 DEF PageTypeOK
  <2>. QED
    BY <1>1, <2>1, <2>2 DEF MovesOn, QueueInv, PageTypeOK
<1>2. CASE queue # <<>>
  <2> DEFINE h == Head(queue)
  <2>1. /\ h \in Messages /\ h = queue[1] /\ Tail(queue) \in Seq(Messages)
        /\ Len(queue) \in Nat \ {0}
        /\ Len(Tail(queue)) = Len(queue) - 1
        /\ \A i \in 1..Len(Tail(queue)) : Tail(queue)[i] = queue[i + 1]
    BY <1>2, HeadTailProperties, EmptySeq, LenProperties DEF PageTypeOK
  <2>2. stage[h] = "queued" /\ h # m
    BY <2>1 DEF QueueInv
  <2>3. /\ stage' = [stage EXCEPT ![m] = end, ![h] = "due"]
        /\ dest' = [dest EXCEPT ![h] = dest[m]]
        /\ queue' = Tail(queue)
    BY <1>2 DEF NextQueued
  <2> HIDE DEF h
  <2>4. \A n \in Messages :
          /\ stage'[n] = IF n = h THEN "due" ELSE IF n = m THEN end ELSE stage[n]
          /\ dest'[n] = IF n = h THEN dest[m] ELSE dest[n]
    BY <2>1, <2>2, <2>3 DEF PageTypeOK
  <2>5. MovesOn(m, end)
    BY <1>2, <2>1, <2>2, <2>4 DEF MovesOn
  <2>6. \A i \in 1..Len(queue') : queue'[i] = queue[i + 1] /\ i + 1 \in 1..Len(queue)
    BY <2>1, <2>3
  <2>7. \A i \in 1..Len(queue') : queue[i + 1] # h /\ queue[i + 1] # m /\ queue[i + 1] \in Messages
    BY <2>1, <2>2, <2>6 DEF QueueInv, PageTypeOK
  <2>8. (\A i \in 1..Len(queue) : stage[queue[i]] = "queued")'
    BY <2>4, <2>6, <2>7 DEF QueueInv
  <2>9. (\A i, j \in 1..Len(queue) : queue[i] = queue[j] => i = j)'
    BY <2>1, <2>3, <2>6 DEF QueueInv
  <2>10. ASSUME NEW n \in Messages, stage'[n] = "queued"
         PROVE  \E i \in 1..Len(queue') : queue'[i] = n
    <3>1. n # h /\ stage[n] = "queued"
      BY <2>4, <2>10
    <3>2. PICK i \in 1..Len(queue) : queue[i] = n
      BY <3>1 DEF QueueInv
    <3>3. i - 1 \in 1..Len(queue') /\ queue'[i - 1] = n
      BY <2>1, <2>3, <3>1, <3>2
    <3>. QED
      BY <3>3
  <2>. QED
    BY <2>5, <2>8, <2>9, <2>10 DEF QueueInv
<1>. QED
  BY <1>1, <1>2

LEMMA AloneKeepsQueue ==
  ASSUME PageTypeOK, QueueInv, NEW m \in Messages, MovesAlone(m)
  PROVE  QueueInv'
<1>1. \A i \in 1..Len(queue) : queue[i] \in Messages
  BY DEF PageTypeOK
<1>. QED
  BY <1>1 DEF MovesAlone, QueueInv

\* Sending a message to c changes nothing but that message and where the page is.
LEMMA SendingAlone ==
  ASSUME PageTypeOK, NEW m \in Messages, NEW c \in Conversations, stage[m] # "queued",
         StaysLocal(m) \/ Creates(m, c) \/ Uploads(m, c) \/ Opens(m, c)
  PROVE  /\ MovesAlone(m)
         /\ \/ stage'[m] = "local" /\ dest'[m] = dest[m] /\ UNCHANGED <<ref, loading, listVars>>
            \/ stage'[m] = "creating" /\ dest'[m] = c /\ UNCHANGED <<ref, listVars>>
            \/ stage'[m] = "uploading" /\ dest'[m] = c /\ UNCHANGED <<ref, loading, listVars>>
            \/ stage'[m] = "streaming" /\ dest'[m] = c /\ Opens(m, c)
         /\ UNCHANGED <<view, heard, saved, reloads, strayed, uprooted>>
<1>1. CASE StaysLocal(m)
  BY <1>1 DEF StaysLocal, MovesAlone, PageTypeOK
<1>2. CASE Creates(m, c)
  BY <1>2 DEF Creates, MovesAlone, PageTypeOK
<1>3. CASE Uploads(m, c)
  BY <1>3 DEF Uploads, MovesAlone, PageTypeOK
<1>4. CASE Opens(m, c)
  BY <1>4 DEF Opens, MovesAlone, PageTypeOK
<1>. QED
  BY <1>1, <1>2, <1>3, <1>4

\* The end of a turn.
LEMMA SettleMoves ==
  ASSUME PageTypeOK, QueueInv, NEW m \in Messages, stage[m] = "streaming",
         NEW end \in {"answered", "failed", "cancelled"}, Settle(m, end)
  PROVE  /\ MovesOn(m, end) /\ QueueInv'
         /\ ref = dest[m] => ~loading'
<1>1. NextQueued(m, end) /\ end \in Stages \ {"queued", "unwritten"}
  BY DEF Settle, Stages
<1>2. ref = dest[m] => ~loading'
  BY DEF Settle
<1>. QED
  BY <1>1, <1>2, NextQueuedMoves

\* What the rest of the page sees of a turn that is ended from this side.
LEMMA AbortsMoves ==
  ASSUME PageTypeOK, QueueInv, NEW m \in Messages, Aborts(m)
  PROVE  /\ stage[m] = "streaming" /\ MovesOn(m, "cancelled") /\ QueueInv'
         /\ ref = dest[m] => ~loading'
         /\ UNCHANGED <<listVars, reloads>>
  BY SettleMoves DEF Aborts

\* DestInv survives the end of a turn and the change of one message.
LEMMA MovesOnKeepsDest ==
  ASSUME PageTypeOK, DestInv, NEW m \in Messages, stage[m] \in {"streaming", "creating"},
         NEW end \in {"answered", "failed", "cancelled", "created"},
         Opened(m) => end # "created",
         MovesOn(m, end), UNCHANGED <<written, saved, heard>>
  PROVE  DestInv' /\ KeepsPlace
<1>1. dest[m] \in Conversations
  BY DEF DestInv, UnderWay
<1>2. DestInv'
  BY <1>1 DEF MovesOn, DestInv, UnderWay, Opened
<1>3. KeepsPlace
  BY <1>1 DEF MovesOn, DestInv, Opened, KeepsPlace
<1>. QED
  BY <1>2, <1>3

LEMMA AloneKeepsDest ==
  ASSUME PageTypeOK, DestInv, NEW m \in Messages, MovesAlone(m), UNCHANGED <<saved, heard>>,
         \A n \in Messages \ {m} : written'[n] = written[n],
         written'[m] \in Conversations,
         UnderWay(m)' \/ Opened(m)' => dest'[m] \in Conversations,
         ~Opened(m),
         dest[m] # Nothing => dest'[m] = dest[m],
         stage[m] # "unwritten" => written'[m] = written[m]
  PROVE  DestInv' /\ KeepsPlace
<1>1. DestInv'
  BY DEF MovesAlone, DestInv, UnderWay, Opened
<1>2. KeepsPlace
  BY DEF MovesAlone, DestInv, Opened, KeepsPlace
<1>. QED
  BY <1>1, <1>2

LEMMA DestStep ==
  ASSUME PageTypeOK, DestInv, QueueInv, PageNext
  PROVE  DestInv' /\ QueueInv' /\ KeepsPlace
<1>1. ASSUME NEW m \in Messages, Send(m) PROVE DestInv' /\ QueueInv' /\ KeepsPlace
  <2>1. view \in Conversations /\ stage[m] = "unwritten" /\ dest[m] = Nothing
    BY <1>1 DEF Send, IsNext, PageTypeOK, DestInv
  <2>2. \A n \in Messages : written'[n] = IF n = m THEN view ELSE written[n]
    BY <1>1 DEF Send, PageTypeOK
  <2>3. /\ MovesAlone(m)
        /\ UnderWay(m)' \/ Opened(m)' => dest'[m] \in Conversations
        /\ UNCHANGED <<saved, heard>>
    BY <1>1, <2>1, SendingAlone DEF Send, UnderWay, Opened
  <2>. QED
    BY <2>1, <2>2, <2>3, AloneKeepsDest, AloneKeepsQueue DEF Opened
<1>2. ASSUME NEW m \in Messages, Enqueue(m) PROVE DestInv' /\ QueueInv' /\ KeepsPlace
  <2>1. /\ view \in Conversations /\ stage[m] = "unwritten"
        /\ queue' = Append(queue, m) /\ UNCHANGED <<dest, saved, heard>>
    BY <1>2 DEF Enqueue, IsNext, PageTypeOK
  <2>2. \A n \in Messages : /\ stage'[n] = IF n = m THEN "queued" ELSE stage[n]
                            /\ written'[n] = IF n = m THEN view ELSE written[n]
    BY <1>2 DEF Enqueue, PageTypeOK
  <2>3. /\ Len(queue) \in Nat /\ Len(queue') = Len(queue) + 1 /\ queue'[Len(queue) + 1] = m
        /\ \A i \in 1..Len(queue) : queue'[i] = queue[i] /\ queue[i] \in Messages
    BY <2>1, AppendProperties, LenProperties DEF PageTypeOK
  <2>4. \A i \in 1..Len(queue) : queue[i] # m
    BY <2>1 DEF QueueInv
  <2>5. DestInv'
    BY <2>1, <2>2 DEF DestInv, UnderWay, Opened
  <2>6. ASSUME NEW i \in 1..Len(queue') PROVE stage'[queue'[i]] = "queued"
    <3>1. CASE i = Len(queue) + 1
      BY <2>2, <2>3, <3>1
    <3>2. CASE i \in 1..Len(queue)
      <4>1. stage[queue[i]] = "queued" /\ queue[i] # m /\ queue[i] \in Messages
        BY <2>3, <2>4, <3>2 DEF QueueInv
      <4>. QED
        BY <2>2, <2>3, <3>2, <4>1
    <3>. QED
      BY <2>3, <3>1, <3>2
  <2>7. (\A i, j \in 1..Len(queue) : queue[i] = queue[j] => i = j)'
    BY <2>1, <2>3, <2>4 DEF QueueInv
  <2>8. ASSUME NEW n \in Messages, stage'[n] = "queued"
        PROVE  \E i \in 1..Len(queue') : queue'[i] = n
    <3>1. CASE n = m
      BY <2>3, <3>1
    <3>2. CASE n # m
      <4>1. PICK i \in 1..Len(queue) : queue[i] = n
        BY <2>2, <2>8, <3>2 DEF QueueInv
      <4>. QED
        BY <2>3, <4>1
    <3>. QED
      BY <3>1, <3>2
  <2>9. KeepsPlace
    BY <2>1, <2>2 DEF KeepsPlace, Opened
  <2>. QED
    BY <2>5, <2>6, <2>7, <2>8, <2>9 DEF QueueInv
<1>3. ASSUME NEW m \in Messages, SendQueued(m) PROVE DestInv' /\ QueueInv' /\ KeepsPlace
  <2>1. stage[m] = "due" /\ UNCHANGED written /\ dest[m] \in Conversations
        /\ written[m] \in Conversations
    BY <1>3 DEF SendQueued, DestInv, UnderWay
  <2>2. MovesAlone(m) /\ dest'[m] = dest[m] /\ UNCHANGED <<saved, heard>>
    BY <1>3, <2>1, SendingAlone DEF SendQueued
  <2>. QED
    BY <2>1, <2>2, AloneKeepsDest, AloneKeepsQueue DEF Opened
<1>4. ASSUME NEW m \in Messages, Uploaded(m) PROVE DestInv' /\ QueueInv' /\ KeepsPlace
  <2>1. stage[m] = "uploading" /\ UNCHANGED written /\ dest[m] \in Conversations
        /\ written[m] \in Conversations
    BY <1>4 DEF Uploaded, DestInv, UnderWay
  <2>2. MovesAlone(m) /\ dest'[m] = dest[m] /\ UNCHANGED <<saved, heard>>
    BY <1>4, <2>1, SendingAlone DEF Uploaded
  <2>. QED
    BY <2>1, <2>2, AloneKeepsDest, AloneKeepsQueue DEF Opened
<1>5. ASSUME NEW m \in Messages, UploadFails(m) PROVE DestInv' /\ QueueInv' /\ KeepsPlace
  <2>1. stage[m] = "uploading" /\ UNCHANGED <<written, saved, heard, dest>>
        /\ written[m] \in Conversations
    BY <1>5 DEF UploadFails, DestInv
  <2>2. MovesAlone(m) /\ stage'[m] = "unsent"
    BY <1>5 DEF UploadFails, MovesAlone, PageTypeOK
  <2>. QED
    BY <2>1, <2>2, AloneKeepsDest, AloneKeepsQueue DEF Opened, UnderWay
<1>6. ASSUME NEW m \in Messages, Created(m) PROVE DestInv' /\ QueueInv' /\ KeepsPlace
  <2>1. stage[m] = "creating" /\ NextQueued(m, "created") /\ UNCHANGED <<written, saved, heard>>
    BY <1>6 DEF Created, ghostVars
  <2>2. "created" \in Stages \ {"queued", "unwritten"}
    BY DEF Stages
  <2>. QED
    BY <2>1, <2>2, NextQueuedMoves, MovesOnKeepsDest DEF Opened
<1>7. ASSUME NEW m \in Messages, HearRun(m) \/ HearUser(m) PROVE DestInv' /\ QueueInv' /\ KeepsPlace
  <2>1. stage[m] = "streaming" /\ UNCHANGED <<stage, dest, queue, written, saved>>
    BY <1>7 DEF HearRun, HearUser, turnVars, ghostVars
  <2>2. \A n \in Messages \ {m} : heard'[n] = heard[n]
    BY <1>7 DEF HearRun, HearUser, PageTypeOK
  <2>. QED
    BY <2>1, <2>2 DEF DestInv, QueueInv, UnderWay, Opened, KeepsPlace
<1>8. ASSUME NEW m \in Messages, Finish(m) \/ Fail(m) PROVE DestInv' /\ QueueInv' /\ KeepsPlace
  <2>1. PICK end \in {"answered", "failed"} : Settle(m, end)
    BY <1>8 DEF Finish, Fail
  <2>2. stage[m] = "streaming" /\ UNCHANGED <<written, saved, heard>>
    BY <1>8 DEF Finish, Fail, ghostVars
  <2>. QED
    BY <2>1, <2>2, SettleMoves, MovesOnKeepsDest
<1>9. ASSUME NEW m \in Messages, Aborts(m), UNCHANGED <<heard, saved, ghostVars>>
      PROVE  DestInv' /\ QueueInv' /\ KeepsPlace
  BY <1>9, AbortsMoves, MovesOnKeepsDest DEF ghostVars
<1>10. ASSUME NEW m \in Messages, Saves(m) PROVE DestInv' /\ QueueInv' /\ KeepsPlace
  BY <1>10 DEF Saves, DestInv, QueueInv, UnderWay, Opened, KeepsPlace, turnVars, ghostVars
<1>11. ASSUME UNCHANGED <<stage, dest, queue, written, heard, saved>> PROVE DestInv' /\ QueueInv' /\ KeepsPlace
  BY <1>11 DEF DestInv, QueueInv, UnderWay, Opened, KeepsPlace
<1>12. ASSUME NEW m \in Messages, StopReturns(m) PROVE DestInv' /\ QueueInv' /\ KeepsPlace
  <2>1. controller \in Messages \cup {Nothing}
    BY DEF PageTypeOK
  <2>. QED
    BY <1>9, <1>11, <1>12, <2>1 DEF StopReturns, turnVars, ghostVars
<1>13. ASSUME Escape \/ PressStop PROVE DestInv' /\ QueueInv' /\ KeepsPlace
  <2>1. controller \in Messages \cup {Nothing}
    BY DEF PageTypeOK
  <2>. QED
    BY <1>9, <1>11, <1>13, <2>1 DEF Escape, PressStop, turnVars, ghostVars
<1>14. ASSUME NEW m \in Messages, Live(m) PROVE DestInv' /\ QueueInv' /\ KeepsPlace
  BY <1>11, <1>14 DEF Live, turnVars, ghostVars
<1>15. ASSUME Recover PROVE DestInv' /\ QueueInv' /\ KeepsPlace
  BY <1>11, <1>15 DEF Recover, turnVars, ghostVars
<1>16. ASSUME NEW c \in Conversations, SelectChannel(c) \/ Reloaded(c) \/ ReloadFails(c)
       PROVE  DestInv' /\ QueueInv' /\ KeepsPlace
  BY <1>11, <1>16 DEF SelectChannel, Reloaded, ReloadFails, turnVars, ghostVars
<1>. QED
  BY <1>1, <1>2, <1>3, <1>4, <1>5, <1>6, <1>7, <1>8, <1>10, <1>12, <1>13, <1>14, <1>15,
     <1>16 DEF PageNext

-----------------------------------------------------------------------------
(* The store.                                                              *)

\* An entry is of a turn that has begun, in the store of the conversation it is in.
EntryInv ==
  /\ \A c \in Conversations : \A e \in store[c] : Opened(e.msg) /\ dest[e.msg] = c
  /\ ConfirmedOnce

LEMMA StoreStays ==
  ASSUME PageTypeOK, DestInv, EntryInv, KeepsPlace, UNCHANGED <<store, heard>>
  PROVE  EntryInv'
<1>1. \A m \in Messages : Opened(m) => dest'[m] = dest[m] /\ Opened(m)'
  BY DEF DestInv, KeepsPlace
<1>2. \A c \in Conversations : \A e \in store[c] : e.msg \in Messages
  BY DEF PageTypeOK, Entry
<1>3. (\A c \in Conversations : \A e \in store[c] : Opened(e.msg) /\ dest[e.msg] = c)'
  BY <1>1, <1>2 DEF EntryInv
<1>4. ConfirmedOnce'
  <2> SUFFICES ASSUME NEW m \in Messages, "user" \in heard'[m]
               PROVE  E("typed", m) \notin store'[dest'[m]]
    BY DEF ConfirmedOnce
  <2>1. Opened(m)
    BY DEF DestInv
  <2>. QED
    BY <1>1, <2>1 DEF EntryInv, ConfirmedOnce
<1>. QED
  BY <1>3, <1>4 DEF EntryInv

\* One entry more.
LEMMA StoreGrows ==
  ASSUME PageTypeOK, DestInv, EntryInv, KeepsPlace, heard' = heard,
         NEW m \in Messages, NEW c \in Conversations, NEW k \in {"typed", "user", "answer"},
         store' = [store EXCEPT ![c] = store[c] \cup {E(k, m)}],
         Opened(m)', dest'[m] = c, k = "typed" => ~Opened(m)
  PROVE  EntryInv'
<1>1. \A n \in Messages : Opened(n) => dest'[n] = dest[n] /\ Opened(n)'
  BY DEF DestInv, KeepsPlace
<1>2. \A d \in Conversations : \A e \in store[d] : e.msg \in Messages
  BY DEF PageTypeOK, Entry
<1>3. \A d \in Conversations : store'[d] = IF d = c THEN store[d] \cup {E(k, m)} ELSE store[d]
  BY DEF PageTypeOK
<1>4. E(k, m).msg = m
  BY DEF E
<1>5. ASSUME NEW d \in Conversations, NEW e \in store'[d] PROVE Opened(e.msg)' /\ dest'[e.msg] = d
  <2>1. CASE e \in store[d]
    BY <1>1, <1>2, <2>1 DEF EntryInv
  <2>2. CASE e = E(k, m) /\ d = c
    BY <1>4, <2>2
  <2>. QED
    BY <1>3, <1>5, <2>1, <2>2
<1>6. ASSUME NEW n \in Messages, "user" \in heard'[n] PROVE E("typed", n) \notin store'[dest'[n]]
  <2>1. Opened(n) /\ dest[n] \in Conversations
    BY <1>6 DEF DestInv
  <2>2. E("typed", n) \notin store[dest'[n]]
    BY <1>1, <1>6, <2>1 DEF EntryInv, ConfirmedOnce
  <2>3. E("typed", n) # E(k, m)
    BY <2>1 DEF E
  <2>. QED
    BY <1>1, <1>3, <2>1, <2>2, <2>3
<1>. QED
  BY <1>5, <1>6 DEF EntryInv, ConfirmedOnce

LEMMA EntryStep ==
  ASSUME PageTypeOK, DestInv, QueueInv, EntryInv, PageNext
  PROVE  EntryInv'
<1>1. DestInv' /\ KeepsPlace
  BY DestStep
<1>2. ASSUME NEW m \in Messages, NEW c \in Conversations, stage[m] # "queued", ~Opened(m), heard' = heard,
             StaysLocal(m) \/ Creates(m, c) \/ Uploads(m, c) \/ Opens(m, c)
      PROVE  EntryInv'
  <2>1. CASE UNCHANGED listVars
    BY <1>1, <1>2, <2>1, StoreStays DEF listVars
  <2>2. CASE Opens(m, c)
    <3>1. store' = [store EXCEPT ![c] = store[c] \cup {E("typed", m)}]
      BY <2>2 DEF Opens, StoreBecomes
    <3>2. Opened(m)' /\ dest'[m] = c
      BY <2>2 DEF Opens, Opened, PageTypeOK
    <3>. QED
      BY <1>1, <1>2, <3>1, <3>2, StoreGrows
  <2>. QED
    BY <1>2, <2>1, <2>2, SendingAlone
<1>3. ASSUME NEW m \in Messages, Send(m) PROVE EntryInv'
  <2>1. view \in Conversations /\ stage[m] = "unwritten" /\ heard' = heard
    BY <1>3, SendingAlone DEF Send, IsNext, PageTypeOK
  <2>. QED
    BY <1>2, <1>3, <2>1 DEF Send, Opened
<1>4. ASSUME NEW m \in Messages, SendQueued(m) \/ Uploaded(m) PROVE EntryInv'
  <2>1. dest[m] \in Conversations /\ stage[m] \in {"due", "uploading"}
    BY <1>4 DEF SendQueued, Uploaded, DestInv, UnderWay
  <2>2. heard' = heard
    BY <1>4, <2>1, SendingAlone DEF SendQueued, Uploaded
  <2>. QED
    BY <1>2, <1>4, <2>1, <2>2 DEF SendQueued, Uploaded, Opened
<1>5. ASSUME UNCHANGED <<store, heard>> PROVE EntryInv'
  BY <1>1, <1>5, StoreStays
<1>6. ASSUME NEW m \in Messages, HearUser(m) PROVE EntryInv'
  <2> DEFINE c == dest[m]
             S == ReplaceOptimistic(store[c], m)
  <2>1. /\ stage[m] = "streaming" /\ c \in Conversations
        /\ store' = [store EXCEPT ![c] = S]
        /\ UNCHANGED <<stage, dest>>
    BY <1>6 DEF HearUser, DestInv, Opened, StoreBecomes, turnVars
  <2>2. S \subseteq store[c] \cup {E("user", m)} /\ E("typed", m) \notin S
    BY DEF ReplaceOptimistic, SameText, E
  <2> HIDE DEF S
  <2>3. \A d \in Conversations : store'[d] \subseteq IF d = c THEN store[d] \cup {E("user", m)} ELSE store[d]
    BY <2>1, <2>2 DEF PageTypeOK
  <2>4. \A n \in Messages \ {m} : heard'[n] = heard[n]
    BY <1>6 DEF HearUser, PageTypeOK
  <2>5. E("user", m).msg = m /\ \A n \in Messages : E("typed", n) # E("user", m)
    BY DEF E
  <2>6. (\A d \in Conversations : \A e \in store[d] : Opened(e.msg) /\ dest[e.msg] = d)'
    BY <2>1, <2>3, <2>5 DEF EntryInv, Opened
  <2>7. ASSUME NEW n \in Messages, "user" \in heard'[n] PROVE E("typed", n) \notin store'[dest'[n]]
    <3>1. CASE n = m
      BY <2>1, <2>2, <3>1 DEF PageTypeOK
    <3>2. CASE n # m
      BY <2>1, <2>3, <2>4, <2>5, <2>7, <3>2 DEF EntryInv, ConfirmedOnce, DestInv
    <3>. QED
      BY <3>1, <3>2
  <2>. QED
    BY <2>6, <2>7 DEF EntryInv, ConfirmedOnce
<1>7. ASSUME NEW m \in Messages, Finish(m) PROVE EntryInv'
  <2>1. CASE UNCHANGED listVars
    BY <1>5, <1>7, <2>1 DEF Finish, listVars
  <2>2. CASE StoreBecomes(AnswerTo(m), store[AnswerTo(m)] \cup {E("answer", m)}, ref)
    <3>1. dest[m] \in Conversations /\ heard' = heard /\ Opened(m)
      BY <1>7 DEF Finish, DestInv, Opened
    <3>2. store' = [store EXCEPT ![dest[m]] = store[dest[m]] \cup {E("answer", m)}]
      BY <2>2 DEF AnswerTo, StoreBecomes
    <3>3. Opened(m)' /\ dest'[m] = dest[m]
      BY <1>1, <3>1 DEF KeepsPlace
    <3>. QED
      BY <1>1, <3>1, <3>2, <3>3, StoreGrows
  <2>. QED
    BY <1>7, <2>1, <2>2 DEF Finish
<1>8. ASSUME NEW m \in Messages, Live(m) PROVE EntryInv'
  <2>1. /\ dest[m] \in Conversations /\ heard' = heard /\ Opened(m)
        /\ store' = [store EXCEPT ![dest[m]] = store[dest[m]] \cup {E("user", m)}]
    BY <1>8 DEF Live, DestInv, StoreBecomes
  <2>2. Opened(m)' /\ dest'[m] = dest[m]
    BY <1>1, <2>1 DEF KeepsPlace
  <2>. QED
    BY <1>1, <2>1, <2>2, StoreGrows
<1>9. ASSUME NEW c \in Conversations, Reloaded(c) PROVE EntryInv'
  <2>1. /\ UNCHANGED <<stage, dest, heard>>
        /\ \A d \in Conversations : \A e \in store'[d] :
             e \in store[d] \/ \E m \in saved : e = E("user", m) /\ dest[m] = d
    BY <1>9 DEF Reloaded, PageTypeOK, turnVars
  <2>2. \A m \in saved : Opened(m) /\ E("user", m).msg = m
    BY DEF DestInv, PageTypeOK, E
  <2>3. \A m, n \in Messages : E("typed", n) # E("user", m)
    BY DEF E
  <2>4. (\A d \in Conversations : \A e \in store[d] : Opened(e.msg) /\ dest[e.msg] = d)'
    BY <2>1, <2>2 DEF EntryInv, Opened
  <2>5. ASSUME NEW n \in Messages, "user" \in heard'[n] PROVE E("typed", n) \notin store'[dest'[n]]
    <3>1. dest[n] \in Conversations /\ dest'[n] = dest[n] /\ heard'[n] = heard[n]
      BY <2>1, <2>5 DEF DestInv
    <3>2. E("typed", n) \notin store[dest[n]]
      BY <2>5, <3>1 DEF EntryInv, ConfirmedOnce
    <3>. QED
      BY <2>1, <2>3, <3>1, <3>2 DEF PageTypeOK
  <2>. QED
    BY <2>4, <2>5 DEF EntryInv, ConfirmedOnce
<1>10. ASSUME NEW m \in Messages,
              Enqueue(m) \/ UploadFails(m) \/ Created(m) \/ Fail(m) \/ Saves(m)
       PROVE  EntryInv'
  BY <1>5, <1>10 DEF Enqueue, UploadFails, Created, Fail, Saves, listVars
<1>11. ASSUME NEW m \in Messages, HearRun(m) PROVE EntryInv'
  <2>1. UNCHANGED <<store, stage, dest>> /\ \A n \in Messages : "user" \in heard'[n] <=> "user" \in heard[n]
    BY <1>11 DEF HearRun, listVars, PageTypeOK
  <2>. QED
    BY <2>1 DEF EntryInv, ConfirmedOnce, Opened
<1>12. ASSUME Escape \/ PressStop \/ \E m \in Messages : StopReturns(m) PROVE EntryInv'
  BY <1>5, <1>12 DEF Escape, PressStop, StopReturns, Aborts, listVars
<1>13. ASSUME Recover \/ \E c \in Conversations : SelectChannel(c) \/ ReloadFails(c) PROVE EntryInv'
  BY <1>5, <1>13 DEF Recover, SelectChannel, ReloadFails, listVars
<1>. QED
  BY <1>3, <1>4, <1>6, <1>7, <1>8, <1>9, <1>10, <1>11, <1>12, <1>13 DEF PageNext

-----------------------------------------------------------------------------
(* As long as the user stays with the work under way.                      *)

CalmInv ==
  /\ ~strayed =>
       /\ ref = view
       /\ \A m \in Messages :
            /\ stage[m] = "queued" => written[m] = view
            /\ UnderWay(m) => written[m] = view /\ dest[m] = view
            /\ dest[m] \in {Nothing, written[m]}
  /\ BusyIsTrue
  /\ QueueHasOwner

LEMMA CalmSending ==
  ASSUME PageTypeOK, CalmInv, NEW m \in Messages, NEW c \in Conversations,
         stage[m] \in {"unwritten", "due", "uploading"},
         StaysLocal(m) \/ Creates(m, c) \/ Uploads(m, c) \/ Opens(m, c),
         \A n \in Messages \ {m} : written'[n] = written[n],
         ~strayed => c = view /\ written'[m] = view /\ dest[m] \in {Nothing, view},
         swallowed => swallowed',
         UnderWay(m) /\ stage'[m] = "local" => swallowed'
  PROVE  CalmInv'
<1>1. MovesAlone(m) /\ UNCHANGED <<view, strayed>>
  BY SendingAlone
<1>2. ASSUME ~strayed PROVE ref' = view
  BY <1>2, SendingAlone DEF CalmInv, Opens
<1>3. stage'[m] \in {"local", "creating", "uploading", "streaming"}
      /\ dest'[m] \in {dest[m], c} /\ (stage'[m] # "local" => dest'[m] = c)
  BY SendingAlone
<1>4. ASSUME ~strayed, NEW n \in Messages
      PROVE  /\ stage'[n] = "queued" => written'[n] = view
             /\ UnderWay(n)' => written'[n] = view /\ dest'[n] = view
             /\ dest'[n] \in {Nothing, written'[n]}
  BY <1>1, <1>3, <1>4 DEF MovesAlone, CalmInv, UnderWay
<1>5. BusyIsTrue'
  BY <1>1, SendingAlone DEF CalmInv, BusyIsTrue, MovesAlone
<1>6. QueueHasOwner'
  BY <1>1, <1>3 DEF CalmInv, QueueHasOwner, MovesAlone, UnderWay
<1>. QED
  BY <1>1, <1>2, <1>4, <1>5, <1>6 DEF CalmInv

LEMMA CalmEnding ==
  ASSUME PageTypeOK, DestInv, CalmInv, NEW m \in Messages, stage[m] \in {"streaming", "creating"},
         NEW end \in {"answered", "failed", "cancelled", "created"}, MovesOn(m, end),
         ref = dest[m] => ~loading',
         UNCHANGED <<view, ref, strayed, swallowed, written>>
  PROVE  CalmInv'
<1>1. ASSUME ~strayed PROVE dest[m] = view /\ ~loading'
  BY <1>1 DEF CalmInv, UnderWay
<1>2. ASSUME ~strayed, NEW n \in Messages
      PROVE  /\ stage'[n] = "queued" => written'[n] = view
             /\ UnderWay(n)' => written'[n] = view /\ dest'[n] = view
             /\ dest'[n] \in {Nothing, written'[n]}
  BY <1>1, <1>2 DEF MovesOn, CalmInv, UnderWay
<1>3. BusyIsTrue'
  BY <1>1 DEF BusyIsTrue
<1>4. QueueHasOwner'
  BY DEF MovesOn, QueueHasOwner, UnderWay
<1>. QED
  BY <1>2, <1>3, <1>4 DEF CalmInv

LEMMA CalmStays ==
  ASSUME PageTypeOK, CalmInv, UNCHANGED <<view, ref, stage, dest, queue, loading, written, strayed, swallowed>>
  PROVE  CalmInv'
  BY DEF CalmInv, BusyIsTrue, QueueHasOwner, UnderWay

LEMMA CalmStep ==
  ASSUME PageTypeOK, DestInv, QueueInv, CalmInv, PageNext
  PROVE  CalmInv'
<1>1. ASSUME NEW m \in Messages, Send(m) PROVE CalmInv'
  <2>1. /\ view \in Conversations /\ stage[m] = "unwritten" /\ dest[m] = Nothing
        /\ \A n \in Messages : written'[n] = IF n = m THEN view ELSE written[n]
        /\ swallowed' = swallowed /\ ~UnderWay(m)
    BY <1>1 DEF Send, IsNext, PageTypeOK, DestInv, UnderWay
  <2>. QED
    BY <1>1, <2>1, CalmSending DEF Send
<1>2. ASSUME NEW m \in Messages, SendQueued(m) \/ Uploaded(m) PROVE CalmInv'
  <2>1. /\ dest[m] \in Conversations /\ stage[m] \in {"due", "uploading"} /\ UNCHANGED written
        /\ ~strayed => dest[m] = view /\ written[m] = view
    BY <1>2 DEF SendQueued, Uploaded, DestInv, CalmInv, UnderWay
  <2>2. /\ StaysLocal(m) \/ Creates(m, dest[m]) \/ Uploads(m, dest[m]) \/ Opens(m, dest[m])
        /\ swallowed => swallowed'
        /\ stage'[m] = "local" => swallowed'
    BY <1>2, <2>1 DEF SendQueued, Uploaded, Creates, Uploads, Opens, PageTypeOK
  <2>. QED
    BY <2>1, <2>2, CalmSending
<1>3. ASSUME NEW m \in Messages, Enqueue(m) PROVE CalmInv'
  <2>1. /\ stage[m] = "unwritten" /\ dest[m] = Nothing
        /\ UNCHANGED <<view, ref, dest, loading, strayed, swallowed>> /\ loading
    BY <1>3 DEF Enqueue, IsNext, DestInv
  <2>2. \A n \in Messages : /\ stage'[n] = IF n = m THEN "queued" ELSE stage[n]
                            /\ written'[n] = IF n = m THEN view ELSE written[n]
    BY <1>3 DEF Enqueue, PageTypeOK
  <2>3. ASSUME ~strayed, NEW n \in Messages
        PROVE  /\ stage'[n] = "queued" => written'[n] = view
               /\ UnderWay(n)' => written'[n] = view /\ dest'[n] = view
               /\ dest'[n] \in {Nothing, written'[n]}
    BY <2>1, <2>2, <2>3 DEF CalmInv, UnderWay
  <2>4. ~strayed => \E n \in Messages : stage'[n] \in {"streaming", "creating"}
    BY <2>1, <2>2 DEF CalmInv, BusyIsTrue
  <2>. QED
    BY <2>1, <2>3, <2>4 DEF CalmInv, BusyIsTrue, QueueHasOwner, UnderWay
<1>4. ASSUME NEW m \in Messages, UploadFails(m) PROVE CalmInv'
  <2>1. /\ stage[m] = "uploading" /\ swallowed'
        /\ UNCHANGED <<view, ref, dest, loading, written, strayed>>
        /\ \A n \in Messages : stage'[n] = IF n = m THEN "unsent" ELSE stage[n]
    BY <1>4 DEF UploadFails, PageTypeOK
  <2>. QED
    BY <2>1 DEF CalmInv, BusyIsTrue, QueueHasOwner, UnderWay
<1>5. ASSUME NEW m \in Messages, Created(m) PROVE CalmInv'
  <2>1. /\ stage[m] = "creating" /\ NextQueued(m, "created") /\ ~loading'
        /\ UNCHANGED <<view, ref, strayed, swallowed, written>>
    BY <1>5 DEF Created, ghostVars
  <2>2. "created" \in Stages \ {"queued", "unwritten"}
    BY DEF Stages
  <2>. QED
    BY <2>1, <2>2, NextQueuedMoves, CalmEnding
<1>6. ASSUME NEW m \in Messages, Finish(m) \/ Fail(m) PROVE CalmInv'
  <2>1. PICK end \in {"answered", "failed"} : Settle(m, end)
    BY <1>6 DEF Finish, Fail
  <2>2. stage[m] = "streaming" /\ UNCHANGED <<view, ref, strayed, swallowed, written>>
    BY <1>6 DEF Finish, Fail, ghostVars
  <2>. QED
    BY <2>1, <2>2, SettleMoves, CalmEnding
<1>7. ASSUME NEW m \in Messages, Aborts(m), UNCHANGED <<view, ref, ghostVars>> PROVE CalmInv'
  BY <1>7, AbortsMoves, CalmEnding DEF ghostVars
<1>8. ASSUME UNCHANGED <<view, ref, turnVars, ghostVars>> PROVE CalmInv'
  BY <1>8, CalmStays DEF turnVars, ghostVars
<1>9. ASSUME Escape \/ PressStop \/ \E m \in Messages : StopReturns(m) PROVE CalmInv'
  <2>1. controller \in Messages \cup {Nothing}
    BY DEF PageTypeOK
  <2>. QED
    BY <1>7, <1>8, <1>9, <2>1 DEF Escape, PressStop, StopReturns
<1>10. ASSUME NEW m \in Messages, HearRun(m) PROVE CalmInv'
  BY <1>10, CalmStays DEF HearRun, ghostVars
<1>11. ASSUME NEW m \in Messages, HearUser(m) \/ Saves(m) \/ Live(m) PROVE CalmInv'
  BY <1>8, <1>11 DEF HearUser, Saves, Live
<1>12. ASSUME NEW c \in Conversations, SelectChannel(c) PROVE CalmInv'
  <2>1. /\ UNCHANGED <<stage, dest, queue, written>> /\ ref' = view'
        /\ loading' => loading
        /\ ~strayed' => ~strayed /\ queue = <<>> /\ \A m \in Messages : ~UnderWay(m)
    BY <1>12 DEF SelectChannel, PageTypeOK
  <2>2. queue = <<>> => \A m \in Messages : stage[m] # "queued"
    BY EmptySeq DEF QueueInv
  <2>3. ~strayed' => ~loading'
    BY <2>1 DEF CalmInv, BusyIsTrue, UnderWay
  <2>. QED
    BY <2>1, <2>2, <2>3 DEF CalmInv, BusyIsTrue, QueueHasOwner, UnderWay
<1>13. ASSUME Recover \/ \E c \in Conversations : Reloaded(c) \/ ReloadFails(c) PROVE CalmInv'
  BY <1>8, <1>13 DEF Recover, Reloaded, ReloadFails
<1>. QED
  BY <1>1, <1>2, <1>3, <1>4, <1>5, <1>6, <1>9, <1>10, <1>11, <1>12, <1>13 DEF PageNext

-----------------------------------------------------------------------------
(* The list on the screen.                                                 *)

ScreenInv ==
  ~uprooted =>
    /\ \A m \in Messages : stage[m] = "queued" \/ Waiting(m) => written[m] = view
    /\ ~Misdirected => ref = view /\ listOf = view /\ reloads \subseteq {view}

\* A message that went to another conversation went there for good.
LEMMA MisdirectedStays ==
  ASSUME DestInv, KeepsPlace, Misdirected
  PROVE  Misdirected'
<1>1. PICK m \in Messages : dest[m] \notin {Nothing, written[m]}
  BY DEF Misdirected
<1>2. dest'[m] = dest[m] /\ written'[m] = written[m]
  BY <1>1 DEF DestInv, KeepsPlace
<1>. QED
  BY <1>1, <1>2 DEF Misdirected

LEMMA ScreenSending ==
  ASSUME PageTypeOK, ScreenInv, NEW m \in Messages, NEW c \in Conversations,
         stage[m] \in {"unwritten", "due", "uploading"},
         StaysLocal(m) \/ Creates(m, c) \/ Uploads(m, c) \/ Opens(m, c),
         \A n \in Messages \ {m} : written'[n] = written[n],
         ~uprooted => written'[m] = view,
         ~uprooted /\ ~Misdirected => c = view,
         ~Misdirected' => ~Misdirected
  PROVE  ScreenInv'
<1>1. MovesAlone(m) /\ UNCHANGED <<view, uprooted, reloads>>
  BY SendingAlone
<1>2. ASSUME ~uprooted', ~Misdirected' PROVE ref' = view' /\ listOf' = view' /\ reloads' \subseteq {view'}
  <2>1. ref = view /\ listOf = view /\ reloads \subseteq {view} /\ c = view
    BY <1>1, <1>2 DEF ScreenInv
  <2>2. (UNCHANGED listVars /\ ref' = ref) \/ Opens(m, c)
    BY SendingAlone
  <2>. QED
    BY <1>1, <2>1, <2>2 DEF Opens, StoreBecomes, listVars
<1>3. ASSUME ~uprooted', NEW n \in Messages, stage'[n] = "queued" \/ Waiting(n)'
      PROVE  written'[n] = view'
  BY <1>1, <1>3 DEF MovesAlone, ScreenInv, Waiting
<1>. QED
  BY <1>2, <1>3 DEF ScreenInv

LEMMA ScreenEnding ==
  ASSUME PageTypeOK, ScreenInv, NEW m \in Messages, stage[m] \in {"streaming", "creating"},
         NEW end \in {"answered", "failed", "cancelled", "created"}, MovesOn(m, end),
         ~Misdirected' => ~Misdirected,
         ~uprooted' => ~uprooted,
         listOf' \in {listOf, ref},
         ~uprooted' => reloads' \subseteq reloads \cup {ref},
         UNCHANGED <<view, ref, written>>
  PROVE  ScreenInv'
<1>1. ASSUME ~uprooted', NEW n \in Messages, stage'[n] = "queued" \/ Waiting(n)'
      PROVE  written'[n] = view'
  BY <1>1 DEF MovesOn, ScreenInv, Waiting
<1>2. ASSUME ~uprooted', ~Misdirected' PROVE ref' = view' /\ listOf' = view' /\ reloads' \subseteq {view'}
  BY <1>2 DEF ScreenInv
<1>. QED
  BY <1>1, <1>2 DEF ScreenInv

LEMMA ScreenStep ==
  ASSUME PageTypeOK, DestInv, QueueInv, ScreenInv, PageNext
  PROVE  ScreenInv'
<1>0. KeepsPlace /\ (~Misdirected' => ~Misdirected)
  BY DestStep, MisdirectedStays
<1>1. ASSUME NEW m \in Messages, Send(m) PROVE ScreenInv'
  <2>1. /\ view \in Conversations /\ stage[m] = "unwritten"
        /\ \A n \in Messages : written'[n] = IF n = m THEN view ELSE written[n]
    BY <1>1 DEF Send, IsNext, PageTypeOK
  <2>. QED
    BY <1>0, <1>1, <2>1, ScreenSending DEF Send
<1>2. ASSUME NEW m \in Messages, SendQueued(m) \/ Uploaded(m) PROVE ScreenInv'
  <2>1. dest[m] \in Conversations /\ stage[m] \in {"due", "uploading"} /\ UNCHANGED written
    BY <1>2 DEF SendQueued, Uploaded, DestInv, UnderWay
  <2>2. ~uprooted => written[m] = view
    BY <2>1 DEF ScreenInv, Waiting
  <2>3. ~uprooted /\ ~Misdirected => dest[m] = view
    BY <2>1, <2>2 DEF Misdirected
  <2>. QED
    BY <1>0, <1>2, <2>1, <2>2, <2>3, ScreenSending DEF SendQueued, Uploaded
<1>3. ASSUME NEW m \in Messages, Enqueue(m) PROVE ScreenInv'
  <2>1. \A n \in Messages : /\ stage'[n] = IF n = m THEN "queued" ELSE stage[n]
                            /\ written'[n] = IF n = m THEN view ELSE written[n]
    BY <1>3 DEF Enqueue, PageTypeOK
  <2>. QED
    BY <1>0, <1>3, <2>1 DEF Enqueue, ScreenInv, Waiting, listVars
<1>4. ASSUME NEW m \in Messages, UploadFails(m) PROVE ScreenInv'
  <2>1. \A n \in Messages : stage'[n] = IF n = m THEN "unsent" ELSE stage[n]
    BY <1>4 DEF UploadFails, PageTypeOK
  <2>. QED
    BY <1>0, <1>4, <2>1 DEF UploadFails, ScreenInv, Waiting, listVars
<1>5. ASSUME NEW m \in Messages, Created(m) PROVE ScreenInv'
  <2>1. /\ stage[m] = "creating" /\ NextQueued(m, "created")
        /\ UNCHANGED <<view, ref, written, listOf, reloads, uprooted>>
    BY <1>5 DEF Created, ghostVars, listVars
  <2>2. "created" \in Stages \ {"queued", "unwritten"}
    BY DEF Stages
  <2>. QED
    BY <1>0, <2>1, <2>2, NextQueuedMoves, ScreenEnding
<1>6. ASSUME NEW m \in Messages, Finish(m) PROVE ScreenInv'
  <2>1. stage[m] = "streaming" /\ Settle(m, "answered") /\ UNCHANGED <<view, ref, written, reloads, uprooted>>
    BY <1>6 DEF Finish, ghostVars
  <2>2. listOf' \in {listOf, ref}
    BY <1>6 DEF Finish, StoreBecomes, listVars
  <2>. QED
    BY <1>0, <2>1, <2>2, SettleMoves, ScreenEnding
<1>7. ASSUME NEW m \in Messages, Fail(m) PROVE ScreenInv'
  <2>1. stage[m] = "streaming" /\ Settle(m, "failed") /\ UNCHANGED <<view, ref, written, listOf>>
    BY <1>7 DEF Fail, listVars
  <2>2. (~uprooted' => ~uprooted) /\ (~uprooted' => reloads' \subseteq reloads \cup {ref})
    BY <1>7 DEF Fail, PageTypeOK
  <2>. QED
    BY <1>0, <2>1, <2>2, SettleMoves, ScreenEnding
<1>8. ASSUME NEW m \in Messages, Aborts(m), UNCHANGED <<view, ref, ghostVars>> PROVE ScreenInv'
  BY <1>0, <1>8, AbortsMoves, ScreenEnding DEF ghostVars, listVars
<1>9. ASSUME UNCHANGED <<view, ref, stage, dest, listOf, reloads, ghostVars>> PROVE ScreenInv'
  BY <1>0, <1>9 DEF ScreenInv, Waiting, ghostVars
<1>10. ASSUME Escape \/ PressStop \/ \E m \in Messages : StopReturns(m) PROVE ScreenInv'
  <2>1. controller \in Messages \cup {Nothing}
    BY DEF PageTypeOK
  <2>. QED
    BY <1>8, <1>9, <1>10, <2>1 DEF Escape, PressStop, StopReturns, turnVars, listVars
<1>11. ASSUME NEW m \in Messages, HearRun(m) \/ Saves(m) PROVE ScreenInv'
  BY <1>9, <1>11 DEF HearRun, Saves, turnVars, listVars
<1>12. ASSUME NEW m \in Messages, HearUser(m) \/ Live(m) PROVE ScreenInv'
  <2>1. /\ UNCHANGED <<view, ref, stage, reloads, ghostVars>>
        /\ listOf' \in {listOf, ref}
    BY <1>12 DEF HearUser, Live, StoreBecomes, turnVars
  <2>. QED
    BY <1>0, <2>1 DEF ScreenInv, Waiting, ghostVars
<1>13. ASSUME NEW c \in Conversations, SelectChannel(c) PROVE ScreenInv'
  <2>1. /\ UNCHANGED <<stage, reloads>> /\ ref' = view' /\ listOf' = view'
        /\ ~uprooted' => queue = <<>> /\ reloads = {} /\ \A m \in Messages : ~Waiting(m)
    BY <1>13 DEF SelectChannel, Waiting, PageTypeOK
  <2>2. queue = <<>> => \A m \in Messages : stage[m] # "queued"
    BY EmptySeq DEF QueueInv
  <2>. QED
    BY <2>1, <2>2 DEF ScreenInv, Waiting
<1>14. ASSUME NEW c \in Conversations, Reloaded(c) PROVE ScreenInv'
  <2>1. UNCHANGED <<view, ref, stage, ghostVars>> /\ c \in reloads /\ listOf' = c /\ reloads' \subseteq reloads
    BY <1>14 DEF Reloaded, turnVars
  <2>. QED
    BY <1>0, <2>1 DEF ScreenInv, Waiting, ghostVars
<1>15. ASSUME NEW c \in Conversations, Recover \/ ReloadFails(c) PROVE ScreenInv'
  <2>1. UNCHANGED <<view, ref, stage, listOf, ghostVars>> /\ reloads' \subseteq reloads \cup {view}
    BY <1>15 DEF Recover, ReloadFails, turnVars, listVars
  <2>. QED
    BY <1>0, <2>1 DEF ScreenInv, Waiting, ghostVars
<1>. QED
  BY <1>1, <1>2, <1>3, <1>4, <1>5, <1>6, <1>7, <1>10, <1>11, <1>12, <1>13, <1>14, <1>15,
     First \in Conversations DEF PageNext

-----------------------------------------------------------------------------
(* The theorems.                                                           *)

IInv == PageTypeOK /\ DestInv /\ QueueInv /\ EntryInv /\ CalmInv /\ ScreenInv

LEMMA InvInit ==
  ASSUME PageInit
  PROVE  IInv
<1>1. PageTypeOK
  <2>1. queue \in Seq(Messages) /\ {loading, strayed, uprooted, swallowed} \subseteq BOOLEAN
    BY EmptySeq DEF PageInit
  <2>2. /\ stage \in [Messages -> Stages]
        /\ dest \in [Messages -> Conversations \cup {Nothing}]
        /\ written \in [Messages -> Conversations \cup {Nothing}]
        /\ heard \in [Messages -> SUBSET {"run", "user"}]
        /\ store \in [Conversations -> SUBSET Entry]
    BY DEF PageInit, Stages
  <2>. QED
    BY <2>1, <2>2 DEF PageInit, PageTypeOK
<1>2. DestInv /\ QueueInv
  BY EmptySeq DEF PageInit, DestInv, QueueInv, UnderWay, Opened
<1>3. EntryInv
  BY DEF PageInit, EntryInv, ConfirmedOnce
<1>4. CalmInv
  BY DEF PageInit, CalmInv, BusyIsTrue, QueueHasOwner, UnderWay
<1>5. ScreenInv
  BY DEF PageInit, ScreenInv, Waiting
<1>. QED
  BY <1>1, <1>2, <1>3, <1>4, <1>5 DEF IInv

LEMMA InvNext ==
  ASSUME IInv, [PageNext]_pageVars
  PROVE  IInv'
<1>1. CASE PageNext
  BY <1>1, TypeStep, DestStep, EntryStep, CalmStep, ScreenStep DEF IInv
<1>2. CASE UNCHANGED pageVars
  <2>1. UNCHANGED <<view, ref, listOf, text, stage, dest, written, queue, loading, requestKey,
                    controller, runRef, stops, heard, saved, store, reloads, strayed, uprooted, swallowed>>
    BY <1>2 DEF pageVars, turnVars, listVars, ghostVars
  <2>2. PageTypeOK' /\ DestInv' /\ QueueInv'
    BY <2>1 DEF IInv, PageTypeOK, DestInv, QueueInv, UnderWay, Opened
  <2>3. EntryInv'
    BY <2>1 DEF IInv, EntryInv, ConfirmedOnce, Opened
  <2>4. CalmInv' /\ ScreenInv'
    BY <2>1 DEF IInv, CalmInv, BusyIsTrue, QueueHasOwner, ScreenInv, Misdirected, UnderWay, Waiting
  <2>. QED
    BY <2>2, <2>3, <2>4 DEF IInv
<1>. QED
  BY <1>1, <1>2

\* The invariant of the page in all its parts holds in every state.
THEOREM Invariant == PageSpec => []IInv
<1>. QED
  BY InvInit, InvNext, PTL DEF PageSpec

\* The variables of the page stay within their types: a message that is sent always
\* has a conversation, and the controller is always of a message.
THEOREM TypeCorrect == PageSpec => []PageTypeOK
<1>1. IInv => PageTypeOK
  BY DEF IInv
<1>. QED
  BY <1>1, Invariant, PTL

\* No message, row or answer gets into the store of a conversation it is not of
\* (setConversationMessages and upsertMessage under the key of the turn).
THEOREM NothingCrosses == PageSpec => []StoreApart
<1>1. IInv => StoreApart
  BY DEF IInv, EntryInv, StoreApart
<1>. QED
  BY <1>1, Invariant, PTL

\* replaceOptimisticMessage leaves no optimistic entry beside the row, in whatever
\* order the stream and the events bring it.
THEOREM ReplacedOnce == PageSpec => []ConfirmedOnce
<1>1. IInv => ConfirmedOnce
  BY DEF IInv, EntryInv
<1>. QED
  BY <1>1, Invariant, PTL

\* The closures that send from the queue or after an upload aim where the user
\* wrote, as long as the user stays.
THEOREM Delivered == PageSpec => []SentWhereWritten
<1>1. IInv => SentWhereWritten
  BY DEF IInv, CalmInv, SentWhereWritten, Misdirected
<1>. QED
  BY <1>1, Invariant, PTL

\* isLoading never outlives the work it stands for, as long as the user stays.
THEOREM BusyWithWork == PageSpec => []BusyIsTrue
<1>1. IInv => BusyIsTrue
  BY DEF IInv, CalmInv
<1>. QED
  BY <1>1, Invariant, PTL

\* No step takes the last entry that says something out of a store.
LEMMA TextKept ==
  ASSUME PageTypeOK, DestInv, PageNext
  PROVE  \A c \in Conversations : \A e \in store[c] : \E d \in store'[c] : SameText(d, e)
<1>1. \A c \in Conversations : \A e \in store[c] : SameText(e, e)
  BY DEF SameText
<1>2. ASSUME \A c \in Conversations : store[c] \subseteq store'[c]
      PROVE  \A c \in Conversations : \A e \in store[c] : \E d \in store'[c] : SameText(d, e)
  BY <1>1, <1>2
<1>3. ASSUME NEW c \in Conversations, NEW S, NEW k, StoreBecomes(c, store[c] \cup S, k)
      PROVE  \A d \in Conversations : store[d] \subseteq store'[d]
  BY <1>3 DEF StoreBecomes, PageTypeOK
<1>4. ASSUME NEW m \in Messages, HearUser(m)
      PROVE  \A c \in Conversations : \A e \in store[c] : \E d \in store'[c] : SameText(d, e)
  <2> DEFINE c == dest[m]
             S == ReplaceOptimistic(store[c], m)
  <2>1. store' = [store EXCEPT ![c] = S]
    BY <1>4 DEF HearUser, StoreBecomes
  <2>2. ASSUME NEW e \in store[c] PROVE \E d \in S : SameText(d, e)
    <3>1. CASE e \in S
      BY <3>1 DEF SameText
    <3>2. CASE e \notin S
      <4>1. E("user", m) \in S /\ SameText(e, E("typed", m))
        BY <3>2 DEF ReplaceOptimistic
      <4>2. SameText(E("user", m), e)
        BY <4>1 DEF SameText, E
      <4>. QED
        BY <4>1, <4>2
    <3>. QED
      BY <3>1, <3>2
  <2> HIDE DEF S
  <2>3. \A d \in Conversations : store'[d] = IF d = c THEN S ELSE store[d]
    BY <2>1 DEF PageTypeOK
  <2>. QED
    BY <1>1, <2>2, <2>3
<1>5. ASSUME NEW m \in Messages, NEW c \in Conversations,
             StaysLocal(m) \/ Creates(m, c) \/ Uploads(m, c) \/ Opens(m, c)
      PROVE  \A d \in Conversations : store[d] \subseteq store'[d]
  BY <1>3, <1>5 DEF StaysLocal, Creates, Uploads, Opens, listVars
<1>6. ASSUME NEW m \in Messages, Send(m) \/ SendQueued(m) \/ Uploaded(m)
      PROVE  \A d \in Conversations : store[d] \subseteq store'[d]
  <2>1. view \in Conversations /\ (stage[m] \in {"due", "uploading"} => dest[m] \in Conversations)
    BY DEF PageTypeOK, DestInv, UnderWay
  <2>. QED
    BY <1>5, <1>6, <2>1 DEF Send, SendQueued, Uploaded
<1>7. ASSUME NEW m \in Messages, Finish(m) \/ Live(m)
      PROVE  \A d \in Conversations : store[d] \subseteq store'[d]
  <2>1. dest[m] \in Conversations
    BY <1>7 DEF Finish, Live, DestInv, Opened
  <2>. QED
    BY <1>3, <1>7, <2>1 DEF Finish, Live, AnswerTo, listVars
<1>8. ASSUME NEW c \in Conversations, Reloaded(c)
      PROVE  \A d \in Conversations : store[d] \subseteq store'[d]
  BY <1>8 DEF Reloaded, PageTypeOK
<1>9. ASSUME UNCHANGED store
      PROVE  \A d \in Conversations : store[d] \subseteq store'[d]
  BY <1>9
<1>10. ASSUME NEW m \in Messages,
              Enqueue(m) \/ UploadFails(m) \/ Created(m) \/ HearRun(m) \/ Fail(m)
                \/ StopReturns(m) \/ Saves(m)
       PROVE  store' = store
  BY <1>10 DEF Enqueue, UploadFails, Created, HearRun, Fail, StopReturns, Aborts, Saves, listVars
<1>11. ASSUME NEW c \in Conversations,
              Escape \/ PressStop \/ Recover \/ SelectChannel(c) \/ ReloadFails(c)
       PROVE  store' = store
  BY <1>11 DEF Escape, PressStop, Recover, SelectChannel, ReloadFails, Aborts, listVars
<1>. QED
  BY <1>2, <1>4, <1>6, <1>7, <1>8, <1>9, <1>10, <1>11, First \in Conversations DEF PageNext

\* replaceOptimisticMessage and the other writers of the store take nothing out of it
\* that another entry does not say.
THEOREM NothingSilenced == PageSpec => TextStays
<1>1. IInv /\ [PageNext]_pageVars =>
        [\A c \in Conversations : \A e \in store[c] : \E d \in store'[c] : SameText(d, e)]_pageVars
  BY TextKept DEF IInv
<1>. QED
  BY <1>1, Invariant, PTL DEF PageSpec, TextStays

\* Messages that wait have a turn that will send them, as long as the user stays and
\* none of them ended without one.
THEOREM QueueOwned == PageSpec => []QueueHasOwner
<1>1. IInv => QueueHasOwner
  BY DEF IInv, CalmInv
<1>. QED
  BY <1>1, Invariant, PTL

\* The subscription to the store, the reloads and the turns of other conversations
\* never put another conversation on the screen, outside the named exceptions.
THEOREM ScreenTrue == PageSpec => []ListIsOfView
<1>1. IInv => ListIsOfView
  BY DEF IInv, ScreenInv, ListIsOfView
<1>. QED
  BY <1>1, Invariant, PTL

\* For any conversations, messages and texts, conversations mix neither in the
\* store nor on the screen.
THEOREM ViewsAreApart == PageSpec => []ViewsApart
  BY TypeCorrect, NothingCrosses, ScreenTrue, PTL
  DEF ViewsApart

\* A message is where it was written, and there once.
THEOREM MessageSentOnce == PageSpec => []SentOnce
  BY ReplacedOnce, Delivered, PTL
  DEF SentOnce

\* What waits or is shown as busy has work under way that ends it.
THEOREM WorkIsOwned == PageSpec => []WorkOwned
  BY BusyWithWork, QueueOwned, PTL
  DEF WorkOwned
=============================================================================
