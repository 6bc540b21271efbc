------------------------ MODULE AgentRuntime_proofs ------------------------
(***************************************************************************)
(* Theorems about AgentRuntime, for any calls and any viewers.             *)
(*                                                                         *)
(* The maps of the runtime name an agent, not a child, so that what a      *)
(* handler finds in them is about its own child only as long as there is   *)
(* no other: KnownInv says that there is one child at a time, which holds  *)
(* as long as starts do not overlap and nobody stops waiting for a child.  *)
(* The tasks and the streams need an invariant each of their own.          *)
(***************************************************************************)
EXTENDS AgentRuntime, TLAPS

USE LocalCallsAssumption, ViewersAssumption

\* A call that spawns next, or has and did not go on yet.
Spawning(r) ==
  \/ callAt[r] \in {"spawning", "started"}
  \/ callAt[r] \in {"stopping", "stopped"} /\ following[r] = "spawn"

\* A call that has not spawned has no child.
NotSpawned ==
  \A r \in LocalCalls : callAt[r] \in {"idle", "stopping", "stopped"} =>
    r \notin lasting /\ life[r] = "none"

\* With one start at a time there is at most one child whose close event is to come,
\* which both maps know, and none while a call is about to spawn.
OneChild ==
  /\ \A c \in LocalCalls : life[c] \in {"alive", "exited"} /\ callAt[c] # "spawning" => child = c
  /\ child # NoCall => child = current /\ agentStatus[current] = "running"
  /\ current \in lasting /\ agentStatus[current] = "running" => child = current
  /\ \A r \in LocalCalls : callAt[r] = "spawning" =>
       current = r /\ child = NoCall /\ agentStatus[r] # "running"
  /\ \A r \in LocalCalls : callAt[r] = "stopped" /\ following[r] = "spawn" => child = NoCall

OneStart == \A q, r \in LocalCalls : Spawning(q) /\ Spawning(r) => q = r

\* Once the server was told to end, what still runs was told as well.
Told ==
  \A c \in LocalCalls : callAt[c] # "spawning" /\ (life[c] = "alive" => c \in killed)

Single == OneStart /\ IF down THEN Told ELSE OneChild

KnownInv == NotSpawned /\ (twoStarts \/ givenUp \/ Single)

\* A task that an AgentProcess names is one that found this AgentProcess.
TaskInv ==
  \A e \in LocalCalls : currentTask[e] # NoCall =>
    callAt[currentTask[e]] = "executing" /\ target[currentTask[e]].entry = e

ProcessInv == AgentTypeOK /\ KnownInv /\ TaskInv

-----------------------------------------------------------------------------
(* Types.                                                                  *)

LEMMA OverTypes ==
  ASSUME AgentTypeOK, NEW E, Over(E)
  PROVE  agentStatus' \in [LocalCalls -> {"none", "starting", "running", "over"}]
BY DEF AgentTypeOK, Over

LEMMA AppendsTypes ==
  ASSUME AgentTypeOK, Appends
  PROVE  /\ members' \in [Viewers -> SUBSET Viewers]
         /\ registered' \in Viewers \cup {NoViewer}
         /\ UNCHANGED <<stream, keepalive, mine, twice>>
<1> DEFINE told == IF registered = NoViewer THEN {} ELSE members[registered]
           failing == {v \in told : stream[v] = "gone"}
<1>1. /\ members' = [s \in Viewers |-> IF s = registered THEN told \ failing ELSE members[s]]
      /\ registered' = IF failing # {} /\ told = failing THEN NoViewer ELSE registered
      /\ UNCHANGED <<stream, keepalive, mine, twice>>
  BY DEF Appends
<1>2. told \subseteq Viewers
  BY DEF AgentTypeOK
<1>. HIDE DEF told, failing
<1>. QED
  BY <1>1, <1>2 DEF AgentTypeOK

LEMMA StopAgentTypes ==
  ASSUME AgentTypeOK, NEW r \in LocalCalls, NEW f \in {"end", "start", "spawn"},
         StopAgent(r, f), tasks' \subseteq LocalCalls, UNCHANGED <<down>>, twoStarts' \in BOOLEAN
  PROVE  AgentTypeOK'
<1>1. /\ callAt' \in [LocalCalls -> Starting \cup {"idle", "executing", "done"}]
      /\ following' \in [LocalCalls -> {"end", "start", "spawn"}]
      /\ UNCHANGED <<current, lasting, currentTask, viewVars>>
  BY DEF StopAgent, AgentTypeOK, Starting
<1>2. agentStatus' \in [LocalCalls -> {"none", "starting", "running", "over"}]
  BY OverTypes DEF StopAgent, AgentTypeOK, childVars
<1>3. target' \in [LocalCalls -> [child : LocalCalls \cup {NoCall}, entry : LocalCalls \cup {NoCall}]]
  <2>1. \/ target' = target
        \/ target' = [target EXCEPT ![r] = [child |-> child, entry |-> current]]
    BY DEF StopAgent
  <2>. QED
    BY <2>1 DEF AgentTypeOK
<1>4. child' \in LocalCalls \cup {NoCall} /\ killed' \subseteq LocalCalls /\ life' = life
  BY DEF StopAgent, AgentTypeOK, childVars
<1>5. givenUp' \in BOOLEAN
  <2>1. givenUp' = givenUp \/ givenUp' = TRUE
    BY DEF StopAgent, childVars
  <2>. QED
    BY <2>1 DEF AgentTypeOK
<1>6. \A q \in LocalCalls : callAt'[q] = "stopping" => target'[q].child # NoCall
  <2>1. \A q \in LocalCalls \ {r} : callAt'[q] = callAt[q] /\ target'[q] = target[q]
    BY DEF StopAgent, AgentTypeOK
  <2>2. callAt'[r] = "stopping" => target'[r].child # NoCall
    BY DEF StopAgent, AgentTypeOK
  <2>. QED
    BY <2>1, <2>2 DEF AgentTypeOK
<1>. QED
  BY <1>1, <1>2, <1>3, <1>4, <1>5, <1>6 DEF AgentTypeOK, viewVars

LEMMA SpawnsTypes ==
  ASSUME AgentTypeOK, NEW r \in LocalCalls, Spawns(r), tasks' \subseteq LocalCalls,
         UNCHANGED down, twoStarts' \in BOOLEAN
  PROVE  AgentTypeOK'
BY DEF Spawns, AgentTypeOK, viewVars, Starting

LEMMA StartAgentTypes ==
  ASSUME AgentTypeOK, NEW r \in LocalCalls, StartAgent(r), tasks' \subseteq LocalCalls,
         UNCHANGED down
  PROVE  AgentTypeOK'
<1>1. twoStarts' \in BOOLEAN
  BY DEF StartAgent, AgentTypeOK
<1>. QED
  BY <1>1, SpawnsTypes, StopAgentTypes DEF StartAgent

LEMMA SendTaskTypes ==
  ASSUME AgentTypeOK, NEW r \in LocalCalls, SendTask(r), tasks' \subseteq LocalCalls,
         UNCHANGED down
  PROVE  AgentTypeOK'
<1>1. /\ members' \in [Viewers -> SUBSET Viewers]
      /\ registered' \in Viewers \cup {NoViewer}
      /\ UNCHANGED <<stream, keepalive, mine, twice>>
  BY AppendsTypes DEF SendTask, viewVars, AgentTypeOK
<1>2. /\ UNCHANGED <<current, agentStatus, lasting, childVars, following, twoStarts>>
      /\ callAt' \in [LocalCalls -> Starting \cup {"idle", "executing", "done"}]
      /\ currentTask' \in [LocalCalls -> LocalCalls \cup {NoCall}]
      /\ target' \in [LocalCalls -> [child : LocalCalls \cup {NoCall}, entry : LocalCalls \cup {NoCall}]]
  BY DEF SendTask, IsRunning, AgentTypeOK
<1>3. \A q \in LocalCalls : callAt'[q] = "stopping" => target'[q] = target[q] /\ callAt[q] = "stopping"
  BY DEF SendTask, AgentTypeOK
<1>. QED
  BY <1>1, <1>2, <1>3 DEF AgentTypeOK, childVars

LEMMA TypesKeep == AgentTypeOK /\ [AgentNext]_agentVars => AgentTypeOK'
<1>. SUFFICES ASSUME AgentTypeOK, [AgentNext]_agentVars
              PROVE  AgentTypeOK'
  OBVIOUS
<1>. USE DEF Starting
<1>1. CASE UNCHANGED agentVars
  BY <1>1 DEF AgentTypeOK, agentVars, processVars, childVars, callVars, viewVars
<1>2. ASSUME NEW r \in LocalCalls, StartCall(r) PROVE AgentTypeOK'
  BY <1>2, StartAgentTypes DEF StartCall, Begins, AgentTypeOK
<1>3. ASSUME NEW r \in LocalCalls, StopCall(r) PROVE AgentTypeOK'
  BY <1>3, StopAgentTypes DEF StopCall, Begins, AgentTypeOK
<1>4. ASSUME NEW r \in LocalCalls, RestartCall(r) PROVE AgentTypeOK'
  BY <1>4, StopAgentTypes DEF RestartCall, Begins, AgentTypeOK
<1>5. ASSUME NEW r \in LocalCalls, TaskCall(r) PROVE AgentTypeOK'
  <2>1. tasks' \subseteq LocalCalls /\ UNCHANGED down
    BY <1>5 DEF TaskCall, Begins, AgentTypeOK
  <2>. QED
    BY <1>5, <2>1, StartAgentTypes, SendTaskTypes DEF TaskCall
<1>6. ASSUME NEW r \in LocalCalls, Stopped(r) PROVE AgentTypeOK'
  <2>1. tasks' \subseteq LocalCalls /\ UNCHANGED down
    BY <1>6 DEF Stopped, AgentTypeOK
  <2>2. CASE Spawns(r) /\ UNCHANGED twoStarts
    <3>1. twoStarts' \in BOOLEAN
      BY <2>2 DEF AgentTypeOK
    <3>. QED
      BY <2>1, <2>2, <3>1, SpawnsTypes
  <2>3. CASE StartAgent(r)
    BY <2>1, <2>3, StartAgentTypes
  <2>4. CASE /\ callAt' = [callAt EXCEPT ![r] = "done"]
             /\ following' = [following EXCEPT ![r] = "end"]
             /\ UNCHANGED <<processVars, childVars, target, twoStarts, viewVars>>
    BY <2>1, <2>4 DEF AgentTypeOK, processVars, childVars, viewVars
  <2>. QED
    BY <1>6, <2>2, <2>3, <2>4 DEF Stopped
<1>7. ASSUME NEW r \in LocalCalls, Spawned(r) PROVE AgentTypeOK'
  <2>1. agentStatus' \in [LocalCalls -> {"none", "starting", "running", "over"}]
    BY <1>7, OverTypes DEF Spawned, AgentTypeOK
  <2>. QED
    BY <1>7, <2>1 DEF Spawned, AgentTypeOK, viewVars
<1>8. ASSUME NEW r \in LocalCalls, Resumes(r) PROVE AgentTypeOK'
  <2>1. tasks' \subseteq LocalCalls /\ UNCHANGED down
    BY <1>8 DEF Resumes, AgentTypeOK
  <2>2. CASE r \in tasks
    BY <1>8, <2>1, <2>2, SendTaskTypes DEF Resumes
  <2>3. CASE r \notin tasks
    BY <1>8, <2>3 DEF Resumes, AgentTypeOK, processVars, childVars, viewVars
  <2>. QED
    BY <2>2, <2>3
<1>9. ASSUME NEW r \in LocalCalls, TaskReturns(r) PROVE AgentTypeOK'
  <2>1. /\ members' \in [Viewers -> SUBSET Viewers]
        /\ registered' \in Viewers \cup {NoViewer}
        /\ UNCHANGED <<stream, keepalive, mine, twice>>
    BY <1>9, AppendsTypes DEF TaskReturns
  <2>. QED
    BY <1>9, <2>1 DEF TaskReturns, AgentTypeOK, childVars, NoTarget
<1>10. ASSUME NEW c \in LocalCalls, ChildPrints(c) PROVE AgentTypeOK'
  BY <1>10, AppendsTypes DEF ChildPrints, AgentTypeOK, processVars, childVars, callVars
<1>11. ASSUME NEW c \in LocalCalls, ChildExits(c) PROVE AgentTypeOK'
  BY <1>11 DEF ChildExits, AgentTypeOK, processVars, callVars, viewVars
<1>12. ASSUME NEW c \in LocalCalls, ChildCloses(c) PROVE AgentTypeOK'
  <2>1. agentStatus' \in [LocalCalls -> {"none", "starting", "running", "over"}]
    BY <1>12, OverTypes DEF ChildCloses
  <2>2. /\ members' \in [Viewers -> SUBSET Viewers]
        /\ registered' \in Viewers \cup {NoViewer}
        /\ UNCHANGED <<stream, keepalive, mine, twice>>
    BY <1>12, AppendsTypes DEF ChildCloses, AgentTypeOK, viewVars
  <2>3. /\ callAt' \in [LocalCalls -> Starting \cup {"idle", "executing", "done"}]
        /\ target' \in [LocalCalls -> [child : LocalCalls \cup {NoCall},
                                      entry : LocalCalls \cup {NoCall}]]
    BY <1>12 DEF ChildCloses, AgentTypeOK, NoTarget
  <2>4. /\ life' = [life EXCEPT ![c] = "closed"] /\ child' = NoCall
        /\ UNCHANGED <<current, lasting, currentTask, killed, givenUp, tasks, following, down, twoStarts>>
    BY <1>12 DEF ChildCloses
  <2>5. \A q \in LocalCalls : callAt'[q] = "stopping" => target'[q] = target[q] /\ callAt[q] = "stopping"
    BY <1>12 DEF ChildCloses
  <2>. QED
    BY <2>1, <2>2, <2>3, <2>4, <2>5 DEF AgentTypeOK
<1>13. ASSUME NEW r \in LocalCalls, GracePeriodOver(r) PROVE AgentTypeOK'
  <2>1. agentStatus' \in [LocalCalls -> {"none", "starting", "running", "over"}]
    BY <1>13, OverTypes DEF GracePeriodOver
  <2>2. life' \in [LocalCalls -> {"none", "alive", "exited", "closed"}] /\ killed' \subseteq LocalCalls
    <3>1. \/ UNCHANGED <<life, killed>>
          \/ /\ life' = [life EXCEPT ![target[r].child] = "exited"]
             /\ killed' = killed \cup {target[r].child}
             /\ life[target[r].child] = "alive"
      BY <1>13 DEF GracePeriodOver
    <3>2. target[r].child \in LocalCalls
      BY <1>13 DEF GracePeriodOver, AgentTypeOK
    <3>. QED
      BY <3>1, <3>2 DEF AgentTypeOK
  <2>3. /\ callAt' = [callAt EXCEPT ![r] = "stopped"]
        /\ target' = [target EXCEPT ![r] = NoTarget]
        /\ child' = NoCall /\ givenUp' = TRUE
        /\ UNCHANGED <<current, lasting, currentTask, tasks, following, down, twoStarts, viewVars>>
    BY <1>13 DEF GracePeriodOver
  <2>. QED
    BY <2>1, <2>2, <2>3 DEF AgentTypeOK, viewVars, NoTarget
<1>14. ASSUME NEW v \in Viewers, Follow(v) PROVE AgentTypeOK'
  BY <1>14 DEF Follow, AgentTypeOK, processVars, childVars, callVars
<1>15. ASSUME NEW v \in Viewers, Vanish(v) PROVE AgentTypeOK'
  BY <1>15 DEF Vanish, AgentTypeOK, processVars, childVars, callVars
<1>16. ASSUME NEW v \in Viewers, KeepaliveFails(v) PROVE AgentTypeOK'
  BY <1>16 DEF KeepaliveFails, Unsubscribes, AgentTypeOK, processVars, childVars, callVars
<1>17. ASSUME NEW v \in Viewers, Aborted(v) PROVE AgentTypeOK'
  BY <1>17 DEF Aborted, Unsubscribes, AgentTypeOK, processVars, childVars, callVars
<1>18. CASE Shutdown
  <2>1. agentStatus' \in [LocalCalls -> {"none", "starting", "running", "over"}]
    BY <1>18, OverTypes DEF Shutdown, AgentTypeOK
  <2>2. givenUp' \in BOOLEAN
    <3>1. givenUp' = givenUp \/ givenUp' = TRUE
      BY <1>18 DEF Shutdown
    <3>. QED
      BY <3>1 DEF AgentTypeOK
  <2>3. killed' \subseteq LocalCalls /\ child' = NoCall /\ down' = TRUE
    BY <1>18 DEF Shutdown, AgentTypeOK
  <2>4. UNCHANGED <<current, lasting, currentTask, life, callVars, twoStarts, viewVars>>
    BY <1>18 DEF Shutdown
  <2>. QED
    BY <2>1, <2>2, <2>3, <2>4 DEF AgentTypeOK, callVars, viewVars
<1>. QED
  BY <1>1, <1>2, <1>3, <1>4, <1>5, <1>6, <1>7, <1>8, <1>9, <1>10, <1>11, <1>12, <1>13, <1>14,
     <1>15, <1>16, <1>17, <1>18 DEF AgentNext

-----------------------------------------------------------------------------
(* Output.                                                                 *)

\* A callback is in the set its viewer has found, while the stream is not over; as long
\* as nobody unsubscribed twice there is one set of callbacks, the one that is found.
ViewInv ==
  /\ \A v, s \in Viewers : v \in members[s] => mine[v] = s /\ stream[v] \in {"open", "gone"}
  /\ \A v \in keepalive : stream[v] \in {"open", "gone"}
  /\ twice \/ \A s \in Viewers : members[s] # {} => s = registered
  /\ ViewerServed

OutputInv == AgentTypeOK /\ ViewInv

\* appendOutput takes only callbacks of streams that are gone.
LEMMA AppendsKeeps ==
  ASSUME AgentTypeOK, ViewInv, Appends
  PROVE  ViewInv'
<1> DEFINE told == IF registered = NoViewer THEN {} ELSE members[registered]
           failing == {v \in told : stream[v] = "gone"}
<1>1. /\ members' = [s \in Viewers |-> IF s = registered THEN told \ failing ELSE members[s]]
      /\ registered' = IF failing # {} /\ told = failing THEN NoViewer ELSE registered
      /\ UNCHANGED <<stream, keepalive, mine, twice>>
  BY DEF Appends
<1>. HIDE DEF told, failing
<1>2. registered \in Viewers => told = members[registered]
  BY DEF told
<1>3. \A s \in Viewers : members'[s] \subseteq members[s]
  BY <1>1, <1>2
<1>4. ASSUME NEW s \in Viewers, ~twice, members'[s] # {}
      PROVE  s = registered'
  <2>1. s = registered
    BY <1>3, <1>4 DEF ViewInv
  <2>2. told # failing
    BY <1>1, <1>4, <2>1
  <2>. QED
    BY <1>1, <2>1, <2>2
<1>5. ASSUME NEW v \in Viewers, ~twice, stream[v] = "open"
      PROVE  registered' # NoViewer /\ v \in members'[registered']
  <2>1. registered \in Viewers /\ v \in members[registered]
    BY <1>5 DEF ViewInv, ViewerServed, AgentTypeOK
  <2>2. v \in told /\ v \notin failing
    BY <1>2, <1>5, <2>1 DEF failing
  <2>3. registered' = registered
    BY <1>1, <2>2
  <2>. QED
    BY <1>1, <2>1, <2>2, <2>3
<1>6. ViewerServed'
  BY <1>1, <1>5 DEF ViewerServed
<1>. QED
  BY <1>1, <1>3, <1>4, <1>6 DEF ViewInv

\* A viewer that goes, by its abort or its keepalive, unsubscribes.
LEMMA UnsubscribesKeeps ==
  ASSUME AgentTypeOK, ViewInv, NEW v \in Viewers, Unsubscribes(v), mine' = mine,
         keepalive' = keepalive \ {v},
         stream[v] \in {"open", "gone"},
         \A w \in Viewers \ {v} : stream'[w] = stream[w],
         stream'[v] \in {"gone", "over"}
  PROVE  ViewInv'
<1>1. /\ members' = [members EXCEPT ![mine[v]] = @ \ {v}]
      /\ registered' = IF members[mine[v]] \ {v} = {} THEN NoViewer ELSE registered
      /\ twice' = (twice \/ v \notin members[mine[v]])
  BY DEF Unsubscribes
<1>2. mine[v] \in Viewers /\ members \in [Viewers -> SUBSET Viewers] /\ registered \in Viewers \cup {NoViewer}
  BY DEF AgentTypeOK
<1>3. \A s \in Viewers : members'[s] = members[s] \ {v}
  BY <1>1, <1>2 DEF ViewInv
<1>4. ASSUME ~twice'
      PROVE  ~twice /\ v \in members[registered] /\ mine[v] = registered
  BY <1>1, <1>2, <1>4 DEF ViewInv
<1>5. ASSUME NEW s \in Viewers, ~twice', members'[s] # {}
      PROVE  s = registered'
  BY <1>1, <1>2, <1>3, <1>4, <1>5 DEF ViewInv
<1>6. ASSUME NEW w \in Viewers, ~twice', stream'[w] = "open"
      PROVE  registered' # NoViewer /\ w \in members'[registered']
  <2>1. w # v /\ stream[w] = "open"
    BY <1>6
  <2>2. registered \in Viewers /\ w \in members[registered]
    BY <1>2, <1>4, <1>6, <2>1 DEF ViewInv, ViewerServed
  <2>3. registered' = registered
    BY <1>1, <1>4, <1>6, <2>1, <2>2
  <2>. QED
    BY <1>3, <2>1, <2>2, <2>3
<1>7. ViewerServed'
  BY <1>6 DEF ViewerServed
<1>8. \A w, s \in Viewers : w \in members'[s] => mine'[w] = s /\ stream'[w] \in {"open", "gone"}
  BY <1>3 DEF ViewInv
<1>9. \A w \in keepalive' : stream'[w] \in {"open", "gone"}
  <2>1. keepalive \subseteq Viewers
    BY DEF AgentTypeOK
  <2>. QED
    BY <2>1 DEF ViewInv
<1>. QED
  BY <1>5, <1>7, <1>8, <1>9 DEF ViewInv

\* Every other step leaves the streams and their callbacks alone.
LEMMA ViewSteps ==
  ASSUME [AgentNext]_agentVars
  PROVE  \/ UNCHANGED viewVars
         \/ Appends
         \/ \E v \in Viewers : Follow(v) \/ Vanish(v) \/ KeepaliveFails(v) \/ Aborted(v)
<1>1. ASSUME NEW r \in LocalCalls, SendTask(r) PROVE UNCHANGED viewVars \/ Appends
  BY <1>1 DEF SendTask
<1>2. ASSUME NEW r \in LocalCalls, NEW f, StopAgent(r, f) PROVE UNCHANGED viewVars
  BY <1>2 DEF StopAgent
<1>3. ASSUME NEW r \in LocalCalls, Spawns(r) PROVE UNCHANGED viewVars
  BY <1>3 DEF Spawns
<1>4. ASSUME NEW r \in LocalCalls, StartAgent(r) PROVE UNCHANGED viewVars
  BY <1>2, <1>3, <1>4 DEF StartAgent
<1>5. ASSUME NEW r \in LocalCalls,
             StartCall(r) \/ StopCall(r) \/ RestartCall(r) \/ TaskCall(r) \/ Stopped(r)
             \/ Resumes(r)
      PROVE  UNCHANGED viewVars \/ Appends
  BY <1>1, <1>2, <1>3, <1>4, <1>5 DEF StartCall, StopCall, RestartCall, TaskCall, Stopped, Resumes
<1>6. ASSUME NEW r \in LocalCalls,
             Spawned(r) \/ TaskReturns(r) \/ ChildPrints(r) \/ ChildExits(r)
             \/ ChildCloses(r) \/ GracePeriodOver(r)
      PROVE  UNCHANGED viewVars \/ Appends
  BY <1>6 DEF Spawned, TaskReturns, ChildPrints, ChildExits, ChildCloses, GracePeriodOver
<1>7. CASE UNCHANGED agentVars
  BY <1>7 DEF agentVars
<1>8. CASE Shutdown
  BY <1>8 DEF Shutdown
<1>. QED
  BY <1>5, <1>6, <1>7, <1>8 DEF AgentNext

LEMMA ViewKeeps ==
  ASSUME AgentTypeOK, ViewInv, [AgentNext]_agentVars
  PROVE  ViewInv'
<1>1. CASE UNCHANGED viewVars
  BY <1>1 DEF ViewInv, ViewerServed, viewVars
<1>2. CASE Appends
  BY <1>2, AppendsKeeps
<1>3. ASSUME NEW v \in Viewers, Follow(v)
      PROVE  ViewInv'
  <2> DEFINE s == IF registered = NoViewer THEN v ELSE registered
  <2>1. /\ stream[v] = "idle"
        /\ stream' = [stream EXCEPT ![v] = "open"]
        /\ keepalive' = keepalive \cup {v}
        /\ registered' = s
        /\ mine' = [mine EXCEPT ![v] = s]
        /\ members' = [members EXCEPT ![s] = @ \cup {v}]
        /\ twice' = twice
    BY <1>3 DEF Follow
  <2>2. s \in Viewers
    BY DEF AgentTypeOK
  <2>3. registered = NoViewer \/ registered = s
    OBVIOUS
  <2>. HIDE DEF s
  <2>4. \A w, t \in Viewers : w \in members'[t] => mine'[w] = t /\ stream'[w] \in {"open", "gone"}
    BY <2>1, <2>2 DEF ViewInv, AgentTypeOK
  <2>5. \A w \in keepalive' : stream'[w] \in {"open", "gone"}
    BY <2>1 DEF ViewInv, AgentTypeOK
  <2>6. twice' \/ \A t \in Viewers : members'[t] # {} => t = registered'
    BY <2>1, <2>2, <2>3 DEF ViewInv, AgentTypeOK
  <2>7. ASSUME NEW w \in Viewers, ~twice', stream'[w] = "open"
        PROVE  registered' # NoViewer /\ w \in members'[registered']
    <3>1. CASE w = v
      BY <2>1, <2>2, <3>1 DEF AgentTypeOK
    <3>2. CASE w # v
      <4>1. registered # NoViewer /\ w \in members[registered]
        BY <2>1, <2>7, <3>2 DEF ViewInv, ViewerServed, AgentTypeOK
      <4>. QED
        BY <2>1, <2>2, <2>3, <4>1 DEF AgentTypeOK
    <3>. QED
      BY <3>1, <3>2
  <2>8. ViewerServed'
    BY <2>7 DEF ViewerServed
  <2>. QED
    BY <2>4, <2>5, <2>6, <2>8 DEF ViewInv
<1>4. ASSUME NEW v \in Viewers, Vanish(v)
      PROVE  ViewInv'
  <2>1. /\ stream' = [stream EXCEPT ![v] = "gone"]
        /\ UNCHANGED <<keepalive, registered, members, mine, twice>>
    BY <1>4 DEF Vanish
  <2>2. \A w \in Viewers : stream'[w] = IF w = v THEN "gone" ELSE stream[w]
    BY <2>1 DEF AgentTypeOK
  <2>3. keepalive \subseteq Viewers
    BY DEF AgentTypeOK
  <2>4. ViewerServed'
    BY <2>1, <2>2 DEF ViewInv, ViewerServed
  <2>. QED
    BY <2>1, <2>2, <2>3, <2>4 DEF ViewInv
<1>5. ASSUME NEW v \in Viewers, KeepaliveFails(v) \/ Aborted(v)
      PROVE  ViewInv'
  <2>1. /\ Unsubscribes(v)
        /\ mine' = mine
        /\ keepalive' = keepalive \ {v}
        /\ stream[v] \in {"open", "gone"}
        /\ \A w \in Viewers \ {v} : stream'[w] = stream[w]
        /\ stream'[v] \in {"gone", "over"}
    BY <1>5 DEF KeepaliveFails, Aborted, AgentTypeOK
  <2>. QED
    BY <2>1, UnsubscribesKeeps
<1>. QED
  BY <1>1, <1>2, <1>3, <1>4, <1>5, ViewSteps

\* An aborted stream leaves nothing.
LEMMA Forgotten == AgentTypeOK /\ ViewInv => ViewerForgotten
BY DEF AgentTypeOK, ViewInv, ViewerForgotten

THEOREM OutputInvariant == AgentSpec => []OutputInv
<1>1. AgentInit => OutputInv
  <2>. SUFFICES ASSUME AgentInit PROVE OutputInv
    OBVIOUS
  <2>1. AgentTypeOK
    BY DEF AgentInit, AgentTypeOK, NoTarget, Starting
  <2>2. ViewInv
    BY DEF AgentInit, ViewInv, ViewerServed
  <2>. QED
    BY <2>1, <2>2 DEF OutputInv
<1>2. OutputInv /\ [AgentNext]_agentVars => OutputInv'
  BY TypesKeep, ViewKeeps DEF OutputInv
<1>. QED
  BY <1>1, <1>2, PTL DEF AgentSpec

\* The variables of the runtime keep their types.
THEOREM AgentTypeCorrect == AgentSpec => []AgentTypeOK
<1>1. OutputInv => AgentTypeOK
  BY DEF OutputInv
<1>. QED
  BY <1>1, OutputInvariant, PTL

\* Whoever follows the output is in the set of callbacks appendOutput calls, unless some
\* function that onOutput returned was called twice.
THEOREM ViewersAreServed == AgentSpec => []ViewerServed
<1>1. OutputInv => ViewerServed
  BY DEF OutputInv, ViewInv
<1>. QED
  BY <1>1, OutputInvariant, PTL

\* A stream whose request was aborted leaves no callback and no interval, in whatever
\* order its reader went and its callback or its keepalive noticed.
THEOREM ViewersAreForgotten == AgentSpec => []ViewerForgotten
<1>1. OutputInv => ViewerForgotten
  BY Forgotten DEF OutputInv
<1>. QED
  BY <1>1, OutputInvariant, PTL

-----------------------------------------------------------------------------
(* Tasks.                                                                  *)

\* A call that executes no task may have its await and its target changed.
LEMMA TaskAside ==
  ASSUME AgentTypeOK, TaskInv, currentTask' = currentTask,
         \A q \in LocalCalls : callAt[q] = "executing" =>
           callAt'[q] = "executing" /\ target'[q] = target[q]
  PROVE  TaskInv'
BY DEF TaskInv, AgentTypeOK

LEMMA StopAgentTask ==
  ASSUME AgentTypeOK, TaskInv, NEW r \in LocalCalls, NEW f, StopAgent(r, f),
         callAt[r] # "executing"
  PROVE  TaskInv'
BY TaskAside DEF StopAgent, AgentTypeOK

LEMMA SpawnsTask ==
  ASSUME AgentTypeOK, TaskInv, NEW r \in LocalCalls, Spawns(r), callAt[r] # "executing"
  PROVE  TaskInv'
BY TaskAside DEF Spawns, AgentTypeOK

LEMMA StartAgentTask ==
  ASSUME AgentTypeOK, TaskInv, NEW r \in LocalCalls, StartAgent(r), callAt[r] # "executing"
  PROVE  TaskInv'
BY StopAgentTask, SpawnsTask DEF StartAgent

LEMMA SendTaskTask ==
  ASSUME AgentTypeOK, TaskInv, NEW r \in LocalCalls, SendTask(r), callAt[r] # "executing"
  PROVE  TaskInv'
<1>1. CASE ~IsRunning
  <2>1. UNCHANGED <<currentTask, target>> /\ callAt' = [callAt EXCEPT ![r] = "done"]
    BY <1>1 DEF SendTask
  <2>. QED
    BY <2>1, TaskAside DEF AgentTypeOK
<1>2. CASE IsRunning
  <2>1. /\ current \in LocalCalls
        /\ currentTask' = [currentTask EXCEPT ![current] = r]
        /\ target' = [target EXCEPT ![r] = [child |-> NoCall, entry |-> current]]
        /\ callAt' = [callAt EXCEPT ![r] = "executing"]
    BY <1>2 DEF SendTask, IsRunning, AgentTypeOK
  <2>2. ASSUME NEW e \in LocalCalls, currentTask'[e] # NoCall
        PROVE  callAt'[currentTask'[e]] = "executing" /\ target'[currentTask'[e]].entry = e
    <3>1. CASE e = current
      BY <2>1, <3>1 DEF AgentTypeOK
    <3>2. CASE e # current
      <4>1. /\ currentTask'[e] = currentTask[e] /\ currentTask[e] \in LocalCalls
            /\ callAt[currentTask[e]] = "executing" /\ target[currentTask[e]].entry = e
        BY <2>1, <2>2, <3>2 DEF AgentTypeOK, TaskInv
      <4>. QED
        BY <2>1, <4>1 DEF AgentTypeOK
    <3>. QED
      BY <3>1, <3>2
  <2>. QED
    BY <2>2 DEF TaskInv
<1>. QED
  BY <1>1, <1>2

LEMMA TaskKeeps ==
  ASSUME AgentTypeOK, TaskInv, [AgentNext]_agentVars
  PROVE  TaskInv'
<1>1. ASSUME NEW r \in LocalCalls,
             StartCall(r) \/ StopCall(r) \/ RestartCall(r) \/ TaskCall(r)
      PROVE  TaskInv'
  <2>1. callAt[r] # "executing"
    BY <1>1 DEF StartCall, StopCall, RestartCall, TaskCall, Begins
  <2>. QED
    BY <1>1, <2>1, StartAgentTask, StopAgentTask, SendTaskTask
       DEF StartCall, StopCall, RestartCall, TaskCall
<1>2. ASSUME NEW r \in LocalCalls, Stopped(r)
      PROVE  TaskInv'
  <2>1. callAt[r] # "executing"
    BY <1>2 DEF Stopped
  <2>2. CASE /\ callAt' = [callAt EXCEPT ![r] = "done"]
             /\ UNCHANGED <<processVars, target>>
    BY <2>1, <2>2, TaskAside DEF AgentTypeOK, processVars
  <2>. QED
    BY <1>2, <2>1, <2>2, StartAgentTask, SpawnsTask DEF Stopped
<1>3. ASSUME NEW r \in LocalCalls, Resumes(r)
      PROVE  TaskInv'
  <2>1. callAt[r] # "executing"
    BY <1>3 DEF Resumes
  <2>2. CASE /\ callAt' = [callAt EXCEPT ![r] = "done"]
             /\ UNCHANGED <<processVars, target>>
    BY <2>1, <2>2, TaskAside DEF AgentTypeOK, processVars
  <2>. QED
    BY <1>3, <2>1, <2>2, SendTaskTask DEF Resumes
<1>4. ASSUME NEW r \in LocalCalls, TaskReturns(r)
      PROVE  TaskInv'
  <2>1. /\ callAt' = [callAt EXCEPT ![r] = "done"]
        /\ target' = [target EXCEPT ![r] = NoTarget]
        /\ currentTask' = [currentTask EXCEPT ![target[r].entry] = NoCall]
    BY <1>4 DEF TaskReturns
  <2>2. ASSUME NEW e \in LocalCalls, currentTask'[e] # NoCall
        PROVE  callAt'[currentTask'[e]] = "executing" /\ target'[currentTask'[e]].entry = e
    <3>1. /\ currentTask'[e] = currentTask[e] /\ currentTask[e] \in LocalCalls
          /\ callAt[currentTask[e]] = "executing" /\ target[currentTask[e]].entry = e
      BY <2>1, <2>2 DEF AgentTypeOK, TaskInv
    <3>2. currentTask[e] # r
      BY <2>1, <2>2, <3>1 DEF AgentTypeOK
    <3>. QED
      BY <2>1, <3>1, <3>2 DEF AgentTypeOK
  <2>. QED
    BY <2>2 DEF TaskInv
<1>5. ASSUME NEW r \in LocalCalls,
             Spawned(r) \/ ChildPrints(r) \/ ChildExits(r) \/ ChildCloses(r) \/ GracePeriodOver(r)
      PROVE  TaskInv'
  <2>1. currentTask' = currentTask
    BY <1>5 DEF Spawned, ChildPrints, ChildExits, ChildCloses, GracePeriodOver, processVars
  <2>2. \A q \in LocalCalls : callAt[q] = "executing" =>
          callAt'[q] = "executing" /\ target'[q] = target[q]
    BY <1>5 DEF Spawned, ChildPrints, ChildExits, ChildCloses, GracePeriodOver, WaitFor,
       callVars, AgentTypeOK
  <2>. QED
    BY <2>1, <2>2, TaskAside
<1>6. ASSUME UNCHANGED <<callAt, target, currentTask>>
      PROVE  TaskInv'
  BY <1>6 DEF TaskInv
<1>7. ASSUME NEW v \in Viewers, Follow(v) \/ Vanish(v) \/ KeepaliveFails(v) \/ Aborted(v)
      PROVE  UNCHANGED <<callAt, target, currentTask>>
  BY <1>7 DEF Follow, Vanish, KeepaliveFails, Aborted, callVars, processVars
<1>8. Shutdown \/ UNCHANGED agentVars => UNCHANGED <<callAt, target, currentTask>>
  BY DEF Shutdown, agentVars, callVars, processVars
<1>. QED
  BY <1>1, <1>2, <1>3, <1>4, <1>5, <1>6, <1>7, <1>8 DEF AgentNext

-----------------------------------------------------------------------------
(* Children.                                                               *)

\* stopAgent of a call that has not spawned, alone if it is to start the agent next.
LEMMA StopAgentKnown ==
  ASSUME AgentTypeOK, KnownInv, NEW r \in LocalCalls, NEW f \in {"end", "start", "spawn"},
         StopAgent(r, f), callAt[r] \in {"idle", "stopped"}, ~down, ~down',
         twoStarts => twoStarts',
         f = "spawn" => twoStarts' \/ \A q \in LocalCalls \ {r} : ~Spawning(q)
  PROVE  KnownInv'
<1>1. /\ \A q \in LocalCalls \ {r} : callAt'[q] = callAt[q] /\ following'[q] = following[q]
      /\ following'[r] = f
      /\ callAt'[r] = IF child = NoCall THEN "stopped" ELSE "stopping"
      /\ UNCHANGED <<current, lasting, life>>
  BY DEF StopAgent, AgentTypeOK, childVars
<1>2. NotSpawned'
  BY <1>1 DEF KnownInv, NotSpawned
<1>3. ASSUME ~twoStarts', ~givenUp'
      PROVE  Single'
  <2>1. /\ child' = child
        /\ IF child = NoCall THEN Over({current}) ELSE agentStatus' = agentStatus
        /\ ~givenUp
    BY <1>3 DEF StopAgent, childVars
  <2>2. OneStart /\ OneChild
    BY <1>3, <2>1 DEF KnownInv, Single
  <2>3. OneStart'
    <3>1. \A q \in LocalCalls \ {r} : Spawning(q)' <=> Spawning(q)
      BY <1>1 DEF Spawning
    <3>2. Spawning(r)' => f = "spawn"
      BY <1>1 DEF Spawning
    <3>. QED
      BY <1>3, <2>2, <3>1, <3>2 DEF OneStart
  <2>4. \A e \in LocalCalls : agentStatus'[e] \in {agentStatus[e], "over"}
    BY <2>1 DEF Over
  <2>5. \A c \in LocalCalls : life'[c] \in {"alive", "exited"} /\ callAt'[c] # "spawning" =>
          child' = c
    BY <1>1, <2>1, <2>2 DEF OneChild, AgentTypeOK
  <2>6. child' # NoCall => child' = current' /\ agentStatus'[current'] = "running"
    BY <1>1, <2>1, <2>2 DEF OneChild
  <2>7. current' \in lasting' /\ agentStatus'[current'] = "running" => child' = current'
    <3>1. lasting \subseteq LocalCalls
      BY DEF AgentTypeOK
    <3>. QED
      BY <1>1, <2>1, <2>2, <2>4, <3>1 DEF OneChild
  <2>8. \A q \in LocalCalls : callAt'[q] = "spawning" =>
          current' = q /\ child' = NoCall /\ agentStatus'[q] # "running"
    BY <1>1, <2>1, <2>2, <2>4 DEF OneChild
  <2>9. \A q \in LocalCalls : callAt'[q] = "stopped" /\ following'[q] = "spawn" => child' = NoCall
    BY <1>1, <2>1, <2>2 DEF OneChild
  <2>10. OneChild'
    BY <2>5, <2>6, <2>7, <2>8, <2>9 DEF OneChild
  <2>. QED
    BY <2>3, <2>10 DEF Single
<1>. QED
  BY <1>2, <1>3 DEF KnownInv

\* startAgent from the adapter on, of a call that is alone in starting and has found no
\* AgentProcess or has waited for stopAgent.
LEMMA SpawnsKnown ==
  ASSUME AgentTypeOK, KnownInv, NEW r \in LocalCalls, Spawns(r), ~down, ~down',
         callAt[r] \in {"idle", "stopped"},
         current = NoCall \/ (callAt[r] = "stopped" /\ following[r] = "spawn"),
         twoStarts => twoStarts',
         twoStarts' \/ \A q \in LocalCalls \ {r} : ~Spawning(q)
  PROVE  KnownInv'
<1>1. /\ \A q \in LocalCalls \ {r} :
           /\ callAt'[q] = callAt[q] /\ following'[q] = following[q]
           /\ life'[q] = life[q] /\ agentStatus'[q] = agentStatus[q]
      /\ current' = r
      /\ callAt'[r] \in {"spawning", "started"}
      /\ UNCHANGED <<child, killed, givenUp>>
  BY DEF Spawns, AgentTypeOK
<1>2. /\ callAt'[r] = "spawning" => agentStatus'[r] = "starting"
      /\ callAt'[r] = "started" => lasting' = lasting /\ life' = life
      /\ lasting' \subseteq lasting \cup {r}
  BY DEF Spawns, AgentTypeOK
<1>3. r \notin lasting /\ life[r] = "none"
  BY DEF KnownInv, NotSpawned
<1>4. NotSpawned'
  BY <1>1, <1>2 DEF KnownInv, NotSpawned
<1>5. ASSUME ~twoStarts', ~givenUp'
      PROVE  Single'
  <2>1. OneStart /\ OneChild
    BY <1>1, <1>5 DEF KnownInv, Single
  <2>2. child = NoCall
    BY <2>1 DEF OneChild
  <2>3. OneStart'
    BY <1>1, <1>5 DEF OneStart, Spawning
  <2>4. \A c \in LocalCalls : life'[c] \in {"alive", "exited"} /\ callAt'[c] # "spawning" =>
          child' = c
    <3>1. ASSUME life'[r] \in {"alive", "exited"}, callAt'[r] # "spawning"
          PROVE  FALSE
      BY <1>1, <1>2, <1>3, <3>1
    <3>. QED
      BY <1>1, <2>1, <3>1 DEF OneChild
  <2>5. current' \in lasting' /\ agentStatus'[current'] = "running" => child' = current'
    BY <1>1, <1>2, <1>3
  <2>6. \A q \in LocalCalls : callAt'[q] = "spawning" =>
          current' = q /\ child' = NoCall /\ agentStatus'[q] # "running"
    <3>1. \A q \in LocalCalls \ {r} : callAt[q] # "spawning"
      BY <1>5 DEF Spawning
    <3>. QED
      BY <1>1, <1>2, <2>2, <3>1
  <2>7. OneChild'
    BY <1>1, <2>2, <2>4, <2>5, <2>6 DEF OneChild
  <2>. QED
    BY <2>3, <2>7 DEF Single
<1>. QED
  BY <1>4, <1>5 DEF KnownInv

\* startAgent from its beginning.
LEMMA StartAgentKnown ==
  ASSUME AgentTypeOK, KnownInv, NEW r \in LocalCalls, StartAgent(r), ~down, ~down',
         callAt[r] \in {"idle", "stopped"}
  PROVE  KnownInv'
<1>1. /\ twoStarts => twoStarts'
      /\ twoStarts' \/ \A q \in LocalCalls \ {r} : ~Spawning(q)
  BY DEF StartAgent, OtherStarts, Spawning
<1>. QED
  BY <1>1, SpawnsKnown, StopAgentKnown DEF StartAgent

\* The other steps of calls and viewers: a call goes on to a task or its answer.
LEMMA KnownAside ==
  ASSUME AgentTypeOK, KnownInv,
         UNCHANGED <<current, agentStatus, lasting, childVars, down, twoStarts>>,
         \A q \in LocalCalls :
           \/ callAt'[q] = callAt[q] /\ following'[q] = following[q]
           \/ callAt'[q] \in {"executing", "done"} /\ callAt[q] # "spawning"
  PROVE  KnownInv'
<1>1. UNCHANGED <<child, life, killed, givenUp>>
  BY DEF childVars
<1>2. NotSpawned'
  BY <1>1 DEF KnownInv, NotSpawned
<1>3. ASSUME OneStart PROVE OneStart'
  BY <1>3 DEF OneStart, Spawning
<1>4. ASSUME Told PROVE Told'
  BY <1>1, <1>4 DEF Told
<1>5. ASSUME OneChild PROVE OneChild'
  BY <1>1, <1>5 DEF OneChild
<1>6. ASSUME Single PROVE Single'
  BY <1>3, <1>4, <1>5, <1>6 DEF Single
<1>7. (twoStarts \/ givenUp) => (twoStarts \/ givenUp)'
  BY <1>1
<1>. QED
  BY <1>2, <1>6, <1>7 DEF KnownInv

LEMMA SendTaskKnown ==
  ASSUME AgentTypeOK, KnownInv, NEW r \in LocalCalls, SendTask(r), UNCHANGED down,
         callAt[r] # "spawning"
  PROVE  KnownInv'
<1>1. /\ UNCHANGED <<current, agentStatus, lasting, childVars, following, twoStarts>>
      /\ callAt' \in {[callAt EXCEPT ![r] = "done"], [callAt EXCEPT ![r] = "executing"]}
  BY DEF SendTask
<1>2. \A q \in LocalCalls :
        \/ callAt'[q] = callAt[q] /\ following'[q] = following[q]
        \/ callAt'[q] \in {"executing", "done"} /\ callAt[q] # "spawning"
  BY <1>1 DEF AgentTypeOK
<1>. QED
  BY <1>1, <1>2, KnownAside

\* The adapter has spawned a child, which both maps name from now on, or has failed.
LEMMA SpawnedKnown ==
  ASSUME AgentTypeOK, KnownInv, NEW r \in LocalCalls, Spawned(r)
  PROVE  KnownInv'
<1>1. /\ callAt[r] = "spawning" /\ ~down /\ ~down'
      /\ UNCHANGED <<current, lasting, life, killed, givenUp, following, twoStarts>>
      /\ \A q \in LocalCalls \ {r} : callAt'[q] = callAt[q] /\ agentStatus'[q] = agentStatus[q]
  BY DEF Spawned, Over, AgentTypeOK
<1>2. \/ /\ life[r] = "none" /\ agentStatus'[r] = "over"
         /\ callAt'[r] = "done" /\ child' = child
      \/ /\ life[r] # "none" /\ agentStatus'[r] = "running"
         /\ callAt'[r] = "started" /\ child' = r
  BY DEF Spawned, Over, AgentTypeOK
<1>3. NotSpawned'
  BY <1>1, <1>2 DEF KnownInv, NotSpawned
<1>4. ASSUME ~twoStarts', ~givenUp'
      PROVE  Single'
  <2>1. OneStart /\ OneChild
    BY <1>1, <1>4 DEF KnownInv, Single
  <2>2. current = r /\ child = NoCall
    BY <1>1, <2>1 DEF OneChild
  <2>3. \A q \in LocalCalls \ {r} : ~Spawning(q)
    BY <1>1, <2>1 DEF OneStart, Spawning
  <2>4. OneStart'
    BY <1>1, <2>3 DEF OneStart, Spawning
  <2>5. \A c \in LocalCalls : life'[c] \in {"alive", "exited"} /\ callAt'[c] # "spawning" =>
          child' = c
    BY <1>1, <1>2, <2>1, <2>2 DEF OneChild
  <2>6. child' # NoCall => child' = current' /\ agentStatus'[current'] = "running"
    BY <1>1, <1>2, <2>2
  <2>7. current' \in lasting' /\ agentStatus'[current'] = "running" => child' = current'
    BY <1>1, <1>2, <2>2
  <2>8. \A q \in LocalCalls : callAt'[q] # "spawning"
    BY <1>1, <1>2, <2>3 DEF Spawning
  <2>9. \A q \in LocalCalls : callAt'[q] = "stopped" /\ following'[q] = "spawn" => child' = NoCall
    BY <1>1, <1>2, <2>3 DEF Spawning
  <2>10. OneChild'
    BY <2>5, <2>6, <2>7, <2>8, <2>9 DEF OneChild
  <2>. QED
    BY <1>1, <2>4, <2>10 DEF Single
<1>. QED
  BY <1>3, <1>4 DEF KnownInv

LEMMA ChildExitsKnown ==
  ASSUME AgentTypeOK, KnownInv, NEW c \in LocalCalls, ChildExits(c)
  PROVE  KnownInv'
<1>1. /\ life[c] = "alive" /\ life' = [life EXCEPT ![c] = "exited"]
      /\ UNCHANGED <<current, agentStatus, lasting, child, killed, givenUp, callAt, following,
                     down, twoStarts>>
  BY DEF ChildExits, processVars, callVars
<1>2. NotSpawned'
  BY <1>1 DEF KnownInv, NotSpawned, AgentTypeOK
<1>3. ASSUME OneStart PROVE OneStart'
  BY <1>1, <1>3 DEF OneStart, Spawning
<1>4. ASSUME Told PROVE Told'
  BY <1>1, <1>4 DEF Told, AgentTypeOK
<1>5. ASSUME OneChild PROVE OneChild'
  BY <1>1, <1>5 DEF OneChild, AgentTypeOK
<1>6. ASSUME Single PROVE Single'
  BY <1>1, <1>3, <1>4, <1>5, <1>6 DEF Single
<1>7. (twoStarts \/ givenUp) => (twoStarts \/ givenUp)'
  BY <1>1
<1>. QED
  BY <1>2, <1>6, <1>7 DEF KnownInv

\* The close event of the only child: the entries its handler finds are its own.
LEMMA ChildClosesKnown ==
  ASSUME AgentTypeOK, KnownInv, NEW c \in LocalCalls, ChildCloses(c)
  PROVE  KnownInv'
<1> DEFINE E == {target[r].entry : r \in WaitFor(c)} \cup (IF IsRunning THEN {current} ELSE {})
<1>1. /\ life[c] = "exited" /\ callAt[c] # "spawning" /\ ~down /\ ~down'
      /\ life' = [life EXCEPT ![c] = "closed"]
      /\ child' = NoCall
      /\ Over(E)
      /\ UNCHANGED <<current, lasting, givenUp, following, twoStarts>>
  BY DEF ChildCloses
<1>2. \A q \in LocalCalls :
        \/ callAt'[q] = callAt[q]
        \/ callAt[q] = "stopping" /\ callAt'[q] = "stopped"
  BY DEF ChildCloses, WaitFor
<1>3. \A e \in LocalCalls :
        agentStatus'[e] \in {agentStatus[e], "over"} /\ (e \in E => agentStatus'[e] = "over")
  BY <1>1 DEF Over
<1>4. IsRunning => current \in E
  OBVIOUS
<1>. HIDE DEF E
<1>5. NotSpawned'
  BY <1>1, <1>2 DEF KnownInv, NotSpawned, AgentTypeOK
<1>6. ASSUME ~twoStarts', ~givenUp'
      PROVE  Single'
  <2>1. OneStart /\ OneChild
    BY <1>1, <1>6 DEF KnownInv, Single
  <2>2. child = c
    BY <1>1, <2>1 DEF OneChild
  <2>3. \A q \in LocalCalls : callAt[q] # "spawning"
    BY <2>1, <2>2 DEF OneChild
  <2>4. OneStart'
    <3>1. \A q \in LocalCalls : Spawning(q)' => Spawning(q)
      BY <1>1, <1>2 DEF Spawning
    <3>. QED
      BY <2>1, <3>1 DEF OneStart
  <2>5. \A d \in LocalCalls : life'[d] \in {"alive", "exited"} => FALSE
    BY <1>1, <2>1, <2>2, <2>3 DEF OneChild, AgentTypeOK
  <2>6. ~(current' \in lasting' /\ agentStatus'[current'] = "running")
    <3>1. lasting \subseteq LocalCalls
      BY DEF AgentTypeOK
    <3>. QED
      BY <1>1, <1>3, <1>4, <3>1 DEF IsRunning
  <2>7. \A q \in LocalCalls : callAt'[q] # "spawning"
    BY <1>2, <2>3
  <2>8. OneChild'
    BY <1>1, <2>5, <2>6, <2>7 DEF OneChild
  <2>. QED
    BY <1>1, <2>4, <2>8 DEF Single
<1>. QED
  BY <1>5, <1>6 DEF KnownInv

\* The server ends: the child of the map is told, and no other is left to tell.
LEMMA ShutdownKnown ==
  ASSUME AgentTypeOK, KnownInv, Shutdown
  PROVE  KnownInv'
<1>1. /\ ~down /\ down' = TRUE
      /\ \A r \in LocalCalls : callAt[r] # "spawning"
      /\ UNCHANGED <<lasting, life, callAt, following, twoStarts>>
  BY DEF Shutdown, callVars
<1>2. \/ child = NoCall /\ UNCHANGED <<killed, givenUp>>
      \/ child # NoCall /\ killed' = killed \cup {child} /\ UNCHANGED givenUp
      \/ child # NoCall /\ life[child] = "exited" /\ UNCHANGED <<killed, givenUp>>
      \/ givenUp'
  BY DEF Shutdown
<1>3. NotSpawned'
  BY <1>1 DEF KnownInv, NotSpawned
<1>4. ASSUME ~twoStarts', ~givenUp'
      PROVE  Single'
  <2>1. OneStart /\ OneChild
    BY <1>1, <1>2, <1>4 DEF KnownInv, Single
  <2>2. OneStart'
    BY <1>1, <2>1 DEF OneStart, Spawning
  <2>3. Told'
    BY <1>1, <1>2, <1>4, <2>1 DEF Told, OneChild
  <2>. QED
    BY <1>1, <2>2, <2>3 DEF Single
<1>. QED
  BY <1>3, <1>4 DEF KnownInv

LEMMA KnownKeeps ==
  ASSUME AgentTypeOK, KnownInv, [AgentNext]_agentVars
  PROVE  KnownInv'
<1>1. ASSUME NEW r \in LocalCalls, StartCall(r)
      PROVE  KnownInv'
  BY <1>1, StartAgentKnown DEF StartCall, Begins
<1>2. ASSUME NEW r \in LocalCalls, StopCall(r)
      PROVE  KnownInv'
  BY <1>2, StopAgentKnown DEF StopCall, Begins
<1>3. ASSUME NEW r \in LocalCalls, RestartCall(r)
      PROVE  KnownInv'
  BY <1>3, StopAgentKnown DEF RestartCall, Begins
<1>4. ASSUME NEW r \in LocalCalls, TaskCall(r)
      PROVE  KnownInv'
  BY <1>4, StartAgentKnown, SendTaskKnown DEF TaskCall, Begins
<1>5. ASSUME NEW r \in LocalCalls, Stopped(r)
      PROVE  KnownInv'
  <2>1. callAt[r] = "stopped" /\ ~down /\ ~down'
    BY <1>5 DEF Stopped
  <2>2. CASE /\ following[r] \in {"end", "start"}
             /\ callAt' = [callAt EXCEPT ![r] = "done"]
             /\ following' = [following EXCEPT ![r] = "end"]
             /\ UNCHANGED <<processVars, childVars, target, twoStarts, viewVars>>
    <3>1. UNCHANGED <<current, agentStatus, lasting, childVars, down, twoStarts>>
      BY <2>1, <2>2, <1>5 DEF processVars, Stopped
    <3>2. \A q \in LocalCalls :
            \/ callAt'[q] = callAt[q] /\ following'[q] = following[q]
            \/ callAt'[q] \in {"executing", "done"} /\ callAt[q] # "spawning"
      BY <2>1, <2>2 DEF AgentTypeOK
    <3>. QED
      BY <3>1, <3>2, KnownAside
  <2>3. CASE following[r] = "start" /\ StartAgent(r)
    BY <2>1, <2>3, StartAgentKnown
  <2>4. CASE following[r] = "spawn" /\ Spawns(r) /\ UNCHANGED twoStarts
    <3>1. CASE twoStarts \/ givenUp
      <4>1. NotSpawned'
        BY <2>1, <2>4 DEF Spawns, NotSpawned, KnownInv, AgentTypeOK
      <4>2. (twoStarts \/ givenUp)'
        BY <2>4, <3>1 DEF Spawns
      <4>. QED
        BY <4>1, <4>2 DEF KnownInv
    <3>2. CASE ~(twoStarts \/ givenUp)
      <4>1. \A q \in LocalCalls \ {r} : ~Spawning(q)
        BY <2>1, <2>4, <3>2 DEF KnownInv, Single, OneStart, Spawning
      <4>. QED
        BY <2>1, <2>4, <4>1, SpawnsKnown
    <3>. QED
      BY <3>1, <3>2
  <2>. QED
    BY <1>5, <2>2, <2>3, <2>4 DEF Stopped
<1>6. ASSUME NEW r \in LocalCalls, Resumes(r)
      PROVE  KnownInv'
  <2>1. callAt[r] = "started" /\ UNCHANGED down
    BY <1>6 DEF Resumes
  <2>2. CASE /\ callAt' = [callAt EXCEPT ![r] = "done"]
             /\ UNCHANGED <<processVars, childVars, following, target, twoStarts, viewVars>>
    <3>1. \A q \in LocalCalls :
            \/ callAt'[q] = callAt[q] /\ following'[q] = following[q]
            \/ callAt'[q] \in {"executing", "done"} /\ callAt[q] # "spawning"
      BY <2>1, <2>2 DEF AgentTypeOK
    <3>2. UNCHANGED <<current, agentStatus, lasting, childVars, down, twoStarts>>
      BY <2>1, <2>2 DEF processVars
    <3>. QED
      BY <3>1, <3>2, KnownAside
  <2>. QED
    BY <1>6, <2>1, <2>2, SendTaskKnown DEF Resumes
<1>7. ASSUME NEW r \in LocalCalls, TaskReturns(r)
      PROVE  KnownInv'
  <2>1. UNCHANGED <<current, agentStatus, lasting, childVars, following, down, twoStarts>>
    BY <1>7 DEF TaskReturns
  <2>2. \A q \in LocalCalls :
          \/ callAt'[q] = callAt[q] /\ following'[q] = following[q]
          \/ callAt'[q] \in {"executing", "done"} /\ callAt[q] # "spawning"
    BY <1>7, <2>1 DEF TaskReturns, AgentTypeOK
  <2>. QED
    BY <2>1, <2>2, KnownAside
<1>8. ASSUME NEW r \in LocalCalls, GracePeriodOver(r)
      PROVE  KnownInv'
  <2>1. /\ givenUp' = TRUE
        /\ UNCHANGED <<lasting, following>>
        /\ callAt[r] = "stopping" /\ callAt' = [callAt EXCEPT ![r] = "stopped"]
        /\ \/ UNCHANGED life
           \/ /\ life[target[r].child] = "alive"
              /\ life' = [life EXCEPT ![target[r].child] = "exited"]
    BY <1>8 DEF GracePeriodOver
  <2>2. target[r].child \in LocalCalls
    BY <2>1 DEF AgentTypeOK
  <2>3. \A q \in LocalCalls : life[q] = "none" => life'[q] = "none"
    BY <2>1, <2>2 DEF AgentTypeOK
  <2>4. NotSpawned'
    BY <2>1, <2>3 DEF KnownInv, NotSpawned, AgentTypeOK
  <2>. QED
    BY <2>1, <2>4 DEF KnownInv
<1>9. ASSUME UNCHANGED <<current, agentStatus, lasting, childVars, callAt, following, down,
                         twoStarts>>
      PROVE  KnownInv'
  BY <1>9, KnownAside
<1>10. ASSUME NEW v \in Viewers, Follow(v) \/ Vanish(v) \/ KeepaliveFails(v) \/ Aborted(v)
       PROVE  UNCHANGED <<current, agentStatus, lasting, childVars, callAt, following, down,
                          twoStarts>>
  BY <1>10 DEF Follow, Vanish, KeepaliveFails, Aborted, callVars, processVars
<1>11. ASSUME NEW c \in LocalCalls, ChildPrints(c)
       PROVE  UNCHANGED <<current, agentStatus, lasting, childVars, callAt, following, down,
                          twoStarts>>
  BY <1>11 DEF ChildPrints, callVars, processVars
<1>12. UNCHANGED agentVars =>
         UNCHANGED <<current, agentStatus, lasting, childVars, callAt, following, down, twoStarts>>
  BY DEF agentVars, callVars, processVars
<1>. QED
  BY <1>1, <1>2, <1>3, <1>4, <1>5, <1>6, <1>7, <1>8, <1>9, <1>10, <1>11, <1>12,
     SpawnedKnown, ChildExitsKnown, ChildClosesKnown, ShutdownKnown DEF AgentNext

THEOREM ProcessInvariant == AgentSpec => []ProcessInv
<1>1. AgentInit => ProcessInv
  <2>. SUFFICES ASSUME AgentInit PROVE ProcessInv
    OBVIOUS
  <2>1. AgentTypeOK
    BY DEF AgentInit, AgentTypeOK, NoTarget, Starting
  <2>2. NotSpawned /\ TaskInv
    BY DEF AgentInit, NotSpawned, TaskInv
  <2>3. Single
    BY DEF AgentInit, Single, OneStart, Spawning, OneChild
  <2>. QED
    BY <2>1, <2>2, <2>3 DEF ProcessInv, KnownInv
<1>2. ProcessInv /\ [AgentNext]_agentVars => ProcessInv'
  BY TypesKeep, KnownKeeps, TaskKeeps DEF ProcessInv
<1>. QED
  BY <1>1, <1>2, PTL DEF AgentSpec

\* Without overlapping starts, and while every stopAgent waits for its child, no child
\* is out of reach of the next stop or of the end of the server.
THEOREM ChildrenAreKnown == AgentSpec => []ChildKnown
<1>1. ProcessInv => ChildKnown
  BY DEF ProcessInv, KnownInv, Single, Told, OneChild, ChildKnown
<1>. QED
  BY <1>1, ProcessInvariant, PTL

\* Under the same conditions the close event of a child never ends the AgentProcess of
\* a later one, and the status "running" of a child that has closed is replaced.
THEOREM StatusFollowsChild == AgentSpec => []StatusIsTrue
<1>1. ProcessInv => StatusIsTrue
  BY DEF ProcessInv, KnownInv, Single, OneChild, StatusIsTrue
<1>. QED
  BY <1>1, ProcessInvariant, PTL

\* sendTask leaves no task behind, however many of them share an AgentProcess.
THEOREM TaskEnds == AgentSpec => []TaskIsCurrent
<1>1. ProcessInv => TaskIsCurrent
  BY DEF ProcessInv, TaskInv, TaskIsCurrent
<1>. QED
  BY <1>1, ProcessInvariant, PTL

\* For any calls, what the server keeps of a local agent is true of its process.
THEOREM ChildrenAreKept == AgentSpec => []ChildrenKept
  BY AgentTypeCorrect, ChildrenAreKnown, StatusFollowsChild, TaskEnds, PTL
  DEF ChildrenKept

\* For any viewers, streams of output reach those who follow and nobody else is
\* kept.
THEOREM ViewersAreFollowed == AgentSpec => []ViewersFollow
  BY ViewersAreServed, ViewersAreForgotten, PTL
  DEF ViewersFollow
=============================================================================
