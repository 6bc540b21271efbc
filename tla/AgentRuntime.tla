---------------------------- MODULE AgentRuntime ----------------------------
(***************************************************************************)
(* The processes of local agents (src/src/lib/agent-runtime.ts with the    *)
(* routes start, stop, restart, task and output/stream of an agent): one   *)
(* agent whose calls overlap, its child processes, which may ignore a      *)
(* signal or die by themselves, and the streams that follow its output.    *)
(*                                                                         *)
(* A call makes at most one AgentProcess and one child, which are named    *)
(* after it. Output is a line or none: what it says, the rolling buffer,   *)
(* the adapter configurations and the routes' queries are left out. Any    *)
(* call may be of either kind of adapter, because the routes resolve it    *)
(* anew.                                                                   *)
(***************************************************************************)
EXTENDS Naturals

CONSTANTS
  LocalCalls,  \* calls of start, stop, restart and task for the agent
  NoCall,      \* no call: no entry in a map, no task
  Viewers,     \* requests of output/stream
  NoViewer     \* no entry in outputListeners

ASSUME LocalCallsAssumption == NoCall \notin LocalCalls
ASSUME ViewersAssumption == NoViewer \notin Viewers

VARIABLES
  current,     \* processes: the agent's AgentProcess
  agentStatus, \* status of every AgentProcess, "over" for stopped, error and crashed
  lasting,     \* those of the adapter type "process"
  currentTask, \* currentTask of every AgentProcess
  child,       \* childProcesses: the child stopAgent finds
  life,        \* every child process, "none" before it is spawned
  killed,      \* children that have been sent a signal: child.killed
  callAt,      \* the await of every call
  tasks,       \* calls of the route task that wait for startAgent
  following,   \* what the call does after the stopAgent it waits for
  target,      \* the child and the AgentProcess stopAgent or sendTask has found
  down,        \* the server was told to end
  twoStarts,   \* ghost: two starts were under way at once
  givenUp,     \* ghost: a stopAgent stopped waiting, or could not signal its child
  stream,      \* the stream of every viewer
  keepalive,   \* viewers whose interval runs
  registered,  \* outputListeners: its set of callbacks, named after who made it
  members,     \* the callbacks in every set
  mine,        \* the set a viewer's unsubscribe takes its callback from
  twice        \* ghost: a callback was unsubscribed a second time

processVars == <<current, agentStatus, lasting, currentTask>>
childVars == <<child, life, killed, givenUp>>
callVars == <<callAt, tasks, following, target>>
viewVars == <<stream, keepalive, registered, members, mine, twice>>
agentVars == <<processVars, childVars, callVars, down, twoStarts, viewVars>>

Starting == {"stopping", "stopped", "spawning", "started"}

AgentTypeOK ==
  /\ {current, child} \subseteq LocalCalls \cup {NoCall}
  /\ agentStatus \in [LocalCalls -> {"none", "starting", "running", "over"}]
  /\ currentTask \in [LocalCalls -> LocalCalls \cup {NoCall}]
  /\ life \in [LocalCalls -> {"none", "alive", "exited", "closed"}]
  /\ {lasting, killed, tasks} \subseteq SUBSET LocalCalls
  /\ callAt \in [LocalCalls -> Starting \cup {"idle", "executing", "done"}]
  /\ following \in [LocalCalls -> {"end", "start", "spawn"}]
  /\ target \in [LocalCalls -> [child : LocalCalls \cup {NoCall},
                               entry : LocalCalls \cup {NoCall}]]
  /\ \A r \in LocalCalls : callAt[r] = "stopping" => target[r].child # NoCall
  /\ {down, twoStarts, givenUp, twice} \subseteq BOOLEAN
  /\ stream \in [Viewers -> {"idle", "open", "gone", "over"}]
  /\ keepalive \subseteq Viewers
  /\ registered \in Viewers \cup {NoViewer}
  /\ members \in [Viewers -> SUBSET Viewers]
  /\ mine \in [Viewers -> Viewers]

NoTarget == [child |-> NoCall, entry |-> NoCall]

AgentInit ==
  /\ current = NoCall /\ child = NoCall
  /\ agentStatus = [r \in LocalCalls |-> "none"]
  /\ currentTask = [r \in LocalCalls |-> NoCall]
  /\ life = [r \in LocalCalls |-> "none"]
  /\ lasting = {} /\ killed = {} /\ tasks = {}
  /\ callAt = [r \in LocalCalls |-> "idle"]
  /\ following = [r \in LocalCalls |-> "end"]
  /\ target = [r \in LocalCalls |-> NoTarget]
  /\ down = FALSE /\ twoStarts = FALSE /\ givenUp = FALSE /\ twice = FALSE
  /\ stream = [v \in Viewers |-> "idle"]
  /\ keepalive = {} /\ registered = NoViewer
  /\ members = [v \in Viewers |-> {}]
  /\ mine = [v \in Viewers |-> v]

-----------------------------------------------------------------------------
(* Output.                                                                 *)

\* Mutation: who unsubscribes takes the agent's set out of the map.
UnsubscribesAll(v) ==
  /\ members' = [members EXCEPT ![mine[v]] = @ \ {v}]
  /\ registered' = NoViewer
  /\ twice' = (twice \/ v \notin members[mine[v]])

\* The function onOutput returns: it deletes the agent's set from the map, whichever
\* that is by now, when the set it closes over is empty.
Unsubscribes(v) ==
  /\ members' = [members EXCEPT ![mine[v]] = @ \ {v}]
  /\ registered' = IF members[mine[v]] \ {v} = {} THEN NoViewer ELSE registered
  /\ twice' = (twice \/ v \notin members[mine[v]])

\* appendOutput: the callback of a stream that is gone throws and unsubscribes.
Appends ==
  LET told == IF registered = NoViewer THEN {} ELSE members[registered]
      failing == {v \in told : stream[v] = "gone"}
  IN  /\ members' = [s \in Viewers |-> IF s = registered THEN told \ failing ELSE members[s]]
      /\ registered' = IF failing # {} /\ told = failing THEN NoViewer ELSE registered
      /\ UNCHANGED <<stream, keepalive, mine, twice>>

\* Mutation: the callback is taken from the set that was looked up, made or not.
FollowLookedUp(v) ==
  /\ stream[v] = "idle" /\ ~down
  /\ stream' = [stream EXCEPT ![v] = "open"]
  /\ keepalive' = keepalive \cup {v}
  /\ LET s == IF registered = NoViewer THEN v ELSE registered
     IN  /\ registered' = s
         /\ mine' = [mine EXCEPT ![v] = registered]
         /\ members' = [members EXCEPT ![s] = @ \cup {v}]
  /\ UNCHANGED <<processVars, childVars, callVars, down, twoStarts, twice>>

\* GET output/stream: the lines so far, onOutput and the keepalive.
Follow(v) ==
  /\ stream[v] = "idle" /\ ~down
  /\ stream' = [stream EXCEPT ![v] = "open"]
  /\ keepalive' = keepalive \cup {v}
  /\ LET s == IF registered = NoViewer THEN v ELSE registered
     IN  /\ registered' = s
         /\ mine' = [mine EXCEPT ![v] = s]
         /\ members' = [members EXCEPT ![s] = @ \cup {v}]
  /\ UNCHANGED <<processVars, childVars, callVars, down, twoStarts, twice>>

\* The reader cancels the stream; enqueue throws from now on.
Vanish(v) ==
  /\ stream[v] = "open"
  /\ stream' = [stream EXCEPT ![v] = "gone"]
  /\ UNCHANGED <<processVars, childVars, callVars, down, twoStarts, keepalive, registered,
                 members, mine, twice>>

\* Mutation: the interval only ends itself.
KeepaliveEnds(v) ==
  /\ stream[v] = "gone" /\ v \in keepalive /\ ~down
  /\ keepalive' = keepalive \ {v}
  /\ UNCHANGED <<processVars, childVars, callVars, down, twoStarts, stream, registered,
                 members, mine, twice>>

\* The interval finds the stream closed.
KeepaliveFails(v) ==
  /\ stream[v] = "gone" /\ v \in keepalive /\ ~down
  /\ keepalive' = keepalive \ {v}
  /\ Unsubscribes(v)
  /\ UNCHANGED <<processVars, childVars, callVars, down, twoStarts, stream, mine>>

\* Mutation: the callback is left to notice that the stream is closed.
AbortedSubscribed(v) ==
  /\ stream[v] \in {"open", "gone"} /\ ~down
  /\ stream' = [stream EXCEPT ![v] = "over"]
  /\ keepalive' = keepalive \ {v}
  /\ UNCHANGED <<processVars, childVars, callVars, down, twoStarts, registered, members,
                 mine, twice>>

\* The request's signal aborts.
Aborted(v) ==
  /\ stream[v] \in {"open", "gone"} /\ ~down
  /\ stream' = [stream EXCEPT ![v] = "over"]
  /\ keepalive' = keepalive \ {v}
  /\ Unsubscribes(v)
  /\ UNCHANGED <<processVars, childVars, callVars, down, twoStarts, mine>>

-----------------------------------------------------------------------------
(* startAgent and stopAgent.                                               *)

Begins(r) == callAt[r] = "idle" /\ ~down /\ UNCHANGED down
IsRunning == current # NoCall /\ agentStatus[current] = "running"
OtherStarts(r) ==
  \E q \in LocalCalls \ {r} : \/ callAt[q] \in {"spawning", "started"}
                             \/ /\ callAt[q] \in {"stopping", "stopped"}
                                /\ following[q] # "end"

Over(E) == agentStatus' = [e \in LocalCalls |-> IF e \in E THEN "over" ELSE agentStatus[e]]

\* stopAgent, as far as its promise; without a child it is over when it returns. A child
\* that is gone is not signalled; when one may not be signalled the error event is
\* emitted, whose handler ends the agent's entries.
StopAgent(r, f) ==
  /\ following' = [following EXCEPT ![r] = f]
  /\ callAt' = [callAt EXCEPT ![r] = IF child = NoCall THEN "stopped" ELSE "stopping"]
  /\ IF child = NoCall
       THEN Over({current}) /\ UNCHANGED <<target, childVars>>
       ELSE /\ target' = [target EXCEPT ![r] = [child |-> child, entry |-> current]]
            /\ UNCHANGED life
            /\ \/ /\ killed' = IF life[child] = "alive" THEN killed \cup {child} ELSE killed
                  /\ UNCHANGED <<agentStatus, child, givenUp>>
               \/ /\ life[child] = "alive"
                  /\ Over({current}) /\ child' = NoCall /\ givenUp' = TRUE
                  /\ UNCHANGED killed
  /\ UNCHANGED <<current, lasting, currentTask, viewVars>>

\* startAgent from the adapter on: an AgentProcess and, of the type "process", a
\* child, unless it cannot be spawned.
Spawns(r) ==
  /\ current' = r
  /\ following' = [following EXCEPT ![r] = "end"]
  /\ \/ /\ lasting' = lasting \cup {r}
        /\ agentStatus' = [agentStatus EXCEPT ![r] = "starting"]
        /\ \E l \in {"none", "alive"} : life' = [life EXCEPT ![r] = l]
        /\ callAt' = [callAt EXCEPT ![r] = "spawning"]
     \/ /\ agentStatus' = [agentStatus EXCEPT ![r] = "running"]
        /\ callAt' = [callAt EXCEPT ![r] = "started"]
        /\ UNCHANGED <<lasting, life>>
  /\ UNCHANGED <<currentTask, child, killed, givenUp, target, viewVars>>

StartAgent(r) ==
  /\ twoStarts' = (twoStarts \/ OtherStarts(r))
  /\ IF current = NoCall THEN Spawns(r) ELSE StopAgent(r, "spawn")

\* sendTask, as far as the adapter's executeTask.
SendTask(r) ==
  /\ IF IsRunning
       THEN /\ currentTask' = [currentTask EXCEPT ![current] = r]
            /\ target' = [target EXCEPT ![r] = [child |-> NoCall, entry |-> current]]
            /\ callAt' = [callAt EXCEPT ![r] = "executing"]
            /\ Appends
       ELSE /\ callAt' = [callAt EXCEPT ![r] = "done"]
            /\ UNCHANGED <<currentTask, target, viewVars>>
  /\ UNCHANGED <<current, agentStatus, lasting, childVars, following, twoStarts>>

StartCall(r) == Begins(r) /\ StartAgent(r) /\ UNCHANGED tasks
StopCall(r) == Begins(r) /\ StopAgent(r, "end") /\ UNCHANGED <<tasks, twoStarts>>
RestartCall(r) == Begins(r) /\ StopAgent(r, "start") /\ UNCHANGED <<tasks, twoStarts>>
TaskCall(r) ==
  /\ Begins(r)
  /\ IF IsRunning THEN SendTask(r) /\ UNCHANGED tasks
                  ELSE StartAgent(r) /\ tasks' = tasks \cup {r}

\* The await of stopAgent returns. A restart may find that the type of the agent has no
\* adapter, which the other routes have looked at before.
Stopped(r) ==
  /\ callAt[r] = "stopped" /\ ~down /\ UNCHANGED <<tasks, down>>
  /\ \/ /\ following[r] \in {"end", "start"}
        /\ callAt' = [callAt EXCEPT ![r] = "done"]
        /\ following' = [following EXCEPT ![r] = "end"]
        /\ UNCHANGED <<processVars, childVars, target, twoStarts, viewVars>>
     \/ following[r] = "start" /\ StartAgent(r)
     \/ following[r] = "spawn" /\ Spawns(r) /\ UNCHANGED twoStarts

\* adapter.spawn has returned or thrown.
Spawned(r) ==
  /\ callAt[r] = "spawning" /\ ~down
  /\ IF life[r] = "none"
       THEN /\ Over({r})
            /\ callAt' = [callAt EXCEPT ![r] = "done"]
            /\ tasks' = tasks \ {r}
            /\ UNCHANGED child
       ELSE /\ agentStatus' = [agentStatus EXCEPT ![r] = "running"]
            /\ child' = r
            /\ callAt' = [callAt EXCEPT ![r] = "started"]
            /\ UNCHANGED tasks
  /\ UNCHANGED <<current, lasting, currentTask, life, killed, givenUp, following, target, down,
                 twoStarts, viewVars>>

\* The route goes on after startAgent: that of a task sends it, the others answer.
Resumes(r) ==
  /\ callAt[r] = "started" /\ ~down
  /\ tasks' = tasks \ {r} /\ UNCHANGED down
  /\ IF r \in tasks
       THEN SendTask(r)
       ELSE /\ callAt' = [callAt EXCEPT ![r] = "done"]
            /\ UNCHANGED <<processVars, childVars, following, target, twoStarts, viewVars>>

\* Mutation: a task that fails stays the current one.
TaskReturnsKept(r) ==
  /\ callAt[r] = "executing" /\ ~down
  /\ callAt' = [callAt EXCEPT ![r] = "done"]
  /\ target' = [target EXCEPT ![r] = NoTarget]
  /\ \/ currentTask' = [currentTask EXCEPT ![target[r].entry] = NoCall]
     \/ UNCHANGED currentTask
  /\ Appends
  /\ UNCHANGED <<current, agentStatus, lasting, childVars, tasks, following, down,
                 twoStarts>>

\* executeTask returns or throws.
TaskReturns(r) ==
  /\ callAt[r] = "executing" /\ ~down
  /\ callAt' = [callAt EXCEPT ![r] = "done"]
  /\ target' = [target EXCEPT ![r] = NoTarget]
  /\ currentTask' = [currentTask EXCEPT ![target[r].entry] = NoCall]
  /\ Appends
  /\ UNCHANGED <<current, agentStatus, lasting, childVars, tasks, following, down,
                 twoStarts>>

-----------------------------------------------------------------------------
(* The children.                                                           *)

\* A line on stdout or stderr.
ChildPrints(c) ==
  /\ life[c] = "alive" /\ callAt[c] # "spawning" /\ ~down
  /\ Appends
  /\ UNCHANGED <<processVars, childVars, callVars, down, twoStarts>>

\* By itself or because of a signal; some ignore theirs.
ChildExits(c) ==
  /\ life[c] = "alive"
  /\ life' = [life EXCEPT ![c] = "exited"]
  /\ UNCHANGED <<processVars, child, killed, givenUp, callVars, down, twoStarts, viewVars>>

WaitFor(c) == {r \in LocalCalls : callAt[r] = "stopping" /\ target[r].child = c}

\* Mutation: the status of an agent whose child has exited by itself is left.
ChildClosesOnly(c) ==
  /\ life[c] = "exited" /\ callAt[c] # "spawning" /\ ~down
  /\ life' = [life EXCEPT ![c] = "closed"]
  /\ child' = NoCall
  /\ Over({target[r].entry : r \in WaitFor(c)})
  /\ IF IsRunning THEN Appends ELSE UNCHANGED viewVars
  /\ callAt' = [r \in LocalCalls |-> IF r \in WaitFor(c) THEN "stopped" ELSE callAt[r]]
  /\ target' = [r \in LocalCalls |-> IF r \in WaitFor(c) THEN NoTarget ELSE target[r]]
  /\ UNCHANGED <<current, lasting, currentTask, killed, givenUp, tasks, following, down,
                 twoStarts>>

\* The close event: the handler of attachProcessListeners, which ends whatever the
\* agent's entries are by now, then those of the stopAgents that wait for this child.
ChildCloses(c) ==
  /\ life[c] = "exited" /\ callAt[c] # "spawning" /\ ~down
  /\ life' = [life EXCEPT ![c] = "closed"]
  /\ child' = NoCall
  /\ Over({target[r].entry : r \in WaitFor(c)} \cup (IF IsRunning THEN {current} ELSE {}))
  /\ IF IsRunning THEN Appends ELSE UNCHANGED viewVars
  /\ callAt' = [r \in LocalCalls |-> IF r \in WaitFor(c) THEN "stopped" ELSE callAt[r]]
  /\ target' = [r \in LocalCalls |-> IF r \in WaitFor(c) THEN NoTarget ELSE target[r]]
  /\ UNCHANGED <<current, lasting, currentTask, killed, givenUp, tasks, following, down,
                 twoStarts>>

\* Mutation: stopAgent waits for as long as the child takes.
GracePeriodOnly(r) == callAt[r] = "stopping" /\ ~down /\ UNCHANGED agentVars

\* The grace period of stopAgent is over. SIGKILL is only for a child that has not been
\* sent a signal yet.
GracePeriodOver(r) ==
  /\ callAt[r] = "stopping" /\ ~down
  /\ LET c == target[r].child
         unsignalled == life[c] = "alive" /\ c \notin killed
     IN  \/ /\ ~unsignalled /\ UNCHANGED <<life, killed>>
            /\ Over({target[r].entry})
         \/ /\ unsignalled
            /\ life' = [life EXCEPT ![c] = "exited"] /\ killed' = killed \cup {c}
            /\ Over({target[r].entry})
         \/ /\ unsignalled /\ UNCHANGED <<life, killed>>
            /\ Over({target[r].entry, current})
  /\ child' = NoCall /\ givenUp' = TRUE
  /\ callAt' = [callAt EXCEPT ![r] = "stopped"]
  /\ target' = [target EXCEPT ![r] = NoTarget]
  /\ UNCHANGED <<current, lasting, currentTask, tasks, following, down, twoStarts,
                 viewVars>>

\* Mutation: the maps are cleared and the child is not told.
ShutdownUntold ==
  /\ ~down /\ \A r \in LocalCalls : callAt[r] # "spawning"
  /\ down' = TRUE
  /\ child' = NoCall
  /\ IF child = NoCall THEN UNCHANGED agentStatus ELSE Over({current})
  /\ UNCHANGED <<current, lasting, currentTask, life, killed, givenUp, callVars, twoStarts,
                 viewVars>>

\* The server is told to end, while none of its code runs.
Shutdown ==
  /\ ~down /\ \A r \in LocalCalls : callAt[r] # "spawning"
  /\ down' = TRUE
  /\ child' = NoCall
  /\ IF child = NoCall
       THEN UNCHANGED <<agentStatus, killed, givenUp>>
       ELSE /\ Over({current})
            /\ \/ life[child] = "alive" /\ killed' = killed \cup {child} /\ UNCHANGED givenUp
               \/ life[child] = "exited" /\ UNCHANGED <<killed, givenUp>>
               \/ life[child] = "alive" /\ givenUp' = TRUE /\ UNCHANGED killed
  /\ UNCHANGED <<current, lasting, currentTask, life, callVars, twoStarts, viewVars>>

-----------------------------------------------------------------------------
AgentNext ==
  \/ \E r \in LocalCalls : \/ StartCall(r) \/ StopCall(r) \/ RestartCall(r) \/ TaskCall(r)
                    \/ Stopped(r) \/ Spawned(r) \/ Resumes(r) \/ TaskReturns(r)
                    \/ ChildPrints(r) \/ ChildExits(r) \/ ChildCloses(r) \/ GracePeriodOver(r)
  \/ \E v \in Viewers : Follow(v) \/ Vanish(v) \/ KeepaliveFails(v) \/ Aborted(v)
  \/ Shutdown

AgentSpec == AgentInit /\ [][AgentNext]_agentVars

\* Timers fire and promises that are settled are resumed. Nothing is assumed of the
\* children, of executeTask or of the browser.
AgentFairness ==
  /\ \A r \in LocalCalls : /\ WF_agentVars(Stopped(r)) /\ WF_agentVars(Spawned(r))
                    /\ WF_agentVars(Resumes(r)) /\ WF_agentVars(GracePeriodOver(r))
  /\ \A v \in Viewers : WF_agentVars(KeepaliveFails(v))

-----------------------------------------------------------------------------
(* Properties.                                                             *)

\* A child that runs is the one the agent can be stopped by, and when the server ends
\* it is told to; unless two starts were under way at once or a stopAgent has given up.
ChildKnown ==
  twoStarts \/ givenUp \/
  \A c \in LocalCalls : life[c] = "alive" /\ callAt[c] # "spawning" =>
    IF down THEN c \in killed ELSE child = c

\* With the same exceptions the status of the agent is that of the child: handlers of
\* earlier children do not speak of later ones.
StatusIsTrue ==
  twoStarts \/ givenUp \/ down \/
  /\ child # NoCall => child = current /\ agentStatus[current] = "running"
  /\ current \in lasting /\ agentStatus[current] = "running" => child = current

\* What the agent is said to work on is a task that has not returned.
TaskIsCurrent ==
  \A e \in LocalCalls : currentTask[e] # NoCall => callAt[currentTask[e]] = "executing"

\* Who follows the output is told of it, unless some stream was unsubscribed twice.
ViewerServed ==
  twice \/ \A v \in Viewers : stream[v] = "open" =>
             registered # NoViewer /\ v \in members[registered]

\* An aborted stream leaves neither a callback nor an interval.
ViewerForgotten ==
  \A v \in Viewers : stream[v] = "over" =>
    v \notin keepalive /\ \A s \in Viewers : v \notin members[s]

\* A call is answered, whatever the child does; a task once the agent is started.
CallsSettle == \A r \in LocalCalls : callAt[r] \in Starting ~> callAt[r] \notin Starting \/ down

\* A stream that is gone is let go although no abort tells of it.
GoneForgotten ==
  \A v \in Viewers : stream[v] = "gone" ~> down \/ \A s \in Viewers : v \notin members[s]

\* What the server keeps of a local agent is true of its process: the child, the
\* status and the task.
ChildrenKept == AgentTypeOK /\ ChildKnown /\ StatusIsTrue /\ TaskIsCurrent

\* Streams of output reach those who follow and nobody else is kept.
ViewersFollow == ViewerServed /\ ViewerForgotten

\* What is asked of a local agent comes to an end, a call with an answer and a stream
\* that is gone with its release.
CallsEnd == CallsSettle /\ GoneForgotten
=============================================================================
