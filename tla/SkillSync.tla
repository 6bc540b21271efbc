------------------------------ MODULE SkillSync ------------------------------
(***************************************************************************)
(* Assigning one skill to the agents of one runtime, and mirroring the     *)
(* assignments into the configuration of its gateway:                      *)
(* src/src/app/api/skills/[id]/agents/route.ts (POST assigns or            *)
(* unassigns), src/src/app/api/agents/[callsign]/skills/ (POST attaches,   *)
(* PATCH sets enabled, DELETE detaches), DELETE of                         *)
(* src/src/app/api/skills/[id]/route.ts, src/src/lib/                      *)
(* sync-skill-to-openclaw.ts, uninstall-skill-from-openclaw.ts,            *)
(* openclaw-gateway-skill-assignment.ts and push-secrets-to-gateway.ts.    *)
(*                                                                         *)
(* An action ends at the next query or call of the gateway.  Every agent   *)
(* has an explicit allowlist.  The gateway refuses a patch whose base hash *)
(* is not that of its configuration, which every write changes.  Files     *)
(* below the server's own ~/.openclaw are not modelled.                    *)
(***************************************************************************)
EXTENDS FiniteSets, Integers

CONSTANTS
  Agents,     \* of the runtime
  MaxCalls,   \* bound: requests of the routes
  MaxUnderWay \* bound: those under way at once

ASSUME CallsAssumption == MaxCalls \in Nat /\ MaxUnderWay \in Nat

\* The requests, in the order in which they come.
Calls == 1..MaxCalls

VARIABLES
  skill,   \* its row is there
  row,     \* the assignment a request has inserted: its enabled, or none
  entry,   \* the skill's entry in the gateway is there and enabled
  allowed, \* agents with the skill in their allowlist
  others,  \* agents with another skill in their allowlist
  wanted,  \* ghost: those to which somebody else gave that skill
  op,      \* what a request is
  agent,   \* the agent it is about
  step,    \* the step it is at
  todo,    \* assignments that a deletion still has to uninstall
  flag,    \* enabled, as it was read
  seen,    \* the allowlist of its agent, as it was read
  fresh,   \* requests whose snapshot has the hash of the configuration
  calm,    \* ghost: no step has failed and no two requests have overlapped
  plain    \* ghost: no agent was given the skill twice, nor had it disabled

rowVars == <<skill, row>>
gatewayVars == <<entry, allowed, others, wanted>>
skillVars == <<rowVars, gatewayVars, op, agent, step, todo, flag, seen, fresh, calm, plain>>

Ops == {"toggle", "attach", "enable", "disable", "detach", "delete"}
CallSteps == {"look", "insert", "set", "load", "get", "patch", "update", "secrets", "push",
          "list", "next", "unget", "unpatch", "count", "off", "remove"}

SkillTypeOK ==
  /\ {skill, entry, calm, plain} \subseteq BOOLEAN
  /\ row \in [Calls -> {"none", "enabled", "disabled"}]
  /\ allowed \subseteq Agents /\ others \subseteq Agents /\ wanted \subseteq Agents
  /\ op \in [Calls -> Ops]
  /\ agent \in [Calls -> Agents]
  /\ step \in [Calls -> CallSteps \cup {"idle", "done"}]
  /\ todo \in [Calls -> SUBSET Agents]
  /\ flag \in [Calls -> BOOLEAN]
  /\ seen \in [Calls -> SUBSET {"skill", "other"}]
  /\ fresh \subseteq Calls

SkillInit ==
  /\ skill = TRUE
  /\ row = [q \in Calls |-> "none"]
  /\ entry = FALSE
  /\ allowed = {} /\ others = {} /\ wanted = {}
  /\ op = [q \in Calls |-> "toggle"]
  /\ agent \in {[q \in Calls |-> a] : a \in Agents}
  /\ step = [q \in Calls |-> "idle"]
  /\ todo = [q \in Calls |-> {}]
  /\ flag = [q \in Calls |-> FALSE]
  /\ seen = [q \in Calls |-> {}]
  /\ fresh = {}
  /\ calm = TRUE /\ plain = TRUE

StepTo(q, to) == step' = [step EXCEPT ![q] = to]

\* What a request knows goes with it.
Ends(q) ==
  /\ StepTo(q, "done")
  /\ op' = [op EXCEPT ![q] = "toggle"]
  /\ flag' = [flag EXCEPT ![q] = FALSE]
  /\ seen' = [seen EXCEPT ![q] = {}]

KnowsTheSame == UNCHANGED <<op, flag, seen>>

RowsOf(a) == {p \in Calls : row[p] # "none" /\ agent[p] = a}
Assigned == {a \in Agents : RowsOf(a) # {}}
UnderWay(q) == step[q] \notin {"idle", "done"}
AtRest == \A q \in Calls : ~UnderWay(q)

\* The first query of each route.
FirstStep(o) ==
  CASE o = "toggle" -> "look"
    [] o = "attach" -> "insert"
    [] o \in {"enable", "disable"} -> "set"
    [] o = "detach" -> "unget"
    [] o = "delete" -> "list"

\* A request comes; the skill and its agent are found.
CallBegins(q, o, a) ==
  /\ {p \in Calls : step[p] = "idle"} = q..MaxCalls /\ skill
  /\ Cardinality({p \in Calls : UnderWay(p)}) < MaxUnderWay
  /\ StepTo(q, FirstStep(o))
  /\ op' = [op EXCEPT ![q] = o]
  /\ agent' = [agent EXCEPT ![q] = a]
  /\ calm' = (calm /\ AtRest)
  /\ UNCHANGED <<rowVars, gatewayVars, todo, flag, seen, fresh, plain>>

-----------------------------------------------------------------------------
(* The rows.                                                               *)

\* POST of the skill looks for the assignment.
LooksUp(q) ==
  /\ step[q] = "look"
  /\ StepTo(q, IF RowsOf(agent[q]) = {} THEN "insert" ELSE "unget")
  /\ UNCHANGED <<rowVars, gatewayVars, op, agent, todo, flag, seen, fresh, calm, plain>>

\* No index keeps an agent from having the skill twice.
Attaches(q) ==
  /\ step[q] = "insert" /\ skill
  /\ row' = [row EXCEPT ![q] = "enabled"]
  /\ plain' = (plain /\ RowsOf(agent[q]) = {})
  /\ StepTo(q, "load")
  /\ UNCHANGED <<skill, gatewayVars, op, agent, todo, flag, seen, fresh, calm>>

\* Mutation: enabled is written as the body has it.
SetsUnvalidated(q) ==
  /\ step[q] = "set"
  /\ \E p \in RowsOf(agent[q]), value \in {"enabled", "disabled", "null"} :
       row' = [row EXCEPT ![p] = value]
  /\ plain' = FALSE
  /\ StepTo(q, "load")
  /\ UNCHANGED <<skill, gatewayVars, op, agent, todo, flag, seen, fresh, calm>>

\* PATCH finds an assignment and updates it.
Sets(q) ==
  /\ step[q] = "set"
  /\ \/ /\ RowsOf(agent[q]) = {}
        /\ Ends(q)
        /\ UNCHANGED <<row, plain>>
     \/ \E p \in RowsOf(agent[q]) :
          /\ row' = [row EXCEPT ![p] = IF op[q] = "enable" THEN "enabled" ELSE "disabled"]
          /\ plain' = (plain /\ op[q] = "enable")
          /\ StepTo(q, "load")
          /\ KnowsTheSame
  /\ UNCHANGED <<skill, gatewayVars, agent, todo, fresh, calm>>

\* POST deletes the assignment it has found, DELETE every one of the agent.
Removes(q) ==
  /\ step[q] = "remove"
  /\ IF op[q] = "detach"
       THEN row' = [p \in Calls |-> IF p \in RowsOf(agent[q]) THEN "none" ELSE row[p]]
       ELSE \/ RowsOf(agent[q]) = {} /\ UNCHANGED row
            \/ \E p \in RowsOf(agent[q]) : row' = [row EXCEPT ![p] = "none"]
  /\ Ends(q)
  /\ UNCHANGED <<skill, gatewayVars, agent, todo, fresh, calm, plain>>

\* The deletion of the skill lists its assignments, ...
Lists(q) ==
  /\ step[q] = "list"
  /\ todo' = [todo EXCEPT ![q] = Assigned]
  /\ StepTo(q, "next")
  /\ UNCHANGED <<rowVars, gatewayVars, op, agent, flag, seen, fresh, calm, plain>>

\* ... uninstalls them one after the other, ...
NextAgent(q, a) ==
  /\ step[q] = "next" /\ a \in todo[q]
  /\ todo' = [todo EXCEPT ![q] = @ \ {a}]
  /\ agent' = [agent EXCEPT ![q] = a]
  /\ StepTo(q, IF skill THEN "unget" ELSE "next")
  /\ UNCHANGED <<rowVars, gatewayVars, op, flag, seen, fresh, calm, plain>>

\* ... and deletes the row, and with it the assignments.
Drops(q) ==
  /\ step[q] = "next" /\ todo[q] = {}
  /\ skill' = FALSE
  /\ row' = [p \in Calls |-> "none"]
  /\ Ends(q)
  /\ UNCHANGED <<gatewayVars, agent, todo, fresh, calm, plain>>

-----------------------------------------------------------------------------
(* syncSkillToOpenClaw and pushSecretsToGateway.                           *)

\* loadSkillData.
Loads(q) ==
  /\ step[q] = "load"
  /\ \/ /\ RowsOf(agent[q]) = {}
        /\ StepTo(q, "secrets")
        /\ UNCHANGED flag
     \/ \E p \in RowsOf(agent[q]) :
          /\ flag' = [flag EXCEPT ![q] = row[p] = "enabled"]
          /\ StepTo(q, "get")
  /\ UNCHANGED <<rowVars, gatewayVars, op, agent, todo, seen, fresh, calm, plain>>

ListOf(a) == {k \in {"skill", "other"} : a \in (IF k = "skill" THEN allowed ELSE others)}

\* configGet, with the hash.
Gets(q, from, then) ==
  /\ step[q] = from
  /\ seen' = [seen EXCEPT ![q] = ListOf(agent[q])]
  /\ fresh' = fresh \cup {q}
  /\ StepTo(q, then)
  /\ UNCHANGED <<rowVars, gatewayVars, op, agent, todo, flag, calm, plain>>

\* The allowlist of an agent is replaced.
ListBecomes(a, list) ==
  /\ allowed' = IF "skill" \in list THEN allowed \cup {a} ELSE allowed \ {a}
  /\ others' = IF "other" \in list THEN others \cup {a} ELSE others \ {a}

\* Mutation: the patch goes without the base hash.
PatchesUnchecked(q) ==
  /\ step[q] = "patch"
  /\ ListBecomes(agent[q], seen[q] \cup {"skill"})
  /\ entry' = flag[q]
  /\ fresh' = {}
  /\ StepTo(q, "update")
  /\ UNCHANGED <<rowVars, wanted, op, agent, todo, flag, seen, calm, plain>>

\* Mutation: only the entry is patched.
PatchesEntryOnly(q) ==
  /\ step[q] = "patch" /\ q \in fresh
  /\ entry' = flag[q]
  /\ fresh' = {}
  /\ StepTo(q, "update")
  /\ UNCHANGED <<rowVars, allowed, others, wanted, op, agent, todo, flag, seen, calm, plain>>

\* configPatch with the base hash: the entry and the agent's allowlist.
Patches(q) ==
  /\ step[q] = "patch" /\ q \in fresh
  /\ ListBecomes(agent[q], seen[q] \cup {"skill"})
  /\ entry' = flag[q]
  /\ fresh' = {}
  /\ StepTo(q, "update")
  /\ UNCHANGED <<rowVars, wanted, op, agent, todo, flag, seen, calm, plain>>

\* skillsUpdate.
UpdatesEntry(q) ==
  /\ step[q] = "update"
  /\ entry' = flag[q]
  /\ fresh' = {}
  /\ StepTo(q, "secrets")
  /\ UNCHANGED <<rowVars, allowed, others, wanted, op, agent, todo, flag, seen, calm, plain>>

\* pushSecretsToGateway reads the assignment again; it may have no secret to push.
ReadsSecrets(q) ==
  /\ step[q] = "secrets"
  /\ \/ Ends(q)
     \/ \E p \in RowsOf(agent[q]) :
          /\ flag' = [flag EXCEPT ![q] = row[p] = "enabled"]
          /\ StepTo(q, "push")
          /\ UNCHANGED <<op, seen>>
  /\ UNCHANGED <<rowVars, gatewayVars, agent, todo, fresh, calm, plain>>

\* It pushes them with skillsUpdate.
Pushes(q) ==
  /\ step[q] = "push"
  /\ entry' = flag[q]
  /\ fresh' = {}
  /\ Ends(q)
  /\ UNCHANGED <<rowVars, allowed, others, wanted, agent, todo, calm, plain>>

-----------------------------------------------------------------------------
(* uninstallSkillFromOpenClaw.                                             *)

\* The allowlist is left as it is when the skill is not in it.
GetsToRemove(q) == Gets(q, "unget", IF agent[q] \in allowed THEN "unpatch" ELSE "count")

PatchesOut(q) ==
  /\ step[q] = "unpatch" /\ q \in fresh
  /\ ListBecomes(agent[q], seen[q] \ {"skill"})
  /\ fresh' = {}
  /\ StepTo(q, "count")
  /\ UNCHANGED <<rowVars, entry, wanted, op, agent, todo, flag, seen, calm, plain>>

AfterUninstall(q) == IF op[q] = "delete" THEN "next" ELSE "remove"

\* Mutation: the entry goes whoever else is assigned.
CountsNobody(q) ==
  /\ step[q] = "count"
  /\ StepTo(q, "off")
  /\ UNCHANGED <<rowVars, gatewayVars, op, agent, todo, flag, seen, fresh, calm, plain>>

\* Mutation: the assignment to be removed is counted too.
CountsItself(q) ==
  /\ step[q] = "count"
  /\ StepTo(q, IF Assigned = {} THEN "off" ELSE AfterUninstall(q))
  /\ UNCHANGED <<rowVars, gatewayVars, op, agent, todo, flag, seen, fresh, calm, plain>>

\* shouldRemoveRuntimeConfigEntry.
Counts(q) ==
  /\ step[q] = "count"
  /\ StepTo(q, IF Assigned \subseteq {agent[q]} THEN "off" ELSE AfterUninstall(q))
  /\ UNCHANGED <<rowVars, gatewayVars, op, agent, todo, flag, seen, fresh, calm, plain>>

\* removeSkillViaGateway.
SwitchesOff(q) ==
  /\ step[q] = "off"
  /\ entry' = FALSE
  /\ fresh' = {}
  /\ StepTo(q, AfterUninstall(q))
  /\ UNCHANGED <<rowVars, allowed, others, wanted, op, agent, todo, flag, seen, calm, plain>>

-----------------------------------------------------------------------------
(* Failures, and the others that write the configuration.                  *)

\* The step that comes after a call of the gateway that has failed.
AfterFailure(q) ==
  CASE step[q] \in {"get", "patch", "update"} -> "secrets"
    [] step[q] \in {"unget", "unpatch"} -> "count"
    [] step[q] = "off" -> AfterUninstall(q)

\* A call of the gateway fails: it is not connected, the base hash is an old one, or
\* the answer is an error.
GatewayFails(q) ==
  /\ step[q] \in {"get", "patch", "update", "unget", "unpatch", "off"}
  /\ calm' = FALSE
  /\ StepTo(q, AfterFailure(q))
  /\ UNCHANGED <<rowVars, gatewayVars, op, agent, todo, flag, seen, fresh, plain>>

\* A query fails, and the request with it, or the pushing of the secrets does.
RequestFails(q) ==
  /\ step[q] \in {"look", "insert", "set", "push", "remove", "list"} \/ (step[q] = "next" /\ todo[q] = {})
  /\ calm' = FALSE
  /\ Ends(q)
  /\ UNCHANGED <<rowVars, gatewayVars, agent, todo, fresh, plain>>

\* Somebody else gives another skill to an agent, or takes it away.
Elsewhere(a) ==
  /\ others' = IF a \in others THEN others \ {a} ELSE others \cup {a}
  /\ wanted' = IF a \in others THEN wanted \ {a} ELSE wanted \cup {a}
  /\ fresh' = {}
  /\ UNCHANGED <<rowVars, entry, allowed, op, agent, step, todo, flag, seen, calm, plain>>

-----------------------------------------------------------------------------
SkillNext ==
  \/ \E q \in Calls :
       \/ \E o \in Ops, a \in Agents : CallBegins(q, o, a)
       \/ LooksUp(q) \/ Attaches(q) \/ Sets(q) \/ Removes(q)
       \/ Lists(q) \/ Drops(q)
       \/ \E a \in Agents : NextAgent(q, a)
       \/ Loads(q) \/ Gets(q, "get", "patch") \/ Patches(q)
       \/ UpdatesEntry(q) \/ ReadsSecrets(q) \/ Pushes(q)
       \/ GetsToRemove(q) \/ PatchesOut(q) \/ Counts(q) \/ SwitchesOff(q)
       \/ GatewayFails(q) \/ RequestFails(q)
  \/ \E a \in Agents : Elsewhere(a)

SkillSpec == SkillInit /\ [][SkillNext]_skillVars

-----------------------------------------------------------------------------
(* Properties.                                                             *)

\* What somebody else wrote into an allowlist is never undone.
OthersKept == others = wanted

\* When nothing is under way, nothing has failed and nothing overlapped, the
\* allowlists name the skill for the agents it is assigned to.
AllowedIsAssigned == AtRest /\ calm /\ plain => allowed = Assigned

\* The skill is enabled then when an agent has it.
OnWhenAssigned == AtRest /\ calm /\ plain /\ Assigned # {} => entry

\* And it is not when none has, unless the skill itself was deleted.
OffWhenNobody == AtRest /\ calm /\ skill /\ Assigned = {} => ~entry

\* The gateway's configuration follows the assignments of a skill.
SkillsFollow == SkillTypeOK /\ AllowedIsAssigned /\ OnWhenAssigned /\ OffWhenNobody
=============================================================================
