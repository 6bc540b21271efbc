------------------------------ MODULE MCServer ------------------------------
(***************************************************************************)
(* Small instances of the server's components whose safety is checked,     *)
(* side by side: part says which of them a behaviour is of, and the others *)
(* stay as they began.                                                     *)
(***************************************************************************)
EXTENDS GatewayPool, RuntimeCredentials, Governance, FindOrCreate, SkillSync,
  AgentRuntime, TLC

VARIABLE part

ServerInit ==
  /\ part \in {"pool", "credentials", "governance", "rows", "skills", "processes", "outputs"}
  /\ PoolInit /\ CredInit /\ GovInit /\ FocInit /\ SkillInit /\ AgentInit
  \* What an idle component would choose does not matter.
  /\ part # "credentials" => meta.key = Nobody
  /\ part # "rows" => ~wrapped

PoolPart == PoolNext /\ UNCHANGED <<credVars, govVars, focVars, skillVars, agentVars>>
CredPart == CredNext /\ UNCHANGED <<poolVars, govVars, focVars, skillVars, agentVars>>
GovPart == GovNext /\ UNCHANGED <<poolVars, credVars, focVars, skillVars, agentVars>>
RowsPart == FocNext /\ UNCHANGED <<poolVars, credVars, govVars, skillVars, agentVars>>
SkillPart == SkillNext /\ UNCHANGED <<poolVars, credVars, govVars, focVars, agentVars>>
AgentPart == AgentNext /\ UNCHANGED <<poolVars, credVars, govVars, focVars, skillVars>>

\* The calls of a local agent are alike: it is enough to let them begin in one order.
InOrder == \A c, d \in LocalCalls : c < d /\ callAt'[c] = "idle" => callAt'[d] = "idle"

ServerNext ==
  /\ UNCHANGED part
  /\ \/ part = "pool" /\ PoolPart
     \/ part = "credentials" /\ CredPart
     \/ part = "governance" /\ GovPart
     \/ part = "rows" /\ RowsPart
     \/ part = "skills" /\ SkillPart
     \* Calls of a local agent that overlap, and streams of an agent with one call.
     \/ part = "processes" /\ AgentPart /\ InOrder /\ UNCHANGED viewVars
     \/ part = "outputs" /\ AgentPart /\ InOrder /\ \A c \in LocalCalls \ {1} : callAt'[c] = "idle"

ServerSpec ==
  /\ ServerInit
  /\ [][ServerNext]_<<part, poolVars, credVars, govVars, focVars, skillVars, agentVars>>

Symmetry == Permutations(Agents)
=============================================================================
