---------------------------- MODULE MCServerLive ----------------------------
(***************************************************************************)
(* Small instances of the server's components that must make progress,     *)
(* side by side: part says which of them a behaviour is of, and the others *)
(* stay as they began.                                                     *)
(***************************************************************************)
EXTENDS GatewayPool, GatewayClient, RealtimeConsult, EventBridge, AgentRuntime

VARIABLE part

ServerInit ==
  /\ part \in {"pool", "client", "consult", "bridge", "processes", "outputs"}
  /\ PoolInit /\ ClientInit /\ ConsultInit /\ BridgeInit /\ AgentInit
  \* What an idle component would choose does not matter.
  /\ part # "client" => ~loopback /\ ~shared /\ ~deviceAuth

ServerNext ==
  /\ UNCHANGED part
  /\ \/ /\ part = "pool" /\ PoolNext
        /\ UNCHANGED <<clientVars, consultVars, bridgeVars, agentVars>>
     \/ /\ part = "client" /\ ClientNext
        /\ UNCHANGED <<poolVars, consultVars, bridgeVars, agentVars>>
     \/ /\ part = "consult" /\ ConsultNext
        /\ UNCHANGED <<poolVars, clientVars, bridgeVars, agentVars>>
     \/ /\ part = "bridge" /\ BridgeNext
        /\ UNCHANGED <<poolVars, clientVars, consultVars, agentVars>>
     \* Calls of a local agent that overlap, and streams of an agent with one call.
     \/ /\ \/ part = "processes" /\ AgentNext /\ UNCHANGED viewVars
           \/ part = "outputs" /\ AgentNext /\ \A c \in LocalCalls \ {1} : callAt'[c] = "idle"
        /\ UNCHANGED <<poolVars, clientVars, consultVars, bridgeVars>>

\* No fair action of a component is enabled before its first step, so that the
\* fairness of an idle one says nothing.
ServerSpec ==
  /\ ServerInit
  /\ [][ServerNext]_<<part, poolVars, clientVars, consultVars, bridgeVars, agentVars>>
  /\ PoolFairness /\ ClientFairness /\ ConsultFairness /\ BridgeFairness /\ AgentFairness
=============================================================================
