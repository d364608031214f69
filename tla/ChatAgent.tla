------------------------------ MODULE ChatAgent -----------------------------
(***************************************************************************)
(* The chat agent (agent/chatAgent.ts) on both of its sides: the requests  *)
(* of all turns to the model, which share the limiter, and what one turn   *)
(* makes of the answers.  A turn knows of the limiter only that its        *)
(* request is answered or fails, so a behaviour follows one of the sides.  *)
(***************************************************************************)
EXTENDS RateLimitedFetch, ChatTurn

VARIABLE side

agentVars == <<side, vars, turnVars>>

AgentInit == side \in {"requests", "turn"} /\ Init /\ TurnInit

AgentNext ==
  \/ side = "requests" /\ Next /\ UNCHANGED <<side, turnVars>>
  \/ side = "turn" /\ TurnNext /\ UNCHANGED <<side, vars>>

AgentSpec == AgentInit /\ [][AgentNext]_agentVars

=============================================================================
