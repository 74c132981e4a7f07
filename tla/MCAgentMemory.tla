---------------------------- MODULE MCAgentMemory ----------------------------
(***************************************************************************)
(* Two parts of the system that share no state, checked in one run: the    *)
(* run loop of an agent with its state file, and the episodes of a project.*)
(* A behavior is one of the part that its initial state picks, while the   *)
(* other stays in its initial state.                                       *)
(***************************************************************************)
EXTENDS MCAgentRun, MCProjectMemory

VARIABLE part

agentMemoryVars == <<part, runVars, vars>>

AgentMemoryInit ==
  /\ part \in {"agent", "memory"}
  /\ RunInit /\ Init
  /\ part # "memory" => ~disk.malformed

AgentMemoryNext ==
  /\ \/ part = "agent" /\ RunNext /\ UNCHANGED vars
     \/ part = "memory" /\ MCNext /\ UNCHANGED runVars
  /\ part' = part

AgentMemorySpec == AgentMemoryInit /\ [][AgentMemoryNext]_agentMemoryVars
=============================================================================
