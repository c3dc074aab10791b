---------------------------- MODULE MCAgentTurns ----------------------------
(***************************************************************************)
(* Instances of AgentTurns.                                                *)
(***************************************************************************)
EXTENDS AgentTurns

CONSTANTS w1

MCOneWorktree == [s \in Sessions |-> w1]
=============================================================================
