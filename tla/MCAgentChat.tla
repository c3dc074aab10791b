---------------------------- MODULE MCAgentChat ----------------------------
(***************************************************************************)
(* Instances of AgentChat.                                                 *)
(***************************************************************************)
EXTENDS AgentChat, TLC

CONSTANTS c1, c2

\* Two turns of one session, so that they may overlap, beside one of another.
MCTurns == c1 :> 2 @@ c2 :> 1
=============================================================================
