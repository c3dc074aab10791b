--------------------------- MODULE MCPersistence ---------------------------
(***************************************************************************)
(* Instances of Persistence.                                               *)
(***************************************************************************)
EXTENDS Persistence
=============================================================================
