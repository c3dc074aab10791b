--------------------------- MODULE MCCodexRunner ---------------------------
(* Small instances of CodexRunner for TLC. *)
EXTENDS CodexRunner
=============================================================================
