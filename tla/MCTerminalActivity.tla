------------------------- MODULE MCTerminalActivity -------------------------
(* Small instances of TerminalActivity for TLC. *)
EXTENDS TerminalActivity

CONSTANT t1
=============================================================================
