-------------------------- MODULE MCProcessManager --------------------------
(* Small instances of ProcessManager for TLC. *)
EXTENDS ProcessManager

CONSTANTS p1, p2

AllAuto == [p \in Procs |-> TRUE]
NoneAuto == [p \in Procs |-> FALSE]

\* The processes are defined, with auto_restart.
Fixed == {AllAuto}

\* They are defined with auto_restart or removed.
Removable == {AllAuto, EmptyMap}

\* auto_restart is switched on and off.
Switched == {AllAuto, NoneAuto}
=============================================================================
