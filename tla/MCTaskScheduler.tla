-------------------------- MODULE MCTaskScheduler --------------------------
(***************************************************************************)
(* Instances of TaskScheduler: two tasks with a schedule, and one that is  *)
(* disabled and run by hand.                                               *)
(***************************************************************************)
EXTENDS TaskScheduler

CONSTANTS t1, t2, t3

MCDue == [t \in Tasks |-> CASE t = t1 -> {1, 3} [] t = t2 -> {1} [] t = t3 -> {2}]
=============================================================================
