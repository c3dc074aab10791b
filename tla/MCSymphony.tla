----------------------------- MODULE MCSymphony -----------------------------
(* Small instances of Symphony for TLC. *)
EXTENDS Symphony

CONSTANTS i1, i2

MCRank == [i \in Issues |-> IF i = i1 THEN 1 ELSE 2]

\* i2 is blocked by i1.
MCBlockers == [i \in Issues |-> IF i = i2 THEN {i1} ELSE {}]

Limits(todo, other) == [s \in States |-> IF s = Todo THEN todo ELSE other]

\* The default states of WORKFLOW.md, two slots.
Wide == [active |-> {"todo", "progress"} \cap States, terminal |-> {"done"},
         slots |-> 2, limit |-> Limits(1, 2), stalls |-> TRUE]

\* One slot, no limit by state, no stall detection.
Narrow == [Wide EXCEPT !.slots = 1, !.limit = Limits(2, 2), !.stalls = FALSE]

\* A reload changes everything but the one slot.
OneSlot == {Narrow, [Wide EXCEPT !.slots = 1]}
=============================================================================
