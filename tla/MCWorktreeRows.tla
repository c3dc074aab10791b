--------------------------- MODULE MCWorktreeRows ---------------------------
(***************************************************************************)
(* Instances of WorktreeRows.                                              *)
(***************************************************************************)
EXTENDS WorktreeRows, TLC

CONSTANTS p1, p2, p3, r1, r2

MCOne == <<p1>>
MCTwo == <<p1, p2>>
MCThree == <<p1, p2, p3>>
Budget(c, r, u, l, f, t) ==
    [changes |-> c, restarts |-> r, clicks |-> u, limits |-> l, failures |-> f, ticks |-> t]
MCBudgets ==
    {Budget(1, 1, 0, 0, 1, 1), Budget(1, 1, 0, 1, 0, 1), Budget(1, 1, 1, 0, 0, 0),
     Budget(2, 0, 0, 0, 0, 1), Budget(1, 0, 0, 0, 0, 2), Budget(1, 0, 1, 0, 0, 1),
     Budget(0, 0, 1, 1, 0, 1), Budget(0, 0, 2, 0, 0, 0)}
MCBranches == Permutations(Branches)
MCFirstRepo == [p \in Paths |-> r1]
=============================================================================
