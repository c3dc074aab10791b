--------------------------- MODULE MCSymphonyRuns ---------------------------
(* Three environments of Symphony in one run of TLC, each as lively as a run can
   afford: one issue comes and goes and its workers send events; two issues
   compete for the slot; the service is refreshed and stopped.  The
   configuration, which stays what it was, tells them apart. *)
EXTENDS MCSymphony

Moved     == [Wide EXCEPT !.slots = 1]
Competing == Narrow
Commanded == [Moved EXCEPT !.stalls = FALSE]

Environments == {Moved, Competing, Commanded}

NoEvents == \A i \in Issues, g \in Gens : worker[i][g].buffer = 0

InEnvironment ==
    /\ config = Moved     => tracker[i2] = "done" /\ tracker[i1] # "progress"
    /\ config = Competing => /\ tracker[i1] \in {"todo", "done", Gone}
                             /\ tracker[i2] # "backlog"
                             /\ NoEvents
    /\ config = Commanded => /\ tracker[i2] = "done"
                             /\ tracker[i1] \in {"todo", "done"}
                             /\ NoEvents
    /\ config # Commanded => commands = <<>>
    /\ pc = "startup" => \A i \in Issues : ~dir[i]

Unchanged == config' = config
=============================================================================
