SPECIFICATION FairSpec
CONSTANTS
    i1 = i1
    i2 = i2
    Issues = {i1}
    States = {"todo", "backlog", "done"}
    Gone = "gone"
    Todo = "todo"
    Configs <- OneSlot
    Rank <- MCRank
    Blockers <- MCBlockers
    Gens = {1, 2}
    MaxAttempt = 1
    MaxEvents = 0
    MaxRemovals = 1
    MaxCommands = 1
    Poll = 1
    Reopen = FALSE
INVARIANTS
    WorkspaceIntact
PROPERTIES
    TerminalIsForgotten
    StopEndsWorkers
CHECK_DEADLOCK FALSE
