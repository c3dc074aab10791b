SPECIFICATION Spec
CONSTANTS
    i1 = i1
    i2 = i2
    Issues = {i1, i2}
    States = {"todo", "progress", "backlog", "done"}
    Gone = "gone"
    Todo = "todo"
    Configs <- Environments
    Rank <- MCRank
    Blockers <- MCBlockers
    Gens = {1, 2}
    MaxAttempt = 1
    MaxEvents = 1
    MaxRemovals = 1
    MaxCommands = 1
    Poll = 1
    Reopen = FALSE
INVARIANTS
    RunOwnsItsFinish
    StaleEventsAreOfAbortedRuns
    ClaimsMatch
PROPERTIES
    KeepsLeases
CONSTRAINT InEnvironment
ACTION_CONSTRAINT Unchanged
CHECK_DEADLOCK FALSE
