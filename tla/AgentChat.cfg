CONSTANTS
    None = None
    c1 = c1
    c2 = c2
    Ids = {c1, c2}
    Capacity = 2
    MaxTurns <- MCTurns
    MaxSaid = 1
    MaxRestarts = 1
SPECIFICATION FairSpec
INVARIANTS WorkingHasAnEnd MessagesSurvive
PROPERTY EndedTurnIsHeard
CHECK_DEADLOCK FALSE
