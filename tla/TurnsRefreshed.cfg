CONSTANTS
    w1 = w1
    None = None
    Paths = {w1}
    Sessions = {s1}
    Cwd <- MCOneWorktree
    Diffs = {d1}
    KeptTurns = 2
    MaxMessages = 3
    MaxRefreshes = 1
SPECIFICATION FairSpec
PROPERTY TurnsSurviveRefreshes
CHECK_DEADLOCK FALSE
