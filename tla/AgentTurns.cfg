CONSTANTS
    w1 = w1
    None = None
    Paths = {w1}
    Sessions = {s1, s2}
    Cwd <- MCOneWorktree
    Diffs = {d1, d2}
    KeptTurns = 2
    MaxMessages = 6
    MaxRefreshes = 1
SPECIFICATION FairSpec
INVARIANTS RowsShowActivity OneCheckpoint TurnsInOrder StuckMatchesTurns
PROPERTY TurnsAreRecorded
CHECK_DEADLOCK FALSE
