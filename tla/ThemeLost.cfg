CONSTANTS
    None = None
    Worktrees = {w1, w2}
    Fields = {"collapsed", "order"}
    Toggles = {"collapsed"}
    MaxChanges = 5
    MaxFailures = 1
SPECIFICATION Spec
INVARIANT ThemeIsSaved
CHECK_DEADLOCK FALSE
