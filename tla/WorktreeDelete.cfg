CONSTANTS
    p1 = p1
    p2 = p2
    p3 = p3
    r1 = r1
    r2 = r2
    None = None
    Order <- MCThree
    Repo <- MCFirstRepo
    Repos = {r1, r2}
    Branches = {b1}
    Tracked = {}
    Primary = {p1}
    Budgets <- MCBudgets
    Undiffable = {p2}
    MaxPrTasks = 2
    MaxDiffTasks = 1
SPECIFICATION Spec
INVARIANT DeletesWhatItNames
CHECK_DEADLOCK FALSE
