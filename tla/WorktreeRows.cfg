CONSTANTS
    p1 = p1
    p2 = p2
    p3 = p3
    r1 = r1
    r2 = r2
    None = None
    Order <- MCTwo
    Repo <- MCFirstRepo
    Repos = {r1, r2}
    Branches = {b1, b2}
    Tracked = {b1, b2}
    Primary = {p1}
    Budgets <- MCBudgets
    Undiffable = {p2}
    MaxPrTasks = 2
    MaxDiffTasks = 1
SYMMETRY MCBranches
SPECIFICATION Spec
INVARIANTS PrAnswersBranch RefreshIsUnderWay
PROPERTY CreatedIsSelected
CHECK_DEADLOCK FALSE
