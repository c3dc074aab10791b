CONSTANTS
    t1 = t1
    t2 = t2
    t3 = t3
    Tasks = {t1, t2, t3}
    Enabled = {t1, t2}
    Due <- MCDue
    Clients = {c1}
    Capacity = 2
    MaxHistory = 2
    MaxTime = 3
    MaxManual = 2
SPECIFICATION FairSpec
INVARIANTS RunningIsOneExecution OneRunPerDueTime FeedLeadsToTable
PROPERTY LagIsRepaired
CHECK_DEADLOCK FALSE
