SPECIFICATION ManagerSpec
CONSTANTS
    p1 = p1
    p2 = p2
    Ids = {p1}
    Generated = {}
    Watched = {}
    Procs = {p1}
    AutoStart = {p1}
    Definitions <- Fixed
    Requests = {1}
    Slots = {1, 2}
    Faults = {"save"}
    MaxBackoff = 2
    MaxTimers = 1
    ReapEvery = 2
    Clients = FALSE
INVARIANTS
    StoppedHasNoSession
CHECK_DEADLOCK FALSE
