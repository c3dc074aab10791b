SPECIFICATION ManagerFairSpec
CONSTANTS
    p1 = p1
    p2 = p2
    Ids = {p1}
    Generated = {}
    Watched = {}
    Procs = {p1}
    AutoStart = {p1}
    Definitions <- Removable
    Requests = {1, 2}
    Slots = {1, 2}
    Faults = {"list", "kill", "spawn"}
    MaxBackoff = 1
    MaxTimers = 1
    ReapEvery = 2
    Clients = FALSE
INVARIANTS
    RestartingHasTimer
    StoppedHasNoSession
    LiveIsRestorable
    NoLostChild
PROPERTIES
    NoUnaskedStart
    NoFalseCrash
    RestartSettles
CHECK_DEADLOCK FALSE
