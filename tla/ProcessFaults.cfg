SPECIFICATION ManagerSpec
CONSTANTS
    p1 = p1
    p2 = p2
    Ids = {p1}
    Generated = {}
    Watched = {}
    Procs = {p1}
    AutoStart = {p1}
    Definitions <- Removable
    Requests = {1}
    Slots = {1, 2}
    Faults = {"list", "kill", "spawn", "save"}
    MaxBackoff = 2
    MaxTimers = 1
    ReapEvery = 2
    Clients = TRUE
INVARIANTS
    NoLostChild
PROPERTIES
    NoFalseCrash
CHECK_DEADLOCK FALSE
