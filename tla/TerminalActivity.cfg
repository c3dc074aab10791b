SPECIFICATION ActivityFairSpec
CONSTANTS
    t1 = t1
    Ids = {t1}
    Generated = {}
    Watched = {t1}
    Ringing = {t1}
    MaxEvents = 3
    Slots = {1, 2, 3}
    Faults = {"kill", "spawn", "save"}
INVARIANTS
    EndedMeansNoChild
    NoGhostWaiting
PROPERTIES
    DeadSessionsGo
CHECK_DEADLOCK FALSE
