SPECIFICATION ActivitySpec
CONSTANTS
    t1 = t1
    Ids = {t1}
    Generated = {}
    Watched = {t1}
    Ringing = {}
    MaxEvents = 1
    Slots = {1, 2}
    Faults = {"kill", "spawn", "save"}
PROPERTIES
    ReapKeepsWatched
CHECK_DEADLOCK FALSE
