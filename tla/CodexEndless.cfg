SPECIFICATION FairSpec
CONSTANTS
    MaxTurns = 2
    AskIds = {0, 3, 9}
    Noise = {"note", "fault", "garbage", "blank"}
    MaxLines = 3
PROPERTIES
    EndsDespiteTalk
CHECK_DEADLOCK FALSE
