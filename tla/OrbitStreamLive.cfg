SPECIFICATION FairSpec
CONSTANTS
    Loads <- OneWay
    FullAt = 1
    ResumeAt = 0
    ServerLimit = 1
    ClientLimit = 1
    OutCap = 2
    WireCap = 1
    MaxTicks = 0
    ReadClosers = {"client"}
PROPERTY FlowReclaimed PauseEnds
CHECK_DEADLOCK FALSE
