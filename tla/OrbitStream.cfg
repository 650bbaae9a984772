SPECIFICATION Spec
CONSTANTS
    Loads <- OneWay
    FullAt = 1
    ResumeAt = 0
    ServerLimit = 1
    ClientLimit = 1
    OutCap = 2
    WireCap = 1
    MaxTicks = 1
    ReadClosers = {"client"}
INVARIANT FlowInv
CHECK_DEADLOCK FALSE
