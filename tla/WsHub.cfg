SPECIFICATION FairSpec
CONSTANTS
    Clients = {c1, c2}
    SendCap = 1
    BroadcastCap = 1
    RegisterCap = 1
    UnregisterCap = 1
INVARIANT
    HubInv
PROPERTIES
    ShutdownCompletes
    DeadIsForgotten
CHECK_DEADLOCK FALSE
