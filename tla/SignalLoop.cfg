SPECIFICATION FairSpec
CONSTANTS
    External = {"HUP", "USR1", "TERM"}
    MaxSends = 3
    MaxImports = 2
    MaxAdmin = 1
INVARIANT
    LoopInv
PROPERTIES
    ReloadCarriedOut
    ShutdownCarriedOut
    RestoreActivated
