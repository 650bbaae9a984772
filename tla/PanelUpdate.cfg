SPECIFICATION FairSpec
CONSTANTS
    Jobs = {j1, j2}
    NoJob = NoJob
    Shell = Shell
    Probe = Probe
    Free = Free
    MaxKills = 1
    MaxCrashes = 1
INVARIANTS InstallerInv RefusedNeverInstalls StatusFollowsOwner InterruptedIsOver
PROPERTIES AcceptedIsReported LockReturns
