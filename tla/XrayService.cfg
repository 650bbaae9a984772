SPECIFICATION FairSpec
CONSTANTS
    Admins = {a1}
    Ticks = {t1}
    Jobs = {j1}
    Editors = {e1}
    Cfgs = {c1}
    FaultKinds = {"crash", "wedge", "start", "config", "api", "save"}
    MaxFaults = 1
    MaxOrders = 1
    MaxEdits = 1
    NoOne = NoOne
INVARIANTS
    TypeOK
    OneCore
    CoreInv
    RequestSurvives
PROPERTIES
    CrashRecovered
    OrdersReturn
