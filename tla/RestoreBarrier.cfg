SPECIFICATION FairSpec
CONSTANTS
    Writers = {w1}
    Exporters = {e1}
    Loops = {l1}
    Importers = {i1, i2}
    NoOne = NoOne
INVARIANTS
    TypeOK
    RestoreIsExclusive
    BarrierInv
PROPERTIES
    RefusalMeansMaintenance
    ImplementsAdmission
    EveryRequestCompletes
    MaintenanceEnds
