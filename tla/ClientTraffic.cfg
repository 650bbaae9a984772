SPECIFICATION Spec
CONSTANTS
    Clients = {c1, c2}
    Renewing = {c1}
    Quota = 1
    Editors = {e1}
    EditKinds = {"add", "delete", "update", "reset", "reset_all", "deplete"}
    FaultKinds = {"busy", "api"}
    MaxEvents = 2
    MaxEdits = 1
    MaxRestarts = 1
    NoOne = NoOne
INVARIANTS
    TrafficAccounted
    DisabledIsCutOff
    
