SPECIFICATION Spec
CONSTANTS
    Clients = {c1, c2}
    Renewing = {}
    Quota = 1
    Editors = {e1, e2}
    EditKinds = {"delete", "update"}
    FaultKinds = {}
    MaxEvents = 0
    MaxEdits = 2
    MaxRestarts = 0
    NoOne = NoOne
INVARIANT
    DeletedStaysDeleted
