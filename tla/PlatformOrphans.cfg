SPECIFICATION Spec
CONSTANTS
    f1 = f1
    f2 = f2
    NumTables = 5
    Parents <- FiveTables
    Families = {f1}
    Jobs = {j1}
    Ingests = {}
    Reconciles = {}
    None = None
    MaxPlace = 1
    PlacesOf <- OnePlace
    MaxWrites = 3
    MaxFaults = 0
    MaxAlters = 0
INVARIANTS
    RelationshipsHold
CHECK_DEADLOCK FALSE
