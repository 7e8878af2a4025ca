SPECIFICATION FairSpec
CONSTANTS
    f1 = f1
    f2 = f2
    NumTables = 2
    Parents <- TwoTables
    Families = {f1, f2}
    Jobs = {j1}
    Ingests = {}
    Reconciles = {c1}
    None = None
    MaxPlace = 2
    PlacesOf <- CustomerPast
    MaxWrites = 2
    MaxFaults = 1
    MaxAlters = 1
INVARIANTS
    TypeOK
    NoOldOrphans
    SuccessIsFresh
PROPERTIES
    ReadsAreValidated
    ExecutionsEnd
CHECK_DEADLOCK FALSE
