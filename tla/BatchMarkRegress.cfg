SPECIFICATION Spec
CONSTANTS
    k1 = k1
    k2 = k2
    Keys = {k1, k2}
    Times = {1, 2}
    Bodies = {"a"}
    None = None
    PgRank <- Ascending
    PyRank <- Ascending
    IngestRuns = {i1}
    ReconcileRuns = {c1}
    Overlapping = TRUE
    MaxAttempts = 3
    FaultKinds = {}
    MaxFaults = 0
    MaxWrites = 2
PROPERTIES
    MarkNeverRegresses
CHECK_DEADLOCK FALSE
