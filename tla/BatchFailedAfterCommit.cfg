SPECIFICATION Spec
CONSTANTS
    k1 = k1
    k2 = k2
    Keys = {k1, k2}
    Times = {1}
    Bodies = {"a"}
    None = None
    PgRank <- Ascending
    PyRank <- Ascending
    IngestRuns = {i1}
    ReconcileRuns = {}
    Overlapping = FALSE
    MaxAttempts = 3
    FaultKinds = {"cleanup"}
    MaxFaults = 1
    MaxWrites = 1
INVARIANTS
    RowsBelongToSuccess
CHECK_DEADLOCK FALSE
