SPECIFICATION Spec
CONSTANTS
    k1 = k1
    k2 = k2
    Keys = {k1, k2}
    Times = {1, 2}
    Bodies = {"a"}
    None = None
    PgRank <- Ascending
    PyRank <- Descending
    IngestRuns = {i1}
    ReconcileRuns = {c1}
    Overlapping = TRUE
    MaxAttempts = 2
    FaultKinds = {"statement", "stage", "commitAck", "cleanup", "audit", "crash"}
    MaxFaults = 1
    MaxWrites = 3
INVARIANTS
    NothingSkipped
    RawUnique
    SuccessCaptures
PROPERTIES
    CapturesAtomically
    FailuresAreCountRaces
CHECK_DEADLOCK FALSE
