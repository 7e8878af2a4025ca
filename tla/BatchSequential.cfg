SPECIFICATION Spec
CONSTANTS
    k1 = k1
    k2 = k2
    Keys = {k1, k2}
    Times = {1, 2}
    Bodies = {"a"}
    None = None
    PgRank <- Ascending
    PyRank <- Ascending
    IngestRuns = {i1, i2}
    ReconcileRuns = {c1}
    Overlapping = FALSE
    MaxAttempts = 2
    FaultKinds = {"statement", "stage", "crash"}
    MaxFaults = 2
    MaxWrites = 2
INVARIANTS
    TypeOK
    AuditExact
    NoReplay
    RowsBelongToSuccess
    IngestReclaimsStage
PROPERTIES
    MarkNeverRegresses
CHECK_DEADLOCK FALSE
