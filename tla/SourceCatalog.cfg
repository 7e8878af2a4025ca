SPECIFICATION Spec
CONSTANTS
    Tables = {"customers", "claims"}
    PathOrder <- Paths
    CaptureOrder <- Captures
    Names = {"id", "status", "channel"}
    Types = {"text", "number"}
    Contract <- Contracts
    Validators = {v1}
    Ingests = {i1}
    Reconciles = {r1}
    Setups = {e1, e2, e3}
    None = None
    MaxAlters = 2
    MaxEvents = 3
INVARIANTS
    VerdictsExact
    RejectionsReal
    ReadyMeansPublished
    RaisesExplained
    RacesComplete
PROPERTIES
    BreachesExplained
CHECK_DEADLOCK FALSE
