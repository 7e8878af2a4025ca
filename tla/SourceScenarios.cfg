SPECIFICATION Spec
CONSTANTS
    cus = cus
    t4c = t4c
    t4p = t4p
    dqc = dqc
    dqp = dqp
    ltc = ltc
    lte = lte
    txn = txn
    cdc = cdc
    Keys = {cus, t4c, t4p, dqc, dqp, ltc, lte, txn, cdc}
    Bodies = {"initial", "changed", "deleted", "other", "loaded"}
    None = None
    NumTables = 3
    TableOf <- KeyTable
    PgRank <- KeyRank
    PyRank <- KeyRank
    Customer = cus
    T4Claim = t4c
    T4Payment = t4p
    DqClaim = dqc
    DqPayment = dqp
    LateClaim = ltc
    LateExisting = lte
    TxnClaim = txn
    CdcClaim = cdc
    FirstAt = 0
    LateAt = 1
    LateExistingAt = 2
    RevisedAt = 3
    HistoryAt = 4
    EventAt = 5
    Clocks = {3, 6}
    Seeded = {4}
    MaxTime = 8
    Times <- AllTimes
    MaxWrites = 2
    MaxLoads = 1
INVARIANTS
    TypeOK
    StagingFollowsSource
    MissedIsExplained
    ReconciliationMirrors
PROPERTIES
    ReplayInsertsNothing
CHECK_DEADLOCK FALSE
