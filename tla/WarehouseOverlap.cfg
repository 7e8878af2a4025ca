SPECIFICATION Spec
CONSTANTS
    c1 = c1
    t1 = t1
    p1 = p1
    k1 = k1
    x0 = x0
    x1 = x1
    x2 = x2
    Customers = {c1}
    Pets = {t1}
    Policies = {p1}
    Claims = {k1}
    CustomerOf <- Owners
    PetOf <- Insured
    PolicyOf <- Policied
    Bodies = {x0, x1, x2}
    Versions <- ClaimOnly
    Builds = {b1, b2}
    None = None
    MaxRecords = 2
    IdsOf <- AnyIds
    MaxActive = 2
    MaxFaults = 1
INVARIANTS
    TypeOK
    EventsUnique
    EventsComplete
SYMMETRY BuildSymmetry
CHECK_DEADLOCK FALSE
