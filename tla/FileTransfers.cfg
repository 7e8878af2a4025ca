SPECIFICATION Spec
CONSTANTS
    NumCustomers = 2
    PetOwner <- Owners
    ClaimPet <- PetsOf
    Paid <- PaidClaims
    Drawn <- DrawnSums
    Amounts = {0, 1, 2}
    None = None
    MaxStarts = 3
    MaxChanges = 1
INVARIANTS
    TypeOK
    ManifestMatchesCsv
    PassesExplained
PROPERTIES
    FreshSeedLoads
CHECK_DEADLOCK FALSE
