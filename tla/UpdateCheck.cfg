SPECIFICATION Spec
CONSTANTS
    NotANumber = NotANumber
    None = None
    d1 = d1
    d2 = d2
    a1 = a1
    a2 = a2
    Admins = {a1}
    CreateBodies <- Mixed
    UpdateBodies <- Releases
    Devices = {d1}
    Anonymous = {}
    Bucket <- MCBucket1
    Shipped <- Odd
    MaxVersions = 3
    MaxWrites = 4
    InitialVersions <- Filled
    KeyRequired = TRUE
    Faulty = TRUE
INVARIANTS
    TypeOK
    UndisturbedAnswer
PROPERTIES
    NeverDowngraded
    ImplementsRollout
