SPECIFICATION FairSpec
CONSTANTS
    NotANumber = NotANumber
    None = None
    d1 = d1
    d2 = d2
    a1 = a1
    a2 = a2
    Admins = {a1}
    CreateBodies <- Increments
    UpdateBodies <- Few
    Devices = {d1}
    Anonymous = {}
    Bucket <- MCBucket1
    Shipped <- Odd
    MaxVersions = 2
    MaxWrites = 4
    InitialVersions <- Empty
    KeyRequired = FALSE
    Faulty = FALSE
PROPERTIES
    Convergence
    WideningNeverWithdraws
