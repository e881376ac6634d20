SPECIFICATION Spec
CONSTANTS
    None = None
    r1 = r1
    r2 = r2
    o1 = o1
    t1 = t1
    t2 = t2
    setup = setup
    notes = notes
    package = package
    cA = cA
    cB = cB
    nA = nA
    nB = nB
    Requests = {r1}
    Operators = {o1}
    Tenants = {t1}
    VersionIds = {1, 2}
    Name <- Distinct
    TenantOf <- OneTenant
    Configured = {t1}
    Filenames = {setup}
    Contents = {cA, cB}
    PackageFile = package
    InitialKeys <- OneKey
    MaxKeys = 1
    MaxUploads = 2
    Failing = FALSE
INVARIANTS
    SignatureCoversHash
