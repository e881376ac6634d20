SPECIFICATION Spec
CONSTANTS
    None = None
    r1 = r1
    r2 = r2
    o1 = o1
    t1 = t1
    t2 = t2
    setup = setup
    notes = notes
    package = package
    cA = cA
    cB = cB
    nA = nA
    nB = nB
    Requests = {r1, r2}
    Operators = {o1}
    Tenants = {t1, t2}
    VersionIds = {1, 2}
    Name <- Distinct
    TenantOf <- TwoTenants
    Configured = {t1, t2}
    Filenames = {setup}
    Contents = {cA, cB}
    PackageFile = package
    InitialKeys <- OneKey
    MaxKeys = 2
    MaxUploads = 2
    Failing = TRUE
SYMMETRY Alike
INVARIANTS
    TypeOK
    NoDanglingPackage
    KeyOfSameTenant
    PackageMatchesHash
PROPERTIES
    SwitchTakesEffect
