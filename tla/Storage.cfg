SPECIFICATION Spec
CONSTANTS
    None = None
    r1 = r1
    r2 = r2
    t1 = t1
    t2 = t2
    b1 = b1
    b2 = b2
    s1 = s1
    s2 = s2
    Requests = {r1, r2}
    Tenants = {t1, t2}
    Buckets = {b1, b2}
    Bodies <- MCBodies
    Tested <- MCTested
    Names = {a}
    Ticks = {tick}
    Secrets = {s1, s2}
    Failing = TRUE
    MaxSaves = 2
    MaxUploads = 2
    MaxRestarts = 1
SYMMETRY Alike
INVARIANTS
    TypeOK
    TenantsKeepApart
    UrlsWereWritten
    TestsLeaveNoTrace
    NothingIsStranded
