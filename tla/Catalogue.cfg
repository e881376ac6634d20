SPECIFICATION Spec
CONSTANTS
    None = None
    r1 = r1
    r2 = r2
    sA = sA
    sB = sB
    k1 = k1
    k2 = k2
    k3 = k3
    Requests = {r1, r2}
    Slugs = {sA, sB}
    Keys = {k1, k2, k3}
    MaxSoftware = 2
    MaxRequests = 4
    Failing = TRUE
SYMMETRY Alike
INVARIANTS
    TypeOK
    SlugsNameOneSoftware
    ReplacedKeysStayReplaced
