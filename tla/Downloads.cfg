SPECIFICATION Spec
CONSTANTS
    None = None
    s1 = s1
    s2 = s2
    d1 = d1
    d2 = d2
    x1 = x1
    Servers = {s1, s2}
    NumTables = 2
    MaxFaults = 1
    Addressed = {s1}
    Requests = {d1, d2}
    Contexts = {x1}
INVARIANTS
    TypeOK
    ServesWithAdministrator
    RowsNameTheDownloader
PROPERTIES
    WantedServersServe
