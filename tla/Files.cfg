SPECIFICATION Spec
CONSTANTS
    None = None
    r1 = r1
    r2 = r2
    a = a
    b = b
    Directory = Directory
    Direct = Direct
    Requests = {r1, r2}
    Names = {a, b}
    CopyName <- MCCopyName
    InitialFiles <- MCFiles
    InitialObjects <- MCObjects
    SelfCopy = TRUE
    Failing = TRUE
    MaxFaults = 1
    MaxFiles = 4
    MaxRequests = 3
    MaxBatch = 1
    NamedParents = {0, 1, 3}
    OnePair = TRUE
SYMMETRY Alike
INVARIANTS
    TypeOK
    BucketIsAccountedFor
    ContentIsKept
    DeletionsEnd
PROPERTY
    FoldersGoEmpty
\* requests are bounded
CHECK_DEADLOCK FALSE
