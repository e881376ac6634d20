SPECIFICATION Spec
CONSTANTS
    None = None
    a1 = a1
    a2 = a2
    d1 = d1
    exe = exe
    dll = dll
    h1 = h1
    h2 = h2
    Admins = {a1, a2}
    Devices = {d1}
    VersionIds = {1, 2}
    Paths = {exe, dll}
    Hashes = {h1, h2}
    Submissions <- MCSubmissions
    PackageOf <- MCPackageOf
    Failing = TRUE
    MaxSaves = 2
INVARIANTS
    SettledDeltaIsBuild
    TypeOK
    SavedManifestIsWhole
    DeltaIsExact
