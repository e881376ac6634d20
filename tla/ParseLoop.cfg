SPECIFICATION Spec
CONSTANTS
    NotANumber = NotANumber
    Inputs <- MCInputs
INVARIANTS
    TypeOK
    LoopComputesCode
    CodesOrderVersions
\* parseVersionCode returns
CHECK_DEADLOCK FALSE
