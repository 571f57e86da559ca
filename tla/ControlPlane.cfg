SPECIFICATION ControlSpec
CONSTANTS
    a1 = a1
    a2 = a2
    None = None
    Callers <- MCCallers
    MaxScripts = 2
    MaxExecs = 2
    MaxLost = 1
SYMMETRY MCCallerSymmetry
INVARIANTS
    TypeOK
    ClientIdsValid
    NoSilentOrphan
CHECK_DEADLOCK FALSE
