SPECIFICATION Spec
CONSTANTS
    p1 = p1
    None = None
    Callers <- MCCallers
    Prog = p1
    MaxScripts = 1
    MaxExecs = 1
    MaxLost = 1
INVARIANT SuccessOnlyIfCompleted
CHECK_DEADLOCK FALSE
