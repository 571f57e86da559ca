SPECIFICATION Spec
CONSTANTS
    p1 = p1
    None = None
    Callers <- MCCallers
    Prog = p1
    MaxScripts = 1
    MaxExecs = 1
    MaxLost = 1
    MaxWait = 3
INVARIANT TimeoutOnlyIfUnfinished
CHECK_DEADLOCK FALSE
