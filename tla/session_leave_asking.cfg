\* The front end leaves while a run may ask for an approval.
SPECIFICATION FairSpec
CONSTANTS
    p = p
    s = s
    f = f
    a = a
    x = x
    d = d
    m = m
    None = None
    Command <- MCLeave
    Kind <- KindLeave
    Capacity = 2
    MaxTurns = 2
    MayAsk = TRUE
PROPERTIES
    LeavingEndsSession
\* The session ends: a worker that has exited and calls that have returned do nothing more.
CHECK_DEADLOCK FALSE
