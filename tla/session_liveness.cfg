\* A prompt, a compaction, an idle-only command and a shutdown: calls return,
\* accepted commands finish and the session ends.
SPECIFICATION FairSpec
CONSTANTS
    p = p
    s = s
    f = f
    a = a
    x = x
    d = d
    m = m
    None = None
    Command <- MCLive
    Kind <- KindLive
    Capacity = 1
    MaxTurns = 2
    MayAsk = TRUE
INVARIANT
    ShutdownIsFinal
PROPERTIES
    CallsReturn
    AcceptedIsFinished
\* The session ends: a worker that has exited and calls that have returned do nothing more.
CHECK_DEADLOCK FALSE
