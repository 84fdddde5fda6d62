\* A prompt, a steer, a follow-up and an abort, issued by four threads.
SPECIFICATION Spec
CONSTANTS
    p = p
    s = s
    f = f
    a = a
    x = x
    d = d
    m = m
    None = None
    Command <- MCInputs
    Kind <- KindInputs
    Capacity = 2
    MaxTurns = 2
    MayAsk = TRUE
INVARIANTS
    SessionSound
    OneTerminal
    IdleOwesNothing
    NoModelCallAfterAbort
PROPERTIES
    KeepsContract
