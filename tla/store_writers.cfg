\* Two processes, three session ids, three entries: creation, append, clear,
\* resume and restart in every order.
SPECIFICATION Spec
CONSTANTS
    Process = {p1, p2}
    Session = {s1, s2, s3}
    MaxEntries = 3
    None = None
SYMMETRY Symmetric
INVARIANTS
    ChainOK
    WriterSawLog
    UnclearedPlansAdvance
PROPERTIES
    AppendInSight
