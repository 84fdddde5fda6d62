\* Three listings; two processes that switch between two models; three that
\* open an old store; files with one section of every shape.
SPECIFICATION MCSpec
CONSTANTS
    u1 = u1
    u2 = u2
    u3 = u3
    m1 = m1
    m2 = m2
    None = None
    Nobody = Nobody
    NoFile = NoFile
    NoOpener = NoOpener
    Absent = Absent
    Caller <- MCCallers
    Scope <- MCScope
    Process <- MCProcess
    Selectable <- MCSelectable
    Effort <- MCEffort
    Registry <- MCRegistry
    Opener <- MCCallers
    Messages <- MCMessages
INVARIANTS
    ListingIsNew
    
    MigrationSound
    
PROPERTY
    ListReturns
CHECK_DEADLOCK FALSE
