\* Two commands, a query and a shutdown, two in flight, over a channel of two
\* commands and one of one event.
SPECIFICATION FairSpec
CONSTANTS
    prompt = prompt
    steer = steer
    query = query
    shutdown = shutdown
    Detached = Detached
    Eof = Eof
    None = None
    Request <- MCRequests
    Kind <- MCKind
    MaxInFlight = 2
    Capacity = 2
    EventCapacity = 1
INVARIANTS
    SendsFit
    EofTellsAll
PROPERTY
    ServerExits
\* The connection ends: a server that has returned does nothing more.
CHECK_DEADLOCK FALSE
