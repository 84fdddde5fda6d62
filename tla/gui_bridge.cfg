\* Two requests of one process, or two starts of one connection; a pipe of one
\* frame, one event and one unacceptable frame.
SPECIFICATION MCSpec
CONSTANTS
    h1 = h1
    h2 = h2
    c1 = c1
    c2 = c2
    NoHandle = NoHandle
    Handles <- MCHandles
    Requests <- MCRequests
    OutFrames = 1
    Reports = 1
    BadFrames = 1
INVARIANT
    BridgeSound
PROPERTY
    BridgeReturns
\* A bridge without a connection and with all its requests made stops.
CHECK_DEADLOCK FALSE
