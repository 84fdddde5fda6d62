\* Two calls, two pages of tools of a server that reads its input.
SPECIFICATION FairSpec
CONSTANTS
    MaxCalls = 2
    MaxPages = 2
    MaxNoise = 1
    PipeCap = 1
    OutCap = 1
    ServerReads = TRUE
INVARIANTS
    ConnectionSound
PROPERTIES
    ConnectionReturns
