\* Two commands, two rounds and the closing one, two attempts; three logs to begin with.  Answers
\* of two items of two pieces; prompts of four blocks.
SPECIFICATION MCSpec
CONSTANTS
    MaxId = 5
    OldLogs <- MCOldLogs
    Available = 10
    Reserve = 2
    Keep = 3
    Compacting = TRUE
    MaxTurns = 2
    MaxAttempts = 2
    MaxRuns = 2
    MaxText = 1
    Items = 2
    Pieces = 2
    PromptBlocks <- MCPromptBlocks
    MaxBlocks = 4
INVARIANTS
    RunSound
    StreamSound
    EncodingSound
PROPERTY
    CallsEnd
\* The commands end, and so do the calls.
CHECK_DEADLOCK FALSE
