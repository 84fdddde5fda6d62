\* A channel of two events, two calls in a batch, answers of two chunks, two
\* retries, compactions or thinking chunks, one message, two keys.
SPECIFICATION Spec
CONSTANTS
    Cap = 2
    Calls = 2
    Chunks = 2
    Messages = 1
    Extras = 2
    Keys = 2
    Pressed <- AllKeys
INVARIANTS ScreenSound ShownWhole NothingStaysOpen
\* The user may leave.
CHECK_DEADLOCK FALSE
