\* A timed-out job can still be started.
SPECIFICATION Safety
CONSTANTS
    a1 = a1
    a2 = a2
    b1 = b1
    Jobs <- MCPair
    KeyOf <- MCKeyOf
    MaxQueued = 2
    MaxRunning = 1
    Disturbed <- MCOne
INVARIANT
    ExpiredWorkNotStarted
\* every call may have returned and the dispatcher may have ended
CHECK_DEADLOCK FALSE
