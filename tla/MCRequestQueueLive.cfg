\* Two calls in the queue, one worker; works may hang until they are cancelled.
SPECIFICATION HangingSpec
CONSTANTS
    a1 = a1
    a2 = a2
    b1 = b1
    Jobs <- MCPair
    KeyOf <- MCKeyOf
    MaxQueued = 2
    MaxRunning = 1
    Disturbed <- MCOne
INVARIANT
    NoOvertaking
PROPERTIES
    EveryCallReturns ShutdownCompletes
\* every call may have returned and the dispatcher may have ended
CHECK_DEADLOCK FALSE
