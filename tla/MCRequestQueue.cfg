\* Two calls of one key, one slot, two workers: every failure and every race.
SPECIFICATION Safety
CONSTANTS
    a1 = a1
    a2 = a2
    b1 = b1
    Jobs <- MCPair
    KeyOf <- MCKeyOf
    MaxQueued = 1
    MaxRunning = 2
    Disturbed <- MCPair
INVARIANTS
    TypeOK SendNeverBlocks OutcomeHonest EndsClean
PROPERTY ImplementsExecutor
\* every call may have returned and the dispatcher may have ended
CHECK_DEADLOCK FALSE
