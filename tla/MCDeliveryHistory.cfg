\* A deadline that meets the end of the work.
SPECIFICATION Safety
CONSTANTS
    j1 = j1
    j2 = j2
    m1 = m1
    m2 = m2
    Jobs <- MCJobs
    KeyOf <- MCKeyOf
    Deliveries <- MCDeliveries
    MayBeCut <- MCJobs
    MaxQueued = 1
    MaxRunning = 2
    NetFails = FALSE
INVARIANT
    HistoryIsInDiscord
\* every handler may be done
CHECK_DEADLOCK FALSE
