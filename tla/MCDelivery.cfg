\* One message delivered twice, or two of one conversation; Discord may fail.
SPECIFICATION Spec
CONSTANTS
    j1 = j1
    j2 = j2
    m1 = m1
    m2 = m2
    Jobs <- MCJobs
    KeyOf <- MCKeyOf
    Deliveries <- MCDeliveries
    MayBeCut <- MCJobs
    MaxQueued = 1
    MaxRunning = 2
    NetFails = TRUE
INVARIANTS
    TypeOK OneReceiptPerQuestion RepliesAreExplained
PROPERTIES
    SavedWhileShown HandlersEnd
\* every handler may be done
CHECK_DEADLOCK FALSE
