\* Requests start after the shutdown began.
SPECIFICATION Spec
CONSTANTS
    j1 = j1
    j2 = j2
    j3 = j3
    k1 = k1
    k2 = k2
    Jobs <- MCJobs
    KeyOf <- MCKeyOf
    MaxQueued = 2
    MaxRunning = 2
PROPERTY WaitingRequestsCancelled
\* the process ends
CHECK_DEADLOCK FALSE
