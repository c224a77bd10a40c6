\* Small instances of six components, one at a time.
SPECIFICATION PartsSpec
CONSTANTS
    j1 = j1
    j2 = j2
    j3 = j3
    k1 = k1
    k2 = k2
    Texts <- MCTexts
    Limits = {5, 9, 15}
    Budget = 8
    PageBudget = 3
    RetryBudget = 8
    NearlyFull = 1
    Placeholder = 2
    Results <- MCResults
    MaxResults = 3
    MaxRetries = 3
    MaxParts = 2
    Options <- MCOptions
    Users = {u1, u2, u3}
    Burst = 2
    Period = 2
    MaxTable = 1
    SweepAge = 4
    Jobs <- MCJobs
    KeyOf <- MCKeyOf
    MaxQueued = 2
    MaxRunning = 2
INVARIANTS
    PartsTypeOK
    ChunksFit CodeStaysCode
    ContextWithinBudget NothingGivenUpInVain
    TextIsShown RepeatsAreExcused
    TracesAreHonest SameProtocolSameSamples
    SweepGivesNothing
    NothingClosedUnderWork GraceIsForEverybody
PROPERTY PartsEnd
\* every component may come to its end
CHECK_DEADLOCK FALSE
