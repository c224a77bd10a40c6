\* One request: three calls in all, two of them searches, in batches of up to two.
SPECIFICATION Spec
CONSTANTS
    r1 = r1
    a1 = a1
    a2 = a2
    a3 = a3
    Runs = {r1}
    Tools = {"fetch_page"}
    Args = {a1, a2, a3}
    Limit <- MCLimit
    MaxCalls = 3
    LlmSlots = 1
    MaxBatch = 2
INVARIANTS
    TypeOK SearchesBounded LimitIsTold ObedienceIsEnough
PROPERTIES
    WithdrawnForGood EveryRunEnds
