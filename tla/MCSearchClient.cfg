\* Three calls, two slots; the server may crash, come back without the tool,
\* crash again and come back with it.
SPECIFICATION Spec
CONSTANTS
    c1 = c1
    c2 = c2
    c3 = c3
    Calls = {c1, c2, c3}
    ToolOf <- MCToolOf
    Registry <- MCRegistry
    ToolLists <- MCToolLists
    McpSlots = 2
    MaxCrashes = 2
INVARIANTS
    TypeOK SessionsMatchUse HealedCallsSucceed
PROPERTY
    EveryCallReturns
