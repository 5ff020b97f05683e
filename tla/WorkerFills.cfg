SPECIFICATION LiveSpec
CONSTANTS
    a = a
    b = b
    c = c
    r1 = r1
    Reporters = {r1}
    None = None
    Orders <- MCOrders
    Events <- MCEvents
    Weathers <- MCWeathers
    Confirmations = 1
    MaxLogRange = 2
    NodeRange = 1
    MaxStrikes = 1
    MaxBlocks = 3
INVARIANTS
    LedgerMatchesChain
    GraveTellsFate
PROPERTIES
    CatchesUp
CHECK_DEADLOCK FALSE
