SPECIFICATION LiveSpec
CONSTANTS
    op = op
    or = or
    os = os
    oq = oq
    ann = ann
    bob = bob
    t1 = t1
    t2 = t2
    None = None
    Orders = {op, or, os, oq}
    Maker <- MCMaker
    Expiry <- MCExpiry
    Nonce <- MCNonce
    FillOnce <- MCFillOnce
    Cancels <- MCCancels
    Replaces <- MCReplaces
    Tasks = {t1, t2}
    MaxOrders = 2
    MinTtl = 1
    MaxTtl = 3
    MaxTombs = 2
    MaxPending = 2
    MaxStrikes = 1
    Weathers <- MCWeathers
INVARIANTS
    CapsHeld
    RetractedStaysOut
    HistoryStaysOut
PROPERTIES
    DeadLeave
CHECK_DEADLOCK FALSE
