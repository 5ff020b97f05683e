SPECIFICATION Spec
CONSTANTS
    tick = tick
    admin = admin
    fill = fill
    swap = swap
    None = None
    Ticker = tick
    Duties <- WithAdmin
    GasLimit <- Limits
    Outflow <- Reserves
    MaxTries = 1
    Overdue = 1
    Timeout = 2
    Drop = 3
    Window = 4
    GasCap = 3
    OutCap = 1
    TagMayFail = FALSE
    MaxSends = 2
    MaxUpsets = 0
    Senders = {tick, admin}
    Keys = {fill, swap}
INVARIANTS
    OneOutstanding
