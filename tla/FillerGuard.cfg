SPECIFICATION LiveSpec
CONSTANTS
    tick = tick
    admin = admin
    fill = fill
    swap = swap
    None = None
    Ticker = tick
    Duties <- TickOnly
    GasLimit <- Limits
    Outflow <- Reserves
    MaxTries = 1
    Overdue = 1
    Timeout = 2
    Drop = 2
    Window = 3
    GasCap = 3
    OutCap = 1
    TagMayFail = TRUE
    MaxSends = 2
    MaxUpsets = 1
    Senders = {tick}
    Keys = {fill, swap}
INVARIANTS
    OneOutstanding
    WithinBudget
PROPERTIES
    ForgetsOnlyGone
    Resolves
