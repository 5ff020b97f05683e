SPECIFICATION Spec
CONSTANTS
    Desk = Desk
    AnyFiller = AnyFiller
    None = None
    c1 = c1
    c2 = c2
    Bids <- MCBids
    Closings <- MCClosings
    Clients = {c1, c2}
    MaxBids = 2
    MinBidders = 2
    Vickrey = TRUE
    BindToWinner = TRUE
    StaleAfter = 0
    MaxTime = 2
SYMMETRY Swaps
INVARIANTS
    OutcomePreserved
    PublishedRoundChecks
    QuoteIsEarned
CHECK_DEADLOCK FALSE
