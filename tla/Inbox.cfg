SPECIFICATION Spec
CONSTANTS
    tA = tA
    swap = swap
    odd = odd
    user = user
    stranger = stranger
    pool = pool
    Garbled = Garbled
    Headless = Headless
    None = None
    Terms <- BookTerms
    Delivers <- OneSource
    MaxUint = 9
    Delay = 1
    Tokens = {tA}
    Orders = {swap, odd}
    Beneficiaries = {user, stranger}
    Commitments <- Contested
    Sources = {pool}
    Amounts = {1, 2}
    StrayAmounts = {2}
    MaxArrivals = 2
    MaxTime = 3
INVARIANTS
    FillableIsFunded
    RowIsolation
    AlwaysRefundable
PROPERTIES
    Backed
    NoSuddenTrust
