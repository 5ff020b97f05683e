SPECIFICATION Spec
CONSTANTS
    alice = alice
    desk = desk
    desked = desked
    onceA = onceA
    onceB = onceB
    drawn = drawn
    EmptySig = EmptySig
    JunkSig = JunkSig
    Makers = {alice}
    Signers = {desk}
    Orders = {desked}
    WordSize = 2
    SignerNonceNS = 8
    MaxUint = 9
    MaxTime = 2
    Amounts = {1, 9}
    Approvals <- EachOrder
    NonceLists <- None
    WordIndexes = {}
    Floors = {}
    Expiries = {0, 1, 2}
    PermitNonces = {1, 2}
    Deadlines = {2}
    MaxPermits = 2
    MaxBatch = 1
    MaxMatch = 0
    Terms <- BookTerms
    SignerId <- DeskId
INVARIANTS
    PartialFillAuthorised
    LedgerExact
PROPERTIES
    WindDownIsFinal
