SPECIFICATION Spec
CONSTANTS
    alice = alice
    desk = desk
    desked = desked
    onceA = onceA
    onceB = onceB
    drawn = drawn
    EmptySig = EmptySig
    JunkSig = JunkSig
    Makers = {alice}
    Signers = {}
    Orders = {drawn, onceA, onceB}
    WordSize = 2
    SignerNonceNS = 8
    MaxUint = 9
    MaxTime = 0
    Amounts = {1, 9}
    Approvals <- None
    NonceLists <- OneList
    WordIndexes = {0}
    Floors = {0, 1, 2}
    Expiries = {}
    PermitNonces = {}
    Deadlines = {}
    MaxPermits = 0
    MaxBatch = 2
    MaxMatch = 2
    Terms <- BookTerms
    SignerId <- DeskId
INVARIANTS
    OnceOnly
PROPERTIES
    KeepsPromise
    DeadStaysDead
