SPECIFICATION Spec
CONSTANTS
    Shapes <- SmallOrders
    Orders <- SmallTerms
    Sizes = {1, 2, 3, 4, 5}
    Days <- Blocks
    Gifts = {2}
    Renewals <- Afresh
    Quota = 2
    Maker = Maker
    Filler = Filler
    Dapp = Dapp
    Settlement = Settlement
    Module = Module
    Treasury = Treasury
    None = None
    A = A
    B = B
    P = P
    Users = {Maker, Filler}
    Spenders = {Settlement, Module, Dapp}
    Tokens = {A, B}
    Positions = {P}
    Nonces = {1}
    Unlimited = 40
INVARIANTS
    MakerIsPaid
    PoolIsNobodys
    CollateralKept
    GrantedOnce
PROPERTIES
    Implements
    RevokeHolds
CHECK_DEADLOCK FALSE
