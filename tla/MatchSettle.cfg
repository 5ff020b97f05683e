SPECIFICATION Spec
CONSTANTS
    tA = tA
    tB = tB
    alice = alice
    bob = bob
    third = third
    self = self
    netted = netted
    ladder = ladder
    group = group
    cycle = cycle
    Tokens = {tA, tB}
    Makers = {alice, bob}
    Payees = {alice, bob, third, self}
    Settlement = self
    Plans <- SmallPlans
    Granted <- Finite
    Infinite = 99
    Donated <- SomeDonated
    Purse <- SmallPurse
    FeeTokens = {tA}
CHECK_DEADLOCK FALSE
INVARIANTS
    MakersWhole
    MatcherEarnsSpread
    AtomicGroups
    OnlyTheGapIsDrawn
PROPERTIES
    PresendKeepsObligations
