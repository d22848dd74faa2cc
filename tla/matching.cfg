SPECIFICATION Spec
CONSTANTS
    alice = alice
    bob = bob
    Orders = {1, 2, 3}
    Positions = {}
    Book <- SelfBook
    Runs = {r1}
    MaxPairs = 2
    Lookback = 4
    PageLimit = 2
    Retention = 5
    MaxLedgers = 6
    MaxFaults = 1
CHECK_DEADLOCK FALSE
INVARIANTS NothingSkipped BookFollowsChain SettledOnce
PROPERTY CrossedBookClears
