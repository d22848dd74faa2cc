SPECIFICATION Spec
CONSTANTS
    alice = alice
    bob = bob
    Holders <- Lps
    Admin = alice
    Engines = {perp}
    Unit = 2
    Natives = {1}
    ShareAmounts = {1, 2}
    Amounts = {1}
    Approvals = {1}
    Cooldowns = {1}
    SkewCaps = {5}
    DepositCaps = {5}
    OpenInterests = {0, 1}
    BPS = 10
    TraderMoney = 0
    MaxMoney = 3
    MaxShares = 4
    MaxTime = 1
    Migrating = TRUE
INVARIANTS SharesAddUp
PROPERTIES LpsDoNotDilute SkewCapHolds ImplementsPool
