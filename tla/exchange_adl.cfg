SPECIFICATION Spec
CONSTANTS
    Traders = {alice, bob}
    Keepers = {bob}
    Slp = slp
    FundingPool = pool
    Markets = {btc}
    PosIds = {1, 2}
    NoPosition = NoPosition
    Sizes = {2}
    Leverages = {4}
    Amounts = {}
    Prices = {4, 8, 12}
    Ticks <- NoTicks
    MaxFunding = 1
    MaxHeld = 34
    Stake = 12
    Seed = 10
    MaxLeverage = 4
    MinNotional = 1
    MaxOI = 2
    SkewScale = 10
    MaxPositions = 2
    BPS = 20
    TakerBps = 2
    MakerBps = 1
    RebateBps = 2
    LiquidationBps = 4
    RewardBps = 10
    MaintenanceBps = 10
    PartialThreshold = 10
    PartialBps = 4
    Pausable = TRUE
CHECK_DEADLOCK FALSE
PROPERTIES NobodyElsePays OnlyDeleveragingStrands ImplementsPool
