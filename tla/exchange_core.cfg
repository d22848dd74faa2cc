SPECIFICATION Spec
CONSTANTS
    Traders = {alice}
    Keepers = {keeper}
    Slp = slp
    FundingPool = pool
    Markets = {btc}
    PosIds = {1, 2}
    NoPosition = NoPosition
    Sizes = {1, 2}
    Leverages = {4}
    Amounts = {3}
    Prices = {8, 12}
    Ticks <- UpTick
    MaxFunding = 1
    MaxHeld = 12
    Stake = 6
    Seed = 6
    MaxLeverage = 4
    MinNotional = 1
    MaxOI = 3
    SkewScale = 10
    MaxPositions = 2
    BPS = 20
    TakerBps = 2
    MakerBps = 1
    RebateBps = 0
    LiquidationBps = 2
    RewardBps = 10
    MaintenanceBps = 10
    PartialThreshold = 100
    PartialBps = 4
    Pausable = FALSE
CHECK_DEADLOCK FALSE
INVARIANTS ExposureIsOpen IndexesAgree LocksAreMargins Conservation NavBacked
PROPERTIES OpenIsCollateralised SettlingIsNeutral
