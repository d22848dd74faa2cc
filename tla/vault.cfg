SPECIFICATION Spec
CONSTANTS
    usdc = usdc
    xlm = xlm
    Treasury = protocol
    Insurance = protocol
    SlpPool = protocol
    TokenOrder <- TwoTokens
    Traders = {alice}
    PosIds = {p1}
    SubIds = {1, 2}
    Callers = {perp}
    Unit = 2
    Natives = {1}
    Amounts = {1, 2}
    Losses <- LossOrGain
    Prices = {2, 3}
    PRECISION = 2
    Haircut <- NoHaircut
    BPS = 10
    Caps = {6}
    Wallet = 1
    MaxBucket = 1
    MaxEscrow = 1
    MarginTransfers = TRUE
CHECK_DEADLOCK FALSE
INVARIANTS TypeOK Conservation TotalsBoundedByBuckets
PROPERTIES OnlySeizuresOpenGaps NoDoublePledge WithdrawKeepsEquity
