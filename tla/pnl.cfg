SPECIFICATION PositionsSpec
CONSTANTS
    alice = alice
    bob = bob
    p1 = p1
    Positions = {p1}
    MaxLedgers = 3
    Tabs = {t1}
    Flows = {t1}
    Calls = {p1}
    NoCall = NoCall
    Accounts = {alice, bob}
    NoAccount = NoAccount
    Owner <- OneOwner
    Offline = Offline
    Pnls <- Losses
    Word = 4
    LiqWindow = 1
    MaxAnswers = 2
CHECK_DEADLOCK FALSE
INVARIANT HistoryPnlIsTrue
