SPECIFICATION ClientSpec
CONSTANTS
    alice = alice
    bob = bob
    p1 = p1
    s1 = s1
    s2 = s2
    Flows = {s1, s2}
    Calls <- AllCalls
    NoCall = NoCall
    Positions = {p1}
    Tabs = {s1}
    Accounts = {alice, bob}
    NoAccount = NoAccount
    Owner <- OneOwner
    Offline = Offline
    Pnls <- Losses
    Word = 4
    LiqWindow = 1
    MaxLedgers = 3
    MaxAnswers = 2
    Forms <- AllForms
    Unit = 2
    Grain = 4
    One = 2
    Navs = {1, 2, 3}
    MaxAsked = 5
    Sweeps = 2
    Axelar = TRUE
    Markets = 0
    MaxCrashes = 2
CHECK_DEADLOCK FALSE
INVARIANTS OpensOnce NoncesAreUsedOnce BracketsAreWhole SessionIsTrue
INVARIANTS HistoryIsTrue MovesWhatWasEntered KnowTheRecorded
PROPERTIES OpenPositionsAppear NeverGoesBack SettlesOnTheLedger
