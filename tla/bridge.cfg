SPECIFICATION Spec
CONSTANTS
    alice = alice
    dapp = dapp
    nobody = nobody
    Jobs = {k1, k2}
    Deposits = {d1, d2}
    Calls = {d1, d2}
    NoJob = NoJob
    NoDeposit = NoDeposit
    NoPayload = NoPayload
    Idle = Idle
    MaxRetries = 1
    Recipients = {alice, dapp, nobody}
    Accounts = {alice}
    Contracts = {dapp}
    Amounts = {1}
    FeeBps = 1
    BPS = 10
    Precision = 10
    PageSize = 2
    MaxExcuses = 1
CHECK_DEADLOCK FALSE
INVARIANT CreditsNeedAnExcuse
PROPERTY EveryDepositArrives
