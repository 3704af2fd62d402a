SPECIFICATION SeasonSpec
CONSTANTS
    g1 = g1  g2 = g2  a = a   pair = pair  solo = solo
    Gamers = {g1, g2}
    TeamIds = {a}
    PoolTypes = {pair}
    Params <- SomeParams
    PlatformFee = 0
    TransactionFee = 0
    SwapFee = 0
    Rates = {1}
    WinnerLists <- SomeWinnerLists
    SwapAmounts = {1}
    RakeAmounts = {0}
    SweepAmounts = {}
    MaxPools = 2
    MaxFunds = 1
    MaxTotal = 1
INVARIANTS
    NeverBothPaid
CHECK_DEADLOCK FALSE
