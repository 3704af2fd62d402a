SPECIFICATION SeasonSpec
CONSTANTS
    g1 = g1  g2 = g2  a = a   pair = pair  solo = solo
    Gamers = {g1, g2}
    TeamIds = {a}
    PoolTypes = {pair, solo}
    Params <- SomeParams
    PlatformFee = 5000
    TransactionFee = 0
    SwapFee = 340
    Rates = {1}
    WinnerLists <- SomeWinnerLists
    SwapAmounts = {1}
    RakeAmounts = {2}
    SweepAmounts = {1}
    MaxPools = 2
    MaxFunds = 1
    MaxTotal = 7
INVARIANTS
    GameTypeOK
    TeamsCounted
    RefundsStayDue
    RefundXorReward
    ToldIsDue
    RefundedOnce
PROPERTIES
    TeamsOnlyGrow
    FinishedPoolsSettled
    ClaimsSettle
