SPECIFICATION ExchangeSpec
CONSTANTS
    owner = owner  trader = trader  bonding = bonding
    Accounts = {owner, trader}
    SwapConfigs <- Configs
    FirstSwapConfig <- Bonded
    FeeRate = 500
    SwapAmounts = {1, 2}
    Fees = {1}
    MaxReserve1 = 3
    MaxReserve2 = 2
    MaxSurplus = 1
    Bondings = {bonding}
    BondingOwner = owner
    SomeTerms <- AllTerms
    FirstTerms <- ShortTerms
    Day = 1
    FundAmounts = {2}
    MaxBonds = 2
    MaxFund = 2
    MaxTime = 1
INVARIANTS
    ExchangeTypeOK
    SharesHaveReserve
    PromisesAreBonds
    DayWithinAccrual
PROPERTIES
    HoldingsFollowReserves
    ShareValueNeverFalls
