SPECIFICATION TokenSpec
CONSTANTS
    owner = owner  spender = spender  pool = pool
    Accounts = {owner, spender, pool}
    Contracts = {pool}
    NoMinter = NoMinter  NoCap = NoCap  NoEntry = NoEntry
    Never = Never  NotGiven = NotGiven
    InitialAmounts = {0, 1}
    Caps = {2, NoCap}
    Amounts = {0, 1, 2}
    Grants <- SomeGrants
    Times = {1, 2}
    MaxSupply = 3
    MaxAllowance = 2
    MaxTime = 2
INVARIANTS
    TokenTypeOK
    SupplyIsSumOfBalances
    AllowancesMirrored
    SupplyWithinCap
PROPERTIES
    MintRightOnlyHandedOn
    DebitsAuthorised
    LedgerImplemented
