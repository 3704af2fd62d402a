SPECIFICATION TellSpec
CONSTANTS
    Accounts = {1, 2, 3}
    Contracts = {}
    NoMinter = NoMinter  NoCap = NoCap  NoEntry = NoEntry
    Never = Never  NotGiven = NotGiven
    InitialAmounts = {0}
    Caps = {}
    Amounts = {0}
    Grants <- SomeGrants
    Times = {}
    MaxSupply = 0
    MaxAllowance = 0
    MaxTime = 0
    Lists <- SomeLists
    PageSizes = {3, NotGiven}
    MAX_LIMIT = 2
    DEFAULT_LIMIT = 1
    artist = artist
    Editors = {artist}
    text = text
    Texts = {text}
    Blank = Blank  Nothing = Nothing
    LOGO_SIZE_CAP = 1
INVARIANTS
    ListedOnce
    LogoAsTold
PROPERTY
    ReadingEnds
