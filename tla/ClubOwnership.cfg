SPECIFICATION Spec
CONSTANTS
    c1 = c1  c2 = c2  u1 = u1  u2 = u2  u3 = u3
    NoUser = NoUser
    Users = {u1, u2, u3}
    ClubOrder <- TwoClubs
    ClubPrice = 1
    BondingDuration = 1
    ReleaseLock = 1
    MaxBonds = 1
    Periodicity = 2
    FirstReward = 0
    UserFury = 1
    AdminFury = 0
    MAX_UFURY_COUNT = 1000
    StakeAmounts = {}
    WithdrawAmounts = {}
    RewardAmounts = {}
    AssignLists = {}
    StakerLists = {}
    MaxGiven = 100
    MaxTotal = 1000
    MaxTime = 3
    AutoChoices = {FALSE}
INVARIANT OneClubPerOwner
PROPERTY MarketImplemented
SYMMETRY UserSymmetry
