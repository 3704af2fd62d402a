SPECIFICATION FairBoundedSpec
CONSTANTS
    c1 = c1  c2 = c2  u1 = u1  u2 = u2  u3 = u3
    NoUser = NoUser
    Users = {u1, u2}
    ClubOrder <- TwoClubs
    ClubPrice = 0
    BondingDuration = 0
    ReleaseLock = 1
    MaxBonds = 1
    Periodicity = 2
    FirstReward = 1
    UserFury = 1
    AdminFury = 50
    MAX_UFURY_COUNT = 1000
    StakeAmounts = {1}
    WithdrawAmounts = {1}
    RewardAmounts = {50}
    AutoChoices = {TRUE, FALSE}
    AssignLists = {}
    StakerLists = {}
    MaxGiven = 100
    MaxTotal = 1000
    MaxTime = 3
    MaxSent = 2
PROPERTY ClaimLeavesNothingPending
CHECK_DEADLOCK FALSE
