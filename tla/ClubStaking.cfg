SPECIFICATION Spec
CONSTANTS
    c1 = c1  c2 = c2  u1 = u1  u2 = u2  u3 = u3
    NoUser = NoUser
    Users = {u1, u2}
    ClubOrder <- OneClub
    ClubPrice = 1000
    BondingDuration = 0
    ReleaseLock = 0
    MaxBonds = 2
    Periodicity = 2
    FirstReward = 2
    UserFury = 0
    AdminFury = 5
    MAX_UFURY_COUNT = 1000
    StakeAmounts = {4}
    WithdrawAmounts = {1, 2}
    RewardAmounts = {3}
    AutoChoices = {FALSE}
    AssignLists <- SomeAssignLists
    StakerLists <- SomeStakerLists
    MaxGiven = 1
    MaxTotal = 4
    MaxTime = 3
INVARIANTS
    TypeOK
    BondsWithinLimit
    NextRewardWithinOnePeriod
PROPERTY PayoutsAreMatured
