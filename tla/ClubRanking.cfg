SPECIFICATION RankSpec
CONSTANTS
    c1 = c1  c2 = c2  c3 = c3
    Order <- ThreeClubs
    MaxTotal = 3
    MAX_UFURY_COUNT = 1000
INVARIANT WinnersGrewMost
