----------------------------- MODULE ClubRanking -----------------------------
(***************************************************************************)
(* The ranking of ClubWinners against what it should find, in every        *)
(* state of clubs whose stakes move freely and are ranked at any time.     *)
(***************************************************************************)
EXTENDS ClubWinners

CONSTANTS
    Order,      \* the clubs, in the order of their storage keys
    MaxTotal    \* bounds the stake of a club

Clubs == ToSet(Order)

ASSUME RankingAssumption ==
    /\ Order \in Seq(Clubs) /\ IsInjective(Order)
    /\ MaxTotal \in 0..MAX_UFURY_COUNT

VARIABLES total, snapshot

RankInit ==
    /\ total = [c \in Clubs |-> 0]
    /\ snapshot = [c \in Clubs |-> 0]

Restake(c, amount) ==
    /\ total' = [total EXCEPT ![c] = amount]
    /\ UNCHANGED snapshot

Rank == snapshot' = total /\ UNCHANGED total

RankNext == Rank \/ \E c \in Clubs, amount \in 0..MaxTotal : Restake(c, amount)

RankSpec == RankInit /\ [][RankNext]_<<total, snapshot>>

-----------------------------------------------------------------------------
Ranked == WinningClubs(Order, total, snapshot)

Increase(c) == total[c] - snapshot[c]
Fastest == {c \in Clubs : \A d \in Clubs : Increase(d) <= Increase(c)}
Leaders == {c \in Fastest : \A d \in Fastest : total[d] <= total[c]}

\* Only clubs whose stake grew most win, each of them once, and wherever they
\* come in the order of the keys those with the largest stake do.  Rewards are
\* divided by that stake and by the stake of every club.  Nothing is said of
\* smaller clubs whose stake grew as much: they win where they come before a
\* larger one, although a comment says that winners have the same stake.
WinnersGrewMost ==
    /\ Leaders \subseteq ToSet(Ranked.winners)
    /\ ToSet(Ranked.winners) \subseteq Fastest
    /\ Len(Ranked.winners) = Cardinality(ToSet(Ranked.winners))
    /\ \A c \in Leaders : Ranked.winnerStake = total[c]
    /\ Ranked.clubs = Len(Order)
    /\ Ranked.stake = SumFunction(total)

===============================================================================
