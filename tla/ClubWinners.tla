----------------------------- MODULE ClubWinners -----------------------------
(***************************************************************************)
(* The ranking of clubs that starts a round of reward distribution         *)
(* (get_winning_clubs_details of the clubstaking contract): one pass over  *)
(* the clubs in the order of their storage keys, keeping the largest       *)
(* increase of stake since the previous ranking and the list of winners.   *)
(***************************************************************************)
EXTENDS Integers, Sequences, SequencesExt

CONSTANT MAX_UFURY_COUNT   \* the whole supply, 420 million FURY in the code

ASSUME SupplyAssumption == MAX_UFURY_COUNT \in Nat \ {0}

(***************************************************************************)
(* What the pass carries from club to club: the largest increase so far,   *)
(* the total stake of the club that set it, the winners, and the stake     *)
(* over all clubs.  total_stake_in_winning_club of the code is maxTotal:   *)
(* the two are assigned together.                                          *)
(***************************************************************************)
NoneRanked ==
    [maxIncrease |-> -MAX_UFURY_COUNT, maxTotal |-> 0, winners |-> << >>,
     clubs |-> 0, stake |-> 0]

\* Whether a club joins the winners of its increase.
JoinsIfLarger(acc, increase, total) ==   \* mutant: an equal stake does not
    increase = acc.maxIncrease /\ total > acc.maxTotal
Joins(acc, increase, total) ==
    increase = acc.maxIncrease /\ total >= acc.maxTotal

(***************************************************************************)
(* One club.  A larger increase replaces the winners.  On an equal         *)
(* increase the code stores the club's stake in max_total_stake_value      *)
(* before it compares the two, so that the branch which would drop the     *)
(* winners of smaller stake is never taken and the club is only appended.  *)
(***************************************************************************)
RankClub(acc, club, total, previous) ==
    LET increase == total - previous
        counted  == [acc EXCEPT !.clubs = @ + 1, !.stake = @ + total]
    IN  IF increase > acc.maxIncrease
        THEN [counted EXCEPT !.maxIncrease = increase, !.maxTotal = total,
                             !.winners = <<club>>]
        ELSE IF Joins(acc, increase, total)
        THEN [counted EXCEPT !.maxTotal = total,
                             !.winners = Append(@, club)]
        ELSE counted

(***************************************************************************)
(* The ranking of the clubs of the sequence `order`, from their stake now  *)
(* and their stake in CLUB_STAKING_SNAPSHOT.                               *)
(***************************************************************************)
RankedClubs(order, total, snapshot) ==
    FoldLeft(LAMBDA acc, club : RankClub(acc, club, total[club], snapshot[club]),
             NoneRanked, order)
WinningClubs(order, total, snapshot) ==
    LET ranked == RankedClubs(order, total, snapshot)
    IN  [clubs |-> ranked.clubs, stake |-> ranked.stake,
         winnerStake |-> ranked.maxTotal, winners |-> ranked.winners]


==============================================================================
