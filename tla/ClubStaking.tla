----------------------------- MODULE ClubStaking -----------------------------
(***************************************************************************)
(* The clubstaking contract: ownership of clubs, stakes on clubs, the      *)
(* bonds that withdrawn stakes become, and the pool of rewards that the    *)
(* administrator distributes in batches.  A message is one atomic step: a  *)
(* message that returns an error, or whose token transfer fails, changes   *)
(* nothing and is no step here.                                            *)
(*                                                                         *)
(* Abstracted: every caller attaches the platform fee its message asks     *)
(* for (the fee goes to a wallet outside the system); callers have given   *)
(* the contract the allowance its TransferFrom messages need.              *)
(***************************************************************************)
EXTENDS ClubWinners

CONSTANTS
    ClubOrder,       \* the clubs, in the order of their storage keys
    Users,           \* wallets that own, stake and claim
    NoUser,          \* the empty address, String::default()
    ClubPrice,       \* config.club_price
    BondingDuration, \* config.bonding_duration, in seconds
    ReleaseLock,     \* config.owner_release_locking_duration, in seconds
    MaxBonds,        \* config.max_bonding_limit_per_user
    Periodicity,     \* config.reward_periodicity, in seconds
    FirstReward,     \* club_reward_next_timestamp of the instantiation
    UserFury,        \* FURY in each wallet at the start
    AdminFury,       \* FURY of the administrator at the start
    \* Bounds: the inputs that are enumerated, the last second, the total given
    \* after which no more batches are sent, and the total of a club above which
    \* nobody stakes.
    StakeAmounts, WithdrawAmounts, RewardAmounts, AutoChoices, AssignLists,
    StakerLists, MaxTime, MaxGiven, MaxTotal

Clubs == ToSet(ClubOrder)

ASSUME ConfigAssumption ==
    /\ Clubs # {} /\ ClubOrder \in Seq(Clubs) /\ IsInjective(ClubOrder)
    /\ IsFiniteSet(Users) /\ NoUser \notin Users
    /\ {"admin", "contract", "collector"} \cap Users = {}
    /\ {ClubPrice, BondingDuration, ReleaseLock, MaxBonds, Periodicity,
        FirstReward, UserFury, AdminFury, MaxTime, MaxGiven, MaxTotal} \subseteq Nat
    /\ AutoChoices \subseteq BOOLEAN
    /\ StakeAmounts \cup WithdrawAmounts \cup RewardAmounts \subseteq Nat
    /\ AssignLists \subseteq
         Seq([staker : Users, amount : Nat, auto : BOOLEAN])
    /\ StakerLists \subseteq Seq(Users)

VARIABLES
    now,        \* block time, in whole seconds
    ownership,  \* CLUB_OWNERSHIP_DETAILS
    prevOwner,  \* CLUB_PREVIOUS_OWNER_DETAILS: reward of a former owner
    stakes,     \* CLUB_STAKING_DETAILS: the Vec of a club and a staker
    bonds,      \* CLUB_BONDING_DETAILS: the Vec of a club and a staker
    reward,     \* REWARD
    given,      \* REWARD_GIVEN_IN_CURRENT_TIMESTAMP
    nextReward, \* CLUB_REWARD_NEXT_TIMESTAMP
    snapshot,   \* CLUB_STAKING_SNAPSHOT
    winning,    \* WINNING_CLUB_DETAILS_SNAPSHOT
    fury        \* balances of the FURY token, a contract of its own

clubVars   == <<ownership, prevOwner>>
stakeVars  == <<stakes, bonds>>
rewardVars == <<reward, given, nextReward, snapshot, winning>>
vars == <<now, clubVars, stakeVars, rewardVars, fury>>

-----------------------------------------------------------------------------
(***************************************************************************)
(* Data.  A club that was never sold has no entry: its owner is NoUser.    *)
(* The Vec of stakes of one club and staker has at most one element, as    *)
(* save_staking_details pushes only when it finds none.  The duration of a *)
(* bond and the locking period of a club are always the configured ones.   *)
(***************************************************************************)
Ownership == [owner : Users \cup {NoUser}, start : Nat, released : BOOLEAN,
              price : Nat, reward : Nat, total : Nat]
Stake == [start : Nat, staked : Nat, reward : Nat, auto : BOOLEAN]
StakeVec == {vec \in Seq(Stake) : Len(vec) <= 1}
Bond == [start : Nat, amount : Nat]
WinningClubDetails == [clubs : Nat, stake : Nat, winnerStake : Nat,
                       winners : Seq(Clubs)]
Wallets == Users \cup {"admin", "contract", "collector"}

\* The messages that claim rewards for owning a club, or having owned one, are no
\* steps: they refuse a reward of zero, and no other is ever recorded.
CLUB_BUYING_REWARD_AMOUNT == 0

Unsold == [owner |-> NoUser, start |-> 0, released |-> FALSE,
           price |-> 0, reward |-> 0, total |-> 0]
NoRanking == [clubs |-> 0, stake |-> 0, winnerStake |-> 0, winners |-> << >>]

Init ==
    /\ now = 1
    /\ ownership = [c \in Clubs |-> Unsold]
    /\ prevOwner = [u \in Users |-> 0]
    /\ stakes = [c \in Clubs |-> [u \in Users |-> << >>]]
    /\ bonds = [c \in Clubs |-> [u \in Users |-> << >>]]
    /\ reward = 0
    /\ given = 0
    /\ nextReward = IF FirstReward = 0 THEN now - 1 ELSE FirstReward
    /\ snapshot = [c \in Clubs |-> 0]
    /\ winning = NoRanking
    /\ fury = [w \in Wallets |-> CASE w \in Users -> UserFury
                                   [] w = "admin" -> AdminFury
                                   [] OTHER       -> 0]

Listed(c) == ownership[c].owner # NoUser
HasStake(c, u) == stakes[c][u] # << >>
Staked(c, u) == IF HasStake(c, u) THEN stakes[c][u][1].staked ELSE 0
PendingReward(c, u) == IF HasStake(c, u) THEN stakes[c][u][1].reward ELSE 0

\* A transfer of the FURY token, which fails without the funds.
PayOnCredit(from, to, amount) ==   \* mutant: the balance is not checked
    fury' = [fury EXCEPT ![from] = @ - amount, ![to] = @ + amount]
Pay(from, to, amount) ==
    /\ fury[from] >= amount
    /\ fury' = [fury EXCEPT ![from] = @ - amount, ![to] = @ + amount]

\* What the contract pays its stakers; the FURY token refuses a transfer of
\* nothing.
PayOut(u, amount) == amount > 0 /\ Pay("contract", u, amount)

-----------------------------------------------------------------------------
(***************************************************************************)
(* Ownership.                                                              *)
(***************************************************************************)

OwnsNoUnreleasedClub(u) ==   \* mutant: the scan skips released clubs
    \A c \in Clubs : ownership[c].owner # u \/ ownership[c].released
OwnsNoClub(u) == \A c \in Clubs : ownership[c].owner # u

\* An owned club can change hands after its owner released it, while the
\* release lasts, and if the request names the owner.
OnSaleForEver(c, seller) ==   \* mutant: a release does not lapse
    Listed(c) => ownership[c].released /\ ownership[c].owner = seller
OnSale(c, seller) ==
    Listed(c) => /\ ownership[c].released
                 /\ now <= ownership[c].start + ReleaseLock
                 /\ ownership[c].owner = seller

\* save_staking_details with INCREASE_STAKE.  Switching auto_stake on adds
\* the pending reward to the stake.
Increased(vec, amount, auto) ==
    IF vec = << >>
    THEN <<[start |-> now, staked |-> amount, reward |-> 0, auto |-> auto]>>
    ELSE LET s == vec[1]
             folded == IF auto THEN s.reward ELSE 0
         IN  <<[s EXCEPT !.staked = @ + amount + folded,
                         !.reward = @ - folded, !.auto = auto]>>

\* The part buy_a_club and assign_a_club share.
TakeOver(u, c, seller, auto, price) ==
    /\ OwnsNoClub(u)
    /\ OnSale(c, seller)
    /\ ownership' = [ownership EXCEPT ![c] =
           [owner |-> u, start |-> now, released |-> FALSE, price |-> price,
            reward |-> CLUB_BUYING_REWARD_AMOUNT, total |-> @.total]]
    /\ prevOwner' = IF ownership[c].reward = 0 THEN prevOwner
                    ELSE [prevOwner EXCEPT ![seller] = @ + ownership[c].reward]
    /\ stakes' = IF HasStake(c, u) THEN stakes
                 ELSE [stakes EXCEPT ![c][u] = Increased(@, 0, auto)]
    /\ UNCHANGED <<now, bonds, rewardVars>>

BuyAClub(u, c, seller, auto) ==
    /\ TakeOver(u, c, seller, auto, ClubPrice)
    /\ Pay(u, "collector", ClubPrice)

\* By the administrator, without a price.
AssignAClub(u, c, seller, auto) ==
    /\ TakeOver(u, c, seller, auto, 0)
    /\ UNCHANGED fury

ReleaseClub(u, c) ==
    /\ ownership[c].owner = u
    /\ ownership' = [ownership EXCEPT ![c].start = now, ![c].released = TRUE]
    /\ UNCHANGED <<now, prevOwner, stakeVars, rewardVars, fury>>

-----------------------------------------------------------------------------
(***************************************************************************)
(* Stakes.                                                                 *)
(***************************************************************************)

\* save_staking_details keeps the total of the club.
WithTotal(c, total) == [ownership EXCEPT ![c].total = total]

StakeOnAnyClub(u, c, amount, auto) ==   \* mutant: the club may be unsold
    /\ stakes' = [stakes EXCEPT ![c][u] = Increased(@, amount, auto)]
    /\ ownership' = WithTotal(c, ownership[c].total + amount)
    /\ Pay(u, "contract", amount)
    /\ UNCHANGED <<now, prevOwner, bonds, rewardVars>>
StakeOnAClub(u, c, amount, auto) ==
    /\ Listed(c)
    /\ stakes' = [stakes EXCEPT ![c][u] = Increased(@, amount, auto)]
    /\ ownership' = WithTotal(c, ownership[c].total + amount)
    /\ Pay(u, "contract", amount)
    /\ UNCHANGED <<now, prevOwner, bonds, rewardVars>>

\* By the administrator, who pays for all the stakes of the list.
StakeAssignment == [staker : Users, amount : Nat, auto : BOOLEAN]
AssignOne(row, e) == [row EXCEPT ![e.staker] = Increased(@, e.amount, e.auto)]
AssignStakesToAClub(list, c) ==
    LET amount == SumFunction([i \in DOMAIN list |-> list[i].amount])
    IN  /\ Listed(c)
        /\ stakes' = [stakes EXCEPT ![c] = FoldLeft(AssignOne, @, list)]
        /\ ownership' = WithTotal(c, ownership[c].total + amount)
        /\ Pay("admin", "contract", amount)
        /\ UNCHANGED <<now, prevOwner, bonds, rewardVars>>

RoomForBondAtLimit(c, u) == Len(bonds[c][u]) <= MaxBonds   \* mutant: off by one
RoomForBond(c, u) == Len(bonds[c][u]) < MaxBonds

\* What every withdrawal requires, also one that only takes from bonds.
Withdrawable(u, c) == Listed(c) /\ HasStake(c, u)

\* save_bonding_details.
Bonded(vec, amount) == Append(vec, [start |-> now, amount |-> amount])

\* Withdrawal without immediate_withdrawal: the stake becomes a bond.  The
\* subtraction from the total of the club panics when the total is smaller.
BondStake(u, c, amount) ==
    /\ Withdrawable(u, c)
    /\ stakes[c][u][1].staked >= amount
    /\ RoomForBond(c, u)
    /\ ownership[c].total >= amount
    /\ stakes' = [stakes EXCEPT ![c][u][1].staked = @ - amount]
    /\ ownership' = WithTotal(c, ownership[c].total - amount)
    /\ bonds' = [bonds EXCEPT ![c][u] = Bonded(@, amount)]
    /\ UNCHANGED <<now, prevOwner, rewardVars, fury>>

MatureAtLimit(bond) == bond.start + BondingDuration <= now   \* mutant: off by one
Mature(bond) == bond.start + BondingDuration < now

\* The bonds with the youngest first; bonds of one second keep their order.
NotAfter(vec, i, j) ==
    vec[i].start > vec[j].start \/ (vec[i].start = vec[j].start /\ i <= j)
Place(vec, i) == Cardinality({j \in DOMAIN vec : NotAfter(vec, j, i)})
YoungestFirst(vec) ==
    [p \in DOMAIN vec |-> vec[CHOOSE i \in DOMAIN vec : Place(vec, i) = p]]

(***************************************************************************)
(* Payment of `amount` out of the mature bonds: what is left to pay and    *)
(* the bonds that stay.  A bond that covers the rest and more is split; a  *)
(* bond met when nothing is left to pay stays.                             *)
(***************************************************************************)
VisitBond(acc, bond) ==
    IF ~Mature(bond) \/ acc.left = 0
    THEN [acc EXCEPT !.kept = Append(@, bond)]
    ELSE IF bond.amount > acc.left
    THEN [left |-> 0,
          kept |-> Append(acc.kept, [bond EXCEPT !.amount = @ - acc.left])]
    ELSE [acc EXCEPT !.left = @ - bond.amount]
PayFromBonds(vec, amount) ==
    FoldLeft(VisitBond, [left |-> amount, kept |-> << >>], YoungestFirst(vec))

\* Withdrawal with immediate_withdrawal: mature bonds must cover all of it.
WithdrawMatured(u, c, amount) ==
    LET payment == PayFromBonds(bonds[c][u], amount)
    IN  /\ Withdrawable(u, c)
        /\ payment.left = 0
        /\ bonds' = [bonds EXCEPT ![c][u] = payment.kept]
        /\ PayOut(u, amount)
        /\ UNCHANGED <<now, clubVars, stakes, rewardVars>>

(***************************************************************************)
(* The pending reward is paid.  The contract computes stakes in which it   *)
(* is reset but saves the ones it had loaded: the reward stays pending.    *)
(***************************************************************************)
ClaimStakerRewards(u, c) ==
    /\ HasStake(c, u)
    /\ PayOut(u, PendingReward(c, u))
    /\ UNCHANGED <<now, clubVars, stakeVars, rewardVars>>

\* What the queries tell of the stakes and bonds of a list of wallets: the
\* records of the clubs that were ever sold, and no others.
AddListed(found, c) == IF Listed(c) THEN Append(found, c) ELSE found
ListedClubs == FoldLeft(AddListed, << >>, ClubOrder)
AllRecords(records, list) ==
    LET OfClub(c) == FlattenSeq([i \in DOMAIN list |-> records[c][list[i]]])
    IN  FlattenSeq([k \in DOMAIN ListedClubs |-> OfClub(ListedClubs[k])])
AllStakes(list) == AllRecords(stakes, list)
AllBonds(list) == AllRecords(bonds, list)

-----------------------------------------------------------------------------
(***************************************************************************)
(* Rewards.                                                                *)
(***************************************************************************)

\* By the administrator, whose transfer of the funds to the contract comes
\* before the message.
IncreaseRewardAmount(amount) ==
    /\ Pay("admin", "contract", amount)
    /\ reward' = reward + amount
    /\ given' = 0
    /\ UNCHANGED <<now, clubVars, stakeVars, nextReward, snapshot, winning>>

DivOrZero(a, b) == IF b = 0 THEN 0 ELSE a \div b

Won(c, ranking) == c \in ToSet(ranking.winners)
LosingClubs(ranking) == ranking.clubs - Len(ranking.winners)

\* 1% to the owners of winning clubs, or 3% when every club won; 2% to the
\* owners of the others.
OwnerShare(c, ranking) ==
    LET percent == IF ~Won(c, ranking) THEN 2
                   ELSE IF LosingClubs(ranking) > 0 THEN 1 ELSE 3
        sharers == IF Won(c, ranking) THEN Len(ranking.winners)
                   ELSE LosingClubs(ranking)
    IN  DivOrZero((reward * percent) \div 100, sharers)

WinnersRewardUnshared(ranking) == (reward * 19) \div 100   \* mutant: to each winner
WinnersReward(ranking) == DivOrZero((reward * 19) \div 100, Len(ranking.winners))

\* 78% over all stakes, 19% over the stakes of winning clubs.
RewardFor(c, u, staked, ranking) ==
    LET forAll     == DivOrZero(((reward * 78) \div 100) * staked, ranking.stake)
        forWinners == IF Won(c, ranking)
                      THEN DivOrZero(WinnersReward(ranking) * staked,
                                     ranking.winnerStake)
                      ELSE 0
        forOwner   == IF u = ownership[c].owner THEN OwnerShare(c, ranking) ELSE 0
    IN  forAll + forWinners + forOwner

\* Once rewarded, a stake starts anew with the next period.
NextStartLater == nextReward + Periodicity   \* mutant: even on the second it is due
NextStart == IF nextReward < now THEN nextReward + Periodicity ELSE nextReward

\* A stake that received `gain`: staked with all that is pending, or pending.
Credited(s, gain) ==
    LET started == [s EXCEPT !.start = NextStart]
    IN  IF s.auto
        THEN [started EXCEPT !.staked = @ + gain + s.reward, !.reward = 0]
        ELSE [started EXCEPT !.reward = @ + gain]

AddedToTotalAlways(s, gain) == gain   \* mutant: pending rewards count as staked
AddedToTotal(s, gain) == IF s.auto THEN gain ELSE 0

(***************************************************************************)
(* One batch of one club: the Vecs of the stakers of the list, one after   *)
(* the other, what they were given and how much of it was staked.  A stake *)
(* that starts later than now is left out of the Vec that is saved.        *)
(***************************************************************************)
CreditStaker(acc, u, c, ranking) ==
    IF acc.row[u] = << >> THEN acc
    ELSE LET s == acc.row[u][1]
             gain == RewardFor(c, u, s.staked, ranking)
         IN  IF s.start > now
             THEN [acc EXCEPT !.row[u] = << >>]
             ELSE [row    |-> [acc.row EXCEPT ![u] = <<Credited(s, gain)>>],
                   given  |-> acc.given + gain,
                   staked |-> acc.staked + AddedToTotal(s, gain)]
DistributeBatch(list, c, ranking) ==
    FoldLeft(LAMBDA acc, u : CreditStaker(acc, u, c, ranking),
             [row |-> stakes[c], given |-> 0, staked |-> 0], list)

Ranking ==
    WinningClubs(ListedClubs, [c \in Clubs |-> ownership[c].total], snapshot)

\* The first batch ranks the clubs, for all the batches of its round.
RankingOfEveryBatch(first) == Ranking   \* mutant: each batch ranks anew
RankingOf(first) == IF first THEN Ranking ELSE winning

\* The last batch of a round moves the clock, and takes what was given since
\* the pool was last funded from the pool.
NextRewardTimeAlwaysLater(last) ==   \* mutant: even on the second it is due
    IF last THEN nextReward + Periodicity ELSE nextReward
NextRewardTimeEveryBatch(last) ==   \* mutant: not only the last batch
    IF nextReward < now THEN nextReward + Periodicity ELSE nextReward
NextRewardTime(last) ==
    IF last /\ nextReward < now THEN nextReward + Periodicity ELSE nextReward

RewardLeftUntouched(last, allGiven) == reward   \* mutant: the pool stays
RewardLeft(last, allGiven) ==
    IF ~last THEN reward ELSE IF reward > allGiven THEN reward - allGiven ELSE 0

(***************************************************************************)
(* CalculateAndDistributeRewards, by the administrator.  With an empty     *)
(* pool only the clock moves.                                              *)
(***************************************************************************)
CalculateAndDistributeRewards(list, c, first, last) ==
    LET ranking  == RankingOf(first)
        batch    == DistributeBatch(list, c, ranking)
        allGiven == given + batch.given
    IN  /\ now >= nextReward
        /\ nextReward' = NextRewardTime(last)
        /\ \/ /\ reward = 0
              /\ UNCHANGED <<ownership, stakes, reward, given, snapshot, winning>>
           \/ /\ reward > 0
              /\ Listed(c)
              /\ Won(c, ranking) \/ LosingClubs(ranking) > 0
              /\ winning' = ranking
              /\ snapshot' = [d \in Clubs |-> IF first /\ Listed(d)
                                              THEN ownership[d].total
                                              ELSE snapshot[d]]
              /\ stakes' = [stakes EXCEPT ![c] = batch.row]
              /\ ownership' = [ownership EXCEPT ![c].total = @ + batch.staked]
              /\ given' = allGiven
              /\ reward' = RewardLeft(last, allGiven)
        /\ UNCHANGED <<now, prevOwner, bonds, fury>>

-----------------------------------------------------------------------------
Tick ==
    /\ now < MaxTime
    /\ now' = now + 1
    /\ UNCHANGED <<clubVars, stakeVars, rewardVars, fury>>

\* What owners and stakers send, apart from claims.
UserNext ==
    \E u \in Users, c \in Clubs :
       \/ \E seller \in Users \cup {NoUser}, auto \in AutoChoices :
             BuyAClub(u, c, seller, auto)
       \/ ReleaseClub(u, c)
       \/ \E amount \in StakeAmounts, auto \in AutoChoices :
             /\ ownership[c].total + amount <= MaxTotal
             /\ StakeOnAClub(u, c, amount, auto)
       \/ \E amount \in WithdrawAmounts :
             BondStake(u, c, amount) \/ WithdrawMatured(u, c, amount)

ClaimNext == \E u \in Users, c \in Clubs : ClaimStakerRewards(u, c)

\* What the administrator sends, apart from distributing rewards.
AdminNext ==
    \/ \E u \in Users, c \in Clubs, seller \in Users \cup {NoUser},
          auto \in AutoChoices : AssignAClub(u, c, seller, auto)
    \/ \E c \in Clubs, list \in AssignLists : AssignStakesToAClub(list, c)
    \/ \E amount \in RewardAmounts : IncreaseRewardAmount(amount)

\* Batches in any order and number.
BatchNext ==
    /\ given < MaxGiven
    /\ \E c \in Clubs, list \in StakerLists, first, last \in BOOLEAN :
          CalculateAndDistributeRewards(list, c, first, last)

Next == UserNext \/ ClaimNext \/ AdminNext \/ BatchNext \/ Tick

Spec == Init /\ [][Next]_vars

-----------------------------------------------------------------------------
(***************************************************************************)
(* Properties.                                                             *)
(***************************************************************************)

BondSum(vec) == SumFunction([i \in DOMAIN vec |-> vec[i].amount])
ClubStake(c) == SumFunction([u \in Users |-> Staked(c, u)])
ClubBonds(c) == SumFunction([u \in Users |-> BondSum(bonds[c][u])])
ClubPending(c) == SumFunction([u \in Users |-> PendingReward(c, u)])

TypeOK ==
    /\ now \in Nat
    /\ ownership \in [Clubs -> Ownership]
    /\ prevOwner \in [Users -> Nat]
    /\ stakes \in [Clubs -> [Users -> StakeVec]]
    /\ bonds \in [Clubs -> [Users -> Seq(Bond)]]
    /\ {reward, given, nextReward} \subseteq Nat
    /\ snapshot \in [Clubs -> Nat]
    /\ winning \in WinningClubDetails /\ LosingClubs(winning) >= 0
    /\ fury \in [Wallets -> Nat]

\* No wallet ever owns two clubs, whoever buys, releases, resells or is
\* assigned a club, in any order (the scan of all clubs in buy_a_club and
\* assign_a_club).
OneClubPerOwner ==
    \A c, d \in Clubs :
       Listed(c) /\ ownership[c].owner = ownership[d].owner => c = d

\* A staker never has more bonds in a club than the configured limit, though
\* withdrawals rewrite the list and may split a bond.
BondsWithinLimit ==
    \A c \in Clubs, u \in Users : Len(bonds[c][u]) <= MaxBonds

Copies(vec, bond) == Cardinality({i \in DOMAIN vec : vec[i] = bond})
SameYoungBonds(vec, later) ==
    \A bond \in ToSet(vec) \cup ToSet(later) :
       now - bond.start <= BondingDuration => Copies(vec, bond) = Copies(later, bond)

\* Whatever the splits and earlier withdrawals, tokens leave the bonds of a
\* staker only into the wallet of that staker, and only out of bonds made
\* more than BondingDuration ago; the younger bonds are all still there.
PayoutsAreMatured ==
    [][\A c \in Clubs, u \in Users :
          LET paid == BondSum(bonds[c][u]) - BondSum(bonds'[c][u])
          IN  paid > 0 => /\ fury'[u] = fury[u] + paid
                          /\ SameYoungBonds(bonds[c][u], bonds'[c][u])]_vars

\* Batches in any order and number, and repeated last batches, never put the
\* next distribution off by more than one period: a reward can always be
\* distributed again after Periodicity seconds.
NextRewardWithinOnePeriod ==
    \/ nextReward <= FirstReward
    \/ nextReward < now + Periodicity

(***************************************************************************)
(* The abstract market of clubs the contract implements.                   *)
(***************************************************************************)
Market == INSTANCE ClubMarket WITH
    holder       <- [c \in Clubs |-> ownership[c].owner],
    offeredUntil <- [c \in Clubs |->
                       IF ownership[c].released
                       THEN ownership[c].start + ReleaseLock ELSE -1]

\* The contract implements the abstract market: whoever sends what and when,
\* a club changes hands only as an offer that is taken in time.
MarketImplemented == Market!MarketSpec

==============================================================================
