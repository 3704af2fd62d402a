----------------------------- MODULE RewardRounds -----------------------------
(***************************************************************************)
(* The clubstaking contract with the administrator's program that          *)
(* distributes the rewards, as the contract's tests drive it: a round pays *)
(* every staker of every club once, in batches of stakers of one club; the *)
(* first batch says it is the first and the final one that it is the last. *)
(* Stakers, owners and the administrator go on sending messages between    *)
(* the batches of a round.                                                 *)
(***************************************************************************)
EXTENDS ClubStaking

VARIABLES
    due,     \* <<club, staker>> pairs the round has yet to pay; {} between rounds
    \* History, to state what a round did.
    share,   \* of a pair, its reward as the round found the stakes at its start
    touched, \* pairs whose reward a message of this round may have changed
    funded,  \* REWARD at the start of the latest round
    granted, \* what the latest round credited so far
    sound,   \* no round so far was disturbed (see Disturbed)
    claimed  \* paid out by ClaimStakerRewards so far

history == <<share, touched, funded, granted, sound, claimed>>
roundVars == <<vars, due, history>>

Pairs == Clubs \X Users
\* The program learns from the query of all stakes whom to pay.
Roster == {p \in Pairs : Listed(p[1]) /\ HasStake(p[1], p[2])}
NoShares == [p \in Pairs |-> 0]
Shares ==
    LET ranking == Ranking
    IN  [p \in Pairs |-> RewardFor(p[1], p[2], Staked(p[1], p[2]), ranking)]

RoundInit ==
    /\ Init
    /\ due = {} /\ touched = {} /\ share = NoShares
    /\ funded = 0 /\ granted = 0 /\ claimed = 0 /\ sound = TRUE

-----------------------------------------------------------------------------
(***************************************************************************)
(* A batch.  The first one of a round takes the roster of stakers.         *)
(***************************************************************************)
Batch(c, stakers) ==
    LET first == due = {}
        left  == (IF first THEN Roster ELSE due) \ ({c} \X stakers)
        last  == left = {}
        gain  == DistributeBatch(SetToSeq(stakers), c, RankingOf(first)).given
    IN  /\ stakers # {}
        /\ {c} \X stakers \subseteq (IF first THEN Roster ELSE due)
        /\ first => reward > 0
        /\ CalculateAndDistributeRewards(SetToSeq(stakers), c, first, last)
        /\ due' = left
        /\ share' = IF last THEN NoShares ELSE IF first THEN Shares ELSE share
        /\ touched' = IF first \/ last THEN {} ELSE touched
        /\ funded' = IF first THEN reward ELSE funded
        /\ granted' = gain + (IF first THEN 0 ELSE granted)
        /\ sound' = (sound /\ (first =>
               \A d \in Clubs : ClubStake(d) <= ownership[d].total))
        /\ UNCHANGED claimed

\* Without a reward, a round is one empty batch, which moves the clock.
EmptyRound(c) ==
    /\ due = {}
    /\ reward = 0
    /\ CalculateAndDistributeRewards(<< >>, c, TRUE, TRUE)
    /\ UNCHANGED <<due, history>>

\* A message between two batches disturbs the round when a stake grows, a
\* club changes hands or the pool of rewards changes; a pool that is increased
\* by nothing forgets what the round gave so far.
OwnersOrPoolChange ==
    \/ reward' # reward
    \/ \E c \in Clubs : ownership'[c].owner # ownership[c].owner
Disturbed ==
    \/ OwnersOrPoolChange
    \/ given' # given
    \/ \E p \in Pairs : Staked(p[1], p[2])' > Staked(p[1], p[2])

Between ==
    /\ UserNext \/ AdminNext \/ Tick
    /\ sound' = (sound /\ (due # {} => ~Disturbed))
    /\ touched' = IF due = {} THEN {}
                  ELSE IF OwnersOrPoolChange THEN Pairs
                  ELSE touched \cup
                       {p \in Pairs : Staked(p[1], p[2])' # Staked(p[1], p[2])}
    /\ UNCHANGED <<due, share, funded, granted, claimed>>

Claim ==
    /\ ClaimNext
    /\ claimed' = claimed + fury["contract"] - fury'["contract"]
    /\ UNCHANGED <<due, share, touched, funded, granted, sound>>

SomeBatch == \E c \in Clubs, stakers \in SUBSET Users : Batch(c, stakers)

RoundNext == SomeBatch \/ (\E c \in Clubs : EmptyRound(c)) \/ Between \/ Claim

RoundSpec == RoundInit /\ [][RoundNext]_roundVars

\* The administrator's program goes on with a round it has started.
FairRoundSpec == RoundSpec /\ WF_roundVars(due # {} /\ SomeBatch)

-----------------------------------------------------------------------------
(***************************************************************************)
(* Properties.                                                             *)
(***************************************************************************)

RoundTypeOK ==
    /\ TypeOK
    /\ due \subseteq Pairs /\ touched \subseteq Pairs
    /\ share \in [Pairs -> Nat]
    /\ {funded, granted, claimed} \subseteq Nat
    /\ sound \in BOOLEAN

\* A round that was not disturbed, and found in the totals of the clubs all
\* that is staked, credits no more than the pool held when it began: however
\* the stakers are split into batches, whichever clubs tie or win, and
\* whatever is withdrawn, bonded or claimed meanwhile.
RoundWithinReward == sound => granted <= funded

\* As long as no round was disturbed, all that stakers are owed (stakes,
\* bonds, pending rewards) and the pool of rewards that is left are backed by
\* tokens, apart from what claims paid: a claimed reward stays pending.
OwedIsBacked ==
    sound =>
      fury["contract"] + claimed >=
        SumFunction([c \in Clubs |-> ClubStake(c) + ClubBonds(c) + ClubPending(c)])
        + reward - (IF due = {} THEN 0 ELSE granted)

\* A message of a staker, an owner or the administrator, at any moment of a
\* round or between rounds, never makes a stake record vanish: a batch leaves
\* out a stake that starts in the future, and a round must never meet one.
StakesNeverDropped ==
    [][\A c \in Clubs, u \in Users : HasStake(c, u) => HasStake(c, u)']_roundVars

\* Whatever was staked, bonded, withdrawn and distributed, in the middle of a
\* round too, everything a staker has stays within reach: the queries of all
\* stakes and of all bonds, which visit only clubs that were sold, show every
\* token of it, and a withdrawal, which asks for a stake even if it only takes
\* from bonds, is refused to nobody who has a bond.
StakeSum(vec) == SumFunction([i \in DOMAIN vec |-> vec[i].staked + vec[i].reward])
RecordsReachable ==
    LET everyone == SetToSeq(Users)
    IN  /\ \A c \in Clubs, u \in Users :
              bonds[c][u] # << >> => Withdrawable(u, c)
        /\ StakeSum(AllStakes(everyone)) =
             SumFunction([c \in Clubs |-> ClubStake(c) + ClubPending(c)])
        /\ BondSum(AllBonds(everyone)) = SumFunction([c \in Clubs |-> ClubBonds(c)])

\* The clubs' totals, which rank them and divide the reward, never count a
\* token that is not staked.
TotalsAreStaked == \A c \in Clubs : ownership[c].total <= ClubStake(c)

\* "total amount staked across all stakes for this club" (the comment on
\* total_staked_amount): the total of a club is the sum of its stakes.
TotalIsSumOfStakes == \A c \in Clubs : ownership[c].total = ClubStake(c)

\* "to Claim Rewards accumulated for a wallet of a Staker": a claim pays what
\* had accumulated, so that nothing of it is left to claim.
ClaimLeavesNothingPending ==
    [][\A c \in Clubs, u \in Users :
          ClaimStakerRewards(u, c) => PendingReward(c, u)' = 0]_roundVars

\* A staker whose own stake is untouched gains in a round exactly the share
\* the stakes at the start of the round gave: independent of the batches, of
\* their order, and of what others stake or withdraw in the meantime.
Worth(c, u) == Staked(c, u) + PendingReward(c, u)
GainIsShareAtStart ==
    [][SomeBatch =>
         LET first == due = {}
             promised == IF first THEN Shares ELSE share
         IN  \A p \in (IF first THEN Roster ELSE due) \ (due' \cup touched) :
                Worth(p[1], p[2])' = Worth(p[1], p[2]) + promised[p]]_roundVars

\* Nobody's messages between two batches can stop a round that has begun.
RoundEnds == due # {} ~> due = {}

===============================================================================
