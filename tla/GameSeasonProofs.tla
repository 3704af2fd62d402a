-------------------------- MODULE GameSeasonProofs --------------------------
(***************************************************************************)
(* What holds of the gamingpool contract for any gamers, pool types, fees  *)
(* and lists of winners, and any number of pools: refunds stay due, teams  *)
(* are never lost, and a pool that was finished is settled.                *)
(*                                                                         *)
(* None of it depends on what the contract owns, so the invariant says     *)
(* nothing of usdc, fury and the totals in cell.                           *)
(***************************************************************************)
EXTENDS GameSeason, SequenceTheorems, TLAPS

PoolsTyped ==
    /\ status \in {"open", "closed", "cancelled", "completed"}
    /\ pools \in Seq(Pool)
    /\ Len(pools) <= MaxPools

TeamsTyped == teams \in [1..MaxPools -> [Gamers -> Seq(Team)]]

\* No pool of an open game is finished: that is what keeps bids out of it.
FinishedIsClosed ==
    \A p \in DOMAIN pools : pools[p].distributed => status # "open"

SeasonInv == PoolsTyped /\ TeamsTyped /\ FinishedIsClosed /\ RefundsStayDue

-----------------------------------------------------------------------------
(***************************************************************************)
(* Sequences.                                                              *)
(***************************************************************************)

\* A sequence whose elements are replaced one by one.
LEMMA Replaced ==
    ASSUME NEW S, NEW T, NEW s \in Seq(S), NEW f,
           f = [i \in DOMAIN s |-> f[i]], \A i \in DOMAIN s : f[i] \in T
    PROVE  f \in Seq(T) /\ Len(f) = Len(s) /\ DOMAIN f = DOMAIN s
<1>1. Len(s) \in Nat /\ DOMAIN s = 1..Len(s)
  BY LenProperties
<1>2. f \in [1..Len(s) -> T]
  BY <1>1
<1>3. f \in Seq(T)
  BY <1>1, <1>2, SeqDef
<1> QED
  BY <1>1, <1>2, <1>3, LenProperties

-----------------------------------------------------------------------------
(***************************************************************************)
(* What a message does to the list of pools: it appends one, replaces one, *)
(* flags them, or leaves them.                                             *)
(***************************************************************************)
LEMMA CreatedPool ==
    ASSUME PoolsTyped, NEW t \in PoolTypes, Len(pools) < MaxPools,
           pools' = Append(pools, NewPool(t)), status' = status
    PROVE  /\ PoolsTyped'
           /\ DOMAIN pools' = 1..(Len(pools) + 1)
           /\ \A p \in DOMAIN pools : p \in DOMAIN pools' /\ pools'[p] = pools[p]
           /\ pools'[Len(pools) + 1] = NewPool(t)
<1>1. NewPool(t) \in Pool
  BY DEF NewPool, Pool
<1>2. /\ pools' \in Seq(Pool)
      /\ Len(pools') = Len(pools) + 1
      /\ \A p \in 1..Len(pools) : pools'[p] = pools[p]
      /\ pools'[Len(pools) + 1] = NewPool(t)
  BY <1>1, AppendProperties DEF PoolsTyped
<1>3. Len(pools) \in Nat /\ MaxPools \in Nat /\ DOMAIN pools = 1..Len(pools)
  BY LenProperties, GameAssumption DEF PoolsTyped
<1>4. DOMAIN pools' = 1..Len(pools')
  BY <1>2, LenProperties
<1> QED
  BY <1>2, <1>3, <1>4 DEF PoolsTyped

LEMMA ReplacedPool ==
    ASSUME PoolsTyped, NEW q \in DOMAIN pools, NEW new \in Pool,
           pools' = [pools EXCEPT ![q] = new],
           status' \in {"open", "closed", "cancelled", "completed"}
    PROVE  /\ PoolsTyped'
           /\ DOMAIN pools' = DOMAIN pools
           /\ \A p \in DOMAIN pools :
                 pools'[p] = IF p = q THEN new ELSE pools[p]
<1>1. DOMAIN pools = 1..Len(pools) /\ Len(pools) \in Nat
  BY LenProperties DEF PoolsTyped
<1>2. /\ pools' \in Seq(Pool)
      /\ Len(pools') = Len(pools)
      /\ \A p \in 1..Len(pools) : pools'[p] = IF p = q THEN new ELSE pools[p]
  BY <1>1, ExceptSeq DEF PoolsTyped
<1>3. DOMAIN pools' = 1..Len(pools')
  BY <1>2, LenProperties
<1> QED
  BY <1>1, <1>2, <1>3 DEF PoolsTyped

LEMMA FlaggedPoolsTyped ==
    ASSUME PoolsTyped,
           pools' = [p \in DOMAIN pools |-> pools'[p]],
           \A p \in DOMAIN pools :
              /\ pools'[p] = [pools[p] EXCEPT !.refund = pools'[p].refund]
              /\ pools'[p].refund \in BOOLEAN,
           status' \in {"open", "closed", "cancelled", "completed"}
    PROVE  PoolsTyped' /\ DOMAIN pools' = DOMAIN pools
<1>1. ASSUME NEW p \in DOMAIN pools
      PROVE  pools[p] \in Pool
  BY <1>1, LenProperties, ElementOfSeq DEF PoolsTyped
<1>2. ASSUME NEW p \in DOMAIN pools
      PROVE  pools'[p] \in Pool
  BY <1>1, <1>2 DEF Pool
<1>3. pools' \in Seq(Pool) /\ Len(pools') = Len(pools) /\ DOMAIN pools' = DOMAIN pools
  BY <1>2, Replaced DEF PoolsTyped
<1> QED
  BY <1>3 DEF PoolsTyped

-----------------------------------------------------------------------------
(***************************************************************************)
(* What a message does to the teams: it adds one to a gamer of a pool,     *)
(* rewrites each by itself, or leaves them.                                *)
(***************************************************************************)
Grown == \A p \in 1..MaxPools, g \in Gamers : TeamsKept(p, g)

LEMMA SameTeams ==
    ASSUME TeamsTyped, teams' = teams
    PROVE  TeamsTyped' /\ Grown /\ \A p \in 1..MaxPools : RewardsFixed(p)
<1>1. ASSUME NEW p \in 1..MaxPools, NEW g \in Gamers
      PROVE  Len(teams[p][g]) \in Nat
  BY <1>1, LenProperties DEF TeamsTyped
<1> QED
  BY <1>1 DEF TeamsTyped, Grown, TeamsKept, Continues, RewardsFixed

LEMMA AddedTeam ==
    ASSUME TeamsTyped, NEW q \in 1..MaxPools, NEW h \in Gamers, NEW id \in TeamIds,
           teams' = [teams EXCEPT ![q][h] = Append(@, NewTeam(id))]
    PROVE  TeamsTyped' /\ Grown
<1>1. NewTeam(id) \in Team
  BY DEF NewTeam, Team
<1>2. teams[q][h] \in Seq(Team)
  BY DEF TeamsTyped
<1> DEFINE new == Append(teams[q][h], NewTeam(id))
<1>3. /\ new \in Seq(Team)
      /\ Len(new) = Len(teams[q][h]) + 1
      /\ \A i \in 1..Len(teams[q][h]) : new[i] = teams[q][h][i]
  BY <1>1, <1>2, AppendProperties
<1>4. ASSUME NEW p \in 1..MaxPools, NEW g \in Gamers
      PROVE  teams'[p][g] = IF p = q /\ g = h THEN new ELSE teams[p][g]
  BY <1>4 DEF TeamsTyped
<1>5. TeamsTyped'
  BY <1>3 DEF TeamsTyped
<1>6. ASSUME NEW p \in 1..MaxPools, NEW g \in Gamers
      PROVE  TeamsKept(p, g)
  <2>1. Len(teams[p][g]) \in Nat /\ DOMAIN teams[p][g] = 1..Len(teams[p][g])
    BY <1>6, LenProperties DEF TeamsTyped
  <2>2. Len(teams[p][g]) <= Len(teams'[p][g])
    BY <1>3, <1>4, <1>6, <2>1
  <2>3. ASSUME NEW i \in DOMAIN teams[p][g]
        PROVE  teams'[p][g][i] = teams[p][g][i]
    BY <1>3, <1>4, <1>6, <2>1, <2>3
  <2> QED
    BY <2>2, <2>3 DEF TeamsKept, Continues
<1> QED
  BY <1>5, <1>6 DEF Grown

LEMMA RewrittenTeams ==
    ASSUME TeamsTyped,
           teams' = [p \in 1..MaxPools |-> [g \in Gamers |-> teams'[p][g]]],
           \A p \in 1..MaxPools, g \in Gamers :
              teams'[p][g] = [i \in DOMAIN teams[p][g] |-> teams'[p][g][i]],
           \A p \in 1..MaxPools, g \in Gamers : \A i \in DOMAIN teams[p][g] :
              /\ teams'[p][g][i] \in Team
              /\ Continues(teams[p][g][i], teams'[p][g][i])
    PROVE  TeamsTyped' /\ Grown
<1>1. ASSUME NEW p \in 1..MaxPools, NEW g \in Gamers
      PROVE  teams'[p][g] \in Seq(Team) /\ Len(teams'[p][g]) = Len(teams[p][g])
  <2>1. teams[p][g] \in Seq(Team)
    BY <1>1 DEF TeamsTyped
  <2>2. /\ teams'[p][g] = [i \in DOMAIN teams[p][g] |-> teams'[p][g][i]]
        /\ \A i \in DOMAIN teams[p][g] : teams'[p][g][i] \in Team
    BY <1>1
  <2> HIDE DEF Team
  <2> QED
    BY <2>1, <2>2, Replaced
<1>2. ASSUME NEW p \in 1..MaxPools, NEW g \in Gamers
      PROVE  TeamsKept(p, g)
  <2>1. Len(teams[p][g]) \in Nat
    BY <1>2, LenProperties DEF TeamsTyped
  <2> QED
    BY <1>1, <1>2, <2>1 DEF TeamsKept
<1> QED
  BY <1>1, <1>2 DEF TeamsTyped, Grown

-----------------------------------------------------------------------------
(***************************************************************************)
(* One lemma per kind of message: it keeps the invariant, the teams and    *)
(* the finished pools.                                                     *)
(***************************************************************************)
Settled == \A p \in DOMAIN pools : pools[p].distributed => StaysFinished(p)

SeasonStep == SeasonInv' /\ Grown /\ Settled

LEMMA PoolNumbers ==
    ASSUME PoolsTyped
    PROVE  /\ \A p \in DOMAIN pools : p \in 1..MaxPools /\ pools[p] \in Pool
           /\ MaxPools \in Nat /\ Len(pools) \in Nat
           /\ DOMAIN pools = 1..Len(pools)
<1>1. Len(pools) \in Nat /\ DOMAIN pools = 1..Len(pools)
  BY LenProperties DEF PoolsTyped
<1>2. MaxPools \in Nat
  BY GameAssumption
<1>3. \A p \in DOMAIN pools : pools[p] \in Pool
  BY <1>1, ElementOfSeq DEF PoolsTyped
<1> QED
  BY <1>1, <1>2, <1>3 DEF PoolsTyped

LEMMA SamePools ==
    ASSUME SeasonInv, status' = status, pools' = pools,
           TeamsTyped', Grown, \A p \in 1..MaxPools : RewardsFixed(p)
    PROVE  SeasonStep
<1>1. PoolsTyped' /\ FinishedIsClosed' /\ RefundsStayDue'
  BY DEF SeasonInv, PoolsTyped, FinishedIsClosed, RefundsStayDue
<1>2. Settled
  BY PoolNumbers DEF SeasonInv, Settled, StaysFinished
<1> QED
  BY <1>1, <1>2 DEF SeasonStep, SeasonInv

\* What a claim of rewards makes of the teams of a gamer of a pool.
ClaimedBy(h, p, g) ==
    [i \in DOMAIN teams[p][g] |->
       IF g = h /\ p \in DOMAIN pools /\ pools[p].reward
       THEN AsClaimed(teams[p][g][i]) ELSE teams[p][g][i]]

LEMMA ClaimedTeams ==
    ASSUME TeamsTyped, NEW h \in Gamers, ClaimReward(h)
    PROVE  /\ teams' = [p \in 1..MaxPools |-> [g \in Gamers |-> teams'[p][g]]]
           /\ \A p \in 1..MaxPools, g \in Gamers :
                 teams'[p][g] = ClaimedBy(h, p, g)
<1>1. teams' = [p \in 1..MaxPools |-> [g \in Gamers |-> teams'[p][g]]]
  BY DEF ClaimReward, TeamsTyped
<1>2. ASSUME NEW p \in 1..MaxPools, NEW g \in Gamers
      PROVE  teams'[p][g] = ClaimedBy(h, p, g)
  <2>1. teams[p][g] = [i \in DOMAIN teams[p][g] |-> teams[p][g][i]]
    BY LenProperties DEF TeamsTyped
  <2>2. CASE g = h /\ p \in DOMAIN pools /\ pools[p].reward
    BY <2>2 DEF ClaimReward, TeamsTyped, ClaimedBy
  <2>3. CASE ~(g = h /\ p \in DOMAIN pools /\ pools[p].reward)
    <3>1. teams'[p][g] = teams[p][g]
      BY <2>3 DEF ClaimReward, TeamsTyped
    <3> QED
      BY <2>1, <2>3, <3>1 DEF ClaimedBy
  <2> QED
    BY <2>2, <2>3
<1> QED
  BY <1>1, <1>2

LEMMA ClaimRewardStep ==
    ASSUME SeasonInv, NEW h \in Gamers, ClaimReward(h)
    PROVE  SeasonStep
<1> USE DEF SeasonInv
<1>0. \A p \in 1..MaxPools, g \in Gamers : teams'[p][g] = ClaimedBy(h, p, g)
  BY ClaimedTeams
<1>1. ASSUME NEW p \in 1..MaxPools, NEW g \in Gamers, NEW i \in DOMAIN teams[p][g]
      PROVE  /\ teams'[p][g][i] \in Team
             /\ Continues(teams[p][g][i], teams'[p][g][i])
             /\ teams'[p][g][i].reward = teams[p][g][i].reward
  <2>1. teams[p][g][i] \in Team
    BY <1>1, LenProperties, ElementOfSeq DEF TeamsTyped
  <2>2. teams'[p][g][i] \in {teams[p][g][i], AsClaimed(teams[p][g][i])}
    <3>1. teams'[p][g] = ClaimedBy(h, p, g)
      BY <1>0
    <3>2. ClaimedBy(h, p, g)[i] \in {teams[p][g][i], AsClaimed(teams[p][g][i])}
      BY <1>1 DEF ClaimedBy
    <3> QED
      BY <3>1, <3>2
  <2> QED
    BY <2>1, <2>2 DEF AsClaimed, Team, Continues
<1>2. TeamsTyped' /\ Grown
  <2>1. \A p \in 1..MaxPools, g \in Gamers :
           teams'[p][g] = [i \in DOMAIN teams[p][g] |-> teams'[p][g][i]]
    BY <1>0 DEF ClaimedBy
  <2> QED
    BY <1>1, <2>1, ClaimedTeams, RewrittenTeams
<1>3. \A p \in 1..MaxPools : RewardsFixed(p)
  BY <1>1 DEF RewardsFixed
<1> QED
  BY <1>2, <1>3, SamePools DEF ClaimReward

\* What a claim of refunds makes of the teams of a gamer of a pool.
AsRefunded(team, p) == [team EXCEPT !.refund = Params[pools[p].type].fee,
                                    !.claimedRefund = TRUE]
RefundedBy(h, p, g) ==
    [i \in DOMAIN teams[p][g] |->
       IF g = h /\ p \in FlaggedPools
       THEN AsRefunded(teams[p][g][i], p) ELSE teams[p][g][i]]

LEMMA RefundedTeams ==
    ASSUME TeamsTyped, NEW h \in Gamers, ClaimRefund(h)
    PROVE  /\ teams' = [p \in 1..MaxPools |-> [g \in Gamers |-> teams'[p][g]]]
           /\ \A p \in 1..MaxPools, g \in Gamers :
                 teams'[p][g] = RefundedBy(h, p, g)
<1>1. teams' = [p \in 1..MaxPools |-> [g \in Gamers |-> teams'[p][g]]]
  BY DEF ClaimRefund, TeamsTyped
<1>2. ASSUME NEW p \in 1..MaxPools, NEW g \in Gamers
      PROVE  teams'[p][g] = RefundedBy(h, p, g)
  <2>1. teams[p][g] = [i \in DOMAIN teams[p][g] |-> teams[p][g][i]]
    BY LenProperties DEF TeamsTyped
  <2>2. CASE g = h /\ p \in FlaggedPools
    BY <2>2 DEF ClaimRefund, TeamsTyped, AsRefunded, RefundedBy
  <2>3. CASE ~(g = h /\ p \in FlaggedPools)
    <3>1. teams'[p][g] = teams[p][g]
      BY <2>3 DEF ClaimRefund, TeamsTyped
    <3> QED
      BY <2>1, <2>3, <3>1 DEF RefundedBy
  <2> QED
    BY <2>2, <2>3
<1> QED
  BY <1>1, <1>2

\* The fee of a pool's type is a number.
LEMMA FeeIsNat ==
    ASSUME PoolsTyped, NEW p \in DOMAIN pools
    PROVE  Params[pools[p].type].fee \in Nat
BY PoolNumbers, GameAssumption DEF Pool, ParamsType

LEMMA ClaimRefundStep ==
    ASSUME SeasonInv, NEW h \in Gamers, ClaimRefund(h)
    PROVE  SeasonStep
<1> USE DEF SeasonInv
<1>0. \A p \in 1..MaxPools, g \in Gamers : teams'[p][g] = RefundedBy(h, p, g)
  BY RefundedTeams
<1>1. ASSUME NEW p \in 1..MaxPools, NEW g \in Gamers, NEW i \in DOMAIN teams[p][g]
      PROVE  /\ teams'[p][g][i] \in Team
             /\ Continues(teams[p][g][i], teams'[p][g][i])
             /\ teams'[p][g][i].reward = teams[p][g][i].reward
  <2>1. teams[p][g][i] \in Team
    BY <1>1, LenProperties, ElementOfSeq DEF TeamsTyped
  <2>2. teams'[p][g][i] = IF g = h /\ p \in FlaggedPools
                          THEN AsRefunded(teams[p][g][i], p) ELSE teams[p][g][i]
    <3>1. teams'[p][g] = RefundedBy(h, p, g)
      BY <1>0
    <3>2. RefundedBy(h, p, g)[i] = IF g = h /\ p \in FlaggedPools
                                   THEN AsRefunded(teams[p][g][i], p)
                                   ELSE teams[p][g][i]
      BY <1>1 DEF RefundedBy
    <3> QED
      BY <3>1, <3>2
  <2>3. p \in FlaggedPools => Params[pools[p].type].fee \in Nat
    BY FeeIsNat DEF FlaggedPools
  <2> QED
    BY <2>1, <2>2, <2>3 DEF AsRefunded, Team, Continues
<1>2. TeamsTyped' /\ Grown
  <2>1. \A p \in 1..MaxPools, g \in Gamers :
           teams'[p][g] = [i \in DOMAIN teams[p][g] |-> teams'[p][g][i]]
    BY <1>0 DEF RefundedBy
  <2> QED
    BY <1>1, <2>1, RefundedTeams, RewrittenTeams
<1>3. \A p \in 1..MaxPools : RewardsFixed(p)
  BY <1>1 DEF RewardsFixed
<1> QED
  BY <1>2, <1>3, SamePools DEF ClaimRefund

LEMMA CreatePoolStep ==
    ASSUME SeasonInv, NEW t \in PoolTypes, Len(pools) < MaxPools, CreatePool(t)
    PROVE  SeasonStep
<1> USE DEF SeasonInv
<1>1. /\ PoolsTyped'
      /\ DOMAIN pools' = 1..(Len(pools) + 1)
      /\ \A p \in DOMAIN pools : p \in DOMAIN pools' /\ pools'[p] = pools[p]
      /\ pools'[Len(pools) + 1] = NewPool(t)
  BY CreatedPool DEF CreatePool
<1>2. \A p \in DOMAIN pools' : p \in DOMAIN pools \/ p = Len(pools) + 1
  BY <1>1, PoolNumbers
<1>3. status' = "open"
  BY DEF CreatePool
<1>4. RefundsStayDue'
  BY <1>3 DEF RefundsStayDue
<1>5. \A p \in DOMAIN pools' : ~pools'[p].distributed
  BY <1>1, <1>2, <1>3 DEF FinishedIsClosed, CreatePool, NewPool
<1>6. TeamsTyped' /\ Grown
  BY SameTeams DEF CreatePool
<1>7. Settled
  BY DEF Settled, FinishedIsClosed, CreatePool
<1> QED
  BY <1>1, <1>4, <1>5, <1>6, <1>7 DEF SeasonStep, FinishedIsClosed

LEMMA LockGameStep ==
    ASSUME SeasonInv, LockGame
    PROVE  SeasonStep
<1> USE DEF SeasonInv
<1>1. ASSUME NEW p \in DOMAIN pools
      PROVE  /\ pools'[p] = [pools[p] EXCEPT !.refund = pools'[p].refund]
             /\ pools'[p].refund \in BOOLEAN
             /\ pools'[p].count < Params[pools'[p].type].minTeams => pools'[p].refund
  BY <1>1, PoolNumbers DEF LockGame, FlagUnfilled, Pool
<1>2. pools' = [p \in DOMAIN pools |-> pools'[p]]
  BY DEF LockGame
<1>3. status = "open" /\ status' = "closed"
  BY DEF LockGame
<1>4. PoolsTyped' /\ DOMAIN pools' = DOMAIN pools
  BY <1>1, <1>2, <1>3, FlaggedPoolsTyped
<1>5. RefundsStayDue' /\ FinishedIsClosed'
  BY <1>1, <1>3, <1>4 DEF RefundsStayDue, FinishedIsClosed
<1>6. TeamsTyped' /\ Grown
  BY SameTeams DEF LockGame
<1>7. Settled
  BY <1>3 DEF Settled, FinishedIsClosed
<1> QED
  BY <1>4, <1>5, <1>6, <1>7 DEF SeasonStep

LEMMA CancelGameStep ==
    ASSUME SeasonInv, CancelGame
    PROVE  SeasonStep
<1> USE DEF SeasonInv
<1>1. ASSUME NEW p \in DOMAIN pools
      PROVE  /\ pools'[p] = [pools[p] EXCEPT !.refund = pools'[p].refund]
             /\ pools'[p].refund = TRUE
             /\ pools'[p].count = pools[p].count
             /\ pools'[p].distributed = pools[p].distributed
  BY <1>1, PoolNumbers DEF CancelGame, FlagForRefund, Pool
<1>2. pools' = [p \in DOMAIN pools |-> pools'[p]]
  BY DEF CancelGame
<1>3. status' = "cancelled"
  BY DEF CancelGame
<1>4. PoolsTyped' /\ DOMAIN pools' = DOMAIN pools
  BY <1>1, <1>2, <1>3, FlaggedPoolsTyped
<1>5. RefundsStayDue' /\ FinishedIsClosed'
  BY <1>1, <1>3, <1>4 DEF RefundsStayDue, FinishedIsClosed
<1>6. TeamsTyped' /\ Grown /\ \A p \in 1..MaxPools : RewardsFixed(p)
  BY SameTeams DEF CancelGame
<1>7. Settled
  BY <1>1, <1>6, PoolNumbers DEF Settled, StaysFinished
<1> QED
  BY <1>4, <1>5, <1>6, <1>7 DEF SeasonStep

LEMMA BidEffect ==
    ASSUME SeasonInv, NEW h \in Gamers, NEW t \in PoolTypes, NEW q \in DOMAIN pools,
           NEW id \in TeamIds, GamePoolBidSubmit(h, t, q, id)
    PROVE  /\ PoolsTyped'
           /\ DOMAIN pools' = DOMAIN pools
           /\ \A p \in DOMAIN pools :
                 pools'[p] = IF p = q
                             THEN Entered(pools[q], t) ELSE pools[p]
<1>1. pools[q] \in Pool /\ PoolsTyped
  BY PoolNumbers DEF SeasonInv
<1>2. Entered(pools[q], t) \in Pool
  <2>1. PICK r \in Pool : r = pools[q]
    BY <1>1
  <2>2. r.count + 1 \in Nat
    BY <2>1 DEF Pool
  <2>3. [r EXCEPT !.type = t, !.count = r.count + 1,
                  !.refund = FALSE, !.reward = FALSE] \in Pool
    BY <2>1, <2>2 DEF Pool
  <2> QED
    BY <2>1, <2>3 DEF Entered
<1>3. pools' = [pools EXCEPT ![q] = Entered(pools[q], t)] /\ status' = "open"
  BY DEF GamePoolBidSubmit
<1> QED
  BY <1>1, <1>2, <1>3, ReplacedPool

LEMMA BidStep ==
    ASSUME SeasonInv, NEW h \in Gamers, NEW t \in PoolTypes, NEW q \in DOMAIN pools,
           NEW id \in TeamIds, GamePoolBidSubmit(h, t, q, id)
    PROVE  SeasonStep
<1>0. /\ PoolsTyped'
      /\ DOMAIN pools' = DOMAIN pools
      /\ \A p \in DOMAIN pools :
            pools'[p] = IF p = q THEN Entered(pools[q], t) ELSE pools[p]
  BY BidEffect
<1> USE DEF SeasonInv
<1>1. q \in 1..MaxPools /\ \A p \in DOMAIN pools : pools[p] \in Pool
  BY PoolNumbers
<1>2. status = "open" /\ status' = "open"
  BY DEF GamePoolBidSubmit
<1>3. RefundsStayDue'
  BY <1>2 DEF RefundsStayDue
<1>4. FinishedIsClosed'
  <2>1. Entered(pools[q], t).distributed = pools[q].distributed
    BY <1>1 DEF Entered, Pool
  <2> QED
    BY <1>0, <1>2, <2>1 DEF FinishedIsClosed
<1>5. TeamsTyped' /\ Grown
  BY <1>1, AddedTeam DEF GamePoolBidSubmit
<1>6. Settled
  BY <1>2 DEF Settled, FinishedIsClosed
<1> QED
  BY <1>0, <1>3, <1>4, <1>5, <1>6 DEF SeasonStep

\* The entry that decides the reward of a team is an entry of the list.
LEMMA RewardIsNat ==
    ASSUME NEW list \in WinnerLists, NEW g \in Gamers, NEW id \in TeamIds,
           Decisive(list, g, id) # {}
    PROVE  RewardIn(list, g, id) \in Nat
<1>1. list \in Seq([gamer : Gamers, team : TeamIds, amount : Nat])
  BY GameAssumption
<1>2. (CHOOSE k \in Decisive(list, g, id) : TRUE) \in DOMAIN list
  BY DEF Decisive, Entries
<1>3. ASSUME NEW k \in DOMAIN list
      PROVE  list[k].amount \in Nat
  <2>1. k \in 1..Len(list)
    BY <1>1, <1>3, LenProperties
  <2>2. list[k] \in [gamer : Gamers, team : TeamIds, amount : Nat]
    BY <1>1, <2>1, ElementOfSeq
  <2> QED
    BY <2>2
<1> QED
  BY <1>2, <1>3 DEF RewardIn

\* What a batch makes of its pool.
Batched(pool, final) ==
    [pool EXCEPT !.distributed = final, !.refund = FALSE, !.reward = TRUE]

LEMMA DistributeEffect ==
    ASSUME SeasonInv, NEW q \in DOMAIN pools, NEW list,
           NEW final \in BOOLEAN, NEW rake,
           GamePoolRewardDistribute(q, list, final, rake)
    PROVE  /\ PoolsTyped'
           /\ DOMAIN pools' = DOMAIN pools
           /\ \A p \in DOMAIN pools :
                 pools'[p] = IF p = q
                             THEN Batched(pools[q], final) ELSE pools[p]
           /\ teams' = [p \in 1..MaxPools |-> [g \in Gamers |-> teams'[p][g]]]
           /\ \A p \in 1..MaxPools, g \in Gamers :
                 teams'[p][g] = IF p = q THEN Rewarded(teams[q][g], list, g)
                                ELSE teams[p][g]
<1> USE DEF SeasonInv
<1> DEFINE new == Batched(pools[q], final)
<1>1. q \in 1..MaxPools /\ pools[q] \in Pool
  BY PoolNumbers
<1>2. new \in Pool
  BY <1>1 DEF Pool, Batched
<1>3. status' \in {"closed", "completed"}
  BY DEF GamePoolRewardDistribute
<1>4. pools' = [pools EXCEPT ![q] = new]
  BY <1>1 DEF GamePoolRewardDistribute, Pool, Batched
<1>5. /\ teams' = [p \in 1..MaxPools |-> [g \in Gamers |-> teams'[p][g]]]
      /\ \A p \in 1..MaxPools, g \in Gamers :
            teams'[p][g] = IF p = q THEN Rewarded(teams[q][g], list, g)
                           ELSE teams[p][g]
  BY <1>1 DEF GamePoolRewardDistribute, TeamsTyped
<1> HIDE DEF new
<1>6. /\ PoolsTyped'
      /\ DOMAIN pools' = DOMAIN pools
      /\ \A p \in DOMAIN pools : pools'[p] = IF p = q THEN new ELSE pools[p]
  BY <1>2, <1>3, <1>4, ReplacedPool
<1> QED
  BY <1>5, <1>6 DEF new

LEMMA DistributeStep ==
    ASSUME SeasonInv, NEW q \in DOMAIN pools, NEW list \in WinnerLists,
           NEW final \in BOOLEAN, NEW rake,
           GamePoolRewardDistribute(q, list, final, rake)
    PROVE  SeasonStep
<1>1. q \in 1..MaxPools /\ pools[q] \in Pool
  BY PoolNumbers DEF SeasonInv
<1>2. /\ PoolsTyped'
      /\ DOMAIN pools' = DOMAIN pools
      /\ \A p \in DOMAIN pools :
            pools'[p] = IF p = q
                        THEN Batched(pools[q], final) ELSE pools[p]
  BY DistributeEffect
<1>8. /\ teams' = [p \in 1..MaxPools |-> [g \in Gamers |-> teams'[p][g]]]
      /\ \A p \in 1..MaxPools, g \in Gamers :
            teams'[p][g] = IF p = q THEN Rewarded(teams[q][g], list, g)
                           ELSE teams[p][g]
  BY DistributeEffect
<1> USE DEF SeasonInv
<1>3. /\ status' \in {"closed", "completed"}
      /\ status \in {"closed", "completed"}
      /\ ~pools[q].distributed
  BY DEF GamePoolRewardDistribute, NotDistributed
<1>5. /\ PoolsTyped'
      /\ DOMAIN pools' = DOMAIN pools
      /\ \A p \in DOMAIN pools : p # q => pools'[p] = pools[p]
      /\ pools'[q].reward = TRUE
  BY <1>1, <1>2 DEF Pool, Batched
<1>6. RefundsStayDue'
  BY <1>3, <1>5 DEF RefundsStayDue
<1>7. FinishedIsClosed'
  BY <1>3 DEF FinishedIsClosed
<1>9. ASSUME NEW p \in 1..MaxPools, NEW g \in Gamers, NEW i \in DOMAIN teams[p][g]
      PROVE  /\ teams'[p][g][i] \in Team
             /\ Continues(teams[p][g][i], teams'[p][g][i])
  <2>1. teams[p][g][i] \in Team
    BY <1>9, LenProperties, ElementOfSeq DEF TeamsTyped
  <2>2. CASE p = q
    <3> DEFINE team == teams[p][g][i]
    <3>1. teams'[p][g][i] =
            IF Decisive(list, g, team.id) = {} THEN team
            ELSE [team EXCEPT !.reward = RewardIn(list, g, team.id)]
      <4>1. teams'[p][g] = Rewarded(teams[p][g], list, g)
        BY <1>8, <1>9, <2>2
      <4> QED
        BY <1>9, <4>1 DEF Rewarded
    <3>2. team.id \in TeamIds
      BY <2>1 DEF Team
    <3>3. CASE Decisive(list, g, team.id) = {}
      BY <2>1, <3>1, <3>3 DEF Continues
    <3>4. CASE Decisive(list, g, team.id) # {}
      BY <2>1, <3>1, <3>2, <3>4, RewardIsNat DEF Team, Continues
    <3> QED
      BY <3>3, <3>4
  <2>3. CASE p # q
    BY <1>8, <1>9, <2>1, <2>3 DEF Continues
  <2> QED
    BY <2>2, <2>3
<1>10. ASSUME NEW p \in 1..MaxPools, NEW g \in Gamers
       PROVE  teams'[p][g] = [i \in DOMAIN teams[p][g] |-> teams'[p][g][i]]
  <2>1. teams[p][g] = [i \in DOMAIN teams[p][g] |-> teams[p][g][i]]
    BY <1>10, LenProperties DEF TeamsTyped
  <2>2. CASE p = q
    BY <1>8, <1>10, <2>2 DEF Rewarded
  <2>3. CASE p # q
    BY <1>8, <1>10, <2>1, <2>3
  <2> QED
    BY <2>2, <2>3
<1>11. TeamsTyped' /\ Grown
  BY <1>8, <1>9, <1>10, RewrittenTeams
<1>12. ASSUME NEW p \in DOMAIN pools, pools[p].distributed
       PROVE  StaysFinished(p)
  <2>1. p # q /\ p \in 1..MaxPools
    BY <1>3, <1>12, PoolNumbers
  <2> QED
    BY <1>5, <1>8, <1>12, <2>1 DEF StaysFinished, RewardsFixed
<1> QED
  BY <1>5, <1>6, <1>7, <1>11, <1>12 DEF SeasonStep, Settled

LEMMA QuietStep ==
    ASSUME SeasonInv, UNCHANGED <<status, pools, teams>>
    PROVE  SeasonStep
<1> USE DEF SeasonInv
<1>1. TeamsTyped' /\ Grown /\ \A p \in 1..MaxPools : RewardsFixed(p)
  BY SameTeams
<1> QED
  BY <1>1, SamePools

-----------------------------------------------------------------------------
(***************************************************************************)
(* The invariant holds, and with it the properties.                        *)
(***************************************************************************)
LEMMA SeasonInvInit ==
    ASSUME SeasonInit
    PROVE  SeasonInv
<1>1. pools = << >> /\ status = "open" /\ MaxPools \in Nat
  BY GameAssumption DEF SeasonInit, GameInit
<1>2. PoolsTyped
  BY <1>1, EmptySeq DEF PoolsTyped
<1>3. TeamsTyped
  BY EmptySeq DEF SeasonInit, GameInit, TeamsTyped
<1>4. DOMAIN pools = {}
  BY <1>1
<1> QED
  BY <1>2, <1>3, <1>4 DEF SeasonInv, FinishedIsClosed, RefundsStayDue

LEMMA SeasonInvNext ==
    ASSUME SeasonInv, [SeasonNext]_seasonVars
    PROVE  SeasonStep
<1>1. CASE GamerNext
  <2>1. ASSUME NEW g \in Gamers, NEW t \in PoolTypes, NEW p \in DOMAIN pools,
               NEW id \in TeamIds, GamePoolBidSubmit(g, t, p, id)
        PROVE  SeasonStep
    BY <2>1, BidStep
  <2>2. ASSUME NEW g \in Gamers, ClaimReward(g) \/ ClaimRefund(g)
        PROVE  SeasonStep
    BY <2>2, ClaimRewardStep, ClaimRefundStep
  <2> QED
    BY <1>1, <2>1, <2>2 DEF GamerNext
<1>2. CASE AdminNext
  <2>1. ASSUME NEW t \in PoolTypes, SetPoolTypeParams(t)
        PROVE  SeasonStep
    BY <2>1, QuietStep DEF SetPoolTypeParams
  <2>2. ASSUME Len(pools) < MaxPools, NEW t \in PoolTypes, CreatePool(t)
        PROVE  SeasonStep
    BY <2>2, CreatePoolStep
  <2>3. CASE LockGame \/ CancelGame
    BY <2>3, LockGameStep, CancelGameStep
  <2>4. ASSUME NEW p \in DOMAIN pools, NEW list \in WinnerLists,
               NEW final \in BOOLEAN, NEW rake \in RakeAmounts,
               GamePoolRewardDistribute(p, list, final, rake)
        PROVE  SeasonStep
    BY <2>4, DistributeStep
  <2>5. ASSUME NEW p \in DOMAIN pools, NEW amount \in SwapAmounts, Swap(p, amount)
        PROVE  SeasonStep
    BY <2>5, QuietStep DEF Swap
  <2>6. ASSUME NEW amount \in SweepAmounts, ExecuteSweep(amount)
        PROVE  SeasonStep
    BY <2>6, QuietStep DEF ExecuteSweep
  <2> QED
    BY <1>2, <2>1, <2>2, <2>3, <2>4, <2>5, <2>6 DEF AdminNext
<1>3. CASE Deposit
  BY <1>3, QuietStep DEF Deposit
<1>4. CASE UNCHANGED seasonVars
  BY <1>4, QuietStep DEF seasonVars, gameVars
<1> QED
  BY <1>1, <1>2, <1>3, <1>4 DEF SeasonNext, GameNext

\* In every behaviour of the contract the invariant holds and every step keeps
\* the teams and the finished pools.
THEOREM SeasonInvHolds == SeasonSpec => []SeasonInv
<1>1. SeasonInit => SeasonInv
  BY SeasonInvInit
<1>2. SeasonInv /\ [SeasonNext]_seasonVars => SeasonInv'
  BY SeasonInvNext DEF SeasonStep
<1> QED
  BY <1>1, <1>2, PTL DEF SeasonSpec

\* Refunds stay due: however the game is locked, cancelled and rewarded, every
\* pool of a cancelled game, and every unfilled pool of a locked one that got
\* no rewards, is flagged for refund.
THEOREM RefundsStayDueHolds == SeasonSpec => []RefundsStayDue
<1>1. SeasonInv => RefundsStayDue
  BY DEF SeasonInv
<1> QED
  BY <1>1, SeasonInvHolds, PTL

\* No message loses a team, exchanges it, or takes back that it was claimed.
THEOREM TeamsOnlyGrowHolds == SeasonSpec => TeamsOnlyGrow
<1>1. SeasonInv /\ [SeasonNext]_seasonVars => [Grown]_seasonVars
  BY SeasonInvNext DEF SeasonStep
<1>2. [Grown]_seasonVars
        <=> [\A p \in 1..MaxPools, g \in Gamers : TeamsKept(p, g)]_seasonVars
  BY DEF Grown
<1> QED
  BY <1>1, <1>2, SeasonInvHolds, PTL DEF SeasonSpec, TeamsOnlyGrow

\* What was settled by the final batch of a pool stays as it is, whatever is
\* sent for other pools and whatever is claimed.
THEOREM FinishedPoolsSettledHolds == SeasonSpec => FinishedPoolsSettled
<1>1. SeasonInv /\ [SeasonNext]_seasonVars => [Settled]_seasonVars
  BY SeasonInvNext DEF SeasonStep
<1>2. [Settled]_seasonVars
        <=> [\A p \in DOMAIN pools :
               pools[p].distributed => StaysFinished(p)]_seasonVars
  BY DEF Settled
<1> QED
  BY <1>1, <1>2, SeasonInvHolds, PTL DEF SeasonSpec, FinishedPoolsSettled

=============================================================================
