--------------------------- MODULE GameClaimsProofs ---------------------------
(***************************************************************************)
(* What the gamers of the gamingpool contract are told and paid, for any   *)
(* gamers, pool types, fees and lists of winners, and any number of pools: *)
(* teams are counted, rewards told are due, claims settle them, and no     *)
(* team is both refunded and rewarded unless its pool changed hands.       *)
(*                                                                         *)
(* The invariant ties the teams of a pool to the flags of the pool, which  *)
(* bids, locking, batches and cancelling rewrite without looking at them.  *)
(***************************************************************************)
EXTENDS GameSeasonProofs, Sums

\* Teams are stored only for pools that were created.
NoStrayTeams ==
    \A p \in 1..MaxPools, g \in Gamers :
       p \notin DOMAIN pools => Len(teams[p][g]) = 0

\* No pool of an open game is flagged: a bid, which takes the flags of its pool
\* away, takes away nothing.
OpenIsUnflagged ==
    status = "open" =>
       \A p \in DOMAIN pools : ~pools[p].refund /\ ~pools[p].reward

\* As long as no pool was given over, what its teams have claimed is what the
\* pool is flagged for, and it is flagged for one thing only.
ClaimsFollowFlags ==
    ~mixed =>
       \A p \in DOMAIN pools :
          /\ ~(pools[p].refund /\ pools[p].reward)
          /\ \A g \in Gamers : \A i \in DOMAIN teams[p][g] :
                /\ teams[p][g][i].claimedRefund => pools[p].refund
                /\ teams[p][g][i].claimedReward => pools[p].reward

\* A team with a reward is in a pool that is flagged for rewards.
RewardsFollowFlags ==
    \A p \in DOMAIN pools, g \in Gamers : \A i \in DOMAIN teams[p][g] :
       teams[p][g][i].reward # 0 => pools[p].reward

ClaimsInv ==
    /\ TeamsCounted
    /\ NoStrayTeams
    /\ OpenIsUnflagged
    /\ ClaimsFollowFlags
    /\ RewardsFollowFlags
    /\ FlaggedTypesKnown
    /\ types \subseteq PoolTypes

-----------------------------------------------------------------------------
(***************************************************************************)
(* What the steps change.                                                  *)
(***************************************************************************)

\* A pool that is given over makes the season mixed.
MixedKept ==
    ~mixed' => ~mixed /\ \A p \in DOMAIN pools : ~GivenOver(p)

LEMMA TeamsOfPools ==
    ASSUME SeasonInv
    PROVE  /\ \A p \in 1..MaxPools, g \in Gamers :
                 /\ teams[p][g] \in Seq(Team)
                 /\ Len(teams[p][g]) \in Nat
                 /\ DOMAIN teams[p][g] = 1..Len(teams[p][g])
                 /\ \A i \in DOMAIN teams[p][g] : teams[p][g][i] \in Team
           /\ \A p \in DOMAIN pools : p \in 1..MaxPools /\ pools[p] \in Pool
<1>1. ASSUME NEW p \in 1..MaxPools, NEW g \in Gamers
      PROVE  /\ teams[p][g] \in Seq(Team)
             /\ Len(teams[p][g]) \in Nat
             /\ DOMAIN teams[p][g] = 1..Len(teams[p][g])
             /\ \A i \in DOMAIN teams[p][g] : teams[p][g][i] \in Team
  <2>1. teams[p][g] \in Seq(Team)
    BY <1>1 DEF SeasonInv, TeamsTyped
  <2> HIDE DEF Team
  <2> QED
    BY <2>1, LenProperties, ElementOfSeq
<1> QED
  BY <1>1, PoolNumbers DEF SeasonInv

SameDomains ==
    \A p \in 1..MaxPools, g \in Gamers : DOMAIN teams'[p][g] = DOMAIN teams[p][g]

\* When pools and their teams are only rewritten, the counts stay right.
LEMMA CountsStay ==
    ASSUME SeasonInv, SeasonInv', TeamsCounted, NoStrayTeams, SameDomains,
           DOMAIN pools' = DOMAIN pools,
           \A p \in DOMAIN pools : /\ pools'[p].count = pools[p].count
                                   /\ pools'[p].type = pools[p].type
    PROVE  TeamsCounted' /\ NoStrayTeams'
<1>1. ASSUME NEW p \in 1..MaxPools, NEW g \in Gamers
      PROVE  Len(teams'[p][g]) = Len(teams[p][g])
  <2>1. DOMAIN teams[p][g] = 1..Len(teams[p][g]) /\ Len(teams[p][g]) \in Nat
    BY <1>1, TeamsOfPools
  <2>2. DOMAIN teams'[p][g] = 1..Len(teams'[p][g]) /\ Len(teams'[p][g]) \in Nat
    BY <1>1, LenProperties DEF SeasonInv, TeamsTyped
  <2> QED
    BY <1>1, <2>1, <2>2 DEF SameDomains
<1>2. NoStrayTeams'
  BY <1>1 DEF NoStrayTeams
<1>3. ASSUME NEW p \in DOMAIN pools
      PROVE  [g \in Gamers |-> Len(teams'[p][g])] = [g \in Gamers |-> Len(teams[p][g])]
  BY <1>1, <1>3, TeamsOfPools
<1>4. TeamsCounted'
  BY <1>3 DEF TeamsCounted
<1> QED
  BY <1>2, <1>4

\* Claims leave the pools alone.
LEMMA ClaimRewardKeeps ==
    ASSUME SeasonInv, SeasonInv', ClaimsInv, MixedKept,
           NEW h \in Gamers, ClaimReward(h)
    PROVE  ClaimsInv'
<1> USE DEF ClaimsInv
<1>1. /\ pools' = pools /\ status' = status /\ types' = types
      /\ \A p \in 1..MaxPools, g \in Gamers : teams'[p][g] = ClaimedBy(h, p, g)
  BY ClaimedTeams DEF ClaimReward, SeasonInv
<1>2. SameDomains
  <2>1. \A p \in 1..MaxPools, g \in Gamers :
           DOMAIN ClaimedBy(h, p, g) = DOMAIN teams[p][g]
    BY DEF ClaimedBy
  <2> QED
    BY <1>1, <2>1 DEF SameDomains
<1>3. ASSUME NEW p \in DOMAIN pools, NEW g \in Gamers, NEW i \in DOMAIN teams[p][g]
      PROVE  /\ teams'[p][g][i].reward = teams[p][g][i].reward
             /\ teams'[p][g][i].claimedRefund = teams[p][g][i].claimedRefund
             /\ teams'[p][g][i].claimedReward
                  => teams[p][g][i].claimedReward \/ pools[p].reward
  <2>1. p \in 1..MaxPools /\ teams[p][g][i] \in Team
    BY <1>3, TeamsOfPools
  <2>2. teams'[p][g] = ClaimedBy(h, p, g)
    BY <1>1, <2>1
  <2>3. \/ ClaimedBy(h, p, g)[i] = teams[p][g][i]
        \/ ClaimedBy(h, p, g)[i] = AsClaimed(teams[p][g][i]) /\ pools[p].reward
    BY <1>3 DEF ClaimedBy
  <2> QED
    BY <2>1, <2>2, <2>3 DEF AsClaimed, Team
<1>4. \A p \in DOMAIN pools, g \in Gamers : DOMAIN teams'[p][g] = DOMAIN teams[p][g]
  BY <1>2, TeamsOfPools DEF SameDomains
<1>5. TeamsCounted' /\ NoStrayTeams'
  BY <1>1, <1>2, CountsStay
<1>6. ClaimsFollowFlags'
  BY <1>1, <1>3, <1>4 DEF ClaimsFollowFlags, MixedKept
<1>7. RewardsFollowFlags'
  BY <1>1, <1>3, <1>4 DEF RewardsFollowFlags
<1>8. OpenIsUnflagged' /\ FlaggedTypesKnown'
  BY <1>1 DEF OpenIsUnflagged, FlaggedTypesKnown, FlaggedPools
<1> QED
  BY <1>1, <1>5, <1>6, <1>7, <1>8

LEMMA ClaimRefundKeeps ==
    ASSUME SeasonInv, SeasonInv', ClaimsInv, MixedKept,
           NEW h \in Gamers, ClaimRefund(h)
    PROVE  ClaimsInv'
<1> USE DEF ClaimsInv
<1>1. /\ pools' = pools /\ status' = status /\ types' = types
      /\ \A p \in 1..MaxPools, g \in Gamers : teams'[p][g] = RefundedBy(h, p, g)
  BY RefundedTeams DEF ClaimRefund, SeasonInv
<1>2. SameDomains
  <2>1. \A p \in 1..MaxPools, g \in Gamers :
           DOMAIN RefundedBy(h, p, g) = DOMAIN teams[p][g]
    BY DEF RefundedBy
  <2> QED
    BY <1>1, <2>1 DEF SameDomains
<1>3. ASSUME NEW p \in DOMAIN pools, NEW g \in Gamers, NEW i \in DOMAIN teams[p][g]
      PROVE  /\ teams'[p][g][i].reward = teams[p][g][i].reward
             /\ teams'[p][g][i].claimedReward = teams[p][g][i].claimedReward
             /\ teams'[p][g][i].claimedRefund
                  => teams[p][g][i].claimedRefund \/ pools[p].refund
  <2>1. p \in 1..MaxPools /\ teams[p][g][i] \in Team
    BY <1>3, TeamsOfPools
  <2>2. teams'[p][g] = RefundedBy(h, p, g)
    BY <1>1, <2>1
  <2>3. \/ RefundedBy(h, p, g)[i] = teams[p][g][i]
        \/ RefundedBy(h, p, g)[i] = AsRefunded(teams[p][g][i], p) /\ pools[p].refund
    BY <1>3 DEF RefundedBy, FlaggedPools
  <2> QED
    BY <2>1, <2>2, <2>3 DEF AsRefunded, Team
<1>4. \A p \in DOMAIN pools, g \in Gamers : DOMAIN teams'[p][g] = DOMAIN teams[p][g]
  BY <1>2, TeamsOfPools DEF SameDomains
<1>5. TeamsCounted' /\ NoStrayTeams'
  BY <1>1, <1>2, CountsStay
<1>6. ClaimsFollowFlags'
  BY <1>1, <1>3, <1>4 DEF ClaimsFollowFlags, MixedKept
<1>7. RewardsFollowFlags'
  BY <1>1, <1>3, <1>4 DEF RewardsFollowFlags
<1>8. OpenIsUnflagged' /\ FlaggedTypesKnown'
  BY <1>1 DEF OpenIsUnflagged, FlaggedTypesKnown, FlaggedPools
<1> QED
  BY <1>1, <1>5, <1>6, <1>7, <1>8

\* Locking and cancelling flag pools, whose types are then known.
LEMMA FlaggingKeeps ==
    ASSUME SeasonInv, SeasonInv', ClaimsInv, MixedKept,
           status' # "open", types' = types, teams' = teams, TypesKnown,
           DOMAIN pools' = DOMAIN pools,
           \A p \in DOMAIN pools :
              /\ pools'[p] = [pools[p] EXCEPT !.refund = pools'[p].refund]
              /\ pools[p].refund => pools'[p].refund
    PROVE  ClaimsInv'
<1> USE DEF ClaimsInv
<1>1. ASSUME NEW p \in DOMAIN pools
      PROVE  /\ pools'[p].count = pools[p].count
             /\ pools'[p].type = pools[p].type
             /\ pools'[p].reward = pools[p].reward
             /\ pools[p].refund => pools'[p].refund
             /\ pools[p].type \in types
  BY <1>1, TeamsOfPools DEF Pool, TypesKnown
<1>2. SameDomains
  BY DEF SameDomains
<1>3. TeamsCounted' /\ NoStrayTeams'
  BY <1>1, <1>2, CountsStay
<1>4. ClaimsFollowFlags'
  BY <1>1 DEF ClaimsFollowFlags, MixedKept, GivenOver
<1>5. RewardsFollowFlags'
  BY <1>1 DEF RewardsFollowFlags
<1>6. FlaggedTypesKnown'
  BY <1>1 DEF FlaggedTypesKnown, FlaggedPools
<1>7. OpenIsUnflagged'
  BY DEF OpenIsUnflagged
<1> QED
  BY <1>3, <1>4, <1>5, <1>6, <1>7

LEMMA LockGameKeeps ==
    ASSUME SeasonInv, SeasonInv', ClaimsInv, MixedKept, LockGame
    PROVE  ClaimsInv'
<1>1. /\ status' # "open" /\ types' = types /\ teams' = teams /\ TypesKnown
      /\ DOMAIN pools' = DOMAIN pools
  BY DEF LockGame
<1>2. ASSUME NEW p \in DOMAIN pools
      PROVE  /\ pools'[p] = [pools[p] EXCEPT !.refund = pools'[p].refund]
             /\ pools[p].refund => pools'[p].refund
  BY <1>2, TeamsOfPools DEF LockGame, FlagUnfilled, Pool
<1> QED
  BY <1>1, <1>2, FlaggingKeeps

LEMMA CancelGameKeeps ==
    ASSUME SeasonInv, SeasonInv', ClaimsInv, MixedKept, CancelGame
    PROVE  ClaimsInv'
<1>1. /\ status' # "open" /\ types' = types /\ teams' = teams /\ TypesKnown
      /\ DOMAIN pools' = DOMAIN pools
  BY DEF CancelGame
<1>2. ASSUME NEW p \in DOMAIN pools
      PROVE  /\ pools'[p] = [pools[p] EXCEPT !.refund = pools'[p].refund]
             /\ pools[p].refund => pools'[p].refund
  BY <1>2, TeamsOfPools DEF CancelGame, FlagForRefund, Pool
<1> QED
  BY <1>1, <1>2, FlaggingKeeps

\* A pool without teams has none to count, and is full at once when its type
\* allows none.
LEMMA CreatePoolKeeps ==
    ASSUME SeasonInv, SeasonInv', ClaimsInv, MixedKept,
           NEW t \in PoolTypes, Len(pools) < MaxPools, CreatePool(t)
    PROVE  ClaimsInv'
<1> USE DEF ClaimsInv
<1> DEFINE q == Len(pools) + 1
<1>1. /\ DOMAIN pools' = 1..q
      /\ \A p \in DOMAIN pools : p \in DOMAIN pools' /\ pools'[p] = pools[p]
      /\ pools'[q] = NewPool(t)
  BY CreatedPool DEF CreatePool, SeasonInv
<1>2. /\ DOMAIN pools = 1..Len(pools) /\ Len(pools) \in Nat /\ MaxPools \in Nat
      /\ status = "open" /\ status' = "open" /\ types' = types /\ teams' = teams
  BY PoolNumbers DEF CreatePool, SeasonInv
<1>3. \A p \in DOMAIN pools' : p \in DOMAIN pools \/ p = q
  BY <1>1, <1>2
<1>4. q \in 1..MaxPools /\ q \notin DOMAIN pools
  BY <1>2
<1>5. ASSUME NEW g \in Gamers
      PROVE  Len(teams[q][g]) = 0 /\ DOMAIN teams[q][g] = {}
  <2>1. Len(teams[q][g]) = 0
    BY <1>4, <1>5 DEF NoStrayTeams
  <2>2. DOMAIN teams[q][g] = 1..Len(teams[q][g])
    BY <1>4, <1>5, TeamsOfPools
  <2> QED
    BY <2>1, <2>2
<1> HIDE DEF q
<1>6. TeamsCounted'
  <2> SUFFICES ASSUME NEW p \in DOMAIN pools'
               PROVE  /\ pools'[p].count = SumFunction([g \in Gamers |-> Len(teams[p][g])])
                      /\ \A s \in PoolTypes :
                            pools'[p].type = s => pools'[p].count <= Params[s].maxTeams
    BY <1>2 DEF TeamsCounted
  <2>1. CASE p \in DOMAIN pools
    BY <1>1, <2>1 DEF TeamsCounted
  <2>2. CASE p = q
    <3> DEFINE lens == [g \in Gamers |-> Len(teams[q][g])]
    <3>1. DOMAIN lens = Gamers /\ IsFiniteSet(Gamers) /\ \A g \in Gamers : lens[g] = 0
      BY <1>5, GameAssumption
    <3> HIDE DEF lens
    <3>2. SumFunction(lens) = 0
      BY <3>1, SumOfZeros DEF SumFunction
    <3>3. pools'[q].count = 0 /\ pools'[q].type = t /\ Params[t].maxTeams \in Nat
      BY <1>1, GameAssumption DEF NewPool, ParamsType
    <3> QED
      BY <2>2, <3>2, <3>3 DEF lens
  <2> QED
    BY <1>3, <2>1, <2>2
<1>7. NoStrayTeams'
  BY <1>1, <1>2 DEF NoStrayTeams
<1>8. pools'[q].refund = FALSE /\ pools'[q].reward = FALSE
  BY <1>1 DEF NewPool
<1>9. OpenIsUnflagged'
  BY <1>1, <1>2, <1>3, <1>8 DEF OpenIsUnflagged
<1>10. ClaimsFollowFlags'
  BY <1>1, <1>2, <1>3, <1>5, <1>8 DEF ClaimsFollowFlags, MixedKept
<1>11. RewardsFollowFlags'
  BY <1>1, <1>2, <1>3, <1>5, <1>8 DEF RewardsFollowFlags
<1>12. FlaggedTypesKnown'
  BY <1>2, <1>9 DEF FlaggedTypesKnown, FlaggedPools, OpenIsUnflagged
<1> QED
  BY <1>2, <1>6, <1>7, <1>9, <1>10, <1>11, <1>12

\* A bid adds a team without a claim to a pool without flags, which had room.
LEMMA BidKeeps ==
    ASSUME SeasonInv, SeasonInv', ClaimsInv, MixedKept,
           NEW h \in Gamers, NEW t \in PoolTypes, NEW q \in DOMAIN pools,
           NEW id \in TeamIds, GamePoolBidSubmit(h, t, q, id)
    PROVE  ClaimsInv'
<1>1. /\ DOMAIN pools' = DOMAIN pools
      /\ \A p \in DOMAIN pools :
            pools'[p] = IF p = q THEN Entered(pools[q], t) ELSE pools[p]
  BY BidEffect
<1> USE DEF ClaimsInv
<1>2. /\ pools[q] \in Pool /\ q \in 1..MaxPools
      /\ \A p \in DOMAIN pools : p \in 1..MaxPools
      /\ status = "open" /\ status' = "open" /\ types' = types
      /\ pools[q].count < Params[t].maxTeams
      /\ teams' = [teams EXCEPT ![q][h] = Append(@, NewTeam(id))]
  BY TeamsOfPools DEF GamePoolBidSubmit
<1>3. Entered(pools[q], t) = [pools[q] EXCEPT !.type = t, !.count = pools[q].count + 1,
                                             !.refund = FALSE, !.reward = FALSE]
  BY <1>2 DEF Entered, Pool
<1>4. /\ Entered(pools[q], t).count = pools[q].count + 1
      /\ Entered(pools[q], t).type = t
      /\ ~Entered(pools[q], t).refund /\ ~Entered(pools[q], t).reward
      /\ pools[q].count \in Nat
  BY <1>2, <1>3 DEF Pool
<1> DEFINE new == Append(teams[q][h], NewTeam(id))
           n == Len(teams[q][h]) + 1
<1>5. /\ Len(new) = n /\ n \in Nat /\ DOMAIN new = DOMAIN teams[q][h] \cup {n}
      /\ \A i \in DOMAIN teams[q][h] : new[i] = teams[q][h][i]
      /\ new[n] = NewTeam(id)
  <2>1. NewTeam(id) \in Team
    BY DEF NewTeam, Team
  <2>2. /\ teams[q][h] \in Seq(Team) /\ Len(teams[q][h]) \in Nat
        /\ DOMAIN teams[q][h] = 1..Len(teams[q][h])
    BY <1>2, TeamsOfPools
  <2>3. /\ new \in Seq(Team) /\ Len(new) = n
        /\ \A i \in 1..Len(teams[q][h]) : new[i] = teams[q][h][i]
        /\ new[n] = NewTeam(id)
    BY <2>1, <2>2, AppendProperties
  <2>4. DOMAIN new = 1..n
    BY <2>3, LenProperties
  <2> QED
    BY <2>2, <2>3, <2>4
<1>6. \A p \in 1..MaxPools, g \in Gamers :
         teams'[p][g] = IF p = q /\ g = h THEN new ELSE teams[p][g]
  BY <1>2 DEF SeasonInv, TeamsTyped
<1> HIDE DEF new, n
<1>7. TeamsCounted'
  <2> SUFFICES ASSUME NEW p \in DOMAIN pools
               PROVE  /\ pools'[p].count = SumFunction([g \in Gamers |-> Len(teams'[p][g])])
                      /\ \A s \in PoolTypes :
                            pools'[p].type = s => pools'[p].count <= Params[s].maxTeams
    BY <1>1 DEF TeamsCounted
  <2> DEFINE old == [g \in Gamers |-> Len(teams[p][g])]
             lens == [g \in Gamers |-> Len(teams'[p][g])]
  <2>1. CASE p # q
    <3>1. lens = old
      BY <1>2, <1>6, <2>1
    <3> HIDE DEF lens, old
    <3>2. /\ pools[p].count = SumFunction(old)
          /\ \A s \in PoolTypes :
                pools[p].type = s => pools[p].count <= Params[s].maxTeams
      BY DEF TeamsCounted, old
    <3> QED
      BY <1>1, <2>1, <3>1, <3>2 DEF lens
  <2>2. CASE p = q
    <3>1. /\ \A g \in Gamers : old[g] \in Int /\ lens[g] \in Int
          /\ \A g \in Gamers \ {h} : lens[g] = old[g]
          /\ lens[h] = old[h] + 1
          /\ DOMAIN lens = Gamers /\ DOMAIN old = Gamers
          /\ IsFiniteSet(Gamers)
      BY <1>2, <1>5, <1>6, <2>2, TeamsOfPools, GameAssumption DEF n
    <3>2. pools[q].count = SumFunctionOnSet(old, Gamers)
      BY <2>2 DEF TeamsCounted, SumFunction
    <3> HIDE DEF lens, old
    <3>3. SumFunctionOnSet(lens, Gamers) = SumFunctionOnSet(old, Gamers) - old[h] + lens[h]
      BY <3>1, SumChanges
    <3>4. pools'[p].count = pools[q].count + 1 /\ pools'[p].type = t
      BY <1>1, <1>4, <2>2
    <3>5. pools'[p].count = SumFunction(lens)
      BY <1>4, <3>1, <3>2, <3>3, <3>4 DEF SumFunction
    <3>6. pools[q].count + 1 <= Params[t].maxTeams
      <4>1. Params[t].maxTeams \in Nat
        BY GameAssumption DEF ParamsType
      <4> QED
        BY <1>2, <1>4, <4>1
    <3> QED
      BY <3>4, <3>5, <3>6 DEF lens
  <2> QED
    BY <2>1, <2>2
<1>8. NoStrayTeams'
  BY <1>1, <1>2, <1>6 DEF NoStrayTeams
<1>9. OpenIsUnflagged'
  BY <1>1, <1>2, <1>4 DEF OpenIsUnflagged
<1>10. ASSUME NEW p \in DOMAIN pools, NEW g \in Gamers, NEW i \in DOMAIN teams'[p][g]
       PROVE  \/ i \in DOMAIN teams[p][g] /\ teams'[p][g][i] = teams[p][g][i]
              \/ teams'[p][g][i] = NewTeam(id)
  <2>1. teams'[p][g] = IF p = q /\ g = h THEN new ELSE teams[p][g]
    BY <1>2, <1>6
  <2> QED
    BY <1>5, <1>10, <2>1
<1>11. \A p \in DOMAIN pools : ~pools[p].refund /\ ~pools[p].reward
  BY <1>2 DEF OpenIsUnflagged
<1>12. ClaimsFollowFlags'
  <2>1. ASSUME ~mixed', NEW p \in DOMAIN pools, NEW g \in Gamers,
               NEW i \in DOMAIN teams'[p][g]
        PROVE  ~teams'[p][g][i].claimedRefund /\ ~teams'[p][g][i].claimedReward
    <3>1. CASE teams'[p][g][i] = NewTeam(id)
      BY <3>1 DEF NewTeam
    <3>2. CASE i \in DOMAIN teams[p][g] /\ teams'[p][g][i] = teams[p][g][i]
      BY <1>11, <2>1, <3>2 DEF ClaimsFollowFlags, MixedKept
    <3> QED
      BY <1>10, <2>1, <3>1, <3>2
  <2>2. \A p \in DOMAIN pools : ~pools'[p].refund
    BY <1>1, <1>2, <1>9 DEF OpenIsUnflagged
  <2> QED
    BY <1>1, <2>1, <2>2 DEF ClaimsFollowFlags
<1>13. RewardsFollowFlags'
  BY <1>1, <1>2, <1>10, <1>11 DEF RewardsFollowFlags, NewTeam
<1>14. FlaggedTypesKnown'
  BY <1>2, <1>9 DEF FlaggedTypesKnown, FlaggedPools, OpenIsUnflagged
<1> QED
  BY <1>2, <1>7, <1>8, <1>9, <1>12, <1>13, <1>14

\* A batch takes the refund flag of its pool away, and makes the season mixed if
\* there was one.
LEMMA DistributeKeeps ==
    ASSUME SeasonInv, SeasonInv', ClaimsInv, MixedKept,
           NEW q \in DOMAIN pools, NEW list, NEW final \in BOOLEAN, NEW rake,
           GamePoolRewardDistribute(q, list, final, rake)
    PROVE  ClaimsInv'
<1>1. /\ DOMAIN pools' = DOMAIN pools
      /\ \A p \in DOMAIN pools :
            pools'[p] = IF p = q THEN Batched(pools[q], final) ELSE pools[p]
      /\ \A p \in 1..MaxPools, g \in Gamers :
            teams'[p][g] = IF p = q THEN Rewarded(teams[q][g], list, g)
                           ELSE teams[p][g]
  BY DistributeEffect
<1> USE DEF ClaimsInv
<1>2. /\ status' # "open" /\ types' = types
      /\ \A p \in DOMAIN pools : p \in 1..MaxPools /\ pools[p] \in Pool
  BY TeamsOfPools DEF GamePoolRewardDistribute
<1>3. /\ Batched(pools[q], final).count = pools[q].count
      /\ Batched(pools[q], final).type = pools[q].type
      /\ ~Batched(pools[q], final).refund /\ Batched(pools[q], final).reward
  BY <1>2 DEF Batched, Pool
<1>4. SameDomains
  <2>1. \A g \in Gamers : DOMAIN Rewarded(teams[q][g], list, g) = DOMAIN teams[q][g]
    BY DEF Rewarded
  <2> QED
    BY <1>1, <2>1 DEF SameDomains
<1>5. TeamsCounted' /\ NoStrayTeams'
  BY <1>1, <1>3, <1>4, CountsStay
<1>6. ASSUME NEW p \in DOMAIN pools, NEW g \in Gamers, NEW i \in DOMAIN teams[p][g]
      PROVE  /\ teams'[p][g][i].claimedReward = teams[p][g][i].claimedReward
             /\ teams'[p][g][i].claimedRefund = teams[p][g][i].claimedRefund
             /\ p # q => teams'[p][g][i] = teams[p][g][i]
  <2>1. p \in 1..MaxPools /\ teams[p][g][i] \in Team
    BY <1>6, TeamsOfPools
  <2>2. CASE p = q
    <3> DEFINE team == teams[p][g][i]
    <3>1. teams'[p][g] = Rewarded(teams[p][g], list, g)
      BY <1>1, <1>6, <2>1, <2>2
    <3>2. Rewarded(teams[p][g], list, g)[i] =
            IF Decisive(list, g, team.id) = {} THEN team
            ELSE [team EXCEPT !.reward = RewardIn(list, g, team.id)]
      BY <1>6 DEF Rewarded
    <3> QED
      BY <2>1, <2>2, <3>1, <3>2 DEF Team
  <2>3. CASE p # q
    BY <1>1, <1>6, <2>1, <2>3
  <2> QED
    BY <2>2, <2>3
<1>7. \A p \in DOMAIN pools, g \in Gamers : DOMAIN teams'[p][g] = DOMAIN teams[p][g]
  BY <1>2, <1>4 DEF SameDomains
<1>8. ClaimsFollowFlags'
  <2> SUFFICES ASSUME ~mixed', NEW p \in DOMAIN pools
               PROVE  /\ ~(pools'[p].refund /\ pools'[p].reward)
                      /\ \A g \in Gamers : \A i \in DOMAIN teams[p][g] :
                            /\ teams'[p][g][i].claimedRefund => pools'[p].refund
                            /\ teams'[p][g][i].claimedReward => pools'[p].reward
    BY <1>1, <1>7 DEF ClaimsFollowFlags
  <2>1. ~mixed /\ ~GivenOver(p)
    BY DEF MixedKept
  <2>2. CASE p = q
    <3>1. ~pools[p].refund
      BY <1>1, <1>3, <2>1, <2>2 DEF GivenOver
    <3> QED
      BY <1>1, <1>3, <1>6, <2>1, <2>2, <3>1 DEF ClaimsFollowFlags
  <2>3. CASE p # q
    BY <1>1, <1>6, <2>1, <2>3 DEF ClaimsFollowFlags
  <2> QED
    BY <2>2, <2>3
<1>9. RewardsFollowFlags'
  BY <1>1, <1>3, <1>6, <1>7 DEF RewardsFollowFlags
<1>10. FlaggedTypesKnown'
  BY <1>1, <1>2, <1>3 DEF FlaggedTypesKnown, FlaggedPools
<1>11. OpenIsUnflagged'
  BY <1>2 DEF OpenIsUnflagged
<1> QED
  BY <1>2, <1>5, <1>8, <1>9, <1>10, <1>11

LEMMA QuietKeeps ==
    ASSUME SeasonInv, SeasonInv', ClaimsInv, MixedKept,
           UNCHANGED <<status, pools, teams>>,
           types \subseteq types', types' \subseteq PoolTypes
    PROVE  ClaimsInv'
<1> USE DEF ClaimsInv
<1>1. SameDomains
  BY DEF SameDomains
<1>2. TeamsCounted' /\ NoStrayTeams'
  BY <1>1, CountsStay
<1>3. ClaimsFollowFlags'
  BY DEF ClaimsFollowFlags, MixedKept
<1>4. RewardsFollowFlags' /\ OpenIsUnflagged'
  BY DEF RewardsFollowFlags, OpenIsUnflagged
<1>5. FlaggedTypesKnown'
  BY DEF FlaggedTypesKnown, FlaggedPools
<1> QED
  BY <1>2, <1>3, <1>4, <1>5

-----------------------------------------------------------------------------
(***************************************************************************)
(* The invariant holds.                                                    *)
(***************************************************************************)
LEMMA ClaimsInvInit ==
    ASSUME SeasonInit
    PROVE  ClaimsInv
<1>1. /\ DOMAIN pools = {} /\ types = {}
      /\ \A p \in 1..MaxPools, g \in Gamers : Len(teams[p][g]) = 0
  BY EmptySeq DEF SeasonInit, GameInit
<1> QED
  BY <1>1 DEF ClaimsInv, TeamsCounted, NoStrayTeams, OpenIsUnflagged,
              ClaimsFollowFlags, RewardsFollowFlags, FlaggedTypesKnown, FlaggedPools

LEMMA ClaimsInvNext ==
    ASSUME SeasonInv, SeasonInv', ClaimsInv, [SeasonNext]_seasonVars
    PROVE  ClaimsInv'
<1>0. MixedKept
  <2>1. CASE SeasonNext
    BY <2>1 DEF SeasonNext, MixedKept
  <2>2. CASE UNCHANGED seasonVars
    <3>1. mixed' = mixed /\ pools' = pools
      BY <2>2 DEF seasonVars, gameVars
    <3> QED
      BY <3>1 DEF MixedKept, GivenOver, ClaimsInv, ClaimsFollowFlags
  <2> QED
    BY <2>1, <2>2
<1>1. CASE GamerNext
  <2>1. ASSUME NEW g \in Gamers, NEW t \in PoolTypes, NEW p \in DOMAIN pools,
               NEW id \in TeamIds, GamePoolBidSubmit(g, t, p, id)
        PROVE  ClaimsInv'
    BY <1>0, <2>1, BidKeeps
  <2>2. ASSUME NEW g \in Gamers, ClaimReward(g)
        PROVE  ClaimsInv'
    BY <1>0, <2>2, ClaimRewardKeeps
  <2>3. ASSUME NEW g \in Gamers, ClaimRefund(g)
        PROVE  ClaimsInv'
    BY <1>0, <2>3, ClaimRefundKeeps
  <2> QED
    BY <1>1, <2>1, <2>2, <2>3 DEF GamerNext
<1>2. CASE AdminNext
  <2>1. ASSUME NEW t \in PoolTypes, SetPoolTypeParams(t)
        PROVE  ClaimsInv'
    <3>1. /\ UNCHANGED <<status, pools, teams>>
          /\ types \subseteq types' /\ types' \subseteq PoolTypes
      BY <2>1 DEF SetPoolTypeParams, ClaimsInv
    <3> QED
      BY <1>0, <3>1, QuietKeeps
  <2>2. ASSUME Len(pools) < MaxPools, NEW t \in PoolTypes, CreatePool(t)
        PROVE  ClaimsInv'
    BY <1>0, <2>2, CreatePoolKeeps
  <2>3. CASE LockGame \/ CancelGame
    BY <1>0, <2>3, LockGameKeeps, CancelGameKeeps
  <2>4. ASSUME NEW p \in DOMAIN pools, NEW list \in WinnerLists,
               NEW final \in BOOLEAN, NEW rake \in RakeAmounts,
               GamePoolRewardDistribute(p, list, final, rake)
        PROVE  ClaimsInv'
    BY <1>0, <2>4, DistributeKeeps
  <2>5. ASSUME \/ \E p \in DOMAIN pools, amount \in SwapAmounts : Swap(p, amount)
               \/ \E amount \in SweepAmounts : ExecuteSweep(amount)
        PROVE  ClaimsInv'
    <3>1. UNCHANGED <<status, pools, teams, types>> /\ types \subseteq PoolTypes
      BY <2>5 DEF Swap, ExecuteSweep, ClaimsInv
    <3> QED
      BY <1>0, <3>1, QuietKeeps
  <2> QED
    BY <1>2, <2>1, <2>2, <2>3, <2>4, <2>5 DEF AdminNext
<1>3. CASE Deposit \/ UNCHANGED seasonVars
  <2>1. UNCHANGED <<status, pools, teams, types>> /\ types \subseteq PoolTypes
    BY <1>3 DEF Deposit, seasonVars, gameVars, ClaimsInv
  <2> QED
    BY <1>0, <2>1, QuietKeeps
<1> QED
  BY <1>1, <1>2, <1>3 DEF SeasonNext, GameNext

LEMMA ClaimsInvHolds == SeasonSpec => [](SeasonInv /\ ClaimsInv)
<1>1. SeasonInit => ClaimsInv
  BY ClaimsInvInit
<1>2. SeasonInv /\ SeasonInv' /\ ClaimsInv /\ [SeasonNext]_seasonVars => ClaimsInv'
  BY ClaimsInvNext
<1> QED
  BY <1>1, <1>2, SeasonInvHolds, PTL DEF SeasonSpec

\* The number of teams of a pool is the number of teams stored for its gamers,
\* and never more than its type allows.
THEOREM TeamsCountedHolds == SeasonSpec => []TeamsCounted
<1>1. ClaimsInv => TeamsCounted
  BY DEF ClaimsInv
<1> QED
  BY <1>1, ClaimsInvHolds, PTL

\* As long as no pool was given over, no team claims a refund and a reward.
THEOREM RefundXorRewardHolds == SeasonSpec => []RefundXorReward
<1>1. ClaimsInv => RefundXorReward
  BY DEF ClaimsInv, ClaimsFollowFlags, RefundXorReward
<1> QED
  BY <1>1, ClaimsInvHolds, PTL

-----------------------------------------------------------------------------
(***************************************************************************)
(* Rewards told are rewards due: the sum of the query over the teams, that *)
(* of the claim over the teams of flagged pools, and that of the queries   *)
(* of single teams are the same.                                           *)
(***************************************************************************)
LEMMA SumOfIsSum ==
    ASSUME NEW n \in Nat, NEW seq, DOMAIN seq = 1..n, \A i \in 1..n : seq[i] \in Nat
    PROVE  /\ SumOf(seq) = SumFunctionOnSet(seq, 1..n)
           /\ SumOf(seq) \in Nat
           /\ (\A i \in 1..n : seq[i] = 0) => SumOf(seq) = 0
<1>1. IsFiniteSet(1..n)
  BY FS_Interval
<1>2. SumOf(seq) = SumFunctionOnSet(seq, 1..n)
  BY \A i \in 1..n : seq[i] \in Int, FoldLeftIsSum, Zenon DEF SumOf
<1>3. SumFunctionOnSet(seq, 1..n) \in Nat
  BY <1>1, SumIsNatural
<1> QED
  BY <1>1, <1>2, <1>3, SumOfZeros

\* What a gamer has not claimed of the teams of a pool.
UnclaimedIn(p, g) == [i \in DOMAIN teams[p][g] |-> Unclaimed(teams[p][g][i])]
ToldOf(p, g) == SumOf(UnclaimedIn(p, g))

LEMMA UnclaimedInNat ==
    ASSUME SeasonInv, NEW p \in DOMAIN pools, NEW g \in Gamers
    PROVE  /\ Len(teams[p][g]) \in Nat
           /\ DOMAIN UnclaimedIn(p, g) = 1..Len(teams[p][g])
           /\ DOMAIN teams[p][g] = 1..Len(teams[p][g])
           /\ \A i \in 1..Len(teams[p][g]) :
                 /\ UnclaimedIn(p, g)[i] = Unclaimed(teams[p][g][i])
                 /\ UnclaimedIn(p, g)[i] \in Nat
                 /\ teams[p][g][i].id \in TeamIds
           /\ ToldOf(p, g) \in Nat
<1>1. p \in 1..MaxPools /\ Len(teams[p][g]) \in Nat /\ DOMAIN teams[p][g] = 1..Len(teams[p][g])
  BY TeamsOfPools
<1>2. ASSUME NEW i \in 1..Len(teams[p][g])
      PROVE  Unclaimed(teams[p][g][i]) \in Nat /\ teams[p][g][i].id \in TeamIds
  <2>1. teams[p][g][i] \in Team
    BY <1>1, <1>2, TeamsOfPools
  <2> QED
    BY <2>1 DEF Unclaimed, Team
<1>3. /\ DOMAIN UnclaimedIn(p, g) = 1..Len(teams[p][g])
      /\ \A i \in 1..Len(teams[p][g]) : UnclaimedIn(p, g)[i] = Unclaimed(teams[p][g][i])
  BY <1>1 DEF UnclaimedIn
<1>4. ToldOf(p, g) \in Nat
  BY <1>1, <1>2, <1>3, SumOfIsSum DEF ToldOf
<1> QED
  BY <1>1, <1>2, <1>3, <1>4

LEMMA CollectableIsTold ==
    ASSUME SeasonInv, RewardsFollowFlags, NEW p \in DOMAIN pools, NEW g \in Gamers
    PROVE  Collectable(p, g) = ToldOf(p, g)
<1>1. CASE pools[p].reward
  <2>1. UnclaimedIn(p, g) = [i \in DOMAIN teams[p][g] |->
                               IF teams[p][g][i].claimedReward THEN 0
                               ELSE teams[p][g][i].reward]
    BY DEF UnclaimedIn, Unclaimed
  <2> QED
    BY <1>1, <2>1 DEF Collectable, ToldOf
<1>2. CASE ~pools[p].reward
  <2>1. \A i \in DOMAIN teams[p][g] : Unclaimed(teams[p][g][i]) = 0
    BY <1>2 DEF RewardsFollowFlags, Unclaimed
  <2>2. /\ Len(teams[p][g]) \in Nat
        /\ DOMAIN UnclaimedIn(p, g) = 1..Len(teams[p][g])
        /\ \A i \in 1..Len(teams[p][g]) : UnclaimedIn(p, g)[i] = 0
    BY <2>1, UnclaimedInNat
  <2>3. ToldOf(p, g) = 0
    BY <2>2, SumOfIsSum DEF ToldOf
  <2> QED
    BY <1>2, <2>3 DEF Collectable
<1> QED
  BY <1>1, <1>2

\* What is told is the sum over the pools.
LEMMA ToldIsSum ==
    ASSUME SeasonInv, NEW g \in Gamers
    PROVE  /\ RewardTold(g) = SumOf([p \in DOMAIN pools |-> ToldOf(p, g)])
           /\ RewardTold(g) =
                SumFunctionOnSet([p \in DOMAIN pools |-> ToldOf(p, g)], DOMAIN pools)
           /\ RewardTold(g) \in Nat
<1> DEFINE told == [p \in DOMAIN pools |-> ToldOf(p, g)]
<1>1. /\ Len(pools) \in Nat /\ DOMAIN pools = 1..Len(pools)
      /\ DOMAIN told = 1..Len(pools) /\ \A p \in 1..Len(pools) : told[p] \in Nat
  BY PoolNumbers, UnclaimedInNat DEF SeasonInv
<1>2. RewardTold(g) = SumOf(told)
  BY DEF RewardTold, ToldOf, UnclaimedIn
<1> HIDE DEF told
<1>3. SumOf(told) = SumFunctionOnSet(told, DOMAIN pools) /\ SumOf(told) \in Nat
  BY <1>1, SumOfIsSum
<1> QED
  BY <1>2, <1>3 DEF told

LEMMA DueIsTold ==
    ASSUME SeasonInv, RewardsFollowFlags, NEW g \in Gamers
    PROVE  RewardDue(g) = RewardTold(g)
<1>1. [p \in DOMAIN pools |-> Collectable(p, g)] = [p \in DOMAIN pools |-> ToldOf(p, g)]
  BY CollectableIsTold
<1> QED
  BY <1>1, ToldIsSum DEF RewardDue

\* The results of the teams of a pool by their ids add up to what is told.
LEMMA ResultsOfPool ==
    ASSUME SeasonInv, NEW p \in DOMAIN pools, NEW g \in Gamers
    PROVE  /\ \A id \in TeamIds : GameResult(g, p, id) \in Nat
           /\ ToldOf(p, g) =
                SumFunctionOnSet([id \in TeamIds |-> GameResult(g, p, id)], TeamIds)
<1> DEFINE n == Len(teams[p][g])
           key == [i \in 1..n |-> teams[p][g][i].id]
           f == UnclaimedIn(p, g)
<1>1. /\ n \in Nat /\ IsFiniteSet(1..n) /\ IsFiniteSet(TeamIds)
      /\ DOMAIN f = 1..n /\ DOMAIN teams[p][g] = 1..n
      /\ \A i \in 1..n : f[i] \in Nat /\ key[i] \in TeamIds
  <2>1. n \in Nat /\ IsFiniteSet(TeamIds)
    BY UnclaimedInNat, GameAssumption
  <2>2. IsFiniteSet(1..n)
    BY <2>1, FS_Interval
  <2> QED
    BY <2>1, <2>2, UnclaimedInNat
<1>2. ASSUME NEW id \in TeamIds
      PROVE  /\ GameResult(g, p, id) = SumFunctionOnSet(OfKey(f, key, id, 1..n), 1..n)
             /\ GameResult(g, p, id) \in Nat
  <2> DEFINE part == OfKey(f, key, id, 1..n)
  <2>1. [i \in DOMAIN teams[p][g] |->
           IF teams[p][g][i].id = id THEN Unclaimed(teams[p][g][i]) ELSE 0] = part
    BY UnclaimedInNat DEF OfKey
  <2>2. GameResult(g, p, id) = SumOf(part)
    BY <2>1 DEF GameResult
  <2>3. DOMAIN part = 1..n /\ \A i \in 1..n : part[i] \in Nat
    BY <1>1 DEF OfKey
  <2> HIDE DEF part, n
  <2>4. SumOf(part) = SumFunctionOnSet(part, 1..n) /\ SumOf(part) \in Nat
    BY <1>1, <2>3, SumOfIsSum
  <2> QED
    BY <2>2, <2>4 DEF part
<1>3. ToldOf(p, g) = SumFunctionOnSet(f, 1..n)
  BY <1>1, SumOfIsSum DEF ToldOf
<1>4. SumFunctionOnSet(f, 1..n) =
        SumFunctionOnSet(SumsOfKeys(f, key, TeamIds, 1..n), TeamIds)
  <2> HIDE DEF f, key, n
  <2>1. \A i \in 1..n : f[i] \in Int /\ key[i] \in TeamIds
    BY <1>1
  <2> QED
    BY <1>1, <2>1, SumByKey
<1>5. SumsOfKeys(f, key, TeamIds, 1..n) = [id \in TeamIds |-> GameResult(g, p, id)]
  BY <1>2 DEF SumsOfKeys
<1> QED
  BY <1>2, <1>3, <1>4, <1>5

\* The queries of all teams of all pools add up to what is told of all.
ResultsTold(g) ==
    MapThenSumSet(LAMBDA key : GameResult(g, key[1], key[2]), (DOMAIN pools) \X TeamIds)

LEMMA ResultsAreSum ==
    ASSUME SeasonInv, NEW g \in Gamers
    PROVE  ResultsTold(g) =
             SumFunctionOnSet([key \in (DOMAIN pools) \X TeamIds |->
                                 GameResult(g, key[1], key[2])],
                              (DOMAIN pools) \X TeamIds)
<1> DEFINE D == (DOMAIN pools) \X TeamIds
           f == [key \in D |-> GameResult(g, key[1], key[2])]
           Adds(k) == k = [s \in SUBSET D |->
                             IF s = {} THEN 0
                             ELSE LET x == CHOOSE x \in s : TRUE
                                  IN  GameResult(g, x[1], x[2]) + k[s \ {x}]]
           c == CHOOSE k : Adds(k)
<1>1. ResultsTold(g) = c[D]
  BY DEF ResultsTold, MapThenSumSet, MapThenFoldSet
<1>2. IsFiniteSet(D)
  <2>1. IsFiniteSet(DOMAIN pools) /\ IsFiniteSet(TeamIds)
    BY PoolNumbers, FS_Interval, GameAssumption DEF SeasonInv
  <2> QED
    BY <2>1, FS_Product
<1>3. ASSUME NEW k PROVE Adds(k) <=> AddsUp(k, f, D)
  <2>1. ASSUME NEW s \in SUBSET D, s # {}
        PROVE  LET x == CHOOSE x \in s : TRUE IN f[x] = GameResult(g, x[1], x[2])
    <3> DEFINE x == CHOOSE x \in s : TRUE
    <3>1. x \in s
      BY <2>1
    <3>2. x \in D
      BY <3>1
    <3> HIDE DEF x, D
    <3>3. f[x] = GameResult(g, x[1], x[2])
      BY <3>2
    <3> QED
      BY <3>3 DEF x
  <2> DEFINE left == [s \in SUBSET D |->
                        IF s = {} THEN 0
                        ELSE LET x == CHOOSE x \in s : TRUE
                             IN  GameResult(g, x[1], x[2]) + k[s \ {x}]]
             right == [s \in SUBSET D |->
                        IF s = {} THEN 0
                        ELSE LET x == CHOOSE x \in s : TRUE
                             IN  f[x] + k[s \ {x}]]
  <2>2. left = right
    <3> HIDE DEF f, D
    <3> QED
      BY <2>1
  <2> HIDE DEF left, right, f, D
  <2>3. Adds(k) <=> k = left
    BY DEF left
  <2>4. AddsUp(k, f, D) <=> k = right
    BY DEF right, AddsUp
  <2> QED
    BY <2>2, <2>3, <2>4
<1> HIDE DEF f, D, Adds
<1>4. Adds(c)
  <2>1. \E k : Adds(k)
    BY <1>2, <1>3, AddsUpIsSum
  <2> QED
    BY <2>1
<1>5. c[D] = SumFunctionOnSet(f, D)
  BY <1>2, <1>3, <1>4, AddsUpIsSum
<1> QED
  BY <1>1, <1>5 DEF f, D

LEMMA ResultsAreTold ==
    ASSUME SeasonInv, NEW g \in Gamers
    PROVE  RewardTold(g) = ResultsTold(g)
<1> DEFINE P == DOMAIN pools
           f == [key \in P \X TeamIds |-> GameResult(g, key[1], key[2])]
<1>1. IsFiniteSet(P) /\ IsFiniteSet(TeamIds)
  BY PoolNumbers, FS_Interval, GameAssumption DEF SeasonInv
<1>2. \A key \in P \X TeamIds : f[key] \in Int
  <2>1. ASSUME NEW key \in P \X TeamIds
        PROVE  GameResult(g, key[1], key[2]) \in Int
    <3>1. PICK p \in P, id \in TeamIds : key = <<p, id>>
      OBVIOUS
    <3>2. GameResult(g, p, id) \in Nat
      <4>1. p \in DOMAIN pools
        OBVIOUS
      <4> HIDE DEF P, f
      <4>2. \A k \in TeamIds : GameResult(g, p, k) \in Nat
        BY <4>1, ResultsOfPool
      <4> QED
        BY <4>2
    <3> QED
      BY <3>1, <3>2
  <2> QED
    BY <2>1
<1>3. ASSUME NEW p \in P
      PROVE  SumFunctionOnSet(SecondsOf(f, p, TeamIds), TeamIds) = ToldOf(p, g)
  <2>1. SecondsOf(f, p, TeamIds) = [id \in TeamIds |-> GameResult(g, p, id)]
    BY DEF SecondsOf
  <2> QED
    BY <2>1, ResultsOfPool
<1>4. SumsOfSeconds(f, P, TeamIds) = [p \in P |-> ToldOf(p, g)]
  <2> HIDE DEF f, P
  <2> QED
    BY <1>3 DEF SumsOfSeconds
<1>5. SumFunctionOnSet(f, P \X TeamIds) =
        SumFunctionOnSet(SumsOfSeconds(f, P, TeamIds), P)
  <2> HIDE DEF f, P
  <2> QED
    BY <1>1, <1>2, SumOverPairs
<1>6. ResultsTold(g) = SumFunctionOnSet(f, P \X TeamIds)
  BY ResultsAreSum
<1> QED
  BY <1>4, <1>5, <1>6, ToldIsSum

\* Gamers are told of no reward they cannot claim, in all and team by team.
THEOREM ToldIsDueHolds == SeasonSpec => []ToldIsDue
<1>1. SeasonInv /\ ClaimsInv => ToldIsDue
  <2> SUFFICES ASSUME SeasonInv, ClaimsInv PROVE ToldIsDue
    OBVIOUS
  <2>1. \A g \in Gamers : RewardTold(g) = RewardDue(g) /\ RewardTold(g) = ResultsTold(g)
    BY DueIsTold, ResultsAreTold DEF ClaimsInv
  <2> QED
    BY <2>1 DEF ToldIsDue, ResultsTold, ClaimsInv
<1> QED
  BY <1>1, ClaimsInvHolds, PTL

-----------------------------------------------------------------------------
(***************************************************************************)
(* What the contract owns, and the entries of the pools, stay numbers: no  *)
(* message pays more than there is.                                        *)
(***************************************************************************)
FundsTyped ==
    /\ cell \in [1..MaxPools -> Cell]
    /\ usdc \in Nat /\ fury \in Nat
    /\ received \in [Gamers -> [usdc : Nat, fury : Nat]]

LEMMA Products ==
    ASSUME NEW m \in Nat, NEW n \in Nat
    PROVE  m * n \in Nat
BY SMT

LEMMA FeesAreNat ==
    ASSUME NEW n \in Nat
    PROVE  SwapFeeOf(n) \in Nat /\ GameFeesOf(n) \in Nat
<1>1. {PlatformFee, TransactionFee, SwapFee} \subseteq Nat
  BY GameAssumption
<1>2. n * SwapFee \in Nat /\ n * PlatformFee \in Nat /\ n * TransactionFee \in Nat
  BY <1>1, Products
<1>3. \A m \in Nat : m \div 1000 \in Nat /\ m \div 10000 \in Nat
  BY SMT
<1>4. SwapFeeOf(n) \in Nat
  BY <1>2, <1>3 DEF SwapFeeOf
<1>5. (n * PlatformFee) \div 10000 \in Nat /\ (n * TransactionFee) \div 10000 \in Nat
  BY <1>2, <1>3
<1> QED
  BY <1>4, <1>5 DEF GameFeesOf

\* What a claim of refunds pays for the teams of a pool.
RefundIn(p, g) ==
    IF p \in FlaggedPools THEN Params[pools[p].type].fee * Len(teams[p][g]) ELSE 0

LEMMA DuesAreNat ==
    ASSUME SeasonInv, RewardsFollowFlags, NEW g \in Gamers
    PROVE  RewardDue(g) \in Nat /\ RefundDue(g) \in Nat
<1>1. RewardDue(g) \in Nat
  BY DueIsTold, ToldIsSum
<1> DEFINE dues == [p \in DOMAIN pools |-> RefundIn(p, g)]
<1>2. ASSUME NEW p \in DOMAIN pools
      PROVE  RefundIn(p, g) \in Nat
  <2>1. Len(teams[p][g]) \in Nat /\ Params[pools[p].type].fee \in Nat
    BY <1>2, UnclaimedInNat, FeeIsNat DEF SeasonInv
  <2> QED
    BY <2>1, Products DEF RefundIn
<1>3. RefundDue(g) = SumOf(dues)
  BY DEF RefundDue, RefundIn
<1>4. /\ DOMAIN dues = 1..Len(pools) /\ Len(pools) \in Nat
      /\ \A p \in 1..Len(pools) : dues[p] \in Nat
  BY <1>2, PoolNumbers DEF SeasonInv
<1> HIDE DEF dues
<1>5. SumOf(dues) \in Nat
  BY <1>4, SumOfIsSum
<1> QED
  BY <1>1, <1>3, <1>5

LEMMA RakePaidIsNat ==
    ASSUME NEW t \in PoolTypes, NEW rake \in RakeAmounts
    PROVE  RakePaid(t, rake) \in Nat
<1> DEFINE r == Params[t].rake
           paid == [k \in DOMAIN r |-> (rake * r[k]) \div 100]
<1>1. rake \in Nat /\ r \in Seq(Nat)
  BY GameAssumption DEF ParamsType
<1>2. Len(r) \in Nat /\ DOMAIN r = 1..Len(r) /\ \A k \in 1..Len(r) : r[k] \in Nat
  <2> HIDE DEF r
  <2> QED
    BY <1>1, LenProperties, ElementOfSeq
<1>3. \A m \in Nat : m \div 100 \in Nat
  BY SMT
<1>4. \A k \in 1..Len(r) : (rake * r[k]) \div 100 \in Nat
  <2> HIDE DEF r
  <2> QED
    BY <1>1, <1>2, <1>3, Products
<1>5. DOMAIN paid = 1..Len(r) /\ \A k \in 1..Len(r) : paid[k] \in Nat
  <2> HIDE DEF r
  <2> QED
    BY <1>2, <1>4
<1>6. RakePaid(t, rake) = SumOf(paid)
  BY DEF RakePaid
<1> HIDE DEF paid, r
<1> QED
  BY <1>2, <1>5, <1>6, SumOfIsSum

\* The entries of a team add up to a number.
AmountsOf(list, S) == MapThenSumSet(LAMBDA k : list[k].amount, S)

LEMMA EntriesAreNat ==
    ASSUME NEW list, NEW S, IsFiniteSet(S), \A k \in S : list[k].amount \in Nat
    PROVE  AmountsOf(list, S) \in Nat
<1> DEFINE f == [k \in S |-> list[k].amount]
           Adds(g) == g = [s \in SUBSET S |->
                             IF s = {} THEN 0
                             ELSE LET x == CHOOSE x \in s : TRUE
                                  IN  list[x].amount + g[s \ {x}]]
           c == CHOOSE g : Adds(g)
<1>1. AmountsOf(list, S) = c[S]
  BY DEF AmountsOf, MapThenSumSet, MapThenFoldSet
<1>2. ASSUME NEW g PROVE Adds(g) <=> AddsUp(g, f, S)
  <2>1. ASSUME NEW s \in SUBSET S, s # {}
        PROVE  LET x == CHOOSE x \in s : TRUE IN f[x] = list[x].amount
    <3> DEFINE x == CHOOSE x \in s : TRUE
    <3>1. x \in S
      BY <2>1
    <3> HIDE DEF x
    <3>2. f[x] = list[x].amount
      BY <3>1
    <3> QED
      BY <3>2 DEF x
  <2> DEFINE left == [s \in SUBSET S |->
                        IF s = {} THEN 0
                        ELSE LET x == CHOOSE x \in s : TRUE
                             IN  list[x].amount + g[s \ {x}]]
             right == [s \in SUBSET S |->
                        IF s = {} THEN 0
                        ELSE LET x == CHOOSE x \in s : TRUE
                             IN  f[x] + g[s \ {x}]]
  <2>2. left = right
    <3> HIDE DEF f
    <3> QED
      BY <2>1
  <2> HIDE DEF left, right, f
  <2>3. Adds(g) <=> g = left
    BY DEF left
  <2>4. AddsUp(g, f, S) <=> g = right
    BY DEF right, AddsUp
  <2> QED
    BY <2>2, <2>3, <2>4
<1>3. \A k \in S : f[k] \in Nat
  OBVIOUS
<1> HIDE DEF f, Adds
<1>4. Adds(c)
  <2>1. \E g : Adds(g)
    BY <1>2, AddsUpIsSum
  <2> QED
    BY <2>1
<1>5. c[S] = SumFunctionOnSet(f, S)
  BY <1>2, <1>4, AddsUpIsSum
<1> QED
  BY <1>1, <1>3, <1>5, SumIsNatural

LEMMA GivenIsNat ==
    ASSUME SeasonInv, NEW p \in DOMAIN pools, NEW list \in WinnerLists
    PROVE  Given(p, list) \in Nat
<1>1. /\ Len(list) \in Nat /\ DOMAIN list = 1..Len(list)
      /\ \A k \in DOMAIN list : list[k].gamer \in Gamers /\ list[k].amount \in Nat
  <2>1. list \in Seq([gamer : Gamers, team : TeamIds, amount : Nat])
    BY GameAssumption
  <2>2. Len(list) \in Nat /\ DOMAIN list = 1..Len(list)
    BY <2>1, LenProperties
  <2>3. \A k \in 1..Len(list) : list[k] \in [gamer : Gamers, team : TeamIds, amount : Nat]
    BY <2>1, ElementOfSeq
  <2> QED
    BY <2>2, <2>3
<1>2. ASSUME NEW g \in Gamers
      PROVE  GivenTo(teams[p][g], list, g) \in Nat
  <2> DEFINE vec == teams[p][g]
             sums == [i \in DOMAIN vec |->
                        MapThenSumSet(LAMBDA k : list[k].amount,
                                      Entries(list, g, vec[i].id))]
  <2>1. DOMAIN vec = 1..Len(vec) /\ Len(vec) \in Nat
    BY <1>2, UnclaimedInNat
  <2>2. ASSUME NEW i \in DOMAIN vec
        PROVE  sums[i] \in Nat
    <3> DEFINE S == Entries(list, g, vec[i].id)
    <3>1. S \in SUBSET (1..Len(list))
      BY <1>1 DEF Entries
    <3>2. \A k \in S : list[k].amount \in Nat
      BY <1>1 DEF Entries
    <3> HIDE DEF S
    <3>3. IsFiniteSet(1..Len(list))
      BY <1>1, FS_Interval
    <3>4. IsFiniteSet(S)
      BY <3>1, <3>3, FS_Subset
    <3>5. AmountsOf(list, S) \in Nat
      BY <3>2, <3>4, EntriesAreNat
    <3> QED
      BY <3>5 DEF S, AmountsOf
  <2>3. GivenTo(vec, list, g) = SumOf(sums)
    BY DEF GivenTo
  <2>4. DOMAIN sums = 1..Len(vec)
    BY <2>1
  <2> HIDE DEF sums, vec
  <2>5. SumOf(sums) \in Nat
    BY <2>1, <2>2, <2>4, SumOfIsSum
  <2> QED
    BY <2>3, <2>5 DEF vec
<1> DEFINE given == [k \in DOMAIN list |->
                       GivenTo(teams[p][list[k].gamer], list, list[k].gamer)]
<1>3. DOMAIN given = 1..Len(list) /\ \A k \in 1..Len(list) : given[k] \in Nat
  BY <1>1, <1>2
<1>4. Given(p, list) = SumOf(given)
  BY DEF Given
<1> HIDE DEF given
<1> QED
  BY <1>1, <1>3, <1>4, SumOfIsSum

LEMMA RatesAreNat ==
    /\ \A rate \in Rates : rate \in Nat
    /\ \A amount \in SwapAmounts \cup SweepAmounts \cup RakeAmounts : amount \in Nat
BY GameAssumption

LEMMA BidPays ==
    ASSUME SeasonInv, FundsTyped, NEW h \in Gamers, NEW t \in PoolTypes,
           NEW q \in DOMAIN pools, NEW id \in TeamIds, GamePoolBidSubmit(h, t, q, id)
    PROVE  FundsTyped'
<1> DEFINE fee == Params[t].fee
<1>1. fee \in Nat
  BY GameAssumption DEF ParamsType
<1>2. FeeSwapped(fee) /\ cell' = cell /\ fury' = fury /\ received' = received
  BY DEF GamePoolBidSubmit
<1> HIDE DEF fee
<1>3. PICK rate \in Rates :
         LET attached == GameFeesOf(fee)
             got      == rate * fee
         IN  /\ usdc + attached >= SwapFeeOf(got)
             /\ usdc' = usdc + attached + got - SwapFeeOf(got)
  BY <1>2 DEF FeeSwapped
<1> DEFINE got == rate * fee
<1>4. got \in Nat
  BY <1>1, RatesAreNat, Products
<1>5. /\ usdc + GameFeesOf(fee) >= SwapFeeOf(got)
      /\ usdc' = usdc + GameFeesOf(fee) + got - SwapFeeOf(got)
  BY <1>3
<1> HIDE DEF got
<1>6. GameFeesOf(fee) \in Nat /\ SwapFeeOf(got) \in Nat
  BY <1>1, <1>4, FeesAreNat
<1>7. usdc' \in Nat
  BY <1>4, <1>5, <1>6 DEF FundsTyped
<1> QED
  BY <1>2, <1>7 DEF FundsTyped

LEMMA ClaimRefundPays ==
    ASSUME SeasonInv, RewardsFollowFlags, FundsTyped, NEW h \in Gamers, ClaimRefund(h)
    PROVE  FundsTyped'
<1> DEFINE total == RefundDue(h)
           cost  == total + SwapFeeOf(total) + GameFeesOf(total)
<1>1. total \in Nat
  BY DuesAreNat
<1>2. /\ usdc >= cost /\ usdc' = usdc - cost /\ cell' = cell
      /\ \E rate \in Rates : fury' = fury + rate * total
      /\ received' = [received EXCEPT ![h].usdc = @ + GameFeesOf(total)]
  BY DEF ClaimRefund
<1> HIDE DEF total
<1>3. cost \in Nat /\ GameFeesOf(total) \in Nat
  BY <1>1, FeesAreNat
<1>6. received' \in [Gamers -> [usdc : Nat, fury : Nat]]
  BY <1>2, <1>3 DEF FundsTyped
<1> HIDE DEF cost
<1>4. usdc' \in Nat
  BY <1>2, <1>3 DEF FundsTyped
<1>5. fury' \in Nat
  <2>1. PICK rate \in Rates : fury' = fury + rate * total
    BY <1>2
  <2>2. rate * total \in Nat
    BY <1>1, RatesAreNat, Products
  <2> QED
    BY <2>1, <2>2 DEF FundsTyped
<1> QED
  BY <1>2, <1>4, <1>5, <1>6 DEF FundsTyped

LEMMA DistributePays ==
    ASSUME SeasonInv, FundsTyped, NEW q \in DOMAIN pools, NEW list \in WinnerLists,
           NEW final \in BOOLEAN, NEW rake \in RakeAmounts,
           GamePoolRewardDistribute(q, list, final, rake)
    PROVE  FundsTyped'
<1> DEFINE paid == IF final THEN RakePaid(pools[q].type, rake) ELSE 0
           new == [kind |-> "reward", total |-> RewardTotal(cell[q], Given(q, list))]
<1>1. q \in 1..MaxPools /\ pools[q].type \in PoolTypes
  BY TeamsOfPools DEF Pool
<1>2. paid \in Nat
  BY <1>1, RakePaidIsNat
<1>3. /\ usdc >= paid /\ usdc' = usdc - paid /\ fury' = fury
      /\ cell' = [cell EXCEPT ![q] = new] /\ received' = received
  BY <1>1 DEF GamePoolRewardDistribute, FundsTyped
<1>4. new \in Cell
  <2>1. Given(q, list) \in Nat
    BY GivenIsNat
  <2>2. cell[q] \in Cell
    BY <1>1 DEF FundsTyped
  <2>3. RewardTotal(cell[q], Given(q, list)) \in Nat
    BY <2>1, <2>2 DEF RewardTotal, Cell
  <2> QED
    BY <2>3 DEF Cell
<1> HIDE DEF paid, new
<1>5. usdc' \in Nat /\ fury' \in Nat
  BY <1>2, <1>3 DEF FundsTyped
<1>6. cell' \in [1..MaxPools -> Cell]
  <2> HIDE DEF Cell
  <2> QED
    BY <1>1, <1>3, <1>4 DEF FundsTyped
<1> QED
  BY <1>3, <1>5, <1>6 DEF FundsTyped

LEMMA SwapPays ==
    ASSUME SeasonInv, FundsTyped, NEW q \in DOMAIN pools, NEW amount \in SwapAmounts,
           Swap(q, amount)
    PROVE  FundsTyped'
<1>1. q \in 1..MaxPools /\ amount \in Nat /\ SwapFeeOf(amount) \in Nat
  BY TeamsOfPools, RatesAreNat, FeesAreNat
<1>2. PICK rate \in Rates : /\ fury' = fury + rate * amount
                            /\ SwapSaved(q, amount, rate * amount)
  BY DEF Swap
<1> DEFINE gained == rate * amount
           new == [kind |-> "swap", swapped |-> amount,
                   rake |-> RakeLeft(PoolCollection(q), amount),
                   rate |-> (gained * 10000) \div amount]
<1>3. gained \in Nat
  BY <1>1, RatesAreNat, Products
<1>4. usdc' \in Nat
  BY <1>1 DEF Swap, FundsTyped
<1>5. fury' \in Nat
  BY <1>2, <1>3 DEF FundsTyped
<1>6. new \in Cell
  <2>1. PoolCollection(q) \in Nat
    <3>1. Params[pools[q].type].fee \in Nat /\ pools[q].count \in Nat
      BY FeeIsNat, TeamsOfPools DEF SeasonInv, Pool
    <3> QED
      BY <3>1, Products DEF PoolCollection
  <2>2. RakeLeft(PoolCollection(q), amount) \in Nat
    BY <1>1, <2>1 DEF RakeLeft
  <2>3. amount > 0
    BY DEF Swap
  <2> HIDE DEF gained
  <2>4. (gained * 10000) \div amount \in Nat
    <3>1. gained * 10000 \in Nat
      BY <1>3
    <3>2. \A m \in Nat : m \div amount \in Nat
      BY <1>1, <2>3
    <3> QED
      BY <3>1, <3>2
  <2> QED
    BY <1>1, <2>2, <2>4 DEF Cell
<1>7. cell' = [cell EXCEPT ![q] = new]
  BY <1>2 DEF SwapSaved
<1>8. received' = received
  BY DEF Swap
<1> HIDE DEF new
<1> QED
  BY <1>4, <1>5, <1>6, <1>7, <1>8 DEF FundsTyped

LEMMA FundsNext ==
    ASSUME SeasonInv, ClaimsInv, FundsTyped, [SeasonNext]_seasonVars
    PROVE  FundsTyped'
<1>1. CASE GamerNext
  <2>1. ASSUME NEW g \in Gamers, NEW t \in PoolTypes, NEW p \in DOMAIN pools,
               NEW id \in TeamIds, GamePoolBidSubmit(g, t, p, id)
        PROVE  FundsTyped'
    BY <2>1, BidPays
  <2>2. ASSUME NEW g \in Gamers, ClaimReward(g)
        PROVE  FundsTyped'
    <3> DEFINE due == RewardDue(g)
    <3>1. due \in Nat
      BY DuesAreNat DEF ClaimsInv
    <3>2. /\ fury >= due /\ fury' = fury - due /\ UNCHANGED <<cell, usdc>>
          /\ received' = [received EXCEPT ![g].fury = @ + due]
      BY <2>2 DEF ClaimReward
    <3> HIDE DEF due
    <3>3. received' \in [Gamers -> [usdc : Nat, fury : Nat]]
      BY <3>1, <3>2 DEF FundsTyped
    <3> QED
      BY <3>1, <3>2, <3>3 DEF FundsTyped
  <2>3. ASSUME NEW g \in Gamers, ClaimRefund(g)
        PROVE  FundsTyped'
    BY <2>3, ClaimRefundPays DEF ClaimsInv
  <2> QED
    BY <1>1, <2>1, <2>2, <2>3 DEF GamerNext
<1>2. CASE AdminNext
  <2>1. CASE \E t \in PoolTypes : SetPoolTypeParams(t) \/ CreatePool(t)
    BY <2>1 DEF SetPoolTypeParams, CreatePool, FundsTyped, funds
  <2>2. CASE LockGame \/ CancelGame
    BY <2>2 DEF LockGame, CancelGame, FundsTyped, funds
  <2>3. ASSUME NEW p \in DOMAIN pools, NEW list \in WinnerLists,
               NEW final \in BOOLEAN, NEW rake \in RakeAmounts,
               GamePoolRewardDistribute(p, list, final, rake)
        PROVE  FundsTyped'
    BY <2>3, DistributePays
  <2>4. ASSUME NEW p \in DOMAIN pools, NEW amount \in SwapAmounts, Swap(p, amount)
        PROVE  FundsTyped'
    BY <2>4, SwapPays
  <2>5. ASSUME NEW amount \in SweepAmounts, ExecuteSweep(amount)
        PROVE  FundsTyped'
    BY <2>5, RatesAreNat DEF ExecuteSweep, FundsTyped
  <2> QED
    BY <1>2, <2>1, <2>2, <2>3, <2>4, <2>5 DEF AdminNext
<1>3. CASE Deposit
  BY <1>3 DEF Deposit, FundsTyped
<1>4. CASE UNCHANGED seasonVars
  BY <1>4 DEF seasonVars, gameVars, funds, FundsTyped
<1> QED
  BY <1>1, <1>2, <1>3, <1>4 DEF SeasonNext, GameNext

LEMMA FundsTypedHolds == SeasonSpec => [](SeasonInv /\ ClaimsInv /\ FundsTyped)
<1>1. SeasonInit => FundsTyped
  BY DEF SeasonInit, GameInit, FundsTyped, Cell
<1>2. SeasonInv /\ ClaimsInv /\ FundsTyped /\ [SeasonNext]_seasonVars => FundsTyped'
  BY FundsNext
<1> QED
  BY <1>1, <1>2, ClaimsInvHolds, PTL DEF SeasonSpec

\* The state of the contract is well typed: it never pays more than it has.
THEOREM GameTypeOKHolds == SeasonSpec => []GameTypeOK
<1>1. SeasonInv /\ ClaimsInv /\ FundsTyped => GameTypeOK
  <2> SUFFICES ASSUME SeasonInv, ClaimsInv, FundsTyped PROVE GameTypeOK
    OBVIOUS
  <2>1. status \in {"open", "closed", "cancelled", "completed"} /\ Len(pools) <= MaxPools
    BY DEF SeasonInv, PoolsTyped
  <2>2. types \subseteq PoolTypes
    BY DEF ClaimsInv
  <2>3. /\ \A p \in DOMAIN pools : pools[p] \in Pool
        /\ \A p \in 1..MaxPools, g \in Gamers :
              \A i \in DOMAIN teams[p][g] : teams[p][g][i] \in Team
    BY TeamsOfPools
  <2>4. ASSUME NEW p \in 1..MaxPools
        PROVE  /\ cell[p].kind \in {"none", "reward", "swap"}
               /\ \A field \in DOMAIN cell[p] \ {"kind"} : cell[p][field] \in Nat
    <3>1. cell[p] \in Cell
      BY <2>4 DEF FundsTyped
    <3>2. CASE cell[p] \in [kind : {"none"}]
      BY <3>2
    <3>3. CASE cell[p] \in [kind : {"reward"}, total : Nat]
      BY <3>3
    <3>4. CASE cell[p] \in [kind : {"swap"}, swapped : Nat, rake : Nat, rate : Nat]
      BY <3>4
    <3> QED
      BY <3>1, <3>2, <3>3, <3>4 DEF Cell
  <2> QED
    BY <2>1, <2>2, <2>3, <2>4 DEF GameTypeOK, FundsTyped
<1> QED
  BY <1>1, FundsTypedHolds, PTL

-----------------------------------------------------------------------------
(***************************************************************************)
(* A claim pays what was told, and leaves nothing to tell.                 *)
(***************************************************************************)
LEMMA ClaimRewardSettles ==
    ASSUME SeasonInv, SeasonInv', RewardsFollowFlags, FundsTyped,
           NEW h \in Gamers, ClaimReward(h)
    PROVE  /\ received'[h].fury = received[h].fury + RewardTold(h)
           /\ RewardTold(h)' = 0
<1>1. received'[h].fury = received[h].fury + RewardTold(h)
  <2>1. RewardDue(h) = RewardTold(h)
    BY DueIsTold
  <2> QED
    BY <2>1 DEF ClaimReward, FundsTyped
<1>2. /\ pools' = pools
      /\ \A p \in 1..MaxPools : teams'[p][h] = ClaimedBy(h, p, h)
  BY ClaimedTeams DEF ClaimReward, SeasonInv
<1>3. ASSUME NEW p \in DOMAIN pools, NEW i \in DOMAIN teams[p][h]
      PROVE  Unclaimed(teams'[p][h][i]) = 0
  <2>1. p \in 1..MaxPools /\ teams[p][h][i] \in Team
    BY <1>3, TeamsOfPools
  <2>2. teams'[p][h][i] = IF pools[p].reward THEN AsClaimed(teams[p][h][i])
                          ELSE teams[p][h][i]
    <3>1. teams'[p][h] = ClaimedBy(h, p, h)
      BY <1>2, <2>1
    <3>2. ClaimedBy(h, p, h)[i] = IF pools[p].reward THEN AsClaimed(teams[p][h][i])
                                  ELSE teams[p][h][i]
      BY <1>3 DEF ClaimedBy
    <3> QED
      BY <3>1, <3>2
  <2>3. ~pools[p].reward => teams[p][h][i].reward = 0
    BY <1>3 DEF RewardsFollowFlags
  <2> QED
    BY <2>1, <2>2, <2>3 DEF Unclaimed, AsClaimed, Team
<1>4. ASSUME NEW p \in DOMAIN pools
      PROVE  ToldOf(p, h)' = 0
  <2>1. DOMAIN teams'[p][h] = DOMAIN teams[p][h]
    <3>1. teams'[p][h] = ClaimedBy(h, p, h)
      BY <1>2, <1>4, TeamsOfPools
    <3>2. DOMAIN ClaimedBy(h, p, h) = DOMAIN teams[p][h]
      BY DEF ClaimedBy
    <3> QED
      BY <3>1, <3>2
  <2> DEFINE left == [i \in DOMAIN teams'[p][h] |-> Unclaimed(teams'[p][h][i])]
             n == Len(teams[p][h])
  <2>2. n \in Nat /\ DOMAIN teams[p][h] = 1..n
    BY <1>4, UnclaimedInNat
  <2>3. DOMAIN left = 1..n /\ \A i \in 1..n : left[i] = 0
    BY <1>3, <1>4, <2>1, <2>2
  <2>4. ToldOf(p, h)' = SumOf(left)
    BY DEF ToldOf, UnclaimedIn
  <2> HIDE DEF left, n
  <2>5. SumOf(left) = 0
    BY <2>2, <2>3, SumOfIsSum
  <2> QED
    BY <2>4, <2>5
<1>5. RewardTold(h)' = 0
  <2> DEFINE told == [p \in DOMAIN pools |-> ToldOf(p, h)']
  <2>1. RewardTold(h)' = SumOf(told)
    BY <1>2 DEF RewardTold, ToldOf, UnclaimedIn
  <2>2. Len(pools) \in Nat /\ DOMAIN pools = 1..Len(pools)
    BY PoolNumbers DEF SeasonInv
  <2>3. DOMAIN told = 1..Len(pools) /\ \A p \in 1..Len(pools) : told[p] = 0
    BY <1>4, <2>2
  <2> HIDE DEF told
  <2>4. SumOf(told) = 0
    BY <2>2, <2>3, SumOfIsSum
  <2> QED
    BY <2>1, <2>4
<1> QED
  BY <1>1, <1>5

\* What a gamer is told to be refunded for the teams of a pool.
RefundToldIn(p, g) ==
    IF p \notin FlaggedPools THEN 0
    ELSE Params[pools[p].type].fee *
         Cardinality({i \in DOMAIN teams[p][g] : ~teams[p][g][i].claimedRefund})

LEMMA ClaimRefundSettles ==
    ASSUME SeasonInv, SeasonInv', RewardsFollowFlags, FundsTyped,
           NEW h \in Gamers, ClaimRefund(h)
    PROVE  RefundSettles(h, RefundTold(h))
<1>1. RefundTold(h) = RefundDue(h)
  <2>1. ASSUME NEW p \in DOMAIN pools
        PROVE  RefundToldIn(p, h) = RefundIn(p, h)
    <3>1. CASE p \notin FlaggedPools
      BY <3>1 DEF RefundToldIn, RefundIn
    <3>2. CASE p \in FlaggedPools
      <4> DEFINE n == Len(teams[p][h])
      <4>1. n \in Nat /\ DOMAIN teams[p][h] = 1..n
        BY <2>1, UnclaimedInNat
      <4>2. {i \in DOMAIN teams[p][h] : ~teams[p][h][i].claimedRefund} = 1..n
        BY <3>2, <4>1 DEF ClaimRefund, NoneRefunded
      <4>3. Cardinality(1..n) = n
        <5> HIDE DEF n
        <5>1. Cardinality(1..n) = IF 1 > n THEN 0 ELSE n - 1 + 1
          BY <4>1, FS_Interval
        <5> QED
          BY <4>1, <5>1
      <4> QED
        BY <3>2, <4>2, <4>3 DEF RefundToldIn, RefundIn
    <3> QED
      BY <3>1, <3>2
  <2>2. [p \in DOMAIN pools |-> RefundToldIn(p, h)]
          = [p \in DOMAIN pools |-> RefundIn(p, h)]
    BY <2>1
  <2>3. RefundTold(h) = SumOf([p \in DOMAIN pools |-> RefundToldIn(p, h)])
    BY DEF RefundTold, RefundToldIn
  <2>4. RefundDue(h) = SumOf([p \in DOMAIN pools |-> RefundIn(p, h)])
    BY DEF RefundDue, RefundIn
  <2> QED
    BY <2>2, <2>3, <2>4
<1>2. usdc - usdc' = RefundTold(h) + SwapFeeOf(RefundTold(h)) + GameFeesOf(RefundTold(h))
  <2> DEFINE total == RefundDue(h)
             cost == total + SwapFeeOf(total) + GameFeesOf(total)
  <2>1. usdc' = usdc - cost /\ total \in Nat
    BY DuesAreNat DEF ClaimRefund
  <2> HIDE DEF total
  <2>2. cost \in Nat
    BY <2>1, FeesAreNat
  <2> HIDE DEF cost
  <2>3. usdc - usdc' = cost
    BY <2>1, <2>2 DEF FundsTyped
  <2> QED
    BY <1>1, <2>3 DEF cost, total
<1>3. /\ pools' = pools
      /\ \A p \in 1..MaxPools : teams'[p][h] = RefundedBy(h, p, h)
  BY RefundedTeams DEF ClaimRefund, SeasonInv
<1>4. ASSUME NEW p \in DOMAIN pools
      PROVE  RefundToldIn(p, h)' = 0
  <2>1. FlaggedPools' = FlaggedPools
    BY <1>3 DEF FlaggedPools
  <2>2. CASE p \notin FlaggedPools
    BY <2>1, <2>2 DEF RefundToldIn
  <2>3. CASE p \in FlaggedPools
    <3>1. ASSUME NEW i \in DOMAIN teams'[p][h]
          PROVE  teams'[p][h][i].claimedRefund
      <4>1. teams'[p][h] = RefundedBy(h, p, h)
        BY <1>3, <1>4, TeamsOfPools
      <4>2. i \in DOMAIN teams[p][h]
        BY <3>1, <4>1 DEF RefundedBy
      <4>3. RefundedBy(h, p, h)[i] = AsRefunded(teams[p][h][i], p)
        BY <2>3, <4>2 DEF RefundedBy
      <4>4. teams[p][h][i] \in Team
        BY <1>4, <4>2, TeamsOfPools
      <4> QED
        BY <4>1, <4>3, <4>4 DEF AsRefunded, Team
    <3>2. {i \in DOMAIN teams'[p][h] : ~teams'[p][h][i].claimedRefund} = {}
      BY <3>1
    <3>3. Params[pools[p].type].fee \in Nat
      BY <1>4, FeeIsNat DEF SeasonInv
    <3>4. RefundToldIn(p, h)' = Params[pools[p].type].fee * Cardinality({})
      BY <1>3, <2>1, <2>3, <3>2 DEF RefundToldIn
    <3> QED
      BY <3>3, <3>4, FS_EmptySet
  <2> QED
    BY <2>2, <2>3
<1>5. RefundTold(h)' = 0
  <2> DEFINE told == [p \in DOMAIN pools |-> RefundToldIn(p, h)']
  <2>1. RefundTold(h)' = SumOf(told)
    BY <1>3 DEF RefundTold, RefundToldIn
  <2>2. Len(pools) \in Nat /\ DOMAIN pools = 1..Len(pools)
    BY PoolNumbers DEF SeasonInv
  <2>3. DOMAIN told = 1..Len(pools) /\ \A p \in 1..Len(pools) : told[p] = 0
    BY <1>4, <2>2
  <2> HIDE DEF told
  <2>4. SumOf(told) = 0
    BY <2>2, <2>3, SumOfIsSum
  <2> QED
    BY <2>1, <2>4
<1>6. received'[h] = [received[h] EXCEPT !.usdc = @ + GameFeesOf(RefundTold(h))]
  BY <1>1 DEF ClaimRefund, FundsTyped
<1> QED
  BY <1>2, <1>5, <1>6 DEF RefundSettles

\* A gamer who claims is sent what the property says, and is told of no more.
Settles(g) ==
    /\ ClaimReward(g) => /\ received'[g].fury = received[g].fury + RewardTold(g)
                         /\ RewardTold(g)' = 0
    /\ ClaimRefund(g) => RefundSettles(g, RefundTold(g))

\* A gamer is sent the rewards it was told of, in FURY.  For the refunds it was
\* told of it is sent the fees of the game on them, in USDC, and no FURY.  After
\* either claim it is told of nothing more.
THEOREM ClaimsSettleHolds == SeasonSpec => ClaimsSettle
<1>1. SeasonInv /\ ClaimsInv /\ FundsTyped /\ SeasonInv'
        => [\A g \in Gamers : Settles(g)]_seasonVars
  BY ClaimRewardSettles, ClaimRefundSettles DEF Settles, ClaimsInv
<1>2. [\A g \in Gamers : Settles(g)]_seasonVars
        <=> [\A g \in Gamers :
               /\ ClaimReward(g) =>
                     /\ received'[g].fury = received[g].fury + RewardTold(g)
                     /\ RewardTold(g)' = 0
               /\ ClaimRefund(g) => RefundSettles(g, RefundTold(g))]_seasonVars
  BY DEF Settles
<1> QED
  BY <1>1, <1>2, FundsTypedHolds, PTL DEF ClaimsSettle

-----------------------------------------------------------------------------
(***************************************************************************)
(* No gamer is refunded twice.  A claim refunds all teams of the gamer in  *)
(* flagged pools at once; a batch may take the flag of a pool away         *)
(* afterwards, but only cancelling flags pools again, and then all of      *)
(* them.                                                                   *)
(***************************************************************************)
Unrefunded(g) ==
    \A p \in DOMAIN pools : \A i \in DOMAIN teams[p][g] :
       ~teams[p][g][i].claimedRefund
Refunded(g) ==
    \A p \in FlaggedPools : \A i \in DOMAIN teams[p][g] :
       teams[p][g][i].claimedRefund

\* Only a team that was refunded records a refund.
RefundsRecorded ==
    \A p \in DOMAIN pools, g \in Gamers : \A i \in DOMAIN teams[p][g] :
       ~teams[p][g][i].claimedRefund => teams[p][g][i].refund = 0

RefundedAtOnce ==
    /\ status = "open" => \A g \in Gamers : Unrefunded(g)
    /\ status # "cancelled" => \A g \in Gamers : Unrefunded(g) \/ Refunded(g)

RefundInv == RefundsRecorded /\ RefundedAtOnce /\ RefundedOnce

\* The refunds recorded of the teams of a pool.
RefundsIn(p, g) == [i \in DOMAIN teams[p][g] |-> teams[p][g][i].refund]

LEMMA NothingRecorded ==
    ASSUME SeasonInv, NEW g \in Gamers,
           \A p \in DOMAIN pools : SumOf(RefundsIn(p, g)) = 0
    PROVE  RefundOf(g) = 0
<1> DEFINE sums == [p \in DOMAIN pools |-> SumOf(RefundsIn(p, g))]
<1>1. RefundOf(g) = SumOf(sums)
  BY DEF RefundOf, RefundsIn
<1>2. Len(pools) \in Nat /\ DOMAIN sums = 1..Len(pools) /\ \A p \in 1..Len(pools) : sums[p] = 0
  BY PoolNumbers DEF SeasonInv
<1> HIDE DEF sums
<1>3. SumOf(sums) = 0
  BY <1>2, SumOfIsSum
<1> QED
  BY <1>1, <1>3

LEMMA NoRefundIn ==
    ASSUME SeasonInv, NEW p \in DOMAIN pools, NEW g \in Gamers,
           \A i \in DOMAIN teams[p][g] : teams[p][g][i].refund = 0
    PROVE  SumOf(RefundsIn(p, g)) = 0
<1> DEFINE n == Len(teams[p][g])
           seq == RefundsIn(p, g)
<1>1. n \in Nat /\ DOMAIN teams[p][g] = 1..n
  BY UnclaimedInNat
<1>2. DOMAIN seq = 1..n /\ \A i \in 1..n : seq[i] = 0
  BY <1>1 DEF RefundsIn
<1> HIDE DEF n, seq
<1>3. SumOf(seq) = 0
  BY <1>1, <1>2, SumOfIsSum
<1> QED
  BY <1>3 DEF seq

LEMMA UnrefundedIsNothing ==
    ASSUME SeasonInv, RefundsRecorded, NEW g \in Gamers, Unrefunded(g)
    PROVE  RefundOf(g) = 0
<1>1. \A p \in DOMAIN pools : \A i \in DOMAIN teams[p][g] : teams[p][g][i].refund = 0
  BY DEF RefundsRecorded, Unrefunded
<1> QED
  BY <1>1, NoRefundIn, NothingRecorded

\* A gamer whose claim is not refused was never refunded before.
LEMMA NothingBefore ==
    ASSUME SeasonInv, ClaimsInv, RefundInv, NEW h \in Gamers, ClaimRefund(h)
    PROVE  Unrefunded(h)
<1>1. NoneRefunded(h) /\ RefundDue(h) > 0
  BY DEF ClaimRefund
<1>2. CASE status = "cancelled"
  <2>1. FlaggedPools = DOMAIN pools
    BY <1>2 DEF FlaggedPools, SeasonInv, RefundsStayDue
  <2> QED
    BY <1>1, <2>1 DEF NoneRefunded, Unrefunded
<1>3. CASE status # "cancelled" /\ Refunded(h)
  <2>1. ASSUME NEW p \in DOMAIN pools
        PROVE  RefundIn(p, h) = 0
    <3>1. CASE p \notin FlaggedPools
      BY <3>1 DEF RefundIn
    <3>2. CASE p \in FlaggedPools
      <4>1. DOMAIN teams[p][h] = {}
        BY <1>1, <1>3, <3>2 DEF NoneRefunded, Refunded
      <4> DEFINE n == Len(teams[p][h])
      <4>2. n \in Nat /\ DOMAIN teams[p][h] = 1..n
        BY <2>1, UnclaimedInNat
      <4>3. n = 0
        <5>1. 1 \notin 1..n
          BY <4>1, <4>2
        <5> HIDE DEF n
        <5> QED
          BY <4>2, <5>1
      <4>4. Params[pools[p].type].fee \in Nat
        BY <2>1, FeeIsNat DEF SeasonInv
      <4> QED
        BY <3>2, <4>3, <4>4 DEF RefundIn
    <3> QED
      BY <3>1, <3>2
  <2> DEFINE dues == [p \in DOMAIN pools |-> RefundIn(p, h)]
  <2>2. RefundDue(h) = SumOf(dues)
    BY DEF RefundDue, RefundIn
  <2>3. Len(pools) \in Nat /\ DOMAIN dues = 1..Len(pools)
        /\ \A p \in 1..Len(pools) : dues[p] = 0
    BY <2>1, PoolNumbers DEF SeasonInv
  <2> HIDE DEF dues
  <2>4. SumOf(dues) = 0
    BY <2>3, SumOfIsSum
  <2> QED
    BY <1>1, <2>2, <2>4
<1> QED
  BY <1>2, <1>3 DEF RefundInv, RefundedAtOnce

\* A claim records the fees it refunds, for every team of a flagged pool.
LEMMA ClaimIsRecorded ==
    ASSUME SeasonInv, RefundsRecorded, NEW h \in Gamers, ClaimRefund(h), Unrefunded(h)
    PROVE  RefundOf(h)' = RefundDue(h)
<1>1. /\ pools' = pools
      /\ \A p \in 1..MaxPools, g \in Gamers : teams'[p][g] = RefundedBy(h, p, g)
  BY RefundedTeams DEF ClaimRefund, SeasonInv
<1>2. ASSUME NEW p \in DOMAIN pools
      PROVE  SumOf(RefundsIn(p, h)') = RefundIn(p, h)
  <2> DEFINE n == Len(teams[p][h])
             fee == Params[pools[p].type].fee
             seq == RefundsIn(p, h)'
  <2>1. n \in Nat /\ DOMAIN teams[p][h] = 1..n /\ fee \in Nat
    BY <1>2, UnclaimedInNat, FeeIsNat DEF SeasonInv
  <2>2. teams'[p][h] = RefundedBy(h, p, h)
    BY <1>1, <1>2, TeamsOfPools
  <2>3. DOMAIN seq = 1..n
    BY <2>1, <2>2 DEF RefundsIn, RefundedBy
  <2>4. ASSUME NEW i \in 1..n
        PROVE  seq[i] = IF p \in FlaggedPools THEN fee ELSE 0
    <3>1. teams[p][h][i] \in Team /\ i \in DOMAIN teams[p][h]
      BY <1>2, <2>1, <2>4, TeamsOfPools
    <3>2. seq[i] = RefundedBy(h, p, h)[i].refund
      BY <2>1, <2>2, <2>3, <2>4 DEF RefundsIn
    <3>3. CASE p \in FlaggedPools
      <4>1. RefundedBy(h, p, h)[i] = AsRefunded(teams[p][h][i], p)
        BY <3>1, <3>3 DEF RefundedBy
      <4>2. AsRefunded(teams[p][h][i], p).refund = fee
        BY <3>1 DEF AsRefunded, Team
      <4> QED
        BY <3>2, <3>3, <4>1, <4>2
    <3>4. CASE p \notin FlaggedPools
      <4>1. RefundedBy(h, p, h)[i] = teams[p][h][i]
        BY <3>1, <3>4 DEF RefundedBy
      <4>2. teams[p][h][i].refund = 0
        BY <1>2, <3>1 DEF Unrefunded, RefundsRecorded
      <4> QED
        BY <3>2, <3>4, <4>1, <4>2
    <3> QED
      BY <3>3, <3>4
  <2>5. RefundIn(p, h) = IF p \in FlaggedPools THEN fee * n ELSE 0
    BY DEF RefundIn
  <2>6. SumOf(RefundsIn(p, h)') = SumOf(seq)
    OBVIOUS
  <2> HIDE DEF n, fee, seq
  <2>7. CASE p \in FlaggedPools
    <3>1. \A i \in 1..n : seq[i] = fee
      BY <2>4, <2>7
    <3>2. SumOf(seq) = SumFunctionOnSet(seq, 1..n)
      BY <2>1, <2>3, <3>1, SumOfIsSum
    <3>3. IsFiniteSet(1..n) /\ Cardinality(1..n) = n
      <4>1. IsFiniteSet(1..n) /\ Cardinality(1..n) = IF 1 > n THEN 0 ELSE n - 1 + 1
        BY <2>1, FS_Interval
      <4> QED
        BY <2>1, <4>1
    <3>4. SumFunctionOnSet(seq, 1..n) = Cardinality(1..n) * fee
      BY <2>1, <3>1, <3>3, fee \in Int, SumOfConstant
    <3>5. n * fee = fee * n
      BY <2>1
    <3> QED
      BY <2>5, <2>6, <2>7, <3>2, <3>3, <3>4, <3>5
  <2>8. CASE p \notin FlaggedPools
    <3>1. \A i \in 1..n : seq[i] = 0
      BY <2>4, <2>8
    <3>2. SumOf(seq) = 0
      BY <2>1, <2>3, <3>1, SumOfIsSum
    <3> QED
      BY <2>5, <2>6, <2>8, <3>2
  <2> QED
    BY <2>7, <2>8
<1>3. RefundOf(h)' = SumOf([p \in DOMAIN pools |-> SumOf(RefundsIn(p, h)')])
  BY <1>1 DEF RefundOf, RefundsIn
<1>4. [p \in DOMAIN pools |-> SumOf(RefundsIn(p, h)')]
        = [p \in DOMAIN pools |-> RefundIn(p, h)]
  BY <1>2
<1> QED
  BY <1>3, <1>4 DEF RefundDue, RefundIn

LEMMA NoFeesOnNothing == GameFeesOf(0) = 0
<1>1. PlatformFee \in Nat /\ TransactionFee \in Nat
  BY GameAssumption
<1>2. 0 * PlatformFee = 0 /\ 0 * TransactionFee = 0
  BY <1>1
<1> QED
  BY <1>2 DEF GameFeesOf

\* The refunds of a gamer are as before when the same is recorded of its teams.
SameRefunds(g) ==
    \A p \in DOMAIN pools :
       /\ DOMAIN teams'[p][g] = DOMAIN teams[p][g]
       /\ \A i \in DOMAIN teams[p][g] :
             /\ teams'[p][g][i].refund = teams[p][g][i].refund
             /\ teams'[p][g][i].claimedRefund = teams[p][g][i].claimedRefund

LEMMA SameRefundOf ==
    ASSUME DOMAIN pools' = DOMAIN pools, NEW g \in Gamers, SameRefunds(g)
    PROVE  RefundOf(g)' = RefundOf(g)
<1>1. ASSUME NEW p \in DOMAIN pools
      PROVE  RefundsIn(p, g)' = RefundsIn(p, g)
  BY <1>1 DEF RefundsIn, SameRefunds
<1>2. RefundOf(g)' = SumOf([p \in DOMAIN pools |-> SumOf(RefundsIn(p, g)')])
  BY DEF RefundOf, RefundsIn
<1>3. [p \in DOMAIN pools |-> SumOf(RefundsIn(p, g)')]
        = [p \in DOMAIN pools |-> SumOf(RefundsIn(p, g))]
  BY <1>1
<1> QED
  BY <1>2, <1>3 DEF RefundOf, RefundsIn

LEMMA ClaimRefundOnce ==
    ASSUME SeasonInv, ClaimsInv, FundsTyped, RefundInv,
           NEW h \in Gamers, ClaimRefund(h)
    PROVE  RefundInv'
<1> USE DEF RefundInv
<1>1. /\ pools' = pools /\ status' = status /\ FlaggedPools' = FlaggedPools
      /\ \A p \in 1..MaxPools, g \in Gamers : teams'[p][g] = RefundedBy(h, p, g)
      /\ received' = [received EXCEPT ![h].usdc = @ + GameFeesOf(RefundDue(h))]
  BY RefundedTeams DEF ClaimRefund, SeasonInv, FlaggedPools
<1>2. Unrefunded(h)
  BY NothingBefore
<1>3. ASSUME NEW p \in DOMAIN pools, NEW g \in Gamers
      PROVE  /\ DOMAIN teams'[p][g] = DOMAIN teams[p][g]
             /\ \A i \in DOMAIN teams[p][g] :
                   IF g = h /\ p \in FlaggedPools
                   THEN teams'[p][g][i].claimedRefund
                   ELSE teams'[p][g][i] = teams[p][g][i]
  <2>1. teams'[p][g] = RefundedBy(h, p, g)
    BY <1>1, <1>3, TeamsOfPools
  <2>2. DOMAIN RefundedBy(h, p, g) = DOMAIN teams[p][g]
    BY DEF RefundedBy
  <2>3. ASSUME NEW i \in DOMAIN teams[p][g]
        PROVE  IF g = h /\ p \in FlaggedPools
               THEN RefundedBy(h, p, g)[i].claimedRefund
               ELSE RefundedBy(h, p, g)[i] = teams[p][g][i]
    <3>1. teams[p][g][i] \in Team
      BY <1>3, <2>3, TeamsOfPools
    <3> QED
      BY <2>3, <3>1 DEF RefundedBy, AsRefunded, Team
  <2> QED
    BY <2>1, <2>2, <2>3
<1>4. RefundsRecorded'
  BY <1>1, <1>3 DEF RefundsRecorded
<1>5. Refunded(h)'
  <2>1. FlaggedPools \subseteq DOMAIN pools
    BY DEF FlaggedPools
  <2> QED
    BY <1>1, <1>3, <2>1 DEF Refunded
<1>6. ASSUME NEW g \in Gamers, g # h
      PROVE  /\ SameRefunds(g)
             /\ Unrefunded(g) => Unrefunded(g)'
             /\ Refunded(g) => Refunded(g)'
  <2>1. FlaggedPools \subseteq DOMAIN pools
    BY DEF FlaggedPools
  <2> QED
    BY <1>1, <1>3, <1>6, <2>1 DEF SameRefunds, Unrefunded, Refunded
<1>7. RefundedAtOnce'
  <2>1. status # "open"
    <3>1. SUFFICES ASSUME status = "open" PROVE FALSE
      OBVIOUS
    <3>2. \A p \in DOMAIN pools : RefundIn(p, h) = 0
      BY <3>1 DEF RefundIn, FlaggedPools, ClaimsInv, OpenIsUnflagged
    <3> DEFINE dues == [p \in DOMAIN pools |-> RefundIn(p, h)]
    <3>3. RefundDue(h) = SumOf(dues)
      BY DEF RefundDue, RefundIn
    <3>4. Len(pools) \in Nat /\ DOMAIN dues = 1..Len(pools)
          /\ \A p \in 1..Len(pools) : dues[p] = 0
      BY <3>2, PoolNumbers DEF SeasonInv
    <3> HIDE DEF dues
    <3>5. SumOf(dues) = 0
      BY <3>4, SumOfIsSum
    <3>6. RefundDue(h) > 0
      BY DEF ClaimRefund
    <3> QED
      BY <3>3, <3>5, <3>6
  <2> QED
    BY <1>1, <1>5, <1>6, <2>1 DEF RefundedAtOnce
<1>8. ASSUME NEW g \in Gamers
      PROVE  received'[g].usdc = GameFeesOf(RefundOf(g)')
  <2>1. CASE g = h
    <3>1. received[h].usdc = 0
      BY <1>2, UnrefundedIsNothing, NoFeesOnNothing DEF RefundedOnce
    <3>2. RefundOf(h)' = RefundDue(h)
      BY <1>2, ClaimIsRecorded
    <3>3. GameFeesOf(RefundDue(h)) \in Nat
      BY DuesAreNat, FeesAreNat DEF ClaimsInv
    <3>4. received'[h].usdc = received[h].usdc + GameFeesOf(RefundDue(h))
      BY <1>1 DEF FundsTyped
    <3> QED
      BY <2>1, <3>1, <3>2, <3>3, <3>4
  <2>2. CASE g # h
    <3>1. received'[g].usdc = received[g].usdc
      BY <1>1, <2>2 DEF FundsTyped
    <3>2. RefundOf(g)' = RefundOf(g)
      BY <1>1, <1>6, <2>2, SameRefundOf
    <3> QED
      BY <3>1, <3>2 DEF RefundedOnce
  <2> QED
    BY <2>1, <2>2
<1>9. RefundedOnce'
  BY <1>8 DEF RefundedOnce, GameFeesOf
<1> QED
  BY <1>4, <1>7, <1>9

\* A message that records no refund keeps the rest, when it flags no pool but by
\* locking an open game or cancelling.
LEMMA RefundsKept ==
    ASSUME SeasonInv, RefundInv, DOMAIN pools' = DOMAIN pools,
           \A g \in Gamers : SameRefunds(g) /\ received'[g].usdc = received[g].usdc,
           status' = "open" => status = "open",
           status' # "cancelled" =>
              status # "cancelled" /\ (status = "open" \/ FlaggedPools' \subseteq FlaggedPools)
    PROVE  RefundInv'
<1> USE DEF RefundInv
<1>1. RefundsRecorded'
  BY DEF RefundsRecorded, SameRefunds
<1>2. ASSUME NEW g \in Gamers
      PROVE  /\ Unrefunded(g) => Unrefunded(g)'
             /\ FlaggedPools' \subseteq FlaggedPools /\ Refunded(g) => Refunded(g)'
  <2>1. FlaggedPools \subseteq DOMAIN pools
    BY DEF FlaggedPools
  <2> QED
    BY <1>2, <2>1 DEF Unrefunded, Refunded, SameRefunds
<1>3. RefundedAtOnce'
  BY <1>2 DEF RefundedAtOnce
<1>4. ASSUME NEW g \in Gamers
      PROVE  received'[g].usdc = GameFeesOf(RefundOf(g)')
  BY <1>4, SameRefundOf DEF RefundedOnce
<1>5. RefundedOnce'
  BY <1>4 DEF RefundedOnce, GameFeesOf
<1> QED
  BY <1>1, <1>3, <1>5

\* New pools and new teams come to an open game, where nobody was refunded.
LEMMA NewRefunds ==
    ASSUME SeasonInv, SeasonInv', RefundInv, status = "open", received' = received,
           \A p \in DOMAIN pools', g \in Gamers : \A i \in DOMAIN teams'[p][g] :
              ~teams'[p][g][i].claimedRefund /\ teams'[p][g][i].refund = 0
    PROVE  RefundInv'
<1> USE DEF RefundInv
<1>1. RefundsRecorded'
  BY DEF RefundsRecorded
<1>2. \A g \in Gamers : Unrefunded(g) /\ Unrefunded(g)'
  BY DEF RefundedAtOnce, Unrefunded
<1>3. RefundedAtOnce'
  BY <1>2 DEF RefundedAtOnce
<1>4. ASSUME NEW g \in Gamers
      PROVE  RefundOf(g) = 0 /\ RefundOf(g)' = 0
  <2>1. RefundOf(g) = 0
    BY <1>2, UnrefundedIsNothing
  <2>2. /\ Len(pools') \in Nat /\ DOMAIN pools' = 1..Len(pools')
        /\ \A p \in DOMAIN pools' : p \in 1..MaxPools
    BY LenProperties, GameAssumption DEF SeasonInv, PoolsTyped
  <2>3. ASSUME NEW p \in DOMAIN pools'
        PROVE  SumOf(RefundsIn(p, g)') = 0
    <3> DEFINE n == Len(teams'[p][g])
               seq == RefundsIn(p, g)'
    <3>1. n \in Nat /\ DOMAIN teams'[p][g] = 1..n
      BY <2>2, <2>3, LenProperties DEF SeasonInv, TeamsTyped
    <3>2. DOMAIN seq = 1..n /\ \A i \in 1..n : seq[i] = 0
      BY <2>3, <3>1 DEF RefundsIn
    <3> HIDE DEF n, seq
    <3>3. SumOf(seq) = 0
      BY <3>1, <3>2, SumOfIsSum
    <3> QED
      BY <3>3 DEF seq
  <2>4. RefundOf(g)' = 0
    <3> DEFINE sums == [p \in DOMAIN pools' |-> SumOf(RefundsIn(p, g)')]
    <3>1. RefundOf(g)' = SumOf(sums)
      BY DEF RefundOf, RefundsIn
    <3>2. DOMAIN sums = 1..Len(pools') /\ \A p \in 1..Len(pools') : sums[p] = 0
      BY <2>2, <2>3
    <3> HIDE DEF sums
    <3>3. SumOf(sums) = 0
      BY <2>2, <3>2, SumOfIsSum
    <3> QED
      BY <3>1, <3>3
  <2> QED
    BY <2>1, <2>4
<1>5. RefundedOnce'
  BY <1>4 DEF RefundedOnce, GameFeesOf
<1> QED
  BY <1>1, <1>3, <1>5

LEMMA BidRefunds ==
    ASSUME SeasonInv, SeasonInv', RefundInv,
           NEW h \in Gamers, NEW t \in PoolTypes, NEW q \in DOMAIN pools,
           NEW id \in TeamIds, GamePoolBidSubmit(h, t, q, id)
    PROVE  RefundInv'
<1>1. /\ status = "open" /\ received' = received /\ DOMAIN pools' = DOMAIN pools
      /\ teams' = [teams EXCEPT ![q][h] = Append(@, NewTeam(id))]
  BY BidEffect DEF GamePoolBidSubmit
<1>2. ASSUME NEW p \in DOMAIN pools, NEW g \in Gamers, NEW i \in DOMAIN teams'[p][g]
      PROVE  \/ i \in DOMAIN teams[p][g] /\ teams'[p][g][i] = teams[p][g][i]
             \/ teams'[p][g][i] = NewTeam(id)
  <2> DEFINE new == Append(teams[q][h], NewTeam(id))
             n == Len(teams[q][h])
  <2>1. p \in 1..MaxPools /\ q \in 1..MaxPools
    BY <1>2, TeamsOfPools
  <2>2. teams'[p][g] = IF p = q /\ g = h THEN new ELSE teams[p][g]
    BY <1>1, <2>1 DEF SeasonInv, TeamsTyped
  <2>3. /\ teams[q][h] \in Seq(Team) /\ n \in Nat /\ DOMAIN teams[q][h] = 1..n
        /\ NewTeam(id) \in Team
    BY <2>1, TeamsOfPools DEF NewTeam, Team
  <2>4. /\ new \in Seq(Team) /\ Len(new) = n + 1 /\ new[n + 1] = NewTeam(id)
        /\ \A k \in 1..n : new[k] = teams[q][h][k]
    BY <2>3, AppendProperties
  <2>5. DOMAIN new = 1..(n + 1)
    BY <2>4, LenProperties
  <2> HIDE DEF new, n
  <2>6. CASE p = q /\ g = h
    <3>1. i \in 1..n \/ i = n + 1
      BY <1>2, <2>2, <2>3, <2>5, <2>6
    <3> QED
      BY <2>2, <2>3, <2>4, <2>6, <3>1
  <2>7. CASE ~(p = q /\ g = h)
    BY <1>2, <2>2, <2>7
  <2> QED
    BY <2>6, <2>7
<1>3. ASSUME NEW p \in DOMAIN pools, NEW g \in Gamers, NEW i \in DOMAIN teams[p][g]
      PROVE  ~teams[p][g][i].claimedRefund /\ teams[p][g][i].refund = 0
  BY <1>1, <1>3 DEF RefundInv, RefundedAtOnce, Unrefunded, RefundsRecorded
<1>4. ~NewTeam(id).claimedRefund /\ NewTeam(id).refund = 0
  BY DEF NewTeam
<1>5. \A p \in DOMAIN pools', g \in Gamers : \A i \in DOMAIN teams'[p][g] :
         ~teams'[p][g][i].claimedRefund /\ teams'[p][g][i].refund = 0
  BY <1>1, <1>2, <1>3, <1>4
<1> QED
  BY <1>1, <1>5, NewRefunds

LEMMA CreatePoolRefunds ==
    ASSUME SeasonInv, SeasonInv', ClaimsInv, RefundInv,
           NEW t \in PoolTypes, Len(pools) < MaxPools, CreatePool(t)
    PROVE  RefundInv'
<1> DEFINE q == Len(pools) + 1
<1>1. DOMAIN pools' = 1..q /\ DOMAIN pools = 1..Len(pools)
      /\ Len(pools) \in Nat /\ MaxPools \in Nat
  BY CreatedPool, PoolNumbers DEF CreatePool, SeasonInv
<1>2. status = "open" /\ received' = received /\ teams' = teams
  BY DEF CreatePool, funds
<1>3. q \in 1..MaxPools /\ q \notin DOMAIN pools
  BY <1>1
<1>4. \A p \in DOMAIN pools' : p \in DOMAIN pools \/ p = q
  BY <1>1
<1> HIDE DEF q
<1>5. ASSUME NEW p \in DOMAIN pools', NEW g \in Gamers, NEW i \in DOMAIN teams[p][g]
      PROVE  ~teams[p][g][i].claimedRefund /\ teams[p][g][i].refund = 0
  <2>1. CASE p = q
    <3>1. Len(teams[q][g]) = 0
      BY <1>3 DEF ClaimsInv, NoStrayTeams
    <3>2. DOMAIN teams[q][g] = 1..Len(teams[q][g])
      BY <1>3, TeamsOfPools
    <3> QED
      BY <1>5, <2>1, <3>1, <3>2
  <2>2. CASE p \in DOMAIN pools
    BY <1>2, <1>5, <2>2 DEF RefundInv, RefundedAtOnce, Unrefunded, RefundsRecorded
  <2> QED
    BY <1>4, <2>1, <2>2
<1>6. \A p \in DOMAIN pools', g \in Gamers : \A i \in DOMAIN teams'[p][g] :
         ~teams'[p][g][i].claimedRefund /\ teams'[p][g][i].refund = 0
  BY <1>2, <1>5
<1> QED
  BY <1>2, <1>6, NewRefunds

LEMMA ClaimRewardRefunds ==
    ASSUME SeasonInv, FundsTyped, RefundInv, NEW h \in Gamers, ClaimReward(h)
    PROVE  RefundInv'
<1>1. /\ pools' = pools /\ status' = status
      /\ \A p \in 1..MaxPools, g \in Gamers : teams'[p][g] = ClaimedBy(h, p, g)
      /\ received' = [received EXCEPT ![h].fury = @ + RewardDue(h)]
  BY ClaimedTeams DEF ClaimReward, SeasonInv
<1>2. \A g \in Gamers : received'[g].usdc = received[g].usdc
  BY <1>1 DEF FundsTyped
<1>3. ASSUME NEW p \in DOMAIN pools, NEW g \in Gamers
      PROVE  /\ DOMAIN teams'[p][g] = DOMAIN teams[p][g]
             /\ \A i \in DOMAIN teams[p][g] :
                   /\ teams'[p][g][i].refund = teams[p][g][i].refund
                   /\ teams'[p][g][i].claimedRefund = teams[p][g][i].claimedRefund
  <2>1. teams'[p][g] = ClaimedBy(h, p, g)
    BY <1>1, <1>3, TeamsOfPools
  <2>2. DOMAIN ClaimedBy(h, p, g) = DOMAIN teams[p][g]
    BY DEF ClaimedBy
  <2>3. ASSUME NEW i \in DOMAIN teams[p][g]
        PROVE  /\ ClaimedBy(h, p, g)[i].refund = teams[p][g][i].refund
               /\ ClaimedBy(h, p, g)[i].claimedRefund = teams[p][g][i].claimedRefund
    <3>1. teams[p][g][i] \in Team
      BY <1>3, <2>3, TeamsOfPools
    <3> QED
      BY <2>3, <3>1 DEF ClaimedBy, AsClaimed, Team
  <2> QED
    BY <2>1, <2>2, <2>3
<1>4. \A g \in Gamers : SameRefunds(g)
  BY <1>3 DEF SameRefunds
<1>5. FlaggedPools' = FlaggedPools
  BY <1>1 DEF FlaggedPools
<1> QED
  BY <1>1, <1>2, <1>4, <1>5, RefundsKept DEF RefundInv, RefundedAtOnce

LEMMA DistributeRefunds ==
    ASSUME SeasonInv, RefundInv, NEW q \in DOMAIN pools, NEW list,
           NEW final \in BOOLEAN, NEW rake,
           GamePoolRewardDistribute(q, list, final, rake)
    PROVE  RefundInv'
<1>1. /\ DOMAIN pools' = DOMAIN pools
      /\ \A p \in DOMAIN pools :
            pools'[p] = IF p = q THEN Batched(pools[q], final) ELSE pools[p]
      /\ \A p \in 1..MaxPools, g \in Gamers :
            teams'[p][g] = IF p = q THEN Rewarded(teams[q][g], list, g)
                           ELSE teams[p][g]
  BY DistributeEffect, ZenonT(30)
<1>2. status \in {"closed", "completed"} /\ status' # "open" /\ received' = received
  BY DEF GamePoolRewardDistribute
<1>3. ~Batched(pools[q], final).refund
  BY TeamsOfPools DEF Batched, Pool
<1>4. FlaggedPools' \subseteq FlaggedPools
  BY <1>1, <1>3 DEF FlaggedPools
<1>5. ASSUME NEW p \in DOMAIN pools, NEW g \in Gamers
      PROVE  /\ DOMAIN teams'[p][g] = DOMAIN teams[p][g]
             /\ \A i \in DOMAIN teams[p][g] :
                   /\ teams'[p][g][i].refund = teams[p][g][i].refund
                   /\ teams'[p][g][i].claimedRefund = teams[p][g][i].claimedRefund
  <2>1. teams'[p][g] = IF p = q THEN Rewarded(teams[p][g], list, g) ELSE teams[p][g]
    BY <1>1, <1>5, TeamsOfPools
  <2>2. DOMAIN Rewarded(teams[p][g], list, g) = DOMAIN teams[p][g]
    BY DEF Rewarded
  <2>3. ASSUME NEW i \in DOMAIN teams[p][g]
        PROVE  /\ Rewarded(teams[p][g], list, g)[i].refund = teams[p][g][i].refund
               /\ Rewarded(teams[p][g], list, g)[i].claimedRefund
                    = teams[p][g][i].claimedRefund
    <3> DEFINE team == teams[p][g][i]
    <3>1. team \in Team
      BY <1>5, <2>3, TeamsOfPools
    <3>2. Rewarded(teams[p][g], list, g)[i] =
            IF Decisive(list, g, team.id) = {} THEN team
            ELSE [team EXCEPT !.reward = RewardIn(list, g, team.id)]
      BY <2>3 DEF Rewarded
    <3> QED
      BY <3>1, <3>2 DEF Team
  <2> QED
    BY <2>1, <2>2, <2>3
<1>6. \A g \in Gamers : SameRefunds(g)
  BY <1>5 DEF SameRefunds
<1> QED
  BY <1>1, <1>2, <1>4, <1>6, RefundsKept

\* The messages that leave the teams alone.
LEMMA OtherRefunds ==
    ASSUME SeasonInv, RefundInv, teams' = teams, received' = received,
           \/ UNCHANGED <<pools, status>>
           \/ LockGame
           \/ CancelGame
    PROVE  RefundInv'
<1>1. \A g \in Gamers : SameRefunds(g) /\ received'[g].usdc = received[g].usdc
  BY DEF SameRefunds
<1>2. CASE UNCHANGED <<pools, status>>
  <2>1. FlaggedPools' = FlaggedPools
    BY <1>2 DEF FlaggedPools
  <2> QED
    BY <1>1, <1>2, <2>1, RefundsKept
<1>3. CASE LockGame
  <2>1. status = "open" /\ status' = "closed" /\ DOMAIN pools' = DOMAIN pools
    BY <1>3 DEF LockGame
  <2> QED
    BY <1>1, <2>1, RefundsKept
<1>4. CASE CancelGame
  <2>1. status' = "cancelled" /\ DOMAIN pools' = DOMAIN pools
    BY <1>4 DEF CancelGame
  <2> QED
    BY <1>1, <2>1, RefundsKept
<1> QED
  BY <1>2, <1>3, <1>4

LEMMA RefundInvNext ==
    ASSUME SeasonInv, SeasonInv', ClaimsInv, FundsTyped, RefundInv,
           [SeasonNext]_seasonVars
    PROVE  RefundInv'
<1>1. CASE GamerNext
  BY <1>1, BidRefunds, ClaimRewardRefunds, ClaimRefundOnce DEF GamerNext
<1>2. CASE AdminNext
  <2>1. ASSUME Len(pools) < MaxPools, NEW t \in PoolTypes, CreatePool(t)
        PROVE  RefundInv'
    BY <2>1, CreatePoolRefunds
  <2>2. ASSUME NEW p \in DOMAIN pools, NEW list \in WinnerLists,
               NEW final \in BOOLEAN, NEW rake \in RakeAmounts,
               GamePoolRewardDistribute(p, list, final, rake)
        PROVE  RefundInv'
    BY <2>2, DistributeRefunds
  <2>3. CASE LockGame \/ CancelGame
    BY <2>3, OtherRefunds DEF LockGame, CancelGame, funds
  <2>4. CASE \/ \E t \in PoolTypes : SetPoolTypeParams(t)
             \/ \E p \in DOMAIN pools, amount \in SwapAmounts : Swap(p, amount)
             \/ \E amount \in SweepAmounts : ExecuteSweep(amount)
    <3>1. teams' = teams /\ received' = received /\ UNCHANGED <<pools, status>>
      BY <2>4 DEF SetPoolTypeParams, Swap, ExecuteSweep, funds
    <3> QED
      BY <3>1, OtherRefunds
  <2> QED
    BY <1>2, <2>1, <2>2, <2>3, <2>4 DEF AdminNext
<1>3. CASE Deposit \/ UNCHANGED seasonVars
  <2>1. teams' = teams /\ received' = received /\ UNCHANGED <<pools, status>>
    BY <1>3 DEF Deposit, seasonVars, gameVars, funds
  <2> QED
    BY <2>1, OtherRefunds
<1> QED
  BY <1>1, <1>2, <1>3 DEF SeasonNext, GameNext

LEMMA RefundInvInit ==
    ASSUME SeasonInit
    PROVE  RefundInv
<1>1. /\ DOMAIN pools = {} /\ pools \in Seq(Pool) /\ Len(pools) = 0
      /\ received = [g \in Gamers |-> [usdc |-> 0, fury |-> 0]]
  BY EmptySeq DEF SeasonInit, GameInit
<1>2. SeasonInv
  BY SeasonInvInit
<1>3. \A g \in Gamers : Unrefunded(g)
  BY <1>1 DEF Unrefunded
<1>4. RefundsRecorded
  BY <1>1 DEF RefundsRecorded
<1>5. \A g \in Gamers : RefundOf(g) = 0
  BY <1>2, <1>3, <1>4, UnrefundedIsNothing
<1> QED
  BY <1>1, <1>3, <1>4, <1>5, NoFeesOnNothing
  DEF RefundInv, RefundedAtOnce, RefundedOnce

\* No gamer is refunded twice, however its pools are flagged and given over: what
\* it was ever sent in USDC is the fees on the refunds that its teams record.
THEOREM RefundedOnceHolds == SeasonSpec => []RefundedOnce
<1>1. SeasonInit => RefundInv
  BY RefundInvInit
<1>2. SeasonInv /\ SeasonInv' /\ ClaimsInv /\ FundsTyped /\ RefundInv
        /\ [SeasonNext]_seasonVars => RefundInv'
  BY RefundInvNext
<1>3. RefundInv => RefundedOnce
  BY DEF RefundInv
<1> QED
  BY <1>1, <1>2, <1>3, FundsTypedHolds, PTL DEF SeasonSpec

=============================================================================
