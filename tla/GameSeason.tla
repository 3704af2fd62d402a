------------------------------ MODULE GameSeason ------------------------------
(***************************************************************************)
(* What the gamingpool contract owes the gamers from the opening of the    *)
(* game to the last claim, whatever is sent and when.                      *)
(***************************************************************************)
EXTENDS GamingPool

\* History: whether a pool was ever given over from refunds to rewards, or
\* from rewards to refunds.
VARIABLE mixed

seasonVars == <<gameVars, mixed>>

SeasonInit == GameInit /\ mixed = FALSE

GivenOver(p) == \/ pools[p].refund /\ pools'[p].reward
                \/ pools[p].reward /\ pools'[p].refund

SeasonNext ==
    /\ GameNext
    /\ mixed' = (mixed \/ \E p \in DOMAIN pools : GivenOver(p))

SeasonSpec == SeasonInit /\ [][SeasonNext]_seasonVars

-----------------------------------------------------------------------------
(***************************************************************************)
(* Properties.                                                             *)
(***************************************************************************)

GameTypeOK ==
    /\ status \in {"open", "closed", "cancelled", "completed"}
    /\ types \subseteq PoolTypes
    /\ Len(pools) <= MaxPools /\ \A p \in DOMAIN pools : pools[p] \in Pool
    /\ \A p \in 1..MaxPools, g \in Gamers :
          \A i \in DOMAIN teams[p][g] : teams[p][g][i] \in Team
    /\ \A p \in 1..MaxPools :
          /\ cell[p].kind \in {"none", "reward", "swap"}
          /\ \A field \in DOMAIN cell[p] \ {"kind"} : cell[p][field] \in Nat
    /\ usdc \in Nat /\ fury \in Nat
    /\ received \in [Gamers -> [usdc : Nat, fury : Nat]]

\* The number of teams of a pool, which decides whether it is full, unfilled
\* or due for refunds, is the number of teams stored for its gamers, and never
\* more than some pool type allows: through bids that name any type, locking,
\* batches that rewrite the pool, and cancelling.
TeamsCounted ==
    \A p \in DOMAIN pools :
       /\ pools[p].count = SumFunction([g \in Gamers |-> Len(teams[p][g])])
       /\ \A t \in PoolTypes :
             pools[p].type = t => pools[p].count <= Params[t].maxTeams

\* Batches and claims rewrite the teams of a gamer, but never lose or exchange
\* one, and never take back that its reward or refund was claimed.
Continues(old, new) ==
    /\ new.id = old.id
    /\ old.claimedReward => new.claimedReward
    /\ old.claimedRefund => new.claimedRefund
TeamsKept(p, g) ==
    /\ Len(teams[p][g]) <= Len(teams'[p][g])
    /\ \A i \in DOMAIN teams[p][g] : Continues(teams[p][g][i], teams'[p][g][i])
TeamsOnlyGrow ==
    [][\A p \in 1..MaxPools, g \in Gamers : TeamsKept(p, g)]_seasonVars

\* Once the final batch of a pool was sent, its teams and their rewards are
\* settled: nobody enters any more, and no reward changes, even when the game
\* is closed again by the batches of another pool.
RewardsFixed(p) ==
    \A g \in Gamers : \A i \in DOMAIN teams[p][g] :
       teams'[p][g][i].reward = teams[p][g][i].reward
StaysFinished(p) ==
    /\ pools'[p].distributed
    /\ pools'[p].count = pools[p].count
    /\ RewardsFixed(p)
FinishedPoolsSettled ==
    [][\A p \in DOMAIN pools : pools[p].distributed => StaysFinished(p)]_seasonVars

\* The queries and the claims reckon alike, though query_refund leaves out teams
\* that were refunded, where claim_refund counts them all, and refuses: a claim is
\* of what the queries said, from every pool at once, and leaves nothing more to
\* be told.  A gamer is sent the rewards it was told of.  It is not sent the
\* refund it was told of, but the fees of the game on it, in USDC; no claim of
\* refunds sends a gamer any FURY.
RefundSettles(g, told) ==
    /\ usdc - usdc' = told + SwapFeeOf(told) + GameFeesOf(told)
    /\ received'[g] = [received[g] EXCEPT !.usdc = @ + GameFeesOf(told)]
    /\ RefundTold(g)' = 0
ClaimsSettle ==
    [][\A g \in Gamers :
          /\ ClaimReward(g) =>
                /\ received'[g].fury = received[g].fury + RewardTold(g)
                /\ RewardTold(g)' = 0
          /\ ClaimRefund(g) => RefundSettles(g, RefundTold(g))]_seasonVars

\* No gamer is refunded twice, however pools are flagged, rewarded and flagged
\* again between its claims: all the USDC it was ever sent is the fees on the
\* refunds its teams record.
RefundOf(g) ==
    SumOf([p \in DOMAIN pools |->
             SumOf([i \in DOMAIN teams[p][g] |-> teams[p][g][i].refund])])
RefundedOnce == \A g \in Gamers : received[g].usdc = GameFeesOf(RefundOf(g))

\* Gamers are told of no reward that they cannot claim, in all and team by team,
\* although query_reward and query_game_result look at the teams only and a
\* claim at the flags of the pools too, which locking, cancelling and bids
\* rewrite; and the types of pools that owe refunds, by which query_refund and
\* claim_refund reckon and without which both fail, are always known.
ToldIsDue ==
    /\ \A g \in Gamers :
          /\ RewardTold(g) = RewardDue(g)
          /\ RewardTold(g) = MapThenSumSet(
                LAMBDA key : GameResult(g, key[1], key[2]), (DOMAIN pools) \X TeamIds)
    /\ FlaggedTypesKnown

\* In a cancelled game every pool stays flagged for refund, and in a game that
\* was locked an unfilled pool does, unless rewards were distributed for it.
RefundsStayDue ==
    \A p \in DOMAIN pools :
       /\ status = "cancelled" => pools[p].refund
       /\ status # "open" /\ pools[p].count < Params[pools[p].type].minTeams
             => pools[p].refund \/ pools[p].reward

\* As long as no pool was given over from refunds to rewards or back, no team
\* is both refunded and rewarded, in whatever order its gamer claims.
RefundXorReward ==
    ~mixed => \A p \in DOMAIN pools, g \in Gamers :
                 \A i \in DOMAIN teams[p][g] :
                    ~(teams[p][g][i].claimedRefund /\ teams[p][g][i].claimedReward)

\* "reward amount in quantity of tokens after completion of game" and "refund
\* amount in quantity of tokens in case game gets cancelled or pool not filled"
\* (the comments on PoolTeamDetails): no team is paid both.
NeverBothPaid ==
    \A p \in DOMAIN pools, g \in Gamers : \A i \in DOMAIN teams[p][g] :
       LET team == teams[p][g][i]
       IN  ~(/\ team.claimedRefund /\ team.refund > 0
             /\ team.claimedReward /\ team.reward > 0)

\* "refund amount in quantity of tokens in case game gets cancelled or pool not
\* filled": in a cancelled game whose pools never had rewards, a gamer with a
\* fee that was not refunded can claim it, apart from the contract's funds.
CancelledIsRefundable ==
    ~mixed /\ status = "cancelled" =>
       \A g \in Gamers :
          (\E p \in DOMAIN pools : \E i \in DOMAIN teams[p][g] :
              ~teams[p][g][i].claimedRefund) => NoneRefunded(g)

=============================================================================
