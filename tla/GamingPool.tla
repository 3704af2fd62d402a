------------------------------ MODULE GamingPool ------------------------------
(***************************************************************************)
(* The gamingpool contract: one game, the pools of teams that gamers enter *)
(* for a fee while the game is open, and the rewards or refunds of the     *)
(* teams afterwards.  A message is one atomic step; a message that returns *)
(* an error, or whose transfers fail, changes nothing and is no step here. *)
(*                                                                         *)
(* The swap contract that turns USDC into FURY and back is external: a     *)
(* swap brings any amount among Rates times the amount paid.  Fees that a  *)
(* gamer attaches to a claim pass through the contract to a wallet outside *)
(* the system.  The wallets of set_platform_fee_wallets are never read.    *)
(***************************************************************************)
EXTENDS Integers, FiniteSets, SequencesExt

CONSTANTS
    Gamers, TeamIds, PoolTypes,
    Params,         \* of a pool type: its fee, its limits and its rake shares
    PlatformFee,    \* config.platform_fee, in hundredths of a percent
    TransactionFee, \* config.transaction_fee, in hundredths of a percent
    SwapFee,        \* fees of the swap contract, per thousand
    Rates,          \* what a swap brings for one unit
    \* Bounds: the inputs that are enumerated, the number of pools, the balance
    \* up to which deposits and swaps are sent, and the total of the rewards of
    \* a pool up to which batches are.
    WinnerLists, SwapAmounts, RakeAmounts, SweepAmounts, MaxPools, MaxFunds,
    MaxTotal

ParamsType == [fee : Nat, minTeams : Nat, maxTeams : Nat, perGamer : Nat,
               rake : Seq(Nat)]

ASSUME GameAssumption ==
    /\ IsFiniteSet(Gamers) /\ IsFiniteSet(TeamIds)
    /\ Params \in [PoolTypes -> ParamsType]
    /\ {PlatformFee, TransactionFee, SwapFee, MaxPools, MaxFunds, MaxTotal} \subseteq Nat
    /\ Rates \cup SwapAmounts \cup RakeAmounts \cup SweepAmounts \subseteq Nat
    /\ WinnerLists \subseteq
         Seq([gamer : Gamers, team : TeamIds, amount : Nat])

VARIABLES
    status, \* GAME_DETAILS: "open", "closed", "cancelled" or "completed"
    types,  \* the keys of POOL_TYPE_DETAILS
    pools,  \* POOL_DETAILS; the id of a pool is its number
    teams,  \* POOL_TEAM_DETAILS: the Vec of a pool and a gamer
    cell,   \* of a pool, its entry "current_reward_for_pool" (see Cell)
    usdc,   \* the USDC of the contract
    fury,   \* the FURY of the contract
    received \* history: what the contract has sent each gamer of the two

funds == <<usdc, fury, received>>
gameVars == <<status, types, pools, teams, cell, funds>>

-----------------------------------------------------------------------------
(***************************************************************************)
(* Data.  CURRENT_REWARD_FOR_POOL and SWAP_BALANCE_INFO are maps of one    *)
(* namespace, so a pool has one entry for both: the total of the rewards   *)
(* or the outcome of a swap, whichever was saved last.                     *)
(***************************************************************************)
Pool == [type : PoolTypes, count : Nat, distributed : BOOLEAN,
         refund : BOOLEAN, reward : BOOLEAN]
Team == [id : TeamIds, reward : Nat, claimedReward : BOOLEAN,
         refund : Nat, claimedRefund : BOOLEAN]
Cell == [kind : {"none"}] \cup [kind : {"reward"}, total : Nat]
          \cup [kind : {"swap"}, swapped : Nat, rake : Nat, rate : Nat]

NewPool(t) == [type |-> t, count |-> 0, distributed |-> FALSE,
               refund |-> FALSE, reward |-> FALSE]
NewTeam(id) == [id |-> id, reward |-> 0, claimedReward |-> FALSE,
                refund |-> 0, claimedRefund |-> FALSE]

GameInit ==
    /\ status = "open"
    /\ types = {}
    /\ pools = << >>
    /\ teams = [p \in 1..MaxPools |-> [g \in Gamers |-> << >>]]
    /\ cell = [p \in 1..MaxPools |-> [kind |-> "none"]]
    /\ usdc = 0
    /\ fury = 0
    /\ received = [g \in Gamers |-> [usdc |-> 0, fury |-> 0]]

SumOf(seq) == FoldLeft(+, 0, seq)

SwapFeeOf(amount) == (amount * SwapFee) \div 1000
GameFeesOf(amount) ==
    (amount * PlatformFee) \div 10000 + (amount * TransactionFee) \div 10000

-----------------------------------------------------------------------------
(***************************************************************************)
(* The administrator sets up the game.                                     *)
(***************************************************************************)

SetPoolTypeParams(t) ==
    /\ t \notin types
    /\ types' = types \cup {t}
    /\ UNCHANGED <<status, pools, teams, cell, funds>>

\* The type of a new pool need not have been set.
CreatePool(t) ==
    /\ status = "open"
    /\ pools' = Append(pools, NewPool(t))
    /\ UNCHANGED <<status, types, teams, cell, funds>>

\* lock_game and cancel_game fail when the type of any pool has not been set.
TypesKnown == \A p \in DOMAIN pools : pools[p].type \in types

FlagUnfilled(pool) ==
    [pool EXCEPT !.refund = @ \/ pool.count < Params[pool.type].minTeams]

LockGame ==
    /\ status = "open"
    /\ TypesKnown
    /\ status' = "closed"
    /\ pools' = [p \in DOMAIN pools |-> FlagUnfilled(pools[p])]
    /\ UNCHANGED <<types, teams, cell, funds>>

FlagForRefundUnfilled(pool) == FlagUnfilled(pool)   \* mutant: as when locking
FlagForRefundOnly(pool) ==               \* mutant: takes rewards back
    [pool EXCEPT !.refund = TRUE, !.reward = FALSE]
FlagForRefund(pool) == [pool EXCEPT !.refund = TRUE]

CancelGame ==
    /\ status \notin {"completed", "cancelled"}
    /\ TypesKnown
    /\ status' = "cancelled"
    /\ pools' = [p \in DOMAIN pools |-> FlagForRefund(pools[p])]
    /\ UNCHANGED <<types, teams, cell, funds>>

-----------------------------------------------------------------------------
(***************************************************************************)
(* A gamer enters a team into a pool.  The request names the pool type     *)
(* that sets the limits and the fee, and becomes the type of the pool.     *)
(***************************************************************************)

\* The fee comes in FURY, which is swapped for USDC; the fee of that swap is
\* paid out of the USDC the contract then has.
FeeSwapped(fee) ==
    \E rate \in Rates :
       LET attached == GameFeesOf(fee)
           got      == rate * fee
       IN  /\ usdc + attached >= SwapFeeOf(got)
           /\ usdc' = usdc + attached + got - SwapFeeOf(got)

EnteredUncounted(pool, t) ==   \* mutant: the team is not counted
    [pool EXCEPT !.type = t, !.refund = FALSE, !.reward = FALSE]
Entered(pool, t) ==
    [pool EXCEPT !.type = t, !.count = @ + 1, !.refund = FALSE, !.reward = FALSE]

GamePoolBidSubmit(g, t, p, id) ==
    /\ status = "open"
    /\ t \in types
    /\ Len(teams[p][g]) < Params[t].perGamer
    /\ pools[p].count < Params[t].maxTeams
    /\ pools' = [pools EXCEPT ![p] = Entered(@, t)]
    /\ teams' = [teams EXCEPT ![p][g] = Append(@, NewTeam(id))]
    /\ FeeSwapped(Params[t].fee)
    /\ UNCHANGED <<status, types, cell, fury, received>>

(***************************************************************************)
(* A gamer collects the rewards of all unclaimed teams in pools whose      *)
(* rewards are being, or were, distributed.                                *)
(***************************************************************************)
Collectable(p, g) ==
    IF pools[p].reward
    THEN SumOf([i \in DOMAIN teams[p][g] |->
                  IF teams[p][g][i].claimedReward THEN 0
                  ELSE teams[p][g][i].reward])
    ELSE 0
RewardDue(g) == SumOf([p \in DOMAIN pools |-> Collectable(p, g)])

AsClaimedUnlessPaid(team) ==   \* mutant: a team that is paid is not marked
    [team EXCEPT !.claimedReward = team.reward = 0]
AsClaimed(team) == [team EXCEPT !.claimedReward = TRUE]

ClaimReward(g) ==
    /\ RewardDue(g) > 0
    /\ fury >= RewardDue(g)
    /\ fury' = fury - RewardDue(g)
    /\ received' = [received EXCEPT ![g].fury = @ + RewardDue(g)]
    /\ teams' = [p \in DOMAIN teams |->
          IF p \in DOMAIN pools /\ pools[p].reward
          THEN [teams[p] EXCEPT ![g] = [i \in DOMAIN @ |-> AsClaimed(@[i])]]
          ELSE teams[p]]
    /\ UNCHANGED <<status, types, pools, cell, usdc>>

(***************************************************************************)
(* A gamer asks for the fees of all teams in pools flagged for refund: the *)
(* fee of the type the pool has now.  It fails if any of these teams was   *)
(* refunded before.  The USDC is swapped for FURY, which the swap contract *)
(* sends to this one and not to the gamer, who is sent no more than the    *)
(* fees of the game on the amount.                                         *)
(***************************************************************************)
FlaggedUnlessRewarded ==   \* mutant: pools without rewards are flagged
    {p \in DOMAIN pools : pools[p].refund \/ ~pools[p].reward}
FlaggedPools == {p \in DOMAIN pools : pools[p].refund}

FlaggedTypesKnown == \A p \in FlaggedPools : pools[p].type \in types

RefundDue(g) ==
    SumOf([p \in DOMAIN pools |->
             IF p \in FlaggedPools
             THEN Params[pools[p].type].fee * Len(teams[p][g]) ELSE 0])
NoneRefundedUnchecked(g) == TRUE   \* mutant: refunded teams are not refused
NoneRefunded(g) ==
    \A p \in FlaggedPools : \A i \in DOMAIN teams[p][g] :
       ~teams[p][g][i].claimedRefund

ClaimRefund(g) ==
    LET total == RefundDue(g)
        cost  == total + SwapFeeOf(total) + GameFeesOf(total)
    IN  /\ FlaggedTypesKnown
        /\ NoneRefunded(g)
        /\ total > 0
        /\ usdc >= cost
        /\ usdc' = usdc - cost
        /\ \E rate \in Rates : fury' = fury + rate * total
        /\ received' = [received EXCEPT ![g].usdc = @ + GameFeesOf(total)]
        /\ teams' = [p \in DOMAIN teams |->
              IF p \in FlaggedPools
              THEN [teams[p] EXCEPT ![g] =
                      [i \in DOMAIN @ |->
                         [@[i] EXCEPT !.refund = Params[pools[p].type].fee,
                                      !.claimedRefund = TRUE]]]
              ELSE teams[p]]
        /\ UNCHANGED <<status, types, pools, cell>>

-----------------------------------------------------------------------------
(***************************************************************************)
(* What gamers are told, before they claim.  These queries go their own    *)
(* way: that of rewards does not look at whether the pool has rewards, the *)
(* one of refunds leaves out teams that were refunded (and fails unless    *)
(* FlaggedTypesKnown).                                                     *)
(***************************************************************************)
Unclaimed(team) == IF team.claimedReward THEN 0 ELSE team.reward

RewardTold(g) ==
    SumOf([p \in DOMAIN pools |->
             SumOf([i \in DOMAIN teams[p][g] |-> Unclaimed(teams[p][g][i])])])

\* Of the teams with one id that the gamer has in the pool.
GameResult(g, p, id) ==
    SumOf([i \in DOMAIN teams[p][g] |->
             IF teams[p][g][i].id = id THEN Unclaimed(teams[p][g][i]) ELSE 0])

RefundTold(g) ==
    SumOf([p \in DOMAIN pools |->
             IF p \notin FlaggedPools THEN 0
             ELSE Params[pools[p].type].fee *
                  Cardinality({i \in DOMAIN teams[p][g] :
                                 ~teams[p][g][i].claimedRefund})])

\* What the teams of a pool have paid, by its type of now.
PoolCollection(p) == Params[pools[p].type].fee * pools[p].count

-----------------------------------------------------------------------------
(***************************************************************************)
(* The administrator distributes the rewards of a pool, in batches of      *)
(* winners.  All teams of a gamer with the id of a winner get its reward;  *)
(* of several entries for a team the last one counts.                      *)
(***************************************************************************)
Entries(list, g, id) ==
    {k \in DOMAIN list : list[k].gamer = g /\ list[k].team = id}
Decisive(list, g, id) ==
    {k \in Entries(list, g, id) : \A j \in Entries(list, g, id) : j <= k}
RewardIn(list, g, id) ==
    list[CHOOSE k \in Decisive(list, g, id) : TRUE].amount

RewardedAnew(vec, list, g) ==   \* mutant: a reward can be claimed anew
    [i \in DOMAIN vec |->
       IF Decisive(list, g, vec[i].id) = {} THEN vec[i]
       ELSE [vec[i] EXCEPT !.reward = RewardIn(list, g, vec[i].id),
                           !.claimedReward = FALSE]]
Rewarded(vec, list, g) ==
    [i \in DOMAIN vec |->
       IF Decisive(list, g, vec[i].id) = {} THEN vec[i]
       ELSE [vec[i] EXCEPT !.reward = RewardIn(list, g, vec[i].id)]]

\* The code counts the rewards of a gamer once for every entry of the gamer.
GivenTo(vec, list, g) ==
    SumOf([i \in DOMAIN vec |->
             MapThenSumSet(LAMBDA k : list[k].amount,
                           Entries(list, g, vec[i].id))])
Given(p, list) ==
    SumOf([k \in DOMAIN list |->
             GivenTo(teams[p][list[k].gamer], list, list[k].gamer)])

\* What the rake shares take of the USDC, in percent, each rounded down.
RakePaid(t, rake) ==
    SumOf([k \in DOMAIN Params[t].rake |-> (rake * Params[t].rake[k]) \div 100])

\* The total of the rewards so far.  It starts anew when a swap was saved in
\* the entry, which is then no number.
RewardTotal(entry, amount) ==
    amount + IF entry.kind = "reward" THEN entry.total ELSE 0

NotDistributedAlways(p) == TRUE   \* mutant: a pool can be distributed again
NotDistributed(p) == ~pools[p].distributed

GamePoolRewardDistribute(p, list, final, rake) ==
    LET paid == IF final THEN RakePaid(pools[p].type, rake) ELSE 0
    IN  /\ status \in {"closed", "completed"}
        /\ NotDistributed(p)
        /\ pools[p].type \in types
        /\ status' = IF final THEN "completed" ELSE "closed"
        /\ pools' = [pools EXCEPT ![p].distributed = final,
                                  ![p].refund = FALSE, ![p].reward = TRUE]
        /\ teams' = [teams EXCEPT ![p] =
              [g \in Gamers |-> Rewarded(@[g], list, g)]]
        /\ cell' = [cell EXCEPT ![p] =
              [kind |-> "reward", total |-> RewardTotal(@, Given(p, list))]]
        /\ usdc >= paid
        /\ usdc' = usdc - paid
        /\ UNCHANGED <<types, fury, received>>

RakeLeftUnchecked(collection, amount) == collection - amount   \* mutant
RakeLeft(collection, amount) ==
    IF amount >= collection THEN 0 ELSE collection - amount

\* What was swapped and what it brought, once the swap contract has answered:
\* the rate in ten thousandths.
SwapSaved(p, amount, gained) ==
    cell' = [cell EXCEPT ![p] =
        [kind |-> "swap", swapped |-> amount,
         rake |-> RakeLeft(PoolCollection(p), amount),
         rate |-> (gained * 10000) \div amount]]

\* The administrator swaps USDC for the FURY that rewards are paid in.
Swap(p, amount) ==
    /\ pools[p].type \in types
    /\ amount > 0
    /\ usdc >= amount + SwapFeeOf(amount)
    /\ usdc' = usdc - amount - SwapFeeOf(amount)
    /\ \E rate \in Rates :
          /\ fury' = fury + rate * amount
          /\ SwapSaved(p, amount, rate * amount)
    /\ UNCHANGED <<status, types, pools, teams, received>>

ExecuteSweep(amount) ==
    /\ usdc >= amount
    /\ usdc' = usdc - amount
    /\ UNCHANGED <<status, types, pools, teams, cell, fury, received>>

-----------------------------------------------------------------------------
\* Anyone may send the contract tokens.
Deposit ==
    /\ \/ usdc < MaxFunds /\ usdc' = usdc + 1 /\ UNCHANGED fury
       \/ fury < MaxFunds /\ fury' = fury + 1 /\ UNCHANGED usdc
    /\ UNCHANGED <<status, types, pools, teams, cell, received>>

GamerNext ==
    \E g \in Gamers :
       \/ \E t \in PoolTypes, p \in DOMAIN pools, id \in TeamIds :
             GamePoolBidSubmit(g, t, p, id)
       \/ ClaimReward(g)
       \/ ClaimRefund(g)

AdminNext ==
    \/ \E t \in PoolTypes : SetPoolTypeParams(t)
    \/ Len(pools) < MaxPools /\ \E t \in PoolTypes : CreatePool(t)
    \/ LockGame
    \/ CancelGame
    \/ \E p \in DOMAIN pools, list \in WinnerLists, final \in BOOLEAN,
          rake \in RakeAmounts :
          /\ cell[p].kind = "reward" => cell[p].total < MaxTotal
          /\ GamePoolRewardDistribute(p, list, final, rake)
    \/ fury < MaxFunds /\ \E p \in DOMAIN pools, amount \in SwapAmounts : Swap(p, amount)
    \/ \E amount \in SweepAmounts : ExecuteSweep(amount)

GameNext == GamerNext \/ AdminNext \/ Deposit

GameSpec == GameInit /\ [][GameNext]_gameVars

=============================================================================
