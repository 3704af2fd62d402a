# Specifications of the FanFury liquidity contracts

TLA+ modules, TLC configurations and TLAPS proofs for the five CosmWasm contracts of this
repository. Every definition is a translation of the Rust code it stands for; `PROJECT.json`
names the lines.

## The system

Five contracts run on one chain and call each other by messages and queries.

| Part | State it keeps | Operations that change it |
|---|---|---|
| clubstaking, owners | `CLUB_OWNERSHIP_DETAILS`, `CLUB_PREVIOUS_OWNER_DETAILS` | buy, assign, release a club; the claims of (previous) owner rewards, which never succeed |
| clubstaking, stakes | `CLUB_STAKING_DETAILS`, `CLUB_BONDING_DETAILS`, the totals of clubs | stake, assign stakes, withdraw (into a bond, or out of mature bonds), claim rewards |
| clubstaking, rewards | `REWARD`, `REWARD_GIVEN_IN_CURRENT_TIMESTAMP`, the reward clock, the snapshot of totals, the winners of the round | fund the pool, distribute a batch |
| gamingpool | the game, pool types, pools, teams of gamers, the cell that swaps and rewards share | set a pool type, create a pool, lock, cancel, bid, claim reward, claim refund, distribute, swap, sweep |
| cw20-base | balances, supply, minter and cap, allowances (twice: by owner and by spender), marketing information and the logo | transfer, send, burn, mint, update minter, increase and decrease allowance, the three `*_from` messages, update marketing, upload logo, the migration from before 0.14.0 |
| fanfuryswap | two reserves, the configuration; it mints and burns a liquidity token (a cw20) | add and remove liquidity, swap either way, add token, update configuration |
| fanfurybonding | terms, switch, daily limit, a Vec of bonds per account | bond, lp_bond, unbond, withdraw, update terms, update switch, update owner |
| util, helpers, schemas, examples, `release/` | none | — |

**How they interact.** A message runs to its end, with all the messages it sends in turn, or
leaves nothing behind: the chain undoes a transaction that fails anywhere. So one message is one
atomic step here, and an error, a panic or a transfer that lacks funds is no step. Interleaving
is that of messages of different senders. clubstaking and gamingpool move FURY through cw20-base;
gamingpool trades USDC and FURY with fanfuryswap; a deposit into fanfuryswap sends `LpBond` to
fanfurybonding in the same transaction; fanfurybonding asks fanfuryswap for prices.
Outside of the chain, wallets and the administrator's program ask the contracts with queries
before they send messages: whom to pay, what can be claimed, who was granted an allowance. A query and the
message that follows it are two steps, with messages of others between them.

**What is hard.** There are no threads and no lost messages. What tests hardly reach is
- *protocols of several messages*: a round of rewards is a sequence of batches that share a
  ranking and counters, with users staking and withdrawing in between; refunds and rewards of a
  game are flags that locking, cancelling and batches rewrite;
- *state stored twice*: totals of clubs and stakes, the count of teams and the teams, the supply
  and the balances, two maps of allowances, reserves and what a contract really holds;
- *time*: a bond that matures, a release that lapses, a reward or an allowance that falls due in
  the very second of a message, days that are quotients of seconds;
- *rounding*: shares of a reward, liquidity shares, prices;
- *lists that are rewritten*: stakes, bonds and teams are Vecs saved as a whole;
- *answers that go stale*: a list read page by page while it changes, a record that no query
  reaches any more, a promise told to a gamer who claims later.

What makes each part correct: **owners** — a wallet owns one club, a club changes hands only
by an offer taken in time; **stakes** — bonds stay within the limit and are paid only when
mature; **rewards** — a round gives no more than the pool holds, independent of its batches, and
ends; **gamingpool** — teams are counted, never lost, settled once, and refunded or rewarded;
**token** — supply is the sum of balances, within its cap, and only authorised messages take
from a balance; what its lists say is what the allowances are; **pool** — shares keep their value, and what it holds
follows what it records; **bonding** — promises are kept on record until paid, and the daily limit holds.

## Modules

| Module | What it is |
|---|---|
| `ClubWinners` | the ranking of clubs (`get_winning_clubs_details`), as a fold |
| `ClubRanking` (extends it) | clubs whose stakes move freely, and a definition of the winners over sets |
| `ClubStaking` (extends it) | the clubstaking contract: one action per message, and the queries of all stakes, all bonds and a staker's pending reward |
| `ClubMarket` | abstract: clubs, holders and offers; what the ownership part promises |
| `RewardRounds` (extends `ClubStaking`) | the contract with the administrator's program that pays every staker once per round, in batches |
| `GamingPool` | the gamingpool contract, one action per message, with the swap as an environment, and the queries of what a gamer can claim and what a pool collected |
| `GameSeason` (extends it) | the history variable `mixed` and the properties of a whole season |
| `Cw20` | the token contract: balances, supply, minter, allowances |
| `Ledger` | abstract: tokens are moved, issued or retired; what the token promises of balances |
| `Cw20Lists` (extends `Cw20`) | the migration, the lists of allowances, and a wallet that reads one page by page |
| `Cw20Marketing` | the texts and the logo that the token shows, and a wallet that downloads the logo |
| `FanfurySwap` | the actions of the pool |
| `FanfuryBonding` (extends it) | the actions of one or several bondings |
| `Exchange` (extends both) | pool and bondings composed: deposits that are bonded |
| `MC*` | instances for TLC |
| `Sums` | lemmas on induction, sums, products, shares, folds, joined sequences and lists of names |
| `ClubRankingProofs`, `ClubStakingProofs`, `RewardRoundsProofs` (extends the second) | the theorems about clubstaking |
| `GameSeasonProofs`, `GameClaimsProofs` (extends it) | the theorems about gamingpool |
| `Cw20Proofs`, `ExchangeProofs` | the theorems about the token, pool and bondings |

A variable carries the name of the storage item it stands for, or says so beside its
declaration. A guard is a condition or an early return of the handler. Variables named *history* (`sender`,
`mixed`, `received`, `share`, `touched`, `funded`, `granted`, `sound`, `claimed`, `promised`, `steady`)
are not in the code and no guard reads them.

**Abstractions.**
- Amounts are naturals; 128-bit overflow is out of reach of the supplies involved and makes
  a message fail, which is no step.
- Block time is a number of whole seconds; `Tick` and `NextBlock` let it pass. fanfurybonding reads
  nothing but `time.seconds()`. clubstaking compares whole timestamps, nanoseconds included: the lapse of
  a release (`contract.rs:454`), the maturity of a bond (1114), the clock of the rewards (1564, 1571) and
  the start of a stake (1696). Durations are whole seconds there and these comparisons depend on the order of
  times alone, so a time within a second behaves like a time of the model between two others, except that bonds of one second
  keep their order when bonds are sorted (1091). "The very second" stands for the
  very timestamp in clubstaking. Expirations of allowances may be block heights: `Cw20` has times only, and
  heights behave alike.
- Platform fees in a native coin go to a wallet outside the system and are left out of
  clubstaking and fanfurybonding. In gamingpool the part that stays in or passes through the
  contract's USDC is modelled. In fanfuryswap the fee of a swap of FURY is modelled, because it
  may be paid out of the reserve (see findings), and so is USDC attached to messages that ask for none:
  withdrawals, added FURY and the configuration never look at it, and it stays in the contract.
- Holders of the liquidity token may pass it on or burn it, and anyone may send the pool either token: the pool is not told.
- Senders have given the contracts the allowances and funds they need, except where a balance
  decides something (`Pay` in clubstaking, every balance in `Cw20`).
- Limits a sender names for itself in fanfuryswap (expiration, least output) only refuse messages.
- Token 1 is native USDC and token 2 a cw20 token, as deployed and as the fee code presumes.
- Messages that change nothing have no action: `received_message`, `periodically_refund_stakeouts`,
  fanfurybonding's `update_owner`. The two claims of owner rewards have none either: they refuse a
  reward of zero, and no other is ever recorded (see findings).
  `set_platform_fee_wallets` saves a map that no code reads.

**External** (modelled from how the code uses it): block time; in `GamingPool` the swap contract, by
`Rates`.

## Runs

Each run finishes within two and a half minutes with two workers. Deadlock is checked, except in the runs of
`RewardRounds`, where the bound on messages and time stops the system, and in runs that
look for a counterexample.

| Run | States | What it shows |
|---|---|---|
| `club_ownership` | 232,497 | two clubs, three wallets, three seconds: `OneClubPerOwner` and `MarketImplemented` (refinement of `ClubMarket`) |
| `club_staking` | 49,008 | one club, two stakers, batches in any order and number, lists that name a staker twice: `TypeOK`, `BondsWithinLimit`, `PayoutsAreMatured`, `NextRewardWithinOnePeriod` |
| `reward_rounds` | 28,823 | rounds over one club or two: `RoundTypeOK`, `RoundWithinReward`, `OwedIsBacked`, `TotalsAreStaked`, `RecordsReachable`, `StakesNeverDropped`, `GainIsShareAtStart`, `RoundEnds` |
| `club_ranking` | 4,096 | all totals and snapshots of three clubs in 0..3, `WinnersGrewMost`: whom the one-pass ranking finds, against sets of clubs, and what it divides by. It says nothing of smaller clubs that grew as much as the winners (finding 5) |
| `game_season` | 240,469 | two pools, two gamers, two pool types: `GameTypeOK`, `TeamsCounted`, `RefundsStayDue`, `RefundXorReward`, `TeamsOnlyGrow`, `FinishedPoolsSettled`, `ToldIsDue`, `ClaimsSettle` (what a claim takes from the contract, and what of it the gamer is sent), `RefundedOnce` |
| `cw20` | 99,000 | three accounts, one of them a contract: `TokenTypeOK`, `SupplyIsSumOfBalances`, `AllowancesMirrored`, `SupplyWithinCap`, `MintRightOnlyHandedOn`, `DebitsAuthorised`, and `LedgerImplemented` (refinement of `Ledger`) |
| `cw20_listing` | 52,268 | a token of an older version or a new one, a reader of its lists, a wallet that shows its logo: `ListedOnce`, `LogoAsTold`, `ReadingEnds` |
| `exchange` | 1,410,624 | an owner, a trader, one bonding of either kind: `ExchangeTypeOK`, `SharesHaveReserve`, `HoldingsFollowReserves`, `PromisesAreBonds`, `DayWithinAccrual`, `ShareValueNeverFalls` |
| `club_totals`, `club_claims`, `game_paid_twice`, `game_refunds` | violations | statements of comments in the code that the code does not keep, see findings |

**Bounds, and why they are enough.**
- *clubstaking.* `club_ownership` has one wallet more than clubs, so that a wallet can buy what
  another offers while it owns one; releases lapse after one second and there are three. In
  `club_staking` the bond limit is 2 with withdrawals of 1 and 2 out of a stake of 4, so that bonds are
  split, the limit is reached, and young and mature bonds meet; `BondingDuration` is 0, which makes a bond of
  the same second young (the code compares with `<`). `MaxGiven` and `MaxTotal` stop batches and
  stakes after a few; `ClubPrice = 1000` there keeps purchases out, which the other run has.
- *rounds.* `RewardRounds` starts from `Populated`, states the contract reaches after one
  purchase or two, one stake and one funding, for each choice of `auto_stake`, so that the depth of the search goes
  into rounds. `MaxSent = 2` messages of users or the administrator, or ticks, fall anywhere among
  the batches; two are what it takes to stake and withdraw, or to fund and claim, within one round.
  The reward 100 makes all the percentages whole, so that a share that is given twice shows. The pool may
  be raised by 50, or by nothing: `IncreaseRewardAmount` with a zero amount clears what was given all the same, and
  so disturbs a round.
- *gamingpool.* `pair` needs two teams, of one gamer or of two, and takes no third; `solo` needs and takes one, and
  costs more, so that bids that change the type of a pool change its limits and its fee. Rates of fees
  are large, so that they are not rounded away on small amounts, and low enough that the fees on two teams can pay
  for a refund twice, were it not refused. A batch names a gamer twice. `MaxFunds` bounds gifts and swaps; `MaxTotal` the rewards of a pool. The two
  violation runs need no fees and one pool type.
- *cw20.* Three accounts make a spender that is neither owner nor recipient; amounts 0..2 include
  the zero that `*_from` messages take and the others refuse; the cap 2 is below `MaxSupply` 3;
  allowances may expire at 1 or 2 or never, with time up to 2.
- *cw20_listing.* An owner with two spenders and a spender with two owners, and pages of 1 (the default)
  or 2 (a limit of 3, cut at the maximum), so that a list takes several pages and grants fall
  behind, at and ahead of the reader. Amounts are 0: lists depend on the presence of an allowance alone. An
  older token starts with any of the three allowances. Logos are at the cap on their size and one above it.
- *exchange.* Reserves up to 3 and 2 are where rounding bites hardest: one unit is a third or a
  half of a reserve. Days are one second long, so that `MaxTime = 1` has two of them: bonds of the
  same day, of the next day, not due, and due in this very second all occur; terms change between a lock of 1 and of 0, a discount of
  0 and of 50%, and daily amounts of 2 and 4. At most two bonds are held, and
  what the pool holds differs from its records by at most `MaxSurplus` = 1 (`Surplus1`, `Surplus2` of both signs), through gifts of 1,
  USDC attached for nothing, rounding, or a fee that is not attached. Whether the bonding is native is
  chosen in the initial state, as no message changes it; the configuration of the pool changes from the initial states where
  it decides who gets a bond (`ToldOfDeposits`).

**Fairness.** There are two liveness properties. `RoundEnds` assumes
`WF(due # {} /\ SomeBatch)`: the administrator's program goes on with a round that it started. That
program is outside of the contracts (`test_distribute_rewards` plays it in the tests); the contract's
part, which the property is about, is that no batch of a round is ever refused: it is the clock that only the last
batch may move. `ReadingEnds` assumes `WF(ReadPage)`: a wallet that began to read a list asks for
the next page until one is empty. The contract's part is that each page starts after the last, so
that allowances granted meanwhile cannot keep the reader on one page. No fairness is assumed of users, who may stop at any time.

## Proofs

TLAPS proves every invariant and every action property that the passing runs check, and both
refinements, for every value of the constants that satisfies the named assumptions:
`ConfigAssumption`, `SupplyAssumption` and `RankingAssumption` (clubstaking), `GameAssumption`, `Cw20Assumption`,
`ListsAssumption`, `MarketingAssumption`, `SwapAssumption`, `BondingAssumption`. They say that
configured numbers are natural and inputs have their types; that sentinels (`NoUser`, `NoCap`, `Never`,
`NotGiven`, `Nothing`) are not values they could be taken for; that the users, accounts, gamers, team ids and terms
that ever occur are finitely many, so that there are sums over them; and that the storage keys of clubs are ordered and
distinct. TLC evaluates each of them in a run.

**Tools of the proofs** (`Sums`). The modules sum and rewrite with folds of the library, which are
defined by a CHOOSE of a recursive function, and the induction theorems of the library take a predicate, which the
provers cannot instantiate. So induction goes by *sets*: `NatSetInduction` and `SubsetInduction`
conclude that a set of numbers, or of subsets, is everything. With them each fold is shown to exist, first
sums (`SumUnfolds`), then folds from the left as step functions (`ResultsExist`), and to follow its equation.
The rest is what sums do: change one term, split by key, compare, multiply and divide with
remainders; what sequences that are joined are worth; and what a list that names a set counts.

**clubstaking.**
- `OwnersInv` = the type of the ownership map and `OneClubPerOwner`, which is inductive only with the type: `OnSale` compares owners and
  times. All messages are sorted into sales, releases and others, which keep owners (`StepKinds`).
  From it: `OneClubPerOwnerHolds` and `MarketImplementedHolds`,
  the refinement: a sale is a `Take`, a release an `Offer`, a tick a `Pass`, all else a stutter.
  `ClockInv` adds that the clock is a number and gives `NextRewardWithinOnePeriodHolds`.
- `TypeOKHolds` goes through every fold of the contract: assigned lists, batches, the ranking, the
  sort of bonds by maturity and the payment out of them. The sort is shown to be a permutation
  (`OrderIsBijection`), the payment to keep young bonds and to take from mature ones what it pays
  (`PaymentLeaves`): with it `BondsWithinLimitHolds` and `PayoutsAreMaturedHolds`.
- `WinnersGrewMostHolds`: after `k` clubs the pass has the largest increase, the places of that
  increase which no earlier one exceeds in stake, and the largest stake among them (`RankedTo`); one more club is
  larger, joins or passes (`OneMorePlace`). It needs that no increase is below `-MAX_UFURY_COUNT`, where the code starts.

*Rounds* (`RewardRoundsProofs`). The theorems are about `RoundSpec`, which starts as the contract is
instantiated and bounds no number of messages; TLC's run starts later, from `Populated`. `BatchIsEach`: a batch that names stakers once, all with a stake
that has begun, is what each of them gets, whatever their order. Messages between batches concern one club (`MessageKinds`).
- `StakesNeverDroppedHolds` from `StartInv`: while somebody is due the clock has been reached, and all stakes have begun
  by the time of the next round.
- `TotalsAreStakedHolds`: totals move with sums of stakes, and batches add to stakes alone.
- `GainIsShareAtStartHolds` from `GainInv`: what is due to an untouched stake is what the first batch promised, as the
  ranking is kept.
- `RoundWithinRewardHolds` from `WithinInv`: what was credited and what the round still owes are within what it
  found in the pool. The ranking counts each club that was sold once and adds up their totals
  (`RankingCounts`); 78 percent are divided by all stakes, 19 by the winning clubs and in each by its stakes,
  3 by the owners of winners and losers, and remainders are dropped: quotients are bounded per staker, then
  summed per club, then over clubs (`PercentsWithin`).
- `OwedIsBackedHolds` (`StaysBacked`): every message brings in, or takes out, at least and at most
  what it owes; the last batch takes from the pool what the whole round credited, which `WithinInv` keeps below
  what was given.
- `RecordsReachableHolds` from `ReachInv`: stakes are of clubs that were sold and bonds of stakers;
  the queries join sequences over clubs and stakers, and a joined sequence is worth what its parts are.

**gamingpool.**
- `SeasonInv` = the types of pools and teams, `RefundsStayDue`, and that a finished pool means the
  game is not open. The last is what keeps bids out of finished pools, and bids are what could break
  both `RefundsStayDue` (they clear flags) and `FinishedPoolsSettled`. One lemma per message.
- `ClaimsInv` adds that pools of an open game are not flagged, that claims and rewards
  follow the flags, and that flagged pools have a known type. It gives `TeamsCountedHolds`,
  `RefundXorRewardHolds`, and `ToldIsDueHolds`: what the queries sum up is, pool by pool, what a claim pays.
  `FundsTyped` adds the contract's funds, and gives `GameTypeOKHolds` and `ClaimsSettleHolds`: claims pay out what was told,
  and a claim of refunds sends its gamer the fees only.
- `RefundInv` = teams that were not refunded record no refund, a gamer's teams of pools that are flagged are
  refunded all at once or not at all until the game is cancelled, and `RefundedOnce`. It gives `RefundedOnceHolds`: a claim that is accepted finds
  no refund recorded, so the fees it sends are on all that is recorded afterwards.

**cw20-base.**
- `TokenInv` = `TokenTypeOK`, `AllowancesMirrored`, `SupplyWithinCap`. The second map of allowances
  is updated from its own entries, so its type needs the mirror. From it, also `MintRightOnlyHandedOnHolds`,
  `DebitsAuthorisedHolds`, and `LedgerImplementedHolds`, the refinement: transfers and sends, direct or
  from an allowance, are a `Move` unless they end where they started or carry nothing; mints are an
  `Issue`, burns a `Retire`, all else a stutter. `SupplyIsSumOfBalancesHolds` changes one or two terms of the sum.
- `ListsInv`: before the migration there is no second map, after it `TokenInv` holds, and the reader
  has all that was granted throughout up to the last address it got, and nothing twice. A page is the least keys
  beyond that address. It gives `ListedOnceHolds`. `MarketingInv` ties the logo to the texts, for `LogoAsToldHolds`.

**fanfuryswap and fanfurybonding** (`ExchangeProofs`).
- `PoolInv` = the types of the pool and `SharesHaveReserve`. A withdrawal leaves a
  reserve because a quotient `(a * r) \div s` with `a < s` is below `r`; a swap does because
  `PriceBelow` bounds what it buys. `ShareValueNeverFallsHolds` compares cross products, message by message.
  `HoldingsFollowReservesHolds` compares, message by message, what is taken out of the holdings and out of the records.
- `BondsInv` = the types of the bondings and `PromisesAreBonds`: the loop that drops due bonds keeps what
  the other loop does not pay. `AccrualInv` bounds what is cumulated by the greatest daily amount and the
  days so far, for `DayWithinAccrualHolds`.

**Model-checked only.** Liveness under fairness, `RoundEnds` and `ReadingEnds`, is out of the prover's reach.
The statements of the violation runs are refuted, so there is nothing to prove of them.

## Findings

A run with a counterexample shows them:
1. `club_totals` — staked rewards are not part of the total of a club (clubstaking `contract.rs:1326`).
2. `club_claims` — a claim leaves the reward pending (`contract.rs:1497`).
3. `game_paid_twice` — a team collects refund and reward (gamingpool `execute.rs:991`).
4. `game_refunds` — one refund stands in the way of the others (`execute.rs:817`).

Read off the code while modelling, without such a run:
5. Several winners need not tie in stake (clubstaking `contract.rs:1828`), although the comment at 1843 speaks of the "same total and
   incremental stake": the branch that would drop the smaller is never taken. `WinnersGrewMost` leaves the case open.
6. `claim_refund` has the FURY of a refund swapped to the contract, not to the gamer. `ClaimsSettle`, which holds, states it:
   the gamer is sent the fees on the refund in USDC, and no FURY.
7. The cap of a minter bounds the whole supply, not "how many more tokens".
8. The fee of a swap of FURY is not checked to be attached; the pool pays it (`SwapToken2`). `HoldingsFollowReserves`, which holds,
   names it as the one message that takes more out of the holdings than out of the records.
9. fanfurybonding's `update_owner` changes nothing.
10. Rewards for owning a club are always zero (clubstaking `contract.rs:34`), so that the messages that claim them, "accumulated for a Club Owner" (`msg.rs:76, 81`), never succeed.

## Not modelled

- Queries that return one record as it is stored, and cw20-base's list of all accounts, which pages as
  the lists of allowances do.
- Platform fees in clubstaking and fanfurybonding, and the maps of fee wallets: the fees leave the
  system, the maps are not read.
- Migrations of the other contracts, which change nothing.
- gamingpool's `allowances.rs`, which no message reaches, and its `enumerable.rs`, which is not compiled.
- `util`, generated schemas, helpers, examples, `release/`: they keep no state.
- Lost, duplicated or reordered messages and crashes: the chain delivers a message once, wholly or not at all.

## Plan

Done, in this order: owners and market; stakes, bonds and rounds; gamingpool; token; pool and bondings;
the first proofs; the queries that decide what administrators, gamers and wallets do next; the
token's lists, migration and marketing; the ledger and its refinement.

The invariants and action properties of all runs are proved.

Next:
1. *Prove.* That `Exchange` implements a `Ledger` of its liquidity token; that a round which ended has credited
   every staker of its roster.
2. *Extend.* The liquidity token of `Exchange` as a `Ledger`; gamingpool's swap against `FanfurySwap`
   in place of `Rates`; several bondings in one instance, for which `FanfuryBonding` is already indexed.
