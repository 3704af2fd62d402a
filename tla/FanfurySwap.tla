----------------------------- MODULE FanfurySwap -----------------------------
(***************************************************************************)
(* The fanfuryswap contract: a pool of USDC (token 1, a native coin) and   *)
(* FURY (token 2, a cw20 token), and the liquidity token whose holders     *)
(* share it.  Deposits mint liquidity tokens to the owner of the contract, *)
(* not to the depositor, who gets a bond instead: see Exchange.            *)
(*                                                                         *)
(* Senders are given the funds and allowances they need.  The limits they  *)
(* may name (expiration, least output) only refuse messages and are left   *)
(* out.  Coins of amount zero can be sent; a cw20 token refuses to         *)
(* transfer or to mint nothing.  Messages that need no USDC never look at  *)
(* what is attached to them, which then stays in the contract.             *)
(***************************************************************************)
EXTENDS Integers

CONSTANTS
    Accounts,
    SwapConfigs,      \* the configurations that update_config may save
    FirstSwapConfig,
    FeeRate,          \* config.platform_fee + config.tx_fee, per thousand
    \* Bounds: the inputs that are enumerated, the reserves up to which tokens
    \* are paid in, and how far holdings and reserves differ.
    SwapAmounts, Fees, MaxReserve1, MaxReserve2, MaxSurplus

ASSUME SwapAssumption ==
    /\ FirstSwapConfig \in SwapConfigs
    /\ \A config \in SwapConfigs : config.owner \in Accounts
    /\ SwapAmounts \cup Fees \cup {FeeRate, MaxReserve1, MaxReserve2, MaxSurplus} \subseteq Nat

VARIABLES
    reserve1,   \* TOKEN1.reserve
    reserve2,   \* TOKEN2.reserve
    shares,     \* the balances of the liquidity token
    supply,     \* its total_supply
    usdc,       \* the USDC of the contract
    fury,       \* the FURY of the contract
    swapConfig  \* CONFIG: its owner, treasury and bonding contract

lpToken == <<shares, supply>>
poolVars == <<reserve1, reserve2, lpToken, usdc, fury, swapConfig>>

SwapInit ==
    /\ reserve1 = 0 /\ reserve2 = 0
    /\ shares = [a \in Accounts |-> 0] /\ supply = 0
    /\ usdc = 0 /\ fury = 0
    /\ swapConfig = FirstSwapConfig

-----------------------------------------------------------------------------
(***************************************************************************)
(* Prices.  Divisions round towards the pool, a deposit of FURY upwards.   *)
(***************************************************************************)
SharesToMintAtLeastOne(amount1) ==           \* mutant: rounds upwards
    IF supply = 0 THEN amount1 ELSE (amount1 * supply) \div reserve1 + 1
SharesToMint(amount1) ==
    IF supply = 0 THEN amount1 ELSE (amount1 * supply) \div reserve1

Token2Required(amount1, max2) ==
    IF supply = 0 THEN max2 ELSE (amount1 * reserve2) \div reserve1 + 1

Token2PaidRoundedDown(amount1, max2) ==   \* mutant: as the shares are
    IF supply = 0 THEN max2 ELSE (amount1 * reserve2) \div reserve1
Token2Paid(amount1, max2) == Token2Required(amount1, max2)

Liquid == reserve1 # 0 /\ reserve2 # 0

\* Without the fee of the pool the formula would keep the product.
InputPrice(amount, input, output) ==
    (amount * 997 * output) \div (input * 1000 + amount * 997)

\* What the pool tells of its price in FURY, and refuses unless Liquid.
Token1ForToken2Price(amount) == InputPrice(amount, reserve1, reserve2)

FeeDue(amount) == (amount * FeeRate) \div 1000

-----------------------------------------------------------------------------
(***************************************************************************)
(* Messages.                                                               *)
(***************************************************************************)

\* add_liquidity, but for the bond: the sender attaches amount1 and the fee,
\* which goes to the treasury.
Deposit(amount1, max2) ==
    /\ supply # 0 => reserve1 # 0
    /\ Token2Required(amount1, max2) <= max2
    /\ SharesToMint(amount1) # 0
    /\ reserve1 + amount1 <= MaxReserve1
    /\ reserve2 + Token2Required(amount1, max2) <= MaxReserve2
    /\ reserve1' = reserve1 + amount1
    /\ reserve2' = reserve2 + Token2Required(amount1, max2)
    /\ usdc' = usdc + amount1
    /\ fury' = fury + Token2Paid(amount1, max2)
    /\ shares' = [shares EXCEPT ![swapConfig.owner] = @ + SharesToMint(amount1)]
    /\ supply' = supply + SharesToMint(amount1)
    /\ UNCHANGED swapConfig

Redeemed(amount, reserve) == (amount * reserve) \div supply

RemoveLiquidity(s, amount, attached) ==
    /\ amount <= shares[s]
    /\ supply # 0 /\ amount <= supply
    /\ Redeemed(amount, reserve1) <= usdc + attached
    /\ Redeemed(amount, reserve2) \in 1..fury
    /\ reserve1' = reserve1 - Redeemed(amount, reserve1)
    /\ reserve2' = reserve2 - Redeemed(amount, reserve2)
    /\ usdc' = usdc + attached - Redeemed(amount, reserve1)
    /\ fury' = fury - Redeemed(amount, reserve2)
    /\ shares' = [shares EXCEPT ![s] = @ - amount]
    /\ supply' = supply - amount
    /\ UNCHANGED swapConfig

\* The liquidity token is a cw20 token: its holders may pass it on, or burn it
\* without the pool being told.
TransferShares(s, a, amount) ==
    /\ amount \in 1..shares[s]
    /\ shares' = [[shares EXCEPT ![s] = @ - amount] EXCEPT ![a] = @ + amount]
    /\ UNCHANGED <<reserve1, reserve2, supply, usdc, fury, swapConfig>>

BurnShares(s, amount) ==
    /\ amount \in 1..shares[s] /\ amount <= supply
    /\ shares' = [shares EXCEPT ![s] = @ - amount]
    /\ supply' = supply - amount
    /\ UNCHANGED <<reserve1, reserve2, usdc, fury, swapConfig>>

BoughtRoundedUp(amount, input, output) ==    \* mutant: rounds upwards
    InputPrice(amount, input, output) + 1
Bought(amount, input, output) == InputPrice(amount, input, output)

SwapToken1(amount) ==
    /\ Liquid
    /\ reserve1 + amount <= MaxReserve1
    /\ LET bought == Bought(amount, reserve1, reserve2)
       IN  /\ bought \in 1..fury
           /\ reserve2' = reserve2 - bought
           /\ fury' = fury - bought
    /\ reserve1' = reserve1 + amount
    /\ usdc' = usdc + amount
    /\ UNCHANGED <<lpToken, swapConfig>>

\* Only the fee that is named is compared with the fee that is due: the funds
\* that are attached are validated for token 2, which is no native coin, and
\* so not at all.  The fee is paid to the treasury all the same.
SwapToken2(amount, fee, attached) ==
    /\ Liquid
    /\ reserve2 + amount <= MaxReserve2
    /\ LET bought == Bought(amount, reserve2, reserve1)
       IN  /\ fee >= FeeDue(bought)
           /\ bought + fee <= usdc + attached
           /\ reserve1' = reserve1 - bought
           /\ usdc' = usdc + attached - bought - fee
    /\ reserve2' = reserve2 + amount
    /\ fury' = fury + amount
    /\ UNCHANGED <<lpToken, swapConfig>>

AddToken1(s, amount) ==
    /\ s = swapConfig.owner
    /\ reserve1 + amount <= MaxReserve1
    /\ reserve1' = reserve1 + amount
    /\ usdc' = usdc + amount
    /\ UNCHANGED <<reserve2, lpToken, fury, swapConfig>>

AddToken2(s, amount, attached) ==
    /\ s = swapConfig.owner
    /\ reserve2 + amount <= MaxReserve2
    /\ reserve2' = reserve2 + amount
    /\ fury' = fury + amount
    /\ usdc' = usdc + attached
    /\ UNCHANGED <<reserve1, lpToken, swapConfig>>

UpdateSwapConfig(s, new, attached) ==
    /\ s = swapConfig.owner
    /\ swapConfig' = new
    /\ usdc' = usdc + attached
    /\ UNCHANGED <<reserve1, reserve2, lpToken, fury>>

\* The environment: anyone may send the contract either token.
SendToPool(amount1, amount2) ==
    /\ usdc' = usdc + amount1
    /\ fury' = fury + amount2
    /\ UNCHANGED <<reserve1, reserve2, lpToken, swapConfig>>

===============================================================================
