------------------------------- MODULE Exchange -------------------------------
(***************************************************************************)
(* The pool and the bondings together.  A deposit is bonded in the same    *)
(* transaction: when the bonding refuses, the deposit is undone.  Bondings *)
(* in turn ask the pool for prices.                                        *)
(***************************************************************************)
EXTENDS FanfuryBonding

exchangeVars == <<poolVars, bondVars>>

ExchangeInit == SwapInit /\ BondingInit

\* The owner and the treasury, who hold the liquidity token, get no bond.
GetsBond(s) == s \notin {swapConfig.owner, swapConfig.treasury}

AddLiquidity(s, amount1, max2) ==
    /\ Deposit(amount1, max2)
    /\ IF GetsBond(s)
       THEN LpBond(swapConfig.bonding, s, 2 * Token2Required(amount1, max2))
       ELSE UNCHANGED bondVars

\* What the contract holds beyond the reserves on record.
Surplus1 == usdc - reserve1
Surplus2 == fury - reserve2

\* A bound: configurations change where more depends on them than their owner.
ToldOfDeposits == {c \in Bondings : ~isNative[c]}

PoolNext ==
    /\ \/ \E s \in Accounts, amount1, max2 \in SwapAmounts :
             AddLiquidity(s, amount1, max2)
       \/ /\ \/ \E s \in Accounts, amount \in SwapAmounts :
                   \/ AddToken1(s, amount)
                   \/ BurnShares(s, amount)
                   \/ \E a \in Accounts : TransferShares(s, a, amount)
             \/ \E s \in Accounts, attached \in Fees \cup {0} :
                   \/ \E amount \in SwapAmounts :
                         \/ RemoveLiquidity(s, amount, attached)
                         \/ AddToken2(s, amount, attached)
                   \/ /\ ToldOfDeposits # {}
                      /\ \E new \in SwapConfigs : UpdateSwapConfig(s, new, attached)
             \/ \E amount \in SwapAmounts :
                   \/ SwapToken1(amount)
                   \/ \E fee \in Fees, attached \in Fees \cup {0} :
                         SwapToken2(amount, fee, attached)
             \/ \E amount \in Fees : SendToPool(amount, 0) \/ SendToPool(0, amount)
          /\ UNCHANGED bondVars
    \* A bound, on what is sent for nothing and on fees that are not attached.
    /\ Surplus2' + Surplus1' <= MaxSurplus
    /\ Surplus2' - Surplus1' <= MaxSurplus

BondingNext ==
    \/ \E c \in Bondings, a \in Accounts :
          \/ \E amount \in SwapAmounts : NativeBond(c, a, amount)
          \/ Unbond(c, a)
          \/ \E amount \in FundAmounts : Withdraw(c, a, amount)
          \/ \E new \in BOOLEAN : UpdateEnabled(c, a, new)
          \/ \E new \in SomeTerms : UpdateTerms(c, a, new)
    \/ \E c \in Bondings, amount \in FundAmounts : Fund(c, amount)
    \/ NextBlock

ExchangeSpec == ExchangeInit /\ [][PoolNext \/ BondingNext]_exchangeVars

-----------------------------------------------------------------------------
(***************************************************************************)
(* Properties.                                                             *)
(***************************************************************************)

\* The state has its types: no reserve, holding, share or fund is negative.
ExchangeTypeOK ==
    /\ {reserve1, reserve2, supply, usdc, fury, now} \subseteq Nat
    /\ shares \in [Accounts -> Nat]
    /\ swapConfig \in SwapConfigs
    /\ terms \in [Bondings -> SomeTerms]
    /\ enabled \in [Bondings -> BOOLEAN]
    /\ {cumulated, today, last, fund} \subseteq [Bondings -> Nat]
    /\ \A c \in Bondings, a \in Accounts :
          /\ \A i \in DOMAIN bonds[c][a] : bonds[c][a][i] \in Bond
          /\ promised[c][a] \in Nat

\* What a share stands for never falls, in terms of the product of the reserves:
\* not by deposits, withdrawals and swaps whose amounts are rounded, nor by
\* tokens the owner adds.
ShareValueKept ==
    supply > 0 /\ supply' > 0 =>
       reserve1 * reserve2 * supply' * supply' <= reserve1' * reserve2' * supply * supply
ShareValueNeverFalls == [][ShareValueKept]_exchangeVars

\* As long as there are shares there is USDC in the reserve, so that deposits
\* and prices never divide by zero; swaps cannot buy the last of it.
SharesHaveReserve == supply > 0 => reserve1 > 0

\* No message takes more out of what the contract holds than out of the reserves
\* it records, and by which it prices and pays: whatever is rounded, attached for
\* nothing, or sent to it.  The one exception is a swap of FURY, by as much as
\* its fee exceeds the USDC attached to it.
UnattachedFee(amount, fee, attached) ==
    SwapToken2(amount, fee, attached) /\ Surplus1' >= Surplus1 - (fee - attached)
HoldingsFollow ==
    /\ Surplus2' >= Surplus2
    /\ \/ Surplus1' >= Surplus1
       \/ \E amount \in SwapAmounts, fee \in Fees, attached \in Fees \cup {0} :
             UnattachedFee(amount, fee, attached)
HoldingsFollowReserves == [][HoldingsFollow]_exchangeVars

\* What the bonds of an account add up to is what was promised to it and not yet
\* paid: no bond is paid twice, lost, or changed, when bonds of different terms
\* fall due and a payment is made in the very second of one.
AmountOf(list) == SumFunction([i \in DOMAIN list |-> list[i].amount])
PromisesAreBonds ==
    \A c \in Bondings, a \in Accounts : promised[c][a] = AmountOf(bonds[c][a])

\* On one day no more is bonded than the daily amount of that day and of every
\* day before it, whatever days there were bonds on.
Daily == Max({t.vesting : t \in SomeTerms})
DayWithinAccrual ==
    \A c \in Bondings : today[c] <= Daily * (last[c] \div Day + 1)

===============================================================================
