---------------------------- MODULE ExchangeProofs ----------------------------
(***************************************************************************)
(* Proofs about the pool of the exchange and its bondings, for any         *)
(* amounts, fees, terms and configurations.                                *)
(***************************************************************************)
EXTENDS Exchange, Sums

\* The types of the pool.
PoolTyped ==
    /\ reserve1 \in Nat /\ reserve2 \in Nat
    /\ usdc \in Nat /\ fury \in Nat /\ supply \in Nat
    /\ shares \in [Accounts -> Nat]
    /\ swapConfig \in SwapConfigs

\* The inductive invariant: that there is USDC in the reserve rests on the
\* types, and the types of what is left of it on what prices can take.
PoolInv == PoolTyped /\ SharesHaveReserve

-----------------------------------------------------------------------------
\* A quotient of a product is less than one factor when the other is less than
\* the divisor.
LEMMA QuotientBelow ==
    ASSUME NEW a \in Nat, NEW r \in Nat, NEW d \in Nat, a < d, r > 0
    PROVE  (a * r) \div d < r /\ (a * r) \div d \in Nat
<1> DEFINE q == (a * r) \div d
<1>1. q \in Nat /\ d * q <= a * r
  BY Quotient, ProductNat
<1>2. SUFFICES ASSUME q >= r PROVE FALSE
  BY <1>1
<1> HIDE DEF q
<1>3. d * r <= d * q
  BY <1>1, <1>2
<1>4. a * r < d * r
  OBVIOUS
<1>5. d * r \in Nat /\ d * q \in Nat /\ a * r \in Nat
  BY <1>1, ProductNat
<1> QED
  BY <1>1, <1>3, <1>4, <1>5

\* ... and no more than it when the other is no more.
LEMMA QuotientAtMost ==
    ASSUME NEW a \in Nat, NEW r \in Nat, NEW d \in Nat, a <= d, d > 0
    PROVE  (a * r) \div d <= r /\ (a * r) \div d \in Nat
<1> DEFINE q == (a * r) \div d
<1>1. q \in Nat /\ d * q <= a * r
  BY Quotient, ProductNat
<1>2. SUFFICES ASSUME q > r PROVE FALSE
  BY <1>1
<1> HIDE DEF q
<1>3. d * (r + 1) <= d * q
  BY <1>1, <1>2
<1>4. a * r <= d * r /\ d * (r + 1) = d * r + d
  OBVIOUS
<1>5. d * r \in Nat /\ d * q \in Nat /\ a * r \in Nat
  BY <1>1, ProductNat
<1> QED
  BY <1>1, <1>3, <1>4, <1>5

\* A swap never buys all of a reserve that is paid from.
LEMMA PriceBelow ==
    ASSUME NEW amount \in Nat, NEW input \in Nat, NEW output \in Nat,
           input # 0, output # 0
    PROVE  /\ Bought(amount, input, output) \in Nat
           /\ Bought(amount, input, output) < output
<1> DEFINE x == amount * 997
           d == input * 1000 + amount * 997
<1>1. x \in Nat /\ d \in Nat /\ x < d /\ output > 0
  OBVIOUS
<1>2. Bought(amount, input, output) = (x * output) \div d
  BY DEF Bought, InputPrice
<1> HIDE DEF x, d
<1>3. (x * output) \div d < output /\ (x * output) \div d \in Nat
  BY <1>1, QuotientBelow
<1> QED
  BY <1>2, <1>3

-----------------------------------------------------------------------------
(***************************************************************************)
(* One lemma for each message that moves tokens of the pool.               *)
(***************************************************************************)
LEMMA DepositStep ==
    ASSUME PoolInv, NEW amount1 \in Nat, NEW max2 \in Nat,
           Deposit(amount1, max2)
    PROVE  PoolInv'
<1> USE DEF PoolInv, PoolTyped, SharesHaveReserve
<1> DEFINE paid == Token2Required(amount1, max2)
           minted == SharesToMint(amount1)
<1>1. paid \in Nat
  BY ProductNat, Quotient DEF Deposit, Token2Required
<1>2. minted \in Nat /\ minted # 0
  BY ProductNat, Quotient DEF Deposit, SharesToMint
<1>3. reserve1 > 0 \/ amount1 > 0
  BY <1>2 DEF Deposit, SharesToMint
<1>4. /\ reserve1' = reserve1 + amount1 /\ reserve2' = reserve2 + paid
      /\ usdc' = usdc + amount1 /\ fury' = fury + paid
      /\ supply' = supply + minted
      /\ shares' = [shares EXCEPT ![swapConfig.owner] = @ + minted]
  BY DEF Deposit, Token2Paid
<1> HIDE DEF paid, minted
<1>5. shares' \in [Accounts -> Nat] /\ swapConfig' \in SwapConfigs
  BY <1>2, <1>4, SwapAssumption DEF SwapAssumption, Deposit
<1> QED
  BY <1>1, <1>2, <1>3, <1>4, <1>5

LEMMA RemoveStep ==
    ASSUME PoolInv, NEW s \in Accounts, NEW amount \in Nat, NEW attached \in Nat,
           RemoveLiquidity(s, amount, attached)
    PROVE  PoolInv'
<1> USE DEF PoolInv, PoolTyped, SharesHaveReserve
<1> DEFINE out1 == Redeemed(amount, reserve1)
           out2 == Redeemed(amount, reserve2)
<1>1. amount <= supply /\ supply > 0 /\ reserve1 > 0 /\ amount <= shares[s]
  BY DEF RemoveLiquidity
<1>2. out1 \in Nat /\ out1 <= reserve1 /\ out2 \in Nat /\ out2 <= reserve2
  BY <1>1, QuotientAtMost DEF Redeemed
<1>3. amount < supply => out1 < reserve1
  BY <1>1, QuotientBelow DEF Redeemed
<1>4. /\ out1 <= usdc + attached /\ out2 <= fury
      /\ reserve1' = reserve1 - out1 /\ reserve2' = reserve2 - out2
      /\ usdc' = usdc + attached - out1 /\ fury' = fury - out2
      /\ supply' = supply - amount
      /\ shares' = [shares EXCEPT ![s] = @ - amount]
  BY DEF RemoveLiquidity
<1> HIDE DEF out1, out2
<1>5. shares' \in [Accounts -> Nat] /\ swapConfig' \in SwapConfigs
  BY <1>1, <1>4 DEF RemoveLiquidity
<1> QED
  BY <1>1, <1>2, <1>3, <1>4, <1>5

LEMMA SwapStep ==
    ASSUME PoolInv, NEW amount \in Nat, NEW fee \in Nat, NEW attached \in Nat,
           SwapToken1(amount) \/ SwapToken2(amount, fee, attached)
    PROVE  PoolInv'
<1> USE DEF PoolInv, PoolTyped, SharesHaveReserve
<1>1. CASE SwapToken1(amount)
  <2> DEFINE bought == Bought(amount, reserve1, reserve2)
  <2>1. bought \in Nat /\ bought < reserve2
    BY <1>1, PriceBelow DEF SwapToken1, Liquid
  <2>2. /\ reserve1' = reserve1 + amount /\ reserve2' = reserve2 - bought
        /\ usdc' = usdc + amount /\ fury' = fury - bought /\ bought <= fury
        /\ UNCHANGED <<shares, supply, swapConfig>>
    BY <1>1 DEF SwapToken1, lpToken
  <2> HIDE DEF bought
  <2> QED
    BY <2>1, <2>2
<1>2. CASE SwapToken2(amount, fee, attached)
  <2> DEFINE bought == Bought(amount, reserve2, reserve1)
  <2>1. bought \in Nat /\ bought < reserve1
    BY <1>2, PriceBelow DEF SwapToken2, Liquid
  <2>2. /\ reserve1' = reserve1 - bought /\ reserve2' = reserve2 + amount
        /\ usdc' = usdc + attached - bought - fee /\ fury' = fury + amount
        /\ bought + fee <= usdc + attached
        /\ UNCHANGED <<shares, supply, swapConfig>>
    BY <1>2 DEF SwapToken2, lpToken
  <2> HIDE DEF bought
  <2> QED
    BY <2>1, <2>2
<1> QED
  BY <1>1, <1>2

LEMMA BurnStep ==
    ASSUME PoolInv, NEW s \in Accounts, NEW amount \in Nat, BurnShares(s, amount)
    PROVE  PoolInv'
<1> USE DEF PoolInv, PoolTyped, SharesHaveReserve
<1>1. shares' \in [Accounts -> Nat]
  BY DEF BurnShares
<1> QED
  BY <1>1 DEF BurnShares

\* Messages that leave the supply of shares alone and only add to the reserves.
Adds(s, a, amount, attached, new) ==
    \/ TransferShares(s, a, amount)
    \/ AddToken1(s, amount)
    \/ AddToken2(s, amount, attached)
    \/ UpdateSwapConfig(s, new, attached)
    \/ SendToPool(amount, attached)
    \/ UNCHANGED poolVars

LEMMA AddsStep ==
    ASSUME PoolInv, NEW s \in Accounts, NEW a \in Accounts, NEW amount \in Nat,
           NEW attached \in Nat, NEW new \in SwapConfigs,
           Adds(s, a, amount, attached, new)
    PROVE  PoolInv'
<1> USE DEF PoolInv, PoolTyped, SharesHaveReserve
<1>1. CASE TransferShares(s, a, amount)
  <2> DEFINE taken == [shares EXCEPT ![s] = @ - amount]
  <2>1. taken \in [Accounts -> Nat]
    BY <1>1 DEF TransferShares
  <2>2. shares' = [taken EXCEPT ![a] = @ + amount]
    BY <1>1 DEF TransferShares
  <2> HIDE DEF taken
  <2>3. shares' \in [Accounts -> Nat]
    BY <2>1, <2>2
  <2> QED
    BY <1>1, <2>3 DEF TransferShares
<1>2. CASE AddToken1(s, amount)
  BY <1>2 DEF AddToken1, lpToken
<1>3. CASE AddToken2(s, amount, attached)
  BY <1>3 DEF AddToken2, lpToken
<1>4. CASE UpdateSwapConfig(s, new, attached)
  BY <1>4 DEF UpdateSwapConfig, lpToken
<1>5. CASE SendToPool(amount, attached)
  BY <1>5 DEF SendToPool, lpToken
<1>6. CASE UNCHANGED poolVars
  BY <1>6 DEF poolVars, lpToken
<1> QED
  BY <1>1, <1>2, <1>3, <1>4, <1>5, <1>6 DEF Adds

-----------------------------------------------------------------------------
(***************************************************************************)
(* Every step is one of these five, as far as the pool is concerned.       *)
(***************************************************************************)
Deposits ==
    \E amount1, max2 \in Nat : Deposit(amount1, max2)
Removals ==
    \E s \in Accounts, amount, attached \in Nat : RemoveLiquidity(s, amount, attached)
Burns ==
    \E s \in Accounts, amount \in Nat : BurnShares(s, amount)
Swaps ==
    \E amount \in SwapAmounts :
       \/ SwapToken1(amount)
       \/ \E fee \in Fees, attached \in Fees \cup {0} : SwapToken2(amount, fee, attached)
Additions ==
    \E s, a \in Accounts, amount, attached \in Nat, new \in SwapConfigs :
       Adds(s, a, amount, attached, new)

LEMMA PoolSteps ==
    ASSUME PoolNext \/ BondingNext \/ UNCHANGED exchangeVars
    PROVE  Deposits \/ Removals \/ Burns \/ Swaps \/ Additions
<1> USE SwapAssumption DEF SwapAssumption
<1>0. PICK s0 \in Accounts, new0 \in SwapConfigs : TRUE
  OBVIOUS
<1>1. 0 \in Nat
  OBVIOUS
<1>2. CASE PoolNext
  <2>1. ASSUME NEW s \in Accounts, NEW amount1 \in SwapAmounts,
               NEW max2 \in SwapAmounts, AddLiquidity(s, amount1, max2)
        PROVE  Deposits
    BY <2>1 DEF AddLiquidity, Deposits
  <2>2. ASSUME NEW s \in Accounts, NEW amount \in SwapAmounts,
               NEW attached \in Fees \cup {0}, RemoveLiquidity(s, amount, attached)
        PROVE  Removals
    BY <1>1, <2>2 DEF Removals
  <2>3. ASSUME NEW s \in Accounts, NEW amount \in SwapAmounts, BurnShares(s, amount)
        PROVE  Burns
    BY <2>3 DEF Burns
  <2>4. ASSUME NEW s \in Accounts, NEW a \in Accounts, NEW amount \in SwapAmounts,
               TransferShares(s, a, amount) \/ AddToken1(s, amount)
        PROVE  Additions
    BY <1>0, <1>1, <2>4 DEF Additions, Adds
  <2>5. ASSUME NEW s \in Accounts, NEW amount \in SwapAmounts,
               NEW attached \in Fees \cup {0}, AddToken2(s, amount, attached)
        PROVE  Additions
    BY <1>0, <1>1, <2>5 DEF Additions, Adds
  <2>6. ASSUME NEW s \in Accounts, NEW new \in SwapConfigs,
               NEW attached \in Fees \cup {0}, UpdateSwapConfig(s, new, attached)
        PROVE  Additions
    BY <1>0, <1>1, <2>6 DEF Additions, Adds
  <2>7. ASSUME NEW amount \in Fees, SendToPool(amount, 0) \/ SendToPool(0, amount)
        PROVE  Additions
    BY <1>0, <1>1, <2>7 DEF Additions, Adds
  <2>8. \/ \E s \in Accounts, amount1, max2 \in SwapAmounts :
              AddLiquidity(s, amount1, max2)
        \/ \E s \in Accounts, amount \in SwapAmounts :
              AddToken1(s, amount) \/ BurnShares(s, amount)
        \/ \E s \in Accounts, amount \in SwapAmounts, a \in Accounts :
              TransferShares(s, a, amount)
        \/ \E s \in Accounts, attached \in Fees \cup {0}, amount \in SwapAmounts :
              RemoveLiquidity(s, amount, attached) \/ AddToken2(s, amount, attached)
        \/ \E s \in Accounts, attached \in Fees \cup {0}, new \in SwapConfigs :
              UpdateSwapConfig(s, new, attached)
        \/ Swaps
        \/ \E amount \in Fees : SendToPool(amount, 0) \/ SendToPool(0, amount)
    BY <1>2 DEF PoolNext, Swaps
  <2> QED
    BY <1>0, <2>1, <2>2, <2>3, <2>4, <2>5, <2>6, <2>7, <2>8
<1>3. CASE BondingNext \/ UNCHANGED exchangeVars
  <2>1. UNCHANGED poolVars
    <3>1. CASE BondingNext
      BY <3>1 DEF BondingNext, NativeBond, Unbond, Withdraw, UpdateEnabled,
         UpdateTerms, Fund, NextBlock
    <3>2. CASE UNCHANGED exchangeVars
      BY <3>2 DEF exchangeVars
    <3> QED
      BY <1>3, <3>1, <3>2
  <2> QED
    BY <1>0, <1>1, <2>1 DEF Additions, Adds
<1> QED
  BY <1>2, <1>3

-----------------------------------------------------------------------------
LEMMA PoolInvKept ==
    ASSUME PoolInv, PoolNext \/ BondingNext \/ UNCHANGED exchangeVars
    PROVE  PoolInv'
<1> USE SwapAssumption DEF SwapAssumption
<1>1. CASE Deposits
  BY <1>1, DepositStep DEF Deposits
<1>2. CASE Removals
  BY <1>2, RemoveStep DEF Removals
<1>3. CASE Burns
  BY <1>3, BurnStep DEF Burns
<1>4. CASE Swaps
  <2>1. 0 \in Nat
    OBVIOUS
  <2> QED
    BY <1>4, <2>1, SwapStep DEF Swaps
<1>5. CASE Additions
  BY <1>5, AddsStep DEF Additions
<1> QED
  BY <1>1, <1>2, <1>3, <1>4, <1>5, PoolSteps

\* The inductive invariant of the pool holds, whatever the bondings do.
THEOREM PoolInvHolds == ExchangeSpec => []PoolInv
<1>1. ExchangeInit => PoolInv
  BY SwapAssumption DEF ExchangeInit, SwapInit, PoolInv, PoolTyped,
     SharesHaveReserve, SwapAssumption
<1>2. PoolInv /\ [PoolNext \/ BondingNext]_exchangeVars => PoolInv'
  BY PoolInvKept
<1> QED
  BY <1>1, <1>2, PTL DEF ExchangeSpec

\* As long as there are shares there is USDC in the reserve.
THEOREM SharesHaveReserveHolds == ExchangeSpec => []SharesHaveReserve
<1>1. PoolInv => SharesHaveReserve
  BY DEF PoolInv
<1> QED
  BY <1>1, PoolInvHolds, PTL

-----------------------------------------------------------------------------
(***************************************************************************)
(* What the contract holds follows the reserves it records.                *)
(***************************************************************************)
LEMMA HoldingsStep ==
    ASSUME PoolInv, PoolNext \/ BondingNext \/ UNCHANGED exchangeVars
    PROVE  HoldingsFollow
<1> USE SwapAssumption DEF SwapAssumption, Surplus1, Surplus2, PoolInv, PoolTyped
<1>0. PoolInv'
  BY PoolInvKept
<1>1. CASE Deposits
  <2>1. PICK amount1 \in Nat, max2 \in Nat : Deposit(amount1, max2)
    BY <1>1 DEF Deposits
  <2> DEFINE paid == Token2Required(amount1, max2)
  <2>2. paid \in Nat
    BY <2>1, ProductNat, Quotient DEF Deposit, Token2Required, SharesHaveReserve
  <2>3. /\ reserve1' = reserve1 + amount1 /\ reserve2' = reserve2 + paid
        /\ usdc' = usdc + amount1 /\ fury' = fury + paid
    BY <2>1 DEF Deposit, Token2Paid
  <2> HIDE DEF paid
  <2> QED
    BY <2>2, <2>3 DEF HoldingsFollow
<1>2. CASE Removals
  <2>1. PICK s \in Accounts, amount \in Nat, attached \in Nat :
           RemoveLiquidity(s, amount, attached)
    BY <1>2 DEF Removals
  <2> DEFINE out1 == Redeemed(amount, reserve1)
             out2 == Redeemed(amount, reserve2)
  <2>2. amount <= supply /\ supply > 0
    BY <2>1 DEF RemoveLiquidity
  <2>3. out1 \in Nat /\ out2 \in Nat
    BY <2>2, QuotientAtMost DEF Redeemed
  <2>4. /\ reserve1' = reserve1 - out1 /\ reserve2' = reserve2 - out2
        /\ usdc' = usdc + attached - out1 /\ fury' = fury - out2
    BY <2>1 DEF RemoveLiquidity
  <2> HIDE DEF out1, out2
  <2> QED
    BY <2>3, <2>4 DEF HoldingsFollow
<1>3. CASE Burns
  BY <1>3 DEF Burns, BurnShares, HoldingsFollow
<1>4. CASE Swaps
  <2>1. CASE \E amount \in SwapAmounts : SwapToken1(amount)
    <3>1. PICK amount \in SwapAmounts : SwapToken1(amount)
      BY <2>1
    <3> DEFINE bought == Bought(amount, reserve1, reserve2)
    <3>2. bought \in Nat
      BY <3>1, PriceBelow DEF SwapToken1, Liquid
    <3>3. /\ reserve1' = reserve1 + amount /\ reserve2' = reserve2 - bought
          /\ usdc' = usdc + amount /\ fury' = fury - bought
      BY <3>1 DEF SwapToken1
    <3> HIDE DEF bought
    <3> QED
      BY <3>2, <3>3 DEF HoldingsFollow
  <2>2. ASSUME NEW amount \in SwapAmounts, NEW fee \in Fees,
               NEW attached \in Fees \cup {0}, SwapToken2(amount, fee, attached)
        PROVE  HoldingsFollow
    <3> DEFINE bought == Bought(amount, reserve2, reserve1)
    <3>1. attached \in Nat /\ fee \in Nat /\ amount \in Nat
      OBVIOUS
    <3>2. bought \in Nat
      BY <2>2, <3>1, PriceBelow DEF SwapToken2, Liquid
    <3>3. /\ reserve1' = reserve1 - bought /\ reserve2' = reserve2 + amount
          /\ usdc' = usdc + attached - bought - fee /\ fury' = fury + amount
      BY <2>2 DEF SwapToken2
    <3> HIDE DEF bought
    <3>4. Surplus2' >= Surplus2 /\ Surplus1' >= Surplus1 - (fee - attached)
      BY <3>1, <3>2, <3>3
    <3> QED
      BY <2>2, <3>4 DEF HoldingsFollow, UnattachedFee
  <2> QED
    BY <1>4, <2>1, <2>2 DEF Swaps
<1>5. CASE Additions
  <2>1. PICK s \in Accounts, a \in Accounts, amount \in Nat, attached \in Nat,
             new \in SwapConfigs : Adds(s, a, amount, attached, new)
    BY <1>5 DEF Additions
  <2>2. Surplus1' >= Surplus1 /\ Surplus2' >= Surplus2
    <3>1. /\ usdc' - reserve1' >= usdc - reserve1
          /\ fury' - reserve2' >= fury - reserve2
      <4>1. CASE TransferShares(s, a, amount) \/ UNCHANGED poolVars
        BY <4>1 DEF TransferShares, poolVars
      <4>2. CASE AddToken1(s, amount) \/ AddToken2(s, amount, attached)
        BY <4>2 DEF AddToken1, AddToken2
      <4>3. CASE UpdateSwapConfig(s, new, attached) \/ SendToPool(amount, attached)
        BY <4>3 DEF UpdateSwapConfig, SendToPool
      <4> QED
        BY <2>1, <4>1, <4>2, <4>3 DEF Adds
    <3> QED
      BY <3>1
  <2> QED
    BY <2>2 DEF HoldingsFollow
<1> QED
  BY <1>1, <1>2, <1>3, <1>4, <1>5, PoolSteps

\* No message takes more of either token out of the pool than it takes out of the
\* reserves on record, but for the fee of a swap that was not attached to it.
THEOREM HoldingsFollowReservesHolds == ExchangeSpec => HoldingsFollowReserves
<1>1. ASSUME PoolInv, PoolNext \/ BondingNext \/ UNCHANGED exchangeVars
      PROVE  HoldingsFollow
  BY <1>1, HoldingsStep
<1>2. PoolInv /\ [PoolNext \/ BondingNext]_exchangeVars => [HoldingsFollow]_exchangeVars
  BY <1>1
<1> QED
  BY <1>2, PoolInvHolds, PTL DEF ExchangeSpec, HoldingsFollowReserves

-----------------------------------------------------------------------------
(***************************************************************************)
(* Bonds: what appending one and keeping some of them adds up to.          *)
(***************************************************************************)
AmountsIn(list) == [i \in DOMAIN list |-> list[i].amount]

LEMMA BondsInList ==
    ASSUME NEW list \in Seq(Bond)
    PROVE  /\ Len(list) \in Nat /\ DOMAIN list = 1..Len(list)
           /\ IsFiniteSet(1..Len(list))
           /\ DOMAIN AmountsIn(list) = 1..Len(list)
           /\ \A i \in 1..Len(list) :
                 /\ list[i] \in Bond
                 /\ list[i].amount \in Nat /\ list[i].timestamp \in Nat
                 /\ AmountsIn(list)[i] = list[i].amount
           /\ AmountOf(list) = SumFunctionOnSet(AmountsIn(list), 1..Len(list))
           /\ AmountOf(list) \in Nat
<1>1. Len(list) \in Nat /\ DOMAIN list = 1..Len(list)
  BY LenProperties
<1>2. IsFiniteSet(1..Len(list))
  BY <1>1, FS_Interval
<1>3. \A i \in 1..Len(list) : list[i] \in Bond
  <2> HIDE DEF Bond
  <2> QED
    BY <1>1, ElementOfSeq
<1>4. /\ DOMAIN AmountsIn(list) = 1..Len(list)
      /\ \A i \in 1..Len(list) : /\ list[i].amount \in Nat /\ list[i].timestamp \in Nat
                                 /\ AmountsIn(list)[i] = list[i].amount
  BY <1>1, <1>3 DEF Bond, AmountsIn
<1>5. AmountOf(list) = SumFunctionOnSet(AmountsIn(list), 1..Len(list))
  BY <1>1, <1>4 DEF AmountOf, AmountsIn, SumFunction
<1>6. AmountOf(list) \in Nat
  BY <1>2, <1>4, <1>5, SumIsNatural
<1> QED
  BY <1>1, <1>2, <1>3, <1>4, <1>5, <1>6

LEMMA AmountOfAppend ==
    ASSUME NEW list \in Seq(Bond), NEW bond \in Bond
    PROVE  /\ Append(list, bond) \in Seq(Bond)
           /\ AmountOf(Append(list, bond)) = AmountOf(list) + bond.amount
<1> DEFINE new == Append(list, bond)
           n == Len(list)
<1>1. /\ new \in Seq(Bond) /\ Len(new) = n + 1
      /\ \A i \in 1..n : new[i] = list[i]
      /\ new[n + 1] = bond
  <2> HIDE DEF Bond
  <2> QED
    BY AppendProperties
<1>2. n \in Nat /\ IsFiniteSet(1..n) /\ IsFiniteSet(1..(n + 1))
  BY BondsInList, FS_Interval
<1> HIDE DEF new
<1>3. /\ \A i \in 1..(n + 1) : AmountsIn(new)[i] \in Int
      /\ \A i \in 1..n : AmountsIn(new)[i] = AmountsIn(list)[i]
      /\ AmountsIn(new)[n + 1] = bond.amount
      /\ AmountOf(new) = SumFunctionOnSet(AmountsIn(new), 1..(n + 1))
      /\ AmountOf(list) = SumFunctionOnSet(AmountsIn(list), 1..n)
      /\ AmountOf(list) \in Nat /\ bond.amount \in Nat
  <2>1. /\ \A i \in 1..(n + 1) : AmountsIn(new)[i] = new[i].amount
                                 /\ AmountsIn(new)[i] \in Nat
        /\ AmountOf(new) = SumFunctionOnSet(AmountsIn(new), 1..(n + 1))
    BY <1>1, BondsInList
  <2>2. bond.amount \in Nat
    BY DEF Bond
  <2>3. /\ \A i \in 1..n : AmountsIn(list)[i] = list[i].amount
        /\ AmountOf(list) = SumFunctionOnSet(AmountsIn(list), 1..n)
        /\ AmountOf(list) \in Nat
    BY BondsInList
  <2>4. \A i \in 1..n : i \in 1..(n + 1)
    BY <1>2
  <2>5. AmountsIn(new)[n + 1] = bond.amount
    BY <1>1, <1>2, <2>1
  <2> QED
    BY <1>1, <2>1, <2>2, <2>3, <2>4, <2>5
<1> HIDE DEF n
<1>4. SumFunctionOnSet(AmountsIn(new), 1..(n + 1))
        = AmountsIn(new)[n + 1] + SumFunctionOnSet(AmountsIn(new), (1..(n + 1)) \ {n + 1})
  <2>1. n + 1 \in 1..(n + 1)
    BY <1>2
  <2> QED
    BY <1>2, <1>3, <2>1, SumWithout
<1>5. (1..(n + 1)) \ {n + 1} = 1..n
  BY <1>2
<1>6. SumFunctionOnSet(AmountsIn(new), 1..n) = SumFunctionOnSet(AmountsIn(list), 1..n)
  BY <1>2, <1>3, SumOfEquals
<1>7. AmountOf(new) = bond.amount + AmountOf(list)
  BY <1>3, <1>4, <1>5, <1>6
<1>8. AmountOf(new) = AmountOf(list) + bond.amount
  BY <1>3, <1>7
<1> QED
  BY <1>1, <1>8 DEF new

\* The loop that keeps bonds, step by step.
KeptAfter(c, list) ==
    /\ c[{}] = << >>
    /\ \A k \in 1..Len(list) :
          c[1..k] = IF IsKept(list[k]) THEN Append(c[1..(k - 1)], list[k])
                    ELSE c[1..(k - 1)]

LEMMA KeptUnfolds ==
    ASSUME NEW list \in Seq(Bond)
    PROVE  \E c : Kept(list) = c[1..Len(list)] /\ KeptAfter(c, list)
<1> DEFINE D == 1..Len(list)
           Keeps(g) == g = [s \in SUBSET D |->
                              IF s = {} THEN << >>
                              ELSE LET i == Max(s)
                                   IN  IF IsKept(list[i])
                                       THEN Append(g[s \ {i}], list[i])
                                       ELSE g[s \ {i}]]
           step == [x \in Seq(Bond) \X D |->
                      IF IsKept(list[x[2]]) THEN Append(x[1], list[x[2]]) ELSE x[1]]
           c == CHOOSE g : Keeps(g)
<1>1. Len(list) \in Nat /\ DOMAIN list = D /\ IsFiniteSet(D) /\ D \in SUBSET Int
  BY BondsInList
<1>2. Kept(list) = c[D]
  BY <1>1 DEF Kept, FoldLeft, MapThenFoldSet
<1>3. PICK g : StepsFrom(g, << >>, step, D)
  BY <1>1, StepsExist
<1> HIDE DEF step, D
<1>4. ASSUME NEW s \in SUBSET D, s # {}
      PROVE  Max(s) \in s /\ list[Max(s)] \in Bond
  <2>1. Max(s) \in s
    BY <1>1, <1>4, MaxIsMember, FS_Subset
  <2> QED
    BY <2>1, BondsInList DEF D
<1>5. \A s \in SUBSET D : g[s] \in Seq(Bond)
  <2>1. << >> \in Seq(Bond)
    BY EmptySeq
  <2>2. ASSUME NEW x \in Seq(Bond) \X D
        PROVE  step[x] \in Seq(Bond)
    <3>1. step[x] = IF IsKept(list[x[2]]) THEN Append(x[1], list[x[2]]) ELSE x[1]
      BY DEF step
    <3>2. x[1] \in Seq(Bond) /\ list[x[2]] \in Bond
      BY BondsInList DEF D
    <3> HIDE DEF Bond
    <3> QED
      BY <3>1, <3>2, AppendProperties
  <2> HIDE DEF Bond
  <2> QED
    BY <1>1, <1>3, <2>1, <2>2, ResultsStayIn
<1>6. Keeps(g)
  <2> DEFINE rhs(s) == IF s = {} THEN << >>
                       ELSE LET i == Max(s)
                            IN  IF IsKept(list[i]) THEN Append(g[s \ {i}], list[i])
                                ELSE g[s \ {i}]
  <2>1. ASSUME NEW s \in SUBSET D
        PROVE  g[s] = rhs(s)
    <3>1. CASE s = {}
      BY <1>3, <3>1 DEF StepsFrom
    <3>2. CASE s # {}
      <4> DEFINE i == Max(s)
                 old == g[s \ {i}]
      <4>1. i \in D /\ old \in Seq(Bond)
        BY <1>4, <1>5, <3>2
      <4>2. g[s] = step[<<old, i>>]
        BY <1>3, <3>2 DEF StepsFrom
      <4> HIDE DEF i, old
      <4>3. step[<<old, i>>] = IF IsKept(list[i]) THEN Append(old, list[i]) ELSE old
        BY <4>1 DEF step
      <4> QED
        BY <3>2, <4>2, <4>3 DEF i, old
    <3> QED
      BY <3>1, <3>2
  <2>2. g = [s \in SUBSET D |-> g[s]]
    BY <1>3 DEF StepsFrom
  <2> HIDE DEF rhs
  <2>3. g = [s \in SUBSET D |-> rhs(s)]
    BY <2>1, <2>2
  <2> QED
    BY <2>3 DEF rhs
<1>7. Keeps(c)
  BY <1>6
<1> HIDE DEF c
<1>8. KeptAfter(c, list)
  <2>1. c[{}] = << >>
    BY <1>7
  <2>2. ASSUME NEW k \in 1..Len(list)
        PROVE  c[1..k] = IF IsKept(list[k]) THEN Append(c[1..(k - 1)], list[k])
                         ELSE c[1..(k - 1)]
    <3>1. k \in Nat /\ k # 0 /\ 1..k \in SUBSET D /\ 1..k # {}
      <4>1. k \in Nat /\ k # 0 /\ k \in 1..k
        BY <1>1, <2>2
      <4>2. \A i \in 1..k : i \in 1..Len(list)
        BY <1>1, <2>2
      <4> QED
        BY <4>1, <4>2 DEF D
    <3>2. Max(1..k) = k /\ (1..k) \ {k} = 1..(k - 1)
      BY <3>1, LastIsMax
    <3> DEFINE s == 1..k
    <3>3. c[s] = LET i == Max(s)
                 IN  IF IsKept(list[i]) THEN Append(c[s \ {i}], list[i])
                     ELSE c[s \ {i}]
      <4> HIDE DEF s
      <4>1. s \in SUBSET D /\ s # {}
        BY <3>1 DEF s
      <4> QED
        BY <1>7, <4>1
    <3> QED
      BY <3>2, <3>3
  <2> QED
    BY <2>1, <2>2 DEF KeptAfter
<1> QED
  BY <1>2, <1>8 DEF D

\* What is due and what is kept of a list of bonds is all of it.
LEMMA DueAndKept ==
    ASSUME NEW list \in Seq(Bond), now \in Nat
    PROVE  /\ Kept(list) \in Seq(Bond)
           /\ AmountDue(list) \in Nat
           /\ AmountOf(list) = AmountDue(list) + AmountOf(Kept(list))
<1> DEFINE n == Len(list)
           f == AmountsIn(list)
           d == [i \in 1..n |-> IF IsDue(list[i]) THEN list[i].amount ELSE 0]
<1>1. PICK c : Kept(list) = c[1..n] /\ KeptAfter(c, list)
  BY KeptUnfolds
<1>2. /\ n \in Nat /\ DOMAIN list = 1..n /\ IsFiniteSet(1..n)
      /\ \A i \in 1..n : /\ list[i] \in Bond /\ list[i].amount \in Nat
                         /\ list[i].timestamp \in Nat /\ f[i] = list[i].amount
  BY BondsInList
<1>3. AmountDue(list) = SumFunctionOnSet(d, 1..n)
  BY <1>2 DEF AmountDue, SumFunction
<1>4. \A i \in 1..n : d[i] = IF IsKept(list[i]) THEN 0 ELSE f[i]
  BY <1>2 DEF IsDue, IsKept
<1>5. \A i \in 1..n : d[i] \in Nat /\ f[i] \in Nat
  BY <1>2
<1> HIDE DEF n, f, d
<1> DEFINE total(k) == SumFunctionOnSet(f, 1..k)
           due(k) == SumFunctionOnSet(d, 1..k)
           Q == {k \in Nat : k <= n =>
                   /\ c[1..k] \in Seq(Bond)
                   /\ total(k) = due(k) + AmountOf(c[1..k])}
<1>6. ASSUME NEW k \in Nat, k <= n
      PROVE  /\ total(k) \in Int /\ due(k) \in Nat
             /\ k # 0 => /\ total(k) = f[k] + total(k - 1)
                         /\ due(k) = d[k] + due(k - 1)
  <2>0. \A i \in 1..k : d[i] \in Nat /\ f[i] \in Nat
    BY <1>2, <1>5, <1>6
  <2>1. IsFiniteSet(1..k) /\ \A i \in 1..k : d[i] \in Nat /\ f[i] \in Nat
    BY <1>6, <2>0, FS_Interval
  <2>2. total(k) \in Int /\ due(k) \in Nat
    BY <2>1, SumIsNatural
  <2>3. ASSUME k # 0
        PROVE  total(k) = f[k] + total(k - 1) /\ due(k) = d[k] + due(k - 1)
    <3> DEFINE S == 1..k
    <3>1. k \in S /\ S \ {k} = 1..(k - 1)
      BY <2>3
    <3>2. IsFiniteSet(S) /\ \A i \in S : d[i] \in Int /\ f[i] \in Int
      BY <2>1
    <3> HIDE DEF S
    <3>3. SumFunctionOnSet(f, S) = f[k] + SumFunctionOnSet(f, S \ {k})
      BY <3>1, <3>2, SumWithout
    <3>4. SumFunctionOnSet(d, S) = d[k] + SumFunctionOnSet(d, S \ {k})
      BY <3>1, <3>2, SumWithout
    <3> QED
      BY <3>1, <3>3, <3>4 DEF S
  <2> QED
    BY <2>2, <2>3
<1>7. 0 \in Q
  <2>1. 1..0 = {}
    OBVIOUS
  <2>2. c[1..0] = << >>
    BY <1>1, <2>1 DEF KeptAfter
  <2>3. total(0) = 0 /\ due(0) = 0
    BY <2>1, SumOfNone
  <2>4. << >> \in Seq(Bond) /\ Len(<< >>) = 0
    BY EmptySeq
  <2>5. AmountOf(<< >>) = 0
    <3>1. AmountOf(<< >>) = SumFunctionOnSet(AmountsIn(<< >>), 1..0)
      BY <2>4, BondsInList
    <3> QED
      BY <2>1, <3>1, SumOfNone
  <2> HIDE DEF total, due
  <2>6. total(0) = due(0) + AmountOf(c[1..0]) /\ c[1..0] \in Seq(Bond)
    BY <2>2, <2>3, <2>4, <2>5
  <2> QED
    BY <2>6
<1>8. ASSUME NEW k \in Nat, k \in Q
      PROVE  k + 1 \in Q
  <2> SUFFICES ASSUME k + 1 <= n
               PROVE  /\ c[1..(k + 1)] \in Seq(Bond)
                      /\ total(k + 1) = due(k + 1) + AmountOf(c[1..(k + 1)])
    OBVIOUS
  <2> DEFINE old == c[1..k]
             bond == list[k + 1]
             new == c[1..(k + 1)]
  <2>1. k <= n /\ k + 1 \in 1..n
    BY <1>2
  <2>2. old \in Seq(Bond) /\ total(k) = due(k) + AmountOf(old)
    BY <1>8, <2>1
  <2>3. new = IF IsKept(bond) THEN Append(old, bond) ELSE old
    <3>1. (k + 1) - 1 = k /\ k + 1 \in 1..Len(list)
      BY <2>1 DEF n
    <3> QED
      BY <1>1, <3>1 DEF KeptAfter
  <2>4. /\ total(k + 1) = f[k + 1] + total(k) /\ due(k + 1) = d[k + 1] + due(k)
        /\ total(k) \in Int /\ due(k) \in Nat
    <3>1. (k + 1) - 1 = k /\ k + 1 # 0 /\ k + 1 \in Nat
      OBVIOUS
    <3> HIDE DEF total, due
    <3> QED
      BY <1>6, <2>1, <3>1
  <2>5. /\ bond \in Bond /\ f[k + 1] = bond.amount /\ bond.amount \in Nat
        /\ d[k + 1] = IF IsKept(bond) THEN 0 ELSE f[k + 1]
    BY <1>2, <1>4, <2>1
  <2>6. AmountOf(old) \in Nat
    BY <2>2, BondsInList
  <2> HIDE DEF old, bond, new, total, due, Q
  <2>7. CASE IsKept(bond)
    <3>1. new \in Seq(Bond) /\ AmountOf(new) = AmountOf(old) + bond.amount
      BY <2>2, <2>3, <2>5, <2>7, AmountOfAppend
    <3> QED
      BY <2>2, <2>4, <2>5, <2>6, <2>7, <3>1 DEF new
  <2>8. CASE ~IsKept(bond)
    <3>1. new = old
      BY <2>3, <2>8
    <3> QED
      BY <2>2, <2>4, <2>5, <2>6, <2>8, <3>1 DEF new
  <2> QED
    BY <2>7, <2>8
<1> HIDE DEF Q
<1>9. Nat \subseteq Q
  BY <1>7, <1>8, NatSetInduction
<1>10. /\ c[1..n] \in Seq(Bond)
       /\ total(n) = due(n) + AmountOf(c[1..n])
  BY <1>2, <1>9 DEF Q
<1>11. AmountOf(list) = total(n)
  BY BondsInList DEF f, n
<1>12. due(n) \in Nat
  BY <1>2, <1>6
<1> QED
  BY <1>1, <1>3, <1>10, <1>11, <1>12

-----------------------------------------------------------------------------
(***************************************************************************)
(* The bondings.                                                           *)
(***************************************************************************)
BondsTyped ==
    /\ now \in Nat
    /\ terms \in [Bondings -> SomeTerms]
    /\ enabled \in [Bondings -> BOOLEAN]
    /\ cumulated \in [Bondings -> Nat]
    /\ today \in [Bondings -> Nat]
    /\ last \in [Bondings -> Nat]
    /\ fund \in [Bondings -> Nat]
    /\ bonds \in [Bondings -> [Accounts -> Seq(Bond)]]
    /\ promised \in [Bondings -> [Accounts -> Nat]]

BondsInv == BondsTyped /\ PromisesAreBonds

\* What is left of a day is a number, and so are the sums of the daily limit.
LEMMA LimitsTyped ==
    ASSUME BondsTyped, NEW c \in Bondings
    PROVE  /\ terms[c] \in SomeTerms
           /\ terms[c].vesting \in Nat /\ terms[c].lock \in Nat
           /\ terms[c].discount \in 0..999
           /\ Unused(c) \in Nat /\ Unused(c) <= terms[c].vesting
           /\ Cumulated(c) \in Nat /\ BondedToday(c) \in Nat
<1>1. terms[c] \in SomeTerms /\ terms[c] \in Terms
  BY BondingAssumption DEF BondsTyped, BondingAssumption
<1>2. /\ terms[c].vesting \in Nat /\ terms[c].lock \in Nat
      /\ terms[c].discount \in 0..999
  BY <1>1 DEF Terms
<1>3. cumulated[c] \in Nat /\ today[c] \in Nat
  BY DEF BondsTyped
<1>4. Unused(c) \in Nat /\ Unused(c) <= terms[c].vesting
  BY <1>2, <1>3 DEF Unused
<1>5. Cumulated(c) \in Nat /\ BondedToday(c) \in Nat
  BY <1>3, <1>4 DEF Cumulated, BondedToday
<1> QED
  BY <1>1, <1>2, <1>4, <1>5

LEMMA ReceivingIsNatural ==
    ASSUME BondsTyped, NEW c \in Bondings, NEW amount \in Nat
    PROVE  Receiving(c, amount) \in Nat
<1> DEFINE rest == 1000 - terms[c].discount
<1>1. rest \in Nat /\ rest > 0 /\ amount * 1000 \in Nat
  <2> DEFINE discount == terms[c].discount
  <2>1. discount \in 0..999
    BY LimitsTyped
  <2> HIDE DEF discount
  <2>2. discount \in Nat /\ discount <= 999
    BY <2>1
  <2> QED
    BY <2>2 DEF discount
<1> HIDE DEF rest
<1>2. (amount * 1000) \div rest \in Nat
  BY <1>1, Quotient
<1> QED
  BY <1>2 DEF Receiving, rest

LEMMA PromiseStep ==
    ASSUME BondsInv, NEW c \in Bondings, NEW a \in Accounts, NEW receiving \in Nat,
           Promise(c, a, receiving)
    PROVE  BondsInv'
<1> DEFINE bond == [amount |-> receiving, timestamp |-> now + terms[c].lock]
           list == bonds[c][a]
           new == Append(list, bond)
           before == promised[c][a]
<1>1. BondsTyped /\ PromisesAreBonds
  BY DEF BondsInv
<1>2. bond \in Bond /\ bond.amount = receiving
  BY <1>1, LimitsTyped DEF Bond, BondsTyped
<1>3. list \in Seq(Bond) /\ before \in Nat /\ before = AmountOf(list)
  BY <1>1 DEF BondsTyped, PromisesAreBonds
<1> HIDE DEF bond, list
<1>4. new \in Seq(Bond) /\ AmountOf(new) = AmountOf(list) + bond.amount
  BY <1>2, <1>3, AmountOfAppend
<1>5. before + receiving \in Nat /\ before + receiving = AmountOf(new)
  BY <1>2, <1>3, <1>4
<1>6. /\ bonds' = [bonds EXCEPT ![c] = [bonds[c] EXCEPT ![a] = new]]
      /\ promised' = [promised EXCEPT ![c] = [promised[c] EXCEPT ![a] = before + receiving]]
      /\ cumulated' = [cumulated EXCEPT ![c] = Cumulated(c)]
      /\ today' = [today EXCEPT ![c] = BondedToday(c) + receiving]
      /\ last' = [last EXCEPT ![c] = now]
      /\ UNCHANGED <<terms, enabled, fund, now>>
  BY DEF Promise, CheckDailyVestingAmount, list, bond
<1>7. Cumulated(c) \in Nat /\ BondedToday(c) + receiving \in Nat
  BY <1>1, LimitsTyped
<1> DEFINE total == before + receiving
<1> HIDE DEF new, before, Bond, total
<1>8. BondsTyped'
  BY <1>1, <1>4, <1>5, <1>6, <1>7 DEF BondsTyped, total
<1>9. ASSUME NEW d \in Bondings, NEW b \in Accounts
      PROVE  promised'[d][b] = AmountOf(bonds'[d][b])
  <2>1. CASE d = c /\ b = a
    <3>1. promised'[d][b] = total /\ bonds'[d][b] = new
      BY <1>1, <1>6, <2>1 DEF BondsTyped, total
    <3> QED
      BY <1>5, <3>1 DEF total
  <2>2. CASE ~(d = c /\ b = a)
    <3>1. promised'[d][b] = promised[d][b] /\ bonds'[d][b] = bonds[d][b]
      BY <1>1, <1>6, <2>2 DEF BondsTyped
    <3> QED
      BY <1>1, <3>1 DEF PromisesAreBonds
  <2> QED
    BY <2>1, <2>2
<1> QED
  BY <1>8, <1>9 DEF BondsInv, PromisesAreBonds, AmountOf

\* A payment takes what is due off what was promised and off the bonds alike.
LEMMA UnbondStep ==
    ASSUME BondsInv, NEW c \in Bondings, NEW a \in Accounts, Unbond(c, a)
    PROVE  BondsInv'
<1> DEFINE list == bonds[c][a]
           due == AmountDue(list)
           kept == Kept(list)
           rest == promised[c][a] - due
           left == fund[c] - due
<1>1. BondsTyped /\ PromisesAreBonds
  BY DEF BondsInv
<1>2. list \in Seq(Bond) /\ promised[c][a] = AmountOf(list) /\ now \in Nat
  BY <1>1 DEF BondsTyped, PromisesAreBonds
<1> HIDE DEF list
<1>3. kept \in Seq(Bond) /\ due \in Nat /\ AmountOf(list) = due + AmountOf(kept)
  BY <1>2, DueAndKept
<1>4. AmountOf(kept) \in Nat
  BY <1>3, BondsInList
<1>5. /\ due <= fund[c]
      /\ bonds' = [bonds EXCEPT ![c] = [bonds[c] EXCEPT ![a] = kept]]
      /\ promised' = [promised EXCEPT ![c] = [promised[c] EXCEPT ![a] = rest]]
      /\ fund' = [fund EXCEPT ![c] = left]
      /\ UNCHANGED <<terms, enabled, cumulated, today, last, now>>
  BY DEF Unbond, list, limits
<1> HIDE DEF due, kept
<1>6. rest = AmountOf(kept) /\ rest \in Nat
  BY <1>2, <1>3, <1>4
<1>7. left \in Nat
  BY <1>1, <1>3, <1>5 DEF BondsTyped
<1> HIDE DEF rest, left, Bond
<1>8. BondsTyped'
  BY <1>1, <1>3, <1>5, <1>6, <1>7 DEF BondsTyped
<1>9. ASSUME NEW d \in Bondings, NEW b \in Accounts
      PROVE  promised'[d][b] = AmountOf(bonds'[d][b])
  <2>1. CASE d = c /\ b = a
    <3>1. promised'[d][b] = rest /\ bonds'[d][b] = kept
      BY <1>1, <1>5, <2>1 DEF BondsTyped
    <3> QED
      BY <1>6, <3>1
  <2>2. CASE ~(d = c /\ b = a)
    <3>1. promised'[d][b] = promised[d][b] /\ bonds'[d][b] = bonds[d][b]
      BY <1>1, <1>5, <2>2 DEF BondsTyped
    <3> QED
      BY <1>1, <3>1 DEF PromisesAreBonds
  <2> QED
    BY <2>1, <2>2
<1> QED
  BY <1>8, <1>9 DEF BondsInv, PromisesAreBonds, AmountOf

LEMMA OtherBondingStep ==
    ASSUME BondsInv, NEW c \in Bondings, NEW s \in Accounts,
           NEW amount \in Nat, NEW flag \in BOOLEAN, NEW new \in SomeTerms,
           \/ Withdraw(c, s, amount)
           \/ UpdateEnabled(c, s, flag)
           \/ UpdateTerms(c, s, new)
           \/ Fund(c, amount)
    PROVE  BondsInv'
<1>1. BondsTyped /\ PromisesAreBonds
  BY DEF BondsInv
<1>2. UNCHANGED <<bonds, promised>>
  BY DEF Withdraw, UpdateEnabled, UpdateTerms, Fund
<1>3. PromisesAreBonds'
  BY <1>1, <1>2 DEF PromisesAreBonds
<1> HIDE DEF Bond
<1>4. BondsTyped'
  <2> USE <1>1, <1>2 DEF BondsTyped, limits
  <2>1. CASE Withdraw(c, s, amount)
    BY <2>1 DEF Withdraw
  <2>2. CASE UpdateEnabled(c, s, flag)
    BY <2>2 DEF UpdateEnabled
  <2>3. CASE UpdateTerms(c, s, new)
    BY <2>3 DEF UpdateTerms
  <2>4. CASE Fund(c, amount)
    BY <2>4 DEF Fund
  <2> QED
    BY <2>1, <2>2, <2>3, <2>4
<1> QED
  BY <1>3, <1>4 DEF BondsInv

LEMMA TimeStep ==
    ASSUME BondsInv, NextBlock \/ UNCHANGED bondVars
    PROVE  BondsInv'
<1> HIDE DEF Bond
<1>1. /\ UNCHANGED <<terms, enabled, cumulated, today, last, fund, bonds, promised>>
      /\ now' = now + 1 \/ now' = now
  BY DEF NextBlock, bondVars, limits
<1>2. PromisesAreBonds'
  BY <1>1 DEF BondsInv, PromisesAreBonds
<1>3. BondsTyped'
  BY <1>1 DEF BondsInv, BondsTyped
<1> QED
  BY <1>2, <1>3 DEF BondsInv

\* Every transaction makes a promise, pays one out, or leaves promises alone.
Promises == \E c \in Bondings, a \in Accounts, receiving \in Nat :
               Promise(c, a, receiving)
Unbonds == \E c \in Bondings, a \in Accounts : Unbond(c, a)
LeavesBonds ==
    \/ \E c \in Bondings, s \in Accounts, amount \in Nat, flag \in BOOLEAN,
          new \in SomeTerms :
          \/ Withdraw(c, s, amount)
          \/ UpdateEnabled(c, s, flag)
          \/ UpdateTerms(c, s, new)
          \/ Fund(c, amount)
    \/ NextBlock
    \/ UNCHANGED bondVars

LEMMA PriceIsNatural ==
    ASSUME PoolInv, Liquid, NEW amount \in Nat
    PROVE  Token1ForToken2Price(amount) \in Nat
<1> DEFINE divisor == reserve1 * 1000 + amount * 997
           dividend == amount * 997 * reserve2
<1>1. reserve1 \in Nat /\ reserve2 \in Nat /\ reserve1 > 0
  BY DEF Liquid, PoolInv, PoolTyped
<1>2. divisor \in Nat /\ divisor > 0 /\ dividend \in Nat
  BY <1>1, ProductNat
<1>3. Token1ForToken2Price(amount) = dividend \div divisor
  BY DEF Token1ForToken2Price, InputPrice
<1> HIDE DEF divisor, dividend
<1> QED
  BY <1>2, <1>3, Quotient

LEMMA BondingSteps ==
    ASSUME PoolInv, BondsTyped, PoolNext \/ BondingNext \/ UNCHANGED exchangeVars
    PROVE  Promises \/ Unbonds \/ LeavesBonds
<1> USE SwapAssumption, BondingAssumption DEF SwapAssumption, BondingAssumption
<1>1. CASE PoolNext
  <2>1. ASSUME NEW s \in Accounts, NEW amount1 \in SwapAmounts,
               NEW max2 \in SwapAmounts, AddLiquidity(s, amount1, max2)
        PROVE  Promises \/ UNCHANGED bondVars
    <3> DEFINE paid == 2 * Token2Required(amount1, max2)
               c == swapConfig.bonding
    <3>1. paid \in Nat
      BY <2>1, ProductNat, Quotient
      DEF AddLiquidity, Deposit, Token2Required, PoolInv, PoolTyped
    <3> HIDE DEF paid
    <3>2. CASE LpBond(c, s, paid)
      <4>1. c \in Bondings /\ Receiving(c, paid) \in Nat
        BY <3>1, <3>2, ReceivingIsNatural DEF LpBond
      <4>2. Promise(c, s, Receiving(c, paid))
        BY <3>2 DEF LpBond
      <4> HIDE DEF c
      <4> QED
        BY <4>1, <4>2 DEF Promises
    <3> QED
      BY <2>1, <3>2 DEF AddLiquidity, paid
  <2> QED
    BY <1>1, <2>1 DEF PoolNext, LeavesBonds
<1>2. CASE BondingNext
  <2>1. ASSUME NEW c \in Bondings, NEW a \in Accounts, NEW amount \in SwapAmounts,
               NativeBond(c, a, amount)
        PROVE  Promises
    <3> DEFINE price == Token1ForToken2Price(amount)
    <3>1. price \in Nat /\ Promise(c, a, Receiving(c, price))
      BY <2>1, PriceIsNatural DEF NativeBond
    <3> HIDE DEF price
    <3>2. Receiving(c, price) \in Nat
      BY <3>1, ReceivingIsNatural
    <3> QED
      BY <3>1, <3>2 DEF Promises
  <2>2. ASSUME NEW c \in Bondings, NEW a \in Accounts, Unbond(c, a)
        PROVE  Unbonds
    BY <2>2 DEF Unbonds
  <2>3. ASSUME NEW c \in Bondings, NEW a \in Accounts, NEW amount \in FundAmounts,
               NEW flag \in BOOLEAN, NEW new \in SomeTerms,
               \/ Withdraw(c, a, amount)
               \/ UpdateEnabled(c, a, flag)
               \/ UpdateTerms(c, a, new)
               \/ Fund(c, amount)
        PROVE  LeavesBonds
    <3>1. amount \in Nat
      OBVIOUS
    <3> QED
      BY <2>3, <3>1 DEF LeavesBonds
  <2>4. Accounts # {} /\ SomeTerms # {}
    OBVIOUS
  <2>5. ASSUME NEW c \in Bondings, NEW a \in Accounts,
               \/ \E flag \in BOOLEAN : UpdateEnabled(c, a, flag)
               \/ \E new \in SomeTerms : UpdateTerms(c, a, new)
        PROVE  LeavesBonds
    <3>1. 0 \in Nat
      OBVIOUS
    <3> QED
      BY <2>4, <2>5, <3>1 DEF LeavesBonds
  <2> QED
    BY <1>2, <2>1, <2>2, <2>3, <2>4, <2>5 DEF BondingNext, LeavesBonds
<1>3. CASE UNCHANGED exchangeVars
  BY <1>3 DEF exchangeVars, LeavesBonds
<1> QED
  BY <1>1, <1>2, <1>3

LEMMA BondsInvKept ==
    ASSUME PoolInv, BondsInv, PoolNext \/ BondingNext \/ UNCHANGED exchangeVars
    PROVE  BondsInv'
<1>1. Promises \/ Unbonds \/ LeavesBonds
  BY BondingSteps DEF BondsInv
<1>2. CASE Promises
  BY <1>2, PromiseStep DEF Promises
<1>3. CASE Unbonds
  BY <1>3, UnbondStep DEF Unbonds
<1>4. CASE LeavesBonds
  BY <1>4, OtherBondingStep, TimeStep DEF LeavesBonds
<1> QED
  BY <1>1, <1>2, <1>3, <1>4

\* The bonds of an account add up to what was promised to it and is not paid,
\* whatever terms they were made under and whenever they fall due.
THEOREM BondsInvHolds == ExchangeSpec => []BondsInv
<1>1. ExchangeInit => BondsInv
  <2> SUFFICES ASSUME ExchangeInit PROVE BondsInv
    OBVIOUS
  <2>1. << >> \in Seq(Bond) /\ Len(<< >>) = 0 /\ 1..0 = {}
    BY EmptySeq
  <2>2. AmountOf(<< >>) = 0
    <3>1. AmountOf(<< >>) = SumFunctionOnSet(AmountsIn(<< >>), 1..0)
      BY <2>1, BondsInList
    <3> QED
      BY <2>1, <3>1, SumOfNone
  <2> HIDE DEF Bond
  <2>3. BondsTyped
    BY <2>1, BondingAssumption
    DEF ExchangeInit, BondingInit, BondsTyped, BondingAssumption
  <2>4. PromisesAreBonds
    BY <2>2 DEF ExchangeInit, BondingInit, PromisesAreBonds
  <2> QED
    BY <2>3, <2>4 DEF BondsInv
<1>2. PoolInv /\ BondsInv /\ [PoolNext \/ BondingNext]_exchangeVars => BondsInv'
  BY BondsInvKept
<1> QED
  BY <1>1, <1>2, PoolInvHolds, PTL DEF ExchangeSpec

\* What the bonds of an account add up to is what was promised and is not paid.
THEOREM PromisesAreBondsHolds == ExchangeSpec => []PromisesAreBonds
<1>1. BondsInv => PromisesAreBonds
  BY DEF BondsInv
<1> QED
  BY <1>1, BondsInvHolds, PTL

\* The pool and the bondings have their types.
THEOREM ExchangeTypeOKHolds == ExchangeSpec => []ExchangeTypeOK
<1>1. PoolInv /\ BondsInv => ExchangeTypeOK
  <2> SUFFICES ASSUME PoolInv, BondsInv PROVE ExchangeTypeOK
    OBVIOUS
  <2>1. ASSUME NEW c \in Bondings, NEW a \in Accounts
        PROVE  /\ \A i \in DOMAIN bonds[c][a] : bonds[c][a][i] \in Bond
               /\ promised[c][a] \in Nat
    <3>1. bonds[c][a] \in Seq(Bond) /\ promised[c][a] \in Nat
      BY DEF BondsInv, BondsTyped
    <3> QED
      BY <3>1, BondsInList
  <2> QED
    BY <2>1 DEF PoolInv, PoolTyped, BondsInv, BondsTyped, ExchangeTypeOK
<1> QED
  BY <1>1, PoolInvHolds, BondsInvHolds, PTL

-----------------------------------------------------------------------------
(***************************************************************************)
(* The daily limit.  What a day may use rests on what was cumulated, which *)
(* is no more than the daily amounts of the days before: the cumulated     *)
(* amount, the last day and the amount of that day form the invariant.     *)
(***************************************************************************)
AccrualInv ==
    \A c \in Bondings :
       /\ last[c] <= now
       /\ cumulated[c] <= Daily * (last[c] \div Day)
       /\ today[c] <= Daily * (last[c] \div Day + 1)

LEMMA DailyIsGreatest ==
    Daily \in Nat /\ \A t \in SomeTerms : t.vesting <= Daily
<1> DEFINE Amounts == {t.vesting : t \in SomeTerms}
           amount == [t \in SomeTerms |-> t.vesting]
<1>1. IsFiniteSet(SomeTerms) /\ SomeTerms # {} /\ SomeTerms \subseteq Terms
  BY BondingAssumption DEF BondingAssumption
<1>2. Amounts \subseteq Nat /\ Amounts # {}
  BY <1>1 DEF Terms
<1>3. IsFiniteSet(Amounts)
  <2>1. amount \in Surjection(SomeTerms, Amounts)
    BY DEF Surjection
  <2> HIDE DEF amount, Amounts
  <2> QED
    BY <1>1, <2>1, FS_Surjection
<1> HIDE DEF Amounts
<1>4. Max(Amounts) \in Amounts /\ \A x \in Amounts : x <= Max(Amounts)
  BY <1>2, <1>3, MaxIsMember
<1>5. Daily = Max(Amounts)
  BY DEF Daily, Amounts
<1>6. \A t \in SomeTerms : t.vesting \in Amounts
  BY DEF Amounts
<1> QED
  BY <1>2, <1>4, <1>5, <1>6

\* Days are counted in the order of time.
LEMMA DaysInOrder ==
    ASSUME NEW m \in Nat, NEW n \in Nat, m <= n
    PROVE  m \div Day \in Nat /\ n \div Day \in Nat /\ m \div Day <= n \div Day
<1>1. Day \in Nat /\ Day > 0
  BY BondingAssumption DEF BondingAssumption
<1> QED
  BY <1>1, Quotient, QuotientsOrdered

LEMMA PromiseAccrues ==
    ASSUME BondsTyped, AccrualInv, NEW c \in Bondings, NEW a \in Accounts,
           NEW receiving \in Nat, Promise(c, a, receiving)
    PROVE  AccrualInv'
<1> DEFINE old == last[c] \div Day
           day == now \div Day
           vesting == terms[c].vesting
           more == Cumulated(c)
           spent == BondedToday(c) + receiving
<1>1. /\ last[c] \in Nat /\ now \in Nat /\ last[c] <= now
      /\ cumulated[c] \in Nat /\ today[c] \in Nat
      /\ cumulated[c] <= Daily * old /\ today[c] <= Daily * (old + 1)
  BY DEF BondsTyped, AccrualInv
<1>2. old \in Nat /\ day \in Nat /\ old <= day
  BY <1>1, DaysInOrder
<1>3. Daily \in Nat /\ vesting \in Nat /\ vesting <= Daily
  BY LimitsTyped, DailyIsGreatest
<1>4. more \in Nat /\ Unused(c) \in Nat /\ Unused(c) <= vesting /\ spent \in Nat
  BY LimitsTyped
<1>5. spent <= vesting + more
  BY DEF Promise, CheckDailyVestingAmount, WithinLimit
<1>6. more <= Daily * day
  <2>1. CASE IsNewDay(c)
    <3>1. more = cumulated[c] + Unused(c) /\ old # day
      BY <2>1 DEF Cumulated, IsNewDay
    <3> HIDE DEF old, day, vesting, more
    <3>2. old + 1 <= day /\ more <= Daily * old + Daily
      BY <1>1, <1>2, <1>3, <1>4, <3>1
    <3>3. Daily * old + Daily = Daily * (old + 1) /\ Daily * (old + 1) <= Daily * day
      BY <1>2, <1>3, <3>2
    <3>4. Daily * (old + 1) \in Nat /\ Daily * day \in Nat /\ Daily * old \in Nat
      BY <1>2, <1>3, ProductNat
    <3> QED
      BY <1>3, <1>4, <3>2, <3>3, <3>4
  <2>2. CASE ~IsNewDay(c)
    BY <1>1, <2>2 DEF Cumulated, IsNewDay
  <2> QED
    BY <2>1, <2>2
<1> DEFINE bound == Daily * day
           limit == Daily * (day + 1)
<1>7. limit = bound + Daily /\ bound \in Nat
  <2> HIDE DEF day
  <2> QED
    BY <1>2, <1>3, ProductNat
<1>8. spent <= limit
  <2> HIDE DEF bound, limit, spent, vesting, more
  <2>1. more <= bound
    BY <1>6 DEF bound
  <2> QED
    BY <1>3, <1>4, <1>5, <1>7, <2>1
<1>9. /\ cumulated' = [cumulated EXCEPT ![c] = more]
      /\ today' = [today EXCEPT ![c] = spent]
      /\ last' = [last EXCEPT ![c] = now]
      /\ now' = now
  BY DEF Promise, CheckDailyVestingAmount
<1> HIDE DEF more, spent
<1>10. /\ cumulated'[c] = more /\ today'[c] = spent /\ last'[c] = now
       /\ \A d \in Bondings \ {c} : /\ cumulated'[d] = cumulated[d]
                                    /\ today'[d] = today[d] /\ last'[d] = last[d]
  BY <1>9 DEF BondsTyped
<1>11. ASSUME NEW d \in Bondings
       PROVE  /\ last'[d] <= now'
              /\ cumulated'[d] <= Daily * (last'[d] \div Day)
              /\ today'[d] <= Daily * (last'[d] \div Day + 1)
  <2>1. CASE d = c
    BY <1>1, <1>6, <1>8, <1>9, <1>10, <2>1
  <2>2. CASE d # c
    BY <1>9, <1>10, <2>2 DEF AccrualInv
  <2> QED
    BY <2>1, <2>2
<1> QED
  BY <1>11 DEF AccrualInv, Daily

LEMMA AccrualKept ==
    ASSUME PoolInv, BondsTyped, AccrualInv,
           PoolNext \/ BondingNext \/ UNCHANGED exchangeVars
    PROVE  AccrualInv'
<1>1. Promises \/ Unbonds \/ LeavesBonds
  BY BondingSteps
<1>2. CASE Promises
  BY <1>2, PromiseAccrues DEF Promises
<1>3. CASE Unbonds \/ LeavesBonds
  <2>1. UNCHANGED limits /\ (now' = now \/ now' = now + 1)
    BY <1>3 DEF Unbonds, LeavesBonds, Unbond, Withdraw, UpdateEnabled, UpdateTerms,
       Fund, NextBlock, bondVars
  <2>2. last' = last /\ cumulated' = cumulated /\ today' = today
    BY <2>1 DEF limits
  <2>3. ASSUME NEW c \in Bondings
        PROVE  last[c] <= now'
    BY <2>1 DEF BondsTyped, AccrualInv
  <2> QED
    BY <2>2, <2>3 DEF AccrualInv, Daily
<1> QED
  BY <1>1, <1>2, <1>3

\* The invariant of the daily limit holds, whatever terms are set when.
THEOREM AccrualInvHolds == ExchangeSpec => []AccrualInv
<1>1. ExchangeInit => AccrualInv
  <2> SUFFICES ASSUME ExchangeInit PROVE AccrualInv
    OBVIOUS
  <2>1. Daily \in Nat /\ 0 \div Day \in Nat
    BY DailyIsGreatest, DaysInOrder
  <2>2. Daily * (0 \div Day) \in Nat /\ Daily * (0 \div Day + 1) \in Nat
    BY <2>1, ProductNat
  <2> HIDE DEF Daily
  <2> QED
    BY <2>2 DEF ExchangeInit, BondingInit, AccrualInv
<1>2. PoolInv /\ BondsInv /\ AccrualInv /\ [PoolNext \/ BondingNext]_exchangeVars
        => AccrualInv'
  BY AccrualKept DEF BondsInv
<1> QED
  BY <1>1, <1>2, PoolInvHolds, BondsInvHolds, PTL DEF ExchangeSpec

\* On one day no more is bonded than the daily amounts of it and the days before.
THEOREM DayWithinAccrualHolds == ExchangeSpec => []DayWithinAccrual
<1>1. AccrualInv => DayWithinAccrual
  BY DEF AccrualInv, DayWithinAccrual
<1> QED
  BY <1>1, AccrualInvHolds, PTL

-----------------------------------------------------------------------------
(***************************************************************************)
(* The value of a share: products of what the reserves and the supply      *)
(* become, in terms of the remainders that divisions leave to the pool.    *)
(***************************************************************************)
\* Products keep their order when both are multiplied by a square.
LEMMA SquareKeepsOrder ==
    ASSUME NEW a \in Nat, NEW b \in Nat, NEW c \in Nat, NEW d \in Nat,
           NEW s \in Nat, a * b <= c * d
    PROVE  a * b * s * s <= c * d * s * s
<1>1. a * b \in Nat /\ c * d \in Nat
  BY ProductNat
<1>2. (a * b) * s <= (c * d) * s
  BY <1>1, ProductsOrdered
<1>3. (a * b) * s \in Nat /\ (c * d) * s \in Nat
  BY <1>1, ProductNat
<1> QED
  BY <1>2, <1>3, ProductsOrdered

\* A deposit mints too few shares and takes too much FURY, if anything.
LEMMA DepositKeepsValue ==
    ASSUME NEW r1 \in Nat, NEW r2 \in Nat, NEW s \in Nat, NEW a \in Nat, r1 > 0
    PROVE  LET m == (a * s) \div r1
               p == (a * r2) \div r1 + 1
           IN  r1 * r2 * (s + m) * (s + m) <= (r1 + a) * (r2 + p) * s * s
<1> DEFINE m == (a * s) \div r1
           q == (a * r2) \div r1
           p == q + 1
           t == s + m
           r1n == r1 + a
           r2n == r2 + p
<1>1. a * s \in Nat /\ a * r2 \in Nat
  BY ProductNat
<1>2. m \in Nat /\ r1 * m <= a * s
  BY <1>1, Quotient
<1>3. q \in Nat /\ a * r2 < r1 * q + r1
  BY <1>1, Quotient
<1> HIDE DEF m, q
<1>4. t \in Nat /\ r1n \in Nat /\ r2n \in Nat /\ p \in Nat
  BY <1>2, <1>3
<1>5. t * r1 <= s * r1n
  <2>1. t * r1 = s * r1 + r1 * m /\ s * r1n = s * r1 + a * s
    BY <1>2
  <2>2. s * r1 \in Nat /\ r1 * m \in Nat
    BY <1>2, ProductNat
  <2> QED
    BY <1>1, <1>2, <2>1, <2>2
<1>6. r2 * r1n <= r2n * r1
  <2>1. r2 * r1n = r2 * r1 + a * r2 /\ r2n * r1 = r2 * r1 + (r1 * q + r1)
    BY <1>3
  <2>2. r2 * r1 \in Nat /\ r1 * q \in Nat
    BY <1>3, ProductNat
  <2> QED
    BY <1>1, <1>3, <2>1, <2>2
<1> HIDE DEF t, r1n, r2n, p
<1> DEFINE f == r1 * r1
           x == r1 * r2 * t * t
           y == r1n * r2n * s * s
<1>7. /\ t * r1 \in Nat /\ s * r1n \in Nat /\ r2 * r1n \in Nat /\ r2n * r1 \in Nat
      /\ r1 * r2 \in Nat /\ s * s \in Nat /\ r1n * r1 \in Nat
  BY <1>4, ProductNat
<1>8. (t * r1) * (t * r1) <= (s * r1n) * (s * r1n)
  BY <1>5, <1>7, ProductsOrdered
<1> DEFINE u == (t * r1) * (t * r1)
           v == (s * r1n) * (s * r1n)
           w == (s * s) * (r1n * r1)
<1>9. u \in Nat /\ v \in Nat /\ w \in Nat
  BY <1>7, ProductNat
<1>10. u * (r1 * r2) <= v * (r1 * r2)
  <2> HIDE DEF u, v
  <2> QED
    BY <1>7, <1>8, <1>9, ProductsOrdered DEF u, v
<1>11. w * (r2 * r1n) <= w * (r2n * r1)
  <2> HIDE DEF w
  <2> QED
    BY <1>6, <1>7, <1>9, ProductsOrdered
<1>12. u * (r1 * r2) = f * x
  BY <1>4
<1>13. v * (r1 * r2) = w * (r2 * r1n)
  BY <1>4
<1>14. w * (r2n * r1) = f * y
  BY <1>4
<1>15. f \in Nat /\ f > 0 /\ x \in Nat /\ y \in Nat
  BY <1>4, <1>7, ProductNat
<1>16. x <= y
  <2>1. f * x \in Nat /\ f * y \in Nat /\ w * (r2 * r1n) \in Nat
    BY <1>7, <1>9, <1>15, ProductNat
  <2> HIDE DEF u, v, w, f, x, y
  <2>2. f * x <= f * y
    BY <1>10, <1>11, <1>12, <1>13, <1>14, <2>1
  <2> QED
    BY <1>15, <2>2, FactorCancels
<1> QED
  BY <1>16 DEF m, p, q, t, r1n, r2n

\* A withdrawal takes too little of either token, if anything.
LEMMA RemovalKeepsValue ==
    ASSUME NEW r1 \in Nat, NEW r2 \in Nat, NEW s \in Nat, NEW n \in Nat,
           n <= s, s > 0, NEW out1 \in Nat, NEW out2 \in Nat,
           out1 <= r1, out2 <= r2, s * out1 <= n * r1, s * out2 <= n * r2
    PROVE  r1 * r2 * (s - n) * (s - n) <= (r1 - out1) * (r2 - out2) * s * s
<1> DEFINE t == s - n
           r1n == r1 - out1
           r2n == r2 - out2
<1>1. t \in Nat /\ r1n \in Nat /\ r2n \in Nat
  OBVIOUS
<1>2. s * r1n = s * r1 - s * out1 /\ s * r2n = s * r2 - s * out2
  OBVIOUS
<1>3. r1 * t = s * r1 - n * r1 /\ r2 * t = s * r2 - n * r2
  OBVIOUS
<1>4. /\ s * r1 \in Nat /\ s * r2 \in Nat /\ s * out1 \in Nat /\ s * out2 \in Nat
      /\ n * r1 \in Nat /\ n * r2 \in Nat
  BY ProductNat
<1>5. r1 * t <= s * r1n /\ r2 * t <= s * r2n
  BY <1>2, <1>3, <1>4
<1> HIDE DEF t, r1n, r2n
<1>6. r1 * t \in Nat /\ r2 * t \in Nat /\ s * r1n \in Nat /\ s * r2n \in Nat
  BY <1>1, ProductNat
<1>7. (r1 * t) * (r2 * t) <= (s * r1n) * (s * r2n)
  BY <1>5, <1>6, ProductsOrdered
<1>8. (r1 * t) * (r2 * t) = r1 * r2 * t * t /\ (s * r1n) * (s * r2n) = r1n * r2n * s * s
  BY <1>1
<1> QED
  BY <1>7, <1>8 DEF t, r1n, r2n

\* A swap pays no more than keeps the product of the reserves.
LEMMA SwapKeepsProduct ==
    ASSUME NEW amount \in Nat, NEW input \in Nat, NEW output \in Nat,
           input > 0, Bought(amount, input, output) \in 0..output
    PROVE  input * output
             <= (input + amount) * (output - Bought(amount, input, output))
<1> DEFINE bought == Bought(amount, input, output)
           dividend == amount * 997 * output
           divisor == input * 1000 + amount * 997
<1>1. divisor \in Nat /\ divisor > 0 /\ dividend \in Nat
  BY ProductNat
<1>2. bought = dividend \div divisor
  BY DEF Bought, InputPrice
<1>3. bought \in Nat /\ bought <= output
  OBVIOUS
<1>4. divisor * bought <= dividend
  <2> HIDE DEF divisor, dividend, bought
  <2> QED
    BY <1>1, <1>2, Quotient
<1> HIDE DEF bought
<1> DEFINE sum == input + amount
<1>5. sum \in Nat /\ 997 * sum <= divisor /\ 997 * sum \in Nat
  OBVIOUS
<1>6. (997 * sum) * bought <= divisor * bought
  BY <1>1, <1>3, <1>5, ProductsOrdered
<1>7. (997 * sum) * bought = 997 * (sum * bought) /\ dividend = 997 * (amount * output)
  BY <1>3, <1>5
<1>8. /\ sum * bought \in Nat /\ amount * output \in Nat /\ input * output \in Nat
      /\ divisor * bought \in Nat
  BY <1>1, <1>3, <1>5, ProductNat
<1>9. sum * bought <= amount * output
  <2> HIDE DEF sum, divisor
  <2> QED
    BY <1>4, <1>6, <1>7, <1>8
<1>10. sum * (output - bought) = input * output + amount * output - sum * bought
  BY <1>3
<1> HIDE DEF sum
<1> QED
  BY <1>8, <1>9, <1>10 DEF bought, sum

\* One lemma for each message that moves tokens of the pool.
LEMMA DepositKept ==
    ASSUME PoolInv, NEW amount1 \in Nat, NEW max2 \in Nat,
           Deposit(amount1, max2)
    PROVE  ShareValueKept
<1> SUFFICES ASSUME supply > 0
             PROVE  reserve1 * reserve2 * supply' * supply'
                      <= reserve1' * reserve2' * supply * supply
  BY DEF ShareValueKept
<1>1. reserve1 \in Nat /\ reserve2 \in Nat /\ supply \in Nat /\ reserve1 > 0
  BY DEF PoolInv, PoolTyped, SharesHaveReserve
<1>2. /\ reserve1' = reserve1 + amount1
      /\ reserve2' = reserve2 + ((amount1 * reserve2) \div reserve1 + 1)
      /\ supply' = supply + (amount1 * supply) \div reserve1
  BY <1>1 DEF Deposit, Token2Required, SharesToMint
<1> QED
  BY <1>1, <1>2, DepositKeepsValue

LEMMA RemovalKept ==
    ASSUME PoolInv, NEW s \in Accounts, NEW amount \in Nat, NEW attached \in Nat,
           RemoveLiquidity(s, amount, attached)
    PROVE  ShareValueKept
<1> DEFINE out1 == Redeemed(amount, reserve1)
           out2 == Redeemed(amount, reserve2)
<1>1. /\ reserve1 \in Nat /\ reserve2 \in Nat /\ supply \in Nat
      /\ supply > 0 /\ amount <= supply
  BY DEF RemoveLiquidity, PoolInv, PoolTyped
<1>2. out1 \in Nat /\ out1 <= reserve1 /\ out2 \in Nat /\ out2 <= reserve2
  BY <1>1, QuotientAtMost DEF Redeemed
<1>3. supply * out1 <= amount * reserve1 /\ supply * out2 <= amount * reserve2
  <2>1. amount * reserve1 \in Nat /\ amount * reserve2 \in Nat
    BY <1>1, ProductNat
  <2> QED
    BY <1>1, <2>1, Quotient DEF Redeemed
<1>4. /\ reserve1' = reserve1 - out1 /\ reserve2' = reserve2 - out2
      /\ supply' = supply - amount
  BY DEF RemoveLiquidity
<1> HIDE DEF out1, out2
<1>5. reserve1 * reserve2 * supply' * supply'
        <= reserve1' * reserve2' * supply * supply
  BY <1>1, <1>2, <1>3, <1>4, RemovalKeepsValue
<1> QED
  BY <1>5 DEF ShareValueKept

LEMMA ProductKept ==
    ASSUME PoolInv, reserve1' \in Nat, reserve2' \in Nat, UNCHANGED supply,
           reserve1 * reserve2 <= reserve1' * reserve2'
    PROVE  ShareValueKept
<1>1. reserve1 \in Nat /\ reserve2 \in Nat /\ supply \in Nat
  BY DEF PoolInv, PoolTyped
<1>2. reserve1 * reserve2 * supply * supply <= reserve1' * reserve2' * supply * supply
  BY <1>1, SquareKeepsOrder
<1> QED
  BY <1>2 DEF ShareValueKept

LEMMA SwapKept ==
    ASSUME PoolInv, NEW amount \in Nat, NEW fee \in Nat, NEW attached \in Nat,
           SwapToken1(amount) \/ SwapToken2(amount, fee, attached)
    PROVE  ShareValueKept
<1>1. PoolInv'
  BY SwapStep
<1>2. /\ reserve1 \in Nat /\ reserve2 \in Nat /\ reserve1' \in Nat /\ reserve2' \in Nat
      /\ reserve1 # 0 /\ reserve2 # 0
  BY <1>1 DEF PoolInv, PoolTyped, SwapToken1, SwapToken2, Liquid
<1>3. CASE SwapToken1(amount)
  <2> DEFINE bought == Bought(amount, reserve1, reserve2)
  <2>1. bought \in Nat /\ bought < reserve2
    BY <1>2, PriceBelow
  <2>2. /\ reserve1' = reserve1 + amount /\ reserve2' = reserve2 - bought
        /\ UNCHANGED supply
    BY <1>3 DEF SwapToken1, lpToken
  <2>3. bought \in 0..reserve2
    BY <1>2, <2>1
  <2>4. reserve1 * reserve2 <= (reserve1 + amount) * (reserve2 - bought)
    BY <1>2, <2>3, SwapKeepsProduct
  <2> QED
    BY <1>2, <2>2, <2>4, ProductKept
<1>4. CASE SwapToken2(amount, fee, attached)
  <2> DEFINE bought == Bought(amount, reserve2, reserve1)
  <2>1. bought \in Nat /\ bought < reserve1
    BY <1>2, PriceBelow
  <2>2. /\ reserve2' = reserve2 + amount /\ reserve1' = reserve1 - bought
        /\ UNCHANGED supply
    BY <1>4 DEF SwapToken2, lpToken
  <2>3. bought \in 0..reserve1
    BY <1>2, <2>1
  <2>4. reserve2 * reserve1 <= (reserve2 + amount) * (reserve1 - bought)
    BY <1>2, <2>3, SwapKeepsProduct
  <2>5. /\ reserve1 * reserve2 = reserve2 * reserve1
        /\ reserve1' * reserve2' = reserve2' * reserve1'
    BY <1>2
  <2> HIDE DEF bought
  <2>6. reserve2' * reserve1' = (reserve2 + amount) * (reserve1 - bought)
    BY <2>2
  <2>7. reserve1 * reserve2 <= reserve1' * reserve2'
    BY <2>4, <2>5, <2>6
  <2> QED
    BY <1>2, <2>2, <2>7, ProductKept
<1> QED
  BY <1>3, <1>4

\* A burnt share is one fewer to share the reserves.
LEMMA BurnKept ==
    ASSUME PoolInv, NEW s \in Accounts, NEW amount \in Nat, BurnShares(s, amount)
    PROVE  ShareValueKept
<1> DEFINE product == reserve1 * reserve2
<1>1. /\ reserve1 \in Nat /\ reserve2 \in Nat /\ product \in Nat /\ supply \in Nat
      /\ UNCHANGED <<reserve1, reserve2>>
      /\ supply' \in Nat /\ supply' <= supply
  BY ProductNat DEF PoolInv, PoolTyped, BurnShares
<1>2. reserve1' * reserve2' = product
  BY <1>1
<1> HIDE DEF product
<1>3. product * supply' <= product * supply
  <2>1. product <= product
    BY <1>1
  <2> QED
    BY <1>1, <2>1, ProductsOrdered
<1>4. product * supply' \in Nat /\ product * supply \in Nat
  BY <1>1, ProductNat
<1>5. product * supply' * supply' <= product * supply * supply
  BY <1>1, <1>3, <1>4, ProductsOrdered
<1>6. reserve1 * reserve2 * supply' * supply'
        <= reserve1' * reserve2' * supply * supply
  BY <1>2, <1>5 DEF product
<1> QED
  BY <1>6 DEF ShareValueKept

LEMMA AddsKept ==
    ASSUME PoolInv, NEW s \in Accounts, NEW a \in Accounts, NEW amount \in Nat,
           NEW attached \in Nat, NEW new \in SwapConfigs,
           Adds(s, a, amount, attached, new)
    PROVE  ShareValueKept
<1>1. reserve1 \in Nat /\ reserve2 \in Nat
  BY DEF PoolInv, PoolTyped
<1>2. /\ UNCHANGED supply
      /\ reserve1' \in Nat /\ reserve1 <= reserve1'
      /\ reserve2' \in Nat /\ reserve2 <= reserve2'
  BY <1>1 DEF Adds, TransferShares, AddToken1, AddToken2, UpdateSwapConfig,
     SendToPool, poolVars, lpToken
<1>3. reserve1 * reserve2 <= reserve1' * reserve2'
  BY <1>1, <1>2, ProductsOrdered
<1> QED
  BY <1>2, <1>3, ProductKept

LEMMA ShareValueStep ==
    ASSUME PoolInv, PoolNext \/ BondingNext \/ UNCHANGED exchangeVars
    PROVE  ShareValueKept
<1> USE SwapAssumption DEF SwapAssumption
<1>1. CASE Deposits
  BY <1>1, DepositKept DEF Deposits
<1>2. CASE Removals
  BY <1>2, RemovalKept DEF Removals
<1>3. CASE Burns
  BY <1>3, BurnKept DEF Burns
<1>4. CASE Swaps
  <2>1. 0 \in Nat
    OBVIOUS
  <2> QED
    BY <1>4, <2>1, SwapKept DEF Swaps
<1>5. CASE Additions
  BY <1>5, AddsKept DEF Additions
<1> QED
  BY <1>1, <1>2, <1>3, <1>4, <1>5, PoolSteps

\* What a share stands for never falls, whatever is rounded and in which order
\* deposits, withdrawals and swaps come.
THEOREM ShareValueNeverFallsHolds == ExchangeSpec => ShareValueNeverFalls
<1>1. PoolInv /\ [PoolNext \/ BondingNext]_exchangeVars => [ShareValueKept]_exchangeVars
  BY ShareValueStep
<1> QED
  BY <1>1, PoolInvHolds, PTL DEF ExchangeSpec, ShareValueNeverFalls

===============================================================================
