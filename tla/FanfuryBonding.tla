---------------------------- MODULE FanfuryBonding ----------------------------
(***************************************************************************)
(* The fanfurybonding contract: promises of FURY that fall due after a     *)
(* time, up to an amount per day.  A native bonding sells them for USDC at *)
(* a discount of the price of the pool; the other kind is told by the pool *)
(* of deposits.  Several can be deployed, so the state is of each of them. *)
(*                                                                         *)
(* USDC only passes through to the treasury: senders attach what is due.   *)
(* The message update_owner saves the configuration as it is.              *)
(***************************************************************************)
EXTENDS FanfurySwap, SequencesExt

CONSTANTS
    Bondings,
    BondingOwner,   \* config.owner, which no message changes
    SomeTerms,      \* the terms update_config may save
    FirstTerms,
    Day,            \* 86400 seconds
    \* Bounds: the inputs that are enumerated, the bonds held at once, the
    \* FURY paid in for bonds, and the time.
    FundAmounts, MaxBonds, MaxFund, MaxTime

Terms == [lock : Nat, discount : 0..999, vesting : Nat]

ASSUME BondingAssumption ==
    /\ FirstTerms \in SomeTerms /\ SomeTerms \subseteq Terms
    /\ IsFiniteSet(SomeTerms)
    /\ Day \in Nat \ {0}
    /\ FundAmounts \cup {MaxBonds, MaxFund, MaxTime} \subseteq Nat

VARIABLES
    isNative,  \* CONFIG.is_native_bonding
    terms,     \* CONFIG: lock_seconds, discount and daily_vesting_amount
    enabled,   \* CONFIG.enabled
    cumulated, \* CONFIG.cumulated_amount
    today,     \* CONFIG.daily_current_bond_amount
    last,      \* CONFIG.last_timestamp
    bonds,     \* BONDING: the Vec of records of an account
    fund,      \* the FURY of the contract
    promised,  \* history: what bonds of an account promised, less what it got
    now        \* the time of the block, in seconds

limits == <<cumulated, today, last>>
bondVars == <<isNative, terms, enabled, limits, bonds, fund, promised, now>>

Bond == [amount : Nat, timestamp : Nat]

BondingInit ==
    /\ isNative \in [Bondings -> BOOLEAN]
    /\ terms = [c \in Bondings |-> FirstTerms]
    /\ enabled = [c \in Bondings |-> TRUE]
    /\ cumulated = [c \in Bondings |-> 0]
    /\ today = [c \in Bondings |-> 0]
    /\ last = [c \in Bondings |-> 0]
    /\ bonds = [c \in Bondings |-> [a \in Accounts |-> << >>]]
    /\ fund = [c \in Bondings |-> 0]
    /\ promised = [c \in Bondings |-> [a \in Accounts |-> 0]]
    /\ now = 0

-----------------------------------------------------------------------------
(***************************************************************************)
(* The daily limit.  The first bond of another day adds what was left of   *)
(* the day of the last bond to the cumulated amount, which bonds may then  *)
(* use on that and on every later day.                                     *)
(***************************************************************************)
IsNewDay(c) == now \div Day # last[c] \div Day

UnusedUnchecked(c) == terms[c].vesting - today[c]   \* mutant: may be negative
Unused(c) == IF today[c] <= terms[c].vesting THEN terms[c].vesting - today[c] ELSE 0
Cumulated(c) == cumulated[c] + (IF IsNewDay(c) THEN Unused(c) ELSE 0)
BondedToday(c) == IF IsNewDay(c) THEN 0 ELSE today[c]

WithinLimitOfOne(c, receiving) ==    \* mutant: compares each bond by itself
    receiving <= terms[c].vesting + Cumulated(c)
WithinLimit(c, receiving) ==
    BondedToday(c) + receiving <= terms[c].vesting + Cumulated(c)

CheckDailyVestingAmount(c, receiving) ==
    /\ WithinLimit(c, receiving)
    /\ cumulated' = [cumulated EXCEPT ![c] = Cumulated(c)]
    /\ today' = [today EXCEPT ![c] = BondedToday(c) + receiving]
    /\ last' = [last EXCEPT ![c] = now]

\* What a bond promises for an amount of FURY.
Receiving(c, amount) == (amount * 1000) \div (1000 - terms[c].discount)

Promise(c, a, receiving) ==
    /\ MapThenSumSet(LAMBDA b : Len(bonds[c][b]), Accounts) < MaxBonds
    /\ enabled[c]
    /\ CheckDailyVestingAmount(c, receiving)
    /\ bonds' = [bonds EXCEPT ![c][a] =
         Append(@, [amount |-> receiving, timestamp |-> now + terms[c].lock])]
    /\ promised' = [promised EXCEPT ![c][a] = @ + receiving]
    /\ UNCHANGED <<isNative, terms, enabled, fund, now>>

\* The message bond, at the price that the pool tells for an amount of USDC.
NativeBond(c, a, amount) ==
    /\ isNative[c]
    /\ Liquid
    /\ Promise(c, a, Receiving(c, Token1ForToken2Price(amount)))
    /\ UNCHANGED poolVars

\* The message lp_bond, which only the pool may send.
LpBond(c, a, amount) ==
    /\ c \in Bondings
    /\ ~isNative[c]
    /\ amount # 0
    /\ Promise(c, a, Receiving(c, amount))

-----------------------------------------------------------------------------
IsDue(bond) == bond.timestamp <= now
IsKeptYet(bond) == bond.timestamp >= now     \* mutant: keeps what is just due
IsKept(bond) == bond.timestamp > now

AmountDue(list) ==
    SumFunction([i \in DOMAIN list |-> IF IsDue(list[i]) THEN list[i].amount ELSE 0])
Kept(list) ==
    FoldLeft(LAMBDA kept, bond : IF IsKept(bond) THEN Append(kept, bond) ELSE kept,
             << >>, list)

\* The fee is told in USDC by the pool, which knows no price when it is empty.
Unbond(c, a) ==
    /\ enabled[c]
    /\ Liquid
    /\ LET due == AmountDue(bonds[c][a])
       IN  /\ due # 0
           /\ due <= fund[c]
           /\ fund' = [fund EXCEPT ![c] = @ - due]
           /\ promised' = [promised EXCEPT ![c][a] = @ - due]
    /\ bonds' = [bonds EXCEPT ![c][a] = Kept(@)]
    /\ UNCHANGED <<isNative, terms, enabled, limits, now, poolVars>>

\* The owner takes FURY out, whatever has been promised.
Withdraw(c, s, amount) ==
    /\ s = BondingOwner
    /\ amount \in 1..fund[c]
    /\ fund' = [fund EXCEPT ![c] = @ - amount]
    /\ UNCHANGED <<isNative, terms, enabled, limits, bonds, promised, now, poolVars>>

UpdateEnabled(c, s, new) ==
    /\ s = BondingOwner
    /\ enabled' = [enabled EXCEPT ![c] = new]
    /\ UNCHANGED <<isNative, terms, limits, bonds, fund, promised, now, poolVars>>

UpdateTerms(c, s, new) ==
    /\ s = BondingOwner
    /\ terms' = [terms EXCEPT ![c] = new]
    /\ UNCHANGED <<isNative, enabled, limits, bonds, fund, promised, now, poolVars>>

\* The environment: someone sends FURY to the contract, and time passes.
Fund(c, amount) ==
    /\ fund[c] + amount <= MaxFund
    /\ fund' = [fund EXCEPT ![c] = @ + amount]
    /\ UNCHANGED <<isNative, terms, enabled, limits, bonds, promised, now, poolVars>>

NextBlock ==
    /\ now < MaxTime
    /\ now' = now + 1
    /\ UNCHANGED <<isNative, terms, enabled, limits, bonds, fund, promised, poolVars>>

===============================================================================
