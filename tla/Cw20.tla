-------------------------------- MODULE Cw20 --------------------------------
(***************************************************************************)
(* The cw20-base contract: the token that FURY and the liquidity token     *)
(* are.  Accounts hold balances, a minter may issue tokens up to a cap,    *)
(* and owners allow spenders to move their tokens until a time.            *)
(*                                                                         *)
(* An expiration is a block time or Never; block heights behave alike.     *)
(* What a contract does when tokens are sent to it is not part of the      *)
(* token: the messages it sends in turn are steps of their own here.       *)
(***************************************************************************)
EXTENDS Integers, FiniteSetsExt, Functions

CONSTANTS
    Accounts,
    Contracts,        \* the accounts that can receive a Send
    NoMinter, NoCap,  \* None in TokenInfo.mint and in MinterData.cap
    NoEntry,          \* no entry in a map of allowances
    Never,            \* Expiration::Never
    NotGiven,         \* no expiration in a message
    \* Bounds: the inputs that are enumerated, and the supply, the allowance
    \* and the time up to which messages are sent.
    InitialAmounts, Caps, Amounts, Grants, Times,
    MaxSupply, MaxAllowance, MaxTime

ASSUME Cw20Assumption ==
    /\ Contracts \subseteq Accounts /\ IsFiniteSet(Accounts)
    /\ Grants \subseteq Accounts \X Accounts
    /\ InitialAmounts \cup Amounts \cup Times \subseteq Nat
    /\ {MaxSupply, MaxAllowance, MaxTime} \subseteq Nat
    /\ Caps \subseteq Nat \cup {NoCap}
    /\ NoCap \notin Nat
    /\ Never \notin Nat
    /\ NotGiven \notin Nat \cup {Never}

VARIABLES
    balances,     \* BALANCES
    total_supply, \* TOKEN_INFO.total_supply
    mint,         \* TOKEN_INFO.mint
    allowances,   \* ALLOWANCES: of an owner and a spender
    spenders,     \* ALLOWANCES_SPENDER: of a spender and an owner
    now,          \* the time of the block
    sender        \* history: the sender of the last message

ledger == <<balances, total_supply>>
permits == <<allowances, spenders>>
tokenVars == <<ledger, mint, permits, now, sender>>

Allowance == [amount : Nat, expires : Nat \cup {Never}]
MinterData == [minter : Accounts, cap : Nat \cup {NoCap}]
Total(amounts) == FoldFunction(+, 0, amounts)

\* instantiate: any balances, and a minter whose cap they do not exceed.
TokenInit ==
    /\ balances \in [Accounts -> InitialAmounts]
    /\ total_supply = Total(balances)
    /\ mint \in {NoMinter} \cup
         {m \in [minter : Accounts, cap : Caps] :
            m.cap # NoCap => total_supply <= m.cap}
    /\ allowances = [o \in Accounts |-> [s \in Accounts |-> NoEntry]]
    /\ spenders = allowances
    /\ now = 0
    /\ sender \in Accounts

-----------------------------------------------------------------------------
(***************************************************************************)
(* Tokens move in two updates: the second reads what the first has saved,  *)
(* so that a transfer to oneself changes nothing.                          *)
(***************************************************************************)
MovedAtOnce(from, to, amount) ==      \* mutant: reads both balances first
    [balances EXCEPT ![from] = balances[from] - amount,
                     ![to] = balances[to] + amount]
Moved(from, to, amount) ==
    [[balances EXCEPT ![from] = @ - amount] EXCEPT ![to] = @ + amount]

Transfer(s, recipient, amount) ==
    /\ amount # 0
    /\ amount <= balances[s]
    /\ balances' = Moved(s, recipient, amount)
    /\ sender' = s
    /\ UNCHANGED <<total_supply, mint, permits, now>>

\* A Send is a transfer that the receiving contract is told of.
Send(s, contract, amount) ==
    /\ contract \in Contracts
    /\ Transfer(s, contract, amount)

BurntUnchecked(owner, amount) ==      \* mutant: does not look at the balance
    /\ amount <= total_supply
    /\ balances' = [balances EXCEPT ![owner] = @ - amount]
    /\ total_supply' = total_supply - amount
BurntUncounted(owner, amount) ==      \* mutant: leaves the supply as it is
    /\ amount <= balances[owner]
    /\ amount <= total_supply
    /\ balances' = [balances EXCEPT ![owner] = @ - amount]
    /\ UNCHANGED total_supply
Burnt(owner, amount) ==
    /\ amount <= balances[owner]
    /\ amount <= total_supply
    /\ balances' = [balances EXCEPT ![owner] = @ - amount]
    /\ total_supply' = total_supply - amount

Burn(s, amount) ==
    /\ amount # 0
    /\ Burnt(s, amount)
    /\ sender' = s
    /\ UNCHANGED <<mint, permits, now>>

WithinCapBefore(m, amount) ==         \* mutant: looks at the supply before
    m.cap # NoCap => total_supply <= m.cap
WithinCap(m, amount) == m.cap # NoCap => total_supply + amount <= m.cap

Mint(s, recipient, amount) ==
    /\ amount # 0
    /\ mint # NoMinter
    /\ mint.minter = s
    /\ WithinCap(mint, amount)
    /\ total_supply + amount <= MaxSupply
    /\ total_supply' = total_supply + amount
    /\ balances' = [balances EXCEPT ![recipient] = @ + amount]
    /\ sender' = s
    /\ UNCHANGED <<mint, permits, now>>

WithMinterAnew(m, new) ==             \* mutant: forgets the cap
    [minter |-> new, cap |-> NoCap]
WithMinter(m, new) == [m EXCEPT !.minter = new]

\* The minter names another one, or none for ever.
UpdateMinter(s, new) ==
    /\ mint # NoMinter
    /\ mint.minter = s
    /\ mint' = IF new = NoMinter THEN NoMinter ELSE WithMinter(mint, new)
    /\ sender' = s
    /\ UNCHANGED <<ledger, permits, now>>

-----------------------------------------------------------------------------
(***************************************************************************)
(* Allowances.  What is left of an expired allowance stays in its entry    *)
(* and counts again when the owner raises it with a later expiration.      *)
(***************************************************************************)
Expired(entry) == entry.expires # Never /\ now >= entry.expires

GivenOr(expires, old) == IF expires = NotGiven THEN old ELSE expires

Increased(entry, amount, expires) ==
    LET old == IF entry = NoEntry THEN [amount |-> 0, expires |-> Never]
                                  ELSE entry
    IN  [amount |-> old.amount + amount, expires |-> GivenOr(expires, old.expires)]

WithinBound(entry, amount) ==
    amount + (IF entry = NoEntry THEN 0 ELSE entry.amount) <= MaxAllowance

IncreaseAllowance(o, s, amount, expires) ==
    /\ o # s
    /\ WithinBound(allowances[o][s], amount)
    /\ allowances' = [allowances EXCEPT ![o][s] = Increased(@, amount, expires)]
    /\ spenders' = [spenders EXCEPT ![s][o] = Increased(@, amount, expires)]
    /\ sender' = o
    /\ UNCHANGED <<ledger, mint, now>>

\* An allowance that is lowered to nothing is removed.
Decreased(entry, amount, expires) ==
    IF amount < entry.amount
    THEN [amount |-> entry.amount - amount, expires |-> GivenOr(expires, entry.expires)]
    ELSE NoEntry

DecreaseAllowance(o, s, amount, expires) ==
    /\ o # s
    /\ allowances[o][s] # NoEntry
    /\ LET entry == Decreased(allowances[o][s], amount, expires)
       IN  /\ allowances' = [allowances EXCEPT ![o][s] = entry]
           /\ spenders' = [spenders EXCEPT ![s][o] = entry]
    /\ sender' = o
    /\ UNCHANGED <<ledger, mint, now>>

MaySpendExpired(entry, amount) ==     \* mutant: does not look at the time
    entry # NoEntry /\ amount <= entry.amount
MaySpend(entry, amount) ==
    /\ entry # NoEntry
    /\ ~Expired(entry)
    /\ amount <= entry.amount

\* deduct_allowance updates each map from its own entry.
LessOwnersOnly(o, s, amount) ==       \* mutant: leaves the second map
    /\ MaySpend(allowances[o][s], amount)
    /\ allowances' = [allowances EXCEPT ![o][s].amount = @ - amount]
    /\ UNCHANGED spenders
DeductAllowance(o, s, amount) ==
    /\ MaySpend(allowances[o][s], amount)
    /\ MaySpend(spenders[s][o], amount)
    /\ allowances' = [allowances EXCEPT ![o][s].amount = @ - amount]
    /\ spenders' = [spenders EXCEPT ![s][o].amount = @ - amount]

\* Unlike Transfer and Burn these take an amount of zero.
TransferFrom(s, o, recipient, amount) ==
    /\ DeductAllowance(o, s, amount)
    /\ amount <= balances[o]
    /\ balances' = Moved(o, recipient, amount)
    /\ sender' = s
    /\ UNCHANGED <<total_supply, mint, now>>

BurnFrom(s, o, amount) ==
    /\ DeductAllowance(o, s, amount)
    /\ Burnt(o, amount)
    /\ sender' = s
    /\ UNCHANGED <<mint, now>>

SendFrom(s, o, contract, amount) ==
    /\ contract \in Contracts
    /\ TransferFrom(s, o, contract, amount)

\* The environment: blocks have later and later times.
NextBlock ==
    /\ now < MaxTime
    /\ now' = now + 1
    /\ UNCHANGED <<ledger, mint, permits, sender>>

-----------------------------------------------------------------------------
TokenNext ==
    \/ \E s \in Accounts, a \in Accounts, amount \in Amounts :
          \/ Transfer(s, a, amount)
          \/ Send(s, a, amount)
          \/ Mint(s, a, amount)
    \/ \E s \in Accounts, amount \in Amounts : Burn(s, amount)
    \/ \E s \in Accounts, new \in Accounts \cup {NoMinter} : UpdateMinter(s, new)
    \/ \E grant \in Grants, amount \in Amounts :
          \/ \E expires \in Times \cup {Never, NotGiven} :
                \/ IncreaseAllowance(grant[1], grant[2], amount, expires)
                \/ DecreaseAllowance(grant[1], grant[2], amount, expires)
          \/ \E a \in Accounts :
                \/ TransferFrom(grant[2], grant[1], a, amount)
                \/ SendFrom(grant[2], grant[1], a, amount)
          \/ BurnFrom(grant[2], grant[1], amount)
    \/ NextBlock

TokenSpec == TokenInit /\ [][TokenNext]_tokenVars

-----------------------------------------------------------------------------
(***************************************************************************)
(* Properties.                                                             *)
(***************************************************************************)

\* The state has its types: no balance, supply or allowance is ever negative.
TokenTypeOK ==
    /\ balances \in [Accounts -> Nat]
    /\ total_supply \in Nat
    /\ mint \in {NoMinter} \cup MinterData
    /\ allowances \in [Accounts -> [Accounts -> {NoEntry} \cup Allowance]]
    /\ spenders \in [Accounts -> [Accounts -> {NoEntry} \cup Allowance]]
    /\ now \in Nat
    /\ sender \in Accounts

\* The supply, which is stored apart from the balances and which the swap
\* contract divides by, is their sum, whoever moves, issues or burns tokens, and
\* be it to themselves.
SupplyIsSumOfBalances == total_supply = Total(balances)

\* ALLOWANCES_SPENDER is ALLOWANCES with its keys swapped, although the two are
\* updated one after the other, each from its own entry, by five messages.
AllowancesMirrored ==
    \A o, s \in Accounts : allowances[o][s] = spenders[s][o]

\* As long as there is a minter with a cap the supply is within it, through
\* tokens that are burnt and issued again and minters that name others.
SupplyWithinCap ==
    mint # NoMinter /\ mint.cap # NoCap => total_supply <= mint.cap

\* The right to issue tokens is only handed on as it is, by the minter, or
\* given up; without a minter the supply never grows again.
MintRightKept ==
    /\ mint' # mint => /\ mint # NoMinter
                       /\ sender' = mint.minter
                       /\ mint' # NoMinter => mint'.cap = mint.cap
    /\ total_supply' > total_supply => mint # NoMinter /\ sender' = mint.minter
MintRightOnlyHandedOn == [][MintRightKept]_tokenVars

\* The balance of an account falls only by a message of its own, or of one whose
\* allowance had not expired and fell by the very same amount.
DebitAuthorised(o) ==
    balances'[o] < balances[o] =>
       \/ sender' = o
       \/ /\ allowances[o][sender'] # NoEntry
          /\ ~Expired(allowances[o][sender'])
          /\ allowances[o][sender'].amount - allowances'[o][sender'].amount
               = balances[o] - balances'[o]
DebitsAuthorised == [][\A o \in Accounts : DebitAuthorised(o)]_tokenVars

Tokens == INSTANCE Ledger WITH held <- balances, issued <- total_supply

\* The contract implements a ledger: through transfers to others and to oneself,
\* by owners and by spenders, and through issues and burns of any amount,
\* nothing appears or disappears in an account that is not issued, burnt or
\* taken from another, and the supply is told of all that is.
LedgerImplemented == Tokens!LedgerSpec

===============================================================================
