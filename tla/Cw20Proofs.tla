------------------------------ MODULE Cw20Proofs ------------------------------
(***************************************************************************)
(* Proofs about the token, for any accounts, caps, amounts and grants, and *)
(* about what it tells wallets: the lists of allowances, for any pages,    *)
(* and the logo, for any texts and pictures.                               *)
(***************************************************************************)
EXTENDS Cw20Lists, Cw20Marketing, Sums

\* The inductive invariant.  The second map of allowances is updated from its
\* own entries, so its type and that it mirrors the first go together.
TokenInv == TokenTypeOK /\ AllowancesMirrored /\ SupplyWithinCap

\* An entry of a map of allowances.
Entry == {NoEntry} \cup Allowance

-----------------------------------------------------------------------------
\* Moving tokens keeps the balances natural, and takes the amount from the
\* account it names and from no other.
LEMMA MovedBalances ==
    ASSUME balances \in [Accounts -> Nat], NEW from \in Accounts,
           NEW to \in Accounts, NEW amount \in Nat, amount <= balances[from]
    PROVE  /\ Moved(from, to, amount) \in [Accounts -> Nat]
           /\ \A o \in Accounts : Moved(from, to, amount)[o] < balances[o] =>
                 o = from /\ amount = balances[o] - Moved(from, to, amount)[o]
<1> DEFINE taken == [balances EXCEPT ![from] = @ - amount]
<1>1. taken \in [Accounts -> Nat] /\ Moved(from, to, amount) = [taken EXCEPT ![to] = @ + amount]
  BY DEF Moved
<1>2. Moved(from, to, amount) \in [Accounts -> Nat]
  BY <1>1
<1>3. ASSUME NEW o \in Accounts, Moved(from, to, amount)[o] < balances[o]
      PROVE  o = from /\ amount = balances[o] - Moved(from, to, amount)[o]
  <2>1. taken[o] = IF o = from THEN balances[o] - amount ELSE balances[o]
    OBVIOUS
  <2>2. Moved(from, to, amount)[o] = IF o = to THEN taken[o] + amount ELSE taken[o]
    BY <1>1
  <2>3. taken[o] \in Nat /\ balances[o] \in Nat
    BY <1>1
  <2> HIDE DEF taken
  <2> QED
    BY <1>3, <2>1, <2>2, <2>3
<1> QED
  BY <1>2, <1>3

\* What a message makes of an entry is an entry.
LEMMA EntriesTyped ==
    ASSUME NEW entry \in Entry, NEW amount \in Nat,
           NEW expires \in Nat \cup {Never, NotGiven}
    PROVE  /\ Increased(entry, amount, expires) \in Allowance
           /\ entry # NoEntry => Decreased(entry, amount, expires) \in Entry
           /\ MaySpend(entry, amount) =>
                [entry EXCEPT !.amount = @ - amount] \in Allowance
<1>1. Increased(entry, amount, expires) \in Allowance
  BY DEF Increased, GivenOr, Entry, Allowance
<1>2. ASSUME entry # NoEntry PROVE Decreased(entry, amount, expires) \in Entry
  BY <1>2 DEF Decreased, GivenOr, Entry, Allowance
<1>3. ASSUME MaySpend(entry, amount)
      PROVE  [entry EXCEPT !.amount = @ - amount] \in Allowance
  BY <1>3 DEF MaySpend, Entry, Allowance
<1> QED
  BY <1>1, <1>2, <1>3

-----------------------------------------------------------------------------
\* The parts of the invariant that a message about allowances touches.
PermitsInv ==
    /\ allowances \in [Accounts -> [Accounts -> Entry]]
    /\ spenders \in [Accounts -> [Accounts -> Entry]]
    /\ AllowancesMirrored

\* Writing the same entry into both maps keeps them typed and mirrored.
LEMMA PermitsWritten ==
    ASSUME PermitsInv, NEW o \in Accounts, NEW s \in Accounts, NEW e \in Entry,
           allowances' = [allowances EXCEPT ![o][s] = e],
           spenders' = [spenders EXCEPT ![s][o] = e]
    PROVE  PermitsInv'
<1>1. /\ allowances' \in [Accounts -> [Accounts -> Entry]]
      /\ spenders' \in [Accounts -> [Accounts -> Entry]]
  BY DEF PermitsInv
<1>2. ASSUME NEW p \in Accounts, NEW q \in Accounts
      PROVE  allowances'[p][q] = spenders'[q][p]
  <2>1. allowances'[p][q] = IF p = o /\ q = s THEN e ELSE allowances[p][q]
    BY DEF PermitsInv
  <2>2. spenders'[q][p] = IF p = o /\ q = s THEN e ELSE spenders[q][p]
    BY DEF PermitsInv
  <2> QED
    BY <2>1, <2>2 DEF PermitsInv, AllowancesMirrored
<1> QED
  BY <1>1, <1>2 DEF PermitsInv, AllowancesMirrored

LEMMA PermitsDeducted ==
    ASSUME PermitsInv, NEW o \in Accounts, NEW s \in Accounts, NEW amount \in Nat,
           DeductAllowance(o, s, amount)
    PROVE  PermitsInv' /\ allowances[o][s] # NoEntry /\ ~Expired(allowances[o][s])
             /\ amount = allowances[o][s].amount - allowances'[o][s].amount
<1> DEFINE old == allowances[o][s]
           new == [old EXCEPT !.amount = @ - amount]
<1>1. old \in Entry /\ spenders[s][o] = old /\ MaySpend(old, amount)
  BY DEF PermitsInv, AllowancesMirrored, DeductAllowance
<1>2. old \in Allowance
  BY <1>1 DEF MaySpend, Entry
<1>3. new \in Allowance /\ new.amount = old.amount - amount
  BY <1>2, <1>1 DEF Allowance, MaySpend
<1>4. /\ allowances' = [allowances EXCEPT ![o][s] = new]
      /\ spenders' = [spenders EXCEPT ![s][o] = new]
  BY <1>1 DEF DeductAllowance, PermitsInv
<1>5. allowances'[o][s] = new
  BY <1>4 DEF PermitsInv
<1>6. old.amount \in Nat
  BY <1>2 DEF Allowance
<1> HIDE DEF new
<1>7. PermitsInv'
  BY <1>3, <1>4, PermitsWritten DEF Entry
<1> QED
  BY <1>1, <1>3, <1>5, <1>6, <1>7 DEF MaySpend

-----------------------------------------------------------------------------
\* What the properties say of a step, but for the right to issue tokens of
\* the next state.
StepKept == TokenInv' /\ MintRightKept /\ \A o \in Accounts : DebitAuthorised(o)

\* The steps below deal with one group of messages each.
LEMMA PermitsFromInv == TokenInv => PermitsInv
BY DEF TokenInv, TokenTypeOK, PermitsInv, Entry

LEMMA InvFromPermits ==
    ASSUME PermitsInv', balances' \in [Accounts -> Nat], total_supply' \in Nat,
           mint' \in {NoMinter} \cup MinterData, now' \in Nat,
           sender' \in Accounts, SupplyWithinCap'
    PROVE  TokenInv'
BY DEF TokenInv, TokenTypeOK, PermitsInv, Entry

\* Messages by which the owner of tokens or the minter acts.
LEMMA OwnStep ==
    ASSUME TokenInv, NEW s \in Accounts, NEW a \in Accounts,
           NEW amount \in Nat, NEW new \in Accounts \cup {NoMinter},
           Transfer(s, a, amount) \/ Mint(s, a, amount) \/ Burn(s, amount)
             \/ UpdateMinter(s, new)
    PROVE  StepKept
<1> USE DEF TokenInv, TokenTypeOK
<1>p. UNCHANGED permits => PermitsInv'
  BY PermitsFromInv DEF permits, PermitsInv, AllowancesMirrored
<1>1. CASE Transfer(s, a, amount)
  <2>1. balances' \in [Accounts -> Nat]
    BY <1>1, MovedBalances DEF Transfer
  <2>2. \A o \in Accounts : DebitAuthorised(o)
    BY <1>1, MovedBalances DEF Transfer, DebitAuthorised
  <2>3. TokenInv' /\ MintRightKept
    BY <1>1, <1>p, <2>1, InvFromPermits DEF Transfer, MintRightKept, SupplyWithinCap
  <2> QED
    BY <2>2, <2>3 DEF StepKept
<1>2. CASE Mint(s, a, amount)
  <2>1. balances' \in [Accounts -> Nat] /\ total_supply' \in Nat
    BY <1>2 DEF Mint
  <2>2. \A o \in Accounts : DebitAuthorised(o)
    BY <1>2 DEF Mint, DebitAuthorised
  <2>3. SupplyWithinCap'
    BY <1>2 DEF Mint, WithinCap, SupplyWithinCap
  <2>4. TokenInv' /\ MintRightKept
    BY <1>2, <1>p, <2>1, <2>3, InvFromPermits DEF Mint, MintRightKept
  <2> QED
    BY <2>2, <2>4 DEF StepKept
<1>3. CASE Burn(s, amount)
  <2>1. /\ balances' \in [Accounts -> Nat]
        /\ total_supply' \in Nat /\ total_supply' <= total_supply
    BY <1>3 DEF Burn, Burnt
  <2>2. \A o \in Accounts : DebitAuthorised(o)
    BY <1>3 DEF Burn, Burnt, DebitAuthorised
  <2>3. SupplyWithinCap'
    BY <1>3, <2>1 DEF Burn, SupplyWithinCap, MinterData
  <2>4. TokenInv' /\ MintRightKept
    BY <1>3, <1>p, <2>1, <2>3, InvFromPermits DEF Burn, MintRightKept
  <2> QED
    BY <2>2, <2>4 DEF StepKept
<1>4. CASE UpdateMinter(s, new)
  <2>1. mint' # NoMinter => mint' \in MinterData /\ mint'.cap = mint.cap
    BY <1>4 DEF UpdateMinter, WithMinter, MinterData
  <2>2. balances' = balances /\ total_supply' = total_supply
    BY <1>4 DEF UpdateMinter, ledger
  <2>3. SupplyWithinCap'
    BY <1>4, <2>1, <2>2 DEF UpdateMinter, SupplyWithinCap
  <2>4. TokenInv'
    BY <1>4, <1>p, <2>1, <2>2, <2>3, InvFromPermits DEF UpdateMinter
  <2>5. MintRightKept
    BY <1>4, <2>1, <2>2 DEF UpdateMinter, MintRightKept
  <2>6. \A o \in Accounts : DebitAuthorised(o)
    BY <2>2 DEF DebitAuthorised
  <2> QED
    BY <2>4, <2>5, <2>6 DEF StepKept
<1> QED
  BY <1>1, <1>2, <1>3, <1>4

\* Messages by which owners raise and lower allowances.
LEMMA GrantStep ==
    ASSUME Cw20Assumption, TokenInv, NEW o \in Accounts, NEW s \in Accounts,
           NEW amount \in Amounts, NEW expires \in Times \cup {Never, NotGiven},
           \/ IncreaseAllowance(o, s, amount, expires)
           \/ DecreaseAllowance(o, s, amount, expires)
    PROVE  StepKept
<1>0. amount \in Nat /\ expires \in Nat \cup {Never, NotGiven}
  BY DEF Cw20Assumption
<1>1. PermitsInv /\ allowances[o][s] = spenders[s][o] /\ allowances[o][s] \in Entry
  BY PermitsFromInv DEF PermitsInv, AllowancesMirrored
<1>2. PermitsInv'
  <2>1. CASE IncreaseAllowance(o, s, amount, expires)
    <3> DEFINE e == Increased(allowances[o][s], amount, expires)
    <3>1. e \in Entry
      BY <1>0, <1>1, EntriesTyped DEF Entry
    <3>2. /\ allowances' = [allowances EXCEPT ![o][s] = e]
          /\ spenders' = [spenders EXCEPT ![s][o] = e]
      BY <1>1, <2>1 DEF IncreaseAllowance, PermitsInv
    <3> HIDE DEF e
    <3> QED
      BY <1>1, <3>1, <3>2, PermitsWritten
  <2>2. CASE DecreaseAllowance(o, s, amount, expires)
    <3> DEFINE e == Decreased(allowances[o][s], amount, expires)
    <3>1. e \in Entry
      BY <1>0, <1>1, <2>2, EntriesTyped DEF DecreaseAllowance
    <3>2. /\ allowances' = [allowances EXCEPT ![o][s] = e]
          /\ spenders' = [spenders EXCEPT ![s][o] = e]
      BY <2>2 DEF DecreaseAllowance
    <3> HIDE DEF e
    <3> QED
      BY <1>1, <3>1, <3>2, PermitsWritten
  <2> QED
    BY <2>1, <2>2
<1>3. UNCHANGED <<balances, total_supply, mint, now>> /\ sender' = o
  BY DEF IncreaseAllowance, DecreaseAllowance, ledger
<1>4. TokenInv'
  BY <1>2, <1>3, InvFromPermits DEF TokenInv, TokenTypeOK, SupplyWithinCap
<1>5. MintRightKept /\ \A p \in Accounts : DebitAuthorised(p)
  BY <1>3 DEF MintRightKept, DebitAuthorised, TokenInv, TokenTypeOK
<1> QED
  BY <1>4, <1>5 DEF StepKept

\* Messages by which spenders use their allowances.
LEMMA SpendStep ==
    ASSUME Cw20Assumption, TokenInv, NEW s \in Accounts, NEW o \in Accounts,
           NEW a \in Accounts, NEW amount \in Amounts,
           TransferFrom(s, o, a, amount) \/ BurnFrom(s, o, amount)
    PROVE  StepKept
<1>0. amount \in Nat /\ balances \in [Accounts -> Nat] /\ total_supply \in Nat
  BY DEF Cw20Assumption, TokenInv, TokenTypeOK
<1>1. /\ PermitsInv'
      /\ allowances[o][s] # NoEntry /\ ~Expired(allowances[o][s])
      /\ amount = allowances[o][s].amount - allowances'[o][s].amount
  BY <1>0, PermitsFromInv, PermitsDeducted DEF TransferFrom, BurnFrom
<1>2. UNCHANGED <<mint, now>> /\ sender' = s
  BY DEF TransferFrom, BurnFrom
<1>3. /\ balances' \in [Accounts -> Nat]
      /\ total_supply' \in Nat /\ total_supply' <= total_supply
      /\ \A p \in Accounts : balances'[p] < balances[p] =>
           p = o /\ amount = balances[p] - balances'[p]
  <2>1. CASE TransferFrom(s, o, a, amount)
    BY <1>0, <2>1, MovedBalances DEF TransferFrom
  <2>2. CASE BurnFrom(s, o, amount)
    <3>1. /\ balances' = [balances EXCEPT ![o] = @ - amount]
          /\ amount <= balances[o] /\ amount <= total_supply
          /\ total_supply' = total_supply - amount
      BY <2>2 DEF BurnFrom, Burnt
    <3>2. balances' \in [Accounts -> Nat]
      BY <1>0, <3>1
    <3>3. \A p \in Accounts :
             balances'[p] = IF p = o THEN balances[p] - amount ELSE balances[p]
      BY <1>0, <3>1
    <3>4. balances[o] \in Nat
      BY <1>0
    <3>5. ASSUME NEW p \in Accounts, balances'[p] < balances[p]
          PROVE  p = o /\ amount = balances[p] - balances'[p]
      BY <1>0, <3>3, <3>4, <3>5
    <3> QED
      BY <1>0, <3>1, <3>2, <3>5
  <2> QED
    BY <2>1, <2>2
<1>4. SupplyWithinCap'
  BY <1>0, <1>2, <1>3 DEF TokenInv, TokenTypeOK, SupplyWithinCap, MinterData
<1>5. TokenInv'
  BY <1>1, <1>2, <1>3, <1>4, InvFromPermits DEF TokenInv, TokenTypeOK
<1>6. MintRightKept
  BY <1>0, <1>2, <1>3 DEF MintRightKept
<1>7. \A p \in Accounts : DebitAuthorised(p)
  BY <1>1, <1>2, <1>3 DEF DebitAuthorised
<1> QED
  BY <1>5, <1>6, <1>7 DEF StepKept

LEMMA TokenStep ==
    ASSUME Cw20Assumption, TokenInv, TokenNext
    PROVE  StepKept
<1> USE DEF Cw20Assumption
<1>1. \/ \E s \in Accounts, a \in Accounts, amount \in Amounts :
           Transfer(s, a, amount) \/ Send(s, a, amount) \/ Mint(s, a, amount)
      \/ \E s \in Accounts, amount \in Amounts : Burn(s, amount)
      \/ \E s \in Accounts, new \in Accounts \cup {NoMinter} : UpdateMinter(s, new)
      \/ \E grant \in Grants, amount \in Amounts,
            expires \in Times \cup {Never, NotGiven} :
           \/ IncreaseAllowance(grant[1], grant[2], amount, expires)
           \/ DecreaseAllowance(grant[1], grant[2], amount, expires)
      \/ \E grant \in Grants, amount \in Amounts, a \in Accounts :
           \/ TransferFrom(grant[2], grant[1], a, amount)
           \/ SendFrom(grant[2], grant[1], a, amount)
      \/ \E grant \in Grants, amount \in Amounts : BurnFrom(grant[2], grant[1], amount)
      \/ NextBlock
  BY DEF TokenNext
<1>2. CASE \E s \in Accounts, a \in Accounts, amount \in Amounts :
             Transfer(s, a, amount) \/ Send(s, a, amount) \/ Mint(s, a, amount)
  BY <1>2, OwnStep DEF Send
<1>3. CASE \E s \in Accounts, amount \in Amounts : Burn(s, amount)
  BY <1>3, OwnStep
<1>4. CASE \E s \in Accounts, new \in Accounts \cup {NoMinter} : UpdateMinter(s, new)
  <2>1. 0 \in Nat
    OBVIOUS
  <2> QED
    BY <1>4, <2>1, OwnStep
<1>5. CASE \E grant \in Grants, amount \in Amounts,
              expires \in Times \cup {Never, NotGiven} :
             \/ IncreaseAllowance(grant[1], grant[2], amount, expires)
             \/ DecreaseAllowance(grant[1], grant[2], amount, expires)
  BY <1>5, GrantStep
<1>6. CASE \E grant \in Grants, amount \in Amounts, a \in Accounts :
             \/ TransferFrom(grant[2], grant[1], a, amount)
             \/ SendFrom(grant[2], grant[1], a, amount)
  BY <1>6, SpendStep DEF SendFrom
<1>7. CASE \E grant \in Grants, amount \in Amounts :
             BurnFrom(grant[2], grant[1], amount)
  BY <1>7, SpendStep
<1>8. CASE NextBlock
  BY <1>8 DEF NextBlock, StepKept, TokenInv, TokenTypeOK, AllowancesMirrored,
     SupplyWithinCap, MintRightKept, DebitAuthorised, ledger, permits
<1> QED
  BY <1>1, <1>2, <1>3, <1>4, <1>5, <1>6, <1>7, <1>8

\* The balances a token is instantiated with have a total.
LEMMA TotalIsSum ==
    ASSUME NEW amounts \in [Accounts -> Nat]
    PROVE  Total(amounts) = SumFunctionOnSet(amounts, Accounts)
BY DEF Total, FoldFunction, SumFunctionOnSet

LEMMA TotalIsNatural ==
    ASSUME Cw20Assumption, NEW amounts \in [Accounts -> Nat]
    PROVE  Total(amounts) \in Nat
<1>1. \A a \in Accounts : amounts[a] \in Nat
  OBVIOUS
<1> QED
  BY <1>1, TotalIsSum, SumIsNatural DEF Cw20Assumption

LEMMA TokenStutter ==
    ASSUME TokenInv, UNCHANGED tokenVars
    PROVE  StepKept
BY DEF tokenVars, StepKept, TokenInv, TokenTypeOK, AllowancesMirrored,
   SupplyWithinCap, MintRightKept, DebitAuthorised, ledger, permits

LEMMA TokenInitInv ==
    ASSUME Cw20Assumption, TokenInit
    PROVE  TokenInv
<1> USE DEF TokenInit, Cw20Assumption
<1>1. balances \in [Accounts -> Nat] /\ total_supply \in Nat /\ now \in Nat
  BY TotalIsNatural
<1>2. mint \in {NoMinter} \cup MinterData /\ SupplyWithinCap
  BY DEF MinterData, SupplyWithinCap
<1>3. /\ allowances \in [Accounts -> [Accounts -> {NoEntry} \cup Allowance]]
      /\ spenders \in [Accounts -> [Accounts -> {NoEntry} \cup Allowance]]
      /\ AllowancesMirrored
  BY DEF AllowancesMirrored
<1> QED
  BY <1>1, <1>2, <1>3 DEF TokenInv, TokenTypeOK

\* The inductive invariant holds, from the balances and the minter that a token
\* is instantiated with, through every message.
THEOREM TokenInvHolds == TokenSpec => []TokenInv
<1>1. TokenInit => TokenInv
  BY Cw20Assumption, TokenInitInv
<1>2. TokenInv /\ [TokenNext]_tokenVars => TokenInv'
  BY Cw20Assumption, TokenStep, TokenStutter DEF StepKept
<1> QED
  BY <1>1, <1>2, PTL DEF TokenSpec

\* The two maps of allowances never differ.
THEOREM AllowancesMirroredHolds == TokenSpec => []AllowancesMirrored
<1>1. TokenInv => AllowancesMirrored
  BY DEF TokenInv
<1> QED
  BY <1>1, TokenInvHolds, PTL

\* The supply is within the cap of the minter there is.
THEOREM SupplyWithinCapHolds == TokenSpec => []SupplyWithinCap
<1>1. TokenInv => SupplyWithinCap
  BY DEF TokenInv
<1> QED
  BY <1>1, TokenInvHolds, PTL

\* The right to issue tokens is handed on by its holder or lost for ever.
THEOREM MintRightOnlyHandedOnHolds == TokenSpec => MintRightOnlyHandedOn
<1>1. TokenInv /\ [TokenNext]_tokenVars => [MintRightKept]_tokenVars
  BY Cw20Assumption, TokenStep, TokenStutter DEF StepKept
<1> QED
  BY <1>1, TokenInvHolds, PTL DEF TokenSpec, MintRightOnlyHandedOn

\* No tokens leave an account without its message or its allowance.
THEOREM DebitsAuthorisedHolds == TokenSpec => DebitsAuthorised
<1>1. TokenInv /\ [TokenNext]_tokenVars =>
        [\A o \in Accounts : DebitAuthorised(o)]_tokenVars
  BY Cw20Assumption, TokenStep, TokenStutter DEF StepKept
<1> QED
  BY <1>1, TokenInvHolds, PTL DEF TokenSpec, DebitsAuthorised

-----------------------------------------------------------------------------
(***************************************************************************)
(* The token implements the ledger.                                        *)
(***************************************************************************)
LedgerStep == Tokens!LedgerNext \/ UNCHANGED <<balances, total_supply>>

\* Tokens that are moved to another account are a move of the ledger; moved to
\* oneself, or moved in the amount of zero, they are no step of it.
LEMMA MovedIsMove ==
    ASSUME balances \in [Accounts -> Nat], NEW from \in Accounts,
           NEW to \in Accounts, NEW amount \in Nat, amount <= balances[from],
           balances' = Moved(from, to, amount), total_supply' = total_supply
    PROVE  LedgerStep
<1> DEFINE taken == [balances EXCEPT ![from] = @ - amount]
<1>1. /\ taken \in [Accounts -> Nat]
      /\ balances' = [taken EXCEPT ![to] = @ + amount]
  BY DEF Moved
<1>2. CASE from = to \/ amount = 0
  <2>1. \A a \in Accounts : balances'[a] = balances[a]
    BY <1>1, <1>2
  <2>2. balances' = balances
    BY <1>1, <2>1
  <2> QED
    BY <2>2 DEF LedgerStep
<1>3. CASE from # to /\ amount # 0
  <2>1. amount \in 1..balances[from]
    BY <1>3
  <2>2. balances' = [balances EXCEPT ![from] = @ - amount, ![to] = @ + amount]
    BY <1>1, <1>3
  <2>3. Tokens!Move(from, to)
    BY <1>3, <2>1, <2>2 DEF Tokens!Move
  <2> QED
    BY <2>3 DEF LedgerStep, Tokens!LedgerNext
<1> QED
  BY <1>2, <1>3

LEMMA BurntIsRetired ==
    ASSUME balances \in [Accounts -> Nat], total_supply \in Nat,
           NEW owner \in Accounts, NEW amount \in Nat, Burnt(owner, amount)
    PROVE  LedgerStep
<1>1. /\ amount <= balances[owner] /\ amount <= total_supply
      /\ balances' = [balances EXCEPT ![owner] = @ - amount]
      /\ total_supply' = total_supply - amount
  BY DEF Burnt
<1>2. CASE amount = 0
  BY <1>1, <1>2 DEF LedgerStep
<1>3. CASE amount # 0
  <2>1. total_supply' \in 0..total_supply - 1 /\ total_supply - total_supply' = amount
    BY <1>1, <1>3
  <2>2. Tokens!Retire(owner)
    BY <1>1, <2>1 DEF Tokens!Retire
  <2> QED
    BY <2>2 DEF LedgerStep, Tokens!LedgerNext
<1> QED
  BY <1>2, <1>3

LEMMA MintIsIssue ==
    ASSUME balances \in [Accounts -> Nat], total_supply \in Nat,
           NEW s \in Accounts, NEW a \in Accounts, NEW amount \in Nat,
           Mint(s, a, amount)
    PROVE  LedgerStep
<1>1. /\ total_supply' > total_supply /\ total_supply' - total_supply = amount
      /\ balances' = [balances EXCEPT ![a] = @ + amount]
  BY DEF Mint
<1>2. Tokens!Issue(a)
  BY <1>1 DEF Tokens!Issue
<1> QED
  BY <1>2 DEF LedgerStep, Tokens!LedgerNext

\* Every message is one step of the ledger, or none.
LEMMA TokenIsLedgerStep ==
    ASSUME Cw20Assumption, TokenInv, [TokenNext]_tokenVars
    PROVE  LedgerStep
<1>0. balances \in [Accounts -> Nat] /\ total_supply \in Nat
  BY DEF TokenInv, TokenTypeOK
<1> USE Cw20Assumption DEF Cw20Assumption
<1>1. CASE \E s \in Accounts, a \in Accounts, amount \in Amounts :
             Transfer(s, a, amount) \/ Send(s, a, amount) \/ Mint(s, a, amount)
  <2>1. PICK s \in Accounts, a \in Accounts, amount \in Amounts :
           Transfer(s, a, amount) \/ Mint(s, a, amount)
    BY <1>1 DEF Send
  <2>2. CASE Transfer(s, a, amount)
    BY <1>0, <2>2, MovedIsMove DEF Transfer
  <2>3. CASE Mint(s, a, amount)
    BY <1>0, <2>3, MintIsIssue
  <2> QED
    BY <2>1, <2>2, <2>3
<1>2. CASE \E s \in Accounts, amount \in Amounts : Burn(s, amount)
  BY <1>0, <1>2, BurntIsRetired DEF Burn
<1>3. CASE \E grant \in Grants, amount \in Amounts, a \in Accounts :
             \/ TransferFrom(grant[2], grant[1], a, amount)
             \/ SendFrom(grant[2], grant[1], a, amount)
  BY <1>0, <1>3, MovedIsMove DEF TransferFrom, SendFrom
<1>4. CASE UNCHANGED ledger
  BY <1>4 DEF ledger, LedgerStep
<1>5. \/ \E s \in Accounts, new \in Accounts \cup {NoMinter} : UpdateMinter(s, new)
      \/ \E grant \in Grants, amount \in Amounts,
            expires \in Times \cup {Never, NotGiven} :
           \/ IncreaseAllowance(grant[1], grant[2], amount, expires)
           \/ DecreaseAllowance(grant[1], grant[2], amount, expires)
      \/ NextBlock
      \/ UNCHANGED tokenVars
      => UNCHANGED ledger
  BY DEF UpdateMinter, IncreaseAllowance, DecreaseAllowance, NextBlock, tokenVars
<1>6. CASE \E grant \in Grants, amount \in Amounts : BurnFrom(grant[2], grant[1], amount)
  BY <1>0, <1>6, BurntIsRetired DEF BurnFrom
<1> QED
  BY <1>1, <1>2, <1>3, <1>4, <1>5, <1>6 DEF TokenNext

\* The contract implements a ledger, for any accounts, amounts, caps and
\* allowances: nothing appears or disappears that is not issued or burnt.
THEOREM LedgerImplementedHolds == TokenSpec => LedgerImplemented
<1>1. TokenInit => Tokens!LedgerInit
  <2>1. TokenInit => balances \in [Accounts -> Nat] /\ total_supply \in Nat
    BY Cw20Assumption, TotalIsNatural DEF TokenInit, Cw20Assumption
  <2> QED
    BY Cw20Assumption, <2>1 DEF Tokens!LedgerInit, Cw20Assumption
<1>2. TokenInv /\ [TokenNext]_tokenVars =>
        [Tokens!LedgerNext]_<<balances, total_supply>>
  BY Cw20Assumption, TokenIsLedgerStep DEF LedgerStep
<1> QED
  BY <1>1, <1>2, TokenInvHolds, PTL DEF TokenSpec, LedgerImplemented, Tokens!LedgerSpec

-----------------------------------------------------------------------------
(***************************************************************************)
(* The supply is the sum of the balances, as every step of the ledger      *)
(* keeps it: what a move takes from one account it gives to another.       *)
(***************************************************************************)
LEMMA LedgerKeepsTotal ==
    ASSUME Cw20Assumption, TokenTypeOK, SupplyIsSumOfBalances,
           TokenTypeOK', LedgerStep
    PROVE  SupplyIsSumOfBalances'
<1> DEFINE sum(f) == SumFunctionOnSet(f, Accounts)
<1>0. /\ IsFiniteSet(Accounts)
      /\ balances \in [Accounts -> Nat] /\ total_supply \in Nat
      /\ balances' \in [Accounts -> Nat] /\ total_supply' \in Nat
      /\ \A a \in Accounts : balances[a] \in Int /\ balances'[a] \in Int
  BY DEF Cw20Assumption, TokenTypeOK
<1>1. total_supply = sum(balances)
  BY <1>0, TotalIsSum DEF SupplyIsSumOfBalances
<1>2. total_supply' = sum(balances')
  <2>1. CASE UNCHANGED <<balances, total_supply>>
    BY <1>1, <2>1
  <2>2. ASSUME NEW from \in Accounts, NEW to \in Accounts, Tokens!Move(from, to)
        PROVE  total_supply' = sum(balances')
    <3>1. PICK n \in 1..balances[from] :
             balances' = [balances EXCEPT ![from] = @ - n, ![to] = @ + n]
      BY <2>2 DEF Tokens!Move
    <3>2. from # to /\ total_supply' = total_supply
      BY <2>2 DEF Tokens!Move
    <3> DEFINE taken == [balances EXCEPT ![from] = @ - n]
    <3>3. /\ n \in Nat
          /\ \A a \in Accounts : taken[a] \in Int
          /\ \A a \in Accounts \ {from} : taken[a] = balances[a]
          /\ taken[from] = balances[from] - n
      BY <1>0
    <3>4. /\ \A a \in Accounts \ {to} : balances'[a] = taken[a]
          /\ balances'[to] = taken[to] + n
      BY <1>0, <3>1, <3>2
    <3> HIDE DEF taken
    <3>5. sum(taken) = sum(balances) - balances[from] + taken[from]
      BY <1>0, <3>3, SumChanges
    <3>6. sum(balances') = sum(taken) - taken[to] + balances'[to]
      BY <1>0, <3>3, <3>4, SumChanges
    <3>7. sum(balances) \in Int /\ taken[to] \in Int /\ balances[from] \in Int
      BY <1>0, <1>1, <3>3
    <3> HIDE DEF sum
    <3>8. sum(taken) = total_supply - n
      BY <1>0, <1>1, <3>3, <3>5
    <3> QED
      BY <1>0, <3>2, <3>3, <3>4, <3>6, <3>7, <3>8
  <2>3. ASSUME NEW a \in Accounts, Tokens!Issue(a) \/ Tokens!Retire(a)
        PROVE  total_supply' = sum(balances')
    <3>1. /\ \A b \in Accounts \ {a} : balances'[b] = balances[b]
          /\ balances'[a] = balances[a] + (total_supply' - total_supply)
      BY <1>0, <2>3 DEF Tokens!Issue, Tokens!Retire
    <3>2. sum(balances') = sum(balances) - balances[a] + balances'[a]
      BY <1>0, <3>1, SumChanges
    <3> QED
      BY <1>0, <1>1, <3>1, <3>2
  <2> QED
    BY <2>1, <2>2, <2>3 DEF LedgerStep, Tokens!LedgerNext
<1>3. Total(balances') = sum(balances')
  BY <1>0, TotalIsSum
<1> QED
  BY <1>2, <1>3 DEF SupplyIsSumOfBalances

\* The supply is the sum of the balances, whatever is moved, issued and burnt.
THEOREM SupplyIsSumOfBalancesHolds == TokenSpec => []SupplyIsSumOfBalances
<1>1. TokenInit => SupplyIsSumOfBalances
  BY DEF TokenInit, SupplyIsSumOfBalances
<1>2. TokenInv /\ TokenInv' /\ SupplyIsSumOfBalances /\ [TokenNext]_tokenVars
        => SupplyIsSumOfBalances'
  <2> SUFFICES ASSUME TokenInv, TokenInv', SupplyIsSumOfBalances,
                      [TokenNext]_tokenVars
               PROVE  SupplyIsSumOfBalances'
    OBVIOUS
  <2>1. LedgerStep
    BY Cw20Assumption, TokenIsLedgerStep
  <2> QED
    BY Cw20Assumption, <2>1, LedgerKeepsTotal DEF TokenInv, TokenTypeOK
<1> QED
  BY <1>1, <1>2, TokenInvHolds, PTL DEF TokenSpec

\* Balances, supply and allowances have their types: none is ever negative.
THEOREM TokenTypeOKHolds == TokenSpec => []TokenTypeOK
<1>1. TokenInv => TokenTypeOK
  BY DEF TokenInv
<1> QED
  BY <1>1, TokenInvHolds, PTL

-----------------------------------------------------------------------------
(***************************************************************************)
(* The lists.                                                              *)
(***************************************************************************)

\* A token of an older version has allowances, but no map of spenders.
NotMigrated ==
    /\ balances \in [Accounts -> Nat] /\ total_supply \in Nat
    /\ mint = NoMinter
    /\ now \in Nat /\ sender \in Accounts
    /\ allowances \in [Accounts -> [Accounts -> Entry]]
    /\ spenders = [s \in Accounts |-> [o \in Accounts |-> NoEntry]]

\* What the reader knows: it has got no address beyond the last one, and every
\* one up to it that was granted all the time.
ReaderInv ==
    /\ listed \subseteq Accounts /\ steady \subseteq Accounts /\ after \in Nat
    /\ \A a \in listed : a <= after
    /\ \A a \in steady : a <= after => a \in listed
    /\ ~twice
    /\ complete => steady \subseteq listed
    /\ reading = NotGiven => steady = {} /\ listed = {} /\ after = 0 /\ ~complete
    /\ reading # NotGiven => /\ migrated /\ reading \in Lists
                             /\ steady \subseteq Granted(reading)

\* The inductive invariant: a list can be told from either map because the two
\* mirror each other from the migration on.
ListsInv ==
    /\ IF migrated THEN TokenInv ELSE NotMigrated
    /\ ReaderInv

\* What is granted to or by an account is what its list names.
LEMMA GrantedAreKeys ==
    ASSUME TokenInv, NEW list \in List
    PROVE  Granted(list) = Keys(list) /\ Keys(list) \subseteq Accounts
<1>1. list.of \in Accounts
  BY DEF List
<1>2. \A o, s \in Accounts : allowances[o][s] = spenders[s][o]
  BY DEF TokenInv, AllowancesMirrored
<1> QED
  BY <1>1, <1>2 DEF Granted, Keys

LEMMA LimitIsPositive ==
    ASSUME ListsAssumption, NEW asked \in PageSizes
    PROVE  Limit(asked) \in Nat /\ Limit(asked) > 0
BY DEF ListsAssumption, Limit

\* Numbers, if there are any, have a least one.
LEMMA LeastIsMember ==
    ASSUME NEW S \in SUBSET Nat, S # {}
    PROVE  \E m \in S : \A k \in S : m <= k
<1> DEFINE Q == {n \in Nat : \A m \in S : m <= n => \E l \in S : \A k \in S : l <= k}
<1>1. 0 \in Q
  <2>1. ASSUME NEW m \in S, m <= 0
        PROVE  \A k \in S : m <= k
    BY <2>1
  <2> QED
    BY <2>1
<1>2. ASSUME NEW n \in Nat, n \in Q
      PROVE  n + 1 \in Q
  <2>1. ASSUME NEW m \in S, m <= n + 1, ~\E l \in S : \A k \in S : l <= k
        PROVE  FALSE
    <3>1. PICK k \in S : ~(m <= k)
      BY <2>1
    <3>2. k <= n
      BY <2>1, <3>1
    <3> QED
      BY <1>2, <2>1, <3>2
  <2> QED
    BY <2>1
<1> HIDE DEF Q
<1>3. Nat \subseteq Q
  BY <1>1, <1>2, NatSetInduction
<1>4. PICK m \in S : TRUE
  OBVIOUS
<1>5. m \in Nat /\ m <= m
  OBVIOUS
<1>6. m \in Q
  BY <1>3, <1>5
<1> QED
  BY <1>5, <1>6 DEF Q

\* A page that is empty is the last; one that is not has every key up to its
\* greatest one.
LEMMA PageIsNext ==
    ASSUME ListsAssumption, Cw20Assumption, TokenInv, NEW list \in List,
           NEW from \in Nat, NEW asked \in PageSizes
    PROVE  LET page == Page(list, from, asked)
           IN  /\ page \subseteq {k \in Accounts : k > from}
               /\ page # {} => /\ Max(page) \in page
                               /\ \A k \in page : k <= Max(page)
                               /\ \A k \in Keys(list) :
                                    k > from /\ k <= Max(page) => k \in page
               /\ page = {} => \A k \in Keys(list) : k <= from
<1> DEFINE rest == StartingAfter(Keys(list), from)
           page == Page(list, from, asked)
           below(k) == {j \in rest : j < k}
           limit == Limit(asked)
<1>1. Keys(list) \subseteq Accounts /\ Accounts \subseteq Nat /\ IsFiniteSet(Accounts)
  BY GrantedAreKeys DEF ListsAssumption, Cw20Assumption
<1>2. rest = {k \in Keys(list) : k > from}
  BY DEF StartingAfter
<1>3. page = {k \in rest : Cardinality(below(k)) < limit}
  BY DEF Page
<1>4. limit \in Nat /\ limit > 0
  BY LimitIsPositive
<1> HIDE DEF limit, page, rest
<1>5. rest \subseteq Nat /\ IsFiniteSet(rest) /\ rest \subseteq Accounts
  BY <1>1, <1>2, FS_Subset
<1>6. \A k \in rest : IsFiniteSet(below(k)) /\ Cardinality(below(k)) \in Nat
  BY <1>5, FS_Subset, FS_CardinalityType
<1>7. page \subseteq rest /\ IsFiniteSet(page)
  BY <1>3, <1>5, FS_Subset
<1>8. ASSUME page # {}
      PROVE  /\ Max(page) \in page
             /\ \A k \in page : k <= Max(page)
             /\ \A k \in rest : k <= Max(page) => k \in page
  <2> DEFINE m == Max(page)
  <2>1. m \in page /\ \A k \in page : k <= m
    <3>1. page \in SUBSET Int
      BY <1>5, <1>7
    <3> QED
      BY <1>7, <1>8, <3>1, MaxIsMember
  <2> HIDE DEF m
  <2>2. ASSUME NEW k \in rest, k <= m
        PROVE  k \in page
    <3>0. m \in rest /\ m \in Nat /\ k \in Nat /\ \A j \in rest : j \in Nat
      BY <1>5, <1>7, <2>1
    <3>1. below(k) \subseteq below(m) /\ m \in rest
      <4>1. ASSUME NEW j \in below(k)
            PROVE  j \in rest /\ j < m
        <5>1. j \in rest /\ j < k
          BY <4>1
        <5>2. j \in Nat
          BY <3>0, <5>1
        <5> QED
          BY <2>2, <3>0, <5>1, <5>2
      <4> QED
        BY <3>0, <4>1
    <3> DEFINE low == below(k)
               high == below(m)
    <3> HIDE DEF low, high
    <3>2. low \subseteq high /\ IsFiniteSet(high)
      BY <1>6, <3>1 DEF low, high
    <3>3. Cardinality(low) <= Cardinality(high)
      BY <3>2, FS_Subset
    <3>4. Cardinality(high) < limit /\ Cardinality(low) \in Nat /\ Cardinality(high) \in Nat
      BY <1>3, <1>6, <2>1, <3>1 DEF low, high
    <3> QED
      BY <1>3, <1>4, <3>3, <3>4 DEF low
  <2> QED
    BY <2>1, <2>2 DEF m
<1>9. ASSUME rest # {} PROVE page # {}
  <2>1. PICK m \in rest : \A k \in rest : m <= k
    BY <1>5, <1>9, LeastIsMember
  <2>2. below(m) = {}
    <3>1. \A j \in rest : j \in Nat /\ m \in Nat /\ m <= j
      BY <1>5, <2>1
    <3> QED
      BY <3>1
  <2>3. Cardinality(below(m)) = 0
    BY <2>2, FS_EmptySet
  <2> QED
    BY <1>3, <1>4, <2>1, <2>3
<1>10. \A k \in Keys(list) : k \in Nat /\ (k > from \/ k <= from)
  <2>1. \A k \in Keys(list) : k \in Nat
    BY <1>1
  <2> QED
    BY <2>1
<1> QED
  BY <1>1, <1>2, <1>5, <1>7, <1>8, <1>9, <1>10 DEF page

\* The migration builds the map of spenders that mirrors the allowances.
LEMMA MigrateStep ==
    ASSUME ListsInv, Migrate
    PROVE  ListsInv'
<1>1. NotMigrated /\ ReaderInv
  BY DEF ListsInv, Migrate
<1>2. /\ migrated' = TRUE /\ reading = NotGiven
      /\ UNCHANGED <<balances, total_supply, mint, allowances, now, sender>>
      /\ UNCHANGED <<reading, after, listed, twice, steady, complete>>
      /\ spenders' = Copied(allowances)
  BY <1>1 DEF Migrate, ReaderInv, ledger, reader
<1>3. /\ allowances \in [Accounts -> [Accounts -> Entry]]
      /\ \A o, s \in Accounts : spenders[s][o] = NoEntry
  BY <1>1 DEF NotMigrated
<1> DEFINE copied == [s \in Accounts |-> [o \in Accounts |-> allowances[o][s]]]
<1>4. spenders' = copied
  BY <1>2, <1>3 DEF Copied
<1>5. spenders' \in [Accounts -> [Accounts -> Entry]]
  BY <1>3, <1>4
<1>6. AllowancesMirrored'
  BY <1>2, <1>4 DEF AllowancesMirrored
<1> HIDE DEF copied
<1>7. TokenInv'
  BY <1>1, <1>2, <1>5, <1>6
  DEF TokenInv, TokenTypeOK, SupplyWithinCap, NotMigrated, Entry
<1>8. ReaderInv'
  BY <1>1, <1>2 DEF ReaderInv
<1> QED
  BY <1>2, <1>7, <1>8 DEF ListsInv

LEMMA StartStep ==
    ASSUME ListsInv, ListsAssumption, NEW list \in Lists, StartReading(list)
    PROVE  ListsInv'
<1>1. TokenInv /\ ReaderInv /\ list \in List /\ list # NotGiven
  BY DEF ListsInv, StartReading, ListsAssumption
<1>2. /\ UNCHANGED <<tokenVars, migrated, after, listed, twice, complete>>
      /\ reading' = list /\ steady' = Granted(list) /\ migrated
      /\ listed = {} /\ after = 0 /\ ~complete /\ ~twice
  BY <1>1 DEF StartReading, ReaderInv
<1>3. Granted(list) \subseteq Accounts /\ \A a \in Accounts : ~(a <= 0)
  BY <1>1, GrantedAreKeys DEF ListsAssumption
<1>4. TokenInv'
  BY <1>1, <1>2 DEF TokenInv, TokenTypeOK, AllowancesMirrored, SupplyWithinCap,
     tokenVars, ledger, permits
<1>5. Granted(list)' = Granted(list)
  BY <1>2 DEF Granted, tokenVars, permits
<1>6. ReaderInv'
  BY <1>1, <1>2, <1>3, <1>5 DEF ReaderInv, Granted
<1> QED
  BY <1>2, <1>4, <1>6 DEF ListsInv

LEMMA ReadStep ==
    ASSUME ListsInv, ListsAssumption, Cw20Assumption, ReadPage
    PROVE  ListsInv'
<1>1. TokenInv /\ ReaderInv /\ migrated /\ reading \in List
  BY DEF ListsInv, ReadPage, ReaderInv, ListsAssumption
<1>2. PICK asked \in PageSizes :
        /\ listed' = listed \cup Page(reading, after, asked)
        /\ twice' = (twice \/ Page(reading, after, asked) \cap listed # {})
        /\ after' = IF Page(reading, after, asked) = {} THEN after
                    ELSE Max(Page(reading, after, asked))
        /\ complete' = (Page(reading, after, asked) = {})
  BY DEF ReadPage
<1>3. UNCHANGED <<tokenVars, migrated, reading, steady>> /\ reading # NotGiven
  BY DEF ReadPage
<1> DEFINE page == Page(reading, after, asked)
<1>4. /\ page \subseteq {k \in Accounts : k > after}
      /\ page # {} => /\ Max(page) \in page
                      /\ \A k \in page : k <= Max(page)
                      /\ \A k \in Keys(reading) :
                           k > after /\ k <= Max(page) => k \in page
      /\ page = {} => \A k \in Keys(reading) : k <= after
  BY <1>1, PageIsNext DEF ReaderInv
<1>5. steady \subseteq Keys(reading) /\ Accounts \subseteq Nat /\ after \in Nat
  BY <1>1, <1>3, GrantedAreKeys DEF ReaderInv, ListsAssumption
<1>6. TokenInv'
  BY <1>1, <1>3 DEF TokenInv, TokenTypeOK, AllowancesMirrored, SupplyWithinCap,
     tokenVars, ledger, permits
<1>7. Granted(reading)' = Granted(reading)
  BY <1>3 DEF Granted, tokenVars, permits
<1>8. /\ listed' = listed \cup page /\ twice' = (twice \/ page \cap listed # {})
      /\ after' = IF page = {} THEN after ELSE Max(page)
      /\ complete' = (page = {})
  BY <1>2
<1> HIDE DEF page
<1>9. ~twice'
  <2>1. ~twice /\ \A a \in listed : a \in Nat /\ a <= after
    BY <1>1, <1>5 DEF ReaderInv
  <2>2. page \cap listed = {}
    BY <1>4, <1>5, <2>1
  <2> QED
    BY <1>8, <2>1, <2>2
<1>10. listed' \subseteq Accounts /\ after' \in Nat /\ steady' \subseteq Accounts
  BY <1>1, <1>3, <1>4, <1>5, <1>8 DEF ReaderInv
<1>11. \A a \in listed' : a <= after'
  <2>1. \A a \in listed : a \in Nat /\ a <= after
    BY <1>1, <1>5 DEF ReaderInv
  <2>2. CASE page = {}
    BY <1>8, <2>1, <2>2
  <2>3. CASE page # {}
    <3> DEFINE m == Max(page)
    <3>1. m \in Nat /\ after < m /\ after' = m /\ \A k \in page : k <= m
      BY <1>4, <1>5, <1>8, <2>3
    <3> HIDE DEF m
    <3> QED
      BY <1>5, <1>8, <2>1, <3>1
  <2> QED
    BY <2>2, <2>3
<1>12. \A a \in steady' : a <= after' => a \in listed'
  <2>1. \A a \in steady : a \in Nat /\ a \in Keys(reading) /\ (a <= after => a \in listed)
    BY <1>1, <1>5 DEF ReaderInv
  <2>2. CASE page = {}
    BY <1>3, <1>8, <2>1, <2>2
  <2>3. CASE page # {}
    <3>1. \A a \in steady : a > after /\ a <= Max(page) => a \in page
      BY <1>4, <2>1, <2>3
    <3> QED
      BY <1>3, <1>5, <1>8, <2>1, <2>3, <3>1
  <2> QED
    BY <2>2, <2>3
<1>13. complete' => steady' \subseteq listed'
  BY <1>1, <1>3, <1>4, <1>5, <1>8 DEF ReaderInv
<1>14. ReaderInv'
  BY <1>1, <1>3, <1>7, <1>9, <1>10, <1>11, <1>12, <1>13 DEF ReaderInv
<1> QED
  BY <1>1, <1>3, <1>6, <1>14 DEF ListsInv

\* What is granted from one page to the next only becomes less.
LEMMA MessageStep ==
    ASSUME ListsInv, Cw20Assumption, Message
    PROVE  ListsInv'
<1>1. TokenInv /\ ReaderInv /\ migrated
  BY DEF ListsInv, Message
<1>2. /\ TokenNext /\ UNCHANGED <<migrated, reading, after, listed, twice, complete>>
      /\ steady' = IF reading = NotGiven THEN {} ELSE steady \cap Granted(reading)'
  BY DEF Message
<1>3. TokenInv'
  BY <1>1, <1>2, TokenStep DEF StepKept
<1>4. ReaderInv'
  BY <1>1, <1>2 DEF ReaderInv
<1> QED
  BY <1>1, <1>2, <1>3, <1>4 DEF ListsInv

\* The invariant of the lists holds, before the migration and after it.
THEOREM ListsInvHolds == ListsSpec => []ListsInv
<1> USE ListsAssumption, Cw20Assumption
<1>1. ListsInit => ListsInv
  <2> SUFFICES ASSUME ListsInit PROVE ListsInv
    OBVIOUS
  <2>1. ReaderInv
    BY DEF ListsInit, ReaderInv
  <2>2. CASE migrated = TRUE /\ TokenInit
    BY <2>1, <2>2, TokenInitInv DEF ListsInv
  <2>3. CASE migrated = FALSE
    <3>1. PICK granted \in SUBSET Grants :
            /\ allowances = [o \in Accounts |-> [s \in Accounts |->
                               IF <<o, s>> \in granted
                               THEN [amount |-> 0, expires |-> Never]
                               ELSE NoEntry]]
            /\ spenders = [o \in Accounts |-> [s \in Accounts |-> NoEntry]]
      BY <2>3 DEF ListsInit
    <3>2. [amount |-> 0, expires |-> Never] \in Entry /\ NoEntry \in Entry
      BY DEF Entry, Allowance
    <3> HIDE DEF Entry
    <3>3. allowances \in [Accounts -> [Accounts -> Entry]]
      BY <3>1, <3>2
    <3>4. /\ balances \in [Accounts -> Nat] /\ total_supply \in Nat
          /\ mint = NoMinter /\ now \in Nat /\ sender \in Accounts
      BY <2>3 DEF ListsInit
    <3> QED
      BY <2>1, <2>3, <3>1, <3>3, <3>4 DEF ListsInv, NotMigrated
  <2> QED
    BY <2>2, <2>3 DEF ListsInit
<1>2. ListsInv /\ [ListsNext]_listsVars => ListsInv'
  <2>1. ListsInv /\ UNCHANGED listsVars => ListsInv'
    BY DEF listsVars, tokenVars, reader, ledger, permits, ListsInv, ReaderInv,
       Granted, NotMigrated, TokenInv, TokenTypeOK, AllowancesMirrored, SupplyWithinCap
  <2> QED
    BY <2>1, MigrateStep, StartStep, ReadStep, MessageStep DEF ListsNext
<1> QED
  BY <1>1, <1>2, PTL DEF ListsSpec

\* No reader of a list of any owner or spender gets an address twice or misses
\* one that was granted all the time, whatever is granted between the pages.
THEOREM ListedOnceHolds == ListsSpec => []ListedOnce
<1>1. ListsInv => ListedOnce
  BY DEF ListsInv, ReaderInv, ListedOnce
<1> QED
  BY <1>1, ListsInvHolds, PTL

-----------------------------------------------------------------------------
(***************************************************************************)
(* The logo.                                                               *)
(***************************************************************************)

\* The inductive invariant: a logo that is stored has passed the checks, and
\* the information is of its kind.
MarketingInv ==
    /\ marketing_info \in MarketingInfo \cup {Nothing}
    /\ logo \in Logo \cup {Nothing}
    /\ logo # Nothing => VerifyLogo(logo)
    /\ ToldLogo = IF logo = Nothing THEN Nothing ELSE InfoOf(logo)

LEMMA UpdateMarketingStep ==
    ASSUME MarketingAssumption, MarketingInv, NEW s \in Editors,
           NEW project \in Texts \cup {Blank, Nothing},
           NEW description \in Texts \cup {Blank, Nothing},
           NEW marketing \in Editors \cup {Blank, Nothing},
           UpdateMarketing(s, project, description, marketing)
    PROVE  MarketingInv'
<1> DEFINE info == [marketing_info EXCEPT
                      !.project = Field(@, project),
                      !.description = Field(@, description),
                      !.marketing = Field(@, marketing)]
<1>1. marketing_info \in MarketingInfo /\ logo' = logo
  BY DEF UpdateMarketing, MayEdit, MarketingInv
<1>2. marketing_info' = IF SaysNothing(info) THEN Nothing ELSE info
  BY DEF UpdateMarketing
<1>3. info \in MarketingInfo /\ info.logo = marketing_info.logo
  <2> DEFINE p == Field(marketing_info.project, project)
             d == Field(marketing_info.description, description)
             m == Field(marketing_info.marketing, marketing)
  <2>1. /\ p \in Texts \cup {Blank, Nothing} /\ d \in Texts \cup {Blank, Nothing}
        /\ m \in Editors \cup {Nothing}
    BY <1>1 DEF MarketingInfo, Field
  <2>2. info = [marketing_info EXCEPT !.project = p, !.description = d, !.marketing = m]
    OBVIOUS
  <2> HIDE DEF info, p, d, m
  <2> QED
    BY <1>1, <2>1, <2>2 DEF MarketingInfo
<1>4. marketing_info # Nothing /\ info # Nothing
  BY <1>1, <1>3 DEF MarketingAssumption
<1> HIDE DEF info
<1>5. SaysNothing(info) => info.logo = Nothing
  BY DEF SaysNothing
<1>6. ToldLogo' = ToldLogo
  BY <1>2, <1>3, <1>4, <1>5 DEF ToldLogo
<1> QED
  BY <1>1, <1>2, <1>3, <1>6 DEF MarketingInv

LEMMA UploadLogoStep ==
    ASSUME MarketingAssumption, MarketingInv, NEW s \in Editors,
           NEW l \in SomeLogos, UploadLogo(s, l)
    PROVE  MarketingInv'
<1>1. l \in Logo /\ l # Nothing
  BY DEF SomeLogos, Logo, MarketingAssumption
<1>2. marketing_info \in MarketingInfo /\ logo' = l /\ VerifyLogo(l)
  BY DEF UploadLogo, MayEdit, MarketingInv
<1>3. marketing_info' = [marketing_info EXCEPT !.logo = InfoOf(l)]
  BY DEF UploadLogo
<1>4. InfoOf(l) \in LogoInfo
  BY DEF InfoOf, LogoInfo
<1>5. marketing_info' \in MarketingInfo /\ marketing_info'.logo = InfoOf(l)
  BY <1>2, <1>3, <1>4 DEF MarketingInfo
<1>6. marketing_info' # Nothing
  BY <1>5 DEF MarketingAssumption
<1> QED
  BY <1>1, <1>2, <1>5, <1>6 DEF MarketingInv, ToldLogo, InfoOf, VerifyLogo

\* What wallets are told of a logo is of the logo that is stored.
THEOREM MarketingInvHolds == MarketingSpec => []MarketingInv
<1> USE MarketingAssumption
<1>1. MarketingInit => MarketingInv
  <2> SUFFICES ASSUME MarketingInit PROVE MarketingInv
    OBVIOUS
  <2>1. logo \in Logo \cup {Nothing} /\ (logo # Nothing => VerifyLogo(logo))
    BY DEF MarketingInit, SomeLogos, Logo, MarketingAssumption
  <2>2. marketing_info \in MarketingInfo \cup {Nothing}
    BY DEF MarketingInit
  <2>3. ToldLogo = IF logo = Nothing THEN Nothing ELSE InfoOf(logo)
    BY DEF MarketingInit, ToldLogo, MarketingAssumption
  <2> QED
    BY <2>1, <2>2, <2>3 DEF MarketingInv
<1>2. MarketingInv /\ [MarketingNext]_marketingVars => MarketingInv'
  <2>1. MarketingInv /\ UNCHANGED marketingVars => MarketingInv'
    BY DEF marketingVars, MarketingInv, ToldLogo, InfoOf, VerifyLogo
  <2> QED
    BY <2>1, UpdateMarketingStep, UploadLogoStep DEF MarketingNext
<1> QED
  BY <1>1, <1>2, PTL DEF MarketingSpec

\* A wallet that is told of an embedded logo can download one that has passed
\* the checks, and is told of no other.
THEOREM LogoAsToldHolds == MarketingSpec => []LogoAsTold
<1>1. MarketingInv => LogoAsTold
  BY MarketingAssumption
  DEF MarketingInv, LogoAsTold, Downloadable, InfoOf, VerifyLogo, LogoInfo,
      MarketingAssumption
<1> QED
  BY <1>1, MarketingInvHolds, PTL

===============================================================================
