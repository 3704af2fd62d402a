-------------------------------- MODULE Ledger --------------------------------
(***************************************************************************)
(* What a token promises of its balances: tokens are moved, issued or      *)
(* retired, one such change at a time, the issued amount changes by just   *)
(* what appears or disappears in one account, and nobody gives more than   *)
(* they hold.                                                              *)
(***************************************************************************)
EXTENDS Integers

CONSTANT Accounts

VARIABLES
    held,   \* of each account
    issued  \* in all

LedgerInit == held \in [Accounts -> Nat] /\ issued \in Nat

Move(from, to) ==
    /\ from # to
    /\ issued' = issued
    /\ \E n \in 1..held[from] :
          held' = [held EXCEPT ![from] = @ - n, ![to] = @ + n]

Issue(to) ==
    /\ issued' > issued
    /\ held' = [held EXCEPT ![to] = @ + (issued' - issued)]

Retire(from) ==
    /\ issued' \in 0..issued - 1
    /\ issued - issued' <= held[from]
    /\ held' = [held EXCEPT ![from] = @ - (issued - issued')]

LedgerNext ==
    \/ \E from, to \in Accounts : Move(from, to)
    \/ \E a \in Accounts : Issue(a) \/ Retire(a)

LedgerSpec == LedgerInit /\ [][LedgerNext]_<<held, issued>>

===============================================================================
