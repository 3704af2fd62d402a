----------------------------- MODULE MCCw20Lists -----------------------------
(***************************************************************************)
(* A small instance of Cw20Lists and Cw20Marketing, which together are     *)
(* what the token tells wallets: an owner with two spenders, of whom one   *)
(* has a second owner, and pages of one or two addresses.                  *)
(***************************************************************************)
EXTENDS Cw20Lists, Cw20Marketing

CONSTANTS artist, text   \* the account that edits what is told, and a text

SomeGrants == {<<1, 2>>, <<1, 3>>, <<2, 3>>}
SomeLists == {[of |-> 1, by |-> "owner"], [of |-> 3, by |-> "spender"]}

TellInit == ListsInit /\ MarketingInit
TellNext == \/ ListsNext /\ UNCHANGED marketingVars
            \/ MarketingNext /\ UNCHANGED listsVars
TellSpec ==
    TellInit /\ [][TellNext]_<<listsVars, marketingVars>> /\ WF_listsVars(ReadPage)

==============================================================================
