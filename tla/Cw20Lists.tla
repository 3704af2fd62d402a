------------------------------ MODULE Cw20Lists ------------------------------
(***************************************************************************)
(* The lists of allowances of the cw20-base contract: what an owner has    *)
(* granted, read from ALLOWANCES, and what a spender was granted, read     *)
(* from ALLOWANCES_SPENDER, page by page while messages change them.  A    *)
(* token instantiated by a version before 0.14.0 has no ALLOWANCES_SPENDER *)
(* until it is migrated.                                                   *)
(*                                                                         *)
(* Addresses are compared byte by byte: here they are numbers.  The reader *)
(* is a wallet that asks for the page after the last address it got, until *)
(* a page is empty.                                                        *)
(***************************************************************************)
EXTENDS Cw20

CONSTANTS
    Lists,                    \* the lists that are read, members of List
    PageSizes,                \* the limits that readers ask for
    MAX_LIMIT, DEFAULT_LIMIT  \* 30 and 10 in the code

List == [of : Accounts, by : {"owner", "spender"}]

ASSUME ListsAssumption ==
    /\ Accounts \subseteq Nat \ {0}
    /\ Lists \subseteq List /\ NotGiven \notin Lists
    /\ PageSizes \subseteq (Nat \ {0}) \cup {NotGiven}
    /\ {MAX_LIMIT, DEFAULT_LIMIT} \subseteq Nat \ {0}

VARIABLES
    migrated, \* whether the contract has a version of 0.14.0 or later
    reading,  \* the list that is being read, or NotGiven
    after,    \* the last address the reader got, 0 before the first page
    listed,   \* the addresses the reader got
    twice,    \* whether the reader got an address that it had
    steady,   \* history: the addresses granted ever since the reader began
    complete  \* whether the reader got the last page

reader == <<reading, after, listed, twice, steady, complete>>
listsVars == <<tokenVars, migrated, reader>>

\* Of a token of an older version any allowances may be there.
ListsInit ==
    /\ reading = NotGiven
    /\ after = 0
    /\ listed = {}
    /\ twice = FALSE
    /\ steady = {}
    /\ complete = FALSE
    /\ \/ migrated = TRUE /\ TokenInit
       \/ /\ migrated = FALSE
          /\ \E granted \in SUBSET Grants :
                LET old == [o \in Accounts |-> [s \in Accounts |->
                              IF <<o, s>> \in granted
                              THEN [amount |-> 0, expires |-> Never]
                              ELSE NoEntry]]
                    anew == [o \in Accounts |-> [s \in Accounts |-> NoEntry]]
                IN  allowances = old /\ spenders = anew
          /\ balances = [a \in Accounts |-> 0]
          /\ total_supply = 0
          /\ mint = NoMinter
          /\ now = 0
          /\ sender \in Accounts

-----------------------------------------------------------------------------
(***************************************************************************)
(* The migration from an older version copies ALLOWANCES; nothing else is  *)
(* executed before it, as the code of that version is not in place.        *)
(***************************************************************************)
CopiedNone(all) ==                \* mutant: the map of spenders is not built
    spenders
Copied(all) ==
    [s \in Accounts |-> [o \in Accounts |->
       IF all[o][s] # NoEntry THEN all[o][s] ELSE spenders[s][o]]]

Migrate ==
    /\ ~migrated
    /\ migrated' = TRUE
    /\ spenders' = Copied(allowances)
    /\ UNCHANGED <<ledger, mint, allowances, now, sender, reader>>

\* The keys of a list, as they are stored.
Keys(list) ==
    IF list.by = "owner"
    THEN {s \in Accounts : allowances[list.of][s] # NoEntry}
    ELSE {o \in Accounts : spenders[list.of][o] # NoEntry}

Limit(asked) ==
    LET limit == IF asked = NotGiven THEN DEFAULT_LIMIT ELSE asked
    IN  IF limit <= MAX_LIMIT THEN limit ELSE MAX_LIMIT

StartingAt(keys, key) ==          \* mutant: the bound is inclusive
    {k \in keys : k >= key}
StartingAfter(keys, key) == {k \in keys : k > key}

\* query_owner_allowances and query_spender_allowances: of the keys after a key
\* the least ones, up to the limit.  They are answered in ascending order.
Page(list, start_after, asked) ==
    LET rest == StartingAfter(Keys(list), start_after)
    IN  {k \in rest : Cardinality({j \in rest : j < k}) < Limit(asked)}

\* The accounts an owner's list, or a spender's, should name: the allowances
\* themselves, whichever map the list is read from.
Granted(list) ==
    IF list.by = "owner"
    THEN {s \in Accounts : allowances[list.of][s] # NoEntry}
    ELSE {o \in Accounts : allowances[o][list.of] # NoEntry}

StartReading(list) ==
    /\ migrated
    /\ reading = NotGiven
    /\ reading' = list
    /\ steady' = Granted(list)
    /\ UNCHANGED <<tokenVars, migrated, after, listed, twice, complete>>

ReadPage ==
    /\ reading # NotGiven
    /\ ~complete
    /\ \E asked \in PageSizes :
          LET page == Page(reading, after, asked)
          IN  /\ listed' = listed \cup page
              /\ twice' = (twice \/ page \cap listed # {})
              /\ after' = IF page = {} THEN after ELSE Max(page)
              /\ complete' = (page = {})
    /\ UNCHANGED <<tokenVars, migrated, reading, steady>>

\* Messages change the allowances between two pages.
Message ==
    /\ migrated
    /\ TokenNext
    /\ UNCHANGED <<migrated, reading, after, listed, twice, complete>>
    /\ steady' = IF reading = NotGiven THEN {} ELSE steady \cap Granted(reading)'

ListsNext == Migrate \/ ReadPage \/ Message \/ \E list \in Lists : StartReading(list)

\* A wallet that has begun to read goes on; nobody else need do anything.
ListsSpec == ListsInit /\ [][ListsNext]_listsVars /\ WF_listsVars(ReadPage)

-----------------------------------------------------------------------------
(***************************************************************************)
(* Properties.                                                             *)
(***************************************************************************)

\* While allowances come and go between the pages, a reader gets no address
\* twice, and in the end has got every account whose allowance was there all
\* the time, from the list of an owner and from that of a spender, and for
\* allowances that were there before the migration too.
ListedOnce ==
    /\ ~twice
    /\ complete => steady \subseteq listed

\* A reader who has begun gets to the end of the list, whatever is granted and
\* withdrawn meanwhile and however small the pages.
ReadingEnds == reading # NotGiven ~> complete

==============================================================================
