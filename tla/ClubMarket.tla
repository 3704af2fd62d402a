------------------------------ MODULE ClubMarket ------------------------------
(***************************************************************************)
(* What the ownership part of the clubstaking contract promises: a club    *)
(* has at most one holder and a wallet holds at most one club; a holder    *)
(* gives a club up only by offering it, and only to a wallet that takes it *)
(* before the offer lapses.                                                *)
(***************************************************************************)
EXTENDS Integers

CONSTANTS Clubs, Users, NoUser, ReleaseLock

VARIABLES
    now,
    holder,       \* of each club, NoUser before the first sale
    offeredUntil  \* of each club, the end of its offer; -1 without one

marketVars == <<now, holder, offeredUntil>>

NotOffered == -1

MarketInit ==
    /\ now = 1
    /\ holder = [c \in Clubs |-> NoUser]
    /\ offeredUntil = [c \in Clubs |-> NotOffered]

Take(u, c) ==
    /\ holder[c] = NoUser \/ now <= offeredUntil[c]
    /\ \A d \in Clubs : holder[d] # u
    /\ holder' = [holder EXCEPT ![c] = u]
    /\ offeredUntil' = [offeredUntil EXCEPT ![c] = NotOffered]
    /\ UNCHANGED now

Offer(c) ==
    /\ holder[c] # NoUser
    /\ offeredUntil' = [offeredUntil EXCEPT ![c] = now + ReleaseLock]
    /\ UNCHANGED <<now, holder>>

Pass == now' = now + 1 /\ UNCHANGED <<holder, offeredUntil>>

MarketNext ==
    \/ \E u \in Users, c \in Clubs : Take(u, c)
    \/ \E c \in Clubs : Offer(c)
    \/ Pass

MarketSpec == MarketInit /\ [][MarketNext]_marketVars

===============================================================================
