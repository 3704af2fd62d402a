---------------------------- MODULE MCRewardRounds ----------------------------
(***************************************************************************)
(* Small instances of RewardRounds.                                        *)
(***************************************************************************)
EXTENDS RewardRounds, TLC

CONSTANTS c1, c2, u1, u2, u3, MaxSent

OneClub  == <<c1>>
TwoClubs == <<c1, c2>>

UserSymmetry == Permutations(Users)

(***************************************************************************)
(* A later start: u1 bought c1 in second 1, u2 staked on it and bought c2, *)
(* or did not, and the pool was funded; stakes of either auto_stake        *)
(* setting.                                                                *)
(***************************************************************************)
Held(amount, auto) == <<[start |-> 1, staked |-> amount, reward |-> 0, auto |-> auto]>>
Sold(u, amount) == [owner |-> u, start |-> 1, released |-> FALSE,
                    price |-> ClubPrice, reward |-> 0, total |-> amount]
Populated ==
    /\ \E auto1, auto2, both \in BOOLEAN :
         /\ ownership = (c1 :> Sold(u1, 2) @@
                         c2 :> IF both THEN Sold(u2, 1) ELSE Unsold)
         /\ stakes = (c1 :> (u1 :> Held(1, auto1) @@ u2 :> Held(1, auto2)) @@
                      c2 :> (u1 :> << >> @@
                             u2 :> IF both THEN Held(1, auto1) ELSE << >>))
         /\ fury = (u1 :> UserFury @@ u2 :> UserFury @@ "admin" :> AdminFury @@
                    "collector" :> 2 * ClubPrice @@
                    "contract" :> IF both THEN 103 ELSE 102)
    /\ now = 2
    /\ nextReward = 1
    /\ reward = 100
    /\ bonds = [c \in Clubs |-> [u \in Users |-> << >>]]
    /\ prevOwner = [u \in Users |-> 0]
    /\ given = 0
    /\ snapshot = [c \in Clubs |-> 0]
    /\ winning = NoRanking
    /\ due = {} /\ touched = {} /\ share = NoShares
    /\ funded = 0 /\ granted = 0 /\ claimed = 0 /\ sound = TRUE

(***************************************************************************)
(* A bound: the number of messages besides those of the administrator's    *)
(* program, and of ticks.                                                  *)
(***************************************************************************)
VARIABLE sent

BoundedInit == Populated /\ sent = 0
BoundedNext ==
    \/ /\ SomeBatch \/ \E c \in Clubs : EmptyRound(c)
       /\ UNCHANGED sent
    \/ /\ sent < MaxSent
       /\ Between \/ Claim
       /\ sent' = sent + 1

BoundedSpec == BoundedInit /\ [][BoundedNext]_<<roundVars, sent>>
FairBoundedSpec == BoundedSpec /\ WF_roundVars(due # {} /\ SomeBatch)

===============================================================================
