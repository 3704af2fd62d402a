---------------------------- MODULE MCClubStaking ----------------------------
(***************************************************************************)
(* Small instances of ClubStaking.                                         *)
(***************************************************************************)
EXTENDS ClubStaking, TLC

CONSTANTS c1, c2, u1, u2, u3

OneClub  == <<c1>>
TwoClubs == <<c1, c2>>

\* A list that names a staker twice.
SomeAssignLists ==
    {<<[staker |-> u1, amount |-> 1, auto |-> TRUE],
       [staker |-> u1, amount |-> 1, auto |-> FALSE]>>}
SomeStakerLists == {<<u1, u2>>, <<u1, u1>>}

UserSymmetry == Permutations(Users)

==============================================================================
