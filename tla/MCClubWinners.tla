---------------------------- MODULE MCClubWinners ----------------------------
(***************************************************************************)
(* Three clubs, for TLC.                                                   *)
(***************************************************************************)
EXTENDS ClubRanking

CONSTANTS c1, c2, c3

ThreeClubs == <<c1, c2, c3>>

===============================================================================
