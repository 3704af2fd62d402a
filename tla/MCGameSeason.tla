----------------------------- MODULE MCGameSeason -----------------------------
(***************************************************************************)
(* A small instance of GameSeason: two gamers, a pool type for pairs of    *)
(* teams, of one gamer or two, and a dearer one for a team by itself.      *)
(***************************************************************************)
EXTENDS GameSeason, TLC

CONSTANTS g1, g2, a, pair, solo

AllParams ==
    pair :> [fee |-> 1, minTeams |-> 2, maxTeams |-> 2, perGamer |-> 2,
             rake |-> <<50, 50>>] @@
    solo :> [fee |-> 2, minTeams |-> 1, maxTeams |-> 1, perGamer |-> 1,
             rake |-> << >>]

SomeParams == [t \in PoolTypes |-> AllParams[t]]

Wins(g, amount) == [gamer |-> g, team |-> a, amount |-> amount]
SomeWinnerLists == {<<Wins(g1, 2), Wins(g1, 1)>>}

===============================================================================
