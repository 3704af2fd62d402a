-------------------------------- MODULE MCCw20 --------------------------------
(***************************************************************************)
(* A small instance of Cw20: an owner, a spender and a contract, where the *)
(* contract may spend for the owner and the spender.                       *)
(***************************************************************************)
EXTENDS Cw20

CONSTANTS owner, spender, pool

SomeGrants == {<<owner, spender>>, <<spender, pool>>}

===============================================================================
