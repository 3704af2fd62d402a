------------------------------ MODULE MCExchange ------------------------------
(***************************************************************************)
(* A small instance of Exchange: an owner, a trader, and one bonding of    *)
(* either kind.  The pool is told of the bonding, or of an address that is *)
(* none; a day is one second.                                              *)
(***************************************************************************)
EXTENDS Exchange

CONSTANTS owner, trader, bonding

Bonded == [owner |-> owner, treasury |-> owner, bonding |-> bonding]
Unbonded == [owner |-> owner, treasury |-> trader, bonding |-> trader]
Configs == {Bonded, Unbonded}

ShortTerms == [lock |-> 1, discount |-> 0, vesting |-> 2]
CheapTerms == [lock |-> 0, discount |-> 500, vesting |-> 4]
AllTerms == {ShortTerms, CheapTerms}

===============================================================================
