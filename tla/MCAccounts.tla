----------------------------- MODULE MCAccounts -----------------------------
(* Accounts for two traders of a binary and a ranged market. *)
EXTENDS Accounts

MCBought == {[amount |-> 2, shares |-> 2]}
MCSold == {[amount |-> 1, shares |-> 1], [amount |-> 1, shares |-> 2]}
MCTrading == {<<"t1", "b1">>, <<"t1", "r1">>, <<"t2", "b1">>}
=============================================================================
