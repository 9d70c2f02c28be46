--------------------------- MODULE MCRangeTrading ---------------------------
(* A buy of any amount, a buy with a minimum, and a sell of everything: a   *)
(* retry, two buys at once, a buy and a sell.                               *)
EXTENDS RangeTrading

MCSigned == [buy |-> [buy |-> TRUE, amount |-> 0, minOutput |-> 0],
             limit |-> [buy |-> TRUE, amount |-> 0, minOutput |-> 2],
             sell |-> [buy |-> FALSE, amount |-> 2, minOutput |-> 0]]
MCPairs == {<<"limit", "limit">>, <<"buy", "limit">>, <<"limit", "sell">>}
MCSent == {[r \in Requests |-> IF r = "r1" THEN pair[1] ELSE pair[2]] : pair \in MCPairs}
=============================================================================
