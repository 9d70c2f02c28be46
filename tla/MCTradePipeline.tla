-------------------------- MODULE MCTradePipeline --------------------------
(***************************************************************************)
(* Small instances of TradePipeline for TLC: an intent to buy, and one to  *)
(* sell half of what it buys.                                              *)
(***************************************************************************)
EXTENDS TradePipeline

CONSTANTS buy, sell

MCIntents == {buy, sell}
MCOrder ==
    [i \in MCIntents |->
        IF i = buy THEN [isBuy |-> TRUE, shares |-> 2, collateral |-> 1]
                   ELSE [isBuy |-> FALSE, shares |-> 1, collateral |-> 1]]
=============================================================================
