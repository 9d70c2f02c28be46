---------------------------- MODULE MCLifecycle ----------------------------
(***************************************************************************)
(* The bounds of MarketLifecycle.tla for model checking.                   *)
(***************************************************************************)
EXTENDS MarketLifecycle

\* A range market of the same day can be created twice; two ticks, the
\* fallback, the drain and the indexer meet on one 24-hour market.
MCMarkets == [f \in Families |-> IF f = "range" THEN 2 ELSE 1]
MCTrouble == [f \in Families |-> IF f = "range" THEN 2 ELSE 1]
=============================================================================
