--------------------------- MODULE MCOracleMarket ---------------------------
(***************************************************************************)
(* A small instance of a market with its oracle, and with the API's copy   *)
(* of the pool's arithmetic beside it.                                     *)
(***************************************************************************)
EXTENDS MCCPMM, Estimates, OracleMarket
=============================================================================
