------------------------------ MODULE MCCPMM ------------------------------
(***************************************************************************)
(* Small instances of one binary market for TLC.                           *)
(***************************************************************************)
EXTENDS CPMM, TLC

MCSymmetry == Permutations(Users)

MCAmounts == {1, 2}
MCShareAmounts == {1, 2, 4}
===========================================================================
