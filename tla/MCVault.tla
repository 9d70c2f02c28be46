------------------------------ MODULE MCVault ------------------------------
(* A range market of two ranges whose exp and ln fit in a table: one is     *)
(* four, and so is the seed of one USDC in token units.  The first user has *)
(* two USDC, enough for an amount that pays a fee, the second has one.      *)
EXTENDS Vault, TLC

CONSTANTS u1, u2

RangeSymmetry == Permutations(Ranges)

TwoUsers == {u1, u2}
ToyEndowment == u1 :> 2 @@ u2 :> 1
ToyExp == [x \in 0..MaxArgument |-> IF x < 4 THEN 4 - x ELSE IF x < 6 THEN 1 ELSE 0]
ToyLn == [x \in 4..8 |-> CASE x \in {4, 5} -> 0 [] x = 6 -> 1 [] OTHER -> 2]
=============================================================================
