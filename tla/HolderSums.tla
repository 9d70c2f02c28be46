---------------------------- MODULE HolderSums ----------------------------
(***************************************************************************)
(* What the balances of a ledger add up to.  A ledger is a function from   *)
(* its holders to natural numbers; its units are counted one by one, so    *)
(* that the sum needs no recursion.                                        *)
(***************************************************************************)
EXTENDS Integers, FiniteSets

UnitsOf(f) == UNION {{u} \X (1..f[u]) : u \in DOMAIN f}
SumOver(f) == Cardinality(UnitsOf(f))
===========================================================================
