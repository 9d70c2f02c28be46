------------------------------ MODULE SellQuote ------------------------------
(***************************************************************************)
(* The two loops of _quoteSellGrossScaled, a step at a time: Newton's      *)
(* iteration for the root of the discriminant (_sqrt), then the nudges     *)
(* that take the payout down until the reserves keep their product.        *)
(***************************************************************************)
EXTENDS CPMMMath

CONSTANTS MaxReserve, MaxShares

ASSUME BoundsAssumption == MaxReserve \in Nat /\ MaxShares \in Nat

VARIABLES
    pc,                             \* where the computation is
    ownReserve, counterReserve,     \* the reserves, fixed during the call
    sharesIn,
    z, y,                           \* the locals of _sqrt
    scaledOut,
    nudges                          \* times the last loop took one off

quoteVars == <<pc, ownReserve, counterReserve, sharesIn, z, y, scaledOut, nudges>>

Smaller(a, b) == IF a < b THEN a ELSE b

B == ownReserve + counterReserve + sharesIn
Discriminant == B * B - 4 * sharesIn * counterReserve

QuoteTypeOK ==
    /\ pc \in {"sqrt", "estimate", "nudge", "done"}
    /\ ownReserve \in Nat /\ counterReserve \in Nat /\ sharesIn \in Nat
    /\ z \in Nat /\ y \in Nat
    /\ scaledOut \in Nat
    /\ nudges \in Nat

\* The call, up to the loop of _sqrt; selling nothing returns at once, and
\* the root of 0 is 0 without a loop (y = z = 0 ends it as well).
QuoteInit ==
    /\ ownReserve \in 0..MaxReserve
    /\ counterReserve \in 0..MaxReserve
    /\ sharesIn \in 0..MaxShares
    /\ pc = IF sharesIn = 0 THEN "done" ELSE "sqrt"
    /\ z = Discriminant
    /\ y = IF Discriminant = 0 THEN 0 ELSE (Discriminant + 1) \div 2
    /\ scaledOut = 0
    /\ nudges = 0

\* Mutant of NewtonStep: it goes on until nothing changes.
NewtonStepToFixpoint ==
    /\ pc = "sqrt"
    /\ y # z
    /\ z' = y
    /\ y' = (Discriminant \div y + y) \div 2
    /\ UNCHANGED <<pc, ownReserve, counterReserve, sharesIn, scaledOut, nudges>>

NewtonStep ==
    /\ pc = "sqrt"
    /\ y < z
    /\ z' = y
    /\ y' = (Discriminant \div y + y) \div 2
    /\ UNCHANGED <<pc, ownReserve, counterReserve, sharesIn, scaledOut, nudges>>

NewtonDone ==
    /\ pc = "sqrt"
    /\ ~(y < z)
    /\ pc' = "estimate"
    /\ UNCHANGED <<ownReserve, counterReserve, sharesIn, z, y, scaledOut, nudges>>

\* The root z in the quadratic formula, capped by what can be paid at all.
Estimate ==
    /\ pc = "estimate"
    /\ scaledOut' = Smaller((B - z) \div 2, Smaller(sharesIn, counterReserve))
    /\ pc' = "nudge"
    /\ UNCHANGED <<ownReserve, counterReserve, sharesIn, z, y, nudges>>

\* Mutant of Settled: the estimate is taken as it is.
SettledAtOnce == TRUE

Settled ==
    \/ scaledOut = 0
    \/ KeepsProduct(ownReserve, counterReserve, sharesIn, scaledOut)

Nudge ==
    /\ pc = "nudge"
    /\ ~Settled
    /\ scaledOut' = scaledOut - 1
    /\ nudges' = nudges + 1
    /\ UNCHANGED <<pc, ownReserve, counterReserve, sharesIn, z, y>>

Return ==
    /\ pc = "nudge"
    /\ Settled
    /\ pc' = "done"
    /\ UNCHANGED <<ownReserve, counterReserve, sharesIn, z, y, scaledOut, nudges>>

QuoteNext == NewtonStep \/ NewtonDone \/ Estimate \/ Nudge \/ Return

\* The EVM runs a call to its end.
QuoteSpec == QuoteInit /\ [][QuoteNext]_quoteVars /\ WF_quoteVars(QuoteNext)

---------------------------------------------------------------------------
(* Properties *)

\* Newton's iteration comes down to the floor of the root and not past it,
\* so it never divides by zero on the way.
RootIsFloor ==
    /\ pc = "sqrt" /\ y < z => y > 0
    /\ pc \in {"estimate", "nudge"} =>
          z * z <= Discriminant /\ Discriminant < (z + 1) * (z + 1)

\* The correction loop takes off at most one unit: the gas of a sell does not
\* grow with its size.
OneNudge == nudges <= 1

\* The contract's quote is neither short nor too generous: rounding the root
\* down, capping and nudging together give the largest payout that keeps the
\* product of the reserves.
QuoteIsLargest ==
    /\ QuoteTypeOK /\ RootIsFloor /\ OneNudge
    /\ pc = "done" =>
          IsLargestPayout(ownReserve, counterReserve, sharesIn, scaledOut)

\* Every sell gets a quote.
QuoteReturns == <>(pc = "done")
=============================================================================
