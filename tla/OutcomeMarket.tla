--------------------------- MODULE OutcomeMarket ---------------------------
(***************************************************************************)
(* What a market promises to the holders of its outcome tokens, whichever  *)
(* formula sets its prices: there are no reserves here, no fees, no        *)
(* liquidity, only the holdings of each outcome and a pot.  CPMM.tla (with *)
(* two outcomes) and RangePool.tla (with any number) implement it.         *)
(***************************************************************************)
EXTENDS HolderSums

CONSTANTS
    Holders,
    Outcomes            \* at least two

VARIABLES
    possible,           \* the outcomes that may still win
    held,               \* [Outcomes -> [Holders -> Nat]], in whole USDC units
    pot                 \* the USDC there is to pay them with

market == <<possible, held, pot>>

Undecided == possible = Outcomes

\* Whichever outcome wins, all its holders can be paid in full.
Covered == \A o \in possible : SumOver(held[o]) <= pot

Init ==
    /\ possible = Outcomes
    /\ held = [o \in Outcomes |-> [h \in Holders |-> 0]]
    /\ pot = 0

\* One holder buys or sells one outcome, for a price that leaves the market
\* covered. Nobody else's holdings change.
Trade(h, o) ==
    /\ Undecided
    /\ held' = [held EXCEPT ![o][h] = held'[o][h]]
    /\ held'[o][h] \in Nat
    /\ pot' \in Nat
    /\ UNCHANGED possible
    /\ Covered'

\* Once, and for good; it costs nobody anything.
Decide(o) ==
    /\ Undecided
    /\ possible' = {o}
    /\ UNCHANGED <<held, pot>>

\* A winner gets the whole of its holding.
Redeem(h, o) ==
    /\ possible = {o}
    /\ held[o][h] > 0
    /\ held' = [held EXCEPT ![o][h] = 0]
    /\ pot' = pot - held[o][h]
    /\ UNCHANGED possible

\* What is not owed to the winners may be taken out.
Collect ==
    /\ ~Undecided
    /\ pot' \in Nat
    /\ pot' <= pot
    /\ UNCHANGED <<possible, held>>
    /\ Covered'

Next ==
    \/ \E h \in Holders, o \in Outcomes : Trade(h, o) \/ Redeem(h, o)
    \/ \E o \in Outcomes : Decide(o)
    \/ Collect

Spec == Init /\ [][Next]_market
=============================================================================
