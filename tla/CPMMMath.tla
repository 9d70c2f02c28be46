------------------------------ MODULE CPMMMath ------------------------------
(***************************************************************************)
(* The arithmetic of the constant product pool, as CPMM.tla uses it.       *)
(* `own` is the reserve of the outcome traded, `counter` the other one.    *)
(***************************************************************************)
EXTENDS Integers

\* Selling `shares` for `out` moves the reserves to own + shares - out and
\* counter - out; their product must not fall below k.
KeepsProduct(own, counter, shares, out) ==
    (own + shares - out) * (counter - out) >= own * counter

\* A payout is at most the shares sold and the counter reserve.
Payable(counter, shares) == {out \in 0..shares : out <= counter}

\* The sell quote is the largest payable amount that keeps the product.  The
\* contract computes it with an integer square root and a correction loop:
\* SellQuote.tla has those, and shows that they end up here.
IsLargestPayout(own, counter, shares, out) ==
    /\ out \in Payable(counter, shares)
    /\ KeepsProduct(own, counter, shares, out)
    /\ \A more \in Payable(counter, shares) :
          more > out => ~KeepsProduct(own, counter, shares, more)
=============================================================================
