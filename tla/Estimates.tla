----------------------------- MODULE Estimates -----------------------------
(***************************************************************************)
(* What the API tells a trader before the trade: its own copy of the       *)
(* pool's arithmetic (amm-estimates.ts), fed with the reserves and fees it *)
(* reads from the pool (trading.ts).  The copy is written out here as it   *)
(* is there, and compared with what the contract of CPMM.tla then does.    *)
(***************************************************************************)
EXTENDS CPMM, FiniteSetsExt

\* Mutant of ProjectBuyAfterFees: the two fees the other way round, both
\* taken from the whole input.
ProjectWithFeesAdded(usdcIn, fees, yes, no, side) ==
    LET protocolFee == Portion(usdcIn, fees.protocol)
        scaledIn == (usdcIn - Portion(usdcIn, fees.lp) - protocolFee) * Scale
        newYes == IF side = "yes" THEN (yes * no) \div (no + scaledIn)
                                  ELSE yes + scaledIn
        newNo == IF side = "yes" THEN no + scaledIn
                                 ELSE (yes * no) \div (yes + scaledIn)
    IN  [sharesOut |-> scaledIn + IF side = "yes" THEN yes - newYes ELSE no - newNo,
         protocolFee |-> protocolFee, netIn |-> usdcIn - protocolFee,
         newYesReserve |-> newYes, newNoReserve |-> newNo]

\* projectBuyAfterFees: the protocol fee first, the LP fee on the rest
ProjectBuyAfterFees(usdcIn, fees, yes, no, side) ==
    LET protocolFee == Portion(usdcIn, fees.protocol)
        netIn == usdcIn - protocolFee
        scaledIn == (netIn - Portion(netIn, fees.lp)) * Scale
        newYes == IF side = "yes" THEN (yes * no) \div (no + scaledIn)
                                  ELSE yes + scaledIn
        newNo == IF side = "yes" THEN no + scaledIn
                                 ELSE (yes * no) \div (yes + scaledIn)
    IN  [sharesOut |-> scaledIn + IF side = "yes" THEN yes - newYes ELSE no - newNo,
         protocolFee |-> protocolFee, netIn |-> netIn,
         newYesReserve |-> newYes, newNoReserve |-> newNo]

\* estimateBuy: the same sums, without the reserves afterwards
EstimateBuy(usdcIn, fees, yes, no, side) ==
    Restrict(ProjectBuyAfterFees(usdcIn, fees, yes, no, side),
             {"sharesOut", "protocolFee", "netIn"})

\* sqrt, what Newton's iteration of the copy ends in
Sqrt(n) == CHOOSE r \in 0..n : r * r <= n /\ n < (r + 1) * (r + 1)

\* estimateSellGrossScaled: the root of the quadratic, capped, then nudged
\* down to the first payout that keeps the product of the reserves
EstimateSellGrossScaled(sharesIn, yes, no, side) ==
    LET own == IF side = "yes" THEN yes ELSE no
        counter == IF side = "yes" THEN no ELSE yes
        b == yes + no + sharesIn
        root == (b - Sqrt(b * b - 4 * sharesIn * counter)) \div 2
        kept == {out \in 0..Min({root, sharesIn, counter}) :
                    out = 0 \/ KeepsProduct(own, counter, sharesIn, out)}
    IN  Max(kept)

\* estimateSell: the LP fee is kept by the pool, the protocol fee is taken
\* from the rest
EstimateSell(sharesIn, fees, yes, no, side) ==
    LET grossOut == EstimateSellGrossScaled(sharesIn, yes, no, side) \div Scale
        afterLpFee == grossOut - Portion(grossOut, fees.lp)
        protocolFee == Portion(afterLpFee, fees.protocol)
    IN  [usdcOut |-> afterLpFee - protocolFee, grossOut |-> grossOut,
         protocolFee |-> protocolFee]

\* readPoolFees
PoolFees == [lp |-> FeeBps, protocol |-> protocolFeeBps]

\* GET /trading/estimate-buy, and the projection published after a buy: both
\* from the reserves readReserves finds
QuotedBuy(side, usdcIn) ==
    EstimateBuy(usdcIn, PoolFees, yesReserve, noReserve, side)
ProjectedBuy(side, usdcIn) ==
    ProjectBuyAfterFees(usdcIn, PoolFees, yesReserve, noReserve, side)

\* GET /trading/estimate-sell
QuotedSell(side, sharesIn) ==
    EstimateSell(sharesIn, PoolFees, yesReserve, noReserve, side)

---------------------------------------------------------------------------
(* Properties *)

\* The step gives user u what a quote of just before it said, if it trades.
Bought(u, side) == balanceOf'[side][u] - balanceOf[side][u]
Received(u) == wallet'[u] - wallet[u]

BuyAgrees(u, side, usdcIn) ==
    /\ QuotedBuy(side, usdcIn).sharesOut = Bought(u, side)
    /\ QuotedBuy(side, usdcIn).protocolFee = feesPaid' - feesPaid
    /\ ProjectedBuy(side, usdcIn).newYesReserve = yesReserve'
    /\ ProjectedBuy(side, usdcIn).newNoReserve = noReserve'

SellAgrees(u, side, sharesIn) ==
    /\ QuotedSell(side, sharesIn).usdcOut = Received(u)
    /\ QuotedSell(side, sharesIn).protocolFee = feesPaid' - feesPaid

\* The API's copy of the formulas is the contract's, rounding for rounding: a
\* trade at the quoted state gives the trader the shares or the USDC it was
\* quoted, pays the fee it was shown and leaves the reserves that the API
\* publishes as the projected price ("Mirrors CPMM.buyYes/buyNo",
\* amm-estimates.ts:15).  Floors computed from a quote rest on this.
EstimateAgrees ==
    [][Open => \A u \in Users, side \in Side :
          /\ Bought(u, side) > 0 => BuyAgrees(u, side, -Received(u))
          /\ Bought(u, side) < 0 => SellAgrees(u, side, -Bought(u, side))]_vars
=============================================================================
