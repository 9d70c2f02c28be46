------------------------------- MODULE CPMM -------------------------------
(***************************************************************************)
(* One binary market on chain: the constant product pool (CPMM.sol), its   *)
(* two outcome tokens (OutcomeToken.sol) and the market record the factory *)
(* keeps for it (MarketFactory.sol).  An EVM transaction is atomic, so an  *)
(* action is a whole external call, nested calls included; a call that     *)
(* reverts changes nothing and has no step.                                *)
(*                                                                         *)
(* Amounts are integers.  USDC amounts are in USDC units; reserves, shares *)
(* and LP shares are in the finer token units, Scale of them to one USDC   *)
(* unit (DECIMAL_SCALE, 1e12 in the code).  Basis points are out of Bps    *)
(* (10000 in the code).  wallet[u] is the USDC that belongs to user u,     *)
(* whether u pays from the EOA (buyYes ...) or through the vault escrow    *)
(* (buyYesFor ...): both entry points have the same effect on the pool.    *)
(***************************************************************************)
EXTENDS CPMMMath, HolderSums

CONSTANTS
    Users,              \* accounts that trade, provide liquidity and redeem
    Scale,              \* DECIMAL_SCALE
    Bps,                \* BPS
    MaxProtocolFee,     \* MAX_PROTOCOL_FEE_BPS
    MaxClaimsBuffer,    \* MAX_CLAIMS_BUFFER_BPS
    FeeBps,             \* LP swap fee of this pool, fixed at initialize
    ProtocolFees,       \* protocol fees the admin may choose
    ClaimsBuffers,      \* claims buffers the admin may choose
    Endowment,          \* USDC each user starts with
    Amounts,            \* USDC amounts a user may spend
    ShareAmounts        \* share and LP share amounts a user may sell or burn

ASSUME UsersAssumption == IsFiniteSet(Users)
ASSUME ScaleAssumption == Scale \in Nat \ {0}
ASSUME BpsAssumption == Bps \in Nat \ {0}
ASSUME CapAssumption ==
    /\ MaxProtocolFee \in 0..Bps
    /\ MaxClaimsBuffer \in 0..Bps
ASSUME FeeAssumption ==
    /\ FeeBps \in 0..(Bps - 1)
    /\ ProtocolFees \subseteq Nat
    /\ ClaimsBuffers \subseteq Nat
ASSUME AmountAssumption ==
    /\ Endowment \in Nat
    /\ Amounts \subseteq Nat
    /\ ShareAmounts \subseteq Nat

VARIABLES
    poolBalance,        \* USDC the pool holds
    wallet,             \* [Users -> Nat], USDC of each user
    feesPaid,           \* USDC sent to the fee wallets
    treasuryPaid,       \* USDC drained to the treasury
    yesReserve, noReserve,
    totalLpShares, lpShareOf,
    balanceOf,          \* [Side -> [Users -> Nat]], the two outcome tokens
    totalSupply,        \* [Side -> Nat]
    feeWalletSet,       \* feeWallet # address(0)
    protocolFeeBps, claimsBufferBps,
    pool,               \* the pool's breaker state
    market              \* the factory's record of the market

money == <<poolBalance, wallet, feesPaid, treasuryPaid>>
reserves == <<yesReserve, noReserve>>
lp == <<totalLpShares, lpShareOf>>
tokens == <<balanceOf, totalSupply>>
config == <<feeWalletSet, protocolFeeBps, claimsBufferBps>>
flags == <<pool, market>>
vars == <<money, reserves, lp, tokens, config, flags>>

Side == {"yes", "no"}
Outcome == {"none", "yes", "no"}

PoolState == [resolved: BOOLEAN, yesWon: BOOLEAN,
              liquidityDrained: BOOLEAN, liquidityWithdrawn: Nat]
MarketRecord == [created: BOOLEAN, resolved: BOOLEAN, result: Outcome,
                 liquidityDrained: BOOLEAN]

TypeOK ==
    /\ poolBalance \in Nat
    /\ wallet \in [Users -> Nat]
    /\ feesPaid \in Nat
    /\ treasuryPaid \in Nat
    /\ yesReserve \in Nat
    /\ noReserve \in Nat
    /\ totalLpShares \in Nat
    /\ lpShareOf \in [Users -> Nat]
    /\ balanceOf \in [Side -> [Users -> Nat]]
    /\ totalSupply \in [Side -> Nat]
    /\ feeWalletSet \in BOOLEAN
    /\ protocolFeeBps \in 0..MaxProtocolFee
    /\ claimsBufferBps \in 0..MaxClaimsBuffer
    /\ pool \in PoolState
    /\ market \in MarketRecord

---------------------------------------------------------------------------
(* Arithmetic of the pool *)

\* floor(amount * bps / BPS), the shape of every fee in the contract
Portion(amount, bps) == (amount * bps) \div Bps

Counter(side) == IF side = "yes" THEN noReserve ELSE yesReserve
Own(side) == IF side = "yes" THEN yesReserve ELSE noReserve

\* _takeBuyFee, then the LP fee: what a buyer's USDC is worth to the formula
NetIn(usdcIn) == usdcIn - Portion(usdcIn, protocolFeeBps)
ScaledIn(usdcIn) == (NetIn(usdcIn) - Portion(NetIn(usdcIn), FeeBps)) * Scale

\* _quoteBuyState: the counter leg grows by the input, the bought leg shrinks
\* to floor(k / counter), and the difference is sold on top of a complete set.
BuyCounter(side, scaledIn) == Counter(side) + scaledIn
BuyOwn(side, scaledIn) ==
    (yesReserve * noReserve) \div BuyCounter(side, scaledIn)
BuyShares(side, scaledIn) ==
    scaledIn + (Own(side) - BuyOwn(side, scaledIn))

\* _quoteSellGrossScaled
IsSellPayout(side, shares, out) ==
    IsLargestPayout(Own(side), Counter(side), shares, out)

\* Mutant of LpMinted: the deposit is compared with one leg, not with both.
LpMintedByOneLeg(scaled) == (totalLpShares * scaled * 2) \div yesReserve

\* LP shares minted for a deposit, and the part of a reserve LP shares stand for
LpMinted(scaled) ==
    (totalLpShares * scaled * 2) \div (yesReserve + noReserve)
LegShare(reserve, shares) == (reserve * shares) \div totalLpShares

\* Mutant of Open: the resolved flag is not looked at.
OpenForever == market.created

\* A pool takes orders from its creation to its resolution.
Open == market.created /\ ~pool.resolved

\* getOutstandingWinningClaims
Winner == IF pool.yesWon THEN "yes" ELSE "no"
\* Mutant of Claims: the losing token's supply is reserved.
ClaimsOfLoser ==
    IF pool.resolved
        THEN totalSupply[IF pool.yesWon THEN "no" ELSE "yes"] \div Scale
        ELSE 0

Claims == IF pool.resolved THEN totalSupply[Winner] \div Scale ELSE 0

\* Mutant of Reserved: the buffer instead of claims and buffer.
ReservedBufferOnly == Portion(Claims, claimsBufferBps)

\* the claims plus the configured buffer, kept by both ways out of the pool
Reserved == Claims + Portion(Claims, claimsBufferBps)

\* getWithdrawableLiquidity
Withdrawable == IF poolBalance > Reserved THEN poolBalance - Reserved ELSE 0

---------------------------------------------------------------------------
(* Actions *)

Init ==
    /\ poolBalance = 0
    /\ wallet = [u \in Users |-> Endowment]
    /\ feesPaid = 0
    /\ treasuryPaid = 0
    /\ yesReserve = 0
    /\ noReserve = 0
    /\ totalLpShares = 0
    /\ lpShareOf = [u \in Users |-> 0]
    /\ balanceOf = [s \in Side |-> [u \in Users |-> 0]]
    /\ totalSupply = [s \in Side |-> 0]
    /\ feeWalletSet = FALSE
    /\ protocolFeeBps = 0
    /\ claimsBufferBps = 0
    /\ pool = [resolved |-> FALSE, yesWon |-> FALSE,
               liquidityDrained |-> FALSE, liquidityWithdrawn |-> 0]
    /\ market = [created |-> FALSE, resolved |-> FALSE, result |-> "none",
                 liquidityDrained |-> FALSE]

\* createMarket: clone and initialize the pool with the factory's current
\* configuration, move the seed, seedLiquidity, store the record.
CreateMarket(u, amount, withWallet, fee, buffer) ==
    /\ ~market.created
    /\ amount > 0
    /\ amount <= wallet[u]
    /\ fee <= MaxProtocolFee
    /\ buffer <= MaxClaimsBuffer
    /\ withWallet \/ fee = 0
    /\ feeWalletSet' = withWallet
    /\ protocolFeeBps' = fee
    /\ claimsBufferBps' = buffer
    /\ wallet' = [wallet EXCEPT ![u] = @ - amount]
    /\ poolBalance' = poolBalance + amount
    /\ yesReserve' = amount * Scale
    /\ noReserve' = amount * Scale
    /\ totalLpShares' = amount * Scale
    /\ lpShareOf' = [lpShareOf EXCEPT ![u] = amount * Scale]
    /\ market' = [market EXCEPT !.created = TRUE]
    /\ UNCHANGED <<feesPaid, treasuryPaid, tokens, pool>>

\* buyYes / buyNo / buyYesFor / buyNoFor
Buy(u, side, usdcIn) ==
    LET scaledIn == ScaledIn(usdcIn)
        shares == BuyShares(side, scaledIn)
    IN  /\ Open
        /\ usdcIn > 0
        /\ usdcIn <= wallet[u]
        /\ BuyCounter(side, scaledIn) > 0
        /\ shares > 0
        /\ wallet' = [wallet EXCEPT ![u] = @ - usdcIn]
        /\ feesPaid' = feesPaid + (usdcIn - NetIn(usdcIn))
        /\ poolBalance' = poolBalance + NetIn(usdcIn)
        /\ yesReserve' = IF side = "yes" THEN BuyOwn(side, scaledIn)
                                         ELSE BuyCounter(side, scaledIn)
        /\ noReserve' = IF side = "yes" THEN BuyCounter(side, scaledIn)
                                        ELSE BuyOwn(side, scaledIn)
        /\ balanceOf' = [balanceOf EXCEPT ![side][u] = @ + shares]
        /\ totalSupply' = [totalSupply EXCEPT ![side] = @ + shares]
        /\ UNCHANGED <<treasuryPaid, lp, config, flags>>

\* sellYes / sellNo / sellYesFor / sellNoFor; `out` is what the quote pays
Sell(u, side, shares, out) ==
    LET grossOut == out \div Scale
        afterLpFee == grossOut - Portion(grossOut, FeeBps)
        fee == Portion(afterLpFee, protocolFeeBps)
        usdcOut == afterLpFee - fee
    IN  /\ Open
        /\ shares > 0
        /\ shares <= balanceOf[side][u]
        /\ IsSellPayout(side, shares, out)
        /\ usdcOut > 0
        /\ afterLpFee <= poolBalance
        /\ balanceOf' = [balanceOf EXCEPT ![side][u] = @ - shares]
        /\ totalSupply' = [totalSupply EXCEPT ![side] = @ - shares]
        /\ yesReserve' = IF side = "yes" THEN yesReserve + shares - out
                                         ELSE yesReserve - out
        /\ noReserve' = IF side = "yes" THEN noReserve - out
                                        ELSE noReserve + shares - out
        /\ feesPaid' = feesPaid + fee
        /\ poolBalance' = poolBalance - afterLpFee
        /\ wallet' = [wallet EXCEPT ![u] = @ + usdcOut]
        /\ UNCHANGED <<treasuryPaid, lp, config, flags>>

\* addLiquidity: both legs grow in proportion to the current reserves
AddLiquidity(u, amount) ==
    LET scaled == amount * Scale
        total == yesReserve + noReserve
        shares == LpMinted(scaled)
    IN  /\ amount > 0
        /\ yesReserve > 0
        /\ ~pool.resolved
        /\ amount <= wallet[u]
        /\ wallet' = [wallet EXCEPT ![u] = @ - amount]
        /\ poolBalance' = poolBalance + amount
        /\ yesReserve' = yesReserve + ((scaled * yesReserve) \div total) * 2
        /\ noReserve' = noReserve + ((scaled * noReserve) \div total) * 2
        /\ totalLpShares' = totalLpShares + shares
        /\ lpShareOf' = [lpShareOf EXCEPT ![u] = @ + shares]
        /\ UNCHANGED <<feesPaid, treasuryPaid, tokens, config, flags>>

\* removeLiquidity: only after resolution, and never below Reserved
RemoveLiquidity(u, shares) ==
    LET yesRemove == LegShare(yesReserve, shares)
        noRemove == LegShare(noReserve, shares)
        usdcOut == (yesRemove + noRemove) \div (2 * Scale)
    IN  /\ shares > 0
        /\ shares <= lpShareOf[u]
        /\ pool.resolved
        /\ usdcOut > 0
        /\ poolBalance >= Reserved + usdcOut
        /\ yesReserve' = yesReserve - yesRemove
        /\ noReserve' = noReserve - noRemove
        /\ totalLpShares' = totalLpShares - shares
        /\ lpShareOf' = [lpShareOf EXCEPT ![u] = @ - shares]
        /\ poolBalance' = poolBalance - usdcOut
        /\ wallet' = [wallet EXCEPT ![u] = @ + usdcOut]
        /\ UNCHANGED <<feesPaid, treasuryPaid, tokens, config, flags>>

\* resolveMarket (and the truthful branch of assertionResolvedCallback): the
\* factory records the result and the pool is notified through onResolved.
Resolve(side) ==
    /\ market.created
    /\ ~market.resolved
    /\ ~pool.resolved
    /\ market' = [market EXCEPT !.resolved = TRUE, !.result = side]
    /\ pool' = [pool EXCEPT !.resolved = TRUE, !.yesWon = (side = "yes")]
    /\ UNCHANGED <<money, reserves, lp, tokens, config>>

\* redeem -> redeemFor: burn the caller's whole winning balance, pay the
\* whole USDC units of it.
Redeem(u) ==
    LET shares == balanceOf[market.result][u]
        usdcOut == shares \div Scale
    IN  /\ market.resolved
        /\ usdcOut > 0
        /\ usdcOut <= poolBalance
        /\ balanceOf' = [balanceOf EXCEPT ![market.result][u] = 0]
        /\ totalSupply' = [totalSupply EXCEPT ![market.result] = @ - shares]
        /\ poolBalance' = poolBalance - usdcOut
        /\ wallet' = [wallet EXCEPT ![u] = @ + usdcOut]
        /\ UNCHANGED <<feesPaid, treasuryPaid, reserves, lp, config, flags>>

\* drainMarketLiquidity -> withdrawExcessLiquidity
Drain ==
    /\ market.resolved
    /\ ~market.liquidityDrained
    /\ pool.resolved
    /\ ~pool.liquidityDrained
    /\ market' = [market EXCEPT !.liquidityDrained = TRUE]
    /\ pool' = [pool EXCEPT !.liquidityDrained = TRUE,
                            !.liquidityWithdrawn = Withdrawable]
    /\ poolBalance' = poolBalance - Withdrawable
    /\ treasuryPaid' = treasuryPaid + Withdrawable
    /\ UNCHANGED <<wallet, feesPaid, reserves, lp, tokens, config>>

\* updatePoolFeeWallet -> setFeeWallet
UpdatePoolFeeWallet ==
    /\ market.created
    /\ ~feeWalletSet
    /\ feeWalletSet' = TRUE
    /\ UNCHANGED <<money, reserves, lp, tokens, protocolFeeBps,
                   claimsBufferBps, flags>>

\* updatePoolProtocolFeeBps -> setProtocolFeeBps
UpdatePoolProtocolFeeBps(fee) ==
    /\ market.created
    /\ fee <= MaxProtocolFee
    /\ feeWalletSet \/ fee = 0
    /\ protocolFeeBps' = fee
    /\ UNCHANGED <<money, reserves, lp, tokens, feeWalletSet,
                   claimsBufferBps, flags>>

\* updatePoolClaimsBufferBps -> setClaimsBufferBps
UpdatePoolClaimsBufferBps(buffer) ==
    /\ market.created
    /\ buffer <= MaxClaimsBuffer
    /\ claimsBufferBps' = buffer
    /\ UNCHANGED <<money, reserves, lp, tokens, feeWalletSet,
                   protocolFeeBps, flags>>

AdminStep ==
    \/ UpdatePoolFeeWallet
    \/ \E fee \in ProtocolFees : UpdatePoolProtocolFeeBps(fee)
    \/ \E buffer \in ClaimsBuffers : UpdatePoolClaimsBufferBps(buffer)

Creation ==
    \E u \in Users, amount \in Amounts, w \in BOOLEAN,
       fee \in ProtocolFees, buffer \in ClaimsBuffers :
        CreateMarket(u, amount, w, fee, buffer)

PoolStep ==
    \/ \E u \in Users, side \in Side, amount \in Amounts : Buy(u, side, amount)
    \/ \E u \in Users, side \in Side, shares \in ShareAmounts :
          \E out \in 0..shares : Sell(u, side, shares, out)
    \/ \E u \in Users, shares \in ShareAmounts : RemoveLiquidity(u, shares)
    \/ \E u \in Users : Redeem(u)
    \/ Drain
    \/ AdminStep

\* Everything but later LP deposits: the calls the backend makes, and what a
\* user can do with a market it created.
Next == Creation \/ PoolStep \/ \E side \in Side : Resolve(side)

\* The whole external interface of the pool.
NextWithDeposits ==
    \/ Next
    \/ \E u \in Users, amount \in Amounts : AddLiquidity(u, amount)

Spec == Init /\ [][Next]_vars
SpecWithDeposits == Init /\ [][NextWithDeposits]_vars

---------------------------------------------------------------------------
(* Properties *)

\* Whichever side wins, the pool holds a USDC unit for every whole share it
\* would have to redeem: the complete-set accounting behind buy and sell.
EitherOutcomeCovered ==
    ~pool.resolved =>
        \A side \in Side : totalSupply[side] <= poolBalance * Scale

\* After resolution, whatever redemptions, LP withdrawals, buffer changes and
\* the treasury drain did in whatever order, every winner can still be paid.
WinnersCovered ==
    pool.resolved =>
        SumOver([u \in Users |-> balanceOf[Winner][u] \div Scale]) <= poolBalance

\* The same bound on the pool's own figure, which getWithdrawableLiquidity
\* and the guard of removeLiquidity rely on.
ClaimsCovered == Claims <= poolBalance

\* The two contracts tell the same story of one market: resolved, who won,
\* drained; each flag lives in both and is set by nested calls.
FactoryAndPoolAgree ==
    /\ market.resolved = pool.resolved
    /\ market.resolved => market.result = Winner
    /\ market.liquidityDrained = pool.liquidityDrained
    /\ ~market.resolved => market.result = "none"

\* The token contracts' totals, and the LP total the shares are divided by,
\* are the sums of what the users hold.
LedgersAddUp ==
    /\ \A side \in Side :
          /\ IsFiniteSet(UnitsOf(balanceOf[side]))
          /\ totalSupply[side] = SumOver(balanceOf[side])
    /\ IsFiniteSet(UnitsOf(lpShareOf))
    /\ totalLpShares = SumOver(lpShareOf)

\* Before createMarket there is nothing to trade, resolve or divide.
Pristine ==
    ~market.created =>
        /\ ~market.resolved
        /\ \A side \in Side : totalSupply[side] = 0
        /\ totalLpShares = 0
        /\ yesReserve = 0
        /\ noReserve = 0

\* Complete sets: reserves and outstanding shares of the two sides add up to
\* the same number, and the pool holds that many shares' worth of USDC.
CompleteSets ==
    ~pool.resolved =>
        /\ yesReserve + totalSupply["yes"] = noReserve + totalSupply["no"]
        /\ yesReserve + totalSupply["yes"] <= poolBalance * Scale

\* The inductive invariant of SpecWithDeposits ...
BaseInv == TypeOK /\ LedgersAddUp /\ FactoryAndPoolAgree /\ Pristine

\* ... and of Spec.
SolvencyInv == BaseInv /\ CompleteSets /\ ClaimsCovered

\* Joining or leaving an LP position is fair to those who stay: what one LP
\* share stands for in each leg does not go down, but for the two units that
\* addLiquidity loses by halving and rounding.
LpShareKeepsValue ==
    [][totalLpShares > 0 /\ totalLpShares' # totalLpShares =>
        /\ (yesReserve' + 2) * totalLpShares >= yesReserve * totalLpShares'
        /\ (noReserve' + 2) * totalLpShares >= noReserve * totalLpShares']_vars

\* A resolution is final, and from then on winning shares only disappear and
\* USDC only leaves the pool: nothing dilutes or reopens a settled market.
SettlementFinal ==
    [][pool.resolved =>
        /\ pool'.resolved
        /\ pool'.yesWon = pool.yesWon
        /\ market'.result = market.result
        /\ \A side \in Side : totalSupply'[side] <= totalSupply[side]
        /\ poolBalance' <= poolBalance]_vars

\* The pool implements a market that pays its winners in full, out of a pot
\* that trades keep covered and nobody draws below what is owed.
Promise == INSTANCE OutcomeMarket WITH
    Holders <- Users,
    Outcomes <- Side,
    possible <- IF pool.resolved THEN {Winner} ELSE Side,
    held <- [s \in Side |-> [u \in Users |-> balanceOf[s][u] \div Scale]],
    pot <- poolBalance

KeepsPromise == Promise!Spec
===========================================================================
