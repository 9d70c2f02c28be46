---------------------------- MODULE CPMMProofs ----------------------------
(***************************************************************************)
(* What is true of the pool for every Scale, every fee and buffer setting, *)
(* every amount and any set of users; of the API's copy of its arithmetic; *)
(* and of its result when an oracle decides: every behaviour of OracleSpec *)
(* is one of Spec, so whatever is proved of the pool holds there too.      *)
(***************************************************************************)
EXTENDS OracleMarket, Estimates, SellQuote, SumProofs

\* A portion of at most the whole is between nothing and everything.
LEMMA PortionBounds ==
    ASSUME NEW amount \in Nat, NEW bps \in Nat, bps <= Bps
    PROVE  /\ Portion(amount, bps) \in Nat
           /\ Portion(amount, bps) <= amount
<1>1. amount * bps \in Nat /\ amount * bps <= Bps * amount
    BY ProductNat, ProductMonotone, BpsAssumption
<1>2. QED
    BY <1>1, DivFloor, BpsAssumption DEF Portion

---------------------------------------------------------------------------
(* Types, ledgers and flags: every call of the interface *)

\* A mint or a burn of one user's tokens keeps the ledger in step.
LEMMA TokenUpdate ==
    ASSUME TypeOK, LedgersAddUp,
           NEW side \in Side, NEW u \in Users, NEW n \in Nat,
           balanceOf' = [balanceOf EXCEPT ![side][u] = n],
           totalSupply' = [totalSupply EXCEPT ![side] = @ - balanceOf[side][u] + n]
    PROVE  /\ balanceOf' \in [Side -> [Users -> Nat]]
           /\ totalSupply' \in [Side -> Nat]
           /\ balanceOf[side][u] <= totalSupply[side]
           /\ \A s \in Side : /\ IsFiniteSet(UnitsOf(balanceOf'[s]))
                              /\ totalSupply'[s] = SumOver(balanceOf'[s])
<1> DEFINE f == balanceOf[side]
           g == [f EXCEPT ![u] = n]
<1>1. f \in [Users -> Nat] /\ IsFiniteSet(UnitsOf(f))
    BY DEF TypeOK, LedgersAddUp
<1>2. /\ IsFiniteSet(UnitsOf(g))
      /\ SumOver(g) = SumOver(f) - f[u] + n
      /\ SumOver(f) \in Nat
      /\ f[u] <= SumOver(f)
    <2> HIDE DEF f
    <2>1. QED
        BY <1>1, SumUpdate
<1>3. balanceOf' = [balanceOf EXCEPT ![side] = g]
    BY DEF TypeOK
<1>4. balanceOf'[side] = g /\ \A s \in Side \ {side} : balanceOf'[s] = balanceOf[s]
    BY <1>3 DEF TypeOK
<1>5. /\ totalSupply'[side] = totalSupply[side] - f[u] + n
      /\ \A s \in Side \ {side} : totalSupply'[s] = totalSupply[s]
    BY DEF TypeOK
<1>6. totalSupply[side] = SumOver(f)
    BY DEF LedgersAddUp
<1>7. balanceOf' \in [Side -> [Users -> Nat]]
    BY <1>1, <1>3 DEF TypeOK
<1>8. f[u] \in Nat
    BY <1>1
<1>9. totalSupply' \in [Side -> Nat]
    <2>1. totalSupply[side] - f[u] + n \in Nat
        BY <1>2, <1>6, <1>8
    <2>2. QED
        BY <2>1 DEF TypeOK
<1>10. \A s \in Side : /\ IsFiniteSet(UnitsOf(balanceOf'[s]))
                       /\ totalSupply'[s] = SumOver(balanceOf'[s])
    <2> SUFFICES ASSUME NEW s \in Side
                 PROVE  /\ IsFiniteSet(UnitsOf(balanceOf'[s]))
                        /\ totalSupply'[s] = SumOver(balanceOf'[s])
        OBVIOUS
    <2>1. CASE s = side
        BY <2>1, <1>2, <1>4, <1>5, <1>6
    <2>2. CASE s # side
        BY <2>2, <1>4, <1>5 DEF LedgersAddUp
    <2>3. QED
        BY <2>1, <2>2
<1>11. QED
    BY <1>2, <1>6, <1>7, <1>9, <1>10

\* A change of one user's LP shares with the total.
LEMMA LpUpdate ==
    ASSUME TypeOK, LedgersAddUp, NEW u \in Users, NEW n \in Nat,
           lpShareOf' = [lpShareOf EXCEPT ![u] = n],
           totalLpShares' = totalLpShares - lpShareOf[u] + n
    PROVE  /\ lpShareOf' \in [Users -> Nat]
           /\ totalLpShares' \in Nat
           /\ lpShareOf[u] <= totalLpShares
           /\ IsFiniteSet(UnitsOf(lpShareOf'))
           /\ totalLpShares' = SumOver(lpShareOf')
<1>1. lpShareOf \in [Users -> Nat] /\ IsFiniteSet(UnitsOf(lpShareOf))
    BY DEF TypeOK, LedgersAddUp
<1>2. /\ IsFiniteSet(UnitsOf(lpShareOf'))
      /\ SumOver(lpShareOf') = SumOver(lpShareOf) - lpShareOf[u] + n
      /\ SumOver(lpShareOf) \in Nat
      /\ lpShareOf[u] <= SumOver(lpShareOf)
    BY <1>1, SumUpdate
<1>3. totalLpShares = SumOver(lpShareOf)
    BY DEF LedgersAddUp
<1>4. QED
    BY <1>1, <1>2, <1>3

LEMMA CreateMarketBase ==
    ASSUME BaseInv, NEW u \in Users, NEW amount \in Nat, NEW w \in BOOLEAN,
           NEW fee \in Nat, NEW buffer \in Nat,
           CreateMarket(u, amount, w, fee, buffer)
    PROVE  BaseInv'
<1> USE DEF BaseInv, CreateMarket
<1>1. amount * Scale \in Nat
    BY ProductNat, ScaleAssumption
<1>2. totalLpShares = 0 /\ lpShareOf[u] = 0
    BY SumBound DEF Pristine, LedgersAddUp, TypeOK
<1>3. /\ lpShareOf' \in [Users -> Nat]
      /\ totalLpShares' \in Nat
      /\ IsFiniteSet(UnitsOf(lpShareOf'))
      /\ totalLpShares' = SumOver(lpShareOf')
    <2>1. totalLpShares' = totalLpShares - lpShareOf[u] + amount * Scale
        BY <1>1, <1>2
    <2>2. QED
        BY <1>1, <2>1, LpUpdate
<1>4. TypeOK'
    <2>1. wallet' \in [Users -> Nat] /\ poolBalance' \in Nat
        BY DEF TypeOK
    <2>2. protocolFeeBps' \in 0..MaxProtocolFee /\ claimsBufferBps' \in 0..MaxClaimsBuffer
        BY CapAssumption, BpsAssumption
    <2>3. market' \in MarketRecord /\ pool' \in PoolState
        BY DEF TypeOK, MarketRecord
    <2>4. yesReserve' \in Nat /\ noReserve' \in Nat
        BY <1>1
    <2>5. QED
        BY <1>3, <2>1, <2>2, <2>3, <2>4 DEF TypeOK, tokens
<1>5. LedgersAddUp'
    BY <1>3 DEF LedgersAddUp, tokens
<1>6. FactoryAndPoolAgree' /\ Pristine'
    BY DEF TypeOK, FactoryAndPoolAgree, Pristine, Winner, MarketRecord, PoolState
<1>7. QED
    BY <1>4, <1>5, <1>6

\* What a buy leaves in each leg, and what it pays in.
LEMMA BuyBounds ==
    ASSUME TypeOK, NEW side \in Side, NEW usdcIn \in Nat,
           NEW netIn, netIn = NetIn(usdcIn),
           NEW scaledIn, scaledIn = ScaledIn(usdcIn)
    PROVE  /\ netIn \in Nat
           /\ netIn <= usdcIn
           /\ scaledIn \in Nat
           /\ scaledIn <= netIn * Scale
           /\ BuyCounter(side, scaledIn) \in Nat
           /\ BuyCounter(side, scaledIn) > 0 => BuyOwn(side, scaledIn) \in Nat
<1>1. protocolFeeBps \in Nat /\ protocolFeeBps <= Bps
    BY CapAssumption, BpsAssumption DEF TypeOK
<1>2. netIn \in Nat /\ netIn <= usdcIn
    BY <1>1, PortionBounds DEF NetIn
<1>3. FeeBps \in Nat /\ FeeBps <= Bps
    BY FeeAssumption, BpsAssumption
<1>4. /\ netIn - Portion(netIn, FeeBps) \in Nat
      /\ netIn - Portion(netIn, FeeBps) <= netIn
    BY <1>2, <1>3, PortionBounds
<1>5. scaledIn \in Nat /\ scaledIn <= netIn * Scale
    <2>1. scaledIn = (netIn - Portion(netIn, FeeBps)) * Scale
        BY DEF ScaledIn
    <2>2. QED
        BY <1>2, <1>4, <2>1, ProductNat, ProductMonotone, ScaleAssumption
<1>6. BuyCounter(side, scaledIn) \in Nat
    BY <1>5 DEF BuyCounter, Counter, TypeOK
<1>7. ASSUME BuyCounter(side, scaledIn) > 0
      PROVE  BuyOwn(side, scaledIn) \in Nat
    <2>1. yesReserve * noReserve \in Nat
        BY ProductNat DEF TypeOK
    <2>2. QED
        BY <1>6, <1>7, <2>1, DivFloor DEF BuyOwn
<1>8. QED
    BY <1>2, <1>5, <1>6, <1>7

LEMMA BuyBase ==
    ASSUME BaseInv, NEW u \in Users, NEW side \in Side, NEW usdcIn \in Nat,
           Buy(u, side, usdcIn)
    PROVE  BaseInv'
<1> DEFINE netIn == NetIn(usdcIn)
           scaledIn == ScaledIn(usdcIn)
           shares == BuyShares(side, scaledIn)
<1> USE DEF BaseInv
<1>1. /\ netIn \in Nat
      /\ netIn <= usdcIn
      /\ scaledIn \in Nat
      /\ BuyCounter(side, scaledIn) \in Nat
      /\ BuyOwn(side, scaledIn) \in Nat
    BY BuyBounds DEF Buy
<1>2. shares \in Nat
    <2> HIDE DEF scaledIn
    <2>1. QED
        BY <1>1 DEF Buy, BuyShares, Own, TypeOK, scaledIn
<1> HIDE DEF netIn, scaledIn, shares
<1>3. /\ wallet' = [wallet EXCEPT ![u] = @ - usdcIn]
      /\ usdcIn <= wallet[u]
      /\ feesPaid' = feesPaid + (usdcIn - netIn)
      /\ poolBalance' = poolBalance + netIn
      /\ yesReserve' \in {BuyOwn(side, scaledIn), BuyCounter(side, scaledIn)}
      /\ noReserve' \in {BuyOwn(side, scaledIn), BuyCounter(side, scaledIn)}
      /\ balanceOf' = [balanceOf EXCEPT ![side][u] = @ + shares]
      /\ totalSupply' = [totalSupply EXCEPT ![side] = @ + shares]
      /\ UNCHANGED <<treasuryPaid, lp, config, flags>>
      /\ market.created
    BY DEF Buy, Open, netIn, scaledIn, shares
<1>4. balanceOf[side][u] \in Nat /\ totalSupply[side] \in Nat
    BY DEF TypeOK
<1> DEFINE held == balanceOf[side][u] + shares
<1>5. /\ balanceOf' = [balanceOf EXCEPT ![side][u] = held]
      /\ totalSupply' = [totalSupply EXCEPT ![side] = @ - balanceOf[side][u] + held]
      /\ held \in Nat
    <2>1. totalSupply[side] + shares = totalSupply[side] - balanceOf[side][u] + held
        BY <1>2, <1>4
    <2>2. balanceOf' = [balanceOf EXCEPT ![side][u] = held]
        BY <1>3
    <2>3. totalSupply' = [totalSupply EXCEPT ![side] = @ - balanceOf[side][u] + held]
        <3> HIDE DEF held
        <3>1. QED
            BY <1>3, <2>1
    <2>4. QED
        BY <1>2, <1>4, <2>2, <2>3
<1>6. /\ balanceOf' \in [Side -> [Users -> Nat]]
      /\ totalSupply' \in [Side -> Nat]
      /\ \A s \in Side : /\ IsFiniteSet(UnitsOf(balanceOf'[s]))
                         /\ totalSupply'[s] = SumOver(balanceOf'[s])
    <2> HIDE DEF held
    <2>1. QED
        BY <1>5, TokenUpdate
<1>7. TypeOK'
    BY <1>1, <1>3, <1>6 DEF TypeOK, lp, config, flags
<1>8. LedgersAddUp'
    BY <1>3, <1>6 DEF LedgersAddUp, lp
<1>9. FactoryAndPoolAgree' /\ Pristine'
    BY <1>3 DEF FactoryAndPoolAgree, Pristine, Winner, flags
<1>10. QED
    BY <1>7, <1>8, <1>9

\* What a sell takes out of the legs and out of the pool.
LEMMA SellBounds ==
    ASSUME TypeOK, NEW side \in Side, NEW shares \in Nat, NEW out \in Nat,
           IsSellPayout(side, shares, out),
           NEW grossOut, grossOut = out \div Scale,
           NEW afterLpFee, afterLpFee = grossOut - Portion(grossOut, FeeBps),
           NEW fee, fee = Portion(afterLpFee, protocolFeeBps)
    PROVE  /\ out <= shares
           /\ out <= Counter(side)
           /\ afterLpFee \in Nat
           /\ afterLpFee * Scale <= out
           /\ fee \in Nat
           /\ fee <= afterLpFee
<1>1. out <= shares /\ out <= Counter(side)
    BY DEF IsSellPayout, IsLargestPayout, Payable
<1>2. grossOut \in Nat /\ grossOut * Scale <= out
    BY DivFloor, ScaleAssumption
<1>3. /\ FeeBps \in Nat /\ FeeBps <= Bps
      /\ protocolFeeBps \in Nat /\ protocolFeeBps <= Bps
    BY FeeAssumption, BpsAssumption, CapAssumption DEF TypeOK
<1>4. afterLpFee \in Nat /\ afterLpFee <= grossOut
    BY <1>2, <1>3, PortionBounds
<1>5. fee \in Nat /\ fee <= afterLpFee
    BY <1>3, <1>4, PortionBounds
<1>6. afterLpFee * Scale <= grossOut * Scale
    BY <1>2, <1>4, ProductMonotone, ScaleAssumption
<1>7. afterLpFee * Scale \in Nat /\ grossOut * Scale \in Nat
    BY <1>2, <1>4, ProductNat, ScaleAssumption
<1>8. QED
    BY <1>1, <1>2, <1>4, <1>5, <1>6, <1>7

LEMMA SellBase ==
    ASSUME BaseInv, NEW u \in Users, NEW side \in Side,
           NEW shares \in Nat, NEW out \in Nat, Sell(u, side, shares, out)
    PROVE  BaseInv'
<1> DEFINE grossOut == out \div Scale
           afterLpFee == grossOut - Portion(grossOut, FeeBps)
           fee == Portion(afterLpFee, protocolFeeBps)
<1> USE DEF BaseInv
<1>1. /\ out <= shares
      /\ out <= Counter(side)
      /\ afterLpFee \in Nat
      /\ fee \in Nat
      /\ fee <= afterLpFee
    BY SellBounds DEF Sell
<1> HIDE DEF afterLpFee, fee
<1>2. /\ wallet' = [wallet EXCEPT ![u] = @ + (afterLpFee - fee)]
      /\ afterLpFee <= poolBalance
      /\ shares <= balanceOf[side][u]
      /\ feesPaid' = feesPaid + fee
      /\ poolBalance' = poolBalance - afterLpFee
      /\ yesReserve' = IF side = "yes" THEN yesReserve + shares - out
                                       ELSE yesReserve - out
      /\ noReserve' = IF side = "yes" THEN noReserve - out
                                      ELSE noReserve + shares - out
      /\ balanceOf' = [balanceOf EXCEPT ![side][u] = @ - shares]
      /\ totalSupply' = [totalSupply EXCEPT ![side] = @ - shares]
      /\ UNCHANGED <<treasuryPaid, lp, config, flags>>
      /\ market.created
    BY DEF Sell, Open, afterLpFee, fee
<1> DEFINE held == balanceOf[side][u] - shares
<1>3. balanceOf[side][u] \in Nat /\ totalSupply[side] \in Nat
    BY DEF TypeOK
<1>4. /\ balanceOf' = [balanceOf EXCEPT ![side][u] = held]
      /\ totalSupply' = [totalSupply EXCEPT ![side] = @ - balanceOf[side][u] + held]
      /\ held \in Nat
    <2>1. totalSupply[side] - shares = totalSupply[side] - balanceOf[side][u] + held
        BY <1>3
    <2>2. balanceOf' = [balanceOf EXCEPT ![side][u] = held]
        BY <1>2
    <2>3. totalSupply' = [totalSupply EXCEPT ![side] = @ - balanceOf[side][u] + held]
        <3> HIDE DEF held
        <3>1. QED
            BY <1>2, <2>1
    <2>4. held \in Nat
        BY <1>2, <1>3
    <2>5. QED
        BY <2>2, <2>3, <2>4
<1>5. /\ balanceOf' \in [Side -> [Users -> Nat]]
      /\ totalSupply' \in [Side -> Nat]
      /\ \A s \in Side : /\ IsFiniteSet(UnitsOf(balanceOf'[s]))
                         /\ totalSupply'[s] = SumOver(balanceOf'[s])
    <2> HIDE DEF held
    <2>1. QED
        BY <1>4, TokenUpdate
<1>6. yesReserve' \in Nat /\ noReserve' \in Nat
    BY <1>1, <1>2 DEF Counter, TypeOK
<1>7. TypeOK'
    BY <1>1, <1>2, <1>5, <1>6 DEF TypeOK, lp, config, flags
<1>8. LedgersAddUp'
    BY <1>2, <1>5 DEF LedgersAddUp, lp
<1>9. FactoryAndPoolAgree' /\ Pristine'
    BY <1>2 DEF FactoryAndPoolAgree, Pristine, Winner, flags
<1>10. QED
    BY <1>7, <1>8, <1>9

LEMMA AddLiquidityBase ==
    ASSUME BaseInv, NEW u \in Users, NEW amount \in Nat, AddLiquidity(u, amount)
    PROVE  BaseInv'
<1> DEFINE scaled == amount * Scale
           total == yesReserve + noReserve
           shares == (totalLpShares * scaled * 2) \div total
           yesAdd == ((scaled * yesReserve) \div total) * 2
           noAdd == ((scaled * noReserve) \div total) * 2
           held == lpShareOf[u] + shares
<1> USE DEF BaseInv
<1>1. scaled \in Nat
    BY ProductNat, ScaleAssumption
<1>2. total \in Nat /\ total > 0
    BY DEF AddLiquidity, TypeOK
<1>3. totalLpShares * scaled * 2 \in Nat
    BY <1>1, ProductNat DEF TypeOK
<1>4. scaled * yesReserve \in Nat /\ scaled * noReserve \in Nat
    BY <1>1, ProductNat DEF TypeOK
<1> HIDE DEF scaled, total
<1>5. shares \in Nat /\ yesAdd \in Nat /\ noAdd \in Nat
    BY <1>2, <1>3, <1>4, DivFloor
<1> HIDE DEF shares, yesAdd, noAdd
<1>6. /\ wallet' = [wallet EXCEPT ![u] = @ - amount]
      /\ amount <= wallet[u]
      /\ poolBalance' = poolBalance + amount
      /\ yesReserve' = yesReserve + yesAdd
      /\ noReserve' = noReserve + noAdd
      /\ totalLpShares' = totalLpShares + shares
      /\ lpShareOf' = [lpShareOf EXCEPT ![u] = @ + shares]
      /\ UNCHANGED <<feesPaid, treasuryPaid, tokens, config, flags>>
      /\ yesReserve > 0
    BY DEF AddLiquidity, LpMinted, scaled, total, shares, yesAdd, noAdd
<1>7. lpShareOf[u] \in Nat /\ totalLpShares \in Nat
    BY DEF TypeOK
<1>8. held \in Nat /\ totalLpShares + shares = totalLpShares - lpShareOf[u] + held
    BY <1>5, <1>7
<1>9. lpShareOf' = [lpShareOf EXCEPT ![u] = held]
    BY <1>6
<1> HIDE DEF held
<1>10. /\ lpShareOf' \in [Users -> Nat]
       /\ totalLpShares' \in Nat
       /\ IsFiniteSet(UnitsOf(lpShareOf'))
       /\ totalLpShares' = SumOver(lpShareOf')
    BY <1>6, <1>8, <1>9, LpUpdate
<1>11. TypeOK'
    BY <1>5, <1>6, <1>10 DEF TypeOK, tokens, config, flags
<1>12. LedgersAddUp'
    BY <1>6, <1>10 DEF LedgersAddUp, tokens
<1>13. FactoryAndPoolAgree' /\ Pristine'
    BY <1>6 DEF FactoryAndPoolAgree, Pristine, Winner, flags
<1>14. QED
    BY <1>11, <1>12, <1>13

\* What both ways out of the pool set aside covers the claims.
LEMMA ReservedNat ==
    ASSUME TypeOK
    PROVE  /\ Claims \in Nat
           /\ Reserved \in Nat
           /\ Claims <= Reserved
<1>1. Winner \in Side
    BY DEF Winner, Side
<1>2. Claims \in Nat
    <2>1. totalSupply[Winner] \in Nat
        BY <1>1 DEF TypeOK
    <2>2. totalSupply[Winner] \div Scale \in Nat
        BY <2>1, DivFloor, ScaleAssumption
    <2>3. QED
        BY <2>2 DEF Claims
<1>3. claimsBufferBps \in Nat /\ claimsBufferBps <= Bps
    BY CapAssumption, BpsAssumption DEF TypeOK
<1>4. Portion(Claims, claimsBufferBps) \in Nat
    BY <1>2, <1>3, PortionBounds
<1>5. QED
    BY <1>2, <1>4 DEF Reserved

\* removeLiquidity takes a fraction of at most one of each leg.
LEMMA RemoveBounds ==
    ASSUME NEW reserve \in Nat, NEW shares \in Nat, NEW total \in Nat,
           total > 0, shares <= total
    PROVE  /\ (reserve * shares) \div total \in Nat
           /\ (reserve * shares) \div total <= reserve
<1> DEFINE x == reserve * shares
           q == x \div total
<1>1. x \in Nat /\ x <= total * reserve
    BY ProductNat, ProductMonotone
<1> HIDE DEF x
<1>2. q \in Nat /\ total * q <= x
    BY <1>1, DivFloor
<1> HIDE DEF q
<1>3. ~(reserve + 1 <= q)
    <2> SUFFICES ASSUME reserve + 1 <= q PROVE FALSE
        OBVIOUS
    <2>1. (reserve + 1) * total <= q * total
        BY <1>2, ProductMonotone
    <2>2. QED
        BY <1>1, <1>2, <2>1
<1>4. QED
    BY <1>2, <1>3 DEF q, x

LEMMA RemoveLiquidityBase ==
    ASSUME BaseInv, NEW u \in Users, NEW shares \in Nat, RemoveLiquidity(u, shares)
    PROVE  /\ BaseInv'
           /\ poolBalance' <= poolBalance
           /\ poolBalance' >= Reserved
<1> DEFINE yesRemove == (yesReserve * shares) \div totalLpShares
           noRemove == (noReserve * shares) \div totalLpShares
           usdcOut == (yesRemove + noRemove) \div (2 * Scale)
           held == lpShareOf[u] - shares
<1> USE DEF BaseInv
<1>1. shares > 0 /\ shares <= lpShareOf[u] /\ lpShareOf[u] \in Nat /\ totalLpShares \in Nat
    BY DEF RemoveLiquidity, TypeOK
<1>2. lpShareOf[u] <= totalLpShares
    BY SumBound DEF LedgersAddUp, TypeOK
<1>3. totalLpShares > 0 /\ shares <= totalLpShares
    BY <1>1, <1>2
<1>4. /\ yesRemove \in Nat /\ yesRemove <= yesReserve
      /\ noRemove \in Nat /\ noRemove <= noReserve
    BY <1>1, <1>3, RemoveBounds DEF TypeOK
<1> HIDE DEF yesRemove, noRemove
<1>5. usdcOut \in Nat
    BY <1>4, DivFloor, ScaleAssumption
<1> HIDE DEF usdcOut
<1>6. /\ wallet' = [wallet EXCEPT ![u] = @ + usdcOut]
      /\ poolBalance' = poolBalance - usdcOut
      /\ poolBalance >= Reserved + usdcOut
      /\ yesReserve' = yesReserve - yesRemove
      /\ noReserve' = noReserve - noRemove
      /\ totalLpShares' = totalLpShares - shares
      /\ lpShareOf' = [lpShareOf EXCEPT ![u] = @ - shares]
      /\ UNCHANGED <<feesPaid, treasuryPaid, tokens, config, flags>>
      /\ pool.resolved
    BY DEF RemoveLiquidity, LegShare, yesRemove, noRemove, usdcOut
<1>7. held \in Nat /\ totalLpShares - shares = totalLpShares - lpShareOf[u] + held
    BY <1>1
<1>8. lpShareOf' = [lpShareOf EXCEPT ![u] = held]
    BY <1>6
<1> HIDE DEF held
<1>9. /\ lpShareOf' \in [Users -> Nat]
      /\ totalLpShares' \in Nat
      /\ IsFiniteSet(UnitsOf(lpShareOf'))
      /\ totalLpShares' = SumOver(lpShareOf')
    BY <1>6, <1>7, <1>8, LpUpdate
<1>10. Reserved \in Nat
    BY ReservedNat
<1>11. poolBalance' \in Nat /\ poolBalance' <= poolBalance /\ poolBalance' >= Reserved
    BY <1>5, <1>6, <1>10 DEF TypeOK
<1>12. TypeOK'
    BY <1>4, <1>5, <1>6, <1>9, <1>11 DEF TypeOK, tokens, config, flags
<1>13. LedgersAddUp'
    BY <1>6, <1>9 DEF LedgersAddUp, tokens
<1>14. FactoryAndPoolAgree' /\ Pristine'
    BY <1>6 DEF FactoryAndPoolAgree, Pristine, Winner, flags
<1>15. QED
    BY <1>11, <1>12, <1>13, <1>14

LEMMA ResolveBase ==
    ASSUME BaseInv, NEW side \in Side, Resolve(side)
    PROVE  BaseInv'
<1> USE DEF BaseInv
<1>1. pool' \in PoolState /\ market' \in MarketRecord
    BY DEF Resolve, TypeOK, PoolState, MarketRecord, Side, Outcome
<1>2. TypeOK'
    BY <1>1 DEF Resolve, TypeOK, money, reserves, lp, tokens, config
<1>3. LedgersAddUp'
    BY DEF Resolve, LedgersAddUp, lp, tokens
<1>4. FactoryAndPoolAgree'
    BY DEF Resolve, FactoryAndPoolAgree, TypeOK, PoolState, MarketRecord, Winner, Side
<1>5. Pristine'
    BY DEF Resolve, Pristine, TypeOK, MarketRecord
<1>6. QED
    BY <1>2, <1>3, <1>4, <1>5

\* A redemption burns winning shares only, and pays no more USDC units than
\* the claims go down by.
LEMMA RedeemBase ==
    ASSUME BaseInv, NEW u \in Users, Redeem(u)
    PROVE  /\ BaseInv'
           /\ poolBalance' <= poolBalance
           /\ Claims - Claims' >= poolBalance - poolBalance'
<1> DEFINE side == market.result
           shares == balanceOf[side][u]
           usdcOut == shares \div Scale
<1> USE DEF BaseInv
<1>1. side = Winner /\ side \in Side /\ pool.resolved
    BY DEF Redeem, FactoryAndPoolAgree, Winner, Side
<1>2. shares \in Nat /\ totalSupply[side] \in Nat
    BY <1>1 DEF TypeOK
<1> HIDE DEF side
<1>3. usdcOut \in Nat
    BY <1>2, DivFloor, ScaleAssumption
<1>4. /\ balanceOf' = [balanceOf EXCEPT ![side][u] = 0]
      /\ totalSupply' = [totalSupply EXCEPT ![side] = @ - shares]
      /\ poolBalance' = poolBalance - usdcOut
      /\ usdcOut <= poolBalance
      /\ wallet' = [wallet EXCEPT ![u] = @ + usdcOut]
      /\ UNCHANGED <<feesPaid, treasuryPaid, reserves, lp, config, flags>>
      /\ market.resolved
    BY DEF Redeem, side
<1>5. totalSupply' = [totalSupply EXCEPT ![side] = @ - balanceOf[side][u] + 0]
    <2>1. totalSupply[side] - shares = totalSupply[side] - balanceOf[side][u] + 0
        BY <1>2
    <2> HIDE DEF shares
    <2>2. QED
        BY <1>4, <2>1
<1>6. /\ balanceOf' \in [Side -> [Users -> Nat]]
      /\ totalSupply' \in [Side -> Nat]
      /\ balanceOf[side][u] <= totalSupply[side]
      /\ \A s \in Side : /\ IsFiniteSet(UnitsOf(balanceOf'[s]))
                         /\ totalSupply'[s] = SumOver(balanceOf'[s])
    BY <1>1, <1>4, <1>5, TokenUpdate
<1> HIDE DEF usdcOut
<1>7. TypeOK'
    BY <1>3, <1>4, <1>6 DEF TypeOK, reserves, lp, config, flags
<1>8. LedgersAddUp'
    BY <1>4, <1>6 DEF LedgersAddUp, lp
<1>9. FactoryAndPoolAgree' /\ Pristine'
    BY <1>1, <1>4 DEF FactoryAndPoolAgree, Pristine, Winner, flags
<1>10. totalSupply'[side] = totalSupply[side] - shares /\ pool' = pool
    BY <1>1, <1>4 DEF TypeOK, flags
<1>11. Claims = totalSupply[side] \div Scale /\ Claims' = totalSupply'[side] \div Scale
    BY <1>1, <1>10 DEF Claims, Winner
<1>12. (totalSupply[side] - shares) \div Scale + usdcOut <= totalSupply[side] \div Scale
    <2> DEFINE x == totalSupply[side] - shares
    <2>1. x \in Int /\ x + shares = totalSupply[side]
        BY <1>2
    <2> HIDE DEF x, shares
    <2>2. (x \div Scale) + (shares \div Scale) <= (x + shares) \div Scale
        BY <1>2, <2>1, DivSuperadditive, ScaleAssumption
    <2>3. QED
        BY <2>1, <2>2 DEF x, usdcOut
<1>13. Claims \in Nat /\ Claims' \in Nat
    <2>1. totalSupply[side] - shares \in Nat
        BY <1>2, <1>6
    <2> HIDE DEF shares
    <2>2. (totalSupply[side] - shares) \div Scale \in Nat
        BY <2>1, DivFloor, ScaleAssumption
    <2>3. QED
        BY <2>2, <1>10, <1>11, ReservedNat
<1>14. Claims - Claims' >= poolBalance - poolBalance' /\ poolBalance' <= poolBalance
    BY <1>3, <1>4, <1>10, <1>11, <1>12, <1>13 DEF TypeOK
<1>15. QED
    BY <1>7, <1>8, <1>9, <1>14

LEMMA DrainBase ==
    ASSUME BaseInv, Drain
    PROVE  /\ BaseInv'
           /\ poolBalance' <= poolBalance
           /\ poolBalance' = poolBalance \/ poolBalance' = Reserved
<1> USE DEF BaseInv
<1>1. Reserved \in Nat
    BY ReservedNat
<1>2. /\ Withdrawable \in Nat
      /\ Withdrawable <= poolBalance
      /\ Withdrawable = 0 \/ poolBalance - Withdrawable = Reserved
    BY <1>1 DEF Withdrawable, TypeOK
<1>3. pool' \in PoolState /\ market' \in MarketRecord
    BY <1>2 DEF Drain, TypeOK, PoolState, MarketRecord
<1>4. poolBalance' \in Nat /\ treasuryPaid' \in Nat
    BY <1>2 DEF Drain, TypeOK
<1>5. TypeOK'
    BY <1>3, <1>4 DEF Drain, TypeOK, reserves, lp, tokens, config
<1>6. LedgersAddUp'
    BY DEF Drain, LedgersAddUp, lp, tokens
<1>7. FactoryAndPoolAgree' /\ Pristine'
    BY DEF Drain, FactoryAndPoolAgree, Pristine, TypeOK, PoolState, MarketRecord,
           Winner, reserves, lp, tokens
<1>8. poolBalance' <= poolBalance /\ (poolBalance' = poolBalance \/ poolBalance' = Reserved)
    BY <1>2 DEF Drain, TypeOK
<1>9. QED
    BY <1>5, <1>6, <1>7, <1>8

LEMMA AdminBase ==
    ASSUME BaseInv, AdminStep
    PROVE  BaseInv'
<1> USE DEF BaseInv
<1>1. TypeOK'
    <2>1. CASE UpdatePoolFeeWallet
        BY <2>1 DEF UpdatePoolFeeWallet, TypeOK, money, reserves, lp, tokens, flags
    <2>2. ASSUME NEW fee \in ProtocolFees, UpdatePoolProtocolFeeBps(fee)
          PROVE  TypeOK'
        <3>1. fee \in 0..MaxProtocolFee
            BY <2>2, FeeAssumption, CapAssumption, BpsAssumption DEF UpdatePoolProtocolFeeBps
        <3>2. QED
            BY <2>2, <3>1 DEF UpdatePoolProtocolFeeBps, TypeOK, money, reserves, lp,
                              tokens, flags
    <2>3. ASSUME NEW buffer \in ClaimsBuffers, UpdatePoolClaimsBufferBps(buffer)
          PROVE  TypeOK'
        <3>1. buffer \in 0..MaxClaimsBuffer
            BY <2>3, FeeAssumption, CapAssumption, BpsAssumption DEF UpdatePoolClaimsBufferBps
        <3>2. QED
            BY <2>3, <3>1 DEF UpdatePoolClaimsBufferBps, TypeOK, money, reserves, lp,
                              tokens, flags
    <2>4. QED
        BY <2>1, <2>2, <2>3 DEF AdminStep
<1>2. UNCHANGED <<money, reserves, lp, tokens, flags>>
    BY DEF AdminStep, UpdatePoolFeeWallet, UpdatePoolProtocolFeeBps,
           UpdatePoolClaimsBufferBps
<1>3. LedgersAddUp' /\ FactoryAndPoolAgree' /\ Pristine'
    BY <1>2 DEF LedgersAddUp, FactoryAndPoolAgree, Pristine, Winner, lp, tokens,
                reserves, flags
<1>4. QED
    BY <1>1, <1>3

\* Every call of the whole interface.
LEMMA BaseStep ==
    ASSUME BaseInv, [NextWithDeposits]_vars
    PROVE  BaseInv'
<1>1. Amounts \subseteq Nat /\ ShareAmounts \subseteq Nat
    BY AmountAssumption
<1>2. ProtocolFees \subseteq Nat /\ ClaimsBuffers \subseteq Nat
    BY FeeAssumption
<1>3. ASSUME NEW u \in Users, NEW amount \in Amounts, NEW w \in BOOLEAN,
             NEW fee \in ProtocolFees, NEW buffer \in ClaimsBuffers,
             CreateMarket(u, amount, w, fee, buffer)
      PROVE  BaseInv'
    BY <1>1, <1>2, <1>3, CreateMarketBase
<1>4. ASSUME NEW u \in Users, NEW side \in Side, NEW amount \in Amounts,
             Buy(u, side, amount)
      PROVE  BaseInv'
    BY <1>1, <1>4, BuyBase
<1>5. ASSUME NEW u \in Users, NEW side \in Side, NEW shares \in ShareAmounts,
             NEW out \in 0..shares, Sell(u, side, shares, out)
      PROVE  BaseInv'
    <2>1. shares \in Nat /\ out \in Nat
        BY <1>1
    <2>2. QED
        BY <1>5, <2>1, SellBase
<1>6. ASSUME NEW u \in Users, NEW shares \in ShareAmounts, RemoveLiquidity(u, shares)
      PROVE  BaseInv'
    BY <1>1, <1>6, RemoveLiquidityBase
<1>7. ASSUME NEW side \in Side, Resolve(side)
      PROVE  BaseInv'
    BY <1>7, ResolveBase
<1>8. ASSUME NEW u \in Users, Redeem(u)
      PROVE  BaseInv'
    BY <1>8, RedeemBase
<1>9. CASE Drain
    BY <1>9, DrainBase
<1>10. CASE AdminStep
    BY <1>10, AdminBase
<1>11. ASSUME NEW u \in Users, NEW amount \in Amounts, AddLiquidity(u, amount)
       PROVE  BaseInv'
    BY <1>1, <1>11, AddLiquidityBase
<1>12. CASE UNCHANGED vars
    BY <1>12 DEF BaseInv, TypeOK, LedgersAddUp, FactoryAndPoolAgree, Pristine, Winner,
                 vars, money, reserves, lp, tokens, config, flags
<1>13. QED
    BY <1>3, <1>4, <1>5, <1>6, <1>7, <1>8, <1>9, <1>10, <1>11, <1>12
       DEF NextWithDeposits, Next, Creation, PoolStep

LEMMA BaseInit == Init => BaseInv
<1> SUFFICES ASSUME Init PROVE BaseInv
    OBVIOUS
<1>1. TypeOK
    <2>1. Endowment \in Nat /\ 0 \in 0..MaxProtocolFee /\ 0 \in 0..MaxClaimsBuffer
        BY CapAssumption, AmountAssumption, BpsAssumption
    <2>2. pool \in PoolState /\ market \in MarketRecord
        BY DEF Init, PoolState, MarketRecord, Outcome
    <2>3. /\ wallet \in [Users -> Nat]
          /\ lpShareOf \in [Users -> Nat]
          /\ balanceOf \in [Side -> [Users -> Nat]]
          /\ totalSupply \in [Side -> Nat]
        BY <2>1 DEF Init
    <2>4. QED
        BY <2>1, <2>2, <2>3 DEF Init, TypeOK
<1>2. LedgersAddUp
    <2>1. \A s \in Side : balanceOf[s] = [u \in Users |-> 0] /\ totalSupply[s] = 0
        BY DEF Init
    <2>2. QED
        BY <2>1, SumZero DEF Init, LedgersAddUp
<1>3. FactoryAndPoolAgree /\ Pristine
    BY DEF Init, FactoryAndPoolAgree, Pristine
<1>4. QED
    BY <1>1, <1>2, <1>3 DEF BaseInv

\* Whatever is called, LP deposits included, the types, the token and LP
\* ledgers, and the two contracts' accounts of the market hold together.
THEOREM DepositsBase == SpecWithDeposits => []BaseInv
<1>1. BaseInv /\ [NextWithDeposits]_vars => BaseInv'
    BY BaseStep
<1>2. QED
    BY BaseInit, <1>1, PTL DEF SpecWithDeposits

---------------------------------------------------------------------------
(* Solvency: every call but a later LP deposit *)

LEMMA Distribute ==
    ASSUME NEW a \in Int, NEW b \in Int, NEW c \in Int
    PROVE  /\ (a + b) * c = a * c + b * c
           /\ (a - b) * c = a * c - b * c
OBVIOUS

\* Paying out no more than the debt goes down by keeps the debt covered.
LEMMA DebtStep ==
    ASSUME NEW before \in Int, NEW after \in Int, NEW held \in Int, NEW kept \in Int,
           before <= held, before - after >= held - kept
    PROVE  after <= kept
OBVIOUS

LEMMA CreateMarketSolvent ==
    ASSUME SolvencyInv, NEW u \in Users, NEW amount \in Nat, NEW w \in BOOLEAN,
           NEW fee \in Nat, NEW buffer \in Nat,
           CreateMarket(u, amount, w, fee, buffer)
    PROVE  CompleteSets' /\ ClaimsCovered'
<1> USE DEF SolvencyInv, BaseInv
<1>1. ~pool.resolved /\ pool' = pool
    BY DEF CreateMarket, Pristine, FactoryAndPoolAgree
<1>2. amount * Scale \in Nat /\ amount * Scale <= (poolBalance + amount) * Scale
    BY ProductNat, ProductMonotone, ScaleAssumption DEF TypeOK
<1>3. totalSupply'["yes"] = 0 /\ totalSupply'["no"] = 0
    BY DEF CreateMarket, Pristine, Side, tokens
<1>4. CompleteSets'
    <2> DEFINE seed == amount * Scale
    <2>1. yesReserve' = seed /\ noReserve' = seed /\ seed <= poolBalance' * Scale
        BY <1>2 DEF CreateMarket
    <2> HIDE DEF seed
    <2>2. seed \in Nat
        BY <1>2 DEF seed
    <2>3. QED
        BY <1>3, <2>1, <2>2 DEF CompleteSets
<1>5. ClaimsCovered'
    BY <1>1 DEF ClaimsCovered, Claims, CreateMarket, TypeOK
<1>6. QED
    BY <1>4, <1>5

LEMMA BuySolvent ==
    ASSUME SolvencyInv, NEW u \in Users, NEW side \in Side, NEW usdcIn \in Nat,
           Buy(u, side, usdcIn)
    PROVE  CompleteSets' /\ ClaimsCovered'
<1> DEFINE netIn == NetIn(usdcIn)
           scaledIn == ScaledIn(usdcIn)
           own == BuyOwn(side, scaledIn)
           shares == BuyShares(side, scaledIn)
<1> USE DEF SolvencyInv, BaseInv
<1>1. /\ netIn \in Nat
      /\ scaledIn \in Nat
      /\ scaledIn <= netIn * Scale
      /\ own \in Nat
    BY BuyBounds DEF Buy
<1>2. ~pool.resolved /\ pool' = pool /\ poolBalance' = poolBalance + netIn
    BY DEF Buy, Open, flags
<1> HIDE DEF netIn, scaledIn, own
<1>3. shares = scaledIn + (Own(side) - own)
    BY DEF BuyShares, own
<1>4. /\ yesReserve' = IF side = "yes" THEN own ELSE Counter(side) + scaledIn
      /\ noReserve' = IF side = "yes" THEN Counter(side) + scaledIn ELSE own
      /\ totalSupply' = [totalSupply EXCEPT ![side] = @ + shares]
    BY DEF Buy, BuyCounter, netIn, scaledIn, own
<1> HIDE DEF shares
<1>5. shares \in Int
    BY <1>1, <1>3 DEF Own, TypeOK
<1>6. totalSupply["yes"] \in Nat /\ totalSupply["no"] \in Nat
    BY DEF TypeOK, Side
<1>7. /\ yesReserve' + totalSupply'["yes"] = yesReserve + totalSupply["yes"] + scaledIn
      /\ noReserve' + totalSupply'["no"] = noReserve + totalSupply["no"] + scaledIn
    <2>1. CASE side = "yes"
        <3>1. totalSupply'["yes"] = totalSupply["yes"] + shares
              /\ totalSupply'["no"] = totalSupply["no"]
            BY <1>4, <2>1 DEF TypeOK, Side
        <3>2. QED
            BY <1>1, <1>3, <1>4, <1>6, <2>1, <3>1 DEF Own, Counter, TypeOK
    <2>2. CASE side = "no"
        <3>1. totalSupply'["no"] = totalSupply["no"] + shares
              /\ totalSupply'["yes"] = totalSupply["yes"]
            BY <1>4, <2>2 DEF TypeOK, Side
        <3>2. QED
            BY <1>1, <1>3, <1>4, <1>6, <2>2, <3>1 DEF Own, Counter, TypeOK
    <2>3. QED
        BY <2>1, <2>2 DEF Side
<1>8. poolBalance' * Scale = poolBalance * Scale + netIn * Scale
    BY <1>1, <1>2, Distribute, ScaleAssumption DEF TypeOK
<1>9. poolBalance * Scale \in Nat /\ netIn * Scale \in Nat
    BY <1>1, ProductNat, ScaleAssumption DEF TypeOK
<1>10. CompleteSets'
    BY <1>1, <1>2, <1>6, <1>7, <1>8, <1>9 DEF CompleteSets, TypeOK
<1>11. ClaimsCovered'
    BY <1>1, <1>2 DEF ClaimsCovered, Claims, TypeOK
<1>12. QED
    BY <1>10, <1>11

LEMMA SellSolvent ==
    ASSUME SolvencyInv, NEW u \in Users, NEW side \in Side,
           NEW shares \in Nat, NEW out \in Nat, Sell(u, side, shares, out)
    PROVE  CompleteSets' /\ ClaimsCovered'
<1> DEFINE grossOut == out \div Scale
           afterLpFee == grossOut - Portion(grossOut, FeeBps)
<1> USE DEF SolvencyInv, BaseInv
<1>1. afterLpFee \in Nat /\ afterLpFee * Scale <= out
    BY SellBounds DEF Sell
<1>2. /\ ~pool.resolved
      /\ pool' = pool
      /\ afterLpFee <= poolBalance
      /\ poolBalance' = poolBalance - afterLpFee
      /\ yesReserve' = IF side = "yes" THEN yesReserve + shares - out
                                       ELSE yesReserve - out
      /\ noReserve' = IF side = "yes" THEN noReserve - out
                                      ELSE noReserve + shares - out
      /\ totalSupply' = [totalSupply EXCEPT ![side] = @ - shares]
    BY DEF Sell, Open, flags
<1> HIDE DEF afterLpFee
<1>3. totalSupply["yes"] \in Nat /\ totalSupply["no"] \in Nat
    BY DEF TypeOK, Side
<1>4. /\ yesReserve' + totalSupply'["yes"] = yesReserve + totalSupply["yes"] - out
      /\ noReserve' + totalSupply'["no"] = noReserve + totalSupply["no"] - out
    <2>1. CASE side = "yes"
        BY <1>2, <1>3, <2>1 DEF TypeOK, Side
    <2>2. CASE side = "no"
        BY <1>2, <1>3, <2>2 DEF TypeOK, Side
    <2>3. QED
        BY <2>1, <2>2 DEF Side
<1>5. poolBalance' * Scale = poolBalance * Scale - afterLpFee * Scale
    BY <1>1, <1>2, Distribute, ScaleAssumption DEF TypeOK
<1>6. poolBalance * Scale \in Nat /\ afterLpFee * Scale \in Nat
    BY <1>1, ProductNat, ScaleAssumption DEF TypeOK
<1>7. CompleteSets'
    <2>1. /\ yesReserve + totalSupply["yes"] = noReserve + totalSupply["no"]
          /\ yesReserve + totalSupply["yes"] <= poolBalance * Scale
          /\ yesReserve \in Nat /\ noReserve \in Nat
        BY <1>2 DEF CompleteSets, TypeOK
    <2>2. /\ yesReserve' + totalSupply'["yes"] = noReserve' + totalSupply'["no"]
          /\ yesReserve' + totalSupply'["yes"] <= poolBalance' * Scale
        <3> DEFINE pay == afterLpFee * Scale
                   worth == poolBalance * Scale
                   left == yesReserve + totalSupply["yes"]
                   right == noReserve + totalSupply["no"]
        <3>1. /\ pay \in Nat /\ pay <= out /\ worth \in Nat
              /\ left \in Nat /\ right \in Nat /\ left = right /\ left <= worth
              /\ poolBalance' * Scale = worth - pay
              /\ yesReserve' + totalSupply'["yes"] = left - out
              /\ noReserve' + totalSupply'["no"] = right - out
            BY <1>1, <1>3, <1>4, <1>5, <1>6, <2>1
        <3> HIDE DEF pay, worth, left, right
        <3>2. QED
            BY <3>1
    <2>3. QED
        BY <2>2 DEF CompleteSets
<1>8. ClaimsCovered'
    BY <1>1, <1>2 DEF ClaimsCovered, Claims, TypeOK
<1>9. QED
    BY <1>7, <1>8

LEMMA ResolveSolvent ==
    ASSUME SolvencyInv, NEW side \in Side, Resolve(side)
    PROVE  CompleteSets' /\ ClaimsCovered'
<1> USE DEF SolvencyInv, BaseInv
<1>1. /\ pool'.resolved
      /\ Winner' = side
      /\ poolBalance' = poolBalance
      /\ totalSupply' = totalSupply
      /\ ~pool.resolved
    BY DEF Resolve, TypeOK, PoolState, Winner, Side, money, tokens
<1>2. totalSupply[side] \in Nat /\ poolBalance \in Nat
    BY DEF TypeOK
<1>3. totalSupply[side] <= poolBalance * Scale
    BY <1>1, ProductNat, ScaleAssumption DEF CompleteSets, TypeOK, Side
<1>4. totalSupply[side] \div Scale <= poolBalance
    <2> DEFINE q == totalSupply[side] \div Scale
    <2>1. q \in Nat /\ Scale * q <= totalSupply[side]
        BY <1>2, DivFloor, ScaleAssumption
    <2> HIDE DEF q
    <2>2. ~(poolBalance + 1 <= q)
        BY <1>2, <1>3, <2>1, ProductMonotone, Distribute, ScaleAssumption
    <2>3. QED
        BY <1>2, <2>1, <2>2 DEF q
<1>5. Claims' = totalSupply[side] \div Scale
    BY <1>1 DEF Claims
<1>6. QED
    BY <1>1, <1>4, <1>5 DEF CompleteSets, ClaimsCovered

\* After resolution: what leaves the pool leaves the claims covered.
LEMMA SettledSolvent ==
    ASSUME SolvencyInv, pool.resolved,
           \/ \E u \in Users : Redeem(u)
           \/ \E u \in Users, shares \in ShareAmounts : RemoveLiquidity(u, shares)
           \/ Drain
    PROVE  CompleteSets' /\ ClaimsCovered'
<1> USE DEF SolvencyInv
<1>1. Claims \in Nat /\ Reserved \in Nat /\ Claims <= Reserved
    BY ReservedNat DEF BaseInv
<1>2. pool'.resolved /\ pool'.yesWon = pool.yesWon
    BY DEF Redeem, RemoveLiquidity, Drain, flags, BaseInv, TypeOK, PoolState
<1>3. CompleteSets'
    BY <1>2 DEF CompleteSets
<1>4. poolBalance \in Nat
    BY DEF BaseInv, TypeOK
<1>5. ASSUME NEW u \in Users, Redeem(u) PROVE ClaimsCovered'
    <2>1. /\ BaseInv'
          /\ poolBalance' <= poolBalance
          /\ Claims - Claims' >= poolBalance - poolBalance'
        BY <1>5, RedeemBase
    <2>2. poolBalance' \in Nat
        BY <2>1 DEF BaseInv, TypeOK
    <2>3. Claims' \in Int
        <3>1. totalSupply'[Winner'] \in Nat
            BY <2>1 DEF BaseInv, TypeOK, Winner, Side
        <3>2. totalSupply'[Winner'] \div Scale \in Nat
            BY <3>1, DivFloor, ScaleAssumption
        <3>3. QED
            BY <1>2, <3>2 DEF Claims
    <2>4. Claims <= poolBalance
        BY DEF ClaimsCovered
    <2>5. Claims' <= poolBalance'
        <3>1. /\ Claims \in Int /\ poolBalance \in Int
              /\ Claims' \in Int /\ poolBalance' \in Int
            BY <1>1, <1>4, <2>2, <2>3
        <3>2. QED
            BY <2>1, <2>4, <3>1, DebtStep, Zenon
    <2>6. QED
        BY <2>5 DEF ClaimsCovered
<1>6. ASSUME UNCHANGED tokens PROVE Claims' = Claims
    BY <1>2, <1>6 DEF Claims, Winner, tokens
<1>7. ASSUME NEW u \in Users, NEW shares \in ShareAmounts, RemoveLiquidity(u, shares)
      PROVE  ClaimsCovered'
    <2>1. BaseInv' /\ poolBalance' >= Reserved
        BY <1>7, RemoveLiquidityBase, AmountAssumption
    <2>2. Claims' = Claims
        BY <1>6, <1>7 DEF RemoveLiquidity
    <2>3. poolBalance' \in Nat
        BY <2>1 DEF BaseInv, TypeOK
    <2>4. QED
        BY <1>1, <2>1, <2>2, <2>3 DEF ClaimsCovered
<1>8. CASE Drain
    <2>1. poolBalance' = poolBalance \/ poolBalance' = Reserved
        BY <1>8, DrainBase
    <2>2. Claims' = Claims
        BY <1>6, <1>8 DEF Drain
    <2>3. QED
        BY <1>1, <1>3, <2>1, <2>2 DEF ClaimsCovered
<1>9. QED
    BY <1>3, <1>5, <1>7, <1>8

LEMMA SolvencyStep ==
    ASSUME SolvencyInv, [Next]_vars
    PROVE  SolvencyInv'
<1>1. BaseInv'
    BY BaseStep DEF SolvencyInv, NextWithDeposits
<1>2. Amounts \subseteq Nat /\ ShareAmounts \subseteq Nat
    BY AmountAssumption
<1>3. ProtocolFees \subseteq Nat /\ ClaimsBuffers \subseteq Nat
    BY FeeAssumption
<1>4. ASSUME NEW u \in Users, NEW amount \in Amounts, NEW w \in BOOLEAN,
             NEW fee \in ProtocolFees, NEW buffer \in ClaimsBuffers,
             CreateMarket(u, amount, w, fee, buffer)
      PROVE  CompleteSets' /\ ClaimsCovered'
    BY <1>2, <1>3, <1>4, CreateMarketSolvent
<1>5. ASSUME NEW u \in Users, NEW side \in Side, NEW amount \in Amounts,
             Buy(u, side, amount)
      PROVE  CompleteSets' /\ ClaimsCovered'
    BY <1>2, <1>5, BuySolvent
<1>6. ASSUME NEW u \in Users, NEW side \in Side, NEW shares \in ShareAmounts,
             NEW out \in 0..shares, Sell(u, side, shares, out)
      PROVE  CompleteSets' /\ ClaimsCovered'
    <2>1. shares \in Nat /\ out \in Nat
        BY <1>2
    <2>2. QED
        BY <1>6, <2>1, SellSolvent
<1>7. ASSUME NEW side \in Side, Resolve(side)
      PROVE  CompleteSets' /\ ClaimsCovered'
    BY <1>7, ResolveSolvent
<1>8. ASSUME \/ \E u \in Users : Redeem(u)
             \/ \E u \in Users, shares \in ShareAmounts : RemoveLiquidity(u, shares)
             \/ Drain
      PROVE  CompleteSets' /\ ClaimsCovered'
    <2>1. pool.resolved
        BY <1>8 DEF Redeem, RemoveLiquidity, Drain, SolvencyInv, BaseInv,
                    FactoryAndPoolAgree
    <2>2. QED
        BY <1>8, <2>1, SettledSolvent
<1>9. ASSUME AdminStep \/ UNCHANGED vars
      PROVE  CompleteSets' /\ ClaimsCovered'
    <2>1. UNCHANGED <<poolBalance, yesReserve, noReserve, totalSupply, pool>>
        BY <1>9 DEF AdminStep, UpdatePoolFeeWallet, UpdatePoolProtocolFeeBps,
                    UpdatePoolClaimsBufferBps, vars, money, reserves, tokens, flags
    <2>2. QED
        BY <2>1 DEF SolvencyInv, CompleteSets, ClaimsCovered, Claims, Winner
<1>10. CompleteSets' /\ ClaimsCovered'
    BY <1>4, <1>5, <1>6, <1>7, <1>8, <1>9 DEF Next, Creation, PoolStep
<1>11. QED
    BY <1>1, <1>10 DEF SolvencyInv

LEMMA SolvencyInit == Init => SolvencyInv
<1> SUFFICES ASSUME Init PROVE SolvencyInv
    OBVIOUS
<1>1. BaseInv
    BY BaseInit
<1>2. /\ yesReserve = 0 /\ noReserve = 0 /\ poolBalance = 0
      /\ totalSupply["yes"] = 0 /\ totalSupply["no"] = 0
      /\ ~pool.resolved
    BY DEF Init, Side
<1>3. CompleteSets
    BY <1>2, ScaleAssumption DEF CompleteSets
<1>4. ClaimsCovered
    BY <1>2 DEF ClaimsCovered, Claims
<1>5. QED
    BY <1>1, <1>3, <1>4 DEF SolvencyInv

\* As long as liquidity is only seeded at creation, the inductive invariant
\* holds: complete sets before resolution, covered claims after it.
THEOREM Solvency == Spec => []SolvencyInv
<1>1. SolvencyInv /\ [Next]_vars => SolvencyInv'
    BY SolvencyStep
<1>2. QED
    BY SolvencyInit, <1>1, PTL DEF Spec

\* Every variable keeps its type: no balance, reserve or supply of the
\* unsigned Solidity arithmetic would have to go below zero.
THEOREM TypeCorrect == Spec => []TypeOK
<1>1. SolvencyInv => TypeOK
    BY DEF SolvencyInv, BaseInv
<1>2. QED
    BY Solvency, <1>1, PTL

\* Before resolution, whichever side were declared the winner, the pool
\* could pay its whole supply.
THEOREM EitherSidePayable == Spec => []EitherOutcomeCovered
<1>1. SolvencyInv => EitherOutcomeCovered
    <2> SUFFICES ASSUME SolvencyInv, ~pool.resolved, NEW side \in Side
                 PROVE  totalSupply[side] <= poolBalance * Scale
        BY DEF EitherOutcomeCovered
    <2>1. poolBalance * Scale \in Nat
        BY ProductNat, ScaleAssumption DEF SolvencyInv, BaseInv, TypeOK
    <2>2. QED
        BY <2>1 DEF SolvencyInv, BaseInv, TypeOK, CompleteSets, Side
<1>2. QED
    BY Solvency, <1>1, PTL

\* After resolution every winner, redeeming a whole balance in any order with
\* the others, the LPs and the treasury drain, finds the money in the pool.
THEOREM WinnersPaid == Spec => []WinnersCovered
<1>1. SolvencyInv => WinnersCovered
    <2> SUFFICES ASSUME SolvencyInv, pool.resolved
                 PROVE  SumOver([u \in Users |-> balanceOf[Winner][u] \div Scale])
                            <= poolBalance
        BY DEF WinnersCovered
    <2> DEFINE f == balanceOf[Winner]
    <2>1. Winner \in Side
        BY DEF Winner, Side
    <2>2. f \in [Users -> Nat] /\ IsFiniteSet(UnitsOf(f))
        BY <2>1 DEF SolvencyInv, BaseInv, TypeOK, LedgersAddUp
    <2>3. SumOver(f) = totalSupply[Winner] /\ totalSupply[Winner] \in Nat
        BY <2>1 DEF SolvencyInv, BaseInv, TypeOK, LedgersAddUp
    <2>4. totalSupply[Winner] \div Scale <= poolBalance
        BY DEF SolvencyInv, ClaimsCovered, Claims
    <2> DEFINE floors == SumOver([u \in Users |-> f[u] \div Scale])
    <2>5. floors <= totalSupply[Winner] \div Scale
        <3> HIDE DEF f
        <3>1. floors <= SumOver(f) \div Scale
            BY <2>2, SumOfFloors, ScaleAssumption
        <3>2. QED
            BY <2>3, <3>1
    <2>6. floors \in Nat
        <3> HIDE DEF f
        <3>1. QED
            BY <2>2, SumOfFloors, ScaleAssumption
    <2>7. totalSupply[Winner] \div Scale \in Nat
        BY <2>3, DivFloor, ScaleAssumption
    <2>8. poolBalance \in Nat
        BY DEF SolvencyInv, BaseInv, TypeOK
    <2> HIDE DEF floors
    <2>9. floors <= poolBalance
        BY <2>4, <2>5, <2>6, <2>7, <2>8
    <2>10. QED
        BY <2>9 DEF floors
<1>2. QED
    BY Solvency, <1>1, PTL
---------------------------------------------------------------------------
(* A settled market *)

\* What SettlementFinal says of one step
SettledStays ==
    pool.resolved =>
        /\ pool'.resolved
        /\ pool'.yesWon = pool.yesWon
        /\ market'.result = market.result
        /\ \A side \in Side : totalSupply'[side] <= totalSupply[side]
        /\ poolBalance' <= poolBalance

LEMMA RedeemSettled ==
    ASSUME BaseInv, NEW u \in Users, Redeem(u)
    PROVE  SettledStays
<1> USE DEF BaseInv
<1>1. PICK w \in Side : w = market.result
    BY DEF Redeem, FactoryAndPoolAgree, Winner, Side
<1>2. balanceOf[w][u] \in Nat /\ totalSupply \in [Side -> Nat]
    BY DEF TypeOK
<1>3. totalSupply' = [totalSupply EXCEPT ![w] = @ - balanceOf[w][u]]
    BY <1>1 DEF Redeem
<1>4. \A side \in Side : totalSupply'[side] <= totalSupply[side]
    BY <1>2, <1>3
<1>5. poolBalance' <= poolBalance
    BY RedeemBase
<1>6. UNCHANGED <<pool, market>>
    BY DEF Redeem, flags
<1>7. QED
    BY <1>4, <1>5, <1>6 DEF SettledStays

LEMMA SettledStep ==
    ASSUME BaseInv, [NextWithDeposits]_vars
    PROVE  [SettledStays]_vars
<1> SUFFICES ASSUME pool.resolved, NextWithDeposits PROVE SettledStays
    BY DEF SettledStays
<1>1. market.created /\ market.resolved
    BY DEF BaseInv, FactoryAndPoolAgree, Pristine
<1>2. totalSupply \in [Side -> Nat] /\ poolBalance \in Nat
    BY DEF BaseInv, TypeOK
<1>3. ASSUME NEW u \in Users, Redeem(u) PROVE SettledStays
    BY <1>3, RedeemSettled
<1>4. ASSUME NEW u \in Users, NEW shares \in ShareAmounts, RemoveLiquidity(u, shares)
      PROVE  SettledStays
    <2>1. poolBalance' <= poolBalance
        BY <1>4, RemoveLiquidityBase, AmountAssumption
    <2>2. UNCHANGED <<totalSupply, pool, market>>
        BY <1>4 DEF RemoveLiquidity, tokens, flags
    <2>3. QED
        BY <1>2, <2>1, <2>2 DEF SettledStays
<1>5. CASE Drain
    <2>1. poolBalance' <= poolBalance
        BY <1>5, DrainBase
    <2>2. totalSupply' = totalSupply
        BY <1>5 DEF Drain, tokens
    <2>3. pool'.resolved /\ pool'.yesWon = pool.yesWon /\ market'.result = market.result
        BY <1>5 DEF Drain, BaseInv, TypeOK, PoolState, MarketRecord
    <2>4. QED
        BY <1>2, <2>1, <2>2, <2>3 DEF SettledStays
<1>6. CASE AdminStep
    <2>1. UNCHANGED <<totalSupply, pool, market, poolBalance>>
        BY <1>6 DEF AdminStep, UpdatePoolFeeWallet, UpdatePoolProtocolFeeBps,
                    UpdatePoolClaimsBufferBps, money, tokens, flags
    <2>2. QED
        BY <1>2, <2>1 DEF SettledStays
<1>7. QED
    BY <1>1, <1>3, <1>4, <1>5, <1>6
       DEF NextWithDeposits, Next, Creation, PoolStep, CreateMarket, Buy, Sell, Open,
           Resolve, AddLiquidity

\* Once resolved a market stays so, with the same winner; the supplies and the
\* USDC of its pool only go down.
THEOREM SettledForGood == Spec => SettlementFinal
<1>1. SolvencyInv /\ [Next]_vars => [SettledStays]_vars
    BY SettledStep DEF SolvencyInv, NextWithDeposits
<1>2. QED
    BY Solvency, <1>1, PTL DEF Spec, SettlementFinal, SettledStays

---------------------------------------------------------------------------
(* What an LP share stands for *)

\* A share of a deposit, doubled after rounding down, against the LP shares
\* minted for it: at most two units are lost.
LEMMA MintFair ==
    ASSUME NEW reserve \in Nat, NEW total \in Nat, NEW scaled \in Nat, NEW lpTotal \in Nat,
           total > 0, lpTotal > 0
    PROVE  LET added == ((scaled * reserve) \div total) * 2
               minted == (lpTotal * scaled * 2) \div total
           IN  /\ added \in Nat /\ minted \in Nat
               /\ (reserve + added + 2) * lpTotal >= reserve * (lpTotal + minted)
<1> DEFINE x == scaled * reserve
           q == x \div total
           doubled == lpTotal * scaled * 2
           minted == doubled \div total
<1>1. x \in Nat /\ doubled \in Nat
    <2>1. lpTotal * scaled \in Nat
        BY ProductNat
    <2>2. QED
        BY <2>1, ProductNat
<1>2. reserve * doubled = (2 * lpTotal) * x
    OBVIOUS
<1> HIDE DEF x, doubled
<1>3. /\ q \in Nat /\ x < total * q + total
      /\ minted \in Nat /\ total * minted <= doubled
    BY <1>1, DivFloor
<1> HIDE DEF q, minted
<1>4. reserve * minted <= (2 * lpTotal) * (q + 1)
    <2>1. (total * minted) * reserve <= doubled * reserve
        <3>1. total * minted \in Nat
            BY <1>3, ProductNat
        <3>2. QED
            BY <1>1, <1>3, <3>1, ProductMonotone
    <2>2. x * (2 * lpTotal) <= (total * (q + 1)) * (2 * lpTotal)
        <3>1. total * (q + 1) \in Nat /\ 2 * lpTotal \in Nat
            BY <1>3, ProductNat
        <3>2. total * (q + 1) = total * q + total
            BY <1>3
        <3>3. x <= total * (q + 1)
            BY <1>1, <1>3, <3>2, ProductNat
        <3>4. QED
            BY <1>1, <3>1, <3>3, ProductMonotone
    <2> DEFINE m == reserve * minted
               n == (2 * lpTotal) * (q + 1)
    <2>3. m \in Nat /\ n \in Nat
        BY <1>3, ProductNat
    <2>4. (total * minted) * reserve = total * m
        BY <1>3
    <2>5. (total * (q + 1)) * (2 * lpTotal) = total * n
        BY <1>3
    <2>6. doubled * reserve = reserve * doubled /\ x * (2 * lpTotal) = (2 * lpTotal) * x
        BY <1>1
    <2> HIDE DEF m, n
    <2>7. total * m <= total * n
        <3>1. /\ total * m \in Int /\ total * n \in Int
              /\ doubled * reserve \in Int /\ x * (2 * lpTotal) \in Int
            BY <1>1, <2>3
        <3>2. QED
            BY <1>2, <2>1, <2>2, <2>4, <2>5, <2>6, <3>1
    <2>8. ~(n + 1 <= m)
        <3> SUFFICES ASSUME n + 1 <= m PROVE FALSE
            OBVIOUS
        <3>1. (n + 1) * total <= m * total
            BY <2>3, ProductMonotone
        <3>2. (n + 1) * total = total * n + total /\ m * total = total * m
            BY <2>3
        <3>3. total * n \in Int /\ total * m \in Int
            BY <2>3
        <3>4. QED
            BY <2>7, <3>1, <3>2, <3>3
    <2>9. QED
        BY <2>3, <2>8 DEF m, n
<1>5. (reserve + q * 2 + 2) * lpTotal = reserve * lpTotal + (2 * lpTotal) * (q + 1)
    BY <1>3
<1>6. reserve * (lpTotal + minted) = reserve * lpTotal + reserve * minted
    BY <1>3
<1>7. (reserve + q * 2 + 2) * lpTotal >= reserve * (lpTotal + minted)
    <2>1. /\ reserve * lpTotal \in Int /\ reserve * minted \in Int
          /\ (2 * lpTotal) * (q + 1) \in Int
        BY <1>3
    <2>2. QED
        BY <1>4, <1>5, <1>6, <2>1
<1>8. QED
    BY <1>3, <1>7 DEF q, x, doubled, minted

\* A fraction of a leg, rounded down, leaves the others what they had.
LEMMA BurnFair ==
    ASSUME NEW reserve \in Nat, NEW shares \in Nat, NEW lpTotal \in Nat,
           lpTotal > 0, shares <= lpTotal
    PROVE  LET taken == (reserve * shares) \div lpTotal
           IN  (reserve - taken + 2) * lpTotal >= reserve * (lpTotal - shares)
<1> DEFINE x == reserve * shares
           taken == x \div lpTotal
<1>1. x \in Nat
    BY ProductNat
<1>2. reserve * (lpTotal - shares) = reserve * lpTotal - x
    OBVIOUS
<1> HIDE DEF x
<1>3. taken \in Nat /\ lpTotal * taken <= x
    BY <1>1, DivFloor
<1> HIDE DEF taken
<1>4. (reserve - taken + 2) * lpTotal = reserve * lpTotal - lpTotal * taken + 2 * lpTotal
    BY <1>3
<1>5. (reserve - taken + 2) * lpTotal >= reserve * (lpTotal - shares)
    <2>1. reserve * lpTotal \in Int /\ lpTotal * taken \in Int
        BY <1>3
    <2>2. QED
        BY <1>1, <1>2, <1>3, <1>4, <2>1
<1>6. QED
    BY <1>5 DEF taken, x

\* What LpShareKeepsValue says of one step
ShareKept ==
    totalLpShares > 0 /\ totalLpShares' # totalLpShares =>
        /\ (yesReserve' + 2) * totalLpShares >= yesReserve * totalLpShares'
        /\ (noReserve' + 2) * totalLpShares >= noReserve * totalLpShares'

LEMMA ShareKeptStep ==
    ASSUME BaseInv, [NextWithDeposits]_vars
    PROVE  [ShareKept]_vars
<1> SUFFICES ASSUME totalLpShares > 0, NextWithDeposits PROVE ShareKept
    BY DEF ShareKept
<1>1. /\ yesReserve \in Nat /\ noReserve \in Nat
      /\ totalLpShares \in Nat /\ lpShareOf \in [Users -> Nat]
    BY DEF BaseInv, TypeOK
<1>2. ASSUME NEW u \in Users, NEW amount \in Amounts, AddLiquidity(u, amount)
      PROVE  ShareKept
    <2> DEFINE scaled == amount * Scale
               total == yesReserve + noReserve
    <2>1. scaled \in Nat
        BY AmountAssumption, ScaleAssumption, ProductNat
    <2>2. total \in Nat /\ total > 0
        BY <1>1, <1>2 DEF AddLiquidity
    <2>3. /\ yesReserve' = yesReserve + ((scaled * yesReserve) \div total) * 2
          /\ noReserve' = noReserve + ((scaled * noReserve) \div total) * 2
          /\ totalLpShares' = totalLpShares + (totalLpShares * scaled * 2) \div total
        BY <1>2 DEF AddLiquidity, LpMinted
    <2> HIDE DEF scaled, total
    <2>4. (yesReserve' + 2) * totalLpShares >= yesReserve * totalLpShares'
        BY <1>1, <2>1, <2>2, <2>3, MintFair
    <2>5. (noReserve' + 2) * totalLpShares >= noReserve * totalLpShares'
        BY <1>1, <2>1, <2>2, <2>3, MintFair
    <2>6. QED
        BY <2>4, <2>5 DEF ShareKept
<1>3. ASSUME NEW u \in Users, NEW shares \in ShareAmounts, RemoveLiquidity(u, shares)
      PROVE  ShareKept
    <2>1. shares \in Nat /\ shares <= lpShareOf[u]
        BY <1>3, AmountAssumption DEF RemoveLiquidity
    <2>2. lpShareOf[u] <= totalLpShares /\ lpShareOf[u] \in Nat
        BY <1>1, SumBound DEF BaseInv, LedgersAddUp
    <2>3. shares <= totalLpShares
        BY <1>1, <2>1, <2>2
    <2>4. /\ yesReserve' = yesReserve - (yesReserve * shares) \div totalLpShares
          /\ noReserve' = noReserve - (noReserve * shares) \div totalLpShares
          /\ totalLpShares' = totalLpShares - shares
        BY <1>3 DEF RemoveLiquidity, LegShare
    <2>5. (yesReserve' + 2) * totalLpShares >= yesReserve * totalLpShares'
        BY <1>1, <2>1, <2>3, <2>4, BurnFair
    <2>6. (noReserve' + 2) * totalLpShares >= noReserve * totalLpShares'
        BY <1>1, <2>1, <2>3, <2>4, BurnFair
    <2>7. QED
        BY <2>5, <2>6 DEF ShareKept
<1>4. CASE UNCHANGED totalLpShares
    BY <1>4 DEF ShareKept
<1>5. market.created
    BY DEF BaseInv, Pristine
<1>6. ASSUME AdminStep PROVE UNCHANGED totalLpShares
    BY <1>6 DEF AdminStep, UpdatePoolFeeWallet, UpdatePoolProtocolFeeBps,
           UpdatePoolClaimsBufferBps, lp
<1>7. ASSUME \/ \E u \in Users, side \in Side, amount \in Amounts : Buy(u, side, amount)
             \/ \E u \in Users, side \in Side, shares \in ShareAmounts :
                    \E out \in 0..shares : Sell(u, side, shares, out)
             \/ \E u \in Users : Redeem(u)
             \/ Drain
             \/ \E side \in Side : Resolve(side)
      PROVE  UNCHANGED totalLpShares
    <2>1. ASSUME NEW u \in Users, NEW side \in Side, NEW amount \in Amounts,
                 Buy(u, side, amount)
          PROVE  UNCHANGED totalLpShares
        BY <2>1 DEF Buy, lp
    <2>2. ASSUME NEW u \in Users, NEW side \in Side, NEW shares \in ShareAmounts,
                 NEW out \in 0..shares, Sell(u, side, shares, out)
          PROVE  UNCHANGED totalLpShares
        BY <2>2 DEF Sell, lp
    <2>3. ASSUME NEW u \in Users, Redeem(u) PROVE UNCHANGED totalLpShares
        BY <2>3 DEF Redeem, lp
    <2>4. ASSUME Drain \/ \E side \in Side : Resolve(side) PROVE UNCHANGED totalLpShares
        BY <2>4 DEF Drain, Resolve, lp
    <2>5. QED
        BY <1>7, <2>1, <2>2, <2>3, <2>4
<1>8. ~Creation
    BY <1>5 DEF Creation, CreateMarket
<1>9. QED
    BY <1>2, <1>3, <1>4, <1>6, <1>7, <1>8 DEF NextWithDeposits, Next, PoolStep

\* Whoever joins or leaves, a share of those who stay stands for as much of
\* either leg as before, but for two units.
THEOREM SharesKeepValue == SpecWithDeposits => LpShareKeepsValue
<1>1. BaseInv /\ [NextWithDeposits]_vars => [ShareKept]_vars
    BY ShareKeptStep
<1>2. QED
    BY DepositsBase, <1>1, PTL DEF SpecWithDeposits, LpShareKeepsValue, ShareKept
---------------------------------------------------------------------------
(* The market that was promised *)

\* OutcomeMarket's variables, as Promise maps them
MayWin == IF pool.resolved THEN {Winner} ELSE Side
Holdings == [s \in Side |-> [u \in Users |-> balanceOf[s][u] \div Scale]]

LEMMA SameSum == \A f : Promise!SumOver(f) = SumOver(f)
<1>1. \A S : Promise!Cardinality(S) = Cardinality(S)
    BY DEF Promise!Cardinality, Cardinality
<1>2. QED
    BY <1>1 DEF Promise!SumOver, SumOver, Promise!UnitsOf, UnitsOf

LEMMA HoldingsType ==
    ASSUME balanceOf \in [Side -> [Users -> Nat]]
    PROVE  Holdings \in [Side -> [Users -> Nat]]
<1>1. \A s \in Side, u \in Users : balanceOf[s][u] \div Scale \in Nat
    <2> SUFFICES ASSUME NEW s \in Side, NEW u \in Users
                 PROVE  balanceOf[s][u] \div Scale \in Nat
        OBVIOUS
    <2>1. balanceOf[s][u] \in Nat
        OBVIOUS
    <2>2. QED
        BY <2>1, DivFloor, ScaleAssumption
<1>2. QED
    BY <1>1 DEF Holdings

LEMMA HoldingsUpdate ==
    ASSUME balanceOf \in [Side -> [Users -> Nat]],
           NEW side \in Side, NEW u \in Users, NEW n \in Nat,
           balanceOf' = [balanceOf EXCEPT ![side][u] = n]
    PROVE  /\ Holdings' = [Holdings EXCEPT ![side][u] = n \div Scale]
           /\ Holdings'[side][u] = n \div Scale
           /\ n \div Scale \in Nat
<1>1. \A s \in Side, v \in Users :
          balanceOf'[s][v] = IF s = side /\ v = u THEN n ELSE balanceOf[s][v]
    OBVIOUS
<1>2. Holdings' = [s \in Side |-> [v \in Users |->
                      IF s = side /\ v = u THEN n \div Scale ELSE Holdings[s][v]]]
    BY <1>1 DEF Holdings
<1>3. Holdings \in [Side -> [Users -> Nat]]
    BY HoldingsType
<1> HIDE DEF Holdings
<1>4. Holdings' = [Holdings EXCEPT ![side][u] = n \div Scale] /\ Holdings'[side][u] = n \div Scale
    BY <1>2, <1>3
<1>5. n \div Scale \in Nat
    BY DivFloor, ScaleAssumption
<1>6. QED
    BY <1>4, <1>5

\* Covered: by complete sets before the resolution, by the claims after it.
LEMMA PotCovers ==
    ASSUME SolvencyInv
    PROVE  \A s \in MayWin : SumOver(Holdings[s]) <= poolBalance
<1> SUFFICES ASSUME NEW s \in MayWin PROVE SumOver(Holdings[s]) <= poolBalance
    OBVIOUS
<1> DEFINE f == balanceOf[s]
           floors == [u \in Users |-> f[u] \div Scale]
           supply == totalSupply[s]
<1>1. s \in Side
    BY DEF MayWin, Winner, Side
<1>2. /\ f \in [Users -> Nat] /\ IsFiniteSet(UnitsOf(f)) /\ supply = SumOver(f)
      /\ supply \in Nat /\ poolBalance \in Nat
    BY <1>1 DEF SolvencyInv, BaseInv, TypeOK, LedgersAddUp
<1>3. Holdings[s] = floors
    BY <1>1 DEF Holdings
<1>4. supply \div Scale <= poolBalance
    <2>1. CASE pool.resolved
        BY <2>1 DEF MayWin, SolvencyInv, ClaimsCovered, Claims
    <2>2. CASE ~pool.resolved
        <3>1. supply <= poolBalance * Scale
            <4>1. poolBalance * Scale \in Nat
                BY <1>2, ProductNat, ScaleAssumption
            <4>2. QED
                BY <1>1, <2>2, <4>1 DEF SolvencyInv, BaseInv, TypeOK, CompleteSets, Side
        <3> HIDE DEF supply
        <3>2. supply \div Scale \in Nat /\ Scale * (supply \div Scale) <= supply
            BY <1>2, DivFloor, ScaleAssumption
        <3>3. ~(poolBalance + 1 <= supply \div Scale)
            <4> SUFFICES ASSUME poolBalance + 1 <= supply \div Scale PROVE FALSE
                OBVIOUS
            <4>1. (poolBalance + 1) * Scale <= (supply \div Scale) * Scale
                BY <1>2, <3>2, ProductMonotone, ScaleAssumption
            <4>2. /\ (poolBalance + 1) * Scale = poolBalance * Scale + Scale
                  /\ (supply \div Scale) * Scale = Scale * (supply \div Scale)
                  /\ poolBalance * Scale \in Int
                BY <1>2, <3>2, ScaleAssumption
            <4>3. QED
                BY <1>2, <3>1, <3>2, <4>1, <4>2, ScaleAssumption
        <3>4. QED
            BY <1>2, <3>2, <3>3
    <2>3. QED
        BY <2>1, <2>2
<1> HIDE DEF f
<1>5. SumOver(floors) \in Nat /\ SumOver(floors) <= SumOver(f) \div Scale
    BY <1>2, SumOfFloors, ScaleAssumption
<1> HIDE DEF supply, floors
<1>6. supply \div Scale \in Nat
    BY <1>2, DivFloor, ScaleAssumption
<1>7. QED
    BY <1>2, <1>3, <1>4, <1>5, <1>6

LEMMA PromiseCovered == SolvencyInv => Promise!Covered
BY PotCovers, SameSum DEF Promise!Covered, MayWin, Holdings

LEMMA PromiseCoveredNext == SolvencyInv' => Promise!Covered'
BY PromiseCovered, PTL

\* A purchase, a sale, and (with n unchanged) the seeding of the pool
LEMMA TradeKeepsPromise ==
    ASSUME SolvencyInv, SolvencyInv', ~pool.resolved,
           NEW side \in Side, NEW u \in Users, NEW n \in Nat,
           balanceOf' = [balanceOf EXCEPT ![side][u] = n],
           pool' = pool
    PROVE  Promise!Next
<1>1. /\ Holdings' = [Holdings EXCEPT ![side][u] = Holdings'[side][u]]
      /\ Holdings'[side][u] \in Nat
    <2>1. balanceOf \in [Side -> [Users -> Nat]]
        BY DEF SolvencyInv, BaseInv, TypeOK
    <2>2. /\ Holdings' = [Holdings EXCEPT ![side][u] = n \div Scale]
          /\ Holdings'[side][u] = n \div Scale
          /\ n \div Scale \in Nat
        BY <2>1, HoldingsUpdate
    <2>3. QED
        BY <2>2
<1>2. MayWin = Side /\ MayWin' = MayWin
    BY DEF MayWin
<1>3. poolBalance' \in Nat
    BY DEF SolvencyInv, BaseInv, TypeOK
<1>4. Promise!Covered'
    BY PromiseCoveredNext
<1>5. Promise!Trade(u, side)
    BY <1>1, <1>2, <1>3, <1>4 DEF Promise!Trade, Promise!Undecided, Holdings, MayWin
<1>6. QED
    BY <1>5 DEF Promise!Next

LEMMA RedeemKeepsPromise ==
    ASSUME SolvencyInv, SolvencyInv', NEW u \in Users, Redeem(u)
    PROVE  Promise!Next
<1>0. balanceOf \in [Side -> [Users -> Nat]] /\ poolBalance \in Nat
    BY DEF SolvencyInv, BaseInv, TypeOK
<1>1. PICK w \in Side : w = market.result
    BY DEF Redeem, SolvencyInv, BaseInv, FactoryAndPoolAgree, Winner, Side
<1>2. MayWin = {w} /\ MayWin' = MayWin
    BY <1>1 DEF Redeem, SolvencyInv, BaseInv, FactoryAndPoolAgree, MayWin, Winner, flags
<1>3. /\ balanceOf' = [balanceOf EXCEPT ![w][u] = 0]
      /\ balanceOf[w][u] \div Scale > 0
      /\ poolBalance' = poolBalance - (balanceOf[w][u] \div Scale)
    BY <1>1 DEF Redeem
<1>4. Holdings' = [Holdings EXCEPT ![w][u] = 0]
    <2>1. 0 \div Scale = 0 /\ 0 \in Nat
        BY ScaleAssumption
    <2>2. Holdings' = [Holdings EXCEPT ![w][u] = 0 \div Scale]
        BY <1>0, <1>3, <2>1, HoldingsUpdate
    <2>3. QED
        BY <2>1, <2>2
<1>5. Holdings[w][u] = balanceOf[w][u] \div Scale
    BY <1>0 DEF Holdings
<1>6. Promise!Redeem(u, w)
    BY <1>2, <1>3, <1>4, <1>5 DEF Promise!Redeem, Holdings, MayWin
<1>7. QED
    BY <1>6 DEF Promise!Next

\* The drain, and an LP who leaves
LEMMA CollectKeepsPromise ==
    ASSUME SolvencyInv, SolvencyInv', pool.resolved,
           pool'.resolved, pool'.yesWon = pool.yesWon,
           balanceOf' = balanceOf, poolBalance' <= poolBalance
    PROVE  Promise!Next
<1>1. MayWin' = MayWin /\ Holdings' = Holdings
    BY DEF MayWin, Holdings, Winner
<1>2. MayWin # Side
    BY DEF MayWin, Side
<1>3. poolBalance' \in Nat
    BY DEF SolvencyInv, BaseInv, TypeOK
<1>4. Promise!Covered'
    BY PromiseCoveredNext
<1>5. Promise!Collect
    BY <1>1, <1>2, <1>3, <1>4 DEF Promise!Collect, Promise!Undecided, Holdings, MayWin
<1>6. QED
    BY <1>5 DEF Promise!Next

LEMMA ResolveKeepsPromise ==
    ASSUME SolvencyInv, NEW side \in Side, Resolve(side)
    PROVE  Promise!Next
<1>1. pool'.resolved /\ pool'.yesWon = (side = "yes") /\ ~pool.resolved
    BY DEF Resolve, SolvencyInv, BaseInv, TypeOK, PoolState
<1>2. MayWin = Side /\ MayWin' = {side}
    BY <1>1 DEF MayWin, Winner, Side
<1>3. Holdings' = Holdings /\ poolBalance' = poolBalance
    BY DEF Resolve, Holdings, tokens, money
<1>4. Promise!Decide(side)
    BY <1>2, <1>3 DEF Promise!Decide, Promise!Undecided, Holdings, MayWin
<1>5. QED
    BY <1>4 DEF Promise!Next

LEMMA StepKeepsPromise ==
    ASSUME SolvencyInv, SolvencyInv', [Next]_vars
    PROVE  [Promise!Next]_(Promise!market)
<1>0. balanceOf \in [Side -> [Users -> Nat]] /\ balanceOf' \in [Side -> [Users -> Nat]]
    BY DEF SolvencyInv, BaseInv, TypeOK
<1>2. CASE Creation
    <2>1. PICK u \in Users : TRUE
        BY <1>2 DEF Creation
    <2>2. PICK side \in Side : TRUE
        BY DEF Side
    <2> DEFINE n == balanceOf[side][u]
    <2>3. n \in Nat /\ balanceOf' = [balanceOf EXCEPT ![side][u] = n]
        BY <1>0, <1>2 DEF Creation, CreateMarket, tokens
    <2>4. ~pool.resolved /\ pool' = pool
        BY <1>2 DEF Creation, CreateMarket, SolvencyInv, BaseInv, FactoryAndPoolAgree, Pristine
    <2> HIDE DEF n
    <2>5. QED
        BY <2>3, <2>4, TradeKeepsPromise
<1>3. ASSUME NEW u \in Users, NEW side \in Side, NEW amount \in Amounts, Buy(u, side, amount)
      PROVE  Promise!Next
    <2> DEFINE m == balanceOf[side][u] + BuyShares(side, ScaledIn(amount))
    <2>1. balanceOf' = [balanceOf EXCEPT ![side][u] = m] /\ ~pool.resolved /\ pool' = pool
        BY <1>3 DEF Buy, Open, flags
    <2>2. m \in Nat
        <3> HIDE DEF m
        <3>1. balanceOf'[side][u] = m
            BY <1>0, <2>1
        <3>2. QED
            BY <1>0, <3>1
    <2> HIDE DEF m
    <2>3. QED
        BY <2>1, <2>2, TradeKeepsPromise
<1>4. ASSUME NEW u \in Users, NEW side \in Side, NEW shares \in ShareAmounts,
             NEW out \in 0..shares, Sell(u, side, shares, out)
      PROVE  Promise!Next
    <2> DEFINE m == balanceOf[side][u] - shares
    <2>1. balanceOf' = [balanceOf EXCEPT ![side][u] = m] /\ ~pool.resolved /\ pool' = pool
        BY <1>4 DEF Sell, Open, flags
    <2>2. m \in Nat
        <3> HIDE DEF m
        <3>1. balanceOf'[side][u] = m
            BY <1>0, <2>1
        <3>2. QED
            BY <1>0, <3>1
    <2> HIDE DEF m
    <2>3. QED
        BY <2>1, <2>2, TradeKeepsPromise
<1>5. ASSUME NEW u \in Users, NEW shares \in ShareAmounts, RemoveLiquidity(u, shares)
      PROVE  Promise!Next
    <2>1. poolBalance' <= poolBalance
        BY <1>5, RemoveLiquidityBase, AmountAssumption DEF SolvencyInv
    <2>2. pool.resolved /\ pool' = pool /\ balanceOf' = balanceOf
        BY <1>5 DEF RemoveLiquidity, tokens, flags
    <2>3. QED
        BY <2>1, <2>2, CollectKeepsPromise
<1>6. CASE Drain
    <2>1. poolBalance' <= poolBalance
        BY <1>6, DrainBase DEF SolvencyInv
    <2>2. pool.resolved /\ pool'.resolved /\ pool'.yesWon = pool.yesWon /\ balanceOf' = balanceOf
        BY <1>6 DEF Drain, tokens, SolvencyInv, BaseInv, TypeOK, PoolState
    <2>3. QED
        BY <2>1, <2>2, CollectKeepsPromise
<1>7. CASE AdminStep \/ UNCHANGED vars
    <2>1. UNCHANGED <<poolBalance, balanceOf, pool>>
        BY <1>7 DEF AdminStep, UpdatePoolFeeWallet, UpdatePoolProtocolFeeBps,
                    UpdatePoolClaimsBufferBps, vars, money, tokens, flags
    <2>2. QED
        BY <2>1 DEF Promise!market, Winner
<1>8. ASSUME NEW u \in Users, Redeem(u) PROVE Promise!Next
    BY <1>8, RedeemKeepsPromise
<1>9. ASSUME NEW side \in Side, Resolve(side) PROVE Promise!Next
    BY <1>9, ResolveKeepsPromise
<1>10. QED
    BY <1>2, <1>3, <1>4, <1>5, <1>6, <1>7, <1>8, <1>9 DEF Next, PoolStep

\* The constant product pool implements a market that pays its winners in
\* full, out of a pot that trades keep covered.
THEOREM PoolKeepsPromise == Spec => KeepsPromise
<1>1. Init => Promise!Init
    <2> SUFFICES ASSUME Init PROVE Promise!Init
        OBVIOUS
    <2>1. ~pool.resolved /\ poolBalance = 0 /\ balanceOf = [s \in Side |-> [u \in Users |-> 0]]
        BY DEF Init
    <2>2. 0 \div Scale = 0
        BY ScaleAssumption
    <2>3. QED
        BY <2>1, <2>2 DEF Promise!Init
<1>2. SolvencyInv /\ SolvencyInv' /\ [Next]_vars => [Promise!Next]_(Promise!market)
    BY StepKeepsPromise
<1>3. QED
    BY Solvency, <1>1, <1>2, PTL DEF Spec, KeepsPromise, Promise!Spec

---------------------------------------------------------------------------
(* The API's copy of the arithmetic *)

LEMMA RootExists ==
    ASSUME NEW n \in Nat
    PROVE  /\ Sqrt(n) \in Nat
           /\ Sqrt(n) * Sqrt(n) <= n
           /\ n < (Sqrt(n) + 1) * (Sqrt(n) + 1)
<1> DEFINE S == {r \in 0..n : r * r <= n}
           IsRoot(r) == r * r <= n /\ n < (r + 1) * (r + 1)
<1>1. S \in SUBSET (0..n) /\ 0 \in S
    OBVIOUS
<1>2. PICK r \in S : \A m \in S : m <= r
    <2> HIDE DEF S
    <2> QED  BY <1>1, LargestNumber
<1>3. r \in 0..n /\ r * r <= n
    BY <1>2
<1>4. n < (r + 1) * (r + 1)
    <2>1. CASE r = n
        <3>1. 1 * (n + 1) <= (n + 1) * (n + 1)
            BY ProductMonotone
        <3>2. QED
            BY <2>1, <3>1
    <2>2. CASE r + 1 \in 0..n
        <3>1. r + 1 \notin S
            BY <1>2, <1>3
        <3>2. (r + 1) * (r + 1) \in Nat
            BY <1>3, ProductNat
        <3>3. QED
            BY <2>2, <3>1, <3>2
    <2>3. QED
        BY <1>3, <2>1, <2>2
<1>5. \E q \in 0..n : IsRoot(q)
    BY <1>3, <1>4
<1>6. Sqrt(n) = CHOOSE q \in 0..n : IsRoot(q)
    BY DEF Sqrt
<1>7. Sqrt(n) \in 0..n /\ IsRoot(Sqrt(n))
    <2> HIDE DEF IsRoot
    <2> QED  BY <1>5, <1>6
<1>8. QED
    BY <1>7

\* The largest element of a set of numbers is what Max finds; the same of Min.
LEMMA MaxIs ==
    ASSUME NEW S \in SUBSET Nat, NEW n \in S, \A m \in S : m <= n
    PROVE  Max(S) = n
<1>1. \A k \in S : (\A m \in S : k >= m) => k = n
    OBVIOUS
<1>2. \A m \in S : n >= m
    OBVIOUS
<1>3. Max(S) \in S /\ \A m \in S : Max(S) >= m
    BY <1>2 DEF Max
<1>4. QED
    BY <1>1, <1>3

LEMMA MinOfThree ==
    ASSUME NEW a \in Nat, NEW b \in Nat, NEW c \in Nat, NEW x \in Nat
    PROVE  /\ Min({a, b, c}) \in Nat
           /\ x <= Min({a, b, c}) <=> x <= a /\ x <= b /\ x <= c
<1>1. \E m \in {a, b, c} : \A k \in {a, b, c} : m <= k
    OBVIOUS
<1>2. /\ Min({a, b, c}) \in {a, b, c}
      /\ \A k \in {a, b, c} : Min({a, b, c}) <= k
    BY <1>1 DEF Min
<1>3. QED
    BY <1>2

\* The copy ends in the contract's payout: it looks no higher than the root
\* allows, and no payout above the root's keeps the product.
LEMMA EstimatedPayout ==
    ASSUME TypeOK, NEW side \in Side, NEW shares \in Nat, NEW out,
           IsSellPayout(side, shares, out)
    PROVE  EstimateSellGrossScaled(shares, yesReserve, noReserve, side) = out
<1> DEFINE own == Own(side)
           counter == Counter(side)
           b == own + counter + shares
           d == b * b - 4 * shares * counter
           r == Sqrt(d)
           e == (b - r) \div 2
           kept == {x \in 0..Min({e, shares, counter}) :
                       x = 0 \/ KeepsProduct(own, counter, shares, x)}
<1>1. own \in Nat /\ counter \in Nat
    BY DEF TypeOK, Own, Counter
<1>2. EstimateSellGrossScaled(shares, yesReserve, noReserve, side) = Max(kept)
    <2>1. /\ own = IF side = "yes" THEN yesReserve ELSE noReserve
          /\ counter = IF side = "yes" THEN noReserve ELSE yesReserve
        BY DEF Own, Counter
    <2>2. yesReserve + noReserve + shares = b
        BY <2>1 DEF TypeOK
    <2>3. QED
        <3> HIDE DEF own, counter, b
        <3> QED  BY <2>1, <2>2 DEF EstimateSellGrossScaled, b
<1> HIDE DEF own, counter
<1>3. b \in Nat /\ d \in Nat
    BY <1>1, DiscriminantNat
<1>4. r \in Nat /\ r * r <= d
    <2> HIDE DEF d
    <2> QED  BY <1>3, RootExists
<1>5. r <= b
    BY <1>1, <1>4, RootWithinB
<1>6. e \in Nat
    <2> HIDE DEF b, r
    <2>1. b - r \in Nat
        BY <1>3, <1>4, <1>5
    <2>2. QED
        BY <2>1
<1>7. /\ out \in Payable(counter, shares)
      /\ KeepsProduct(own, counter, shares, out)
      /\ \A more \in Payable(counter, shares) :
            more > out => ~KeepsProduct(own, counter, shares, more)
    BY DEF IsSellPayout, IsLargestPayout, own, counter
<1>8. out \in Nat /\ out <= shares /\ out <= counter
    BY <1>7 DEF Payable
<1>9. out <= e
    BY <1>1, <1>4, <1>7, RootBoundsPayout
<1> HIDE DEF e
<1>10. /\ Min({e, shares, counter}) \in Nat
       /\ \A x \in Nat : x <= Min({e, shares, counter})
             <=> x <= e /\ x <= shares /\ x <= counter
    BY <1>1, <1>6, MinOfThree
<1>11. kept \in SUBSET Nat /\ out \in kept
    BY <1>7, <1>8, <1>9, <1>10
<1>12. ASSUME NEW x \in kept PROVE x <= out
    <2>1. x \in Nat /\ x <= shares /\ x <= counter
        BY <1>10
    <2>2. x \in Payable(counter, shares)
        BY <2>1 DEF Payable
    <2>3. KeepsProduct(own, counter, shares, x)
        BY <1>1, NothingKeepsProduct
    <2>4. QED
        BY <1>7, <1>8, <2>1, <2>2, <2>3
<1>13. Max(kept) = out
    <2> HIDE DEF kept
    <2> QED  BY <1>11, <1>12, MaxIs
<1>14. QED
    BY <1>2, <1>13

LEMMA BuyQuoted ==
    ASSUME TypeOK, NEW u \in Users, NEW side \in Side, NEW usdcIn \in Nat,
           Buy(u, side, usdcIn)
    PROVE  /\ Bought(u, side) > 0
           /\ -Received(u) = usdcIn
           /\ BuyAgrees(u, side, usdcIn)
<1> DEFINE netIn == NetIn(usdcIn)
           scaledIn == ScaledIn(usdcIn)
           shares == BuyShares(side, scaledIn)
           fee == Portion(usdcIn, protocolFeeBps)
           projected == ProjectedBuy(side, usdcIn)
<1>1. /\ netIn \in Nat /\ netIn <= usdcIn
      /\ scaledIn \in Nat
      /\ BuyCounter(side, scaledIn) \in Nat
      /\ BuyOwn(side, scaledIn) \in Nat
    BY BuyBounds DEF Buy
<1>2. protocolFeeBps \in Nat /\ protocolFeeBps <= Bps
    BY CapAssumption, BpsAssumption DEF TypeOK
<1>3. fee \in Nat /\ netIn = usdcIn - fee
    BY <1>2, PortionBounds DEF NetIn
<1>4. /\ projected.protocolFee = fee
      /\ projected.newYesReserve = IF side = "yes" THEN BuyOwn(side, scaledIn)
                                                   ELSE BuyCounter(side, scaledIn)
      /\ projected.newNoReserve = IF side = "yes" THEN BuyCounter(side, scaledIn)
                                                  ELSE BuyOwn(side, scaledIn)
      /\ projected.sharesOut = shares
    BY DEF ProjectedBuy, ProjectBuyAfterFees, PoolFees, ScaledIn, NetIn, BuyShares,
           BuyOwn, BuyCounter, Own, Counter, Side
<1>5. /\ QuotedBuy(side, usdcIn).sharesOut = projected.sharesOut
      /\ QuotedBuy(side, usdcIn).protocolFee = projected.protocolFee
    BY DEF QuotedBuy, ProjectedBuy, EstimateBuy, Restrict
<1> HIDE DEF netIn, scaledIn, shares, fee, projected
<1>6. shares \in Int /\ shares > 0
    BY <1>1 DEF Buy, shares, scaledIn, BuyShares, Own, TypeOK
<1>7. /\ wallet' = [wallet EXCEPT ![u] = @ - usdcIn]
      /\ feesPaid' = feesPaid + (usdcIn - netIn)
      /\ yesReserve' = IF side = "yes" THEN BuyOwn(side, scaledIn)
                                       ELSE BuyCounter(side, scaledIn)
      /\ noReserve' = IF side = "yes" THEN BuyCounter(side, scaledIn)
                                      ELSE BuyOwn(side, scaledIn)
      /\ balanceOf' = [balanceOf EXCEPT ![side][u] = @ + shares]
    BY DEF Buy, netIn, scaledIn, shares
<1>8. balanceOf[side][u] \in Nat /\ wallet[u] \in Nat /\ feesPaid \in Nat
    BY DEF TypeOK
<1>9. balanceOf'[side][u] = balanceOf[side][u] + shares
      /\ wallet'[u] = wallet[u] - usdcIn
    BY <1>7 DEF TypeOK
<1>10. Bought(u, side) = shares /\ -Received(u) = usdcIn
    BY <1>6, <1>8, <1>9 DEF Bought, Received
<1>11. feesPaid' - feesPaid = fee
    BY <1>1, <1>3, <1>7, <1>8
<1>12. BuyAgrees(u, side, usdcIn)
    BY <1>4, <1>5, <1>7, <1>10, <1>11 DEF BuyAgrees, projected
<1>13. QED
    BY <1>6, <1>10, <1>12

LEMMA SellQuoted ==
    ASSUME TypeOK, NEW u \in Users, NEW side \in Side, NEW shares \in Nat,
           NEW out \in Nat, Sell(u, side, shares, out)
    PROVE  /\ -Bought(u, side) = shares
           /\ SellAgrees(u, side, shares)
<1> DEFINE grossOut == out \div Scale
           afterLpFee == grossOut - Portion(grossOut, FeeBps)
           fee == Portion(afterLpFee, protocolFeeBps)
<1>1. afterLpFee \in Nat /\ fee \in Nat
    BY SellBounds DEF Sell
<1>2. EstimateSellGrossScaled(shares, yesReserve, noReserve, side) = out
    BY EstimatedPayout DEF Sell
<1>3. /\ QuotedSell(side, shares).usdcOut = afterLpFee - fee
      /\ QuotedSell(side, shares).protocolFee = fee
    BY <1>2 DEF QuotedSell, EstimateSell, PoolFees
<1> HIDE DEF afterLpFee, fee
<1>4. /\ wallet' = [wallet EXCEPT ![u] = @ + (afterLpFee - fee)]
      /\ feesPaid' = feesPaid + fee
      /\ balanceOf' = [balanceOf EXCEPT ![side][u] = @ - shares]
    BY DEF Sell, afterLpFee, fee
<1>5. balanceOf[side][u] \in Nat /\ wallet[u] \in Nat /\ feesPaid \in Nat
    BY DEF TypeOK
<1>6. /\ balanceOf'[side][u] = balanceOf[side][u] - shares
      /\ wallet'[u] = wallet[u] + (afterLpFee - fee)
    BY <1>4 DEF TypeOK
<1>7. -Bought(u, side) = shares /\ Received(u) = afterLpFee - fee
    BY <1>1, <1>5, <1>6 DEF Bought, Received
<1>8. feesPaid' - feesPaid = fee
    BY <1>1, <1>4, <1>5
<1>9. QED
    BY <1>3, <1>7, <1>8 DEF SellAgrees

\* A trade touches the tokens of one user and one side only.
LEMMA OthersUntouched ==
    ASSUME TypeOK, NEW u \in Users, NEW side \in Side, NEW n,
           balanceOf' = [balanceOf EXCEPT ![side][u] = n],
           NEW w \in Users, NEW s \in Side, w # u \/ s # side
    PROVE  Bought(w, s) = 0
<1>1. balanceOf'[s][w] = balanceOf[s][w] /\ balanceOf[s][w] \in Nat
    BY DEF TypeOK
<1>2. QED
    BY <1>1 DEF Bought

\* Every trade gives what the API quoted just before it, fee, shares, payout
\* and reserves afterwards, for every scale, fee and amount: estimateBuy,
\* estimateSell and projectBuyAfterFees round where the contract does.
THEOREM QuotesAgree == Spec => EstimateAgrees
<1> DEFINE Agrees(u, side) ==
               /\ Bought(u, side) > 0 => BuyAgrees(u, side, -Received(u))
               /\ Bought(u, side) < 0 => SellAgrees(u, side, -Bought(u, side))
<1>1. ASSUME SolvencyInv, Next, Open, NEW w \in Users, NEW s \in Side
      PROVE  Agrees(w, s)
    <2>1. TypeOK /\ pool.resolved = FALSE /\ market.created
        BY <1>1 DEF SolvencyInv, BaseInv, Open, TypeOK, PoolState
    <2>2. ~market.resolved
        BY <1>1, <2>1 DEF SolvencyInv, BaseInv, FactoryAndPoolAgree
    <2>3. ASSUME balanceOf' = balanceOf PROVE Agrees(w, s)
        <3>1. balanceOf[s][w] \in Nat
            BY <2>1 DEF TypeOK
        <3>2. Bought(w, s) = 0
            BY <2>3, <3>1 DEF Bought
        <3>3. QED
            BY <3>2
    <2>4. ASSUME NEW u \in Users, NEW side \in Side, NEW amount \in Amounts,
                 Buy(u, side, amount)
          PROVE  Agrees(w, s)
        <3>1. amount \in Nat
            BY AmountAssumption
        <3>2. CASE w = u /\ s = side
            <4>1. /\ Bought(u, side) > 0 /\ -Received(u) = amount
                  /\ BuyAgrees(u, side, amount)
                BY <2>1, <2>4, <3>1, BuyQuoted
            <4>2. ~ (Bought(u, side) < 0)
                <5>1. Bought(u, side) \in Int
                    BY <2>1, <2>4, <3>1, BuyBase, <1>1
                    DEF Bought, TypeOK, SolvencyInv, BaseInv
                <5>2. QED
                    BY <4>1, <5>1
            <4>3. QED
                BY <3>2, <4>1, <4>2
        <3>3. CASE ~(w = u /\ s = side)
            <4>1. PICK n : balanceOf' = [balanceOf EXCEPT ![side][u] = n]
                BY <2>4 DEF Buy
            <4>2. Bought(w, s) = 0
                BY <2>1, <3>3, <4>1, OthersUntouched
            <4>3. QED
                BY <4>2
        <3>4. QED
            BY <3>2, <3>3
    <2>5. ASSUME NEW u \in Users, NEW side \in Side, NEW shares \in ShareAmounts,
                 NEW out \in 0..shares, Sell(u, side, shares, out)
          PROVE  Agrees(w, s)
        <3>1. shares \in Nat /\ out \in Nat
            BY AmountAssumption
        <3>2. CASE w = u /\ s = side
            <4>1. -Bought(u, side) = shares /\ SellAgrees(u, side, shares)
                BY <2>1, <2>5, <3>1, SellQuoted
            <4>2. ~ (Bought(u, side) > 0)
                <5>1. Bought(u, side) \in Int
                    BY <2>1, <2>5, <3>1, SellBase, <1>1
                    DEF Bought, TypeOK, SolvencyInv, BaseInv
                <5>2. QED
                    BY <3>1, <4>1, <5>1
            <4>3. QED
                BY <3>2, <4>1, <4>2
        <3>3. CASE ~(w = u /\ s = side)
            <4>1. PICK n : balanceOf' = [balanceOf EXCEPT ![side][u] = n]
                BY <2>5 DEF Sell
            <4>2. Bought(w, s) = 0
                BY <2>1, <3>3, <4>1, OthersUntouched
            <4>3. QED
                BY <4>2
        <3>4. QED
            BY <3>2, <3>3
    <2>6. ASSUME NEW u \in Users, Redeem(u) PROVE Agrees(w, s)
        BY <2>2, <2>6 DEF Redeem
    <2>7. CASE \/ Creation
               \/ \E u \in Users, shares \in ShareAmounts : RemoveLiquidity(u, shares)
               \/ Drain
               \/ AdminStep
               \/ \E side \in Side : Resolve(side)
        <3>1. UNCHANGED tokens
            <4>1. CASE Creation
                BY <4>1 DEF Creation, CreateMarket
            <4>2. CASE \E u \in Users, shares \in ShareAmounts :
                           RemoveLiquidity(u, shares)
                BY <4>2 DEF RemoveLiquidity
            <4>3. CASE Drain
                BY <4>3 DEF Drain
            <4>4. CASE AdminStep
                BY <4>4 DEF AdminStep, UpdatePoolFeeWallet, UpdatePoolProtocolFeeBps,
                            UpdatePoolClaimsBufferBps
            <4>5. CASE \E side \in Side : Resolve(side)
                BY <4>5 DEF Resolve
            <4>6. QED
                BY <2>7, <4>1, <4>2, <4>3, <4>4, <4>5
        <3>2. QED
            BY <2>3, <3>1 DEF tokens
    <2>8. QED
        BY <1>1, <2>4, <2>5, <2>6, <2>7 DEF Next, PoolStep
<1>2. SolvencyInv /\ [Next]_vars =>
          [Open => \A u \in Users, side \in Side : Agrees(u, side)]_vars
    BY <1>1
<1>3. QED
    BY Solvency, <1>2, PTL DEF Spec, EstimateAgrees

---------------------------------------------------------------------------
(* The loops of the sell quote *)

\* What decides whether a payout x keeps the product: the slack has to reach
\* the root of the discriminant.
Slack(x) == B - 2 * x

CallTypeOK ==
    /\ ownReserve \in Nat /\ counterReserve \in Nat /\ sharesIn \in Nat

\* Newton's iteration: the value it looks at is never below the floor of the
\* root, and the next one is computed from it.
NewtonInv ==
    pc = "sqrt" =>
        /\ sharesIn > 0
        /\ Discriminant > 0 =>
              /\ z > 0
              /\ y = (Discriminant \div z + z) \div 2
              /\ Discriminant < (z + 1) * (z + 1)
        /\ Discriminant = 0 => z = 0 /\ y = 0

\* The payout: it can be paid, nothing larger keeps the product, and after
\* one nudge the loop ends.
NudgeInv ==
    pc \in {"nudge", "done"} =>
        /\ scaledOut \in Payable(counterReserve, sharesIn)
        /\ \A more \in Payable(counterReserve, sharesIn) :
              more > scaledOut =>
                  ~KeepsProduct(ownReserve, counterReserve, sharesIn, more)

NudgedOnce ==
    /\ pc \in {"sqrt", "estimate"} => nudges = 0
    /\ pc = "nudge" => \/ nudges = 0 /\ Slack(scaledOut) >= z
                       \/ nudges = 1 /\ Slack(scaledOut) >= z + 2
    /\ pc = "done" =>
          KeepsProduct(ownReserve, counterReserve, sharesIn, scaledOut)

QuoteInv ==
    /\ QuoteTypeOK /\ RootIsFloor /\ OneNudge
    /\ NewtonInv /\ NudgeInv /\ NudgedOnce

---------------------------------------------------------------------------
(* The iteration *)

\* A step of Newton's iteration does not fall below the floor of the root,
LEMMA NewtonAbove ==
    ASSUME NEW n \in Nat, n > 0, NEW x \in Nat, x > 0,
           NEW r \in Nat, r = (n \div x + x) \div 2,
           n < (x + 1) * (x + 1)
    PROVE  /\ r > 0
           /\ n < (r + 1) * (r + 1)
<1> DEFINE q == n \div x
<1>1. q \in Nat /\ x * q <= n /\ n < x * q + x
    BY DivFloor
<1>2. 2 * r <= q + x /\ q + x < 2 * r + 2
    <2> HIDE DEF q
    <2>1. q + x \in Int
        BY <1>1
    <2>2. r = (q + x) \div 2
        BY DEF q
    <2>3. QED
        BY <2>1, <2>2, DivFloor
<1> HIDE DEF q
<1>3. x = 1 => q > 0
    BY <1>1
<1>4. r > 0
    BY <1>1, <1>2, <1>3
<1>5. 4 * (x * (q + 1)) <= (x + (q + 1)) * (x + (q + 1))
    BY <1>1, MeanSquare
<1>6. (x + (q + 1)) * (x + (q + 1)) <= (2 * r + 2) * (2 * r + 2)
    BY <1>1, <1>2, SquareMonotone
<1>7. (2 * r + 2) * (2 * r + 2) = 4 * ((r + 1) * (r + 1))
    OBVIOUS
<1>8. n < x * (q + 1)
    BY <1>1
<1>9. x * (q + 1) \in Nat /\ (r + 1) * (r + 1) \in Nat
    BY <1>1, ProductNat
<1>10. 4 * (x * (q + 1)) <= 4 * ((r + 1) * (r + 1))
    BY <1>1, <1>5, <1>6, <1>7, <1>9
<1> DEFINE s == x * (q + 1)
           t == (r + 1) * (r + 1)
<1>11. n < s /\ s \in Nat /\ t \in Nat /\ 4 * s <= 4 * t
    BY <1>8, <1>9, <1>10
<1>12. n < t
    <2> HIDE DEF s, t
    <2> QED  BY <1>11
<1>13. QED
    BY <1>4, <1>12

\* and when it no longer comes down, it is there.
LEMMA NewtonBelow ==
    ASSUME NEW n \in Nat, NEW x \in Nat, x > 0,
           NEW r \in Nat, r = (n \div x + x) \div 2, r >= x
    PROVE  x * x <= n
<1> DEFINE q == n \div x
<1>1. q \in Nat /\ x * q <= n
    BY DivFloor
<1>2. 2 * r <= q + x
    <2> HIDE DEF q
    <2>1. q + x \in Int
        BY <1>1
    <2>2. r = (q + x) \div 2
        BY DEF q
    <2>3. QED
        BY <2>1, <2>2, DivFloor
<1> HIDE DEF q
<1>3. x <= q
    BY <1>1, <1>2
<1>4. x * x <= q * x
    BY <1>1, <1>3, ProductMonotone
<1>5. QED
    BY <1>1, <1>4

---------------------------------------------------------------------------
(* The call *)

\* The facts about the quadratic, for the reserves and shares of the call.
LEMMA CallQuadratic ==
    ASSUME CallTypeOK
    PROVE  /\ B \in Nat /\ Discriminant \in Nat
           /\ \A r \in Nat : r * r <= Discriminant => r <= B
           /\ 0 \in Payable(counterReserve, sharesIn)
           /\ KeepsProduct(ownReserve, counterReserve, sharesIn, 0)
BY DiscriminantNat, RootWithinB, NothingKeepsProduct
DEF CallTypeOK, B, Discriminant

LEMMA CallPayout ==
    ASSUME CallTypeOK, NEW x \in Payable(counterReserve, sharesIn), NEW r \in Nat
    PROVE  /\ /\ Discriminant < (r + 1) * (r + 1)
              /\ Slack(x) >= r + 1
              => KeepsProduct(ownReserve, counterReserve, sharesIn, x)
           /\ /\ r * r <= Discriminant
              /\ KeepsProduct(ownReserve, counterReserve, sharesIn, x)
              => Slack(x) >= r
<1>1. /\ ownReserve \in Nat /\ counterReserve \in Nat /\ sharesIn \in Nat
      /\ B = ownReserve + counterReserve + sharesIn
      /\ Discriminant = B * B - 4 * sharesIn * counterReserve
    BY DEF CallTypeOK, B, Discriminant
<1>2. ASSUME Discriminant < (r + 1) * (r + 1), Slack(x) >= r + 1
      PROVE  KeepsProduct(ownReserve, counterReserve, sharesIn, x)
    BY <1>1, <1>2, SlackSuffices DEF Slack
<1>3. ASSUME r * r <= Discriminant,
             KeepsProduct(ownReserve, counterReserve, sharesIn, x)
      PROVE  Slack(x) >= r
    BY <1>1, <1>3, RootBoundsPayout DEF Slack
<1>4. QED
    BY <1>2, <1>3

LEMMA QuoteInvInit == QuoteInit => QuoteInv
<1> SUFFICES ASSUME QuoteInit PROVE QuoteInv
    OBVIOUS
<1>1. CallTypeOK
    BY BoundsAssumption DEF QuoteInit, CallTypeOK
<1>2. Discriminant \in Nat
    BY <1>1, CallQuadratic
<1>3. /\ z = Discriminant /\ y \in Nat
      /\ z = 0 => y = 0
      /\ z > 0 => y > 0 /\ y = (Discriminant \div z + z) \div 2
    <2> DEFINE d == Discriminant
    <2>1. d \in Nat /\ z = d /\ y = IF d = 0 THEN 0 ELSE (d + 1) \div 2
        BY <1>2 DEF QuoteInit
    <2>2. d > 0 => d \div d = 1
        <3> HIDE DEF d
        <3>1. ASSUME d > 0 PROVE d \div d = 1
            <4>1. d * (d \div d) <= d /\ d < d * (d \div d) + d
                BY <2>1, <3>1, DivFloor
            <4>2. d \div d \in Nat
                BY <2>1, <3>1, DivFloor
            <4>3. CASE d \div d = 0
                BY <4>1, <4>3, <2>1
            <4>4. CASE d \div d > 1
                <5>1. 2 * d <= (d \div d) * d
                    BY <4>2, <4>4, <2>1, ProductMonotone
                <5>2. QED
                    BY <4>1, <4>2, <5>1, <2>1, <3>1
            <4>5. QED
                BY <4>2, <4>3, <4>4
        <3>2. QED
            BY <3>1
    <2>3. d > 0 => (d + 1) \div 2 > 0 /\ (d + 1) \div 2 \in Nat
        <3> HIDE DEF d
        <3> QED  BY <2>1
    <2>4. QED
        <3>1. d > 0 => 1 + d = d + 1
            BY <2>1
        <3>2. QED
            BY <2>1, <2>2, <2>3, <3>1
<1>4. Discriminant > 0 => Discriminant < (Discriminant + 1) * (Discriminant + 1)
    <2> DEFINE d == Discriminant
    <2>1. d \in Nat
        BY <1>2
    <2>2. d > 0 => d < (d + 1) * (d + 1)
        <3> HIDE DEF d
        <3>1. 1 * (d + 1) <= (d + 1) * (d + 1)
            BY <2>1, ProductMonotone
        <3>2. QED
            BY <2>1, <3>1
    <2>3. QED
        BY <2>2
<1>5. QuoteTypeOK /\ OneNudge
    BY <1>1, <1>2, <1>3 DEF QuoteInit, CallTypeOK, QuoteTypeOK, OneNudge
<1>6. CASE sharesIn = 0
    <2>1. pc = "done" /\ scaledOut = 0 /\ nudges = 0
        BY <1>6 DEF QuoteInit
    <2>2. NudgeInv /\ NudgedOnce
        BY <1>1, <1>6, <2>1, CallQuadratic DEF NudgeInv, NudgedOnce, Payable
    <2>3. QED
        BY <1>5, <2>1, <2>2 DEF QuoteInv, RootIsFloor, NewtonInv
<1>7. CASE sharesIn # 0
    <2>1. pc = "sqrt" /\ nudges = 0 /\ sharesIn > 0
        BY <1>1, <1>7 DEF QuoteInit, CallTypeOK
    <2>2. NewtonInv /\ RootIsFloor
        BY <1>2, <1>3, <1>4, <2>1 DEF NewtonInv, RootIsFloor
    <2>3. QED
        BY <1>5, <2>1, <2>2 DEF QuoteInv, NudgeInv, NudgedOnce
<1>8. QED
    BY <1>6, <1>7

LEMMA NewtonStepInv == QuoteInv /\ NewtonStep => QuoteInv'
<1> SUFFICES ASSUME QuoteInv, NewtonStep PROVE QuoteInv'
    OBVIOUS
<1>1. /\ CallTypeOK /\ z \in Nat /\ y \in Nat /\ y < z /\ pc = "sqrt"
      /\ sharesIn > 0
    BY DEF QuoteInv, QuoteTypeOK, CallTypeOK, NewtonStep, NewtonInv
<1>2. Discriminant \in Nat /\ Discriminant' = Discriminant
    BY <1>1, CallQuadratic DEF NewtonStep, Discriminant, B
<1>3. /\ Discriminant > 0
      /\ z > 0
      /\ y = (Discriminant \div z + z) \div 2
      /\ Discriminant < (z + 1) * (z + 1)
    BY <1>1, <1>2 DEF QuoteInv, NewtonInv
<1>4. y > 0 /\ Discriminant < (y + 1) * (y + 1)
    <2> DEFINE n == Discriminant
    <2>1. n \in Nat /\ n > 0 /\ y = (n \div z + z) \div 2 /\ n < (z + 1) * (z + 1)
        BY <1>2, <1>3
    <2> HIDE DEF n
    <2>2. y > 0 /\ n < (y + 1) * (y + 1)
        BY <1>1, <1>3, <2>1, NewtonAbove
    <2>3. QED
        BY <2>2 DEF n
<1>5. /\ z' = y /\ z' > 0
      /\ y' = (Discriminant' \div z' + z') \div 2
    BY <1>2, <1>4 DEF NewtonStep
<1>6. y' \in Nat
    <2> DEFINE q == Discriminant \div y
    <2>1. q \in Nat
        BY <1>1, <1>2, <1>4, DivFloor
    <2>2. y' = (q + y) \div 2
        BY DEF NewtonStep
    <2>3. QED
        <3> HIDE DEF q
        <3> QED  BY <1>1, <2>1, <2>2
<1>7. Discriminant < (z' + 1) * (z' + 1)
    BY <1>4, <1>5
<1>8. QuoteTypeOK' /\ OneNudge'
    BY <1>1, <1>6 DEF QuoteInv, NewtonStep, QuoteTypeOK, OneNudge
<1>9. NewtonInv'
    BY <1>1, <1>2, <1>3, <1>5, <1>7 DEF NewtonInv, NewtonStep
<1>10. RootIsFloor'
    <2>1. y' < z' => y' > 0
        <3>1. y' > 0
            <4>1. Discriminant < (y + 1) * (y + 1) /\ y' = (Discriminant \div y + y) \div 2
                BY <1>4 DEF NewtonStep
            <4>2. QED
                BY <1>1, <1>2, <1>3, <1>4, <1>6, <4>1, NewtonAbove
        <3>2. QED
            BY <3>1
    <2>2. QED
        BY <1>1, <2>1 DEF RootIsFloor, NewtonStep
<1>11. NudgeInv' /\ NudgedOnce'
    BY <1>1 DEF NudgeInv, NudgedOnce, NewtonStep, QuoteInv
<1>12. QED
    BY <1>8, <1>9, <1>10, <1>11 DEF QuoteInv

LEMMA NewtonDoneInv == QuoteInv /\ NewtonDone => QuoteInv'
<1> SUFFICES ASSUME QuoteInv, NewtonDone PROVE QuoteInv'
    OBVIOUS
<1>1. /\ CallTypeOK /\ z \in Nat /\ y \in Nat /\ y >= z /\ pc = "sqrt"
    BY DEF QuoteInv, QuoteTypeOK, CallTypeOK, NewtonDone
<1>2. Discriminant \in Nat /\ Discriminant' = Discriminant
    BY <1>1, CallQuadratic DEF NewtonDone, Discriminant, B
<1>3. z * z <= Discriminant /\ Discriminant < (z + 1) * (z + 1)
    <2>1. CASE Discriminant = 0
        BY <1>1, <1>2, <2>1 DEF QuoteInv, NewtonInv
    <2>2. CASE Discriminant > 0
        BY <1>1, <1>2, <2>2, NewtonBelow DEF QuoteInv, NewtonInv
    <2>3. QED
        BY <1>2, <2>1, <2>2
<1>4. /\ pc' = "estimate" /\ z' = z /\ nudges' = nudges
    BY DEF NewtonDone
<1>5. RootIsFloor'
    BY <1>2, <1>3, <1>4 DEF RootIsFloor
<1>6. QuoteTypeOK' /\ OneNudge'
    BY <1>4 DEF QuoteInv, NewtonDone, QuoteTypeOK, OneNudge
<1>7. NewtonInv' /\ NudgeInv' /\ NudgedOnce'
    BY <1>1, <1>4 DEF QuoteInv, NewtonInv, NudgeInv, NudgedOnce
<1>8. QED
    BY <1>5, <1>6, <1>7 DEF QuoteInv

LEMMA EstimateInv == QuoteInv /\ Estimate => QuoteInv'
<1> SUFFICES ASSUME QuoteInv, Estimate PROVE QuoteInv'
    OBVIOUS
<1> DEFINE e == (B - z) \div 2
           m == Smaller(sharesIn, counterReserve)
<1>1. /\ CallTypeOK /\ z \in Nat /\ pc = "estimate" /\ nudges = 0
      /\ pc' = "nudge" /\ nudges' = 0 /\ z' = z
      /\ ownReserve' = ownReserve /\ counterReserve' = counterReserve
      /\ sharesIn' = sharesIn /\ y' = y
      /\ scaledOut' = Smaller(e, m)
    BY DEF QuoteInv, QuoteTypeOK, CallTypeOK, Estimate, NudgedOnce
<1>2. /\ B \in Nat /\ Discriminant \in Nat
      /\ z * z <= Discriminant /\ Discriminant < (z + 1) * (z + 1)
    BY <1>1, CallQuadratic DEF QuoteInv, RootIsFloor
<1>3. z <= B
    BY <1>1, <1>2, CallQuadratic
<1>4. e \in Nat /\ 2 * e <= B - z /\ B - z < 2 * e + 2
    <2> DEFINE d == B - z
    <2>1. d \in Nat
        BY <1>1, <1>2, <1>3
    <2>2. d \div 2 \in Nat /\ 2 * (d \div 2) <= d /\ d < 2 * (d \div 2) + 2
        <3> HIDE DEF d
        <3> QED  BY <2>1
    <2>3. QED
        BY <2>2
<1> HIDE DEF e
<1>5. m \in Nat /\ m <= sharesIn /\ m <= counterReserve
      /\ \A x \in Payable(counterReserve, sharesIn) : x <= m
    BY <1>1 DEF Smaller, Payable, CallTypeOK
<1> HIDE DEF m
<1>6. /\ scaledOut' \in Nat /\ scaledOut' <= e /\ scaledOut' <= m
      /\ scaledOut' = e \/ scaledOut' = m
    BY <1>1, <1>4, <1>5 DEF Smaller
<1>7. scaledOut' \in Payable(counterReserve, sharesIn)
    BY <1>1, <1>5, <1>6 DEF Payable, CallTypeOK
<1>8. ASSUME NEW more \in Payable(counterReserve, sharesIn), more > scaledOut',
             KeepsProduct(ownReserve, counterReserve, sharesIn, more)
      PROVE  FALSE
    <2>1. more \in Nat /\ more <= m
        BY <1>5, <1>8 DEF Payable
    <2>2. more > e
        BY <1>4, <1>5, <1>6, <1>8, <2>1
    <2>3. Slack(more) >= z
        BY <1>1, <1>2, <1>8, CallPayout
    <2>4. QED
        BY <1>1, <1>2, <1>4, <2>1, <2>2, <2>3 DEF Slack
<1>9. Slack(scaledOut') >= z
    BY <1>1, <1>2, <1>4, <1>6 DEF Slack
<1>10. B' = B /\ Discriminant' = Discriminant
    BY <1>1 DEF B, Discriminant
<1>11. NudgeInv'
    BY <1>1, <1>7, <1>8 DEF NudgeInv
<1>12. NudgedOnce'
    BY <1>1, <1>9, <1>10 DEF NudgedOnce, Slack
<1>13. QuoteTypeOK' /\ OneNudge'
    BY <1>1, <1>6 DEF QuoteInv, QuoteTypeOK, OneNudge
<1>14. NewtonInv' /\ RootIsFloor'
    BY <1>1, <1>2, <1>10 DEF NewtonInv, RootIsFloor
<1>15. QED
    BY <1>11, <1>12, <1>13, <1>14 DEF QuoteInv

LEMMA NudgeStepInv == QuoteInv /\ Nudge => QuoteInv'
<1> SUFFICES ASSUME QuoteInv, Nudge PROVE QuoteInv'
    OBVIOUS
<1>1. /\ CallTypeOK /\ z \in Nat /\ pc = "nudge" /\ pc' = "nudge" /\ z' = z
      /\ ownReserve' = ownReserve /\ counterReserve' = counterReserve
      /\ sharesIn' = sharesIn /\ y' = y
      /\ scaledOut' = scaledOut - 1 /\ nudges' = nudges + 1
      /\ scaledOut \in Nat /\ scaledOut # 0
      /\ ~KeepsProduct(ownReserve, counterReserve, sharesIn, scaledOut)
    BY DEF QuoteInv, QuoteTypeOK, CallTypeOK, Nudge, Settled
<1>2. B \in Nat /\ Discriminant \in Nat /\ Discriminant < (z + 1) * (z + 1)
    BY <1>1, CallQuadratic DEF QuoteInv, RootIsFloor
<1>3. scaledOut \in Payable(counterReserve, sharesIn)
    BY <1>1 DEF QuoteInv, NudgeInv
<1>4. Slack(scaledOut) < z + 2
    <2>1. ~ (Slack(scaledOut) >= z + 1)
        BY <1>1, <1>2, <1>3, CallPayout
    <2>2. QED
        BY <1>1, <1>2, <2>1 DEF Slack
<1>5. nudges = 0 /\ Slack(scaledOut) >= z
    BY <1>1, <1>2, <1>4 DEF QuoteInv, NudgedOnce, Slack
<1>6. nudges' = 1 /\ Slack(scaledOut') >= z + 2
    BY <1>1, <1>2, <1>5 DEF Slack
<1>7. scaledOut' \in Payable(counterReserve, sharesIn)
    BY <1>1, <1>3 DEF Payable, CallTypeOK
<1>8. ASSUME NEW more \in Payable(counterReserve, sharesIn), more > scaledOut'
      PROVE  ~KeepsProduct(ownReserve, counterReserve, sharesIn, more)
    <2>1. more \in Nat
        BY DEF Payable
    <2>2. more = scaledOut \/ more > scaledOut
        BY <1>1, <1>8, <2>1
    <2>3. QED
        BY <1>1, <2>2 DEF QuoteInv, NudgeInv
<1>9. B' = B /\ Discriminant' = Discriminant
    BY <1>1 DEF B, Discriminant
<1>10. NudgeInv' /\ NudgedOnce'
    BY <1>1, <1>6, <1>7, <1>8, <1>9 DEF NudgeInv, NudgedOnce, Slack
<1>11. QuoteTypeOK' /\ OneNudge' /\ NewtonInv' /\ RootIsFloor'
    BY <1>1, <1>6, <1>9
    DEF QuoteInv, QuoteTypeOK, OneNudge, NewtonInv, RootIsFloor
<1>12. QED
    BY <1>10, <1>11 DEF QuoteInv

LEMMA ReturnInv == QuoteInv /\ Return => QuoteInv'
<1> SUFFICES ASSUME QuoteInv, Return PROVE QuoteInv'
    OBVIOUS
<1>1. /\ CallTypeOK /\ pc = "nudge" /\ pc' = "done" /\ z' = z
      /\ ownReserve' = ownReserve /\ counterReserve' = counterReserve
      /\ sharesIn' = sharesIn /\ y' = y
      /\ scaledOut' = scaledOut /\ nudges' = nudges /\ Settled
    BY DEF QuoteInv, QuoteTypeOK, CallTypeOK, Return
<1>2. KeepsProduct(ownReserve, counterReserve, sharesIn, scaledOut)
    BY <1>1, CallQuadratic DEF Settled
<1>3. B' = B /\ Discriminant' = Discriminant
    BY <1>1 DEF B, Discriminant
<1>4. NudgeInv' /\ NudgedOnce'
    BY <1>1, <1>2 DEF QuoteInv, NudgeInv, NudgedOnce
<1>5. QuoteTypeOK' /\ OneNudge' /\ NewtonInv' /\ RootIsFloor'
    BY <1>1, <1>3 DEF QuoteInv, QuoteTypeOK, OneNudge, NewtonInv, RootIsFloor
<1>6. QED
    BY <1>4, <1>5 DEF QuoteInv

LEMMA QuoteInvStep == QuoteInv /\ [QuoteNext]_quoteVars => QuoteInv'
<1> SUFFICES ASSUME QuoteInv, [QuoteNext]_quoteVars PROVE QuoteInv'
    OBVIOUS
<1>1. CASE UNCHANGED quoteVars
    BY <1>1 DEF quoteVars, QuoteInv, QuoteTypeOK, RootIsFloor, OneNudge, NewtonInv, NudgeInv,
                NudgedOnce, Slack, B, Discriminant
<1>2. QED
    BY <1>1, NewtonStepInv, NewtonDoneInv, EstimateInv, NudgeStepInv, ReturnInv DEF QuoteNext

\* Whatever the reserves and the shares sold, _sqrt ends in the floor of the
\* root without a division by zero, the loop after it takes off at most one
\* unit, and the quote is the largest payout that keeps the product.
THEOREM SellQuoteIsLargest == QuoteSpec => []QuoteIsLargest
<1>1. QuoteInv => QuoteIsLargest
    BY DEF QuoteInv, QuoteIsLargest, NudgeInv, NudgedOnce, IsLargestPayout
<1>2. QED
    BY QuoteInvInit, QuoteInvStep, <1>1, PTL DEF QuoteSpec

---------------------------------------------------------------------------
(* Markets of the oracle *)

\* What the oracle's variables hold, and what the record says meanwhile.
OracleTypeOK ==
    /\ source \in {"admin", "uma"}
    /\ umaOracle \in Oracles \union {NoOracle}
    /\ assertion \in Assertion

OracleInv ==
    /\ OracleTypeOK
    /\ market \in MarketRecord
    /\ market.resolved => market.created
    /\ ResultWasAsserted

LEMMA ProposedIsSide ==
    ASSUME OracleTypeOK, Settles
    PROVE  assertion.proposed \in Side
BY OracleAssumption DEF OracleTypeOK, Settles, Assertion

\* Of the calls to the pool only the drain touches the record, and it leaves
\* alone what the record says of creation and result.
LEMMA PoolStepKeepsResult ==
    ASSUME market \in MarketRecord, PoolStep
    PROVE  /\ market' \in MarketRecord
           /\ market'.created = market.created
           /\ market'.resolved = market.resolved
           /\ market'.result = market.result
<1>1. CASE \E u \in Users, side \in Side, amount \in Amounts :
              Buy(u, side, amount)
    BY <1>1 DEF Buy, flags
<1>2. CASE \E u \in Users, side \in Side, shares \in ShareAmounts :
              \E out \in 0..shares : Sell(u, side, shares, out)
    BY <1>2 DEF Sell, flags
<1>3. CASE \E u \in Users, shares \in ShareAmounts : RemoveLiquidity(u, shares)
    BY <1>3 DEF RemoveLiquidity, flags
<1>4. CASE \E u \in Users : Redeem(u)
    BY <1>4 DEF Redeem, flags
<1>5. CASE Drain
    BY <1>5 DEF Drain, MarketRecord
<1>6. CASE AdminStep
    BY <1>6 DEF AdminStep, UpdatePoolFeeWallet, UpdatePoolProtocolFeeBps,
                UpdatePoolClaimsBufferBps, flags
<1>7. QED
    BY <1>1, <1>2, <1>3, <1>4, <1>5, <1>6 DEF PoolStep

LEMMA OracleInvInit == OracleInit => OracleInv
BY DEF OracleInit, OracleInv, OracleTypeOK, Init, MarketRecord, Outcome,
       Assertion, ResultWasAsserted

LEMMA OracleInvStep ==
    OracleInv /\ [OracleNext]_<<vars, oracleVars>> => OracleInv'
<1> SUFFICES ASSUME OracleInv, [OracleNext]_<<vars, oracleVars>>
             PROVE  OracleInv'
    OBVIOUS
<1> USE DEF OracleInv
<1>1. CASE CreateWithSource
    <2>1. /\ market' = [market EXCEPT !.created = TRUE]
          /\ ~market.resolved
        BY <1>1 DEF CreateWithSource, Creation, CreateMarket
    <2>2. /\ market' \in MarketRecord
          /\ ~market'.resolved
        BY <2>1 DEF MarketRecord
    <2>3. OracleTypeOK'
        BY <1>1 DEF CreateWithSource, OracleTypeOK
    <2>4. QED
        BY <2>2, <2>3 DEF ResultWasAsserted
<1>2. CASE PoolStep /\ UNCHANGED oracleVars
    <2>1. OracleTypeOK'
        BY <1>2 DEF oracleVars, OracleTypeOK
    <2>2. QED
        BY <1>2, <2>1, PoolStepKeepsResult DEF oracleVars, ResultWasAsserted
<1>3. ASSUME NEW side \in Side, ResolveByAdmin(side) PROVE OracleInv'
    <2>1. OracleTypeOK'
        BY <1>3 DEF ResolveByAdmin, oracleVars, OracleTypeOK
    <2>2. source' # "uma"
        BY <1>3 DEF ResolveByAdmin, oracleVars
    <2>3. market' \in MarketRecord /\ market'.created
        BY <1>3 DEF ResolveByAdmin, Resolve, MarketRecord, Outcome, Side
    <2>4. QED
        BY <2>1, <2>2, <2>3 DEF ResultWasAsserted
<1>4. ASSUME NEW side \in Side, RequestUmaResolution(side) PROVE OracleInv'
    <2>1. OracleTypeOK'
        BY <1>4 DEF RequestUmaResolution, OracleTypeOK, Assertion
    <2>2. market' = market /\ ~market.resolved
        BY <1>4 DEF RequestUmaResolution, vars, flags
    <2>3. QED
        BY <2>1, <2>2 DEF ResultWasAsserted
<1>5. CASE AssertedTruthfully
    <2>1. OracleTypeOK'
        BY <1>5 DEF AssertedTruthfully, oracleVars, OracleTypeOK
    <2>2. assertion.proposed \in Side
        BY <1>5, ProposedIsSide DEF AssertedTruthfully
    <2>3. market' = [market EXCEPT !.resolved = TRUE,
                                   !.result = assertion.proposed]
          /\ market.created
        BY <1>5 DEF AssertedTruthfully, Resolve
    <2>4. /\ market' \in MarketRecord
          /\ market'.created
          /\ market'.result = assertion.proposed
        BY <2>2, <2>3 DEF MarketRecord, Outcome, Side
    <2>5. assertion' = assertion
        BY <1>5 DEF AssertedTruthfully, oracleVars
    <2>6. QED
        BY <2>1, <2>4, <2>5 DEF ResultWasAsserted
<1>6. CASE AssertionRejected
    <2>1. OracleTypeOK'
        BY <1>6 DEF AssertionRejected, OracleTypeOK, Assertion
    <2>2. market' = market /\ ~market.resolved
        BY <1>6 DEF AssertionRejected, vars, flags
    <2>3. QED
        BY <2>1, <2>2 DEF ResultWasAsserted
<1>7. ASSUME NEW oracle \in Oracles \union {NoOracle}, SetUmaOracle(oracle)
      PROVE  OracleInv'
    <2>1. OracleTypeOK'
        BY <1>7 DEF SetUmaOracle, OracleTypeOK
    <2>2. market' = market
        BY <1>7 DEF SetUmaOracle, vars, flags
    <2>3. QED
        BY <1>7, <2>1, <2>2 DEF SetUmaOracle, ResultWasAsserted
<1>8. CASE UNCHANGED <<vars, oracleVars>>
    BY <1>8 DEF vars, flags, oracleVars, OracleTypeOK, ResultWasAsserted
<1>9. QED
    BY <1>1, <1>2, <1>3, <1>4, <1>5, <1>6, <1>7, <1>8 DEF OracleNext

\* A market of the oracle has the result that was asserted of it, for any
\* number of oracles, rejected assertions and changes of the oracle.
THEOREM AssertedResult == OracleSpec => []ResultWasAsserted
<1>1. OracleInv => ResultWasAsserted
    BY DEF OracleInv
<1>2. QED
    BY OracleInvInit, OracleInvStep, <1>1, PTL DEF OracleSpec

\* Each step of the market with its oracle is a step of the pool or leaves
\* the pool as it was: creation with a source is a creation, both ways to a
\* result are a resolution, and the rest concerns the oracle alone.
LEMMA OracleStepIsPoolStep ==
    OracleInv /\ [OracleNext]_<<vars, oracleVars>> => [Next]_vars
<1> SUFFICES ASSUME OracleInv, [OracleNext]_<<vars, oracleVars>>
             PROVE  [Next]_vars
    OBVIOUS
<1>1. CASE CreateWithSource
    BY <1>1 DEF CreateWithSource, Next
<1>2. CASE PoolStep
    BY <1>2 DEF Next
<1>3. ASSUME NEW side \in Side, ResolveByAdmin(side) PROVE Next
    BY <1>3 DEF ResolveByAdmin, Next
<1>4. CASE AssertedTruthfully
    BY <1>4, ProposedIsSide DEF AssertedTruthfully, OracleInv, Next
<1>5. CASE \/ \E side \in Side : RequestUmaResolution(side)
           \/ AssertionRejected
           \/ \E oracle \in Oracles \union {NoOracle} : SetUmaOracle(oracle)
           \/ UNCHANGED <<vars, oracleVars>>
    <2>1. UNCHANGED vars
        BY <1>5 DEF RequestUmaResolution, AssertionRejected, SetUmaOracle
    <2>2. QED
        BY <2>1
<1>6. QED
    BY <1>1, <1>2, <1>3, <1>4, <1>5 DEF OracleNext

\* A market with its oracle implements the pool's specification.
THEOREM OracleMarketIsMarket == OracleSpec => Spec
<1>1. OracleInit => Init
    BY DEF OracleInit
<1>2. QED
    BY OracleInvInit, OracleInvStep, OracleStepIsPoolStep, <1>1, PTL
    DEF OracleSpec, Spec

\* So the winners of a market that an oracle decides are covered as well.
THEOREM OracleWinnersPaid == OracleSpec => []WinnersCovered
BY OracleMarketIsMarket, WinnersPaid, PTL

\* Its settlement is as final, whichever way the result comes.
THEOREM OracleMarketSettles == OracleSpec => SettlementFinal
BY OracleMarketIsMarket, SettledForGood, PTL

\* Quotes are as exact there,
THEOREM OracleQuotesAgree == OracleSpec => EstimateAgrees
BY OracleMarketIsMarket, QuotesAgree, PTL

\* and its winners are promised the same.
THEOREM OracleMarketKeepsPromise == OracleSpec => KeepsPromise
BY OracleMarketIsMarket, PoolKeepsPromise, PTL
=============================================================================
