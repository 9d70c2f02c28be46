---------------------------- MODULE VaultProofs ----------------------------
(***************************************************************************)
(* Custody, for any number of users, ranges and depositors, any amounts,   *)
(* and any exponential and logarithm of which no more is known than the    *)
(* assumptions of RangePool.tla say.                                       *)
(***************************************************************************)
EXTENDS Vault, SumProofs

Supplies == [Ranges -> 0..MaxSupply]

(* Arithmetic of the range pool *)

LEMMA PortionBounds ==
    ASSUME NEW amount \in Nat, NEW bps \in Nat, bps <= Bps
    PROVE  /\ Portion(amount, bps) \in Nat
           /\ Portion(amount, bps) <= amount
<1> DEFINE x == amount * bps
<1>1. Bps \in Nat /\ Bps > 0
    BY UnitsAssumption
<1>2. x \in Nat
    BY ProductNat
<1>3. x <= amount * Bps
    <2>1. bps * amount <= Bps * amount
        BY <1>1, ProductMonotone
    <2>2. QED
        BY <1>1, <2>1
<1>4. x \div Bps \in Nat /\ Bps * (x \div Bps) <= x
    <2> HIDE DEF x
    <2>1. QED
        BY <1>1, <1>2, DivFloor
<1>5. x \div Bps <= amount
    <2> DEFINE p == x \div Bps
    <2>1. p \in Nat /\ Bps * p <= amount * Bps
        BY <1>1, <1>2, <1>3, <1>4
    <2> HIDE DEF p
    <2>2. ~(amount + 1 <= p)
        <3>1. amount + 1 <= p => (amount + 1) * Bps <= p * Bps
            BY <1>1, <2>1, ProductMonotone
        <3>2. QED
            BY <1>1, <2>1, <3>1
    <2>3. QED
        BY <2>1, <2>2 DEF p
<1>6. QED
    BY <1>4, <1>5 DEF Portion

LEMMA CeilDivBounds ==
    ASSUME NEW n \in Nat, NEW d \in Nat, d > 0
    PROVE  /\ CeilDiv(n, d) \in Nat
           /\ n <= CeilDiv(n, d) * d
           /\ \A m \in Nat : n <= m * d => CeilDiv(n, d) <= m
<1>1. CASE n = 0
    BY <1>1 DEF CeilDiv
<1>2. CASE n > 0
    <2> DEFINE p == (n - 1) \div d
    <2>1. p \in Nat /\ n - 1 < d * p + d
        BY <1>2, DivFloor
    <2> HIDE DEF p
    <2>2. n <= (p + 1) * d
        BY <2>1
    <2>3. QED
        BY <1>2, <2>1, <2>2 DEF CeilDiv, p
<1>3. QED
    BY <1>1, <1>2

\* A quotient of the fixed-point division is in the range of Exp's arguments,
\* and the quantity it stands for is less than one above it.
LEMMA ArgumentBounds ==
    ASSUME NEW liquidity \in Nat, liquidity > 0, NEW q \in Supplies, NEW r \in Ranges
    PROVE  /\ Argument(liquidity, q, r) \in 0..MaxArgument
           /\ q[r] * Precision < liquidity * Argument(liquidity, q, r) + liquidity
<1> DEFINE x == q[r] * Precision
           a == x \div liquidity
<1>1. /\ q[r] \in Nat /\ q[r] <= MaxSupply
      /\ Precision \in Nat /\ MaxSupply \in Nat
    BY UnitsAssumption DEF Supplies
<1>2. x \in Nat /\ x <= MaxArgument /\ MaxArgument \in Nat
    BY <1>1, ProductNat, ProductMonotone DEF MaxArgument
<1>3. a \in Nat /\ liquidity * a <= x /\ x < liquidity * a + liquidity
    <2> HIDE DEF x
    <2>1. QED
        BY <1>2, DivFloor
<1>4. a <= liquidity * a
    <2> HIDE DEF a
    <2>1. 1 * a <= liquidity * a
        BY <1>3, ProductMonotone
    <2>2. QED
        BY <1>3, <2>1
<1>5. a <= MaxArgument
    <2> HIDE DEF a, x
    <2>1. liquidity * a \in Nat
        BY <1>3, ProductNat
    <2>2. QED
        BY <1>2, <1>3, <1>4, <2>1
<1>6. QED
    BY <1>2, <1>3, <1>5 DEF Argument

LEMMA MaxArgIsLargest ==
    ASSUME NEW liquidity \in Nat, liquidity > 0, NEW q \in Supplies
    PROVE  /\ \E r \in Ranges : MaxArg(liquidity, q) = Argument(liquidity, q, r)
           /\ \A r \in Ranges : Argument(liquidity, q, r) <= MaxArg(liquidity, q)
           /\ MaxArg(liquidity, q) \in 0..MaxArgument
<1> DEFINE args == Arguments(liquidity, q)
<1>1. MaxArgument \in Nat
    BY UnitsAssumption, ProductNat DEF MaxArgument
<1>2. args \in SUBSET (0..MaxArgument)
    BY ArgumentBounds DEF Arguments
<1>3. args # {}
    <2>1. Ranges # {}
        BY RangesAssumption, FS_EmptySet
    <2>2. QED
        BY <2>1 DEF Arguments
<1>4. \E max \in args : \A x \in args : x <= max
    <2> HIDE DEF args
    <2>1. QED
        BY <1>1, <1>2, <1>3, LargestNumber
<1>5. MaxArg(liquidity, q) \in args /\ \A x \in args : x <= MaxArg(liquidity, q)
    BY <1>4 DEF MaxArg
<1>6. QED
    BY <1>2, <1>5 DEF Arguments

\* The terms of the sum are at most one, and one of them is one: the logarithm
\* is taken of a number between one and the number of ranges.
LEMMA LogarithmType ==
    ASSUME NEW liquidity \in Nat, liquidity > 0, NEW q \in Supplies
    PROVE  /\ SumExp(liquidity, q, MaxArg(liquidity, q)) \in LogArguments
           /\ LogSumExp(liquidity, q, MaxArg(liquidity, q)) \in Nat
           /\ MaxArg(liquidity, q) <= LogSumExp(liquidity, q, MaxArg(liquidity, q))
<1> DEFINE max == MaxArg(liquidity, q)
           term == [r \in Ranges |-> Exp[max - Argument(liquidity, q, r)]]
<1>1. PICK top \in Ranges : max = Argument(liquidity, q, top)
    BY MaxArgIsLargest
<1>2. max \in 0..MaxArgument
    BY MaxArgIsLargest
<1>3. MaxArgument \in Nat /\ Precision \in Nat
    BY UnitsAssumption, ProductNat DEF MaxArgument
<1>4. \A r \in Ranges : max - Argument(liquidity, q, r) \in 0..MaxArgument
    <2> SUFFICES ASSUME NEW r \in Ranges
                 PROVE  max - Argument(liquidity, q, r) \in 0..MaxArgument
        OBVIOUS
    <2>1. Argument(liquidity, q, r) \in 0..MaxArgument
        BY ArgumentBounds
    <2>2. Argument(liquidity, q, r) <= max
        BY MaxArgIsLargest
    <2> HIDE DEF max
    <2>3. QED
        BY <1>2, <1>3, <2>1, <2>2
<1>5. term \in [Ranges -> 0..Precision]
    <2> HIDE DEF max
    <2>1. QED
        BY <1>4, ExpAssumption
<1>6. term[top] = Precision
    <2>1. term[top] = Exp[max - Argument(liquidity, q, top)]
        OBVIOUS
    <2> HIDE DEF term
    <2>2. max - Argument(liquidity, q, top) = 0
        <3> HIDE DEF max
        <3>1. QED
            BY <1>1, <1>2
    <2>3. QED
        BY <2>1, <2>2, ExpAssumption
<1>7. SumOver(term) \in Precision..(Cardinality(Ranges) * Precision)
    <2> HIDE DEF term, max
    <2>1. IsFiniteSet(Ranges) /\ Cardinality(Ranges) \in Nat
        BY RangesAssumption, FS_CardinalityType
    <2>2. term \in [Ranges -> Nat]
        BY <1>3, <1>5
    <2>3. IsFiniteSet(UnitsOf(term)) /\ SumOver(term) \in Nat
        BY <2>1, <2>2, LedgerFinite
    <2>4. Precision <= SumOver(term)
        BY <1>6, <2>2, <2>3, SumBound
    <2>5. SumOver(term) <= Cardinality(Ranges) * Precision
        BY <1>3, <1>5, <2>1, SumAtMost
    <2>6. QED
        BY <1>3, <2>1, <2>3, <2>4, <2>5, ProductNat
<1>8. SumExp(liquidity, q, max) \in LogArguments
    <2>1. SumExp(liquidity, q, max) = SumOver(term)
        BY DEF SumExp
    <2>2. Cardinality(Ranges) * Precision = Precision * Cardinality(Ranges)
        BY <1>3, RangesAssumption, FS_CardinalityType
    <2> HIDE DEF term, max
    <2>3. QED
        BY <1>7, <2>1, <2>2 DEF LogArguments
<1>9. Ln[SumExp(liquidity, q, max)] \in Nat
    <2> HIDE DEF max
    <2>1. QED
        BY <1>8, LnAssumption
<1>10. QED
    <2>1. /\ LogSumExp(liquidity, q, max) \in Nat
          /\ max <= LogSumExp(liquidity, q, max)
        <3> HIDE DEF max
        <3>1. QED
            BY <1>2, <1>9 DEF LogSumExp
    <2>2. QED
        BY <1>8, <2>1

\* C(q) is a natural number, and what rounding takes off the largest quantity
\* is less than 1 + liquidity / Precision token units.
LEMMA CostBounds ==
    ASSUME NEW liquidity \in Nat, liquidity > 0, NEW q \in Supplies
    PROVE  /\ CostOf(liquidity, q) \in Nat
           /\ \A r \in Ranges : q[r] * Precision <
                  Precision * CostOf(liquidity, q) + Precision + liquidity
<1> DEFINE log == LogSumExp(liquidity, q, MaxArg(liquidity, q))
           x == liquidity * log
<1>1. log \in Nat /\ MaxArg(liquidity, q) <= log
    BY LogarithmType
<1>2. x \in Nat
    <2> HIDE DEF log
    <2>1. QED
        BY <1>1, ProductNat
<1>3. Precision \in Nat /\ Precision > 0
    BY UnitsAssumption
<1>4. x \div Precision \in Nat /\ x < Precision * (x \div Precision) + Precision
    <2> HIDE DEF x
    <2>1. QED
        BY <1>2, <1>3, DivFloor
<1>5. CostOf(liquidity, q) = x \div Precision
    BY DEF CostOf
<1>6. ASSUME NEW r \in Ranges
      PROVE  q[r] * Precision < x + liquidity
    <2> DEFINE a == Argument(liquidity, q, r)
    <2>1. a \in Nat /\ q[r] * Precision < liquidity * a + liquidity
        BY ArgumentBounds
    <2>2. a <= MaxArg(liquidity, q) /\ MaxArg(liquidity, q) \in Nat
        BY MaxArgIsLargest
    <2>3. q[r] * Precision \in Nat
        BY <1>3, UnitsAssumption, ProductNat DEF Supplies
    <2>4. a <= log
        <3> HIDE DEF a, log
        <3>1. QED
            BY <1>1, <2>1, <2>2
    <2>5. a * liquidity <= log * liquidity
        <3> HIDE DEF a, log
        <3>1. QED
            BY <1>1, <2>1, <2>4, ProductMonotone
    <2>6. liquidity * a <= x
        <3> HIDE DEF a, log
        <3>1. QED
            BY <1>1, <2>1, <2>5
    <2> HIDE DEF a, x
    <2>7. liquidity * a \in Nat
        BY <2>1, ProductNat
    <2>8. QED
        BY <1>2, <2>1, <2>3, <2>6, <2>7
<1>7. ASSUME NEW r \in Ranges
      PROVE  q[r] * Precision < Precision * CostOf(liquidity, q) + Precision + liquidity
    <2>1. q[r] * Precision \in Nat
        BY <1>3, UnitsAssumption, ProductNat DEF Supplies
    <2> DEFINE p == Precision * (x \div Precision)
    <2>2. p \in Nat
        <3> HIDE DEF x
        <3>1. QED
            BY <1>3, <1>4, ProductNat
    <2>3. x < p + Precision
        BY <1>4
    <2> HIDE DEF p, x
    <2>4. q[r] * Precision < p + Precision + liquidity
        BY <1>2, <1>3, <1>6, <2>1, <2>2, <2>3
    <2>5. QED
        BY <1>5, <2>4 DEF p
<1>8. QED
    BY <1>4, <1>5, <1>7

\* What no shares cost is at most the seed the parameter was computed from.
LEMMA EmptyCost ==
    ASSUME NEW seed \in Seeds, LiquidityParameter(seed) > 0
    PROVE  /\ LiquidityParameter(seed) \in Nat
           /\ CostOf(LiquidityParameter(seed), [r \in Ranges |-> 0]) <= seed * Scale
<1> DEFINE top == Ln[Precision * Cardinality(Ranges)]
           value == seed * Scale
           worth == value * Precision
           liquidity == worth \div top
           zero == [r \in Ranges |-> 0]
<1>1. /\ Precision \in Nat /\ Precision > 0
      /\ MaxSupply \in Nat
      /\ seed \in Nat /\ Scale \in Nat
    BY UnitsAssumption, CapsAssumption
<1>2. Cardinality(Ranges) \in Nat /\ Cardinality(Ranges) >= 2 /\ IsFiniteSet(Ranges)
    BY RangesAssumption, FS_CardinalityType
<1>3. top \in Nat /\ top > 0
    <2>1. Precision * Cardinality(Ranges) \in LogArguments
        <3>1. 1 * Precision <= Cardinality(Ranges) * Precision
            BY <1>1, <1>2, ProductMonotone
        <3>2. Precision * Cardinality(Ranges) \in Nat
            BY <1>1, <1>2, ProductNat
        <3>3. QED
            BY <1>1, <1>2, <3>1, <3>2 DEF LogArguments
    <2>2. QED
        BY <2>1, LnAssumption
<1>4. value \in Nat /\ worth \in Nat
    BY <1>1, ProductNat
<1>5. liquidity \in Nat /\ top * liquidity <= worth
    <2> HIDE DEF top, worth
    <2>1. QED
        BY <1>3, <1>4, DivFloor
<1>6. LiquidityParameter(seed) = liquidity
    BY DEF LiquidityParameter
<1> HIDE DEF top, liquidity, value
<1>7. zero \in Supplies
    BY <1>1 DEF Supplies
<1>8. \A r \in Ranges : Argument(liquidity, zero, r) = 0
    <2>1. 0 \div liquidity = 0
        BY <1>5, <1>6, DivFloor
    <2>2. QED
        BY <1>1, <2>1 DEF Argument
<1>9. MaxArg(liquidity, zero) = 0
    <2> HIDE DEF zero
    <2>1. QED
        BY <1>5, <1>6, <1>7, <1>8, MaxArgIsLargest
<1>10. SumExp(liquidity, zero, 0) = Precision * Cardinality(Ranges)
    <2>1. \A r \in Ranges : Exp[0 - Argument(liquidity, zero, r)] = Precision
        <3> HIDE DEF zero
        <3>1. QED
            BY <1>8, ExpAssumption
    <2>2. SumExp(liquidity, zero, 0) = SumOver([r \in Ranges |-> Precision])
        <3> HIDE DEF zero
        <3>1. QED
            BY <2>1 DEF SumExp
    <2>3. SumOver([r \in Ranges |-> Precision]) = Cardinality(Ranges) * Precision
        BY <1>1, <1>2, SumConstant
    <2> HIDE DEF zero
    <2>4. QED
        BY <1>1, <1>2, <2>2, <2>3
<1>11. CostOf(liquidity, zero) = (liquidity * top) \div Precision
    <2> HIDE DEF zero
    <2>1. LogSumExp(liquidity, zero, 0) = top
        BY <1>3, <1>10 DEF LogSumExp, top
    <2>2. QED
        BY <1>9, <2>1 DEF CostOf
<1>12. CostOf(liquidity, zero) <= value
    <2> DEFINE x == liquidity * top
               cost == x \div Precision
    <2>1. x \in Nat /\ x <= worth
        BY <1>3, <1>5, ProductNat
    <2> HIDE DEF x, worth
    <2>2. cost \in Nat /\ Precision * cost <= x
        BY <1>1, <2>1, DivFloor
    <2> HIDE DEF cost
    <2>3. ~(value + 1 <= cost)
        <3> SUFFICES ASSUME value + 1 <= cost PROVE FALSE
            OBVIOUS
        <3>1. (value + 1) * Precision <= cost * Precision
            BY <1>1, <1>4, <2>2, ProductMonotone
        <3>2. (value + 1) * Precision = worth + Precision
            BY <1>1, <1>4 DEF worth
        <3>3. cost * Precision = Precision * cost
            BY <1>1, <2>2
        <3>4. Precision * cost \in Nat
            BY <1>1, <2>2, ProductNat
        <3>5. QED
            BY <1>1, <1>4, <2>1, <2>2, <3>1, <3>2, <3>3, <3>4
    <2>4. QED
        BY <1>4, <1>11, <2>2, <2>3 DEF cost, x
<1>13. QED
    BY <1>5, <1>6, <1>12 DEF value

---------------------------------------------------------------------------
(* The range pool: what each call leaves true *)

\* A quotient q / b loses less than one USDC unit: without it the winners'
\* claims could exceed by rounding what the cost function has charged.
QuotientsFine == b <= (Scale - 1) * Precision

PoolInv ==
    /\ PoolTypeOK
    /\ LedgersAddUp
    /\ RecordsAgree
    /\ CostHeld
    /\ ClaimsHeld
    /\ QuotientsFine

\* A mint or a burn of one user's tokens keeps the ledger in step.
LEMMA TokenUpdate ==
    ASSUME PoolTypeOK, LedgersAddUp,
           NEW r \in Ranges, NEW u \in Users, NEW n \in Nat,
           balanceOf' = [balanceOf EXCEPT ![r][u] = n],
           totalSupply' = [totalSupply EXCEPT ![r] = @ - balanceOf[r][u] + n],
           totalSupply[r] - balanceOf[r][u] + n <= MaxSupply
    PROVE  /\ balanceOf' \in [Ranges -> [Users -> Nat]]
           /\ totalSupply' \in Supplies
           /\ balanceOf[r][u] <= totalSupply[r]
           /\ LedgersAddUp'
<1> DEFINE f == balanceOf[r]
           g == [f EXCEPT ![u] = n]
<1>1. f \in [Users -> Nat] /\ IsFiniteSet(UnitsOf(f))
    BY DEF PoolTypeOK, LedgersAddUp
<1>2. /\ IsFiniteSet(UnitsOf(g))
      /\ SumOver(g) = SumOver(f) - f[u] + n
      /\ SumOver(f) \in Nat
      /\ f[u] <= SumOver(f)
    <2> HIDE DEF f
    <2>1. QED
        BY <1>1, SumUpdate
<1>3. balanceOf' = [balanceOf EXCEPT ![r] = g]
    BY DEF PoolTypeOK
<1>4. balanceOf'[r] = g /\ \A s \in Ranges \ {r} : balanceOf'[s] = balanceOf[s]
    BY <1>3 DEF PoolTypeOK
<1>5. /\ totalSupply'[r] = totalSupply[r] - f[u] + n
      /\ \A s \in Ranges \ {r} : totalSupply'[s] = totalSupply[s]
    BY DEF PoolTypeOK
<1>6. totalSupply[r] = SumOver(f)
    BY DEF LedgersAddUp
<1>7. balanceOf' \in [Ranges -> [Users -> Nat]]
    BY <1>1, <1>3 DEF PoolTypeOK
<1>8. totalSupply' \in Supplies
    <2>1. totalSupply[r] - f[u] + n \in 0..MaxSupply
        BY <1>1, <1>2, <1>6, UnitsAssumption
    <2>2. QED
        BY <2>1 DEF PoolTypeOK, Supplies
<1>9. \A s \in Ranges : /\ IsFiniteSet(UnitsOf(balanceOf'[s]))
                         /\ totalSupply'[s] = SumOver(balanceOf'[s])
    <2> SUFFICES ASSUME NEW s \in Ranges
                 PROVE  /\ IsFiniteSet(UnitsOf(balanceOf'[s]))
                        /\ totalSupply'[s] = SumOver(balanceOf'[s])
        OBVIOUS
    <2>1. CASE s = r
        BY <2>1, <1>2, <1>4, <1>5, <1>6
    <2>2. CASE s # r
        BY <2>2, <1>4, <1>5 DEF LedgersAddUp
    <2>3. QED
        BY <2>1, <2>2
<1>10. QED
    BY <1>2, <1>6, <1>7, <1>8, <1>9 DEF LedgersAddUp

LEMMA ClaimsNat ==
    ASSUME PoolTypeOK
    PROVE  /\ Claims \in Nat
           /\ Reserved \in Nat
           /\ Claims <= Reserved
<1>1. Claims \in Nat
    <2>1. totalSupply[winningRange] \in Nat
        BY DEF PoolTypeOK
    <2>2. totalSupply[winningRange] \div Scale \in Nat
        BY <2>1, DivFloor, UnitsAssumption
    <2>3. QED
        BY <2>2 DEF Claims
<1>2. claimsBufferBps \in Nat /\ claimsBufferBps <= Bps
    BY CapsAssumption, UnitsAssumption DEF PoolTypeOK
<1> HIDE DEF Claims
<1>3. QED
    BY <1>1, <1>2, PortionBounds DEF Reserved

LEMMA CreateKeepsPoolInv ==
    ASSUME PoolInv, NEW seed \in Seeds, NEW fee \in Nat, NEW buffer \in Nat,
           CreateRangeMarket(seed, fee, buffer)
    PROVE  PoolInv'
<1> USE DEF PoolInv
<1>1. /\ LiquidityParameter(seed) \in Nat
      /\ CostOf(LiquidityParameter(seed), [r \in Ranges |-> 0]) <= seed * Scale
    BY EmptyCost DEF CreateRangeMarket
<1>2. totalSupply = [r \in Ranges |-> 0] /\ ~resolved
    BY DEF CreateRangeMarket, RecordsAgree
<1>3. record' \in RangeMarket
    BY DEF CreateRangeMarket, PoolTypeOK, RangeMarket
<1>4. /\ seed \in Nat /\ Scale \in Nat /\ balance \in Nat
      /\ fee \in 0..MaxProtocolFee /\ buffer \in 0..MaxClaimsBuffer
    BY CapsAssumption, UnitsAssumption DEF CreateRangeMarket, PoolTypeOK
<1>5. PoolTypeOK'
    BY <1>1, <1>3, <1>4 DEF CreateRangeMarket, PoolTypeOK, tokens
<1>6. LedgersAddUp'
    BY DEF CreateRangeMarket, LedgersAddUp, tokens
<1>7. RecordsAgree'
    BY <1>1, <1>2 DEF CreateRangeMarket, RecordsAgree, PoolTypeOK, RangeMarket, tokens
<1>8. CostHeld'
    <2>1. /\ totalSupply' = [r \in Ranges |-> 0]
          /\ b' = LiquidityParameter(seed)
          /\ balance' = balance + seed
        BY <1>2 DEF CreateRangeMarket, tokens
    <2>2. Cost(totalSupply)' <= seed * Scale
        BY <1>1, <2>1 DEF Cost
    <2>3. seed * Scale <= balance' * Scale
        BY <1>4, <2>1, ProductMonotone
    <2>4. Cost(totalSupply)' \in Nat
        <3>1. [r \in Ranges |-> 0] \in Supplies
            BY UnitsAssumption DEF Supplies
        <3>2. LiquidityParameter(seed) > 0
            BY DEF CreateRangeMarket
        <3>3. CostOf(LiquidityParameter(seed), [r \in Ranges |-> 0]) \in Nat
            BY <1>1, <3>1, <3>2, CostBounds
        <3>4. QED
            BY <2>1, <3>3 DEF Cost
    <2>5. balance' * Scale \in Nat /\ seed * Scale \in Nat
        BY <1>4, <2>1, ProductNat
    <2>6. Cost(totalSupply)' <= balance' * Scale
        BY <2>2, <2>3, <2>4, <2>5
    <2>7. QED
        BY <2>6 DEF CostHeld
<1>9. ClaimsHeld'
    BY <1>2, <1>5 DEF ClaimsHeld, Claims, CreateRangeMarket, PoolTypeOK
<1>10. QuotientsFine'
    BY SeedsAssumption DEF QuotientsFine, CreateRangeMarket
<1>11. QED
    BY <1>5, <1>6, <1>7, <1>8, <1>9, <1>10

\* The amounts of a purchase: what is charged is at most what was brought and
\* at least what the cost function says.
LEMMA PurchaseBounds ==
    ASSUME PoolTypeOK, b > 0, NEW r \in Ranges, NEW usdcIn \in Nat, NEW shares \in Nat,
           IsQuoted(r, shares, Budget(usdcIn))
    PROVE  /\ NetIn(usdcIn) \in Nat /\ NetIn(usdcIn) <= usdcIn
           /\ Refund(r, usdcIn, shares) \in Nat
           /\ Refund(r, usdcIn, shares) <= NetIn(usdcIn)
           /\ Spent(r, usdcIn, shares) \in Nat /\ Spent(r, usdcIn, shares) <= usdcIn
           /\ With(r, shares) \in Supplies
           /\ Cost(With(r, shares)) \in Nat
           /\ Cost(With(r, shares)) <= Cost(totalSupply) +
                  (NetIn(usdcIn) - Refund(r, usdcIn, shares)) * Scale
<1> DEFINE before == Cost(totalSupply)
           after == Cost(With(r, shares))
           net == NetIn(usdcIn)
           budget == Budget(usdcIn)
           price == UsdcCost(r, shares)
<1>1. /\ Scale \in Nat /\ Scale > 0 /\ MaxSupply \in Nat
      /\ protocolFeeBps \in Nat /\ protocolFeeBps <= Bps
      /\ FeeBps \in Nat /\ FeeBps <= Bps
    BY UnitsAssumption, CapsAssumption DEF PoolTypeOK
<1>2. net \in Nat /\ net <= usdcIn
    BY <1>1, PortionBounds DEF NetIn
<1>3. budget \in Nat /\ budget <= net
    <2> HIDE DEF net
    <2>1. Portion(net, FeeBps) \in Nat /\ Portion(net, FeeBps) <= net
        BY <1>1, <1>2, PortionBounds
    <2>2. budget = net - Portion(net, FeeBps)
        BY DEF Budget, net
    <2>3. QED
        BY <1>2, <2>1, <2>2
<1>4. With(r, shares) \in Supplies
    <2>1. totalSupply[r] + shares \in 0..MaxSupply
        BY <1>1 DEF IsQuoted, PoolTypeOK
    <2>2. QED
        BY <2>1 DEF With, PoolTypeOK, Supplies
<1>5. before \in Nat /\ after \in Nat
    <2>1. totalSupply \in Supplies /\ b \in Nat
        BY DEF PoolTypeOK, Supplies
    <2>2. QED
        BY <1>4, <2>1, CostBounds DEF Cost
<1>6. after \in before..(before + budget * Scale)
    BY DEF IsQuoted
<1> HIDE DEF before, after, net, budget
<1>7. budget * Scale \in Nat
    BY <1>1, <1>3, ProductNat
<1>8. after - before \in Nat /\ after - before <= budget * Scale
    BY <1>5, <1>6, <1>7
<1>9. /\ price \in Nat /\ price <= budget
      /\ after - before <= price * Scale
    <2>1. price = CeilDiv(after - before, Scale)
        BY DEF UsdcCost, before, after
    <2>2. QED
        BY <1>1, <1>3, <1>8, <2>1, CeilDivBounds
<1>10. Refund(r, usdcIn, shares) = budget - price
    BY DEF Refund, budget
<1> HIDE DEF price
<1>11. price * Scale <= (net - Refund(r, usdcIn, shares)) * Scale
    <2>1. price <= net - (budget - price) /\ net - (budget - price) \in Nat
        BY <1>2, <1>3, <1>9
    <2>2. QED
        BY <1>1, <1>9, <1>10, <2>1, ProductMonotone
<1>12. after <= before + (net - Refund(r, usdcIn, shares)) * Scale
    <2>1. price * Scale \in Nat
        BY <1>1, <1>9, ProductNat
    <2>2. net - (budget - price) \in Nat
        BY <1>2, <1>3, <1>9
    <2>3. (net - Refund(r, usdcIn, shares)) * Scale \in Nat
        BY <1>1, <1>10, <2>2, ProductNat
    <2>4. QED
        BY <1>5, <1>9, <1>11, <2>1, <2>3
<1>13. QED
    BY <1>2, <1>3, <1>4, <1>5, <1>9, <1>10, <1>12 DEF Spent, net, before, after

LEMMA BuyKeepsPoolInv ==
    ASSUME PoolInv, NEW u \in Users, NEW r \in Ranges,
           NEW usdcIn \in Nat, NEW shares \in Nat, PoolBuy(u, r, usdcIn, shares)
    PROVE  PoolInv'
<1> DEFINE paid == NetIn(usdcIn) - Refund(r, usdcIn, shares)
<1> USE DEF PoolInv
<1>1. b > 0 /\ ~resolved /\ IsQuoted(r, shares, Budget(usdcIn))
    BY DEF PoolBuy
<1>2. /\ paid \in Nat
      /\ With(r, shares) \in Supplies
      /\ Cost(With(r, shares)) \in Nat
      /\ Cost(With(r, shares)) <= Cost(totalSupply) + paid * Scale
    BY <1>1, PurchaseBounds DEF PoolTypeOK
<1>3. /\ balance' = balance + paid
      /\ totalSupply' = With(r, shares)
      /\ UNCHANGED <<config, flags>>
    BY <1>2, PurchaseBounds DEF PoolBuy, PoolTypeOK
<1>4. totalSupply[r] \in Nat /\ balanceOf[r][u] \in Nat /\ Scale \in Nat /\ balance \in Nat
    BY UnitsAssumption DEF PoolTypeOK
<1>5. /\ balanceOf' \in [Ranges -> [Users -> Nat]]
      /\ totalSupply' \in Supplies
      /\ LedgersAddUp'
    <2> DEFINE n == balanceOf[r][u] + shares
    <2>1. n \in Nat /\ totalSupply[r] - balanceOf[r][u] + n = totalSupply[r] + shares
        BY <1>4
    <2>2. balanceOf' = [balanceOf EXCEPT ![r][u] = n]
        BY DEF PoolBuy, PoolTypeOK
    <2>3. totalSupply' = [totalSupply EXCEPT ![r] = totalSupply[r] + shares]
        BY <1>3 DEF With
    <2>4. totalSupply' = [totalSupply EXCEPT ![r] = @ - balanceOf[r][u] + n]
        BY <2>1, <2>3
    <2>5. totalSupply[r] - balanceOf[r][u] + n <= MaxSupply
        BY <1>1, <1>4, <2>1, UnitsAssumption DEF IsQuoted
    <2> HIDE DEF n
    <2>6. QED
        BY <2>1, <2>2, <2>4, <2>5, TokenUpdate
<1> HIDE DEF paid
<1>6. PoolTypeOK'
    BY <1>2, <1>3, <1>4, <1>5 DEF PoolTypeOK, Supplies, config, flags
<1>7. RecordsAgree'
    BY <1>1, <1>3 DEF RecordsAgree, config, flags
<1>8. CostHeld'
    <2>1. Cost(totalSupply)' = Cost(With(r, shares))
        BY <1>3 DEF Cost, config
    <2>2. Cost(totalSupply) <= balance * Scale
        BY <1>1 DEF CostHeld, RecordsAgree
    <2>3. (balance + paid) * Scale = balance * Scale + paid * Scale
        BY <1>2, <1>4
    <2>4. balance * Scale \in Nat /\ paid * Scale \in Nat
        BY <1>2, <1>4, ProductNat
    <2>5. Cost(totalSupply) \in Nat
        <3>1. totalSupply \in Supplies /\ b \in Nat
            BY DEF PoolTypeOK, Supplies
        <3>2. QED
            BY <1>1, <3>1, CostBounds DEF Cost
    <2>6. Cost(totalSupply)' <= balance' * Scale
        BY <1>2, <1>3, <2>1, <2>2, <2>3, <2>4, <2>5
    <2>7. QED
        BY <2>6 DEF CostHeld
<1>9. ClaimsHeld' /\ QuotientsFine'
    BY <1>1, <1>2, <1>3, <1>4 DEF ClaimsHeld, Claims, QuotientsFine, config, flags
<1>10. QED
    BY <1>5, <1>6, <1>7, <1>8, <1>9

\* The amounts of a sale: what the pool pays, fee included, is at most what
\* the cost function gives back.
LEMMA SaleBounds ==
    ASSUME PoolInv, NEW u \in Users, NEW r \in Ranges, NEW shares \in Nat,
           PoolSell(u, r, shares)
    PROVE  /\ b > 0
           /\ AfterLpFee(r, shares) \in Nat
           /\ AfterLpFee(r, shares) <= balance
           /\ Proceeds(r, shares) \in Nat
           /\ Proceeds(r, shares) <= AfterLpFee(r, shares)
           /\ shares <= totalSupply[r]
           /\ Without(r, shares) \in Supplies
           /\ Cost(totalSupply) \in Nat
           /\ Cost(Without(r, shares)) \in Nat
           /\ Cost(Without(r, shares)) + AfterLpFee(r, shares) * Scale <= Cost(totalSupply)
<1> DEFINE before == Cost(totalSupply)
           after == Cost(Without(r, shares))
           gross == GrossOut(r, shares)
           net == AfterLpFee(r, shares)
<1> USE DEF PoolInv
<1>1. /\ Scale \in Nat /\ Scale > 0
      /\ protocolFeeBps \in Nat /\ protocolFeeBps <= Bps
      /\ FeeBps \in Nat /\ FeeBps <= Bps
      /\ totalSupply[r] \in 0..MaxSupply
      /\ MaxSupply \in Nat /\ balance \in Nat
    BY UnitsAssumption, CapsAssumption DEF PoolTypeOK
<1>2. b > 0 /\ before >= after /\ net <= balance /\ shares <= balanceOf[r][u]
    BY DEF PoolSell
<1>3. balanceOf[r][u] \in Nat /\ balanceOf[r][u] <= totalSupply[r]
    <2>1. balanceOf[r] \in [Users -> Nat] /\ IsFiniteSet(UnitsOf(balanceOf[r]))
        BY DEF PoolTypeOK, LedgersAddUp
    <2>2. balanceOf[r][u] <= SumOver(balanceOf[r])
        BY <2>1, SumBound
    <2>3. QED
        BY <2>1, <2>2 DEF LedgersAddUp
<1>4. shares <= totalSupply[r]
    BY <1>1, <1>2, <1>3
<1>5. Without(r, shares) \in Supplies
    <2>1. totalSupply[r] - shares \in 0..MaxSupply
        BY <1>1, <1>4
    <2>2. QED
        BY <2>1 DEF Without, PoolTypeOK, Supplies
<1>6. before \in Nat /\ after \in Nat
    <2>1. totalSupply \in Supplies /\ b \in Nat
        BY DEF PoolTypeOK, Supplies
    <2>2. QED
        BY <1>2, <1>5, <2>1, CostBounds DEF Cost
<1>7. gross \in Nat /\ Scale * gross <= before - after
    <2>1. gross = (before - after) \div Scale
        BY DEF GrossOut
    <2> HIDE DEF before, after, gross
    <2>2. before - after \in Nat
        BY <1>2, <1>6
    <2>3. QED
        BY <1>1, <2>1, <2>2, DivFloor
<1>8. net \in Nat /\ net <= gross
    <2>1. net = gross - Portion(gross, FeeBps)
        BY DEF AfterLpFee
    <2> HIDE DEF gross, net
    <2>2. QED
        BY <1>1, <1>7, <2>1, PortionBounds
<1>9. Proceeds(r, shares) \in Nat /\ Proceeds(r, shares) <= net
    <2>1. Proceeds(r, shares) = net - Portion(net, protocolFeeBps)
        BY DEF Proceeds, SellFee
    <2> HIDE DEF net
    <2>2. QED
        BY <1>1, <1>8, <2>1, PortionBounds
<1>10. after + net * Scale <= before
    <2> HIDE DEF gross, net, before, after
    <2>1. net * Scale <= gross * Scale
        BY <1>1, <1>7, <1>8, ProductMonotone
    <2>2. net * Scale \in Nat /\ gross * Scale \in Nat /\ gross * Scale = Scale * gross
        BY <1>1, <1>7, <1>8, ProductNat
    <2>3. QED
        BY <1>6, <1>7, <2>1, <2>2
<1>11. QED
    BY <1>2, <1>4, <1>5, <1>6, <1>8, <1>9, <1>10

LEMMA SellKeepsPoolInv ==
    ASSUME PoolInv, NEW u \in Users, NEW r \in Ranges, NEW shares \in Nat,
           PoolSell(u, r, shares)
    PROVE  PoolInv'
<1> DEFINE net == AfterLpFee(r, shares)
<1> USE DEF PoolInv
<1>1. /\ b > 0 /\ net \in Nat /\ net <= balance
      /\ Without(r, shares) \in Supplies
      /\ Cost(totalSupply) \in Nat
      /\ Cost(Without(r, shares)) \in Nat
      /\ Cost(Without(r, shares)) + net * Scale <= Cost(totalSupply)
    BY SaleBounds
<1>2. /\ ~resolved
      /\ balance' = balance - net
      /\ totalSupply' = Without(r, shares)
      /\ UNCHANGED <<config, flags>>
    BY DEF PoolSell
<1>3. /\ totalSupply[r] \in Nat /\ totalSupply[r] <= MaxSupply /\ MaxSupply \in Nat
      /\ balanceOf[r][u] \in Nat /\ shares <= balanceOf[r][u]
      /\ Scale \in Nat /\ balance \in Nat
    BY UnitsAssumption DEF PoolTypeOK, PoolSell
<1>4. /\ balanceOf' \in [Ranges -> [Users -> Nat]]
      /\ totalSupply' \in Supplies
      /\ LedgersAddUp'
    <2> DEFINE n == balanceOf[r][u] - shares
    <2>1. n \in Nat /\ totalSupply[r] - balanceOf[r][u] + n = totalSupply[r] - shares
        BY <1>3
    <2>2. balanceOf' = [balanceOf EXCEPT ![r][u] = n]
        BY DEF PoolSell, PoolTypeOK
    <2>3. totalSupply' = [totalSupply EXCEPT ![r] = totalSupply[r] - shares]
        BY <1>2 DEF Without
    <2>4. totalSupply' = [totalSupply EXCEPT ![r] = @ - balanceOf[r][u] + n]
        BY <2>1, <2>3
    <2>5. totalSupply[r] - balanceOf[r][u] + n <= MaxSupply
        BY <1>3, <2>1
    <2> HIDE DEF n
    <2>6. QED
        BY <2>1, <2>2, <2>4, <2>5, TokenUpdate
<1> HIDE DEF net
<1>5. PoolTypeOK'
    BY <1>1, <1>2, <1>3, <1>4 DEF PoolTypeOK, Supplies, config, flags
<1>6. RecordsAgree'
    BY <1>1, <1>2 DEF RecordsAgree, config, flags
<1>7. CostHeld'
    <2>1. Cost(totalSupply)' = Cost(Without(r, shares))
        BY <1>2 DEF Cost, config
    <2>2. Cost(totalSupply) <= balance * Scale
        BY <1>1, <1>2 DEF CostHeld, RecordsAgree
    <2>3. (balance - net) * Scale = balance * Scale - net * Scale
        BY <1>1, <1>3
    <2>4. balance * Scale \in Nat /\ net * Scale \in Nat
        BY <1>1, <1>3, ProductNat
    <2>5. Cost(totalSupply)' <= balance' * Scale
        BY <1>1, <1>2, <2>1, <2>2, <2>3, <2>4
    <2>6. QED
        BY <2>5 DEF CostHeld
<1>8. ClaimsHeld' /\ QuotientsFine'
    BY <1>1, <1>2, <1>3 DEF ClaimsHeld, Claims, QuotientsFine, config, flags
<1>9. QED
    BY <1>4, <1>5, <1>6, <1>7, <1>8

\* Whichever range wins, its whole shares are covered: their number is less
\* than one USDC unit above what the cost function has charged.
LEMMA AnyRangePayable ==
    ASSUME PoolInv, record.created, ~resolved, NEW r \in Ranges
    PROVE  totalSupply[r] \div Scale <= balance
<1> DEFINE cost == Cost(totalSupply)
           debt == totalSupply[r]
<1> USE DEF PoolInv
<1>1. /\ b \in Nat /\ b > 0 /\ b <= (Scale - 1) * Precision
      /\ debt \in Nat /\ balance \in Nat
      /\ Scale \in Nat /\ Scale > 0
      /\ Precision \in Nat /\ Precision > 0
    BY UnitsAssumption DEF PoolTypeOK, RecordsAgree, QuotientsFine
<1>2. /\ cost \in Nat
      /\ debt * Precision < Precision * cost + Precision + b
    <2>1. totalSupply \in Supplies
        BY DEF PoolTypeOK, Supplies
    <2>2. QED
        BY <1>1, <2>1, CostBounds DEF Cost
<1>3. cost <= balance * Scale
    BY DEF CostHeld
<1> HIDE DEF cost, debt
<1>4. debt < cost + Scale
    <2> SUFFICES ASSUME cost + Scale <= debt PROVE FALSE
        BY <1>1, <1>2
    <2>1. (cost + Scale) * Precision <= debt * Precision
        BY <1>1, <1>2, ProductMonotone
    <2>2. (cost + Scale) * Precision =
              Precision * cost + Precision + (Scale - 1) * Precision
        BY <1>1, <1>2
    <2>3. /\ debt * Precision \in Nat
          /\ Precision * cost \in Nat
          /\ (Scale - 1) * Precision \in Nat
        BY <1>1, <1>2, ProductNat
    <2>4. QED
        BY <1>1, <1>2, <2>1, <2>2, <2>3
<1>5. debt < (balance + 1) * Scale
    <2>1. balance * Scale \in Nat /\ (balance + 1) * Scale = balance * Scale + Scale
        BY <1>1, ProductNat
    <2>2. QED
        BY <1>1, <1>2, <1>3, <1>4, <2>1
<1>6. QED
    <2> DEFINE whole == debt \div Scale
    <2>1. whole \in Nat /\ Scale * whole <= debt
        BY <1>1, DivFloor
    <2> HIDE DEF whole
    <2>2. balance + 1 <= whole => (balance + 1) * Scale <= whole * Scale
        BY <1>1, <2>1, ProductMonotone
    <2>3. whole * Scale = Scale * whole /\ Scale * whole \in Nat
        BY <1>1, <2>1, ProductNat
    <2>4. (balance + 1) * Scale \in Nat
        BY <1>1, ProductNat
    <2>5. whole <= balance
        BY <1>1, <1>5, <2>1, <2>2, <2>3, <2>4
    <2>6. QED
        BY <2>5 DEF whole, debt

LEMMA ResolveKeepsPoolInv ==
    ASSUME PoolInv, NEW r \in Ranges, ResolveRangeMarket(r)
    PROVE  PoolInv'
<1> USE DEF PoolInv
<1>1. /\ record.created /\ ~resolved
      /\ resolved' /\ winningRange' = r
      /\ record' = [record EXCEPT !.resolved = TRUE, !.winner = r]
      /\ UNCHANGED <<balance, tokens, config, drained>>
    BY DEF ResolveRangeMarket
<1>2. PoolTypeOK'
    BY <1>1 DEF ResolveRangeMarket, PoolTypeOK, RangeMarket, tokens, config
<1>3. LedgersAddUp' /\ QuotientsFine'
    BY <1>1 DEF LedgersAddUp, QuotientsFine, tokens, config
<1>4. RecordsAgree'
    BY <1>1 DEF RecordsAgree, PoolTypeOK, RangeMarket, tokens, config
<1>5. CostHeld'
    BY <1>1 DEF CostHeld
<1>6. ClaimsHeld'
    BY <1>1, AnyRangePayable DEF ClaimsHeld, Claims, tokens
<1>7. QED
    BY <1>2, <1>3, <1>4, <1>5, <1>6

LEMMA RedeemKeepsPoolInv ==
    ASSUME PoolInv, NEW u \in Users, PoolRedeem(u)
    PROVE  /\ PoolInv'
           /\ Payout(u) \in Nat
           /\ Payout(u) <= balance
<1> DEFINE w == winningRange
           shares == balanceOf[w][u]
<1> USE DEF PoolInv
<1>1. /\ resolved /\ w \in Ranges
      /\ shares \in Nat /\ totalSupply[w] \in 0..MaxSupply
      /\ balance \in Nat /\ MaxSupply \in Nat
      /\ Scale \in Nat /\ Scale > 0
    BY UnitsAssumption DEF PoolRedeem, PoolTypeOK, RecordsAgree
<1>2. /\ Payout(u) <= balance
      /\ balance' = balance - Payout(u)
      /\ balanceOf' = [balanceOf EXCEPT ![w][u] = 0]
      /\ totalSupply' = [totalSupply EXCEPT ![w] = @ - shares]
      /\ UNCHANGED <<config, flags>>
    BY DEF PoolRedeem, Without
<1>3. Payout(u) = shares \div Scale /\ Payout(u) \in Nat
    BY <1>1, DivFloor DEF Payout
<1>4. /\ balanceOf' \in [Ranges -> [Users -> Nat]]
      /\ totalSupply' \in Supplies
      /\ shares <= totalSupply[w]
      /\ LedgersAddUp'
    <2>1. totalSupply[w] - shares = totalSupply[w] - balanceOf[w][u] + 0
        BY <1>1
    <2>2. totalSupply' = [totalSupply EXCEPT ![w] = @ - balanceOf[w][u] + 0]
        BY <1>2, <2>1
    <2>3. totalSupply[w] - balanceOf[w][u] + 0 <= MaxSupply
        BY <1>1
    <2> HIDE DEF w
    <2>4. QED
        BY <1>1, <1>2, <2>2, <2>3, TokenUpdate
<1>5. totalSupply'[w] = totalSupply[w] - shares
    BY <1>1, <1>2 DEF PoolTypeOK
<1>6. Claims' = (totalSupply[w] - shares) \div Scale /\ Claims = totalSupply[w] \div Scale
    BY <1>1, <1>2, <1>5 DEF Claims, flags
<1>7. Claims' + Payout(u) <= Claims /\ Claims' \in Nat /\ Claims \in Nat
    <2> DEFINE rest == totalSupply[w] - shares
    <2>1. rest \in Nat /\ rest + shares = totalSupply[w]
        BY <1>1, <1>4
    <2> HIDE DEF rest, shares
    <2>2. (rest \div Scale) + (shares \div Scale) <= (rest + shares) \div Scale
        BY <1>1, <2>1, DivSuperadditive
    <2>3. rest \div Scale \in Nat /\ (rest + shares) \div Scale \in Nat
        BY <1>1, <2>1, DivFloor
    <2>4. QED
        BY <1>3, <1>6, <2>1, <2>2, <2>3 DEF rest
<1> HIDE DEF shares
<1>8. PoolTypeOK'
    BY <1>1, <1>2, <1>3, <1>4 DEF PoolTypeOK, Supplies, config, flags
<1>9. RecordsAgree'
    BY <1>1, <1>2 DEF RecordsAgree, config, flags
<1>10. CostHeld' /\ QuotientsFine'
    BY <1>1, <1>2 DEF CostHeld, QuotientsFine, config, flags
<1>11. ClaimsHeld'
    BY <1>1, <1>2, <1>3, <1>7 DEF ClaimsHeld
<1>12. QED
    BY <1>2, <1>3, <1>4, <1>8, <1>9, <1>10, <1>11

LEMMA DrainKeepsPoolInv ==
    ASSUME PoolInv, DrainLiquidity
    PROVE  /\ PoolInv'
           /\ balance' <= balance
<1> USE DEF PoolInv
<1>1. Claims \in Nat /\ Reserved \in Nat /\ Claims <= Reserved
    BY ClaimsNat
<1>2. /\ resolved /\ balance \in Nat
      /\ balance' = balance - Withdrawable
      /\ drained'
      /\ UNCHANGED <<tokens, config, resolved, winningRange, record>>
    BY DEF DrainLiquidity, PoolTypeOK
<1>3. balance' \in Nat /\ balance' <= balance /\ Claims <= balance'
    BY <1>1, <1>2 DEF Withdrawable, ClaimsHeld
<1>4. PoolTypeOK'
    BY <1>2, <1>3 DEF DrainLiquidity, PoolTypeOK, tokens, config
<1>5. LedgersAddUp' /\ RecordsAgree' /\ QuotientsFine' /\ CostHeld'
    BY <1>2 DEF LedgersAddUp, RecordsAgree, QuotientsFine, CostHeld, tokens, config
<1>6. Claims' = Claims
    BY <1>2 DEF Claims, tokens
<1>7. ClaimsHeld'
    BY <1>3, <1>6 DEF ClaimsHeld
<1>8. QED
    BY <1>3, <1>4, <1>5, <1>7

---------------------------------------------------------------------------
(* Custody *)

\* Outside the refund mode nobody counts as refunded.
RefundsForgotten == ~emergencyRefundMode => refunded = {}

Custody == EscrowsTracked /\ RefundsComplete /\ RefundsForgotten

\* The inductive invariant of Vault.tla
VaultInv == TypeOK /\ PoolInv /\ Custody

\* One escrow gets the balance n.
LEMMA EscrowUpdate ==
    ASSUME TypeOK, NEW u \in Users, NEW n \in Nat, escrow' = [escrow EXCEPT ![u] = n]
    PROVE  /\ escrow' \in [Users -> Nat]
           /\ escrow'[u] = n
           /\ \A v \in Users \ {u} : escrow'[v] = escrow[v]
           /\ SumOver(escrow) \in Nat
           /\ escrow[u] \in Nat
           /\ escrow[u] <= SumOver(escrow)
           /\ SumOver(escrow') = SumOver(escrow) - escrow[u] + n
<1>1. IsFiniteSet(UnitsOf(escrow))
    BY LedgerFinite, UnitsAssumption DEF TypeOK
<1>2. QED
    BY <1>1, SumUpdate DEF TypeOK

\* What is taken from an escrow is taken off the aggregate, as far as it goes:
\* both bounds survive, however the aggregate is clamped.
LEMMA DebitTracks ==
    ASSUME NEW total \in Nat, NEW held \in Nat, NEW strayed \in Nat, NEW amount \in Nat,
           total <= held, held <= total + strayed, amount <= held
    PROVE  /\ Debited(total, amount) \in Nat
           /\ Debited(total, amount) <= held - amount
           /\ held - amount <= Debited(total, amount) + strayed
BY DEF Debited

\* A balance that a trade changes either way is followed either way.
LEMMA SyncTracks ==
    ASSUME VaultInv, NEW u \in Users, NEW n \in Nat,
           escrow' = [escrow EXCEPT ![u] = n],
           totalVaultBalance' = Synced(escrow[u], escrow'[u]),
           donated' = donated
    PROVE  /\ totalVaultBalance' \in Nat
           /\ EscrowsTracked'
<1> DEFINE held == SumOver(escrow)
<1>1. /\ escrow'[u] = n
      /\ held \in Nat
      /\ escrow[u] \in Nat
      /\ escrow[u] <= held
      /\ SumOver(escrow') = held - escrow[u] + n
    BY EscrowUpdate DEF VaultInv
<1>2. /\ totalVaultBalance \in Nat /\ donated \in Nat
      /\ totalVaultBalance <= held /\ held <= totalVaultBalance + donated
    BY DEF VaultInv, TypeOK, Custody, EscrowsTracked
<1> HIDE DEF held
<1>3. CASE n >= escrow[u]
    <2>1. totalVaultBalance' = totalVaultBalance + (n - escrow[u])
        BY <1>1, <1>3 DEF Synced
    <2>2. QED
        BY <1>1, <1>2, <1>3, <2>1 DEF EscrowsTracked
<1>4. CASE ~(n >= escrow[u])
    <2> DEFINE amount == escrow[u] - n
    <2>1. amount \in Nat /\ amount <= held /\ SumOver(escrow') = held - amount
        BY <1>1, <1>4
    <2>2. totalVaultBalance' = Debited(totalVaultBalance, amount)
        BY <1>1, <1>4 DEF Synced
    <2> HIDE DEF amount
    <2>3. /\ Debited(totalVaultBalance, amount) \in Nat
          /\ Debited(totalVaultBalance, amount) <= held - amount
          /\ held - amount <= Debited(totalVaultBalance, amount) + donated
        BY <1>1, <1>2, <2>1, DebitTracks
    <2>4. QED
        BY <2>1, <2>2, <2>3 DEF EscrowsTracked
<1>5. QED
    BY <1>3, <1>4

LEMMA PoolUntouched ==
    ASSUME PoolInv, UNCHANGED poolVars
    PROVE  PoolInv'
BY DEF PoolInv, PoolTypeOK, LedgersAddUp, RecordsAgree, CostHeld, ClaimsHeld,
       Claims, Cost, QuotientsFine, poolVars, tokens, config, flags

LEMMA DepositKeepsInv ==
    ASSUME VaultInv, NEW u \in Users, NEW amount \in Nat, Deposit(u, amount)
    PROVE  VaultInv'
<1> USE DEF VaultInv
<1>1. wallet[u] \in Nat /\ escrow[u] \in Nat
    BY DEF TypeOK
<1>2. /\ wallet' = [wallet EXCEPT ![u] = wallet[u] - amount]
      /\ escrow' = [escrow EXCEPT ![u] = escrow[u] + amount]
      /\ wallet[u] - amount \in Nat /\ escrow[u] + amount \in Nat
    BY <1>1 DEF Deposit
<1>3. /\ escrow' \in [Users -> Nat]
      /\ SumOver(escrow) \in Nat
      /\ SumOver(escrow') = SumOver(escrow) - escrow[u] + (escrow[u] + amount)
    BY <1>2, EscrowUpdate
<1>4. wallet' \in [Users -> Nat] /\ totalVaultBalance' \in Nat
    BY <1>2 DEF TypeOK, Deposit
<1>5. /\ depositors' \in Seq(Users)
      /\ \A i, j \in DOMAIN depositors' : depositors'[i] = depositors'[j] => i = j
    <2>1. CASE HasEscrow(u)
        BY <2>1 DEF Deposit, TypeOK
    <2>2. CASE ~HasEscrow(u)
        <3>1. depositors' = Append(depositors, u) /\ depositors \in Seq(Users)
            BY <2>2 DEF Deposit, TypeOK
        <3>2. \A i \in DOMAIN depositors : depositors[i] # u
            BY <2>2 DEF HasEscrow
        <3>3. \A i, j \in DOMAIN depositors : depositors[i] = depositors[j] => i = j
            BY DEF TypeOK
        <3>4. QED
            BY <3>1, <3>2, <3>3
    <2>3. QED
        BY <2>1, <2>2
<1>6. PoolInv'
    BY PoolUntouched DEF Deposit
<1>7. TypeOK'
    BY <1>3, <1>4, <1>5, <1>6 DEF Deposit, TypeOK, PoolInv, switches, history
<1>8. EscrowsTracked'
    BY <1>1, <1>3 DEF Deposit, Custody, EscrowsTracked, TypeOK, history
<1>9. RefundsComplete' /\ RefundsForgotten'
    BY DEF Deposit, Custody, RefundsComplete, RefundsForgotten, switches, history
<1>10. QED
    BY <1>6, <1>7, <1>8, <1>9 DEF Custody

LEMMA WithdrawKeepsInv ==
    ASSUME VaultInv, NEW u \in Users, NEW amount \in Nat, Withdraw(u, amount)
    PROVE  VaultInv'
<1> USE DEF VaultInv
<1>1. wallet[u] \in Nat /\ escrow[u] \in Nat
    BY DEF TypeOK
<1>2. /\ wallet' = [wallet EXCEPT ![u] = wallet[u] + amount]
      /\ escrow' = [escrow EXCEPT ![u] = escrow[u] - amount]
      /\ wallet[u] + amount \in Nat /\ escrow[u] - amount \in Nat
      /\ amount <= escrow[u] /\ amount > 0
    BY <1>1 DEF Withdraw
<1>3. /\ escrow' \in [Users -> Nat]
      /\ \A v \in Users \ {u} : escrow'[v] = escrow[v]
      /\ SumOver(escrow) \in Nat
      /\ escrow[u] <= SumOver(escrow)
      /\ SumOver(escrow') = SumOver(escrow) - escrow[u] + (escrow[u] - amount)
    BY <1>2, EscrowUpdate
<1>4. wallet' \in [Users -> Nat]
    BY <1>2 DEF TypeOK
<1>5. totalVaultBalance' \in Nat /\ EscrowsTracked'
    <2>1. /\ totalVaultBalance \in Nat /\ donated \in Nat
          /\ totalVaultBalance <= SumOver(escrow)
          /\ SumOver(escrow) <= totalVaultBalance + donated
        BY DEF TypeOK, Custody, EscrowsTracked
    <2>2. /\ Debited(totalVaultBalance, amount) \in Nat
          /\ Debited(totalVaultBalance, amount) <= SumOver(escrow) - amount
          /\ SumOver(escrow) - amount <= Debited(totalVaultBalance, amount) + donated
        BY <1>1, <1>2, <1>3, <2>1, DebitTracks
    <2>3. QED
        BY <1>1, <1>3, <2>2 DEF Withdraw, EscrowsTracked, history
<1>6. PoolInv'
    BY PoolUntouched DEF Withdraw
<1>7. TypeOK'
    BY <1>3, <1>4, <1>5, <1>6 DEF Withdraw, TypeOK, PoolInv, switches, history
<1>8. RefundsComplete' /\ RefundsForgotten'
    BY <1>1, <1>2, <1>3
    DEF Withdraw, Custody, RefundsComplete, RefundsForgotten, TypeOK, switches, history
<1>9. QED
    BY <1>5, <1>6, <1>7, <1>8 DEF Custody

LEMMA DonateKeepsInv ==
    ASSUME VaultInv, NEW u \in Users, NEW amount \in Nat, Donate(u, amount)
    PROVE  VaultInv'
<1> USE DEF VaultInv
<1>1. wallet[u] \in Nat /\ escrow[u] \in Nat
    BY DEF TypeOK
<1>2. /\ wallet' = [wallet EXCEPT ![u] = wallet[u] - amount]
      /\ escrow' = [escrow EXCEPT ![u] = escrow[u] + amount]
      /\ wallet[u] - amount \in Nat /\ escrow[u] + amount \in Nat
    BY <1>1 DEF Donate
<1>3. /\ escrow' \in [Users -> Nat]
      /\ \A v \in Users \ {u} : escrow'[v] = escrow[v]
      /\ SumOver(escrow) \in Nat
      /\ SumOver(escrow') = SumOver(escrow) - escrow[u] + (escrow[u] + amount)
    BY <1>2, EscrowUpdate
<1>4. wallet' \in [Users -> Nat]
    BY <1>2 DEF TypeOK
<1>5. EscrowsTracked'
    BY <1>1, <1>3 DEF Donate, Custody, EscrowsTracked, TypeOK, books
<1>6. PoolInv'
    BY PoolUntouched DEF Donate
<1>7. TypeOK'
    BY <1>3, <1>4, <1>6 DEF Donate, TypeOK, PoolInv, switches, books
<1>8. RefundsComplete' /\ RefundsForgotten'
    BY <1>3 DEF Donate, Custody, RefundsComplete, RefundsForgotten, TypeOK, switches
<1>9. QED
    BY <1>5, <1>6, <1>7, <1>8 DEF Custody

\* Trades past the vault leave its books alone.
LEMMA BooksUntouched ==
    ASSUME VaultInv, PoolInv', wallet' \in [Users -> Nat],
           UNCHANGED <<escrow, books, switches, history>>
    PROVE  VaultInv'
<1> USE DEF VaultInv
<1>1. TypeOK'
    BY DEF TypeOK, PoolInv, books, switches, history
<1>2. Custody'
    BY DEF Custody, EscrowsTracked, RefundsComplete, RefundsForgotten, books, switches, history
<1>3. QED
    BY <1>1, <1>2

LEMMA DirectBuyKeepsInv ==
    ASSUME VaultInv, NEW u \in Users, NEW r \in Ranges,
           NEW usdcIn \in Nat, NEW shares \in Nat, DirectBuy(u, r, usdcIn, shares)
    PROVE  VaultInv'
<1> DEFINE spent == Spent(r, usdcIn, shares)
<1>1. PoolInv'
    BY BuyKeepsPoolInv DEF DirectBuy, VaultInv
<1>2. spent \in Nat /\ spent <= usdcIn
    BY PurchaseBounds DEF DirectBuy, PoolBuy, VaultInv, PoolInv
<1> HIDE DEF spent
<1>3. wallet' = [wallet EXCEPT ![u] = wallet[u] - spent] /\ usdcIn <= wallet[u]
    BY DEF DirectBuy, spent
<1>4. wallet' \in [Users -> Nat]
    <2>1. wallet \in [Users -> Nat]
        BY DEF VaultInv, TypeOK
    <2>2. wallet[u] - spent \in Nat
        BY <1>2, <1>3, <2>1
    <2>3. QED
        BY <1>3, <2>1, <2>2
<1>5. QED
    BY <1>1, <1>4, BooksUntouched DEF DirectBuy

LEMMA DirectSellKeepsInv ==
    ASSUME VaultInv, NEW u \in Users, NEW r \in Ranges, NEW shares \in Nat,
           DirectSell(u, r, shares)
    PROVE  VaultInv'
<1> DEFINE proceeds == Proceeds(r, shares)
<1>1. PoolInv'
    BY SellKeepsPoolInv DEF DirectSell, VaultInv
<1>2. proceeds \in Nat
    BY SaleBounds DEF DirectSell, VaultInv
<1> HIDE DEF proceeds
<1>3. wallet' = [wallet EXCEPT ![u] = wallet[u] + proceeds]
    BY DEF DirectSell, proceeds
<1>4. wallet' \in [Users -> Nat]
    BY <1>2, <1>3 DEF VaultInv, TypeOK
<1>5. QED
    BY <1>1, <1>4, BooksUntouched DEF DirectSell

\* What a trade does to its user's escrow is all that happens to custody.
LEMMA TradeKeepsCustody ==
    ASSUME VaultInv, PoolInv', NEW u \in Users, NEW n \in Nat,
           ~emergencyRefundMode,
           escrow' = [escrow EXCEPT ![u] = n],
           totalVaultBalance' = Synced(escrow[u], escrow'[u]),
           UNCHANGED <<wallet, depositors, switches, history>>
    PROVE  VaultInv'
<1>1. totalVaultBalance' \in Nat /\ EscrowsTracked'
    BY SyncTracks DEF history
<1>2. escrow' \in [Users -> Nat]
    BY EscrowUpdate DEF VaultInv
<1>3. TypeOK'
    BY <1>1, <1>2 DEF VaultInv, TypeOK, PoolInv, switches, history
<1>4. RefundsComplete' /\ RefundsForgotten'
    BY DEF VaultInv, Custody, RefundsComplete, RefundsForgotten, switches, history
<1>5. QED
    BY <1>1, <1>3, <1>4 DEF VaultInv, Custody

LEMMA VaultBuyKeepsInv ==
    ASSUME VaultInv, NEW u \in Users, NEW r \in Ranges,
           NEW usdcIn \in Nat, NEW shares \in Nat, VaultBuy(u, r, usdcIn, shares)
    PROVE  VaultInv'
<1> DEFINE spent == Spent(r, usdcIn, shares)
<1>1. PoolInv'
    BY BuyKeepsPoolInv DEF VaultBuy, VaultInv
<1>2. spent \in Nat /\ spent <= usdcIn
    BY PurchaseBounds DEF VaultBuy, PoolBuy, VaultInv, PoolInv
<1> HIDE DEF spent
<1>3. escrow' = [escrow EXCEPT ![u] = escrow[u] - spent] /\ usdcIn <= escrow[u]
    BY DEF VaultBuy, spent
<1>4. escrow[u] - spent \in Nat
    BY <1>2, <1>3 DEF VaultInv, TypeOK
<1>5. QED
    BY <1>1, <1>3, <1>4, TradeKeepsCustody DEF VaultBuy, MayTrade

LEMMA VaultSellKeepsInv ==
    ASSUME VaultInv, NEW u \in Users, NEW r \in Ranges, NEW shares \in Nat,
           VaultSell(u, r, shares)
    PROVE  VaultInv'
<1> DEFINE proceeds == Proceeds(r, shares)
<1>1. PoolInv'
    BY SellKeepsPoolInv DEF VaultSell, VaultInv
<1>2. proceeds \in Nat
    BY SaleBounds DEF VaultSell, VaultInv
<1> HIDE DEF proceeds
<1>3. escrow' = [escrow EXCEPT ![u] = escrow[u] + proceeds]
    BY DEF VaultSell, proceeds
<1>4. escrow[u] + proceeds \in Nat
    BY <1>2 DEF VaultInv, TypeOK
<1>5. QED
    BY <1>1, <1>3, <1>4, TradeKeepsCustody DEF VaultSell, MayTrade

LEMMA RedeemKeepsInv ==
    ASSUME VaultInv, NEW u \in Users, Redeem(u)
    PROVE  VaultInv'
<1> DEFINE payout == Payout(u)
<1>1. PoolInv' /\ payout \in Nat
    BY RedeemKeepsPoolInv DEF Redeem, VaultInv
<1>2. UNCHANGED <<switches, history>>
    BY DEF Redeem
<1> HIDE DEF payout
<1>3. CASE poolVaultSet /\ HasEscrow(u)
    <2>1. /\ ~emergencyRefundMode
          /\ escrow' = [escrow EXCEPT ![u] = escrow[u] + payout]
          /\ totalVaultBalance' = totalVaultBalance + payout
          /\ UNCHANGED <<wallet, depositors>>
        BY <1>3 DEF Redeem, RedeemTo, payout
    <2>2. escrow[u] \in Nat /\ totalVaultBalance \in Nat
        BY DEF VaultInv, TypeOK
    <2>3. escrow[u] + payout \in Nat /\ escrow'[u] = escrow[u] + payout
        BY <1>1, <2>1, <2>2 DEF VaultInv, TypeOK
    <2>4. totalVaultBalance' = Synced(escrow[u], escrow'[u])
        BY <1>1, <2>1, <2>2, <2>3 DEF Synced
    <2>5. QED
        BY <1>1, <1>2, <2>1, <2>3, <2>4, TradeKeepsCustody
<1>4. CASE ~(poolVaultSet /\ HasEscrow(u))
    <2>1. /\ wallet' = [wallet EXCEPT ![u] = wallet[u] + payout]
          /\ UNCHANGED <<escrow, books>>
        BY <1>4 DEF Redeem, RedeemTo, payout
    <2>2. wallet' \in [Users -> Nat]
        BY <1>1, <2>1 DEF VaultInv, TypeOK
    <2>3. QED
        BY <1>1, <1>2, <2>1, <2>2, BooksUntouched
<1>5. QED
    BY <1>3, <1>4

\* A batch of refunds empties the escrows of its users, and its sum is taken
\* off the aggregate.
LEMMA EmergencyRefundKeepsInv ==
    ASSUME VaultInv, NEW start \in Nat, NEW count \in Nat, EmergencyRefund(start, count)
    PROVE  VaultInv'
<1> DEFINE batch == Batch(start, count)
           paid == SumOver([u \in batch |-> escrow[u]])
<1> USE DEF VaultInv
<1>1. batch \subseteq Users
    <2>1. \A j \in DOMAIN depositors : depositors[j] \in Users
        BY DEF TypeOK
    <2>2. QED
        BY <2>1 DEF Batch
<1>2. /\ wallet' = [u \in Users |-> IF u \in batch THEN wallet[u] + escrow[u] ELSE wallet[u]]
      /\ escrow' = [u \in Users |-> IF u \in batch THEN 0 ELSE escrow[u]]
      /\ totalVaultBalance' = Debited(totalVaultBalance, paid)
      /\ refunded' = refunded \cup batch
      /\ emergencyRefundMode
      /\ UNCHANGED <<poolVars, depositors, switches, donated>>
    BY DEF EmergencyRefund, Batch
<1>3. /\ paid \in Nat /\ SumOver(escrow') \in Nat
      /\ SumOver(escrow) = paid + SumOver(escrow')
    <2>1. escrow \in [Users -> Nat] /\ IsFiniteSet(Users)
        BY UnitsAssumption DEF TypeOK
    <2> HIDE DEF batch
    <2>2. QED
        BY <1>1, <1>2, <2>1, SumSplit
<1> HIDE DEF batch, paid
<1>4. wallet' \in [Users -> Nat] /\ escrow' \in [Users -> Nat]
    BY <1>2 DEF TypeOK
<1>5. totalVaultBalance' \in Nat /\ EscrowsTracked'
    <2>1. /\ totalVaultBalance \in Nat /\ donated \in Nat
          /\ totalVaultBalance <= SumOver(escrow)
          /\ SumOver(escrow) <= totalVaultBalance + donated
        BY DEF TypeOK, Custody, EscrowsTracked
    <2>2. SumOver(escrow) \in Nat /\ paid <= SumOver(escrow)
          /\ SumOver(escrow) - paid = SumOver(escrow')
        BY <1>3
    <2>3. /\ Debited(totalVaultBalance, paid) \in Nat
          /\ Debited(totalVaultBalance, paid) <= SumOver(escrow) - paid
          /\ SumOver(escrow) - paid <= Debited(totalVaultBalance, paid) + donated
        BY <1>3, <2>1, <2>2, DebitTracks
    <2>4. QED
        BY <1>2, <2>2, <2>3 DEF EscrowsTracked
<1>6. PoolInv'
    BY <1>2, PoolUntouched
<1>7. TypeOK'
    BY <1>1, <1>2, <1>4, <1>5, <1>6 DEF TypeOK, PoolInv, switches
<1>8. RefundsComplete' /\ RefundsForgotten'
    BY <1>1, <1>2 DEF Custody, RefundsComplete, RefundsForgotten, TypeOK, switches
<1>9. QED
    BY <1>5, <1>6, <1>7, <1>8 DEF Custody

\* The rest of what the admin does moves no user's money.
LEMMA AdminKeepsInv ==
    ASSUME VaultInv, AdminStep
    PROVE  VaultInv'
<1> USE DEF VaultInv
<1>1. ASSUME NEW seed \in Seeds, NEW fee \in ProtocolFees, NEW buffer \in ClaimsBuffers,
             NEW withVault \in VaultKnown, CreateMarket(seed, fee, buffer, withVault)
      PROVE  VaultInv'
    <2>1. fee \in Nat /\ buffer \in Nat /\ withVault \in BOOLEAN
        BY VaultAssumption
    <2>2. PoolInv'
        BY <1>1, <2>1, CreateKeepsPoolInv DEF CreateMarket
    <2>3. TypeOK'
        BY <1>1, <2>1, <2>2 DEF CreateMarket, TypeOK, PoolInv, funds, books, history
    <2>4. Custody'
        BY <1>1 DEF CreateMarket, Custody, EscrowsTracked, RefundsComplete, RefundsForgotten,
                    funds, books, history
    <2>5. QED
        BY <2>2, <2>3, <2>4
<1>2. ASSUME NEW r \in Ranges, Resolve(r) PROVE VaultInv'
    <2>1. PoolInv' /\ wallet' \in [Users -> Nat]
        BY <1>2, ResolveKeepsPoolInv DEF Resolve, TypeOK, funds
    <2>2. QED
        BY <1>2, <2>1, BooksUntouched DEF Resolve, funds
<1>3. CASE Drain
    <2>1. PoolInv' /\ wallet' \in [Users -> Nat]
        BY <1>3, DrainKeepsPoolInv DEF Drain, TypeOK, funds
    <2>2. QED
        BY <1>3, <2>1, BooksUntouched DEF Drain, funds
<1>4. CASE SetAdapter(~adapterAuthorized) \/ SetRegistered(~poolRegistered)
    <2>1. PoolInv'
        BY <1>4, PoolUntouched DEF SetAdapter, SetRegistered
    <2>2. TypeOK'
        BY <1>4, <2>1 DEF SetAdapter, SetRegistered, TypeOK, PoolInv, funds, books, history
    <2>3. Custody'
        BY <1>4 DEF SetAdapter, SetRegistered, Custody, EscrowsTracked, RefundsComplete,
                    RefundsForgotten, funds, books, history
    <2>4. QED
        BY <2>1, <2>2, <2>3
<1>5. CASE SetEmergencyRefundMode(~emergencyRefundMode)
    <2>1. PoolInv'
        BY <1>5, PoolUntouched DEF SetEmergencyRefundMode
    <2>2. TypeOK'
        BY <1>5, <2>1 DEF SetEmergencyRefundMode, TypeOK, PoolInv, funds, books
    <2>3. Custody'
        BY <1>5 DEF SetEmergencyRefundMode, Custody, EscrowsTracked, RefundsComplete,
                    RefundsForgotten, TypeOK, funds, books
    <2>4. QED
        BY <2>1, <2>2, <2>3
<1>6. ASSUME NEW start \in 0..Cardinality(Users), NEW count \in 1..Cardinality(Users),
             EmergencyRefund(start, count)
      PROVE  VaultInv'
    <2>1. start \in Nat /\ count \in Nat
        OBVIOUS
    <2>2. QED
        BY <1>6, <2>1, EmergencyRefundKeepsInv
<1>7. QED
    BY <1>1, <1>2, <1>3, <1>4, <1>5, <1>6 DEF AdminStep

LEMMA VaultInvInit == Init => VaultInv
<1> SUFFICES ASSUME Init PROVE VaultInv
    OBVIOUS
<1>0. /\ b = 0 /\ balance = 0 /\ protocolFeeBps = 0 /\ claimsBufferBps = 0
      /\ resolved = FALSE /\ winningRange \in Ranges /\ drained = FALSE
      /\ balanceOf = [r \in Ranges |-> [u \in Users |-> 0]]
      /\ totalSupply = [r \in Ranges |-> 0]
      /\ record = [created |-> FALSE, resolved |-> FALSE, winner |-> winningRange]
    BY DEF Init, PoolInit
<1>1. PoolTypeOK
    <2>1. 0 \in Nat /\ 0 \in 0..MaxSupply /\ 0 \in 0..MaxProtocolFee /\ 0 \in 0..MaxClaimsBuffer
        BY UnitsAssumption, CapsAssumption
    <2>2. record \in RangeMarket
        BY <1>0 DEF RangeMarket
    <2>3. balanceOf \in [Ranges -> [Users -> Nat]] /\ totalSupply \in [Ranges -> 0..MaxSupply]
        BY <1>0, <2>1
    <2>4. QED
        BY <1>0, <2>1, <2>2, <2>3 DEF PoolTypeOK
<1>2. LedgersAddUp
    <2>1. \A r \in Ranges : balanceOf[r] = [u \in Users |-> 0] /\ totalSupply[r] = 0
        BY DEF Init, PoolInit
    <2>2. QED
        BY <2>1, SumZero DEF LedgersAddUp
<1>3. RecordsAgree /\ CostHeld /\ ClaimsHeld
    <2>1. record.created = FALSE /\ record.resolved = FALSE /\ record.winner = winningRange
        BY <1>0
    <2>2. RecordsAgree
        <3>1. (b > 0) = FALSE
            BY <1>0
        <3>2. ~resolved /\ totalSupply = [r \in Ranges |-> 0]
            BY <1>0
        <3>3. record.created = (b > 0) /\ record.resolved = resolved
            BY <1>0, <2>1, <3>1
        <3>4. QED
            BY <2>1, <3>2, <3>3 DEF RecordsAgree
    <2>3. CostHeld
        BY <2>1 DEF CostHeld
    <2>4. ClaimsHeld
        BY <1>0 DEF ClaimsHeld, Claims
    <2>5. QED
        BY <2>2, <2>3, <2>4
<1>4. QuotientsFine
    <2>1. (Scale - 1) * Precision \in Nat
        BY UnitsAssumption, ProductNat
    <2>2. QED
        BY <2>1 DEF Init, PoolInit, QuotientsFine
<1>5. TypeOK
    <2>1. /\ wallet = Endowment /\ escrow = [u \in Users |-> 0] /\ depositors = << >>
          /\ totalVaultBalance = 0 /\ donated = 0 /\ refunded = {}
          /\ emergencyRefundMode = FALSE /\ adapterAuthorized = FALSE
          /\ poolRegistered = FALSE /\ poolVaultSet = FALSE
        BY DEF Init
    <2>2. escrow \in [Users -> Nat] /\ wallet \in [Users -> Nat]
        BY <2>1, VaultAssumption
    <2>3. depositors \in Seq(Users) /\ DOMAIN depositors = {}
        BY <2>1
    <2>4. QED
        BY <1>1, <2>1, <2>2, <2>3 DEF TypeOK
<1>6. EscrowsTracked
    BY SumZero DEF Init, EscrowsTracked
<1>7. RefundsComplete /\ RefundsForgotten
    BY DEF Init, RefundsComplete, RefundsForgotten
<1>8. QED
    BY <1>1, <1>2, <1>3, <1>4, <1>5, <1>6, <1>7 DEF VaultInv, PoolInv, Custody

LEMMA PurchaseTyped ==
    ASSUME NEW p \in Purchases
    PROVE  p[1] \in Ranges /\ p[2] \in Nat /\ p[3] \in Nat
<1>1. p \in Ranges \X Amounts \X (1..MaxSupply)
    BY DEF Purchases
<1>2. p[1] \in Ranges /\ p[2] \in Amounts /\ p[3] \in 1..MaxSupply
    BY <1>1
<1>3. p[2] \in Nat
    BY <1>2, VaultAssumption
<1>4. p[3] \in Nat
    BY <1>2, UnitsAssumption
<1>5. QED
    BY <1>2, <1>3, <1>4

LEMMA VaultInvStep == VaultInv /\ [Next]_vars => VaultInv'
<1> SUFFICES ASSUME VaultInv, [Next]_vars PROVE VaultInv'
    OBVIOUS
<1>1. ASSUME NEW u \in Users, UserStep(u) PROVE VaultInv'
    <2>1. ASSUME NEW amount \in Amounts,
                 Deposit(u, amount) \/ Withdraw(u, amount) \/ Donate(u, amount)
          PROVE  VaultInv'
        <3>1. amount \in Nat
            BY VaultAssumption
        <3>2. QED
            BY <2>1, <3>1, DepositKeepsInv, WithdrawKeepsInv, DonateKeepsInv
    <2>2. ASSUME NEW r \in Ranges, NEW shares \in ShareAmounts, DirectSell(u, r, shares)
          PROVE  VaultInv'
        <3>1. shares \in Nat
            BY VaultAssumption
        <3>2. QED
            BY <2>2, <3>1, DirectSellKeepsInv
    <2>3. CASE Redeem(u)
        BY <2>3, RedeemKeepsInv
    <2>4. QED
        BY <1>1, <2>1, <2>2, <2>3 DEF UserStep
<1>2. ASSUME NEW u \in Users, OperatorStep(u) PROVE VaultInv'
    <2>1. PICK r \in Ranges, shares \in ShareAmounts : VaultSell(u, r, shares)
        BY <1>2 DEF OperatorStep
    <2>2. shares \in Nat
        BY VaultAssumption
    <2>3. QED
        BY <2>1, <2>2, VaultSellKeepsInv
<1>3. CASE BuyStep
    <2>1. PICK p \in Purchases, u \in Users :
              DirectBuy(u, p[1], p[2], p[3]) \/ VaultBuy(u, p[1], p[2], p[3])
        BY <1>3 DEF BuyStep
    <2>2. p[1] \in Ranges /\ p[2] \in Nat /\ p[3] \in Nat
        BY PurchaseTyped
    <2>3. QED
        BY <2>1, <2>2, DirectBuyKeepsInv, VaultBuyKeepsInv
<1>4. CASE AdminStep
    BY <1>4, AdminKeepsInv
<1>5. CASE UNCHANGED vars
    <2>1. PoolInv' /\ wallet' \in [Users -> Nat]
        BY <1>5, PoolUntouched DEF VaultInv, vars, funds, TypeOK
    <2>2. QED
        BY <1>5, <2>1, BooksUntouched DEF vars, funds
<1>6. QED
    BY <1>1, <1>2, <1>3, <1>4, <1>5 DEF Next

LEMMA VaultInvariant == Spec => []VaultInv
BY VaultInvInit, VaultInvStep, PTL DEF Spec

\* The range pool is solvent: whatever users trade from their wallets or
\* through the vault, it holds what the cost function has charged, and after
\* the resolution what the winners may claim. For any tables of exp and ln.
THEOREM RangeSolvency == Spec => []SolvencyInv
<1>1. VaultInv => SolvencyInv
    BY DEF VaultInv, PoolInv, SolvencyInv
<1>2. QED
    BY VaultInvariant, <1>1, PTL

\* Before the resolution any range might win and be paid.
THEOREM EveryRangePayable ==
    Spec => [](record.created /\ ~resolved =>
                   \A r \in Ranges : totalSupply[r] \div Scale <= balance)
<1>1. VaultInv => (record.created /\ ~resolved =>
                      \A r \in Ranges : totalSupply[r] \div Scale <= balance)
    BY AnyRangePayable DEF VaultInv
<1>2. QED
    BY VaultInvariant, <1>1, PTL

\* Deposits, withdrawals, trades with their dust, redemptions credited by a
\* pool and refunds in batches of any size: the aggregate never claims more
\* than the escrows hold, and misses at most what went past the vault.
THEOREM AggregateFollowsEscrows == Spec => []EscrowsTracked
<1>1. VaultInv => EscrowsTracked
    BY DEF VaultInv, Custody
<1>2. QED
    BY VaultInvariant, <1>1, PTL

\* In the refund mode nothing comes back to an escrow that was refunded.
THEOREM RefundsStayComplete == Spec => []RefundsComplete
<1>1. VaultInv => RefundsComplete
    BY DEF VaultInv, Custody
<1>2. QED
    BY VaultInvariant, <1>1, PTL
---------------------------------------------------------------------------
(* Whose money moves *)

\* What Segregated says of one user in one step
Apart(u) ==
    escrow'[u] < escrow[u] =>
        \/ wallet'[u] - wallet[u] = escrow[u] - escrow'[u]
        \/ /\ wallet' = wallet
           /\ \A v \in Users \ {u} : escrow'[v] = escrow[v]
           /\ \E r \in Ranges : balanceOf'[r][u] > balanceOf[r][u]

\* An escrow that only grows, whosever it is, needs no reason.
LEMMA CreditsApart ==
    ASSUME VaultInv, NEW u \in Users, NEW n \in Nat,
           escrow' = [escrow EXCEPT ![u] = @ + n],
           NEW v \in Users
    PROVE  Apart(v)
<1>1. escrow[v] \in Nat /\ escrow \in [Users -> Nat]
    BY DEF VaultInv, TypeOK
<1>2. escrow'[v] >= escrow[v]
    BY <1>1
<1>3. QED
    BY <1>1, <1>2 DEF Apart

LEMMA PayoutNat ==
    ASSUME PoolInv, NEW u \in Users
    PROVE  Payout(u) \in Nat
<1>1. balanceOf[winningRange][u] \in Nat
    BY DEF PoolInv, PoolTypeOK
<1>2. QED
    BY <1>1, DivFloor, UnitsAssumption DEF Payout

LEMMA UserStepApart ==
    ASSUME VaultInv, NEW u \in Users, UserStep(u), NEW v \in Users
    PROVE  Apart(v)
<1> USE DEF VaultInv
<1>1. ASSUME NEW amount \in Amounts, Deposit(u, amount) \/ Donate(u, amount) PROVE Apart(v)
    <2>1. amount \in Nat
        BY VaultAssumption
    <2>2. QED
        BY <1>1, <2>1, CreditsApart DEF Deposit, Donate
<1>2. ASSUME NEW amount \in Amounts, Withdraw(u, amount) PROVE Apart(v)
    <2>1. /\ amount \in Nat
          /\ wallet \in [Users -> Nat] /\ escrow \in [Users -> Nat]
        BY VaultAssumption DEF TypeOK
    <2>2. CASE v = u
        BY <1>2, <2>1, <2>2 DEF Withdraw, Apart
    <2>3. CASE v # u
        <3>1. escrow'[v] = escrow[v] /\ escrow[v] \in Nat
            BY <1>2, <2>1, <2>3 DEF Withdraw
        <3>2. QED
            BY <3>1 DEF Apart
    <2>4. QED
        BY <2>2, <2>3
<1>3. ASSUME NEW r \in Ranges, NEW shares \in ShareAmounts, DirectSell(u, r, shares)
      PROVE  Apart(v)
    BY <1>3 DEF DirectSell, Apart, TypeOK
<1>4. CASE Redeem(u)
    <2>1. Payout(u) \in Nat
        BY PayoutNat
    <2>2. \/ escrow' = [escrow EXCEPT ![u] = @ + Payout(u)]
          \/ escrow' = escrow
        BY <1>4 DEF Redeem, RedeemTo
    <2>3. CASE escrow' = escrow
        BY <2>3 DEF Apart, TypeOK
    <2>4. QED
        BY <2>1, <2>2, <2>3, CreditsApart
<1>5. QED
    BY <1>1, <1>2, <1>3, <1>4 DEF UserStep

LEMMA VaultSellApart ==
    ASSUME VaultInv, NEW u \in Users, NEW r \in Ranges, NEW shares \in Nat,
           VaultSell(u, r, shares), NEW v \in Users
    PROVE  Apart(v)
<1>1. Proceeds(r, shares) \in Nat
    BY SaleBounds DEF VaultInv, VaultSell
<1>2. QED
    BY <1>1, CreditsApart DEF VaultSell

LEMMA VaultBuyApart ==
    ASSUME VaultInv, NEW u \in Users, NEW r \in Ranges,
           NEW usdcIn \in Nat, NEW shares \in Nat,
           VaultBuy(u, r, usdcIn, shares), NEW v \in Users
    PROVE  Apart(v)
<1>1. /\ wallet' = wallet
      /\ escrow' = [escrow EXCEPT ![u] = @ - Spent(r, usdcIn, shares)]
      /\ balanceOf' = [balanceOf EXCEPT ![r][u] = @ + shares]
      /\ shares > 0
    BY DEF VaultBuy, PoolBuy
<1>2. escrow \in [Users -> Nat] /\ balanceOf \in [Ranges -> [Users -> Nat]]
    BY DEF VaultInv, TypeOK, PoolTypeOK
<1>3. \A w \in Users \ {u} : escrow'[w] = escrow[w]
    BY <1>1, <1>2
<1>4. CASE v = u
    <2>1. balanceOf'[r][u] = balanceOf[r][u] + shares /\ balanceOf[r][u] \in Nat
        BY <1>1, <1>2
    <2>2. balanceOf'[r][u] > balanceOf[r][u]
        BY <1>1, <2>1
    <2>3. QED
        BY <1>1, <1>3, <1>4, <2>2 DEF Apart
<1>5. CASE v # u
    <2>1. escrow'[v] = escrow[v] /\ escrow[v] \in Nat
        BY <1>2, <1>3, <1>5
    <2>2. QED
        BY <2>1 DEF Apart
<1>6. QED
    BY <1>4, <1>5

LEMMA RefundsApart ==
    ASSUME VaultInv, NEW start \in Nat, NEW count \in Nat,
           EmergencyRefund(start, count), NEW v \in Users
    PROVE  Apart(v)
<1>1. wallet \in [Users -> Nat] /\ escrow \in [Users -> Nat]
    BY DEF VaultInv, TypeOK
<1>2. CASE v \in Batch(start, count)
    <2>1. wallet'[v] = wallet[v] + escrow[v] /\ escrow'[v] = 0
        BY <1>2 DEF EmergencyRefund
    <2>2. QED
        BY <1>1, <2>1 DEF Apart
<1>3. CASE v \notin Batch(start, count)
    <2>1. escrow'[v] = escrow[v]
        BY <1>3 DEF EmergencyRefund
    <2>2. QED
        BY <1>1, <2>1 DEF Apart
<1>4. QED
    BY <1>2, <1>3

\* What leaves a user's escrow goes to that user's wallet, or pays for shares
\* that user receives while nobody else's escrow moves; in a batch of refunds
\* too each is paid his own.
THEOREM EscrowsSegregated == Spec => Segregated
<1>1. VaultInv /\ [Next]_vars => [\A u \in Users : Apart(u)]_vars
    <2> SUFFICES ASSUME VaultInv, Next, NEW v \in Users PROVE Apart(v)
        OBVIOUS
    <2>1. ASSUME NEW u \in Users, UserStep(u) PROVE Apart(v)
        BY <2>1, UserStepApart
    <2>2. ASSUME NEW u \in Users, OperatorStep(u) PROVE Apart(v)
        <3>1. PICK r \in Ranges, shares \in ShareAmounts : VaultSell(u, r, shares)
            BY <2>2 DEF OperatorStep
        <3>2. shares \in Nat
            BY VaultAssumption
        <3>3. QED
            BY <3>1, <3>2, VaultSellApart
    <2>3. CASE BuyStep
        <3>1. PICK p \in Purchases, u \in Users :
                  DirectBuy(u, p[1], p[2], p[3]) \/ VaultBuy(u, p[1], p[2], p[3])
            BY <2>3 DEF BuyStep
        <3>2. CASE DirectBuy(u, p[1], p[2], p[3])
            BY <3>2 DEF DirectBuy, Apart, VaultInv, TypeOK
        <3>3. CASE VaultBuy(u, p[1], p[2], p[3])
            BY <3>3, PurchaseTyped, VaultBuyApart
        <3>4. QED
            BY <3>1, <3>2, <3>3
    <2>4. CASE AdminStep
        <3>1. ASSUME NEW start \in 0..Cardinality(Users), NEW count \in 1..Cardinality(Users),
                     EmergencyRefund(start, count)
              PROVE  Apart(v)
            <4>1. start \in Nat /\ count \in Nat
                OBVIOUS
            <4>2. QED
                BY <3>1, <4>1, RefundsApart
        <3>2. CASE UNCHANGED escrow
            BY <3>2 DEF Apart, VaultInv, TypeOK
        <3>3. QED
            BY <2>4, <3>1, <3>2 DEF AdminStep, CreateMarket, Resolve, Drain, SetAdapter,
                SetRegistered, SetEmergencyRefundMode, funds
    <2>5. QED
        BY <2>1, <2>2, <2>3, <2>4 DEF Next
<1>2. QED
    BY VaultInvariant, <1>1, PTL DEF Spec, Segregated, Apart
---------------------------------------------------------------------------
(* The market that was promised *)

\* OutcomeMarket's variables, as Promise maps them
MayWin == IF resolved THEN {winningRange} ELSE Ranges
Holdings == [r \in Ranges |-> [u \in Users |-> balanceOf[r][u] \div Scale]]

LEMMA SameSum == \A f : Promise!SumOver(f) = SumOver(f)
<1>1. \A S : Promise!Cardinality(S) = Cardinality(S)
    BY DEF Promise!Cardinality, Cardinality
<1>2. QED
    BY <1>1 DEF Promise!SumOver, SumOver, Promise!UnitsOf, UnitsOf

LEMMA HoldingsType ==
    ASSUME balanceOf \in [Ranges -> [Users -> Nat]]
    PROVE  Holdings \in [Ranges -> [Users -> Nat]]
<1>1. \A r \in Ranges, u \in Users : balanceOf[r][u] \div Scale \in Nat
    <2> SUFFICES ASSUME NEW r \in Ranges, NEW u \in Users
                 PROVE  balanceOf[r][u] \div Scale \in Nat
        OBVIOUS
    <2>1. balanceOf[r][u] \in Nat
        OBVIOUS
    <2>2. QED
        BY <2>1, DivFloor, UnitsAssumption
<1>2. QED
    BY <1>1 DEF Holdings

\* Rounding down each holder's shares costs the pool less than rounding down
\* the supply.
LEMMA HoldersPaid ==
    ASSUME PoolInv, NEW r \in Ranges
    PROVE  SumOver(Holdings[r]) <= totalSupply[r] \div Scale
<1> DEFINE f == balanceOf[r]
           floors == [u \in Users |-> f[u] \div Scale]
<1>1. f \in [Users -> Nat] /\ IsFiniteSet(UnitsOf(f)) /\ totalSupply[r] = SumOver(f)
    BY DEF PoolInv, PoolTypeOK, LedgersAddUp
<1>2. Holdings[r] = floors
    BY DEF Holdings
<1>3. SumOver(floors) <= SumOver(f) \div Scale
    <2> HIDE DEF f
    <2>1. QED
        BY <1>1, SumOfFloors, UnitsAssumption
<1> HIDE DEF f, floors
<1>4. QED
    BY <1>1, <1>2, <1>3

\* Covered, in every state the pool can be in
LEMMA PotCovers ==
    ASSUME PoolInv
    PROVE  \A r \in MayWin : SumOver(Holdings[r]) <= balance
<1> SUFFICES ASSUME NEW r \in MayWin PROVE SumOver(Holdings[r]) <= balance
    OBVIOUS
<1>1. r \in Ranges /\ totalSupply[r] \in Nat /\ balance \in Nat
    BY DEF PoolInv, PoolTypeOK, MayWin
<1>2. totalSupply[r] \div Scale <= balance
    <2>1. CASE resolved
        BY <2>1 DEF MayWin, PoolInv, ClaimsHeld, Claims
    <2>2. CASE ~resolved /\ record.created
        BY <1>1, <2>2, AnyRangePayable
    <2>3. CASE ~resolved /\ ~record.created
        <3>1. totalSupply[r] = 0
            BY <1>1, <2>3 DEF PoolInv, RecordsAgree
        <3>2. 0 \div Scale = 0
            BY UnitsAssumption
        <3>3. QED
            BY <1>1, <3>1, <3>2
    <2>4. QED
        BY <2>1, <2>2, <2>3
<1>3. SumOver(Holdings[r]) <= totalSupply[r] \div Scale /\ totalSupply[r] \div Scale \in Nat
    BY <1>1, HoldersPaid, DivFloor, UnitsAssumption
<1>4. SumOver(Holdings[r]) \in Nat
    <2> DEFINE f == Holdings[r]
    <2>1. f \in [Users -> Nat]
        BY <1>1, HoldingsType DEF PoolInv, PoolTypeOK
    <2> HIDE DEF f
    <2>2. IsFiniteSet(UnitsOf(f))
        BY <2>1, LedgerFinite, UnitsAssumption
    <2>3. SumOver(f) \in Nat
        BY <2>2, FS_CardinalityType DEF SumOver
    <2>4. QED
        BY <2>3 DEF f
<1>5. QED
    BY <1>1, <1>2, <1>3, <1>4

LEMMA PromiseCovered == PoolInv => Promise!Covered
BY PotCovers, SameSum DEF Promise!Covered, MayWin, Holdings

LEMMA PromiseCoveredNext == PoolInv' => Promise!Covered'
BY PromiseCovered, PTL

\* A holding changes in one place when the tokens do.
LEMMA HoldingsUpdate ==
    ASSUME balanceOf \in [Ranges -> [Users -> Nat]],
           NEW r \in Ranges, NEW u \in Users, NEW n \in Nat,
           balanceOf' = [balanceOf EXCEPT ![r][u] = n]
    PROVE  /\ Holdings' = [Holdings EXCEPT ![r][u] = n \div Scale]
           /\ Holdings'[r][u] = n \div Scale
           /\ n \div Scale \in Nat
<1>1. \A s \in Ranges, v \in Users :
          balanceOf'[s][v] = IF s = r /\ v = u THEN n ELSE balanceOf[s][v]
    OBVIOUS
<1>2. Holdings' = [s \in Ranges |-> [v \in Users |->
                      IF s = r /\ v = u THEN n \div Scale ELSE Holdings[s][v]]]
    BY <1>1 DEF Holdings
<1>3. Holdings \in [Ranges -> [Users -> Nat]]
    BY HoldingsType
<1> HIDE DEF Holdings
<1>4. Holdings' = [Holdings EXCEPT ![r][u] = n \div Scale] /\ Holdings'[r][u] = n \div Scale
    BY <1>2, <1>3
<1>5. n \div Scale \in Nat
    BY DivFloor, UnitsAssumption
<1>6. QED
    BY <1>4, <1>5

\* The mapped variables follow the pool's.
LEMMA TradeKeepsPromise ==
    ASSUME PoolInv, PoolInv', ~resolved,
           NEW r \in Ranges, NEW u \in Users, NEW n \in Nat,
           balanceOf' = [balanceOf EXCEPT ![r][u] = n],
           UNCHANGED <<resolved, winningRange>>
    PROVE  Promise!Next
<1>1. /\ Holdings' = [Holdings EXCEPT ![r][u] = Holdings'[r][u]]
      /\ Holdings'[r][u] \in Nat
    <2>1. balanceOf \in [Ranges -> [Users -> Nat]]
        BY DEF PoolInv, PoolTypeOK
    <2>2. /\ Holdings' = [Holdings EXCEPT ![r][u] = n \div Scale]
          /\ Holdings'[r][u] = n \div Scale
          /\ n \div Scale \in Nat
        BY <2>1, HoldingsUpdate
    <2>3. QED
        BY <2>2
<1>2. MayWin = Ranges /\ MayWin' = MayWin
    BY DEF MayWin
<1>3. balance' \in Nat
    BY DEF PoolInv, PoolTypeOK
<1>4. Promise!Covered'
    BY PromiseCoveredNext
<1>5. Promise!Trade(u, r)
    BY <1>1, <1>2, <1>3, <1>4 DEF Promise!Trade, Promise!Undecided, Holdings, MayWin
<1>6. QED
    BY <1>5 DEF Promise!Next

LEMMA PoolStepKeepsPromise ==
    ASSUME PoolInv, PoolInv'
    PROVE  /\ \A u \in Users, r \in Ranges, usdcIn \in Nat, shares \in Nat :
                  PoolBuy(u, r, usdcIn, shares) => Promise!Next
           /\ \A u \in Users, r \in Ranges, shares \in Nat :
                  PoolSell(u, r, shares) => Promise!Next
           /\ \A u \in Users : PoolRedeem(u) => Promise!Next
<1>0. balanceOf \in [Ranges -> [Users -> Nat]] /\ winningRange \in Ranges /\ balance \in Nat
    BY DEF PoolInv, PoolTypeOK
<1>1. ASSUME NEW u \in Users, NEW r \in Ranges, NEW usdcIn \in Nat, NEW shares \in Nat,
             PoolBuy(u, r, usdcIn, shares)
      PROVE  Promise!Next
    <2> DEFINE n == balanceOf[r][u] + shares
    <2>1. n \in Nat
        BY <1>0
    <2>2. balanceOf' = [balanceOf EXCEPT ![r][u] = n] /\ ~resolved
        BY <1>1 DEF PoolBuy
    <2>3. UNCHANGED <<resolved, winningRange>>
        BY <1>1 DEF PoolBuy, flags
    <2> HIDE DEF n
    <2>4. QED
        BY <2>1, <2>2, <2>3, TradeKeepsPromise
<1>2. ASSUME NEW u \in Users, NEW r \in Ranges, NEW shares \in Nat, PoolSell(u, r, shares)
      PROVE  Promise!Next
    <2> DEFINE n == balanceOf[r][u] - shares
    <2>1. n \in Nat
        BY <1>0, <1>2 DEF PoolSell
    <2>2. balanceOf' = [balanceOf EXCEPT ![r][u] = n] /\ ~resolved
        BY <1>2 DEF PoolSell
    <2>3. UNCHANGED <<resolved, winningRange>>
        BY <1>2 DEF PoolSell, flags
    <2> HIDE DEF n
    <2>4. QED
        BY <2>1, <2>2, <2>3, TradeKeepsPromise
<1>3. ASSUME NEW u \in Users, PoolRedeem(u) PROVE Promise!Next
    <2>1. balanceOf' = [balanceOf EXCEPT ![winningRange][u] = 0]
        BY <1>3 DEF PoolRedeem
    <2>2. Holdings' = [Holdings EXCEPT ![winningRange][u] = 0]
        <3>1. 0 \div Scale = 0 /\ 0 \in Nat
            BY UnitsAssumption
        <3>2. Holdings' = [Holdings EXCEPT ![winningRange][u] = 0 \div Scale]
            BY <1>0, <2>1, <3>1, HoldingsUpdate
        <3>3. QED
            BY <3>1, <3>2
    <2>3. Holdings[winningRange][u] = Payout(u) /\ Payout(u) > 0
        BY <1>0, <1>3 DEF PoolRedeem, Holdings, Payout
    <2>4. MayWin = {winningRange} /\ MayWin' = MayWin
        BY <1>3 DEF PoolRedeem, PoolInv, RecordsAgree, MayWin, flags
    <2>5. balance' = balance - Payout(u)
        BY <1>3 DEF PoolRedeem
    <2>6. PICK w \in Ranges : w = winningRange
        BY <1>0
    <2>7. Promise!Redeem(u, w)
        BY <2>2, <2>3, <2>4, <2>5, <2>6 DEF Promise!Redeem, Holdings, MayWin
    <2>8. QED
        BY <2>7 DEF Promise!Next
<1>4. QED
    BY <1>1, <1>2, <1>3

LEMMA AdminKeepsPromise ==
    ASSUME PoolInv, PoolInv', AdminStep
    PROVE  [Promise!Next]_(Promise!market)
<1>1. ASSUME NEW seed \in Seeds, NEW fee \in ProtocolFees, NEW buffer \in ClaimsBuffers,
             CreateRangeMarket(seed, fee, buffer)
      PROVE  Promise!Next
    <2>1. PICK r \in Ranges, u \in Users : TRUE
        BY UnitsAssumption DEF PoolInv, PoolTypeOK
    <2> DEFINE n == balanceOf[r][u]
    <2>2. n \in Nat /\ balanceOf' = [balanceOf EXCEPT ![r][u] = n]
        BY <1>1 DEF CreateRangeMarket, tokens, PoolInv, PoolTypeOK
    <2>3. ~resolved /\ UNCHANGED <<resolved, winningRange>>
        BY <1>1 DEF CreateRangeMarket, PoolInv, RecordsAgree
    <2> HIDE DEF n
    <2>4. QED
        BY <2>2, <2>3, TradeKeepsPromise
<1>2. ASSUME NEW r \in Ranges, ResolveRangeMarket(r) PROVE Promise!Next
    <2>1. MayWin = Ranges /\ MayWin' = {r} /\ Holdings' = Holdings /\ balance' = balance
        BY <1>2 DEF ResolveRangeMarket, MayWin, Holdings, tokens
    <2>2. Promise!Decide(r)
        BY <2>1 DEF Promise!Decide, Promise!Undecided, Holdings, MayWin
    <2>3. QED
        BY <2>2 DEF Promise!Next
<1>3. CASE DrainLiquidity
    <2>1. resolved /\ UNCHANGED <<tokens, resolved, winningRange>> /\ balance' = balance - Withdrawable
        BY <1>3 DEF DrainLiquidity
    <2>2. MayWin' = MayWin /\ Holdings' = Holdings
        BY <2>1 DEF MayWin, Holdings, tokens
    <2>3. MayWin # Ranges
        <3>1. Cardinality({winningRange}) = 1
            BY FS_Singleton
        <3>2. QED
            BY <2>1, <3>1, RangesAssumption DEF MayWin
    <2>4. balance' \in Nat /\ balance' <= balance
        <3>1. balance \in Nat /\ balance' \in Nat
            BY DEF PoolInv, PoolTypeOK
        <3>2. Reserved \in Nat
            BY ClaimsNat DEF PoolInv
        <3>3. QED
            BY <2>1, <3>1, <3>2 DEF Withdrawable
    <2>5. Promise!Covered'
        BY PromiseCoveredNext
    <2>6. Promise!Collect
        BY <2>2, <2>3, <2>4, <2>5 DEF Promise!Collect, Promise!Undecided, Holdings, MayWin
    <2>7. QED
        BY <2>6 DEF Promise!Next
<1>4. CASE UNCHANGED poolVars
    BY <1>4 DEF poolVars, tokens, flags, Promise!market
<1>5. QED
    BY <1>1, <1>2, <1>3, <1>4 DEF AdminStep, CreateMarket, Resolve, Drain, SetAdapter,
        SetRegistered, SetEmergencyRefundMode, EmergencyRefund

\* A range market in which users trade from their wallets and through the
\* vault, with the admin's resolution and drain, implements a market that
\* pays its winners in full.
THEOREM RangeMarketKeepsPromise == Spec => KeepsPromise
<1>1. Init => Promise!Init
    <2> SUFFICES ASSUME Init PROVE Promise!Init
        OBVIOUS
    <2>1. ~resolved /\ balance = 0 /\ balanceOf = [r \in Ranges |-> [u \in Users |-> 0]]
        BY DEF Init, PoolInit
    <2>2. 0 \div Scale = 0
        BY UnitsAssumption
    <2>3. QED
        BY <2>1, <2>2 DEF Promise!Init
<1>2. VaultInv /\ VaultInv' /\ [Next]_vars => [Promise!Next]_(Promise!market)
    <2> SUFFICES ASSUME VaultInv, VaultInv', [Next]_vars
                 PROVE  [Promise!Next]_(Promise!market)
        OBVIOUS
    <2>0. PoolInv /\ PoolInv'
        BY DEF VaultInv
    <2>1. ASSUME NEW u \in Users, UserStep(u) PROVE [Promise!Next]_(Promise!market)
        <3>1. ASSUME NEW r \in Ranges, NEW shares \in ShareAmounts, PoolSell(u, r, shares)
              PROVE  Promise!Next
            <4>1. shares \in Nat
                BY VaultAssumption
            <4>2. QED
                BY <2>0, <3>1, <4>1, PoolStepKeepsPromise
        <3>2. CASE PoolRedeem(u)
            BY <2>0, <3>2, PoolStepKeepsPromise
        <3>3. CASE UNCHANGED poolVars
            BY <3>3 DEF poolVars, tokens, flags, Promise!market
        <3>4. QED
            BY <2>1, <3>1, <3>2, <3>3 DEF UserStep, Deposit, Withdraw, Donate, DirectSell, Redeem
    <2>2. ASSUME NEW u \in Users, OperatorStep(u) PROVE Promise!Next
        <3>1. PICK r \in Ranges, shares \in ShareAmounts : PoolSell(u, r, shares)
            BY <2>2 DEF OperatorStep, VaultSell
        <3>2. shares \in Nat
            BY VaultAssumption
        <3>3. QED
            BY <2>0, <3>1, <3>2, PoolStepKeepsPromise
    <2>3. CASE BuyStep
        <3>1. PICK p \in Purchases, u \in Users : PoolBuy(u, p[1], p[2], p[3])
            BY <2>3 DEF BuyStep, DirectBuy, VaultBuy
        <3>2. p[1] \in Ranges /\ p[2] \in Nat /\ p[3] \in Nat
            BY PurchaseTyped
        <3>3. QED
            BY <2>0, <3>1, <3>2, PoolStepKeepsPromise
    <2>4. CASE AdminStep
        BY <2>0, <2>4, AdminKeepsPromise
    <2>5. CASE UNCHANGED vars
        BY <2>5 DEF vars, poolVars, tokens, flags, Promise!market
    <2>6. QED
        BY <2>1, <2>2, <2>3, <2>4, <2>5 DEF Next
<1>3. QED
    BY VaultInvariant, <1>1, <1>2, PTL DEF Spec, KeepsPromise, Promise!Spec
=============================================================================
