----------------------------- MODULE RangePool -----------------------------
(***************************************************************************)
(* One range market on chain: the LMSR pool (RangeLMSR.sol), its outcome   *)
(* tokens (RangeOutcomeToken.sol) and the factory's record                 *)
(* (RangeMarketFactory.sol).  The operators describe what a call does to   *)
(* these contracts; where the USDC comes from and goes to is Vault.tla's.  *)
(*                                                                         *)
(* As in CPMM.tla an action is a whole transaction, a revert is no step,   *)
(* and Scale token units make one USDC unit.  Exp and Ln are PRBMath's     *)
(* fixed-point functions with Precision units to one (1e18 in the code).   *)
(***************************************************************************)
EXTENDS HolderSums

CONSTANTS
    Users,              \* accounts that trade and redeem
    Ranges,             \* outcomes of the market
    Scale,              \* DECIMAL_SCALE
    Bps,                \* BPS
    Precision,          \* PRECISION
    MaxProtocolFee,     \* MAX_PROTOCOL_FEE_BPS
    MaxClaimsBuffer,    \* MAX_CLAIMS_BUFFER_BPS
    FeeBps,             \* LP fee of this pool, fixed at initialize
    Seeds,              \* USDC a market may be seeded with
    MaxSupply,          \* shares of one range that do not overflow _costFunction
    Exp,                \* Exp[x] is exp(-x), for the distance x to the largest argument
    Ln

MaxArgument == MaxSupply * Precision
LogArguments == Precision..(Precision * Cardinality(Ranges))

ASSUME RangesAssumption == IsFiniteSet(Ranges) /\ Cardinality(Ranges) >= 2
ASSUME UnitsAssumption ==
    /\ IsFiniteSet(Users) /\ Users # {}
    /\ Scale \in Nat \ {0}
    /\ Bps \in Nat \ {0}
    /\ Precision \in Nat \ {0}
    /\ MaxSupply \in Nat
ASSUME CapsAssumption ==
    /\ MaxProtocolFee \in 0..Bps
    /\ MaxClaimsBuffer \in 0..Bps
    /\ FeeBps \in 0..(Bps - 1)
    /\ Seeds \subseteq Nat \ {0}
\* What is taken from PRBMath: exp is at most one and exactly one at zero, ln
\* is not negative from one on, and ln(N) is positive (checked by the code).
ASSUME ExpAssumption ==
    /\ Exp \in [0..MaxArgument -> 0..Precision]
    /\ Exp[0] = Precision
ASSUME LnAssumption ==
    /\ Ln \in [LogArguments -> Nat]
    /\ Ln[Precision * Cardinality(Ranges)] > 0

VARIABLES
    b,                  \* liquidity parameter; 0 before the market is seeded
    balance,            \* USDC the pool holds
    balanceOf,          \* [Ranges -> [Users -> Nat]], the outcome tokens
    totalSupply,        \* [Ranges -> Nat]
    protocolFeeBps, claimsBufferBps,
    resolved, winningRange,
    drained,            \* liquidityDrained
    record              \* the factory's RangeMarket: created, resolved, winner

tokens == <<balanceOf, totalSupply>>
config == <<b, protocolFeeBps, claimsBufferBps>>
flags == <<resolved, winningRange, drained, record>>
poolVars == <<balance, tokens, config, flags>>

RangeMarket == [created: BOOLEAN, resolved: BOOLEAN, winner: Ranges]

PoolTypeOK ==
    /\ b \in Nat
    /\ balance \in Nat
    /\ balanceOf \in [Ranges -> [Users -> Nat]]
    /\ totalSupply \in [Ranges -> 0..MaxSupply]
    /\ protocolFeeBps \in 0..MaxProtocolFee
    /\ claimsBufferBps \in 0..MaxClaimsBuffer
    /\ resolved \in BOOLEAN
    /\ winningRange \in Ranges
    /\ drained \in BOOLEAN
    /\ record \in RangeMarket

---------------------------------------------------------------------------
(* The cost function *)

\* q[i] / liquidity in fixed point, the largest of them, and the logarithm of
\* the sum of their exponentials relative to the largest.
Argument(liquidity, q, r) == (q[r] * Precision) \div liquidity
Arguments(liquidity, q) == {Argument(liquidity, q, r) : r \in Ranges}
MaxArg(liquidity, q) ==
    CHOOSE max \in Arguments(liquidity, q) : \A x \in Arguments(liquidity, q) : x <= max
SumExp(liquidity, q, max) ==
    SumOver([r \in Ranges |-> Exp[max - Argument(liquidity, q, r)]])

\* The logarithm of the sum of exponentials, by the log-sum-exp trick
LogSumExp(liquidity, q, max) == max + Ln[SumExp(liquidity, q, max)]

\* C(q) = liquidity * ln(sum of exp(q[i] / liquidity))
CostOf(liquidity, q) ==
    (liquidity * LogSumExp(liquidity, q, MaxArg(liquidity, q))) \div Precision

\* seedLiquidity: the parameter for which no shares cost the seed
LiquidityParameter(seed) ==
    (seed * Scale * Precision) \div Ln[Precision * Cardinality(Ranges)]

\* What the fixed-point quotient q / b loses is less than one USDC unit. In the
\* code it is for every seed below some hundred thousand million USDC.
ASSUME SeedsAssumption ==
    \A seed \in Seeds : LiquidityParameter(seed) <= (Scale - 1) * Precision

Cost(q) == CostOf(b, q)

With(r, shares) == [totalSupply EXCEPT ![r] = @ + shares]
Without(r, shares) == [totalSupply EXCEPT ![r] = @ - shares]

---------------------------------------------------------------------------
(* Quotes and fees *)

Portion(amount, bps) == (amount * bps) \div Bps

CeilDiv(n, d) == IF n = 0 THEN 0 ELSE (n - 1) \div d + 1

NetIn(usdcIn) == usdcIn - Portion(usdcIn, protocolFeeBps)
Budget(usdcIn) == NetIn(usdcIn) - Portion(NetIn(usdcIn), FeeBps)

\* The bisection of _quoteBuyShares ends between an amount whose cost is in the
\* budget and the next one, whose cost is not; a cost below the present one
\* underflows, and the call reverts.
IsQuoted(r, shares, budget) ==
    LET cost == Cost(totalSupply)
    IN  /\ totalSupply[r] + shares < MaxSupply
        /\ Cost(With(r, shares)) \in cost..(cost + budget * Scale)
        /\ Cost(With(r, shares + 1)) > cost + budget * Scale

UsdcCost(r, shares) == CeilDiv(Cost(With(r, shares)) - Cost(totalSupply), Scale)

\* What a buyer gets back of the budget, and what the purchase costs in all
Refund(r, usdcIn, shares) == Budget(usdcIn) - UsdcCost(r, shares)
Spent(r, usdcIn, shares) == usdcIn - Refund(r, usdcIn, shares)

\* Mutant of GrossOut: rounded up.
GrossOutUp(r, shares) == CeilDiv(Cost(totalSupply) - Cost(Without(r, shares)), Scale)

GrossOut(r, shares) == (Cost(totalSupply) - Cost(Without(r, shares))) \div Scale
AfterLpFee(r, shares) == GrossOut(r, shares) - Portion(GrossOut(r, shares), FeeBps)
SellFee(r, shares) == Portion(AfterLpFee(r, shares), protocolFeeBps)
Proceeds(r, shares) == AfterLpFee(r, shares) - SellFee(r, shares)

\* getOutstandingWinningClaims, getWithdrawableLiquidity
Claims == IF resolved THEN totalSupply[winningRange] \div Scale ELSE 0

\* Mutant of Reserved: the buffer in place of the claims.
ReservedBuffer == Portion(Claims, claimsBufferBps)

Reserved == Claims + Portion(Claims, claimsBufferBps)
Withdrawable == IF balance > Reserved THEN balance - Reserved ELSE 0

Payout(u) == balanceOf[winningRange][u] \div Scale

---------------------------------------------------------------------------
(* Calls *)

PoolInit ==
    /\ b = 0
    /\ balance = 0
    /\ balanceOf = [r \in Ranges |-> [u \in Users |-> 0]]
    /\ totalSupply = [r \in Ranges |-> 0]
    /\ protocolFeeBps = 0
    /\ claimsBufferBps = 0
    /\ resolved = FALSE
    /\ winningRange \in Ranges        \* index 0, whichever range that is
    /\ drained = FALSE
    /\ record = [created |-> FALSE, resolved |-> FALSE, winner |-> winningRange]

\* createRangeMarket: clone, initialize with the factory's configuration,
\* move the seed, seedLiquidity, register.
CreateRangeMarket(seed, fee, buffer) ==
    /\ ~record.created
    /\ fee <= MaxProtocolFee
    /\ buffer <= MaxClaimsBuffer
    /\ LiquidityParameter(seed) > 0
    /\ b' = LiquidityParameter(seed)
    /\ balance' = balance + seed
    /\ protocolFeeBps' = fee
    /\ claimsBufferBps' = buffer
    /\ record' = [record EXCEPT !.created = TRUE]
    /\ UNCHANGED <<tokens, resolved, winningRange, drained>>

\* _buy: u receives the tokens, the payer is the caller's
PoolBuy(u, r, usdcIn, shares) ==
    /\ b > 0
    /\ ~resolved
    /\ usdcIn > 0
    /\ Budget(usdcIn) > 0
    /\ shares > 0
    /\ IsQuoted(r, shares, Budget(usdcIn))
    /\ balance' = balance + NetIn(usdcIn) - Refund(r, usdcIn, shares)
    /\ balanceOf' = [balanceOf EXCEPT ![r][u] = @ + shares]
    /\ totalSupply' = With(r, shares)
    /\ UNCHANGED <<config, flags>>

\* _sell
PoolSell(u, r, shares) ==
    /\ b > 0
    /\ ~resolved
    /\ shares > 0
    /\ shares <= balanceOf[r][u]
    /\ Cost(totalSupply) >= Cost(Without(r, shares))
    /\ GrossOut(r, shares) > 0
    /\ Proceeds(r, shares) > 0
    /\ AfterLpFee(r, shares) <= balance
    /\ balance' = balance - AfterLpFee(r, shares)
    /\ balanceOf' = [balanceOf EXCEPT ![r][u] = @ - shares]
    /\ totalSupply' = Without(r, shares)
    /\ UNCHANGED <<config, flags>>

\* resolveRangeMarket -> onResolved
ResolveRangeMarket(r) ==
    /\ record.created
    /\ ~record.resolved
    /\ ~resolved
    /\ resolved' = TRUE
    /\ winningRange' = r
    /\ record' = [record EXCEPT !.resolved = TRUE, !.winner = r]
    /\ UNCHANGED <<balance, tokens, config, drained>>

\* redeemRange -> redeemFor
PoolRedeem(u) ==
    /\ record.resolved
    /\ record.winner = winningRange
    /\ Payout(u) > 0
    /\ Payout(u) <= balance
    /\ balance' = balance - Payout(u)
    /\ balanceOf' = [balanceOf EXCEPT ![winningRange][u] = 0]
    /\ totalSupply' = Without(winningRange, balanceOf[winningRange][u])
    /\ UNCHANGED <<config, flags>>

\* drainLiquidity -> withdrawExcessLiquidity; once
DrainLiquidity ==
    /\ record.resolved
    /\ resolved
    /\ ~drained
    /\ balance' = balance - Withdrawable
    /\ drained' = TRUE
    /\ UNCHANGED <<tokens, config, resolved, winningRange, record>>

---------------------------------------------------------------------------
(* Invariants of the pool *)

LedgersAddUp ==
    \A r \in Ranges : /\ IsFiniteSet(UnitsOf(balanceOf[r]))
                      /\ totalSupply[r] = SumOver(balanceOf[r])

\* Factory and pool tell the same story.
RecordsAgree ==
    /\ record.created = (b > 0)
    /\ record.resolved = resolved
    /\ record.winner = winningRange
    /\ resolved => record.created
    /\ ~record.created => totalSupply = [r \in Ranges |-> 0]

\* The LMSR bound: until resolution the pool holds what the cost function says
\* has been paid for the shares outstanding.
CostHeld == record.created /\ ~resolved => Cost(totalSupply) <= balance * Scale

ClaimsHeld == Claims <= balance
===========================================================================
