------------------------------- MODULE Vault -------------------------------
(***************************************************************************)
(* Custody: the router (Vault.sol), the escrow of each user                *)
(* (UserEscrow.sol), the adapter and registry it asks (RangeLMSRAdapter.   *)
(* sol, PoolRegistry.sol), and a range market in which users trade from    *)
(* their own wallets and through the vault (RangePool.tla).                *)
(*                                                                         *)
(* The operator trades for a user, the admin sets, authorizes and refunds, *)
(* anybody may send USDC to an escrow's address, which is known before the *)
(* escrow exists.                                                          *)
(***************************************************************************)
EXTENDS RangePool, Sequences

CONSTANTS
    Endowment,          \* [Users -> Nat], USDC in each wallet at the start
    Amounts,            \* USDC amounts of a deposit, a trade or a withdrawal
    ShareAmounts,       \* share amounts of a sell
    ProtocolFees,       \* fees and claims buffers a market may be created with
    ClaimsBuffers,
    VaultKnown,         \* whether the factory has the vault when it creates a market
    MaxDonations        \* bound on USDC sent to escrows past the vault

ASSUME VaultAssumption ==
    /\ Endowment \in [Users -> Nat]
    /\ Amounts \subseteq Nat
    /\ ShareAmounts \subseteq Nat
    /\ ProtocolFees \subseteq Nat
    /\ ClaimsBuffers \subseteq Nat
    /\ VaultKnown \subseteq BOOLEAN
    /\ MaxDonations \in Nat

VARIABLES
    wallet,             \* [Users -> Nat], USDC of each user's own account
    escrow,             \* [Users -> Nat], USDC at each user's escrow address
    depositors,         \* users with an escrow, in the order they came
    totalVaultBalance,
    emergencyRefundMode,
    adapterAuthorized, poolRegistered,
    poolVaultSet,       \* the pool knows the vault (setVault at its creation)
    donated,            \* history: USDC that reached escrows past the vault
    refunded            \* history: users refunded since the mode was entered,
                        \* and not sent anything since

funds == <<wallet, escrow>>
books == <<depositors, totalVaultBalance>>
switches == <<emergencyRefundMode, adapterAuthorized, poolRegistered, poolVaultSet>>
history == <<donated, refunded>>
vars == <<poolVars, funds, books, switches, history>>

HasEscrow(u) == \E i \in DOMAIN depositors : depositors[i] = u

TypeOK ==
    /\ PoolTypeOK
    /\ wallet \in [Users -> Nat]
    /\ escrow \in [Users -> Nat]
    /\ depositors \in Seq(Users)
    /\ \A i, j \in DOMAIN depositors : depositors[i] = depositors[j] => i = j
    /\ totalVaultBalance \in Nat
    /\ emergencyRefundMode \in BOOLEAN
    /\ adapterAuthorized \in BOOLEAN
    /\ poolRegistered \in BOOLEAN
    /\ poolVaultSet \in BOOLEAN
    /\ donated \in Nat
    /\ refunded \subseteq Users

Init ==
    /\ PoolInit
    /\ wallet = Endowment
    /\ escrow = [u \in Users |-> 0]
    /\ depositors = <<>>
    /\ totalVaultBalance = 0
    /\ emergencyRefundMode = FALSE
    /\ adapterAuthorized = FALSE
    /\ poolRegistered = FALSE
    /\ poolVaultSet = FALSE
    /\ donated = 0
    /\ refunded = {}

---------------------------------------------------------------------------
(* The aggregate *)

\* _debitTotalVaultBalance
Debited(total, amount) == IF total >= amount THEN total - amount ELSE 0

\* Mutant of Synced: only what leaves an escrow is followed.
SyncedDebits(before, after) ==
    IF after >= before THEN totalVaultBalance
                       ELSE Debited(totalVaultBalance, before - after)

\* _syncTotalVaultBalance
Synced(before, after) ==
    IF after >= before THEN totalVaultBalance + (after - before)
                       ELSE Debited(totalVaultBalance, before - after)

---------------------------------------------------------------------------
(* Users *)

\* deposit creates the escrow the first time.
Deposit(u, amount) ==
    /\ ~emergencyRefundMode
    /\ amount > 0
    /\ amount <= wallet[u]
    /\ wallet' = [wallet EXCEPT ![u] = @ - amount]
    /\ escrow' = [escrow EXCEPT ![u] = @ + amount]
    /\ depositors' = IF HasEscrow(u) THEN depositors ELSE Append(depositors, u)
    /\ totalVaultBalance' = totalVaultBalance + amount
    /\ UNCHANGED <<poolVars, switches, history>>

\* Mutant of Withdraw: the escrow pays its caller, the router.
WithdrawToRouter(u, amount) ==
    /\ HasEscrow(u)
    /\ amount > 0
    /\ amount <= escrow[u]
    /\ escrow' = [escrow EXCEPT ![u] = @ - amount]
    /\ totalVaultBalance' = Debited(totalVaultBalance, amount)
    /\ UNCHANGED <<poolVars, wallet, depositors, switches, history>>

\* withdraw -> UserEscrow.withdraw; in emergency mode too
Withdraw(u, amount) ==
    /\ HasEscrow(u)
    /\ amount > 0
    /\ amount <= escrow[u]
    /\ wallet' = [wallet EXCEPT ![u] = @ + amount]
    /\ escrow' = [escrow EXCEPT ![u] = @ - amount]
    /\ totalVaultBalance' = Debited(totalVaultBalance, amount)
    /\ UNCHANGED <<poolVars, depositors, switches, history>>

\* A plain USDC transfer to an escrow's address.
Donate(u, amount) ==
    /\ donated + amount <= MaxDonations
    /\ amount <= wallet[u]
    /\ wallet' = [wallet EXCEPT ![u] = @ - amount]
    /\ escrow' = [escrow EXCEPT ![u] = @ + amount]
    /\ donated' = donated + amount
    /\ refunded' = refunded \ {u}
    /\ UNCHANGED <<poolVars, books, switches>>

\* buy, sell: a user's own transactions, past the vault
DirectBuy(u, r, usdcIn, shares) ==
    /\ usdcIn <= wallet[u]
    /\ PoolBuy(u, r, usdcIn, shares)
    /\ wallet' = [wallet EXCEPT ![u] = @ - Spent(r, usdcIn, shares)]
    /\ UNCHANGED <<escrow, books, switches, history>>

DirectSell(u, r, shares) ==
    /\ PoolSell(u, r, shares)
    /\ wallet' = [wallet EXCEPT ![u] = @ + Proceeds(r, shares)]
    /\ UNCHANGED <<escrow, books, switches, history>>

\* The payout goes to the user's escrow, with recordEscrowCredit, if the pool
\* knows the vault and the user has one; to the user otherwise.
RedeemTo(u) ==
    IF poolVaultSet /\ HasEscrow(u)
        THEN /\ ~emergencyRefundMode
             /\ poolRegistered
             /\ escrow' = [escrow EXCEPT ![u] = @ + Payout(u)]
             /\ totalVaultBalance' = totalVaultBalance + Payout(u)
             /\ UNCHANGED <<wallet, depositors>>
        ELSE /\ wallet' = [wallet EXCEPT ![u] = @ + Payout(u)]
             /\ UNCHANGED <<escrow, books>>

Redeem(u) == PoolRedeem(u) /\ RedeemTo(u) /\ UNCHANGED <<switches, history>>

---------------------------------------------------------------------------
(* The operator: executeTrade -> buildTrade, executeCall *)

MayTrade(u) ==
    /\ ~emergencyRefundMode
    /\ adapterAuthorized
    /\ poolRegistered
    /\ HasEscrow(u)

VaultBuy(u, r, usdcIn, shares) ==
    /\ MayTrade(u)
    /\ usdcIn <= escrow[u]
    /\ PoolBuy(u, r, usdcIn, shares)
    /\ escrow' = [escrow EXCEPT ![u] = @ - Spent(r, usdcIn, shares)]
    /\ totalVaultBalance' = Synced(escrow[u], escrow'[u])
    /\ UNCHANGED <<wallet, depositors, switches, history>>

VaultSell(u, r, shares) ==
    /\ MayTrade(u)
    /\ PoolSell(u, r, shares)
    /\ escrow' = [escrow EXCEPT ![u] = @ + Proceeds(r, shares)]
    /\ totalVaultBalance' = Synced(escrow[u], escrow'[u])
    /\ UNCHANGED <<wallet, depositors, switches, history>>

---------------------------------------------------------------------------
(* The admin *)

\* createRangeMarket of a factory that has the vault, or has none yet
CreateMarket(seed, fee, buffer, withVault) ==
    /\ CreateRangeMarket(seed, fee, buffer)
    /\ poolVaultSet' = withVault
    /\ UNCHANGED <<funds, books, emergencyRefundMode, adapterAuthorized,
                   poolRegistered, history>>

Resolve(r) == ResolveRangeMarket(r) /\ UNCHANGED <<funds, books, switches, history>>
Drain == DrainLiquidity /\ UNCHANGED <<funds, books, switches, history>>

\* setAdapter; setFactory and setDirectPool of the registry, setPoolRegistry
SetAdapter(authorized) ==
    /\ adapterAuthorized' = authorized
    /\ UNCHANGED <<poolVars, funds, books, emergencyRefundMode, poolRegistered,
                   poolVaultSet, history>>

SetRegistered(registered) ==
    /\ record.created
    /\ poolRegistered' = registered
    /\ UNCHANGED <<poolVars, funds, books, emergencyRefundMode,
                   adapterAuthorized, poolVaultSet, history>>

SetEmergencyRefundMode(enabled) ==
    /\ emergencyRefundMode' = enabled
    /\ refunded' = IF enabled THEN refunded ELSE {}
    /\ UNCHANGED <<poolVars, funds, books, adapterAuthorized, poolRegistered,
                   poolVaultSet, donated>>

\* Mutant of Batch: the end is taken for the last index.
BatchShort(start, count) ==
    {depositors[i] : i \in {j \in DOMAIN depositors : start < j /\ j < start + count}}

\* depositors[start .. start + count - 1], as far as there are any
Batch(start, count) ==
    {depositors[i] : i \in {j \in DOMAIN depositors : start < j /\ j <= start + count}}

\* emergencyRefund: a batch, one escrow after the other; each debit clamps on
\* its own, and so does their sum.
EmergencyRefund(start, count) ==
    LET paid == SumOver([u \in Batch(start, count) |-> escrow[u]])
    IN  /\ emergencyRefundMode
        /\ start < Len(depositors)
        /\ wallet' = [u \in Users |->
                IF u \in Batch(start, count) THEN wallet[u] + escrow[u] ELSE wallet[u]]
        /\ escrow' = [u \in Users |-> IF u \in Batch(start, count) THEN 0 ELSE escrow[u]]
        /\ totalVaultBalance' = Debited(totalVaultBalance, paid)
        /\ refunded' = refunded \cup
               {depositors[i] : i \in {j \in DOMAIN depositors :
                                           start < j /\ j <= start + count}}
        /\ UNCHANGED <<poolVars, depositors, switches, donated>>

---------------------------------------------------------------------------

UserStep(u) ==
    \/ \E amount \in Amounts :
          Deposit(u, amount) \/ Withdraw(u, amount) \/ Donate(u, amount)
    \/ \E r \in Ranges, shares \in ShareAmounts : DirectSell(u, r, shares)
    \/ Redeem(u)

OperatorStep(u) ==
    \E r \in Ranges, shares \in ShareAmounts : VaultSell(u, r, shares)

\* What the pool sells to somebody who can pay for it: range, USDC, shares
Purchases ==
    {p \in Ranges \X Amounts \X (1..MaxSupply) :
        /\ b > 0 /\ ~resolved
        /\ \E u \in Users : p[2] <= wallet[u] \/ (p[2] <= escrow[u] /\ MayTrade(u))
        /\ IsQuoted(p[1], p[3], Budget(p[2]))}

BuyStep ==
    \E p \in Purchases, u \in Users :
        DirectBuy(u, p[1], p[2], p[3]) \/ VaultBuy(u, p[1], p[2], p[3])

AdminStep ==
    \/ \E seed \in Seeds, fee \in ProtocolFees, buffer \in ClaimsBuffers,
          withVault \in VaultKnown : CreateMarket(seed, fee, buffer, withVault)
    \/ \E r \in Ranges : Resolve(r)
    \/ Drain
    \/ SetAdapter(~adapterAuthorized)
    \/ SetRegistered(~poolRegistered)
    \/ SetEmergencyRefundMode(~emergencyRefundMode)
    \/ \E start \in 0..Cardinality(Users), count \in 1..Cardinality(Users) :
          EmergencyRefund(start, count)

Next ==
    \/ \E u \in Users : UserStep(u) \/ OperatorStep(u)
    \/ BuyStep
    \/ AdminStep

Spec == Init /\ [][Next]_vars

---------------------------------------------------------------------------
(* Properties *)

\* Whatever was traded, from wallets or through the vault, the pool holds what
\* the LMSR cost function has charged for the outstanding shares.
SolvencyInv ==
    TypeOK /\ LedgersAddUp /\ RecordsAgree /\ CostHeld /\ ClaimsHeld

\* The range market implements a market that pays its winners in full, out of
\* a pot that trades keep covered, whichever range wins, and the drain leaves
\* covered, in whatever order it and the redemptions come.
Promise == INSTANCE OutcomeMarket WITH
    Holders <- Users,
    Outcomes <- Ranges,
    possible <- IF resolved THEN {winningRange} ELSE Ranges,
    held <- [r \in Ranges |-> [u \in Users |-> balanceOf[r][u] \div Scale]],
    pot <- balance

KeepsPromise == Promise!Spec

\* totalVaultBalance follows the escrows through deposits, refunds of a trade's
\* dust, redemptions paid by a pool and batches of refunds: it never claims
\* more than the escrows hold, and misses at most what went past the vault.
EscrowsTracked ==
    /\ totalVaultBalance <= SumOver(escrow)
    /\ SumOver(escrow) <= totalVaultBalance + donated

\* While refunds are being processed nothing comes back: a depositor covered by
\* a batch has an empty escrow until the mode ends or somebody sends it USDC.
RefundsComplete ==
    emergencyRefundMode => \A u \in refunded : escrow[u] = 0

\* USDC in a user's escrow leaves it to the same user's wallet, or as the price
\* of a trade made for that user; never together with another user's, but in a
\* batch of refunds, which pays each his own.
Segregated ==
    [][\A u \in Users :
          escrow'[u] < escrow[u] =>
              \/ wallet'[u] - wallet[u] = escrow[u] - escrow'[u]
              \/ /\ wallet' = wallet
                 /\ \A v \in Users \ {u} : escrow'[v] = escrow[v]
                 /\ \E r \in Ranges : balanceOf'[r][u] > balanceOf[r][u]]_vars

===========================================================================
