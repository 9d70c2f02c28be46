------------------------------ MODULE Accounts ------------------------------
(***************************************************************************)
(* The accounts the API gives of the money it moves: a trader's portfolio, *)
(* summary and list of transactions, and the admin's profit of the house   *)
(* and totals.  None of them is stored.  Each is folded, whenever somebody *)
(* asks, from the rows that trades, vault events, fee events and the       *)
(* workers left in the database, so that all of them agree with the chain  *)
(* or with each other only if every row means the same to every reader.    *)
(*                                                                         *)
(* A trade is sent and booked, its fee included, in one step here; what    *)
(* can happen in between is the subject of TradePipeline and RangeTrading. *)
(* Every other event waits in logs until the indexer's handler runs, in    *)
(* any order, and may be handled twice.  A pool's price is any that leaves *)
(* both outcomes covered, which CPMM and RangePool establish.              *)
(***************************************************************************)
EXTENDS Integers, Sequences, FiniteSets, SequencesExt, FiniteSetsExt, Functions

CONSTANTS
    Traders,
    Binary,      \* markets with one position row for both sides (table markets)
    Ranged,      \* markets with a position row per range (table rangeMarkets)
    Sides,       \* "yes" and "no"; of a ranged market, its ranges
    Endowment,   \* what a trader's escrow holds when the tables begin
    Seed,        \* what the treasury puts into each pool
    Bought, Sold, \* what a buy and a sell may be: records [amount, shares]
    Fees,        \* what they may cost
    Buffers,     \* what a drain may leave beside the claims
    Trading,     \* who trades where, to bound the instance
    MaxSent      \* bound on trades, transfers and events handled twice

Markets == Binary \union Ranged
Open == "open"

ASSUME MarketsAssumption ==
    Binary \intersect Ranged = {} /\ Open \notin Sides \union Markets
ASSUME YesAssumption == "yes" \in Sides
ASSUME FiniteAssumption ==
    IsFiniteSet(Traders) /\ IsFiniteSet(Markets) /\ IsFiniteSet(Sides)
ASSUME NumbersAssumption ==
    /\ Endowment \in Nat /\ Seed \in Nat /\ Fees \subseteq Nat /\ Buffers \subseteq Nat
    /\ Bought \union Sold \subseteq [amount : Nat, shares : Nat \ {0}]

VARIABLES
    escrow,      \* chain: USDC in each trader's escrow
    held,        \* chain: outcome tokens, [trader, market, side]
    cash,        \* chain: a pool's collateral, fees not included
    outcome,     \* chain: the side a market was resolved for, or Open
    logs,        \* events no handler has seen
    rows,        \* a trader's rows of trades, range_trades and
                 \* vault_transactions, in the order of their timestamps
    fees,        \* market_fee_events
    balance,     \* user_positions and range_positions, [trader, market, side]
    market,      \* markets and range_markets
    sent         \* how many of those there were

accountsVars ==
    <<escrow, held, cash, outcome, logs, rows, fees, balance, market, sent>>

(* A row of a market: result, and what a drain recorded. *)
Undrained == [result |-> Open, drained |-> FALSE, withdrawn |-> 0, claims |-> 0]

IsTrade(r) == r.kind \in {"buy", "sell"}

Total(rs, kinds) ==
    SumFunction([i \in DOMAIN rs |-> IF rs[i].kind \in kinds THEN rs[i].amount ELSE 0])

-----------------------------------------------------------------------------
(* lib/pnl.ts: trades folded into exposures.  A side keeps a cost exactly  *)
(* as long as it keeps shares, so that shares alone tell who is exposed.   *)

ReduceSide(before, sold) == before - (IF sold < before THEN sold ELSE before)

NoExposure == [shares |-> [s \in Sides |-> 0], cashFlow |-> 0]

AddTrade(exposure, t) ==
    IF t.kind = "buy"
      THEN [shares |-> [exposure.shares EXCEPT ![t.side] = @ + t.shares],
            cashFlow |-> exposure.cashFlow - t.amount]
      ELSE [shares |-> [exposure.shares EXCEPT ![t.side] = ReduceSide(@, t.shares)],
            cashFlow |-> exposure.cashFlow + t.amount]

(* The sides one exposure is kept for. *)
GroupOf(m, s) == IF m \in Binary THEN Sides ELSE {s}
Groups(m) == {GroupOf(m, s) : s \in Sides}

IsTradeOf(r, m, g) == IsTrade(r) /\ r.market = m /\ r.side \in g

FoldTrades(rs, m, g) ==
    FoldLeft(LAMBDA exposure, r :
                 IF IsTradeOf(r, m, g) THEN AddTrade(exposure, r) ELSE exposure,
             NoExposure, rs)

Exposure(u, m, g) == FoldTrades(rows[u], m, g)

HasExposure(exposure) == \E s \in Sides : exposure.shares[s] > 0

SettlementValue(exposure, m) ==
    IF market[m].result = Open THEN 0 ELSE exposure.shares[market[m].result]

\* Mutant of RealisedPnl: traders who sold out count as well.
RealisedPnlAlways(exposure, m) == exposure.cashFlow + SettlementValue(exposure, m)

RealisedPnl(exposure, m) ==
    IF HasExposure(exposure) THEN exposure.cashFlow + SettlementValue(exposure, m) ELSE 0

SumTraderRealisedPnl(m) ==
    SumFunction([u \in Traders |->
        SumFunction([g \in Groups(m) |-> RealisedPnl(Exposure(u, m, g), m)])])

Estimated(m) == -SumTraderRealisedPnl(m)
Final(m) == market[m].withdrawn - Seed

HousePnl(m) ==
    IF market[m].drained /\ market[m].withdrawn > 0 THEN Final(m) ELSE Estimated(m)

-----------------------------------------------------------------------------
(* What a trader is shown. *)

Resolved == {m \in Markets : market[m].result # Open}

(* GET /portfolio/:user/summary, the realised profit. *)
Summary(u) ==
    SumFunction([m \in Resolved |->
        SumFunction([g \in {x \in Groups(m) : HasExposure(Exposure(u, m, x))} |->
            Exposure(u, m, g).cashFlow + SettlementValue(Exposure(u, m, g), m)])])

(* GET /portfolio/:user: a resolved market is shown as it was held, from   *)
(* the trades, newest first; an open one from its position row.            *)
Shown(u, m, g) ==
    IF m \in Resolved THEN FoldTrades(Reverse(rows[u]), m, g).shares ELSE balance[<<u, m>>]

Held(u, m, s) == Shown(u, m, GroupOf(m, s))[s]

Portfolio(u) ==
    {[market |-> key[1], side |-> key[2], shares |-> Held(u, key[1], key[2]),
      redeemed |-> /\ key[1] \in Binary /\ market[key[1]].result = key[2]
                   /\ balance[<<u, key[1]>>][key[2]] = 0] :
        key \in {k \in Markets \X Sides : Held(u, k[1], k[2]) > 0}}

(* The portfolio page offers to redeem a position of the winning side. *)
RedeemOffered(p) == market[p.market].result = p.side /\ ~p.redeemed /\ p.shares > 0

(* The page of a ranged market looks at the position row of the winner. *)
RangeRedeemOffered(u, m) ==
    m \in Resolved /\ balance[<<u, m>>][market[m].result] > 0

(* GET /trading/transactions/:wallet.  A redemption row names no market:   *)
(* each, newest first, is given the oldest market, not given before, whose *)
(* trades leave the trader with the same amount of the winning side.       *)
(* Amounts count in steps of more than the cent the code overlooks, and a  *)
(* list is shorter than the 200 rows at which the queries stop.            *)
NetOf(rs, m, s) ==
    SumFunction([i \in DOMAIN rs |->
        IF ~IsTradeOf(rs[i], m, {s}) THEN 0
        ELSE IF rs[i].kind = "buy" THEN rs[i].shares ELSE -rs[i].shares])

NetShares(u, m) == NetOf(rows[u], m, market[m].result)

Contexts(u) == {m \in Resolved : NetShares(u, m) > 0}

(* Of a ranged market, only trades in the range that won are looked at. *)
LastTrade(u, m) ==
    Max({i \in DOMAIN rows[u] : IsTradeOf(rows[u][i], m, GroupOf(m, market[m].result))})

\* Mutant of NextContexts: a market can be given twice.
NextContextsReused(u, amount, used) == {m \in Contexts(u) : NetShares(u, m) = amount}

NextContexts(u, amount, used) == {m \in Contexts(u) \ used : NetShares(u, m) = amount}

Oldest(u, fit) == CHOOSE m \in fit : \A k \in fit : LastTrade(u, m) <= LastTrade(u, k)

NameRedemption(u, acc, r) ==
    LET fit == NextContexts(u, r.amount, acc.used)
    IN  IF fit = {}
          THEN [acc EXCEPT !.named = Append(@, Open)]
          ELSE [used |-> acc.used \union {Oldest(u, fit)},
                named |-> Append(acc.named, Oldest(u, fit))]

(* The markets the redemptions of u are shown with, newest first. *)
Redemptions(u) ==
    FoldLeft(LAMBDA acc, r : IF r.kind = "redemption" THEN NameRedemption(u, acc, r) ELSE acc,
             [used |-> {}, named |-> <<>>], Reverse(rows[u])).named

(* The list's rows of one trader, as they change the trader's balance. *)
Ledger(u) ==
    Total(rows[u], {"deposit", "redemption", "sell"}) - Total(rows[u], {"withdraw", "buy"})

-----------------------------------------------------------------------------
(* What the admin is shown.  A market's holders and open interest come     *)
(* from the position rows.                                                 *)
OfMarket(u, m) == SumFunction(balance[<<u, m>>])

Holdings(m) ==
    [holderCount |-> Cardinality({u \in Traders : OfMarket(u, m) > 0}),
     openInterest |-> SumFunction([u \in Traders |-> OfMarket(u, m)]),
     largest |-> Max({OfMarket(u, m) : u \in Traders})]

(* GET /admin/markets/:family/:marketId/holders *)
Holders(m) ==
    IF m \in Binary
      THEN {[user |-> u, shares |-> OfMarket(u, m)] :
               u \in {x \in Traders : OfMarket(x, m) > 0}}
      ELSE {[user |-> k[1], side |-> k[2], shares |-> balance[<<k[1], m>>][k[2]]] :
               k \in {x \in Traders \X Sides : balance[<<x[1], m>>][x[2]] > 0}}

(* GET /admin/markets/:family/:marketId/trades *)
MarketTrades(m) ==
    UNION {{<<u, i>> : i \in {x \in DOMAIN rows[u] :
        IsTrade(rows[u][x]) /\ rows[u][x].market = m}} : u \in Traders}

Volume(ts) == SumFunction([t \in ts |-> rows[t[1]][t[2]].amount])

(* The pool of an open market is at risk, of a resolved one what a drain   *)
(* left for its winners, which the drain records twice (reservedClaims and *)
(* outstandingWinningClaims).                                              *)
AtRisk(m) == IF m \in Resolved THEN 2 * market[m].claims ELSE Seed

(* A market in the admin's list. *)
MarketRow(m) ==
    [trades |-> Cardinality(MarketTrades(m)), volume |-> Volume(MarketTrades(m)),
     housePnl |-> IF m \in Resolved THEN HousePnl(m) ELSE 0, atRisk |-> AtRisk(m),
     withdrawn |-> market[m].withdrawn, holdings |-> Holdings(m)]

MarketList == [m \in Markets |-> MarketRow(m)]

(* GET /admin/users: trades in ranged markets do not count. *)
UserRow(u) ==
    LET own == {t \in UNION {MarketTrades(m) : m \in Binary} : t[1] = u}
    IN  [tradeCount |-> Cardinality(own), totalVolume |-> Volume(own)]

(* GET /admin/users/:id/holdings, the vault's part. *)
UserHoldings(u) ==
    [netDeposits |-> Total(rows[u], {"deposit"}) - Total(rows[u], {"withdraw"}),
     totalRedemptions |-> Total(rows[u], {"redemption"})]

(* The collateral of the pools, from the chain or, where a read failed,    *)
(* from the rows.                                                          *)
CurrentLiquidity(failed) ==
    SumFunction([m \in Markets |-> IF m \in failed THEN AtRisk(m) ELSE cash[m]])

(* What the admin's overview adds up. *)
AllUsers(kind) == SumFunction([u \in Traders |-> Total(rows[u], {kind})])

Overview ==
    [tvl |-> AllUsers("deposit") - AllUsers("withdraw"),
     totalRedemptions |-> AllUsers("redemption"),
     startingLiquidity |-> Seed * Cardinality(Markets),
     liquidityWithdrawn |-> SumFunction([m \in Markets |-> market[m].withdrawn]),
     liquidityAtRisk |-> Seed * Cardinality(Markets \ Resolved)
                           + 2 * SumFunction([m \in Markets |-> market[m].claims]),
     totalFees |-> SumFunction([fee \in fees |-> fee.amount]),
     totalTrades |-> SumFunction([u \in Traders |->
                         Cardinality({i \in DOMAIN rows[u] : IsTrade(rows[u][i])})]),
     currentLiquidity |-> CurrentLiquidity({}),
     housePnl |-> SumFunction([m \in Resolved |-> HousePnl(m)])]

-----------------------------------------------------------------------------
AccountsInit ==
    /\ escrow = [u \in Traders |-> Endowment]
    /\ held = [k \in Traders \X Markets |-> [s \in Sides |-> 0]]
    /\ cash = [m \in Markets |-> Seed]
    /\ outcome = [m \in Markets |-> Open]
    /\ logs = {}
    /\ rows = [u \in Traders |-> <<>>]
    /\ balance = held
    /\ market = [m \in Markets |-> Undrained]
    /\ fees = {}
    /\ sent = 0

Row(kind, m, s, n, a) ==
    [kind |-> kind, market |-> m, side |-> s, shares |-> n, amount |-> a]

Outstanding(h, m, s) == SumFunction([u \in Traders |-> h[<<u, m>>][s]])
Covered(h, m, c) == \A s \in Sides : Outstanding(h, m, s) <= c

(* The fee of a trade, once its event is handled. *)
FeeCollected(m, f) ==
    fees' = fees \union {[market |-> m, amount |-> a, tx |-> sent] : a \in {f} \ {0}}

(* An event; tx tells transactions of one kind apart. *)
Log(kind, u, m, a) ==
    [kind |-> kind, user |-> u, market |-> m, amount |-> a, tx |-> sent]
Emit(kind, u, m, a) == logs' = logs \union {Log(kind, u, m, a)}

(* A buy or a sell that was mined and booked. *)
Trade(u, m, s, kind, q, f) ==
    LET shares == IF kind = "buy" THEN q.shares ELSE -q.shares
        amount == IF kind = "buy" THEN q.amount ELSE -q.amount
    IN  /\ sent < MaxSent
        /\ outcome[m] = Open
        /\ escrow[u] - amount >= 0 /\ held[<<u, m>>][s] + shares >= 0
        /\ held' = [held EXCEPT ![<<u, m>>][s] = @ + shares]
        /\ cash' = [cash EXCEPT ![m] = @ + amount - f]
        /\ Covered(held', m, cash'[m])
        /\ escrow' = [escrow EXCEPT ![u] = @ - amount]
        /\ rows' = [rows EXCEPT ![u] = Append(@, Row(kind, m, s, q.shares, q.amount))]
        /\ balance' = [balance EXCEPT ![<<u, m>>][s] = @ + shares]
        /\ FeeCollected(m, f)
        /\ sent' = sent + 1
        /\ UNCHANGED <<outcome, logs, market>>

Buy(u, m, s, q, f) == Trade(u, m, s, "buy", q, f)
Sell(u, m, s, q, f) == Trade(u, m, s, "sell", q, f)

DepositUsdc(u) ==
    /\ sent < MaxSent
    /\ escrow' = [escrow EXCEPT ![u] = @ + 1]
    /\ Emit("deposit", u, Open, 1)
    /\ sent' = sent + 1
    /\ UNCHANGED <<held, cash, outcome, rows, fees, balance, market>>

WithdrawUsdc(u) ==
    /\ sent < MaxSent /\ escrow[u] > 0
    /\ escrow' = [escrow EXCEPT ![u] = 0]
    /\ Emit("withdraw", u, Open, escrow[u])
    /\ sent' = sent + 1
    /\ UNCHANGED <<held, cash, outcome, rows, fees, balance, market>>

Resolve(m, s) ==
    /\ outcome[m] = Open
    /\ outcome' = [outcome EXCEPT ![m] = s]
    /\ Emit("resolved", "house", m, 0)
    /\ UNCHANGED <<escrow, held, cash, rows, fees, balance, market, sent>>

(* A winner redeems at the factory; the pool pays into the escrow. *)
Redeem(u, m) ==
    /\ outcome[m] # Open
    /\ LET won == held[<<u, m>>][outcome[m]]
       IN  /\ won > 0
           /\ held' = [held EXCEPT ![<<u, m>>][outcome[m]] = 0]
           /\ cash' = [cash EXCEPT ![m] = @ - won]
           /\ escrow' = [escrow EXCEPT ![u] = @ + won]
           /\ Emit("redemption", u, m, won)
    /\ UNCHANGED <<outcome, rows, fees, balance, market, sent>>

-----------------------------------------------------------------------------
(* The handlers.  Every process that runs the indexer handles every event. *)

\* Mutant of Insert: the hash is not looked at.
InsertAgain(log) == rows' = [rows EXCEPT ![log.user] = Append(@, log)]

(* vault_transactions has one row for a hash. *)
Insert(log) ==
    rows' = [rows EXCEPT ![log.user] =
                 IF \E i \in DOMAIN @ : @[i] = log THEN @ ELSE Append(@, log)]

HandleTransfer(log) ==
    /\ log.kind \in {"deposit", "withdraw"}
    /\ Insert(log)
    /\ UNCHANGED <<fees, balance, market>>

HandleResolved(log) ==
    /\ log.kind = "resolved"
    /\ market' = [market EXCEPT ![log.market].result = outcome[log.market]]
    /\ UNCHANGED <<rows, fees, balance>>

(* The winner's balance goes to zero; the row may not know the winner yet. *)
Zeroed(m) ==
    IF market[m].result = "yes" THEN {"yes"}
    ELSE IF m \in Binary THEN Sides \ {"yes"} ELSE {market[m].result}

\* Mutant of HandleRedeemed: everybody's balance goes to zero.
HandleRedeemedForAll(log) ==
    /\ log.kind = "redemption" /\ log.market \in Binary
    /\ Insert(log)
    /\ balance' = [k \in Traders \X Markets |-> [s \in Sides |->
           IF k[2] = log.market /\ s \in Zeroed(k[2]) THEN 0 ELSE balance[k][s]]]
    /\ UNCHANGED <<fees, market>>

HandleRedeemed(log) ==
    /\ log.kind = "redemption" /\ log.market \in Binary
    /\ Insert(log)
    /\ balance' = [balance EXCEPT ![<<log.user, log.market>>] =
                       [s \in Sides |-> IF s \in Zeroed(log.market) THEN 0 ELSE @[s]]]
    /\ UNCHANGED <<fees, market>>

(* The page posts a range redemption once it is mined. *)
RecordRangeRedemption(log) ==
    /\ log.kind = "redemption" /\ log.market \in Ranged \intersect Resolved
    /\ Insert(log)
    /\ balance' = [balance EXCEPT ![<<log.user, log.market>>] =
                       [s \in Sides |-> IF s \in Zeroed(log.market) THEN 0 ELSE @[s]]]
    /\ UNCHANGED <<fees, market>>

Handle(log) ==
    /\ \/ logs' = logs \ {log} /\ UNCHANGED sent
       \/ /\ sent < MaxSent
          /\ sent' = sent + 1
          /\ UNCHANGED logs
    /\ \/ HandleTransfer(log) \/ HandleResolved(log)
       \/ HandleRedeemed(log) \/ RecordRangeRedemption(log)
    /\ UNCHANGED <<escrow, held, cash, outcome>>

(* The drain worker; its steps are those of MarketLifecycle. *)
Drain(m, buffer) ==
    LET claims == Outstanding(held, m, outcome[m])
        withdrawable == cash[m] - claims - buffer
    IN  /\ m \in Resolved /\ ~market[m].drained
        /\ withdrawable > 0
        /\ cash' = [cash EXCEPT ![m] = @ - withdrawable]
        /\ market' = [market EXCEPT ![m] = [@ EXCEPT !.drained = TRUE,
                         !.withdrawn = withdrawable, !.claims = claims]]
        /\ UNCHANGED <<escrow, held, outcome, logs, rows, fees, balance, sent>>

TraderStep ==
    \E u \in Traders :
        \/ \E m \in Markets : Redeem(u, m)
        \/ \E m \in {x \in Markets : <<u, x>> \in Trading}, s \in Sides, f \in Fees :
               \/ \E q \in Bought : Buy(u, m, s, q, f)
               \/ \E q \in Sold : Sell(u, m, s, q, f)
        \/ DepositUsdc(u) \/ WithdrawUsdc(u)

AccountsNext ==
    \/ TraderStep
    \/ \E m \in Markets, s \in Sides : Resolve(m, s)
    \/ \E m \in Markets, b \in Buffers : Drain(m, b)
    \/ \E log \in logs : Handle(log)

AccountsSpec == AccountsInit /\ [][AccountsNext]_accountsVars

-----------------------------------------------------------------------------
(* The tables hold what they are declared to hold: no balance, and nothing *)
(* a drain recorded, is negative.                                          *)
TypeOK ==
    /\ escrow \in [Traders -> Nat] /\ cash \in [Markets -> Nat]
    /\ held \in [Traders \X Markets -> [Sides -> Nat]]
    /\ balance \in [Traders \X Markets -> [Sides -> Nat]]
    /\ outcome \in [Markets -> Sides \union {Open}]
    /\ market \in [Markets -> [result : Sides \union {Open}, drained : BOOLEAN,
                                withdrawn : Nat, claims : Nat]]

(* The profit of the house estimated from the trades of a resolved market  *)
(* and the one the drain establishes differ by the fees, by what the drain *)
(* left in the pool and by what traders without a remaining position made  *)
(* or lost, and by nothing else.                                           *)
FeesOf(m) == SumFunction([fee \in {x \in fees : x.market = m} |-> fee.amount])
LeftIn(m) == cash[m] - Outstanding(held, m, outcome[m])
MadeByExited(m) ==
    SumFunction([u \in Traders |->
        SumFunction([g \in {x \in Groups(m) : ~HasExposure(Exposure(u, m, x))} |->
            Exposure(u, m, g).cashFlow])])

HouseAddsUp ==
    logs = {} =>
        \A m \in Resolved : market[m].drained =>
            Estimated(m) - Final(m) = FeesOf(m) + LeftIn(m) + MadeByExited(m)

(* Once every event is handled, a trader's list of transactions sums up to *)
(* what the trader's escrow holds; traders' summaries to the estimates of  *)
(* the house; the overview's totals to the money there is; the admin's     *)
(* lists of markets and users to the overview; and the holders of an open  *)
(* market are those its trades leave exposed.                              *)
LedgersSettle == \A u \in Traders : Endowment + Ledger(u) = escrow[u]

SummariesSettle ==
    SumFunction([u \in Traders |-> Summary(u)]) =
        -SumFunction([m \in Resolved |-> Estimated(m)])

TotalsSettle ==
    Endowment * Cardinality(Traders) + Overview.tvl + Overview.startingLiquidity =
        SumFunction(escrow) + Overview.currentLiquidity
          + Overview.liquidityWithdrawn + Overview.totalFees

ListsAgree ==
    /\ SumFunction([m \in Markets |-> MarketList[m].housePnl]) = Overview.housePnl
    /\ SumFunction([m \in Markets |-> MarketList[m].atRisk]) = Overview.liquidityAtRisk
    /\ SumFunction([m \in Markets |-> MarketList[m].trades]) = Overview.totalTrades
    /\ SumFunction([m \in Binary |-> MarketList[m].volume]) =
           SumFunction([u \in Traders |-> UserRow(u).totalVolume])
    /\ SumFunction([u \in Traders |-> UserHoldings(u).netDeposits]) = Overview.tvl

HoldersExposed ==
    \A m \in Markets \ Resolved :
        LET exposed == {u \in Traders : \E g \in Groups(m) : HasExposure(Exposure(u, m, g))}
        IN  /\ {h.user : h \in Holders(m)} = exposed
            /\ Holdings(m).holderCount = Cardinality(exposed)
            /\ Holdings(m).openInterest =
                   SumFunction([s \in Sides |-> Outstanding(held, m, s)])

BooksBalance ==
    /\ TypeOK
    /\ logs = {} =>
          /\ LedgersSettle
          /\ SummariesSettle
          /\ TotalsSettle
          /\ ListsAgree
          /\ HoldersExposed

(* Once every event is handled, every redemption in a trader's list is     *)
(* shown with a market, and no two with the same.                          *)
RedemptionsNamed ==
    logs = {} =>
        \A u \in Traders :
            LET named == Redemptions(u)
            IN  \A i, j \in DOMAIN named :
                    named[i] # Open /\ (named[i] = named[j] => i = j)

(* What a trader has still to redeem in a market known to be resolved is   *)
(* on the portfolio in full with the offer to redeem it, whatever was      *)
(* handled in whatever order, and offered on a range market's own page.    *)
WinningsShown ==
    \A u \in Traders, m \in Resolved :
        LET won == held[<<u, m>>][outcome[m]]
        IN  won > 0 =>
                /\ balance[<<u, m>>][outcome[m]] >= won
                /\ m \in Ranged => RangeRedeemOffered(u, m)
                /\ \E p \in Portfolio(u) :
                       p.market = m /\ p.shares >= won /\ RedeemOffered(p)
=============================================================================
