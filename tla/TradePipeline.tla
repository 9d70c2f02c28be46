--------------------------- MODULE TradePipeline ---------------------------
(***************************************************************************)
(* A signed intent on its way to a booked trade: the routes /buy and /sell *)
(* (routes/trading.ts), the operator's transaction on the chain, the two   *)
(* bookings of its fill (processTradeFill of services/indexer.ts, called   *)
(* by the route and by the event watcher), and the position reconciler.    *)
(*                                                                         *)
(* One API process, one market, one trader and one side of the market.  A  *)
(* row of user_positions is read and written as a whole, so the balance of *)
(* one side stands for the row.  A step is what happens between two awaits *)
(* that other actors can see.                                              *)
(***************************************************************************)
EXTENDS Integers, Sequences, FiniteSets, HolderSums

CONSTANTS
    Intents,            \* signed intents, each with its own intent nonce
    Order,              \* what each intent asks for
    Requests,           \* HTTP requests
    Healers,            \* runs of the reconciler: its timer's ("tick"), and the
                        \* portfolio page's ("demand")
    Endowment,          \* USDC in the trader's escrow at the start
    MaxFaults,          \* bound on failed calls and lost answers
    MaxCrashes          \* bound on restarts of the process

Orders == [isBuy: BOOLEAN, shares: Nat, collateral: Nat]

ASSUME OrderAssumption ==
    /\ Order \in [Intents -> Orders]
    /\ IsFiniteSet(Requests)
    /\ Healers \subseteq {"tick", "demand"}
ASSUME BoundAssumption ==
    Endowment \in Nat /\ MaxFaults \in Nat /\ MaxCrashes \in Nat

VARIABLES
    carries,            \* the intent each request carries, repetitions included
    key,                \* Redis: the intent nonces in use
    pc, hash,           \* each request: where it is, its transaction
    txs,                \* the operator's transactions, in nonce order
    usdc, held,         \* the chain: the trader's USDC and shares
    trades,             \* Postgres: transactions with a row in trades
    volume,             \* Postgres: volume of the market's row
    row,                \* Postgres: the trader's row in user_positions
    watched,            \* transactions the watcher's filter has gone past
    fills,              \* each run of processTradeFill
    heals,              \* each run of the reconciler
    faults, crashes     \* counters for the bounds

chain == <<txs, usdc, held>>
db == <<trades, volume, row>>
vars == <<carries, key, pc, hash, chain, db, watched, fills, heals, faults, crashes>>

NoTx == 0
NoRow == -1
TxIds == 1..Cardinality(Requests)
FillIds == {"route", "watcher"} \X TxIds

Row == Nat \cup {NoRow}
Tx == [intent: Intents, status: {"pending", "success", "reverted"}]
RequestPlaces == {"new", "preflight", "send", "receipt", "booking", "release",
                  "success", "failed", "unanswered"}
Fill == [at: {"none", "market", "insert", "volume", "position", "write",
              "booked", "threw"},
         volume: Nat, row: Row]
Heal == [at: {"idle", "chain", "apply"}, row: Row, held: Nat]

TypeOK ==
    /\ carries \in [Requests -> Intents]
    /\ key \in [Intents -> BOOLEAN]
    /\ pc \in [Requests -> RequestPlaces]
    /\ hash \in [Requests -> TxIds \cup {NoTx}]
    /\ txs \in Seq(Tx) /\ Len(txs) <= Cardinality(Requests)
    /\ usdc \in Nat
    /\ held \in Nat
    /\ trades \subseteq TxIds
    /\ volume \in Nat
    /\ row \in Row
    /\ watched \in 0..Len(txs)
    /\ fills \in [FillIds -> Fill]
    /\ heals \in [Healers -> Heal]
    /\ faults \in 0..MaxFaults
    /\ crashes \in 0..MaxCrashes

---------------------------------------------------------------------------
(* Helpers *)

OrderOf(t) == Order[txs[t].intent]
Pending == \E t \in DOMAIN txs : txs[t].status = "pending"
Executed == {t \in DOMAIN txs : txs[t].status = "success"}

Working(r) == pc[r] \in {"preflight", "send", "receipt", "booking", "release"}
Running(f) == fills[f].at \in {"market", "insert", "volume", "position", "write"}

\* A run that holds nothing it has read.
Finished(place) == [at |-> place, volume |-> 0, row |-> NoRow]
Idle == [at |-> "idle", row |-> NoRow, held |-> 0]

Affordable(o) == IF o.isBuy THEN usdc >= o.collateral ELSE held >= o.shares

\* The position after a fill, from the row as it was read; a first sell of
\* shares that were never indexed starts at zero.
Applied(old, o) ==
    LET before == IF old = NoRow THEN 0 ELSE old
    IN  IF o.isBuy THEN before + o.shares
        ELSE IF before > o.shares THEN before - o.shares ELSE 0

Goto(r, place) == pc' = [pc EXCEPT ![r] = place]

CountFault == faults < MaxFaults /\ faults' = faults + 1

---------------------------------------------------------------------------
(* The routes /buy and /sell *)

Init ==
    /\ carries \in [Requests -> Intents]
    /\ key = [i \in Intents |-> FALSE]
    /\ pc = [r \in Requests |-> "new"]
    /\ hash = [r \in Requests |-> NoTx]
    /\ txs = <<>>
    /\ usdc = Endowment
    /\ held = 0
    /\ trades = {}
    /\ volume = 0
    /\ row = NoRow
    /\ watched = 0
    /\ fills = [f \in FillIds |-> Finished("none")]
    /\ heals = [h \in Healers |-> Idle]
    /\ faults = 0
    /\ crashes = 0

\* Mutant of Reserve: SET without NX.
ReserveAnyway(r) ==
    /\ pc[r] = "new"
    /\ key' = [key EXCEPT ![carries[r]] = TRUE]
    /\ Goto(r, "preflight")
    /\ UNCHANGED <<carries, hash, chain, db, watched, fills, heals, faults, crashes>>

\* The market is settled or closed, the intent has expired, or its signature
\* is not the wallet's.
Refuse(r) ==
    /\ pc[r] = "new"
    /\ Goto(r, "failed")
    /\ UNCHANGED <<carries, key, hash, chain, db, watched, fills, heals, faults, crashes>>

\* The signature is good; SET NX of the intent's nonce decides.
Reserve(r) ==
    /\ pc[r] = "new"
    /\ ~key[carries[r]]
    /\ key' = [key EXCEPT ![carries[r]] = TRUE]
    /\ Goto(r, "preflight")
    /\ UNCHANGED <<carries, hash, chain, db, watched, fills, heals, faults, crashes>>

Duplicate(r) ==
    /\ pc[r] = "new"
    /\ key[carries[r]]
    /\ Goto(r, "failed")
    /\ UNCHANGED <<carries, key, hash, chain, db, watched, fills, heals, faults, crashes>>

\* One multicall looks at balance and price; the price is any.
Preflight(r) ==
    /\ pc[r] = "preflight"
    /\ \/ Affordable(Order[carries[r]]) /\ Goto(r, "send")
       \/ Goto(r, "release")
    /\ UNCHANGED <<carries, key, hash, chain, db, watched, fills, heals, faults, crashes>>

\* withNonce: one transaction of the operator is in flight at a time.
Send(r) ==
    /\ pc[r] = "send"
    /\ ~Pending
    /\ txs' = Append(txs, [intent |-> carries[r], status |-> "pending"])
    /\ hash' = [hash EXCEPT ![r] = Len(txs')]
    /\ Goto(r, "receipt")
    /\ UNCHANGED <<carries, key, usdc, held, db, watched, fills, heals, faults, crashes>>

\* withNonce throws before the broadcast (queue timeout, nonce in use) ...
SendRefused(r) ==
    /\ pc[r] = "send"
    /\ Goto(r, "release")
    /\ UNCHANGED <<carries, key, hash, chain, db, watched, fills, heals, faults, crashes>>

\* ... or after it: the answer, or the call that records the nonce, is lost.
SendLost(r) ==
    /\ pc[r] = "send"
    /\ ~Pending
    /\ CountFault
    /\ txs' = Append(txs, [intent |-> carries[r], status |-> "pending"])
    /\ Goto(r, "release")
    /\ UNCHANGED <<carries, key, hash, usdc, held, db, watched, fills, heals, crashes>>

\* Mutant of Receipt: the status of the receipt is not looked at.
ReceiptOfAnyStatus(r) ==
    /\ pc[r] = "receipt"
    /\ txs[hash[r]].status # "pending"
    /\ Goto(r, "booking")
    /\ fills' = [fills EXCEPT ![<<"route", hash[r]>>].at = "market"]
    /\ UNCHANGED <<carries, key, hash, chain, db, watched, heals, faults, crashes>>

\* waitForTradeEvent: the fill of a success is booked, a revert throws.
Receipt(r) ==
    /\ pc[r] = "receipt"
    /\ \/ /\ txs[hash[r]].status = "success"
          /\ Goto(r, "booking")
          /\ fills' = [fills EXCEPT ![<<"route", hash[r]>>].at = "market"]
       \/ /\ txs[hash[r]].status = "reverted"
          /\ Goto(r, "release")
          /\ UNCHANGED fills
    /\ UNCHANGED <<carries, key, hash, chain, db, watched, heals, faults, crashes>>

\* The wait for the receipt times out, or the read node fails.
ReceiptLost(r) ==
    /\ pc[r] = "receipt"
    /\ CountFault
    /\ Goto(r, "release")
    /\ UNCHANGED <<carries, key, hash, chain, db, watched, fills, heals, crashes>>

\* processTradeFill returns to the route, or throws.
Answer(r) ==
    /\ pc[r] = "booking"
    /\ \/ fills[<<"route", hash[r]>>].at = "booked" /\ Goto(r, "success")
       \/ fills[<<"route", hash[r]>>].at = "threw" /\ Goto(r, "release")
    /\ UNCHANGED <<carries, key, hash, chain, db, watched, fills, heals, faults, crashes>>

\* The catch block, whatever was thrown.
Release(r) ==
    /\ pc[r] = "release"
    /\ key' = [key EXCEPT ![carries[r]] = FALSE]
    /\ hash' = [hash EXCEPT ![r] = NoTx]
    /\ Goto(r, "failed")
    /\ UNCHANGED <<carries, chain, db, watched, fills, heals, faults, crashes>>

\* 24 hours later; no request runs that long.
KeyExpires(i) ==
    /\ key[i]
    /\ \A r \in Requests : carries[r] = i => ~Working(r)
    /\ key' = [key EXCEPT ![i] = FALSE]
    /\ UNCHANGED <<carries, pc, hash, chain, db, watched, fills, heals, faults, crashes>>

---------------------------------------------------------------------------
(* The chain *)

\* The vault executes the trade, unless balance or price forbid it.
Mine(t) ==
    /\ t \in DOMAIN txs
    /\ txs[t].status = "pending"
    /\ \/ /\ Affordable(OrderOf(t))
          /\ txs' = [txs EXCEPT ![t].status = "success"]
          /\ usdc' = IF OrderOf(t).isBuy THEN usdc - OrderOf(t).collateral
                                         ELSE usdc + OrderOf(t).collateral
          /\ held' = IF OrderOf(t).isBuy THEN held + OrderOf(t).shares
                                         ELSE held - OrderOf(t).shares
       \/ /\ txs' = [txs EXCEPT ![t].status = "reverted"]
          /\ UNCHANGED <<usdc, held>>
    /\ UNCHANGED <<carries, key, pc, hash, db, watched, fills, heals, faults, crashes>>

---------------------------------------------------------------------------
(* Booking a fill *)

\* Mutant of Watch: the watcher leaves to the route what the route has sent.
WatchUnsent ==
    /\ watched < Len(txs)
    /\ txs[watched + 1].status # "pending"
    /\ watched' = watched + 1
    /\ fills' =
        IF /\ txs[watched + 1].status = "success"
           /\ \A r \in Requests : hash[r] # watched + 1
            THEN [fills EXCEPT ![<<"watcher", watched + 1>>].at = "market"]
            ELSE fills
    /\ UNCHANGED <<carries, key, pc, hash, chain, db, heals, faults, crashes>>

\* The watcher's filter reports a Trade event; the handlers of several events
\* are not awaited, they run side by side.
Watch ==
    /\ watched < Len(txs)
    /\ txs[watched + 1].status # "pending"
    /\ watched' = watched + 1
    /\ fills' = IF txs[watched + 1].status = "success"
                    THEN [fills EXCEPT ![<<"watcher", watched + 1>>].at = "market"]
                    ELSE fills
    /\ UNCHANGED <<carries, key, pc, hash, chain, db, heals, faults, crashes>>

\* The market's row is read once, at the start ...
ReadMarket(f) ==
    /\ fills[f].at = "market"
    /\ fills' = [fills EXCEPT ![f].at = "insert", ![f].volume = volume]
    /\ UNCHANGED <<carries, key, pc, hash, chain, db, watched, heals, faults, crashes>>

\* Mutant of InsertTrade: no dedupe.
InsertTradeAgain(f) ==
    /\ fills[f].at = "insert"
    /\ trades' = trades \cup {f[2]}
    /\ fills' = [fills EXCEPT ![f].at = "volume"]
    /\ UNCHANGED <<carries, key, pc, hash, chain, volume, row, watched, heals, faults, crashes>>

\* ... the unique key on (market, transaction) lets one booking through ...
InsertTrade(f) ==
    /\ fills[f].at = "insert"
    /\ trades' = trades \cup {f[2]}
    /\ fills' = [fills EXCEPT ![f] =
                    IF f[2] \in trades THEN Finished("booked")
                                       ELSE [@ EXCEPT !.at = "volume"]]
    /\ UNCHANGED <<carries, key, pc, hash, chain, volume, row, watched, heals, faults, crashes>>

\* ... and the volume is what was read plus the fill.
UpdateVolume(f) ==
    /\ fills[f].at = "volume"
    /\ volume' = fills[f].volume + OrderOf(f[2]).collateral
    /\ fills' = [fills EXCEPT ![f].at = "position", ![f].volume = 0]
    /\ UNCHANGED <<carries, key, pc, hash, chain, trades, row, watched, heals, faults, crashes>>

ReadPosition(f) ==
    /\ fills[f].at = "position"
    /\ fills' = [fills EXCEPT ![f].at = "write", ![f].row = row]
    /\ UNCHANGED <<carries, key, pc, hash, chain, db, watched, heals, faults, crashes>>

\* An insert of a row that another booking has inserted meanwhile throws.
WritePosition(f) ==
    /\ fills[f].at = "write"
    /\ IF fills[f].row = NoRow /\ row # NoRow
        THEN /\ fills' = [fills EXCEPT ![f] = Finished("threw")]
             /\ UNCHANGED row
        ELSE /\ row' = Applied(fills[f].row, OrderOf(f[2]))
             /\ fills' = [fills EXCEPT ![f] = Finished("booked")]
    /\ UNCHANGED <<carries, key, pc, hash, chain, trades, volume, watched, heals, faults, crashes>>

\* A query fails: the booking throws, but for the market's row, whose update
\* is tried and its failure logged.
QueryFails(f) ==
    /\ Running(f)
    /\ CountFault
    /\ fills' = [fills EXCEPT ![f] = Finished(IF @.at = "volume" THEN "position"
                                                                 ELSE "threw")]
    /\ UNCHANGED <<carries, key, pc, hash, chain, db, watched, heals, crashes>>

---------------------------------------------------------------------------
(* The position reconciler: its timer, and the route of the portfolio page *)

\* The timer leaves out rows without shares.
LoadRows(h) ==
    /\ heals[h].at = "idle"
    /\ row # NoRow
    /\ h = "tick" => row > 0
    /\ heals' = [heals EXCEPT ![h].at = "chain", ![h].row = row]
    /\ UNCHANGED <<carries, key, pc, hash, chain, db, watched, fills, faults, crashes>>

ReadBalances(h) ==
    /\ heals[h].at = "chain"
    /\ heals' = [heals EXCEPT ![h].at = "apply", ![h].held = held]
    /\ UNCHANGED <<carries, key, pc, hash, chain, db, watched, fills, faults, crashes>>

\* Mutant of ApplyBalances: only a row that is short of shares is corrected.
ApplyMissing(h) ==
    /\ heals[h].at = "apply"
    /\ row' = IF heals[h].held > heals[h].row THEN heals[h].held ELSE row
    /\ heals' = [heals EXCEPT ![h] = Idle]
    /\ UNCHANGED <<carries, key, pc, hash, chain, trades, volume, watched, fills, faults, crashes>>

\* A row that differs from the chain, as both were read, is overwritten.
ApplyBalances(h) ==
    /\ heals[h].at = "apply"
    /\ row' = IF heals[h].held # heals[h].row THEN heals[h].held ELSE row
    /\ heals' = [heals EXCEPT ![h] = Idle]
    /\ UNCHANGED <<carries, key, pc, hash, chain, trades, volume, watched, fills, faults, crashes>>

\* A read or the update fails and is logged; the next pass tries again.
HealFails(h) ==
    /\ heals[h].at # "idle"
    /\ CountFault
    /\ heals' = [heals EXCEPT ![h] = Idle]
    /\ UNCHANGED <<carries, key, pc, hash, chain, db, watched, fills, crashes>>

---------------------------------------------------------------------------

\* The process restarts: requests are not answered, bookings stop where they
\* are, and the new filter starts at the current block.
Crash ==
    /\ crashes < MaxCrashes
    /\ crashes' = crashes + 1
    /\ pc' = [r \in Requests |-> IF Working(r) THEN "unanswered" ELSE pc[r]]
    /\ hash' = [r \in Requests |-> IF Working(r) THEN NoTx ELSE hash[r]]
    /\ fills' = [f \in FillIds |->
                    IF Running(f) THEN Finished("threw") ELSE fills[f]]
    /\ watched' = IF Pending THEN Len(txs) - 1 ELSE Len(txs)
    /\ heals' = [h \in Healers |-> Idle]
    /\ UNCHANGED <<carries, key, chain, db, faults>>

RequestStep(r) ==
    \/ Preflight(r) \/ Send(r) \/ SendRefused(r) \/ Receipt(r)
    \/ Answer(r) \/ Release(r)

BookingStep(f) ==
    \/ ReadMarket(f) \/ InsertTrade(f) \/ UpdateVolume(f)
    \/ ReadPosition(f) \/ WritePosition(f)

HealStep(h) == LoadRows(h) \/ ReadBalances(h) \/ ApplyBalances(h)

Fault ==
    \/ \E r \in Requests : SendLost(r) \/ ReceiptLost(r)
    \/ \E f \in FillIds : QueryFails(f)
    \/ \E h \in Healers : HealFails(h)
    \/ Crash

Next ==
    \/ \E r \in Requests : Refuse(r) \/ Reserve(r) \/ Duplicate(r) \/ RequestStep(r)
    \/ \E i \in Intents : KeyExpires(i)
    \/ \E t \in TxIds : Mine(t)
    \/ Watch
    \/ \E f \in FillIds : BookingStep(f)
    \/ \E h \in Healers : HealStep(h)
    \/ Fault

\* What a trade causes by itself, in finitely many steps.
TradeStep ==
    \/ \E r \in Requests : RequestStep(r)
    \/ \E t \in TxIds : Mine(t)
    \/ Watch
    \/ \E f \in FillIds : BookingStep(f)

\* Promises are run, transactions mined, the filter polled and the timer set
\* again.  Nobody has to send a request or open the portfolio page.
Fairness ==
    /\ WF_vars(TradeStep)
    /\ \A h \in Healers \cap {"tick"} : WF_vars(HealStep(h))

Spec == Init /\ [][Next]_vars /\ Fairness

---------------------------------------------------------------------------
(* Properties *)

\* While a request works on an intent its nonce stays reserved, by this
\* request alone: nobody's release frees what somebody else has reserved.
ReservedWhileWorking ==
    /\ TypeOK
    /\ \A r \in Requests : Working(r) =>
          /\ key[carries[r]]
          /\ \A q \in Requests \ {r} : carries[q] = carries[r] => ~Working(q)

\* processTradeFill: "lets the indexer and the trading route both fire without
\* double-booking anything."  What is booked was executed, and the volume is
\* what some of the booked trades add up to, each counted once.
NeverDoubleBooked ==
    /\ trades \subseteq Executed
    /\ \E some \in SUBSET trades :
          volume = SumOver([t \in some |-> OrderOf(t).collateral])

\* A request that is answered with success has its trade executed and booked.
SuccessIsBooked ==
    \A r \in Requests : pc[r] = "success" => hash[r] \in Executed \cap trades

\* Route and watcher book independently: it takes a restart, or two failures,
\* to leave an executed trade out of the books.
NoTradeLost ==
    <>[](crashes = 0 /\ faults <= 1 => Executed \subseteq trades)

\* The reconciler never leaves a trader with shares in the books that the
\* chain does not know of, whatever updates were lost.
NoPhantomShares == <>[](row > 0 => row = held)

\* trading.ts: "Replay protection - reserve the nonce atomically".  A signed
\* intent is executed once.
IntentExecutedOnce ==
    \A i \in Intents : Cardinality({t \in Executed : txs[t].intent = i}) <= 1
=============================================================================
