----------------------------- MODULE LivePrices -----------------------------
(***************************************************************************)
(* The price of one binary market on its way from the chain to the home    *)
(* page: recorded with each trade for the chart, kept in the market's row, *)
(* published to the pages that are connected, repaired every 15 seconds    *)
(* (reconcilePrices) and fetched anew by a page every minute.  Every trade *)
(* is handled by the watcher and, if it came through the API, by the route *)
(* that sent it, in either order or at the same time; trades past the API  *)
(* by the watcher alone.  A client that misses a trade can have it         *)
(* recorded (record-trade), which goes about it in its own way.            *)
(*                                                                         *)
(* A price is told by the number of blocks with trades before it; each of  *)
(* them moves it by more than PRICE_EPSILON.  Transactions and receipts    *)
(* are TradePipeline's subject, as is what else processTradeFill books.    *)
(***************************************************************************)
EXTENDS Naturals, FiniteSets

CONSTANTS
    Trades,
    ByApi,       \* buys that came through POST /trading/buy
    Reported,    \* trades a client may ask to have recorded
    Nothing,
    Projected,   \* stands for the price a buy is expected to leave
    MaxTrouble   \* bound on calls that fail, restarts, lost connections, the lock
                 \* and requests to record a trade

ASSUME TradesAssumption ==
    /\ IsFiniteSet(Trades) /\ ByApi \subseteq Trades /\ Reported \subseteq Trades
    /\ MaxTrouble \in Nat

VARIABLES
    blocks,      \* how many blocks with trades there are
    minedIn,     \* the block of a trade, or 0
    request,     \* POST /trading/buy
    fill,        \* the runs of processTradeFill
    row,         \* markets: the price
    locked,      \* markets: the status is no longer open
    chart,       \* trades: the price recorded with a trade
    job,         \* the run of reconcilePrices
    listed,      \* the price on the home page
    fetching,    \* the answer on its way to that page, or Nothing
    connected,   \* the page's socket
    trouble,
    misread      \* history: a price could not be read at its trade's block

ledger == <<blocks, minedIn>>
page == <<listed, fetching, connected>>
troubles == <<trouble, misread>>
pricesVars == <<ledger, request, fill, row, locked, chart, job, page, troubles>>

Callers ==
    (ByApi \X {"route"}) \union (Trades \X {"watcher"}) \union (Reported \X {"client"})
Over == [at |-> "over", price |-> 0, read |-> FALSE]   \* a run of processTradeFill is
Price == 0 .. Cardinality(Trades)

PricesTypeOK ==
    /\ blocks \in Price /\ minedIn \in [Trades -> Price] /\ row \in Price
    /\ request \in [ByApi -> [at : {"none", "sent", "booking", "over"},
                              price : Price]]
    /\ fill \in [Callers -> [at : {"none", "called", "priced", "inserted", "updated", "over"},
                             price : Price, read : BOOLEAN]]
    /\ locked \in BOOLEAN /\ connected \in BOOLEAN
    /\ chart \in [Trades -> Price \union {Nothing}]
    /\ job \in [at : {"idle", "read", "healed"}, price : Price]
    /\ listed \in Price \union {Projected}
    /\ fetching \in Price \union {Nothing}
    /\ trouble \in 0 .. MaxTrouble /\ misread \in BOOLEAN

PricesInit ==
    /\ blocks = 0 /\ minedIn = [t \in Trades |-> 0] /\ row = 0
    /\ request = [t \in ByApi |-> [at |-> "none", price |-> 0]]
    /\ fill = [c \in Callers |-> [at |-> "none", price |-> 0, read |-> FALSE]]
    /\ locked = FALSE /\ connected = TRUE
    /\ chart = [t \in Trades |-> Nothing]
    /\ job = [at |-> "idle", price |-> 0]
    /\ listed = 0
    /\ fetching = Nothing
    /\ trouble = 0 /\ misread = FALSE

Trouble == trouble < MaxTrouble /\ trouble' = trouble + 1 /\ UNCHANGED misread
Misread == trouble < MaxTrouble /\ trouble' = trouble + 1 /\ misread' = TRUE

(* market:price goes to every connected page, which patches its lists. *)
Publish(price) == listed' = IF connected THEN price ELSE listed

-----------------------------------------------------------------------------
(* POST /trading/buy, as far as pages see it. *)

(* The row is read and, before anything is sent, the pages are told the    *)
(* price the buy is expected to leave.                                     *)
AcceptBuy(t) ==
    /\ request[t].at = "none"
    /\ ~locked
    /\ request' = [request EXCEPT ![t] = [at |-> "sent", price |-> row]]
    /\ Publish(Projected)
    /\ UNCHANGED <<ledger, fill, row, locked, chart, job, fetching, connected, troubles>>

Answer(t) ==
    /\ request[t].at = "booking" /\ fill[<<t, "route">>].at = "over"
    /\ request' = [request EXCEPT ![t] = [at |-> "over", price |-> 0]]
    /\ UNCHANGED <<ledger, fill, row, locked, chart, job, page, troubles>>

(* Whatever fails after the projected price, the price read at the start   *)
(* of the request is published in its place.                               *)
Revert(t) ==
    /\ request[t].at \in {"sent", "booking"}
    /\ Trouble
    /\ Publish(request[t].price)
    /\ request' = [request EXCEPT ![t] = [at |-> "over", price |-> 0]]
    /\ fill' = [fill EXCEPT ![<<t, "route">>] = Over]
    /\ UNCHANGED <<ledger, row, locked, chart, job, fetching, connected>>

(* A block with trades.  The watcher is told, and the route, if it waits   *)
(* for a receipt; each gets to it in its own time.  A buy that was given   *)
(* up may be in the block, too.                                            *)
Mine(ts) ==
    /\ \A t \in ts : minedIn[t] = 0 /\ (t \in ByApi => request[t].at \in {"sent", "over"})
    /\ blocks' = blocks + 1
    /\ minedIn' = [t \in Trades |-> IF t \in ts THEN blocks' ELSE minedIn[t]]
    /\ request' = [t \in ByApi |->
           IF t \in ts /\ request[t].at = "sent" THEN [request[t] EXCEPT !.at = "booking"]
           ELSE request[t]]
    /\ fill' = [c \in Callers |->
           IF c[1] \in ts /\ (c[2] = "watcher" \/ (c[2] = "route" /\ request[c[1]].at = "sent"))
           THEN [fill[c] EXCEPT !.at = "called"] ELSE fill[c]]
    /\ UNCHANGED <<row, locked, chart, job, page, troubles>>

-----------------------------------------------------------------------------
(* processTradeFill *)

(* POST /markets/:id/record-trade: a trade that was mined, and that the    *)
(* table does not have.  The row is read at the start.                     *)
ReportTrade(t) ==
    /\ minedIn[t] # 0 /\ chart[t] = Nothing
    /\ fill[<<t, "client">>].at = "none"
    /\ fill' = [fill EXCEPT ![<<t, "client">>] =
                    [at |-> "called", price |-> row, read |-> FALSE]]
    /\ Trouble
    /\ UNCHANGED <<ledger, request, row, locked, chart, job, page>>

(* The price used if none can be read. *)
Cached(c) == IF c[2] = "client" THEN fill[c].price ELSE row

\* Mutant of ReadPrices: the read is not pinned to the trade's block.
ReadLatestPrices(c) ==
    /\ fill[c].at = "called"
    /\ fill' = [fill EXCEPT ![c] = [at |-> "priced", price |-> blocks, read |-> TRUE]]
    /\ UNCHANGED <<ledger, request, row, locked, chart, job, page, troubles>>

ReadPrices(c) ==
    /\ fill[c].at = "called"
    /\ \/ /\ fill' = [fill EXCEPT ![c] =
                         [at |-> "priced", price |-> minedIn[c[1]], read |-> TRUE]]
          /\ UNCHANGED troubles
       \/ /\ Misread   \* the block cannot be read: the latest price
          /\ fill' = [fill EXCEPT ![c] = [at |-> "priced", price |-> blocks, read |-> TRUE]]
       \/ /\ Misread   \* nor can that: the row's
          /\ fill' = [fill EXCEPT ![c] = [at |-> "priced", price |-> Cached(c), read |-> FALSE]]
    /\ UNCHANGED <<ledger, request, row, locked, chart, job, page>>

(* One of the callers inserts the trade; the others are done. *)
InsertTrade(c) ==
    /\ fill[c].at = "priced" /\ c[2] # "client"
    /\ IF chart[c[1]] = Nothing
         THEN /\ chart' = [chart EXCEPT ![c[1]] = fill[c].price]
              /\ fill' = [fill EXCEPT ![c].at = "inserted"]
         ELSE /\ fill' = [fill EXCEPT ![c] = Over]
              /\ UNCHANGED chart
    /\ UNCHANGED <<ledger, request, row, locked, job, page, troubles>>

UpdateMarket(c) ==
    /\ fill[c].at = "inserted" /\ c[2] # "client"
    /\ fill' = [fill EXCEPT ![c].at = "updated"]
    /\ row' = IF fill[c].read THEN fill[c].price ELSE row
    /\ UNCHANGED <<ledger, request, locked, chart, job, page, troubles>>

PublishPrice(c) ==
    /\ fill[c].at = "updated"
    /\ fill' = [fill EXCEPT ![c] = Over]
    /\ Publish(fill[c].price)
    /\ UNCHANGED <<ledger, request, row, locked, chart, job, fetching, connected, troubles>>

(* record-trade goes on whether it inserted the trade or not, and tells no *)
(* page.                                                                   *)
InsertReported(t) ==
    /\ fill[<<t, "client">>].at = "priced"
    /\ chart' = [chart EXCEPT ![t] = IF @ = Nothing THEN fill[<<t, "client">>].price ELSE @]
    /\ fill' = [fill EXCEPT ![<<t, "client">>].at = "inserted"]
    /\ UNCHANGED <<ledger, request, row, locked, job, page, troubles>>

UpdateReported(t) ==
    /\ fill[<<t, "client">>].at = "inserted"
    /\ row' = IF fill[<<t, "client">>].read THEN fill[<<t, "client">>].price ELSE row
    /\ fill' = [fill EXCEPT ![<<t, "client">>] = Over]
    /\ UNCHANGED <<ledger, request, locked, chart, job, page, troubles>>

FillStep(c) ==
    \/ ReadPrices(c) \/ InsertTrade(c) \/ UpdateMarket(c) \/ PublishPrice(c)
    \/ c[2] = "client" /\ (InsertReported(c[1]) \/ UpdateReported(c[1]))

-----------------------------------------------------------------------------
(* reconcilePrices *)

Idle == [at |-> "idle", price |-> 0]

(* It has loaded the open markets just before; a read that fails ends the  *)
(* run like one that finds nothing.                                        *)
ReadChain ==
    /\ job.at = "idle"
    /\ ~locked /\ blocks # row
    /\ \/ job' = [at |-> "read", price |-> blocks] /\ UNCHANGED troubles
       \/ Trouble /\ UNCHANGED job
    /\ UNCHANGED <<ledger, request, fill, row, locked, chart, page>>

\* Mutant of Heal: the pages are told, the row is not.
HealPagesOnly ==
    /\ job.at = "read"
    /\ job' = [job EXCEPT !.at = "healed"]
    /\ UNCHANGED <<ledger, request, fill, row, locked, chart, page, troubles>>

Heal ==
    /\ job.at = "read"
    /\ row' = job.price
    /\ job' = [job EXCEPT !.at = "healed"]
    /\ UNCHANGED <<ledger, request, fill, locked, chart, page, troubles>>

PublishHealed ==
    /\ job.at = "healed"
    /\ Publish(job.price)
    /\ job' = Idle
    /\ UNCHANGED <<ledger, request, fill, row, locked, chart, fetching, connected, troubles>>

JobStep == ReadChain \/ Heal \/ PublishHealed

-----------------------------------------------------------------------------
(* The page, and what can happen to all of them. *)

FetchMarkets ==
    /\ fetching = Nothing
    /\ fetching' = row
    /\ UNCHANGED <<ledger, request, fill, row, locked, chart, job, listed, connected, troubles>>

ShowMarkets ==
    /\ fetching # Nothing
    /\ fetching' = Nothing
    /\ \/ listed' = fetching /\ UNCHANGED troubles
       \/ Trouble /\ UNCHANGED listed
    /\ UNCHANGED <<ledger, request, fill, row, locked, chart, job, connected>>

Disconnect ==
    /\ connected /\ connected' = FALSE
    /\ Trouble
    /\ UNCHANGED <<ledger, request, fill, row, locked, chart, job, listed, fetching>>

Connect ==
    /\ ~connected /\ connected' = TRUE
    /\ UNCHANGED <<ledger, request, fill, row, locked, chart, job, listed, fetching, troubles>>

(* The market's lock time passes; see MarketLifecycle. *)
Lock ==
    /\ ~locked /\ locked' = TRUE
    /\ Trouble
    /\ UNCHANGED <<ledger, request, fill, row, chart, job, page>>

(* The API starts anew; its watcher's filter begins at the current block. *)
RestartApi ==
    /\ Trouble
    /\ request' = [t \in ByApi |->
           IF request[t].at = "none" THEN request[t] ELSE [at |-> "over", price |-> 0]]
    /\ fill' = [c \in Callers |->
           IF fill[c].at = "none" THEN fill[c] ELSE Over]
    /\ job' = Idle
    /\ UNCHANGED <<ledger, row, locked, chart, page>>

PageStep == FetchMarkets \/ ShowMarkets

(* What goes on by itself until there is nothing left of it. *)
ApiStep ==
    \/ \E t \in ByApi : Answer(t)
    \/ \E c \in Callers : FillStep(c)
    \/ JobStep
    \/ Connect

PricesNext ==
    \/ \E t \in ByApi : AcceptBuy(t) \/ Answer(t) \/ Revert(t)
    \/ \E ts \in (SUBSET Trades) \ {{}} : Mine(ts)
    \/ \E t \in Reported : ReportTrade(t)
    \/ \E c \in Callers : FillStep(c)
    \/ JobStep \/ PageStep
    \/ Connect \/ Disconnect \/ Lock \/ RestartApi

-----------------------------------------------------------------------------
(* Whatever events said, or did not say, in whatever order, the home page  *)
(* ends up with the row's price, and the row with the chain's unless the   *)
(* market was locked first.                                                *)
ListSettles == <>[](listed = row /\ (locked \/ row = blocks))

(* As long as the blocks can be read, the chart has for every trade the    *)
(* price its own block left, however many trades were mined before it was  *)
(* recorded, by whom, and whatever was lost or restarted in between.       *)
ChartInOrder ==
    /\ PricesTypeOK
    /\ ~misread => \A t \in Trades : chart[t] \in {Nothing, minedIn[t]}
=============================================================================
