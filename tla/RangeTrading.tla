---------------------------- MODULE RangeTrading ----------------------------
(***************************************************************************)
(* Buying and selling one range of a range market through the API          *)
(* (routes/range-markets.ts), by one trader, with the vault configured,    *)
(* and the prices on the market's page (useRangeMarkets.ts,                *)
(* RangeMarketDetail.tsx). Unlike binary trades (TradePipeline.tla) these  *)
(* have no watcher and no reconciler: what the route does not book is not  *)
(* booked. And pages are shown a price before the trade is sent, to be     *)
(* confirmed or taken back, by events that reach a page while it is        *)
(* connected and in the order in which they are published; every minute    *)
(* the page fetches the markets anew.                                      *)
(*                                                                         *)
(* Prices are told apart by the number of trades that made them. What the  *)
(* pool does with a trade is RangePool.tla's; here it may execute it, for  *)
(* any amount the signed minimum allows, or revert.                        *)
(***************************************************************************)
EXTENDS Integers, Sequences, FiniteSets

CONSTANTS
    Requests,
    Intents,            \* signed intents
    Sent,               \* what intents the requests carry, repetitions included
    Signed,             \* [Intents -> [buy, amount, minOutput]]: shares, the
                        \* amount of a sell, the minimum of a buy
    MaxShares,          \* shares a buy can give, and the trader has at first
    MaxTrouble          \* bound on failed calls and restarts (faults), with
                        \* transactions replaced by the nonce job, sales past
                        \* the API and lost connections (surprises)

ASSUME SignedAssumption ==
    /\ IsFiniteSet(Requests)
    /\ Sent \subseteq [Requests -> Intents]
    /\ Signed \in [Intents -> [buy: BOOLEAN, amount: 0..MaxShares, minOutput: 0..MaxShares]]
    /\ {MaxShares, MaxTrouble} \subseteq Nat

VARIABLES
    req,                \* each request
    key,                \* Redis: the intents whose nonce is reserved
    tx,                 \* the request of the transaction in flight, or NoTx
    executed,           \* the trades on the chain, in order
    held,               \* shares in the trader's wallet
    trades,             \* range_trades: requests with a row
    position,           \* range_positions: the trader's row
    rowPrices,          \* range_markets.rangePrices
    page,               \* the prices on the market's page; a projected price
                        \* has the version it was projected from
    connected,          \* whether the page's socket is connected
    fetched,            \* the prices of the page's fetch under way, or NoRow
    faults, surprises

books == <<trades, position>>
prices == <<rowPrices, page, fetched>>
history == <<faults, surprises>>
vars == <<req, key, tx, executed, held, books, prices, connected, history>>

NoTx == "none"
NoRow == -1
Versions == 0..Cardinality(Requests)

Request == [at: {"start", "reserve", "check", "send", "receipt", "prices", "publish", "insert",
                 "read", "write", "answer", "failing", "refused", "failed", "success", "gone"},
            intent: Intents, provisional: BOOLEAN, seen: Versions,
            outcome: {"none", "executed", "nothing"}, shares: 0..MaxShares,
            prices: Versions, row: {NoRow} \cup Nat]
Shown == [provisional: BOOLEAN, version: Versions]

TypeOK ==
    /\ req \in [Requests -> Request]
    /\ key \subseteq Intents
    /\ tx \in Requests \cup {NoTx}
    /\ executed \in Seq([intent: Intents, shares: 0..MaxShares])
    /\ Len(executed) \in Versions
    /\ held \in Nat
    /\ trades \subseteq Requests
    /\ position \in {NoRow} \cup Nat
    /\ rowPrices \in 0..Len(executed)
    /\ page \in Shown
    /\ connected \in BOOLEAN
    /\ fetched \in Versions \cup {NoRow}
    /\ faults \in Nat /\ surprises \in Nat
    /\ faults + surprises <= MaxTrouble

Actual(v) == [provisional |-> FALSE, version |-> v]
Projected(v) == [provisional |-> TRUE, version |-> v]

\* A trader who holds shares has a row, which may have missed the last trade.
Init ==
    /\ \E carries \in Sent :
          req = [r \in Requests |->
                    [at |-> "start", intent |-> carries[r], provisional |-> FALSE, seen |-> 0,
                     outcome |-> "none", shares |-> 0, prices |-> 0, row |-> NoRow]]
    /\ key = {}
    /\ tx = NoTx
    /\ executed = <<>>
    /\ held \in {0, MaxShares}
    /\ trades = {}
    /\ position \in IF held = 0 THEN {NoRow} ELSE {0, held}
    /\ rowPrices = 0
    /\ page = Actual(0)
    /\ connected = TRUE
    /\ fetched = NoRow
    /\ faults = 0 /\ surprises = 0

Order(r) == Signed[req[r].intent]
At(r, place) == req[r].at = place
Goes(r, place) == req' = [req EXCEPT ![r].at = place]

\* A request that is over forgets what it has read.
Ends(r, place) ==
    req' = [req EXCEPT ![r] = [@ EXCEPT !.at = place, !.provisional = FALSE, !.seen = 0,
                                        !.prices = 0, !.row = NoRow]]
Troubled == faults + surprises < MaxTrouble
Fault == Troubled /\ faults' = faults + 1 /\ UNCHANGED surprises
Surprise == Troubled /\ surprises' = surprises + 1 /\ UNCHANGED faults

\* What a page that gets the event shows. The page's own state and the cache
\* of all pages are patched together, and one follows the other.
Event(shown) == IF connected THEN shown ELSE page

Working(r) == req[r].at \notin {"start", "refused", "failed", "success", "gone"}

---------------------------------------------------------------------------
(* A request up to its transaction *)

\* The market's row, with the prices to fall back to; the signature is checked.
ReadMarketToBuy(r) ==
    /\ At(r, "start") /\ Order(r).buy
    /\ req' = [req EXCEPT ![r].at = "reserve", ![r].seen = rowPrices]
    /\ UNCHANGED <<key, tx, executed, held, books, prices, connected, history>>

\* A sell shows nothing before it is executed, and keeps no prices.
ReadMarketToSell(r) ==
    /\ At(r, "start") /\ ~Order(r).buy
    /\ Goes(r, "reserve")
    /\ UNCHANGED <<key, tx, executed, held, books, prices, connected, history>>

\* reserveRangeNonce
Reserve(r) ==
    /\ At(r, "reserve")
    /\ IF req[r].intent \in key
       THEN Ends(r, "refused") /\ UNCHANGED key
       ELSE Goes(r, "check") /\ key' = key \cup {req[r].intent}
    /\ UNCHANGED <<tx, executed, held, books, prices, connected, history>>

\* No escrow, too little in it, or a quote below the minimum; a sell of more
\* than the wallet holds, or one that no quote can be had for.
Refuse(r) ==
    /\ At(r, "check")
    /\ Ends(r, "refused")
    /\ key' = key \ {req[r].intent}
    /\ UNCHANGED <<tx, executed, held, books, prices, connected, history>>

\* A buy shows the projected prices, if it can compute them.
ProceedToBuy(r) ==
    /\ At(r, "check") /\ Order(r).buy
    /\ \/ /\ Goes(r, "send")
          /\ UNCHANGED prices
       \/ /\ req' = [req EXCEPT ![r].at = "send", ![r].provisional = TRUE]
          /\ page' = Event(Projected(req[r].seen))
          /\ UNCHANGED <<rowPrices, fetched>>
    /\ UNCHANGED <<key, tx, executed, held, books, connected, history>>

\* A balance that cannot be read counts as zero.
ProceedToSell(r) ==
    /\ At(r, "check") /\ ~Order(r).buy
    /\ held > 0 /\ held >= Order(r).amount
    /\ Goes(r, "send")
    /\ UNCHANGED <<key, tx, executed, held, books, prices, connected, history>>

\* withNonce, once no transaction is in flight. The call is simulated first.
Send(r) ==
    /\ At(r, "send")
    /\ tx = NoTx
    /\ \/ Goes(r, "receipt") /\ tx' = r
       \/ Goes(r, "failing") /\ UNCHANGED tx
    /\ UNCHANGED <<key, executed, held, books, prices, connected, history>>

\* The second of the two price events fails, or the answer of the node or the
\* receipt is lost.
CallFails(r) ==
    /\ \/ /\ At(r, "check") /\ Order(r).buy
          /\ page' = Event(Projected(req[r].seen))
          /\ UNCHANGED tx
       \/ At(r, "send") /\ tx = NoTx /\ tx' \in {NoTx, r} /\ UNCHANGED page
       \/ At(r, "receipt") /\ UNCHANGED <<tx, page>>
    /\ Fault
    /\ Goes(r, "failing")
    /\ UNCHANGED <<key, executed, held, books, rowPrices, connected, fetched>>

---------------------------------------------------------------------------
(* The chain *)

Executes(r, shares) ==
    /\ IF Order(r).buy THEN shares \in 1..MaxShares /\ shares >= Order(r).minOutput
                       ELSE shares = Order(r).amount /\ shares <= held
    /\ executed' = Append(executed, [intent |-> req[r].intent, shares |-> shares])
    /\ held' = IF Order(r).buy THEN held + shares ELSE held - shares
    /\ req' = [req EXCEPT ![r].outcome = "executed", ![r].shares = shares]

Mine ==
    /\ tx # NoTx
    /\ \/ \E shares \in 0..MaxShares : Executes(tx, shares)
       \/ req' = [req EXCEPT ![tx].outcome = "nothing"] /\ UNCHANGED <<executed, held>>
    /\ tx' = NoTx
    /\ UNCHANGED <<key, books, prices, connected, history>>

\* cancelTransaction: the caller gets the receipt of the replacement.
Replace ==
    /\ tx # NoTx
    /\ Surprise
    /\ req' = [req EXCEPT ![tx].outcome = "nothing"]
    /\ tx' = NoTx
    /\ UNCHANGED <<key, executed, held, books, prices, connected>>

\* The trader sells or sends a share past the API.
OwnSale ==
    /\ held > 0
    /\ Surprise
    /\ held' = held - 1
    /\ UNCHANGED <<req, key, tx, executed, books, prices, connected>>

---------------------------------------------------------------------------
(* After the receipt *)

\* Mutant of Short: the signed minimum is left to the pool.
ShortNever(r) == FALSE

\* Mutant of Short: a fill of exactly the minimum is refused.
ShortAtMinimum(r) ==
    Order(r).minOutput > 0 /\
        (req[r].outcome = "nothing" \/ req[r].shares <= Order(r).minOutput)

\* What a buy has got is in the receipt's events.
Short(r) ==
    Order(r).minOutput > 0 /\
        (req[r].outcome = "nothing" \/ req[r].shares < Order(r).minOutput)

ReceiptOfBuy(r) ==
    /\ At(r, "receipt") /\ Order(r).buy
    /\ req[r].outcome # "none"
    /\ Goes(r, IF Short(r) THEN "failing" ELSE "prices")
    /\ UNCHANGED <<key, tx, executed, held, books, prices, connected, history>>

\* Of a sell not even the status is looked at.
ReceiptOfSell(r) ==
    /\ At(r, "receipt") /\ ~Order(r).buy
    /\ req[r].outcome # "none"
    /\ Goes(r, "prices")
    /\ UNCHANGED <<key, tx, executed, held, books, prices, connected, history>>

\* fetchOnChainPrices swallows a failure, and nothing is published.
ReadPrices(r) ==
    /\ At(r, "prices")
    /\ \/ /\ req' = [req EXCEPT ![r].at = "publish", ![r].prices = Len(executed)]
          /\ UNCHANGED history
       \/ /\ Goes(r, "insert")
          /\ Fault
    /\ UNCHANGED <<key, tx, executed, held, books, prices, connected>>

\* The row of the market, and the events
Publish(r) ==
    /\ At(r, "publish")
    /\ rowPrices' = req[r].prices
    /\ page' = Event(Actual(req[r].prices))
    /\ Goes(r, "insert")
    /\ UNCHANGED <<key, tx, executed, held, books, connected, fetched, history>>

\* An update of the market, or an event, that fails is taken for a trade that
\* has failed.
PublishFails(r) ==
    /\ At(r, "publish")
    /\ Fault
    /\ Goes(r, "failing")
    /\ rowPrices' \in {rowPrices, req[r].prices}
    /\ page' \in {page} \cup
          IF rowPrices' = req[r].prices THEN {Event(Actual(rowPrices'))} ELSE {}
    /\ UNCHANGED <<key, tx, executed, held, books, connected, fetched>>

\* The row of range_trades. An error is logged, here and below.
InsertTrade(r) ==
    /\ At(r, "insert")
    /\ \/ trades' = trades \cup {r} /\ UNCHANGED history
       \/ Fault /\ UNCHANGED trades
    /\ Goes(r, "read")
    /\ UNCHANGED <<key, tx, executed, held, position, prices, connected>>

ReadPosition(r) ==
    /\ At(r, "read")
    /\ \/ req' = [req EXCEPT ![r].at = "write", ![r].row = position] /\ UNCHANGED history
       \/ Goes(r, "answer") /\ Fault
    /\ UNCHANGED <<key, tx, executed, held, books, prices, connected>>

Minus(a, c) == IF a > c THEN a - c ELSE 0

\* The second of two inserts is refused by the unique key, and logged.
Bought(r) ==
    IF req[r].row # NoRow THEN req[r].row + req[r].shares
    ELSE IF position = NoRow THEN req[r].shares ELSE position

\* A sell is taken off whether it was executed or not.
Sold(r) ==
    IF req[r].row = NoRow THEN position ELSE Minus(req[r].row, Order(r).amount)

WritePosition(r) ==
    /\ At(r, "write")
    /\ \/ Order(r).buy /\ position' = Bought(r) /\ UNCHANGED history
       \/ ~Order(r).buy /\ position' = Sold(r) /\ UNCHANGED history
       \/ Fault /\ UNCHANGED position
    /\ req' = [req EXCEPT ![r].at = "answer", ![r].row = NoRow, ![r].seen = 0]
    /\ UNCHANGED <<key, tx, executed, held, trades, prices, connected>>

\* The answer carries the prices, for the page of who has sent the request.
Answer(r) ==
    /\ At(r, "answer")
    /\ page' \in {page, Actual(req[r].prices)}
    /\ Ends(r, "success")
    /\ UNCHANGED <<key, tx, executed, held, books, rowPrices, connected, fetched, history>>

\* The catch block: the prices of the request's beginning are shown again, and
\* the signature may be used again.
GiveUpBuy(r) ==
    /\ At(r, "failing") /\ Order(r).buy
    /\ page' = IF req[r].provisional THEN Event(Actual(req[r].seen)) ELSE page
    /\ key' = key \ {req[r].intent}
    /\ Ends(r, "failed")
    /\ UNCHANGED <<tx, executed, held, books, rowPrices, connected, fetched, history>>

GiveUpSell(r) ==
    /\ At(r, "failing") /\ ~Order(r).buy
    /\ key' = key \ {req[r].intent}
    /\ Ends(r, "failed")
    /\ UNCHANGED <<tx, executed, held, books, prices, connected, history>>

---------------------------------------------------------------------------
(* The page *)

\* Mutant of Listed: the page prefers what it was told by an event.
ListedUnlessLive(v) ==
    /\ rowPrices' = v
    /\ fetched' = NoRow
    /\ UNCHANGED <<req, key, tx, executed, held, books, page, connected, history>>

\* The list of markets is answered with the prices of the chain, which are
\* also written to the row.
Listed(v) ==
    /\ rowPrices' = v
    /\ page' = Actual(v)
    /\ fetched' = NoRow
    /\ UNCHANGED <<req, key, tx, executed, held, books, connected, history>>

\* The page fetches the list, which replaces what it was told by events. Only
\* a trade that is executed meanwhile makes the prices outdated: other fetches
\* are one step.
Fetch ==
    /\ fetched = NoRow
    /\ \/ Listed(Len(executed))
       \/ /\ tx # NoTx
          /\ fetched' = Len(executed)
          /\ UNCHANGED <<req, key, tx, executed, held, books, rowPrices, page, connected, history>>

Fetched ==
    /\ fetched # NoRow
    /\ Listed(fetched)

\* The chain cannot be read: the row has to do.
FetchRow ==
    /\ fetched = NoRow
    /\ Fault
    /\ page' = Actual(rowPrices)
    /\ UNCHANGED <<req, key, tx, executed, held, books, rowPrices, connected, fetched>>

Disconnect ==
    /\ connected
    /\ Surprise
    /\ connected' = FALSE
    /\ UNCHANGED <<req, key, tx, executed, held, books, prices>>

Reconnect ==
    /\ ~connected
    /\ connected' = TRUE
    /\ UNCHANGED <<req, key, tx, executed, held, books, prices, history>>

Crash ==
    /\ Fault
    /\ req' = [r \in Requests |-> IF Working(r) THEN [req[r] EXCEPT !.at = "gone"] ELSE req[r]]
    /\ UNCHANGED <<key, tx, executed, held, books, prices, connected>>

RequestStep(r) ==
    \/ Reserve(r) \/ Refuse(r) \/ ProceedToBuy(r) \/ ProceedToSell(r) \/ Send(r)
    \/ ReceiptOfBuy(r) \/ ReceiptOfSell(r) \/ ReadPrices(r) \/ Publish(r)
    \/ InsertTrade(r) \/ ReadPosition(r) \/ WritePosition(r) \/ Answer(r)
    \/ GiveUpBuy(r) \/ GiveUpSell(r)

Next ==
    \/ \E r \in Requests :
          \/ ReadMarketToBuy(r) \/ ReadMarketToSell(r)
          \/ RequestStep(r) \/ CallFails(r) \/ PublishFails(r)
    \/ Mine \/ Replace \/ OwnSale \/ Crash
    \/ Fetch \/ Fetched \/ FetchRow \/ Disconnect \/ Reconnect

\* Every await settles, blocks are produced and the page fetches every minute;
\* nobody has to send a request.
Fairness ==
    /\ WF_vars(Mine \/ \E r \in Requests : RequestStep(r))
    /\ WF_vars(Fetch \/ Fetched)

Spec == Init /\ [][Next]_vars /\ Fairness

---------------------------------------------------------------------------
(* Properties *)

\* "A second submission with the same signature is rejected": as long as no
\* call fails, an intent is executed once, however often it is sent, and
\* whatever transactions are replaced or revert.
ExecutedOnce ==
    /\ TypeOK
    /\ faults = 0 =>
          \A i \in Intents :
              Cardinality({n \in DOMAIN executed : executed[n].intent = i}) <= 1

\* A buyer who signed a minimum and is told of success has got it, in a
\* transaction of its own, though the receipt may be that of a replacement; and
\* unless a query failed the trade is in the books.
MinimumKept ==
    \A r \in Requests :
        At(r, "success") /\ Order(r).buy /\ Order(r).minOutput > 0 =>
            /\ \E n \in DOMAIN executed : executed[n] = [intent |-> req[r].intent, shares |-> req[r].shares]
            /\ req[r].shares >= Order(r).minOutput
            /\ faults = 0 => r \in trades

\* At last the page shows what the chain's prices are, and never for good a
\* price that was only projected or that another trade has outdated, whatever
\* events are lost, late or never sent.
PageSettles == <>[](page = Actual(Len(executed)))
=============================================================================
