------------------------- MODULE RangeTradingProofs -------------------------
(***************************************************************************)
(* Range trades, for any number of requests and signed intents, and any    *)
(* number of faults and surprises.                                         *)
(***************************************************************************)
EXTENDS RangeTrading, FiniteSetTheorems, TLAPS

\* Places of a request before its transaction, after its receipt, and as long
\* as it has the nonce of its intent
Before == {"start", "reserve", "check", "send"}
After == {"prices", "publish", "insert", "read", "write", "answer", "success"}
Holding == {"check", "send", "receipt", "failing"} \cup After

Places == Before \cup Holding \cup {"refused", "failed", "gone"}

(* The inductive invariant *)

Executors == {r \in Requests : req[r].outcome = "executed"}

\* A transaction is sent once, and the outcome of one in flight is open. Every
\* trade on the chain is that of one request.
OutcomesInv ==
    /\ \A r \in Requests :
          /\ req[r].at \in Before \cup {"refused"} => req[r].outcome = "none"
          /\ req[r].at \in After => req[r].outcome # "none"
    /\ tx # NoTx => /\ req[tx].outcome = "none"
                    /\ req[tx].at \in {"receipt", "failing", "failed", "gone"}
    /\ Len(executed) = Cardinality(Executors)
    /\ \A r \in Executors : \E n \in DOMAIN executed :
          executed[n] = [intent |-> req[r].intent, shares |-> req[r].shares]
    /\ \A r \in Executors : Order(r).buy => req[r].shares >= Order(r).minOutput

\* Nothing is priced by trades that have not been executed.
VersionsInv ==
    /\ \A r \in Requests : req[r].prices <= Len(executed) /\ req[r].seen <= Len(executed)
    /\ page.version <= Len(executed)
    /\ fetched <= Len(executed)

FilledInv ==
    \A r \in Requests :
        req[r].at \in After /\ Order(r).buy /\ Order(r).minOutput > 0 => req[r].outcome = "executed"

BookedInv ==
    faults = 0 =>
        \A r \in Requests : req[r].at \in {"read", "write", "answer", "success"} => r \in trades

\* As long as no call fails, an intent is with one request at a time, which
\* keeps its nonce for good once it is executed.
ExclusiveInv ==
    faults = 0 =>
        /\ \A r \in Requests :
              /\ req[r].at # "gone"
              /\ req[r].at \in Holding => req[r].intent \in key
              /\ req[r].outcome = "executed" => req[r].at \in {"receipt"} \cup After
        /\ tx # NoTx => req[tx].at = "receipt"
        /\ \A r, s \in Requests :
              req[r].at \in Holding /\ req[s].at \in Holding /\ req[r].intent = req[s].intent => r = s
        /\ \A n \in DOMAIN executed : \E r \in Executors : executed[n].intent = req[r].intent
        /\ \A m, n \in DOMAIN executed : executed[m].intent = executed[n].intent => m = n

TradingInv ==
    /\ TypeOK
    /\ OutcomesInv
    /\ VersionsInv
    /\ FilledInv
    /\ BookedInv
    /\ ExclusiveInv

---------------------------------------------------------------------------
(* Steps *)

LEMMA OrderType ==
    ASSUME TypeOK
    PROVE  \A r \in Requests : Order(r) \in [buy: BOOLEAN, amount: 0..MaxShares, minOutput: 0..MaxShares]
<1>1. \A r \in Requests : req[r].intent \in Intents
    BY DEF TypeOK, Request
<1>2. QED
    BY <1>1, SignedAssumption DEF Order

LEMMA VersionsType ==
    /\ IsFiniteSet(Requests)
    /\ Cardinality(Requests) \in Nat
    /\ 0 \in Versions
    /\ MaxShares \in Nat /\ MaxTrouble \in Nat
    BY SignedAssumption, FS_CardinalityType DEF Versions

\* There are no more trades than requests.
LEMMA VersionsBound ==
    ASSUME NEW S \in SUBSET Requests
    PROVE  Cardinality(S) \in Versions
    BY SignedAssumption, FS_Subset, FS_CardinalityType DEF Versions

LEMMA RequestFacts ==
    ASSUME TypeOK, NEW r \in Requests
    PROVE  /\ req[r].seen \in Versions /\ req[r].prices \in Versions /\ req[r].shares \in Nat
           /\ req[r].outcome \in {"none", "executed", "nothing"}
           /\ Order(r).amount \in Nat /\ Order(r).minOutput \in Nat /\ Order(r).buy \in BOOLEAN
           /\ Len(executed) \in Nat
<1>1. req[r] \in Request
    BY DEF TypeOK
<1>2. /\ req[r].seen \in Versions /\ req[r].prices \in Versions /\ req[r].shares \in 0..MaxShares
      /\ req[r].outcome \in {"none", "executed", "nothing"}
    BY <1>1 DEF Request
<1>3. Order(r) \in [buy: BOOLEAN, amount: 0..MaxShares, minOutput: 0..MaxShares]
    BY OrderType
<1>4. Len(executed) \in Nat
    BY DEF TypeOK
<1>5. QED
    BY <1>2, <1>3, <1>4, VersionsType

\* A page shows what it has shown or what it is shown.
LEMMA PageFacts ==
    ASSUME TypeOK, page.version <= Len(executed),
           NEW v \in Versions, v <= Len(executed),
           NEW shown, shown \in {Actual(v), Projected(v)}
    PROVE  /\ shown \in Shown /\ shown.version <= Len(executed)
           /\ Event(shown) \in Shown /\ Event(shown).version <= Len(executed)
<1>1. shown \in Shown /\ shown.version = v
    <2>1. CASE shown = Actual(v)
        BY <2>1 DEF Actual, Shown
    <2>2. CASE shown = Projected(v)
        BY <2>2 DEF Projected, Shown
    <2>3. QED
        BY <2>1, <2>2
<1>2. Event(shown) = shown \/ Event(shown) = page
    BY DEF Event
<1>3. page \in Shown
    BY DEF TypeOK
<1>4. QED
    BY <1>1, <1>2, <1>3

LEMMA FaultFacts ==
    ASSUME TypeOK
    PROVE  /\ Fault => /\ faults' \in Nat /\ surprises' \in Nat /\ faults' # 0
                       /\ faults' + surprises' <= MaxTrouble
           /\ Surprise => /\ faults' = faults /\ surprises' \in Nat
                          /\ faults' + surprises' <= MaxTrouble
    BY VersionsType DEF TypeOK, Fault, Surprise, Troubled

LEMMA TradingInit == Init => TradingInv
<1> SUFFICES ASSUME Init PROVE TradingInv
    OBVIOUS
<1>1. PICK carries \in Sent :
          req = [r \in Requests |->
                    [at |-> "start", intent |-> carries[r], provisional |-> FALSE, seen |-> 0,
                     outcome |-> "none", shares |-> 0, prices |-> 0, row |-> NoRow]]
    BY DEF Init
<1>2. carries \in [Requests -> Intents]
    BY SignedAssumption
<1>3. req \in [Requests -> Request]
    BY <1>1, <1>2, VersionsType DEF Request
<1>4. Executors = {}
    BY <1>1 DEF Executors
<1>5. Len(executed) = 0 /\ DOMAIN executed = {} /\ Cardinality(Executors) = 0
    BY <1>4, FS_EmptySet DEF Init
<1>6. executed \in Seq([intent: Intents, shares: 0..MaxShares])
    BY DEF Init
<1>7. TypeOK
    BY <1>3, <1>5, <1>6, VersionsType DEF Init, TypeOK, Actual, Shown, NoRow
<1>8. OutcomesInv /\ VersionsInv
    BY <1>1, <1>4, <1>5 DEF Init, OutcomesInv, VersionsInv, After, NoTx, NoRow, Actual
<1>9. FilledInv /\ BookedInv /\ ExclusiveInv
    BY <1>1, <1>5 DEF Init, FilledInv, BookedInv, ExclusiveInv, After, Holding, NoTx
<1>10. QED
    BY <1>7, <1>8, <1>9 DEF TradingInv

\* What a step of one request leaves alone: the other requests, what its own
\* carries, and what the chain has made of it.
Turns(r) ==
    /\ req' \in [Requests -> Request]
    /\ \A s \in Requests : s # r => req'[s] = req[s]
    /\ \A s \in Requests :
          /\ req'[s].intent = req[s].intent
          /\ req'[s].outcome = req[s].outcome
          /\ req'[s].shares = req[s].shares

LEMMA GoesTurns ==
    ASSUME TypeOK, NEW r \in Requests, NEW place \in Places, Goes(r, place)
    PROVE  /\ Turns(r)
           /\ req'[r].at = place
           /\ req'[r].prices = req[r].prices /\ req'[r].seen = req[r].seen
<1>1. req[r] \in Request
    BY DEF TypeOK
<1>2. [req[r] EXCEPT !.at = place] \in Request
    BY <1>1 DEF Request, Places, Before, After, Holding
<1>3. req' = [req EXCEPT ![r] = [@ EXCEPT !.at = place]]
    BY DEF Goes
<1>4. QED
    BY <1>1, <1>2, <1>3 DEF TypeOK, Turns, Request

LEMMA EndsTurns ==
    ASSUME TypeOK, NEW r \in Requests, NEW place \in Places, Ends(r, place)
    PROVE  /\ Turns(r)
           /\ req'[r].at = place
           /\ req'[r].prices = 0 /\ req'[r].seen = 0
<1>1. req[r] \in Request
    BY DEF TypeOK
<1>2. [req[r] EXCEPT !.at = place, !.provisional = FALSE, !.seen = 0, !.prices = 0, !.row = NoRow] \in Request
    BY <1>1, VersionsType DEF Request, Places, Before, After, Holding
<1>3. QED
    BY <1>1, <1>2 DEF TypeOK, Ends, Turns, Request

LEMMA RecordTurns ==
    ASSUME TypeOK, NEW r \in Requests, NEW rec \in Request,
           rec.intent = req[r].intent, rec.outcome = req[r].outcome, rec.shares = req[r].shares,
           req' = [req EXCEPT ![r] = rec]
    PROVE  Turns(r) /\ req'[r] = rec
    BY DEF TypeOK, Turns

\* Steps that leave the chain alone keep what is known of it.
LEMMA ChainKept ==
    ASSUME TradingInv, NEW r \in Requests, Turns(r), UNCHANGED executed
    PROVE  /\ Executors' = Executors
           /\ (Len(executed) = Cardinality(Executors))'
           /\ \A s \in Executors' : \E n \in DOMAIN executed' :
                 executed'[n] = [intent |-> req'[s].intent, shares |-> req'[s].shares]
           /\ \A s \in Executors' : Order(s)'.buy => req'[s].shares >= Order(s)'.minOutput
           /\ \A s \in Requests : Order(s)' = Order(s)
<1>1. Executors' = Executors
    BY DEF Turns, Executors
<1>2. \A s \in Executors : \E n \in DOMAIN executed :
          executed[n] = [intent |-> req[s].intent, shares |-> req[s].shares]
    BY DEF TradingInv, OutcomesInv
<1>3. \A s \in Executors : \E n \in DOMAIN executed' :
          executed'[n] = [intent |-> req'[s].intent, shares |-> req'[s].shares]
    BY <1>2 DEF Turns, Executors
<1>4. Len(executed) = Cardinality(Executors)
    BY DEF TradingInv, OutcomesInv
<1>5. (Len(executed) = Cardinality(Executors))'
    BY <1>1, <1>4
<1>6. \A s \in Requests : Order(s)' = Order(s)
    BY DEF Turns, Order
<1>7. \A s \in Executors : Order(s)'.buy => req'[s].shares >= Order(s)'.minOutput
    <2>1. \A s \in Executors : Order(s).buy => req[s].shares >= Order(s).minOutput
        BY DEF TradingInv, OutcomesInv
    <2>2. QED
        BY <1>6, <2>1 DEF Turns, Executors
<1>8. QED
    BY <1>1, <1>3, <1>5, <1>6, <1>7

\* A step of one request that neither sends a transaction nor is one: what it
\* must see to for the invariant to be kept.
Lawful(r) ==
    /\ tx' = tx /\ executed' = executed
    /\ \/ tx = NoTx \/ tx # r
       \/ /\ req[r].at \in {"receipt", "failing"} /\ req'[r].at \in {"failing", "failed"}
          /\ faults' = 0 => req[r].at = "failing"
    /\ req'[r].at \in Before \cup {"refused"} => req[r].at \in Before
    /\ req'[r].at \in After =>
          \/ req[r].at \in After
          \/ /\ req[r].outcome # "none"
             /\ Order(r).buy /\ Order(r).minOutput > 0 => req[r].outcome = "executed"
    /\ faults' = 0 => faults = 0
    /\ trades \subseteq trades'
    /\ req'[r].at \in {"read", "write", "answer", "success"} /\ faults' = 0 => r \in trades'
    /\ req'[r].at # "gone"
    /\ faults' = 0 /\ req[r].outcome = "executed" => req'[r].at \in {"receipt"} \cup After
    /\ \/ key' = key /\ (req'[r].at \in Holding => req[r].at \in Holding)
       \/ key' = key \ {req[r].intent} /\ req[r].at \in Holding /\ req'[r].at \notin Holding
       \/ req[r].intent \notin key /\ key' = key \cup {req[r].intent}

LEMMA TurnKeeps ==
    ASSUME TradingInv, NEW r \in Requests, Turns(r), Lawful(r), TypeOK', VersionsInv'
    PROVE  TradingInv'
<1>0. executed' = executed /\ tx' = tx
    BY DEF Lawful
<1>1. OutcomesInv'
    <2>1. \A s \in Requests :
          /\ req'[s].at \in Before \cup {"refused"} => req'[s].outcome = "none"
          /\ req'[s].at \in After => req'[s].outcome # "none"
        BY DEF TradingInv, OutcomesInv, Turns, Lawful
    <2>2. tx' # NoTx => /\ req'[tx'].outcome = "none"
                        /\ req'[tx'].at \in {"receipt", "failing", "failed", "gone"}
        BY DEF TradingInv, TypeOK, OutcomesInv, Turns, Lawful
    <2>3. QED
        BY <2>1, <2>2, <1>0, ChainKept DEF OutcomesInv
<1>2. FilledInv'
    BY <1>0, ChainKept DEF TradingInv, FilledInv, Turns, Lawful
<1>3. BookedInv'
    BY DEF TradingInv, BookedInv, Turns, Lawful
<1>4. ExclusiveInv'
    <2> SUFFICES ASSUME faults' = 0 PROVE ExclusiveInv'
        BY DEF ExclusiveInv
    <2>1. /\ \A s \in Requests :
                /\ req[s].at # "gone"
                /\ req[s].at \in Holding => req[s].intent \in key
                /\ req[s].outcome = "executed" => req[s].at \in {"receipt"} \cup After
          /\ tx # NoTx => req[tx].at = "receipt"
          /\ \A q, s \in Requests :
                req[q].at \in Holding /\ req[s].at \in Holding /\ req[q].intent = req[s].intent => q = s
          /\ \A n \in DOMAIN executed : \E s \in Executors : executed[n].intent = req[s].intent
          /\ \A m, n \in DOMAIN executed : executed[m].intent = executed[n].intent => m = n
        BY DEF TradingInv, ExclusiveInv, Lawful
    <2>2. \A s \in Requests :
                /\ req'[s].at # "gone"
                /\ req'[s].outcome = "executed" => req'[s].at \in {"receipt"} \cup After
        BY <2>1 DEF Turns, Lawful
    <2>3. \A s \in Requests : req'[s].at \in Holding => req'[s].intent \in key'
        BY <2>1 DEF Turns, Lawful
    <2>4. tx' # NoTx => req'[tx'].at = "receipt"
        BY <2>1 DEF Turns, Lawful, TradingInv, TypeOK
    <2>5. \A q, s \in Requests :
             req'[q].at \in Holding /\ req'[s].at \in Holding /\ req'[q].intent = req'[s].intent => q = s
        BY <2>1 DEF Turns, Lawful
    <2>6. \A n \in DOMAIN executed' : \E s \in Executors' : executed'[n].intent = req'[s].intent
        BY <2>1, <1>0, ChainKept DEF Turns, Executors
    <2>7. \A m, n \in DOMAIN executed' : executed'[m].intent = executed'[n].intent => m = n
        BY <1>0, <2>1
    <2>8. QED
        BY <2>2, <2>3, <2>4, <2>5, <2>6, <2>7 DEF ExclusiveInv
<1>5. QED
    BY <1>1, <1>2, <1>3, <1>4 DEF TradingInv

LEMMA RefuseStep ==
    ASSUME TradingInv, NEW r \in Requests, Refuse(r)
    PROVE  TradingInv'
<1>1. /\ Turns(r)
      /\ req'[r].at = "refused" /\ req'[r].prices = 0 /\ req'[r].seen = 0
    BY EndsTurns, VersionsType DEF TradingInv, Refuse, Places, Before, After, Holding
<1>2. TypeOK'
    BY <1>1 DEF TradingInv, TypeOK, Refuse, Turns, books, prices, history
<1>3. VersionsInv'
    BY <1>1 DEF TradingInv, TypeOK, VersionsInv, Refuse, Turns, prices
<1>4. (tx = NoTx \/ tx # r) /\ req[r].outcome = "none"
    BY DEF TradingInv, OutcomesInv, Refuse, At, Before, After
<1>5. Lawful(r)
    BY <1>1, <1>2, <1>4
    DEF Refuse, At, Lawful, Before, After, Holding, books, history, TradingInv
<1>6. QED
    BY <1>1, <1>2, <1>3, <1>5, TurnKeeps

LEMMA ReadMarketToSellStep ==
    ASSUME TradingInv, NEW r \in Requests, ReadMarketToSell(r)
    PROVE  TradingInv'
<1>1. /\ Turns(r)
      /\ req'[r].at = "reserve"
      /\ req'[r].prices = req[r].prices /\ req'[r].seen = req[r].seen
    BY GoesTurns, VersionsType DEF TradingInv, ReadMarketToSell, Places, Before, After, Holding
<1>2. TypeOK'
    BY <1>1 DEF TradingInv, TypeOK, ReadMarketToSell, Turns, books, prices, history
<1>3. VersionsInv'
    BY <1>1 DEF TradingInv, TypeOK, VersionsInv, ReadMarketToSell, Turns, prices
<1>4. (tx = NoTx \/ tx # r) /\ req[r].outcome = "none"
    BY DEF TradingInv, OutcomesInv, ReadMarketToSell, At, Before, After
<1>5. Lawful(r)
    BY <1>1, <1>2, <1>4
    DEF ReadMarketToSell, At, Lawful, Before, After, Holding, books, history, TradingInv
<1>6. QED
    BY <1>1, <1>2, <1>3, <1>5, TurnKeeps

LEMMA ProceedToSellStep ==
    ASSUME TradingInv, NEW r \in Requests, ProceedToSell(r)
    PROVE  TradingInv'
<1>1. /\ Turns(r)
      /\ req'[r].at = "send"
      /\ req'[r].prices = req[r].prices /\ req'[r].seen = req[r].seen
    BY GoesTurns, VersionsType DEF TradingInv, ProceedToSell, Places, Before, After, Holding
<1>2. TypeOK'
    BY <1>1 DEF TradingInv, TypeOK, ProceedToSell, Turns, books, prices, history
<1>3. VersionsInv'
    BY <1>1 DEF TradingInv, TypeOK, VersionsInv, ProceedToSell, Turns, prices
<1>4. (tx = NoTx \/ tx # r) /\ req[r].outcome = "none"
    BY DEF TradingInv, OutcomesInv, ProceedToSell, At, Before, After
<1>5. Lawful(r)
    BY <1>1, <1>2, <1>4
    DEF ProceedToSell, At, Lawful, Before, After, Holding, books, history, TradingInv
<1>6. QED
    BY <1>1, <1>2, <1>3, <1>5, TurnKeeps

LEMMA ReceiptOfSellStep ==
    ASSUME TradingInv, NEW r \in Requests, ReceiptOfSell(r)
    PROVE  TradingInv'
<1>1. /\ Turns(r)
      /\ req'[r].at = "prices"
      /\ req'[r].prices = req[r].prices /\ req'[r].seen = req[r].seen
    BY GoesTurns, VersionsType DEF TradingInv, ReceiptOfSell, Places, Before, After, Holding
<1>2. TypeOK'
    BY <1>1 DEF TradingInv, TypeOK, ReceiptOfSell, Turns, books, prices, history
<1>3. VersionsInv'
    BY <1>1 DEF TradingInv, TypeOK, VersionsInv, ReceiptOfSell, Turns, prices
<1>4. (tx = NoTx \/ tx # r) /\ req[r].outcome # "none"
    BY DEF TradingInv, OutcomesInv, ReceiptOfSell, At, Before, After
<1>5. Lawful(r)
    BY <1>1, <1>2, <1>4
    DEF ReceiptOfSell, At, Lawful, Before, After, Holding, books, history, TradingInv
<1>6. QED
    BY <1>1, <1>2, <1>3, <1>5, TurnKeeps

LEMMA ReceiptOfBuyStep ==
    ASSUME TradingInv, NEW r \in Requests, ReceiptOfBuy(r)
    PROVE  TradingInv'
<1>1. /\ Turns(r)
      /\ req'[r].at = IF Short(r) THEN "failing" ELSE "prices"
      /\ req'[r].prices = req[r].prices /\ req'[r].seen = req[r].seen
    BY GoesTurns, VersionsType DEF TradingInv, ReceiptOfBuy, Places, Before, After, Holding
<1>2. TypeOK'
    BY <1>1 DEF TradingInv, TypeOK, ReceiptOfBuy, Turns, books, prices, history
<1>3. VersionsInv'
    BY <1>1 DEF TradingInv, TypeOK, VersionsInv, ReceiptOfBuy, Turns, prices
<1>4. (tx = NoTx \/ tx # r) /\ req[r].outcome # "none"
    BY DEF TradingInv, OutcomesInv, ReceiptOfBuy, At, Before, After
<1>5. Lawful(r)
    BY <1>1, <1>2, <1>4, RequestFacts
    DEF ReceiptOfBuy, At, Lawful, Before, After, Holding, books, history, TradingInv, Short, OutcomesInv, Executors
<1>6. QED
    BY <1>1, <1>2, <1>3, <1>5, TurnKeeps

LEMMA PublishStep ==
    ASSUME TradingInv, NEW r \in Requests, Publish(r)
    PROVE  TradingInv'
<1>0. page' \in Shown /\ page'.version <= Len(executed)
    <2>1. req[r].prices \in Versions /\ req[r].prices <= Len(executed) /\ page.version <= Len(executed)
        BY RequestFacts DEF TradingInv, VersionsInv
    <2>2. page \in Shown
        BY DEF TradingInv, TypeOK
    <2>3. LET shown == Actual(req[r].prices) IN
              /\ shown \in Shown /\ shown.version <= Len(executed)
              /\ Event(shown) \in Shown /\ Event(shown).version <= Len(executed)
        BY <2>1, PageFacts DEF TradingInv
    <2>4. QED
        BY <2>1, <2>2, <2>3 DEF Publish
<1>1. /\ Turns(r)
      /\ req'[r].at = "insert"
      /\ req'[r].prices = req[r].prices /\ req'[r].seen = req[r].seen
    BY GoesTurns, VersionsType DEF TradingInv, Publish, Places, Before, After, Holding
<1>r. rowPrices' \in 0..Len(executed)
    BY RequestFacts DEF TradingInv, VersionsInv, TypeOK, Publish, Versions
<1>2. TypeOK'
    BY <1>1, <1>0, <1>r DEF TradingInv, TypeOK, Publish, Turns, books, prices, history
<1>3. VersionsInv'
    BY <1>1, <1>0 DEF TradingInv, TypeOK, VersionsInv, Publish, Turns, prices
<1>4. (tx = NoTx \/ tx # r) /\ req[r].outcome # "none"
    BY DEF TradingInv, OutcomesInv, Publish, At, Before, After
<1>5. Lawful(r)
    BY <1>1, <1>2, <1>4
    DEF Publish, At, Lawful, Before, After, Holding, books, history, TradingInv
<1>6. QED
    BY <1>1, <1>2, <1>3, <1>5, TurnKeeps

LEMMA PublishFailsStep ==
    ASSUME TradingInv, NEW r \in Requests, PublishFails(r)
    PROVE  TradingInv'
<1>0. page' \in Shown /\ page'.version <= Len(executed)
    <2>1. req[r].prices \in Versions /\ req[r].prices <= Len(executed) /\ page.version <= Len(executed)
        BY RequestFacts DEF TradingInv, VersionsInv
    <2>2. page \in Shown
        BY DEF TradingInv, TypeOK
    <2>3. LET shown == Actual(req[r].prices) IN
              /\ shown \in Shown /\ shown.version <= Len(executed)
              /\ Event(shown) \in Shown /\ Event(shown).version <= Len(executed)
        BY <2>1, PageFacts DEF TradingInv
    <2>4. QED
        BY <2>1, <2>2, <2>3 DEF PublishFails
<1>1. /\ Turns(r)
      /\ req'[r].at = "failing"
      /\ req'[r].prices = req[r].prices /\ req'[r].seen = req[r].seen
    BY GoesTurns, VersionsType DEF TradingInv, PublishFails, Places, Before, After, Holding
<1>h. /\ faults' \in Nat /\ surprises' \in Nat /\ faults' + surprises' <= MaxTrouble
      /\ faults' = 0 => faults = 0
      /\ faults' # 0
    <2>1. TypeOK
        BY DEF TradingInv
    <2>2. faults \in Nat /\ surprises \in Nat /\ faults + surprises <= MaxTrouble
        BY <2>1 DEF TypeOK
    <2>3. QED
        BY <2>1, <2>2, FaultFacts DEF PublishFails, history
<1>r. rowPrices' \in 0..Len(executed)
    BY RequestFacts DEF TradingInv, VersionsInv, TypeOK, PublishFails, Versions
<1>u. UNCHANGED <<key, tx, executed, held, trades, position, connected, fetched>>
    BY DEF PublishFails, books
<1>2. TypeOK'
    BY <1>1, <1>0, <1>r, <1>h, <1>u DEF TradingInv, TypeOK, Turns
<1>3. VersionsInv'
    BY <1>1, <1>0 DEF TradingInv, TypeOK, VersionsInv, PublishFails, Turns, prices
<1>4. (tx = NoTx \/ tx # r) /\ req[r].outcome # "none"
    BY DEF TradingInv, OutcomesInv, PublishFails, At, Before, After
<1>5. Lawful(r)
    <2>1. req[r].at = "publish"
        BY DEF PublishFails, At
    <2>2. QED
        BY <1>1, <1>4, <1>h, <1>u, <2>1 DEF Lawful, Before, After, Holding
<1>6. QED
    BY <1>1, <1>2, <1>3, <1>5, TurnKeeps

LEMMA InsertTradeStep ==
    ASSUME TradingInv, NEW r \in Requests, InsertTrade(r)
    PROVE  TradingInv'
<1>1. /\ Turns(r)
      /\ req'[r].at = "read"
      /\ req'[r].prices = req[r].prices /\ req'[r].seen = req[r].seen
    BY GoesTurns, VersionsType DEF TradingInv, InsertTrade, Places, Before, After, Holding
<1>h. /\ faults' \in Nat /\ surprises' \in Nat /\ faults' + surprises' <= MaxTrouble
      /\ faults' = 0 => faults = 0 /\ (faults' = 0 => r \in trades')
      /\ trades \subseteq trades'
    <2>1. TypeOK
        BY DEF TradingInv
    <2>2. faults \in Nat /\ surprises \in Nat /\ faults + surprises <= MaxTrouble
        BY <2>1 DEF TypeOK
    <2>3. QED
        BY <2>1, <2>2, FaultFacts DEF InsertTrade, history
<1>2. TypeOK'
    BY <1>1, <1>h DEF TradingInv, TypeOK, InsertTrade, Turns, books, prices, history
<1>3. VersionsInv'
    BY <1>1 DEF TradingInv, TypeOK, VersionsInv, InsertTrade, Turns, prices
<1>4. (tx = NoTx \/ tx # r) /\ req[r].outcome # "none"
    BY DEF TradingInv, OutcomesInv, InsertTrade, At, Before, After
<1>5. Lawful(r)
    BY <1>1, <1>2, <1>4, <1>h
    DEF InsertTrade, At, Lawful, Before, After, Holding, books, history, TradingInv
<1>6. QED
    BY <1>1, <1>2, <1>3, <1>5, TurnKeeps

LEMMA GiveUpSellStep ==
    ASSUME TradingInv, NEW r \in Requests, GiveUpSell(r)
    PROVE  TradingInv'
<1>1. /\ Turns(r)
      /\ req'[r].at = "failed" /\ req'[r].prices = 0 /\ req'[r].seen = 0
    BY EndsTurns, VersionsType DEF TradingInv, GiveUpSell, Places, Before, After, Holding
<1>2. TypeOK'
    BY <1>1 DEF TradingInv, TypeOK, GiveUpSell, Turns, books, prices, history
<1>3. VersionsInv'
    BY <1>1 DEF TradingInv, TypeOK, VersionsInv, GiveUpSell, Turns, prices
<1>4. faults = 0 => req[r].outcome # "executed"
    BY DEF TradingInv, ExclusiveInv, GiveUpSell, At, After
<1>5. Lawful(r)
    BY <1>1, <1>2, <1>4
    DEF GiveUpSell, At, Lawful, Before, After, Holding, books, history, TradingInv
<1>6. QED
    BY <1>1, <1>2, <1>3, <1>5, TurnKeeps

LEMMA GiveUpBuyStep ==
    ASSUME TradingInv, NEW r \in Requests, GiveUpBuy(r)
    PROVE  TradingInv'
<1>0. page' \in Shown /\ page'.version <= Len(executed)
    <2>1. req[r].seen \in Versions /\ req[r].seen <= Len(executed) /\ page.version <= Len(executed)
        BY RequestFacts DEF TradingInv, VersionsInv
    <2>2. page \in Shown
        BY DEF TradingInv, TypeOK
    <2>3. LET shown == Actual(req[r].seen) IN
              /\ shown \in Shown /\ shown.version <= Len(executed)
              /\ Event(shown) \in Shown /\ Event(shown).version <= Len(executed)
        BY <2>1, PageFacts DEF TradingInv
    <2>4. QED
        BY <2>1, <2>2, <2>3 DEF GiveUpBuy
<1>1. /\ Turns(r)
      /\ req'[r].at = "failed" /\ req'[r].prices = 0 /\ req'[r].seen = 0
    BY EndsTurns, VersionsType DEF TradingInv, GiveUpBuy, Places, Before, After, Holding
<1>2. TypeOK'
    BY <1>1, <1>0 DEF TradingInv, TypeOK, GiveUpBuy, Turns, books, prices, history
<1>3. VersionsInv'
    BY <1>1, <1>0 DEF TradingInv, TypeOK, VersionsInv, GiveUpBuy, Turns, prices
<1>4. faults = 0 => req[r].outcome # "executed"
    BY DEF TradingInv, ExclusiveInv, GiveUpBuy, At, After
<1>5. Lawful(r)
    BY <1>1, <1>2, <1>4
    DEF GiveUpBuy, At, Lawful, Before, After, Holding, books, history, TradingInv
<1>6. QED
    BY <1>1, <1>2, <1>3, <1>5, TurnKeeps

LEMMA AnswerStep ==
    ASSUME TradingInv, NEW r \in Requests, Answer(r)
    PROVE  TradingInv'
<1>0. page' \in Shown /\ page'.version <= Len(executed)
    <2>1. req[r].prices \in Versions /\ req[r].prices <= Len(executed) /\ page.version <= Len(executed)
        BY RequestFacts DEF TradingInv, VersionsInv
    <2>2. page \in Shown
        BY DEF TradingInv, TypeOK
    <2>3. LET shown == Actual(req[r].prices) IN
              /\ shown \in Shown /\ shown.version <= Len(executed)
              /\ Event(shown) \in Shown /\ Event(shown).version <= Len(executed)
        BY <2>1, PageFacts DEF TradingInv
    <2>4. QED
        BY <2>1, <2>2, <2>3 DEF Answer
<1>1. /\ Turns(r)
      /\ req'[r].at = "success" /\ req'[r].prices = 0 /\ req'[r].seen = 0
    BY EndsTurns, VersionsType DEF TradingInv, Answer, Places, Before, After, Holding
<1>2. TypeOK'
    BY <1>1, <1>0 DEF TradingInv, TypeOK, Answer, Turns, books, prices, history
<1>3. VersionsInv'
    BY <1>1, <1>0 DEF TradingInv, TypeOK, VersionsInv, Answer, Turns, prices
<1>4. (tx = NoTx \/ tx # r) /\ req[r].outcome # "none"
    BY DEF TradingInv, OutcomesInv, Answer, At, Before, After
<1>5. Lawful(r)
    BY <1>1, <1>2, <1>4
    DEF Answer, At, Lawful, Before, After, Holding, books, history, TradingInv, BookedInv
<1>6. QED
    BY <1>1, <1>2, <1>3, <1>5, TurnKeeps

LEMMA ReserveStep ==
    ASSUME TradingInv, NEW r \in Requests, Reserve(r)
    PROVE  TradingInv'
<1>1. /\ Turns(r)
      /\ req'[r].at = IF req[r].intent \in key THEN "refused" ELSE "check"
      /\ req'[r].prices <= Len(executed) /\ req'[r].seen <= Len(executed)
    <2>1. Len(executed) \in Nat /\ req[r].prices <= Len(executed) /\ req[r].seen <= Len(executed)
        BY RequestFacts DEF TradingInv, VersionsInv
    <2>2. CASE req[r].intent \in key
        BY <2>1, <2>2, EndsTurns DEF TradingInv, Reserve, Places
    <2>3. CASE req[r].intent \notin key
        BY <2>1, <2>3, GoesTurns DEF TradingInv, Reserve, Places, Before, Holding
    <2>4. QED
        BY <2>2, <2>3
<1>2. key' = IF req[r].intent \in key THEN key ELSE key \cup {req[r].intent}
    BY DEF Reserve
<1>3. TypeOK'
    <2>1. req[r].intent \in Intents
        BY DEF TradingInv, TypeOK, Request
    <2>2. QED
        BY <1>1, <1>2, <2>1 DEF TradingInv, TypeOK, Reserve, Turns, books, prices, history
<1>4. VersionsInv'
    BY <1>1 DEF TradingInv, TypeOK, VersionsInv, Reserve, Turns, prices
<1>5. Lawful(r)
    <2>1. (tx = NoTx \/ tx # r) /\ req[r].outcome = "none" /\ req[r].at = "reserve"
        BY DEF TradingInv, OutcomesInv, Reserve, At, Before
    <2>2. tx' = tx /\ executed' = executed /\ trades' = trades /\ faults' = faults
        BY DEF Reserve, books, history
    <2>3. QED
        BY <1>1, <1>2, <2>1, <2>2 DEF Lawful, Before, After, Holding
<1>6. QED
    BY <1>1, <1>3, <1>4, <1>5, TurnKeeps

LEMMA ReadMarketToBuyStep ==
    ASSUME TradingInv, NEW r \in Requests, ReadMarketToBuy(r)
    PROVE  TradingInv'
<1> DEFINE rec == [req[r] EXCEPT !.at = "reserve", !.seen = rowPrices]
<1>1. rec \in Request /\ rowPrices \in Versions /\ rowPrices <= Len(executed)
    <2>1. rowPrices \in Versions /\ rowPrices <= Len(executed)
        BY VersionsType DEF TradingInv, TypeOK, Versions
    <2>2. req[r] \in Request
        BY DEF TradingInv, TypeOK
    <2>3. QED
        BY <2>1, <2>2 DEF Request
<1>2. /\ Turns(r)
      /\ req'[r].at = "reserve"
      /\ req'[r].prices = req[r].prices /\ req'[r].seen = rowPrices
    <2>1. req' = [req EXCEPT ![r] = rec]
        BY DEF ReadMarketToBuy
    <2>2. req[r] \in Request
        BY DEF TradingInv, TypeOK
    <2>3. /\ rec.at = "reserve" /\ rec.seen = rowPrices /\ rec.prices = req[r].prices
          /\ rec.intent = req[r].intent /\ rec.outcome = req[r].outcome /\ rec.shares = req[r].shares
        BY <2>2 DEF Request
    <2> HIDE DEF rec
    <2>4. QED
        BY <1>1, <2>1, <2>3, RecordTurns DEF TradingInv
<1>3. TypeOK'
    BY <1>2 DEF TradingInv, TypeOK, ReadMarketToBuy, Turns, books, prices, history
<1>4. VersionsInv'
    BY <1>1, <1>2 DEF TradingInv, TypeOK, VersionsInv, ReadMarketToBuy, Turns, prices
<1>5. Lawful(r)
    <2>1. (tx = NoTx \/ tx # r) /\ req[r].outcome = "none" /\ req[r].at = "start"
        BY DEF TradingInv, OutcomesInv, ReadMarketToBuy, At, Before
    <2>2. tx' = tx /\ executed' = executed /\ trades' = trades /\ faults' = faults /\ key' = key
        BY DEF ReadMarketToBuy, books, history
    <2>3. QED
        BY <1>2, <2>1, <2>2 DEF Lawful, Before, After, Holding
<1>6. QED
    BY <1>2, <1>3, <1>4, <1>5, TurnKeeps

LEMMA ProceedToBuyStep ==
    ASSUME TradingInv, NEW r \in Requests, ProceedToBuy(r)
    PROVE  TradingInv'
<1> DEFINE rec == [req[r] EXCEPT !.at = "send", !.provisional = TRUE]
<1>1. /\ Turns(r)
      /\ req'[r].at = "send"
      /\ req'[r].prices = req[r].prices /\ req'[r].seen = req[r].seen
    <2>1. CASE Goes(r, "send")
        BY <2>1, GoesTurns DEF TradingInv, Places, Before
    <2>2. CASE req' = [req EXCEPT ![r] = rec]
        <3>1. req[r] \in Request
            BY DEF TradingInv, TypeOK
        <3>2. /\ rec \in Request
              /\ rec.at = "send" /\ rec.seen = req[r].seen /\ rec.prices = req[r].prices
              /\ rec.intent = req[r].intent /\ rec.outcome = req[r].outcome
              /\ rec.shares = req[r].shares
            BY <3>1 DEF Request
        <3> HIDE DEF rec
        <3>3. QED
            BY <2>2, <3>2, RecordTurns DEF TradingInv
    <2>3. Goes(r, "send") \/ req' = [req EXCEPT ![r] = rec]
        BY DEF ProceedToBuy
    <2>4. QED
        BY <2>1, <2>2, <2>3
<1>2. page' \in Shown /\ page'.version <= Len(executed)
    <2>1. req[r].seen \in Versions /\ req[r].seen <= Len(executed) /\ page.version <= Len(executed)
        BY RequestFacts DEF TradingInv, VersionsInv
    <2>2. page \in Shown
        BY DEF TradingInv, TypeOK
    <2>3. LET shown == Projected(req[r].seen) IN
              Event(shown) \in Shown /\ Event(shown).version <= Len(executed)
        BY <2>1, PageFacts DEF TradingInv
    <2>4. QED
        BY <2>1, <2>2, <2>3 DEF ProceedToBuy, prices
<1>3. UNCHANGED <<key, tx, executed, held, trades, position, rowPrices, connected, fetched, faults, surprises>>
    BY DEF ProceedToBuy, books, prices, history
<1>4. TypeOK'
    BY <1>1, <1>2, <1>3 DEF TradingInv, TypeOK, Turns
<1>5. VersionsInv'
    BY <1>1, <1>2, <1>3 DEF TradingInv, VersionsInv, Turns
<1>6. Lawful(r)
    <2>1. (tx = NoTx \/ tx # r) /\ req[r].outcome = "none" /\ req[r].at = "check"
        BY DEF TradingInv, OutcomesInv, ProceedToBuy, At, Before
    <2>2. QED
        BY <1>1, <1>3, <2>1 DEF Lawful, Before, After, Holding
<1>7. QED
    BY <1>1, <1>4, <1>5, <1>6, TurnKeeps

LEMMA ReadPricesStep ==
    ASSUME TradingInv, NEW r \in Requests, ReadPrices(r)
    PROVE  TradingInv'
<1> DEFINE rec == [req[r] EXCEPT !.at = "publish", !.prices = Len(executed)]
<1>1. Len(executed) \in Versions /\ Len(executed) \in Nat /\ TypeOK
    BY RequestFacts DEF TradingInv, TypeOK
<1>2. /\ Turns(r)
      /\ req'[r].at \in {"publish", "insert"}
      /\ req'[r].prices <= Len(executed) /\ req'[r].seen <= Len(executed)
    <2>1. req[r].prices <= Len(executed) /\ req[r].seen <= Len(executed)
        BY DEF TradingInv, VersionsInv
    <2>2. CASE Goes(r, "insert")
        BY <1>1, <2>1, <2>2, GoesTurns DEF Places, After, Holding
    <2>3. CASE req' = [req EXCEPT ![r] = rec]
        <3>1. req[r] \in Request
            BY <1>1 DEF TypeOK
        <3>2. /\ rec \in Request
              /\ rec.at = "publish" /\ rec.seen = req[r].seen /\ rec.prices = Len(executed)
              /\ rec.intent = req[r].intent /\ rec.outcome = req[r].outcome
              /\ rec.shares = req[r].shares
            BY <1>1, <3>1 DEF Request
        <3> HIDE DEF rec
        <3>3. Turns(r) /\ req'[r] = rec
            BY <1>1, <2>3, <3>2, RecordTurns
        <3>4. QED
            BY <1>1, <2>1, <3>2, <3>3
    <2>4. Goes(r, "insert") \/ req' = [req EXCEPT ![r] = rec]
        BY DEF ReadPrices
    <2>5. QED
        BY <2>2, <2>3, <2>4
<1>3. /\ UNCHANGED <<key, tx, executed, held, trades, position, rowPrices, page, connected, fetched>>
      /\ faults' \in Nat /\ surprises' \in Nat /\ faults' + surprises' <= MaxTrouble
      /\ faults' = 0 => faults = 0
    <2>1. faults \in Nat /\ surprises \in Nat /\ faults + surprises <= MaxTrouble
        BY DEF TradingInv, TypeOK
    <2>2. QED
        BY <1>1, <2>1, FaultFacts DEF ReadPrices, books, prices, history
<1>4. TypeOK'
    BY <1>2, <1>3 DEF TradingInv, TypeOK, Turns
<1>5. VersionsInv'
    BY <1>2, <1>3 DEF TradingInv, VersionsInv, Turns
<1>6. Lawful(r)
    <2>1. (tx = NoTx \/ tx # r) /\ req[r].at = "prices"
        BY DEF TradingInv, OutcomesInv, ReadPrices, At, After
    <2>2. QED
        BY <1>2, <1>3, <2>1 DEF Lawful, Before, After, Holding
<1>7. QED
    BY <1>2, <1>4, <1>5, <1>6, TurnKeeps

LEMMA ReadPositionStep ==
    ASSUME TradingInv, NEW r \in Requests, ReadPosition(r)
    PROVE  TradingInv'
<1> DEFINE rec == [req[r] EXCEPT !.at = "write", !.row = position]
<1>1. TypeOK
    BY DEF TradingInv
<1>2. /\ Turns(r)
      /\ req'[r].at \in {"write", "answer"}
      /\ req'[r].prices = req[r].prices /\ req'[r].seen = req[r].seen
    <2>1. CASE Goes(r, "answer")
        BY <1>1, <2>1, GoesTurns DEF Places, After, Holding
    <2>2. CASE req' = [req EXCEPT ![r] = rec]
        <3>1. req[r] \in Request /\ position \in {NoRow} \cup Nat
            BY <1>1 DEF TypeOK
        <3>2. /\ rec \in Request
              /\ rec.at = "write" /\ rec.seen = req[r].seen /\ rec.prices = req[r].prices
              /\ rec.intent = req[r].intent /\ rec.outcome = req[r].outcome
              /\ rec.shares = req[r].shares
            BY <3>1 DEF Request
        <3> HIDE DEF rec
        <3>3. QED
            BY <1>1, <2>2, <3>2, RecordTurns
    <2>3. Goes(r, "answer") \/ req' = [req EXCEPT ![r] = rec]
        BY DEF ReadPosition
    <2>4. QED
        BY <2>1, <2>2, <2>3
<1>3. /\ UNCHANGED <<key, tx, executed, held, trades, position, rowPrices, page, connected, fetched>>
      /\ faults' \in Nat /\ surprises' \in Nat /\ faults' + surprises' <= MaxTrouble
      /\ faults' = 0 => faults = 0
    <2>1. faults \in Nat /\ surprises \in Nat /\ faults + surprises <= MaxTrouble
        BY DEF TradingInv, TypeOK
    <2>2. QED
        BY <1>1, <2>1, FaultFacts DEF ReadPosition, books, prices, history
<1>4. TypeOK'
    BY <1>2, <1>3 DEF TradingInv, TypeOK, Turns
<1>5. VersionsInv'
    BY <1>2, <1>3 DEF TradingInv, VersionsInv, Turns
<1>6. Lawful(r)
    <2>1. (tx = NoTx \/ tx # r) /\ req[r].at = "read" /\ (faults = 0 => r \in trades)
        BY DEF TradingInv, OutcomesInv, BookedInv, ReadPosition, At, After
    <2>2. QED
        BY <1>2, <1>3, <2>1 DEF Lawful, Before, After, Holding
<1>7. QED
    BY <1>2, <1>4, <1>5, <1>6, TurnKeeps

LEMMA WritePositionStep ==
    ASSUME TradingInv, NEW r \in Requests, WritePosition(r)
    PROVE  TradingInv'
<1> DEFINE rec == [req[r] EXCEPT !.at = "answer", !.row = NoRow, !.seen = 0]
<1>1. TypeOK /\ req[r] \in Request /\ Len(executed) \in Nat
    BY RequestFacts DEF TradingInv, TypeOK
<1>2. /\ Turns(r)
      /\ req'[r].at = "answer"
      /\ req'[r].prices = req[r].prices /\ req'[r].seen = 0
    <2>1. req' = [req EXCEPT ![r] = rec]
        BY DEF WritePosition
    <2>2. /\ rec \in Request
          /\ rec.at = "answer" /\ rec.seen = 0 /\ rec.prices = req[r].prices
          /\ rec.intent = req[r].intent /\ rec.outcome = req[r].outcome
          /\ rec.shares = req[r].shares
        BY <1>1, VersionsType DEF Request
    <2> HIDE DEF rec
    <2>3. QED
        BY <1>1, <2>1, <2>2, RecordTurns
<1>3. position' \in {NoRow} \cup Nat
    <2>1. /\ req[r].row \in {NoRow} \cup Nat /\ position \in {NoRow} \cup Nat
          /\ req[r].shares \in Nat /\ Order(r).amount \in Nat
        BY <1>1, RequestFacts DEF Request, TypeOK
    <2>2. Bought(r) \in {NoRow} \cup Nat
        BY <2>1 DEF Bought, NoRow
    <2>3. Sold(r) \in {NoRow} \cup Nat
        BY <2>1 DEF Sold, Minus, NoRow
    <2>4. QED
        BY <2>1, <2>2, <2>3 DEF WritePosition
<1>4. /\ UNCHANGED <<key, tx, executed, held, trades, rowPrices, page, connected, fetched>>
      /\ faults' \in Nat /\ surprises' \in Nat /\ faults' + surprises' <= MaxTrouble
      /\ faults' = 0 => faults = 0
    <2>1. faults \in Nat /\ surprises \in Nat /\ faults + surprises <= MaxTrouble
        BY DEF TradingInv, TypeOK
    <2>2. QED
        BY <1>1, <2>1, FaultFacts DEF WritePosition, books, prices, history
<1>5. TypeOK'
    BY <1>2, <1>3, <1>4 DEF TradingInv, TypeOK, Turns
<1>6. VersionsInv'
    BY <1>1, <1>2, <1>4 DEF TradingInv, VersionsInv, Turns
<1>7. Lawful(r)
    <2>1. (tx = NoTx \/ tx # r) /\ req[r].at = "write" /\ (faults = 0 => r \in trades)
        BY DEF TradingInv, OutcomesInv, BookedInv, WritePosition, At, After
    <2>2. QED
        BY <1>2, <1>4, <2>1 DEF Lawful, Before, After, Holding
<1>8. QED
    BY <1>2, <1>5, <1>6, <1>7, TurnKeeps

\* A transaction is sent, whether or not its sender learns of it.
LEMMA LaunchKeeps ==
    ASSUME TradingInv, NEW r \in Requests, Turns(r), TypeOK', VersionsInv',
           At(r, "send"), tx' = r, executed' = executed, key' = key, trades' = trades,
           \/ req'[r].at = "receipt" /\ faults' = faults
           \/ req'[r].at = "failing" /\ faults' # 0
    PROVE  TradingInv'
<1>1. req[r].at = "send" /\ req[r].outcome = "none"
    BY DEF TradingInv, OutcomesInv, At, Before
<1>2. OutcomesInv'
    <2>1. \A s \in Requests :
          /\ req'[s].at \in Before \cup {"refused"} => req'[s].outcome = "none"
          /\ req'[s].at \in After => req'[s].outcome # "none"
        BY <1>1 DEF TradingInv, OutcomesInv, Turns, Before, After
    <2>2. QED
        BY <1>1, <2>1, ChainKept DEF OutcomesInv, Turns
<1>3. FilledInv'
    BY <1>1, ChainKept DEF TradingInv, FilledInv, Turns, After
<1>4. BookedInv'
    BY <1>1 DEF TradingInv, BookedInv, Turns
<1>5. ExclusiveInv'
    <2> SUFFICES ASSUME faults' = 0 PROVE ExclusiveInv'
        BY DEF ExclusiveInv
    <2>1. /\ \A s \in Requests :
                /\ req[s].at # "gone"
                /\ req[s].at \in Holding => req[s].intent \in key
                /\ req[s].outcome = "executed" => req[s].at \in {"receipt"} \cup After
          /\ \A q, s \in Requests :
                req[q].at \in Holding /\ req[s].at \in Holding /\ req[q].intent = req[s].intent => q = s
          /\ \A n \in DOMAIN executed : \E s \in Executors : executed[n].intent = req[s].intent
          /\ \A m, n \in DOMAIN executed : executed[m].intent = executed[n].intent => m = n
        BY DEF TradingInv, ExclusiveInv
    <2>2. req'[r].at = "receipt" /\ req[r].at \in Holding /\ req'[r].at \in Holding
        BY <1>1 DEF Holding
    <2>3. \A s \in Requests :
                /\ req'[s].at # "gone"
                /\ req'[s].at \in Holding => req'[s].intent \in key'
                /\ req'[s].outcome = "executed" => req'[s].at \in {"receipt"} \cup After
        BY <2>1, <2>2 DEF Turns
    <2>4. \A q, s \in Requests :
             req'[q].at \in Holding /\ req'[s].at \in Holding /\ req'[q].intent = req'[s].intent => q = s
        BY <2>1, <2>2 DEF Turns
    <2>5. \A n \in DOMAIN executed' : \E s \in Executors' : executed'[n].intent = req'[s].intent
        BY <2>1, ChainKept DEF Turns, Executors
    <2>6. \A m, n \in DOMAIN executed' : executed'[m].intent = executed'[n].intent => m = n
        BY <2>1
    <2>7. QED
        BY <2>2, <2>3, <2>4, <2>5, <2>6 DEF ExclusiveInv
<1>6. QED
    BY <1>2, <1>3, <1>4, <1>5 DEF TradingInv

LEMMA SendStep ==
    ASSUME TradingInv, NEW r \in Requests, Send(r)
    PROVE  TradingInv'
<1>1. PICK place \in {"receipt", "failing"} :
          Goes(r, place) /\ tx' = IF place = "receipt" THEN r ELSE tx
    BY DEF Send
<1>2. /\ Turns(r)
      /\ req'[r].at = place
      /\ req'[r].prices = req[r].prices /\ req'[r].seen = req[r].seen
    BY <1>1, GoesTurns DEF TradingInv, Places, Holding
<1>3. /\ req[r].at = "send" /\ req[r].outcome = "none" /\ tx = NoTx
      /\ UNCHANGED <<key, executed, held, trades, position, rowPrices, page, connected, fetched,
                     faults, surprises>>
    BY DEF Send, At, books, prices, history, TradingInv, OutcomesInv, Before
<1>4. TypeOK'
    BY <1>1, <1>2, <1>3 DEF TradingInv, TypeOK, Turns
<1>5. VersionsInv'
    BY <1>2, <1>3 DEF TradingInv, VersionsInv, Turns
<1>6. CASE place = "receipt"
    BY <1>1, <1>2, <1>3, <1>4, <1>5, <1>6, LaunchKeeps DEF At
<1>7. CASE place = "failing"
    <2>1. Lawful(r)
        BY <1>1, <1>2, <1>3, <1>7 DEF Lawful, Before, After, Holding
    <2>2. QED
        BY <1>2, <1>4, <1>5, <2>1, TurnKeeps
<1>8. QED
    BY <1>6, <1>7

LEMMA CallFailsStep ==
    ASSUME TradingInv, NEW r \in Requests, CallFails(r)
    PROVE  TradingInv'
<1>1. /\ Turns(r)
      /\ req'[r].at = "failing"
      /\ req'[r].prices = req[r].prices /\ req'[r].seen = req[r].seen
    BY GoesTurns DEF TradingInv, CallFails, Places, Holding
<1>2. /\ faults' \in Nat /\ faults' # 0 /\ surprises' \in Nat /\ faults' + surprises' <= MaxTrouble
      /\ UNCHANGED <<key, executed, held, trades, position, rowPrices, connected, fetched>>
    BY FaultFacts DEF TradingInv, CallFails, books
<1>3. /\ req[r].at \in {"check", "send", "receipt"}
      /\ \/ tx' = tx
         \/ req[r].at = "send" /\ tx = NoTx /\ tx' = r
    BY DEF CallFails, At
<1>4. page' \in Shown /\ page'.version <= Len(executed)
    <2>1. req[r].seen \in Versions /\ req[r].seen <= Len(executed) /\ page.version <= Len(executed)
        BY RequestFacts DEF TradingInv, VersionsInv
    <2>2. page \in Shown
        BY DEF TradingInv, TypeOK
    <2>3. LET shown == Projected(req[r].seen) IN
              Event(shown) \in Shown /\ Event(shown).version <= Len(executed)
        BY <2>1, PageFacts DEF TradingInv
    <2>4. QED
        BY <2>1, <2>2, <2>3 DEF CallFails
<1>5. TypeOK'
    BY <1>1, <1>2, <1>3, <1>4 DEF TradingInv, TypeOK, Turns
<1>6. VersionsInv'
    BY <1>1, <1>2, <1>4 DEF TradingInv, VersionsInv, Turns
<1>7. CASE tx' = tx
    <2>1. Lawful(r)
        <3>1. tx # NoTx /\ tx = r => req[r].at = "receipt"
            BY <1>3 DEF TradingInv, OutcomesInv
        <3>2. QED
            BY <1>1, <1>2, <1>3, <1>7, <3>1 DEF Lawful, Before, After, Holding
    <2>2. QED
        BY <1>1, <1>5, <1>6, <2>1, TurnKeeps
<1>8. CASE req[r].at = "send" /\ tx = NoTx /\ tx' = r
    BY <1>1, <1>2, <1>5, <1>6, <1>8, LaunchKeeps DEF At
<1>9. QED
    BY <1>3, <1>7, <1>8

---------------------------------------------------------------------------
(* The chain, and the page *)

\* A transaction comes to nothing.
LEMMA NothingKeeps ==
    ASSUME TradingInv, tx # NoTx, req' = [req EXCEPT ![tx].outcome = "nothing"], tx' = NoTx,
           faults' = faults, surprises' \in Nat, faults' + surprises' <= MaxTrouble,
           UNCHANGED <<key, executed, held, books, prices, connected>>
    PROVE  TradingInv'
<1>1. /\ tx \in Requests /\ req[tx].outcome = "none"
      /\ req[tx].at \in {"receipt", "failing", "failed", "gone"}
    BY DEF TradingInv, TypeOK, OutcomesInv
<1>2. /\ req' \in [Requests -> Request]
      /\ \A s \in Requests :
            /\ req'[s].at = req[s].at /\ req'[s].intent = req[s].intent
            /\ req'[s].shares = req[s].shares
            /\ req'[s].prices = req[s].prices /\ req'[s].seen = req[s].seen
            /\ s # tx => req'[s].outcome = req[s].outcome
      /\ req'[tx].outcome = "nothing"
    <2> DEFINE rec == [req[tx] EXCEPT !.outcome = "nothing"]
    <2>1. req' = [req EXCEPT ![tx] = rec] /\ req \in [Requests -> Request]
        BY DEF TradingInv, TypeOK
    <2>2. req[tx] \in Request
        BY <1>1, <2>1
    <2>3. /\ rec \in Request /\ rec.outcome = "nothing"
          /\ rec.at = req[tx].at /\ rec.intent = req[tx].intent /\ rec.shares = req[tx].shares
          /\ rec.prices = req[tx].prices /\ rec.seen = req[tx].seen
        BY <2>2 DEF Request
    <2> HIDE DEF rec
    <2>4. QED
        BY <1>1, <2>1, <2>3
<1>3. Executors' = Executors /\ \A s \in Requests : Order(s)' = Order(s)
    BY <1>1, <1>2 DEF Executors, Order
<1>4. TypeOK'
    BY <1>2 DEF TradingInv, TypeOK, books, prices
<1>5. OutcomesInv'
    <2>1. Len(executed') = Cardinality(Executors')
        BY <1>3 DEF TradingInv, OutcomesInv
    <2>2. /\ \A r \in Executors' : \E n \in DOMAIN executed' :
                executed'[n] = [intent |-> req'[r].intent, shares |-> req'[r].shares]
          /\ \A r \in Executors' : Order(r)'.buy => req'[r].shares >= Order(r)'.minOutput
        BY <1>2, <1>3 DEF TradingInv, OutcomesInv, Executors
    <2>3. \A r \in Requests :
             /\ req'[r].at \in Before \cup {"refused"} => req'[r].outcome = "none"
             /\ req'[r].at \in After => req'[r].outcome # "none"
        BY <1>1, <1>2 DEF TradingInv, OutcomesInv, Before, After
    <2>4. QED
        BY <2>1, <2>2, <2>3 DEF OutcomesInv
<1>6. VersionsInv'
    BY <1>2 DEF TradingInv, VersionsInv, prices
<1>7. FilledInv' /\ BookedInv'
    BY <1>1, <1>2, <1>3 DEF TradingInv, FilledInv, BookedInv, After, books
<1>8. ExclusiveInv'
    BY <1>2, <1>3 DEF TradingInv, ExclusiveInv, Executors
<1>9. QED
    BY <1>4, <1>5, <1>6, <1>7, <1>8 DEF TradingInv

\* The transaction in flight is executed. Its request is the one that has the
\* nonce, as long as no call has failed, and no other has been executed.
LEMMA ExecutesKeeps ==
    ASSUME TradingInv, tx # NoTx, NEW shares \in 0..MaxShares, Executes(tx, shares), tx' = NoTx,
           UNCHANGED <<key, books, prices, connected, history>>
    PROVE  TradingInv'
<1> DEFINE trade == [intent |-> req[tx].intent, shares |-> shares]
<1>1. /\ tx \in Requests /\ req[tx].outcome = "none"
      /\ req[tx].at \in {"receipt", "failing", "failed", "gone"}
      /\ req \in [Requests -> Request] /\ req[tx] \in Request
    BY DEF TradingInv, TypeOK, OutcomesInv
<1>2. /\ req' \in [Requests -> Request]
      /\ \A s \in Requests :
            /\ req'[s].at = req[s].at /\ req'[s].intent = req[s].intent
            /\ req'[s].prices = req[s].prices /\ req'[s].seen = req[s].seen
            /\ s # tx => req'[s].outcome = req[s].outcome /\ req'[s].shares = req[s].shares
      /\ req'[tx].outcome = "executed" /\ req'[tx].shares = shares
    <2> DEFINE rec == [req[tx] EXCEPT !.outcome = "executed", !.shares = shares]
    <2>1. req' = [req EXCEPT ![tx] = rec]
        BY DEF Executes
    <2>2. /\ rec \in Request /\ rec.outcome = "executed" /\ rec.shares = shares
          /\ rec.at = req[tx].at /\ rec.intent = req[tx].intent
          /\ rec.prices = req[tx].prices /\ rec.seen = req[tx].seen
        BY <1>1 DEF Request
    <2> HIDE DEF rec
    <2>3. QED
        BY <1>1, <2>1, <2>2
<1>3. /\ executed \in Seq([intent: Intents, shares: 0..MaxShares])
      /\ trade \in [intent: Intents, shares: 0..MaxShares]
    BY <1>1 DEF TradingInv, TypeOK, Request
<1>4. /\ executed' \in Seq([intent: Intents, shares: 0..MaxShares])
      /\ Len(executed) \in Nat /\ Len(executed') = Len(executed) + 1
      /\ DOMAIN executed = 1..Len(executed) /\ DOMAIN executed' = 1..(Len(executed) + 1)
      /\ \A n \in DOMAIN executed : executed'[n] = executed[n]
      /\ executed'[Len(executed) + 1] = trade
    BY <1>3 DEF Executes
<1>5. Executors' = Executors \cup {tx} /\ tx \notin Executors /\ \A s \in Requests : Order(s)' = Order(s)
    BY <1>1, <1>2 DEF Executors, Order
<1>6. Len(executed') = Cardinality(Executors') /\ Len(executed') \in Versions
    <2>1. IsFiniteSet(Executors)
        BY SignedAssumption, FS_Subset DEF Executors
    <2>2. Cardinality(Executors') = Cardinality(Executors) + 1
        BY <1>5, <2>1, FS_AddElement
    <2>3. Executors' \in SUBSET Requests
        BY <1>1, <1>5 DEF Executors
    <2>4. Cardinality(Executors') \in Versions
        BY <2>3, VersionsBound
    <2>5. QED
        BY <1>4, <2>2, <2>4 DEF TradingInv, OutcomesInv
<1>7. held' \in Nat
    BY <1>1, RequestFacts DEF TradingInv, TypeOK, Executes
<1> HIDE DEF trade
<1>8. TypeOK'
    <2>1. rowPrices' \in 0..Len(executed')
        BY <1>4 DEF TradingInv, TypeOK, prices
    <2>2. tx' \in Requests \cup {NoTx}
        OBVIOUS
    <2>3. QED
        BY <1>2, <1>4, <1>6, <1>7, <2>1, <2>2 DEF TradingInv, TypeOK, books, prices, history
<1>9. OutcomesInv'
    <2>1. \A r \in Executors' : \E n \in DOMAIN executed' :
             executed'[n] = [intent |-> req'[r].intent, shares |-> req'[r].shares]
        <3>1. SUFFICES ASSUME NEW r \in Executors'
                       PROVE  \E n \in DOMAIN executed' :
                                 executed'[n] = [intent |-> req'[r].intent, shares |-> req'[r].shares]
            OBVIOUS
        <3>2. CASE r = tx
            BY <1>1, <1>2, <1>4, <3>2 DEF trade
        <3>3. CASE r # tx
            <4>1. r \in Executors /\ r \in Requests
                BY <1>5, <3>3 DEF Executors
            <4>2. PICK n \in DOMAIN executed :
                     executed[n] = [intent |-> req[r].intent, shares |-> req[r].shares]
                BY <4>1 DEF TradingInv, OutcomesInv
            <4>3. QED
                BY <1>2, <1>4, <3>3, <4>1, <4>2
        <3>4. QED
            BY <3>2, <3>3
    <2>2. \A r \in Executors' : Order(r)'.buy => req'[r].shares >= Order(r)'.minOutput
        BY <1>1, <1>2, <1>5 DEF TradingInv, OutcomesInv, Executes, Executors
    <2>3. \A r \in Requests :
             /\ req'[r].at \in Before \cup {"refused"} => req'[r].outcome = "none"
             /\ req'[r].at \in After => req'[r].outcome # "none"
        BY <1>1, <1>2 DEF TradingInv, OutcomesInv, Before, After
    <2>4. QED
        BY <1>6, <2>1, <2>2, <2>3 DEF OutcomesInv
<1>10. VersionsInv'
    <2>1. /\ \A r \in Requests : /\ req[r].prices <= Len(executed) /\ req[r].seen <= Len(executed)
                                 /\ req[r].prices \in Nat /\ req[r].seen \in Nat
          /\ page.version <= Len(executed) /\ page.version \in Nat
          /\ fetched <= Len(executed) /\ fetched \in Int
        BY RequestFacts DEF TradingInv, VersionsInv, Versions, TypeOK, Shown, NoRow
    <2>2. QED
        BY <1>2, <1>4, <2>1 DEF VersionsInv, prices
<1>11. FilledInv' /\ BookedInv'
    BY <1>1, <1>2, <1>5 DEF TradingInv, FilledInv, BookedInv, After, books, history
<1>12. ExclusiveInv'
    <2> SUFFICES ASSUME faults = 0 PROVE ExclusiveInv'
        BY DEF ExclusiveInv, history
    <2>1. /\ \A s \in Requests :
                /\ req[s].at # "gone"
                /\ req[s].at \in Holding => req[s].intent \in key
                /\ req[s].outcome = "executed" => req[s].at \in {"receipt"} \cup After
          /\ req[tx].at = "receipt"
          /\ \A q, s \in Requests :
                req[q].at \in Holding /\ req[s].at \in Holding /\ req[q].intent = req[s].intent => q = s
          /\ \A n \in DOMAIN executed : \E s \in Executors : executed[n].intent = req[s].intent
          /\ \A m, n \in DOMAIN executed : executed[m].intent = executed[n].intent => m = n
        BY DEF TradingInv, ExclusiveInv
    <2>2. \A s \in Requests :
                /\ req'[s].at # "gone"
                /\ req'[s].at \in Holding => req'[s].intent \in key'
                /\ req'[s].outcome = "executed" => req'[s].at \in {"receipt"} \cup After
        BY <1>2, <2>1
    <2>3. \A q, s \in Requests :
             req'[q].at \in Holding /\ req'[s].at \in Holding /\ req'[q].intent = req'[s].intent => q = s
        BY <1>2, <2>1
    <2>4. \A n \in DOMAIN executed : executed[n].intent # req[tx].intent
        <3>1. SUFFICES ASSUME NEW n \in DOMAIN executed, executed[n].intent = req[tx].intent
                       PROVE  FALSE
            OBVIOUS
        <3>2. PICK s \in Executors : executed[n].intent = req[s].intent
            BY <2>1
        <3>3. s \in Requests /\ req[s].at \in Holding /\ req[tx].at \in Holding
            BY <2>1 DEF Executors, Holding
        <3>4. s = tx
            BY <1>1, <2>1, <3>1, <3>2, <3>3
        <3>5. QED
            BY <1>5, <3>4
    <2>5. trade.intent = req[tx].intent
        BY DEF trade
    <2>6. \A n \in DOMAIN executed' : \E s \in Executors' : executed'[n].intent = req'[s].intent
        <3>1. \A s \in Executors : req'[s].intent = req[s].intent /\ s \in Executors'
            BY <1>2, <1>5 DEF Executors
        <3>2. \A n \in DOMAIN executed : \E s \in Executors' : executed'[n].intent = req'[s].intent
            BY <1>4, <2>1, <3>1
        <3>3. executed'[Len(executed) + 1].intent = req'[tx].intent /\ tx \in Executors'
            BY <1>1, <1>2, <1>4, <1>5, <2>5
        <3>4. QED
            BY <1>4, <3>2, <3>3
    <2>7. \A m, n \in DOMAIN executed' : executed'[m].intent = executed'[n].intent => m = n
        BY <1>4, <2>1, <2>4, <2>5
    <2>8. QED
        BY <2>2, <2>3, <2>6, <2>7 DEF ExclusiveInv
<1>13. QED
    BY <1>8, <1>9, <1>10, <1>11, <1>12 DEF TradingInv

LEMMA ChainStep ==
    ASSUME TradingInv, Mine \/ Replace
    PROVE  TradingInv'
<1>1. faults \in Nat /\ surprises \in Nat /\ faults + surprises <= MaxTrouble /\ TypeOK
    BY DEF TradingInv, TypeOK
<1>2. CASE Mine
    <2>1. CASE \E shares \in 0..MaxShares : Executes(tx, shares)
        BY <1>2, <2>1, ExecutesKeeps DEF Mine
    <2>2. CASE req' = [req EXCEPT ![tx].outcome = "nothing"] /\ UNCHANGED <<executed, held>>
        BY <1>1, <1>2, <2>2, NothingKeeps DEF Mine, history
    <2>3. QED
        BY <1>2, <2>1, <2>2 DEF Mine
<1>3. CASE Replace
    BY <1>1, <1>3, NothingKeeps, FaultFacts DEF Replace
<1>4. QED
    BY <1>2, <1>3

\* Steps that only the page, the trader's wallet or the socket take
LEMMA QuietKeeps ==
    ASSUME TradingInv, UNCHANGED <<req, key, tx, executed, trades>>, TypeOK', VersionsInv',
           faults' = 0 => faults = 0
    PROVE  TradingInv'
<1>1. Executors' = Executors
    BY DEF Executors
<1>2. OutcomesInv' /\ FilledInv'
    BY <1>1 DEF TradingInv, OutcomesInv, FilledInv, Order
<1>3. BookedInv' /\ ExclusiveInv'
    BY <1>1 DEF TradingInv, BookedInv, ExclusiveInv
<1>4. QED
    BY <1>2, <1>3 DEF TradingInv

LEMMA ListedKeeps ==
    ASSUME TradingInv, NEW v \in Versions, v <= Len(executed), Listed(v)
    PROVE  TradingInv'
<1>1. Actual(v) \in Shown /\ Actual(v).version = v /\ v \in Nat /\ Len(executed) \in Nat
    BY DEF Actual, Shown, Versions, TradingInv, TypeOK
<1>2. TypeOK' /\ VersionsInv'
    BY <1>1 DEF TradingInv, TypeOK, VersionsInv, Listed, books, history, NoRow
<1>3. QED
    BY <1>2, QuietKeeps DEF Listed, books, history

LEMMA PageStep ==
    ASSUME TradingInv, Fetch \/ Fetched \/ FetchRow \/ Disconnect \/ Reconnect \/ OwnSale
    PROVE  TradingInv'
<1>1. /\ TypeOK /\ Len(executed) \in Versions /\ Len(executed) \in Nat
      /\ rowPrices \in Versions /\ rowPrices <= Len(executed)
      /\ fetched \in Versions \cup {NoRow} /\ fetched <= Len(executed)
    <2>1. TypeOK /\ Len(executed) \in Versions /\ rowPrices \in 0..Len(executed)
          /\ fetched \in Versions \cup {NoRow} /\ fetched <= Len(executed)
        BY DEF TradingInv, TypeOK, VersionsInv
    <2>2. QED
        BY <2>1, VersionsType DEF Versions
<1>2. CASE Fetch
    <2>1. CASE Listed(Len(executed))
        BY <1>1, <2>1, ListedKeeps
    <2>2. CASE ~Listed(Len(executed))
        <3>1. /\ fetched' = Len(executed)
              /\ UNCHANGED <<req, key, tx, executed, held, trades, position, rowPrices, page,
                             connected, faults, surprises>>
            BY <1>2, <2>2 DEF Fetch, books, history
        <3>2. TypeOK' /\ VersionsInv'
            BY <1>1, <3>1 DEF TradingInv, TypeOK, VersionsInv
        <3>3. QED
            BY <3>1, <3>2, QuietKeeps
    <2>3. QED
        BY <2>1, <2>2
<1>3. CASE Fetched
    BY <1>1, <1>3, ListedKeeps DEF Fetched
<1>4. CASE FetchRow
    <2>1. Actual(rowPrices) \in Shown /\ Actual(rowPrices).version = rowPrices
        BY <1>1 DEF Actual, Shown
    <2>2. /\ page' = Actual(rowPrices)
          /\ faults' \in Nat /\ faults' # 0 /\ surprises' \in Nat /\ faults' + surprises' <= MaxTrouble
          /\ UNCHANGED <<req, key, tx, executed, held, trades, position, rowPrices, connected, fetched>>
        BY <1>1, <1>4, FaultFacts DEF FetchRow, books
    <2>3. TypeOK' /\ VersionsInv'
        BY <1>1, <2>1, <2>2 DEF TradingInv, TypeOK, VersionsInv
    <2>4. QED
        BY <2>2, <2>3, QuietKeeps
<1>5. CASE Disconnect \/ Reconnect \/ OwnSale
    <2>1. /\ connected' \in BOOLEAN /\ held' \in Nat
          /\ faults' = faults /\ surprises' \in Nat /\ faults' + surprises' <= MaxTrouble
          /\ UNCHANGED <<req, key, tx, executed, trades, position, rowPrices, page, fetched>>
        <3>1. held \in Nat /\ connected \in BOOLEAN
              /\ faults \in Nat /\ surprises \in Nat /\ faults + surprises <= MaxTrouble
            BY <1>1 DEF TypeOK
        <3>2. CASE Disconnect
            BY <1>1, <3>1, <3>2, FaultFacts DEF Disconnect, books, prices
        <3>3. CASE Reconnect
            BY <3>1, <3>3 DEF Reconnect, books, prices, history
        <3>4. CASE OwnSale
            BY <1>1, <3>1, <3>4, FaultFacts DEF OwnSale, books, prices
        <3>5. QED
            BY <1>5, <3>2, <3>3, <3>4
    <2>2. TypeOK' /\ VersionsInv'
        BY <1>1, <2>1 DEF TradingInv, TypeOK, VersionsInv
    <2>3. QED
        BY <2>1, <2>2, QuietKeeps
<1>6. QED
    BY <1>2, <1>3, <1>4, <1>5

LEMMA CrashStep ==
    ASSUME TradingInv, Crash
    PROVE  TradingInv'
<1>1. req \in [Requests -> Request] /\ TypeOK
    BY DEF TradingInv, TypeOK
<1>2. /\ req' \in [Requests -> Request]
      /\ \A s \in Requests :
            /\ req'[s].at = req[s].at \/ (req'[s].at = "gone" /\ Working(s))
            /\ req'[s].intent = req[s].intent /\ req'[s].shares = req[s].shares
            /\ req'[s].outcome = req[s].outcome
            /\ req'[s].prices = req[s].prices /\ req'[s].seen = req[s].seen
    <2>1. \A s \in Requests :
             LET rec == [req[s] EXCEPT !.at = "gone"] IN
             /\ rec \in Request /\ rec.at = "gone"
             /\ rec.intent = req[s].intent /\ rec.shares = req[s].shares
             /\ rec.outcome = req[s].outcome
             /\ rec.prices = req[s].prices /\ rec.seen = req[s].seen
        BY <1>1 DEF Request
    <2>2. \A s \in Requests :
             \/ req'[s] = req[s]
             \/ req'[s] = [req[s] EXCEPT !.at = "gone"] /\ Working(s)
        BY DEF Crash
    <2>3. req' = [s \in Requests |-> req'[s]]
        BY DEF Crash
    <2>4. \A s \in Requests : req'[s] \in Request
        BY <1>1, <2>1, <2>2
    <2>5. QED
        BY <2>1, <2>2, <2>3, <2>4
<1>3. /\ faults' \in Nat /\ faults' # 0 /\ surprises' \in Nat /\ faults' + surprises' <= MaxTrouble
      /\ UNCHANGED <<key, tx, executed, held, trades, position, rowPrices, page, connected, fetched>>
    BY <1>1, FaultFacts DEF Crash, books, prices
<1>4. TypeOK' /\ VersionsInv'
    BY <1>2, <1>3 DEF TradingInv, TypeOK, VersionsInv
<1>5. Executors' = Executors /\ \A s \in Requests : Order(s)' = Order(s)
    BY <1>2 DEF Executors, Order
<1>6. OutcomesInv'
    <2>1. \A r \in Requests :
             /\ req'[r].at \in Before \cup {"refused"} => req'[r].outcome = "none"
             /\ req'[r].at \in After => req'[r].outcome # "none"
        BY <1>2 DEF TradingInv, OutcomesInv, Before, After
    <2>2. tx' # NoTx => /\ req'[tx'].outcome = "none"
                        /\ req'[tx'].at \in {"receipt", "failing", "failed", "gone"}
        BY <1>2, <1>3 DEF TradingInv, OutcomesInv, TypeOK
    <2>3. Len(executed') = Cardinality(Executors')
        BY <1>3, <1>5 DEF TradingInv, OutcomesInv
    <2>4. /\ \A r \in Executors' : \E n \in DOMAIN executed' :
                executed'[n] = [intent |-> req'[r].intent, shares |-> req'[r].shares]
          /\ \A r \in Executors' : Order(r)'.buy => req'[r].shares >= Order(r)'.minOutput
        BY <1>2, <1>3, <1>5 DEF TradingInv, OutcomesInv, Executors
    <2>5. QED
        BY <2>1, <2>2, <2>3, <2>4 DEF OutcomesInv
<1>7. FilledInv'
    BY <1>2, <1>5 DEF TradingInv, FilledInv, After
<1>8. BookedInv' /\ ExclusiveInv'
    BY <1>3 DEF BookedInv, ExclusiveInv
<1>9. QED
    BY <1>4, <1>6, <1>7, <1>8 DEF TradingInv

---------------------------------------------------------------------------
(* The theorems *)

LEMMA TradingStep == TradingInv /\ [Next]_vars => TradingInv'
<1> SUFFICES ASSUME TradingInv, [Next]_vars PROVE TradingInv'
    OBVIOUS
<1>1. CASE UNCHANGED vars
    <2>1. UNCHANGED <<req, key, tx, executed, held, trades, position, rowPrices, page, fetched,
                      connected, faults, surprises>>
        BY <1>1 DEF vars, books, prices, history
    <2>2. TypeOK' /\ VersionsInv'
        BY <2>1 DEF TradingInv, TypeOK, VersionsInv
    <2>3. QED
        BY <2>1, <2>2, QuietKeeps
<1>2. ASSUME NEW r \in Requests,
             \/ ReadMarketToBuy(r) \/ ReadMarketToSell(r)
             \/ RequestStep(r) \/ CallFails(r) \/ PublishFails(r)
      PROVE  TradingInv'
    BY <1>2, ReadMarketToBuyStep, ReadMarketToSellStep, ReserveStep, RefuseStep,
       ProceedToBuyStep, ProceedToSellStep, SendStep, ReceiptOfBuyStep, ReceiptOfSellStep,
       ReadPricesStep, PublishStep, InsertTradeStep, ReadPositionStep, WritePositionStep,
       AnswerStep, GiveUpBuyStep, GiveUpSellStep, CallFailsStep, PublishFailsStep
    DEF RequestStep
<1>3. CASE Mine \/ Replace
    BY <1>3, ChainStep
<1>4. CASE Fetch \/ Fetched \/ FetchRow \/ Disconnect \/ Reconnect \/ OwnSale
    BY <1>4, PageStep
<1>5. CASE Crash
    BY <1>5, CrashStep
<1>6. QED
    BY <1>1, <1>2, <1>3, <1>4, <1>5 DEF Next

LEMMA TradingInvariant == Spec => []TradingInv
<1>1. QED
    BY TradingInit, TradingStep, PTL DEF Spec

\* "A second submission with the same signature is rejected"
\* (routes/range-markets.ts): the reservation of its nonce, its release by a
\* request that gives up and the receipt of the transaction, which may have been
\* replaced, let no intent be executed twice as long as no call fails, for any
\* number of requests and intents.
THEOREM IntentExecutedOnce == Spec => []ExecutedOnce
<1>1. TradingInv => ExecutedOnce
    <2> SUFFICES ASSUME TradingInv, faults = 0, NEW i \in Intents
                 PROVE  Cardinality({n \in DOMAIN executed : executed[n].intent = i}) <= 1
        BY DEF TradingInv, ExecutedOnce
    <2> DEFINE found == {n \in DOMAIN executed : executed[n].intent = i}
    <2>1. \A m, n \in found : m = n
        BY DEF TradingInv, ExclusiveInv
    <2>2. CASE found = {}
        BY <2>2, FS_EmptySet
    <2>3. CASE found # {}
        <3>1. PICK n : n \in found
            BY <2>3
        <3>2. found = {n}
            BY <2>1, <3>1
        <3>3. Cardinality({n}) = 1
            BY FS_Singleton
        <3>4. Cardinality(found) = 1
            BY <3>2, <3>3
        <3>5. QED
            BY <3>4
    <2>4. QED
        BY <2>2, <2>3
<1>2. QED
    BY <1>1, TradingInvariant, PTL

\* A buyer who signed a minimum and is told of success by /buy has got it, by a
\* trade that is on the chain, and the trade is in range_trades unless a query
\* failed; for any number of requests, failures and replaced transactions.
THEOREM SignedMinimumKept == Spec => []MinimumKept
<1>1. TradingInv => MinimumKept
    <2> SUFFICES ASSUME TradingInv, NEW r \in Requests,
                        At(r, "success"), Order(r).buy, Order(r).minOutput > 0
                 PROVE  /\ \E n \in DOMAIN executed :
                              executed[n] = [intent |-> req[r].intent, shares |-> req[r].shares]
                        /\ req[r].shares >= Order(r).minOutput
                        /\ faults = 0 => r \in trades
        BY DEF MinimumKept
    <2>1. req[r].at = "success"
        BY DEF At
    <2>2. r \in Executors
        BY <2>1 DEF TradingInv, FilledInv, After, Executors
    <2>3. faults = 0 => r \in trades
        BY <2>1 DEF TradingInv, BookedInv
    <2>4. QED
        BY <2>2, <2>3 DEF TradingInv, OutcomesInv
<1>2. QED
    BY <1>1, TradingInvariant, PTL

=============================================================================
