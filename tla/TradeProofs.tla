---------------------------- MODULE TradeProofs ----------------------------
(***************************************************************************)
(* Trades on their way into the books, for any number of requests, signed  *)
(* intents, faults and restarts.                                           *)
(***************************************************************************)
EXTENDS TradePipeline, SumProofs

(* The inductive invariant *)

Types ==
    /\ carries \in [Requests -> Intents]
    /\ key \in [Intents -> BOOLEAN]
    /\ pc \in [Requests -> RequestPlaces]
    /\ hash \in [Requests -> TxIds \cup {NoTx}]
    /\ txs \in Seq(Tx)
    /\ usdc \in Nat
    /\ held \in Nat
    /\ trades \subseteq TxIds
    /\ volume \in Nat
    /\ row \in Row
    /\ watched \in 0..Len(txs)
    /\ fills \in [FillIds -> Fill]
    /\ heals \in [Healers -> Heal]
    /\ faults \in 0..MaxFaults
    /\ crashes \in 0..MaxCrashes

\* A request sends one transaction at most.
Unsent == {r \in Requests : pc[r] \in {"new", "preflight", "send"}}
SlotsInv == Len(txs) + Cardinality(Unsent) <= Cardinality(Requests)

\* One request at a time works on an intent, and has its nonce.
KeysInv ==
    \A r \in Requests : Working(r) =>
        /\ key[carries[r]]
        /\ \A q \in Requests \ {r} : carries[q] = carries[r] => ~Working(q)

\* A request that waits for a receipt, or has had one, knows its transaction.
HashInv ==
    \A r \in Requests :
        /\ pc[r] \in {"receipt", "booking"} => hash[r] \in DOMAIN txs
        /\ pc[r] = "success" => hash[r] \in trades

\* Only executed trades are booked, and a booking past its insert has its row.
Inserted(f) == fills[f].at \in {"volume", "position", "write", "booked"}
FillsInv ==
    /\ trades \subseteq Executed
    /\ \A f \in FillIds :
          /\ fills[f].at # "none" => f[2] \in Executed
          /\ Inserted(f) => f[2] \in trades

\* What a booking has read as the volume is what some booked trades add up to.
\* By the time it has inserted its own trade, it knows that its own is not
\* among them.
AddsUp(v, S) ==
    \E some \in SUBSET S : v = SumOver([t \in some |-> OrderOf(t).collateral])
VolumeInv ==
    /\ AddsUp(volume, trades)
    /\ \A f \in FillIds :
          /\ fills[f].at = "insert" => AddsUp(fills[f].volume, trades)
          /\ fills[f].at = "volume" => AddsUp(fills[f].volume, trades \ {f[2]})

PipelineInv ==
    /\ Types
    /\ SlotsInv
    /\ KeysInv
    /\ HashInv
    /\ FillsInv
    /\ VolumeInv

---------------------------------------------------------------------------
(* The initial state *)

LEMMA RequestsFinite == Cardinality(Requests) \in Nat
BY OrderAssumption, FS_CardinalityType

LEMMA PipelineInit == Init => PipelineInv
<1> SUFFICES ASSUME Init PROVE PipelineInv
    OBVIOUS
<1>1. Types
    BY BoundAssumption DEF Init, Types, RequestPlaces, Finished, Idle, Fill, Heal,
        Row, NoRow, NoTx, Tx
<1>2. SlotsInv
    <2>1. Unsent = Requests
        BY DEF Init, Unsent
    <2>2. QED
        BY <2>1, RequestsFinite DEF Init, SlotsInv
<1>3. KeysInv
    BY DEF Init, KeysInv, Working
<1>4. HashInv
    BY DEF Init, HashInv
<1>5. FillsInv
    BY DEF Init, FillsInv, Inserted, Finished
<1>6. VolumeInv
    <2>1. SumOver([t \in {} |-> OrderOf(t).collateral]) = 0
        <3>1. UnitsOf([t \in {} |-> OrderOf(t).collateral]) = {}
            BY DEF UnitsOf
        <3>2. QED
            BY <3>1, FS_EmptySet DEF SumOver
    <2>2. QED
        BY <2>1 DEF Init, VolumeInv, AddsUp, Finished
<1>7. QED
    BY <1>1, <1>2, <1>3, <1>4, <1>5, <1>6 DEF PipelineInv

---------------------------------------------------------------------------
(* The chain of the operator's transactions *)

\* Intents stay with their transactions, and a success stays a success.
Grows ==
    /\ Len(txs) <= Len(txs')
    /\ \A t \in DOMAIN txs :
          /\ txs'[t].intent = txs[t].intent
          /\ txs[t].status # "pending" => txs'[t].status = txs[t].status

LEMMA SendGrows ==
    ASSUME Types, NEW i \in Intents,
           txs' = Append(txs, [intent |-> i, status |-> "pending"])
    PROVE  /\ txs' \in Seq(Tx)
           /\ Len(txs') = Len(txs) + 1
           /\ Grows
<1>1. [intent |-> i, status |-> "pending"] \in Tx
    BY DEF Tx
<1>2. QED
    BY <1>1 DEF Types, Grows

LEMMA MineGrows ==
    ASSUME Types, NEW t \in TxIds, Mine(t)
    PROVE  /\ txs' \in Seq(Tx)
           /\ Len(txs') = Len(txs)
           /\ Grows
<1>1. PICK s \in {"success", "reverted"} : txs' = [txs EXCEPT ![t].status = s]
    BY DEF Mine
<1>2. t \in DOMAIN txs /\ txs[t].status = "pending" /\ txs[t] \in Tx
    BY DEF Mine, Types
<1>3. [txs[t] EXCEPT !.status = s] \in Tx
    BY <1>2 DEF Tx
<1>4. txs' = [txs EXCEPT ![t] = [txs[t] EXCEPT !.status = s]]
    BY <1>1
<1>5. txs' \in Seq(Tx) /\ Len(txs') = Len(txs)
    BY <1>2, <1>3, <1>4 DEF Types
<1>6. \A u \in DOMAIN txs : u # t => txs'[u] = txs[u]
    BY <1>4 DEF Types
<1>7. txs'[t].intent = txs[t].intent
    BY <1>2, <1>4 DEF Types, Tx
<1>8. QED
    BY <1>2, <1>5, <1>6, <1>7 DEF Grows, Types

LEMMA NextGrows ==
    ASSUME Types, [Next]_vars
    PROVE  Grows
<1>1. ASSUME txs' = txs PROVE Grows
    BY <1>1 DEF Grows, Types
<1>2. ASSUME NEW r \in Requests, Send(r) \/ SendLost(r) PROVE Grows
    <2>1. carries[r] \in Intents
        BY DEF Types
    <2>2. QED
        BY <1>2, <2>1, SendGrows DEF Send, SendLost
<1>3. ASSUME NEW t \in TxIds, Mine(t) PROVE Grows
    BY <1>3, MineGrows
<1>4. \/ txs' = txs
      \/ \E r \in Requests : Send(r) \/ SendLost(r)
      \/ \E t \in TxIds : Mine(t)
    BY DEF Next, RequestStep, BookingStep, HealStep, Fault, Refuse, Reserve, Duplicate,
        Preflight, SendRefused, Receipt, ReceiptLost, Answer, Release, KeyExpires, Watch,
        ReadMarket, InsertTrade, UpdateVolume, ReadPosition, WritePosition, QueryFails,
        LoadRows, ReadBalances, ApplyBalances, HealFails, Crash, vars, chain
<1>5. QED
    BY <1>1, <1>2, <1>3, <1>4

\* So what is executed stays executed, and costs what it did.
LEMMA ExecutedGrows ==
    ASSUME Types, Grows, txs' \in Seq(Tx)
    PROVE  /\ Executed \subseteq Executed'
           /\ \A t \in DOMAIN txs : OrderOf(t)' = OrderOf(t)
           /\ DOMAIN txs \subseteq DOMAIN txs'
BY DEF Types, Grows, Executed, OrderOf

---------------------------------------------------------------------------
(* Types *)

LEMMA OrderTypes ==
    ASSUME Types
    PROVE  /\ \A i \in Intents : Order[i] \in Orders
           /\ \A t \in DOMAIN txs : txs[t] \in Tx /\ OrderOf(t) \in Orders
<1>1. \A t \in DOMAIN txs : txs[t] \in Tx
    BY DEF Types
<1>2. QED
    BY <1>1, OrderAssumption DEF OrderOf, Tx

LEMMA SlotTypes ==
    ASSUME Types, SlotsInv
    PROVE  /\ DOMAIN txs \subseteq TxIds
           /\ \A r \in Requests : pc[r] = "send" => Len(txs) + 1 \in TxIds
<1>1. IsFiniteSet(Unsent)
    BY OrderAssumption, FS_Subset DEF Unsent
<1>2. Cardinality(Unsent) \in Nat
    BY <1>1, FS_CardinalityType
<1>3. DOMAIN txs \subseteq TxIds
    BY <1>2, RequestsFinite DEF Types, SlotsInv, TxIds
<1>4. ASSUME NEW r \in Requests, pc[r] = "send"
      PROVE  Cardinality(Unsent) # 0
    BY <1>1, <1>4, FS_EmptySet DEF Unsent
<1>5. QED
    BY <1>2, <1>3, <1>4, RequestsFinite DEF Types, SlotsInv, TxIds

LEMMA RequestTypes ==
    ASSUME Types, SlotsInv, NEW r \in Requests, Refuse(r) \/ Reserve(r) \/ Duplicate(r) \/ RequestStep(r)
    PROVE  Types'
<1>1. ASSUME Refuse(r) \/ Duplicate(r) \/ Preflight(r) \/ SendRefused(r) \/ Answer(r)
      PROVE  Types'
    BY <1>1 DEF Refuse, Duplicate, Preflight, SendRefused, Answer, Goto, Types, RequestPlaces, chain, db
<1>2. ASSUME Reserve(r) \/ Release(r) PROVE Types'
    BY <1>2 DEF Reserve, Release, Goto, Types, RequestPlaces, NoTx, chain, db
<1>3. ASSUME Send(r) PROVE Types'
    <2>1. carries[r] \in Intents
        BY DEF Types
    <2>2. txs' \in Seq(Tx) /\ Len(txs') = Len(txs) + 1
        BY <1>3, <2>1, SendGrows DEF Send
    <2>3. Len(txs') \in TxIds
        BY <1>3, <2>2, SlotTypes DEF Send
    <2>4. QED
        BY <1>3, <2>2, <2>3 DEF Send, Goto, Types, RequestPlaces, db
<1>4. ASSUME Receipt(r) PROVE Types'
    <2>1. fills' \in [FillIds -> Fill]
        <3> DEFINE f == <<"route", hash[r]>>
        <3>1. fills' = fills \/ fills' = [fills EXCEPT ![f].at = "market"]
            BY <1>4 DEF Receipt
        <3> HIDE DEF f
        <3>2. QED
            BY <3>1 DEF Types, Fill
    <2>2. QED
        BY <1>4, <2>1 DEF Receipt, Goto, Types, RequestPlaces, chain, db
<1>5. QED
    BY <1>1, <1>2, <1>3, <1>4 DEF RequestStep

LEMMA ChainTypes ==
    ASSUME Types, NEW t \in TxIds, Mine(t)
    PROVE  Types'
<1>1. txs' \in Seq(Tx) /\ Len(txs') = Len(txs)
    BY MineGrows
<1>2. OrderOf(t) \in Orders
    BY OrderTypes DEF Mine
<1>3. usdc' \in Nat /\ held' \in Nat
    BY <1>2 DEF Mine, Types, Affordable, Orders
<1>4. QED
    BY <1>1, <1>3 DEF Mine, Types, db

LEMMA BookingTypes ==
    ASSUME Types, NEW f \in FillIds, FillsInv, BookingStep(f)
    PROVE  Types'
<1>1. fills[f] \in Fill /\ f[2] \in TxIds
    BY DEF Types, FillIds
<1>2. fills[f].at # "none"
    BY DEF BookingStep, ReadMarket, InsertTrade, UpdateVolume, ReadPosition, WritePosition
<1>3. OrderOf(f[2]) \in Orders
    BY <1>2, OrderTypes DEF FillsInv, Executed
<1>4. ASSUME ReadMarket(f) PROVE Types'
    BY <1>1, <1>4 DEF ReadMarket, Types, Fill, chain, db
<1>5. ASSUME InsertTrade(f) PROVE Types'
    BY <1>1, <1>5 DEF InsertTrade, Types, Fill, Finished, Row, NoRow, chain
<1>6. ASSUME UpdateVolume(f) PROVE Types'
    <2>1. volume' \in Nat
        BY <1>1, <1>3, <1>6 DEF UpdateVolume, Fill, Orders
    <2>2. QED
        BY <1>1, <1>6, <2>1 DEF UpdateVolume, Types, Fill, chain
<1>7. ASSUME ReadPosition(f) PROVE Types'
    BY <1>1, <1>7 DEF ReadPosition, Types, Fill, chain, db
<1>8. ASSUME WritePosition(f) PROVE Types'
    <2>1. row' \in Row
        <3> DEFINE o == OrderOf(f[2])
                   old == fills[f].row
        <3>1. o.isBuy \in BOOLEAN /\ o.shares \in Nat
            BY <1>3 DEF Orders
        <3>2. old \in Row /\ row \in Row
            BY <1>1 DEF Types, Fill
        <3>3. row' = row \/ row' = Applied(old, o)
            BY <1>8 DEF WritePosition
        <3> HIDE DEF o, old
        <3>4. Applied(old, o) \in Nat
            BY <3>1, <3>2 DEF Applied, Row, NoRow
        <3>5. QED
            BY <3>2, <3>3, <3>4 DEF Row
    <2>2. PICK place \in {"threw", "booked"} : fills' = [fills EXCEPT ![f] = Finished(place)]
        BY <1>8 DEF WritePosition
    <2>3. Finished(place) \in Fill
        BY DEF Finished, Fill, Row, NoRow
    <2>4. fills' \in [FillIds -> Fill]
        BY <2>2, <2>3 DEF Types
    <2>5. QED
        BY <1>8, <2>1, <2>4 DEF WritePosition, Types, chain
<1>9. QED
    BY <1>4, <1>5, <1>6, <1>7, <1>8 DEF BookingStep

LEMMA WatchTypes ==
    ASSUME Types, Watch
    PROVE  Types'
<1>1. watched' \in 0..Len(txs)
    BY DEF Watch, Types
<1>2. fills' \in [FillIds -> Fill]
    <2> DEFINE f == <<"watcher", watched + 1>>
    <2>1. fills' = fills \/ fills' = [fills EXCEPT ![f].at = "market"]
        BY DEF Watch
    <2> HIDE DEF f
    <2>2. QED
        BY <2>1 DEF Types, Fill
<1>3. QED
    BY <1>1, <1>2 DEF Watch, Types, chain, db

LEMMA HealTypes ==
    ASSUME Types, NEW h \in Healers, HealStep(h)
    PROVE  Types'
<1>1. heals[h] \in Heal
    BY DEF Types
<1>2. ASSUME LoadRows(h) PROVE Types'
    BY <1>1, <1>2 DEF LoadRows, Types, Heal, chain, db
<1>3. ASSUME ReadBalances(h) PROVE Types'
    BY <1>1, <1>3 DEF ReadBalances, Types, Heal, chain, db
<1>4. ASSUME ApplyBalances(h) PROVE Types'
    <2>1. row' \in Row
        BY <1>1, <1>4 DEF ApplyBalances, Types, Heal, Row
    <2>2. heals' \in [Healers -> Heal]
        BY <1>4 DEF ApplyBalances, Types, Heal, Idle, Row, NoRow
    <2>3. QED
        BY <1>4, <2>1, <2>2 DEF ApplyBalances, Types, chain
<1>5. QED
    BY <1>2, <1>3, <1>4 DEF HealStep

LEMMA FaultTypes ==
    ASSUME Types, Fault
    PROVE  Types'
<1>1. ASSUME NEW r \in Requests, SendLost(r) PROVE Types'
    <2>1. carries[r] \in Intents
        BY DEF Types
    <2>2. txs' \in Seq(Tx) /\ Len(txs') = Len(txs) + 1
        BY <1>1, <2>1, SendGrows DEF SendLost
    <2>3. faults' \in 0..MaxFaults
        BY <1>1, BoundAssumption DEF SendLost, CountFault, Types
    <2>4. QED
        BY <1>1, <2>2, <2>3 DEF SendLost, Goto, Types, RequestPlaces, db
<1>2. ASSUME NEW r \in Requests, ReceiptLost(r) PROVE Types'
    <2>1. faults' \in 0..MaxFaults
        BY <1>2, BoundAssumption DEF ReceiptLost, CountFault, Types
    <2>2. QED
        BY <1>2, <2>1 DEF ReceiptLost, Goto, Types, RequestPlaces, chain, db
<1>3. ASSUME NEW f \in FillIds, QueryFails(f) PROVE Types'
    <2>1. faults' \in 0..MaxFaults
        BY <1>3, BoundAssumption DEF QueryFails, CountFault, Types
    <2>2. Finished("position") \in Fill /\ Finished("threw") \in Fill
        BY DEF Finished, Fill, Row, NoRow
    <2>3. fills' \in [FillIds -> Fill]
        BY <1>3, <2>2 DEF QueryFails, Types
    <2>4. QED
        BY <1>3, <2>1, <2>3 DEF QueryFails, Types, chain, db
<1>4. ASSUME NEW h \in Healers, HealFails(h) PROVE Types'
    <2>1. faults' \in 0..MaxFaults
        BY <1>4, BoundAssumption DEF HealFails, CountFault, Types
    <2>2. QED
        BY <1>4, <2>1 DEF HealFails, Types, Heal, Idle, Row, NoRow, chain, db
<1>5. ASSUME Crash PROVE Types'
    <2>1. crashes' \in 0..MaxCrashes
        BY <1>5, BoundAssumption DEF Crash, Types
    <2>2. watched' \in 0..Len(txs)
        BY <1>5 DEF Crash, Pending, Types
    <2>3. pc' \in [Requests -> RequestPlaces] /\ hash' \in [Requests -> TxIds \cup {NoTx}]
        BY <1>5 DEF Crash, Types, RequestPlaces
    <2>4. fills' \in [FillIds -> Fill] /\ heals' \in [Healers -> Heal]
        BY <1>5 DEF Crash, Types, Finished, Idle, Fill, Heal, Row, NoRow
    <2>5. QED
        BY <1>5, <2>1, <2>2, <2>3, <2>4 DEF Crash, Types, chain, db
<1>6. QED
    BY <1>1, <1>2, <1>3, <1>4, <1>5 DEF Fault

LEMMA TypesStep ==
    ASSUME Types, SlotsInv, FillsInv, [Next]_vars
    PROVE  Types'
<1>1. ASSUME NEW i \in Intents, KeyExpires(i) PROVE Types'
    BY <1>1 DEF KeyExpires, Types, chain, db
<1>2. ASSUME UNCHANGED vars PROVE Types'
    BY <1>2 DEF vars, chain, db, Types
<1>3. QED
    BY <1>1, <1>2, RequestTypes, ChainTypes, BookingTypes, WatchTypes, HealTypes, FaultTypes DEF Next

---------------------------------------------------------------------------
(* A transaction for each request, a request for each nonce *)

\* What a step does to the requests that have not sent anything.
LEMMA UnsentStep ==
    ASSUME Types, [Next]_vars
    PROVE  /\ Unsent' \subseteq Unsent
           /\ \/ Len(txs') = Len(txs)
              \/ (Len(txs') = Len(txs) + 1 /\ \E r \in Unsent : r \notin Unsent')
<1>1. ASSUME NEW r \in Requests, Send(r) \/ SendLost(r)
      PROVE  /\ Unsent' \subseteq Unsent
             /\ Len(txs') = Len(txs) + 1
             /\ r \in Unsent /\ r \notin Unsent'
    <2>1. carries[r] \in Intents
        BY DEF Types
    <2>2. Len(txs') = Len(txs) + 1
        BY <1>1, <2>1, SendGrows DEF Send, SendLost
    <2>3. pc[r] = "send" /\ \E place \in {"receipt", "release"} : pc' = [pc EXCEPT ![r] = place]
        BY <1>1 DEF Send, SendLost, Goto
    <2>4. QED
        BY <2>2, <2>3 DEF Unsent, Types
<1>2. ASSUME NEW r \in Requests,
             \/ Refuse(r) \/ Reserve(r) \/ Duplicate(r) \/ Preflight(r) \/ SendRefused(r)
             \/ Receipt(r) \/ ReceiptLost(r) \/ Answer(r) \/ Release(r)
      PROVE  Unsent' \subseteq Unsent /\ txs' = txs
    <2>1. txs' = txs
        BY <1>2 DEF Refuse, Reserve, Duplicate, Preflight, SendRefused, Receipt, ReceiptLost,
            Answer, Release, chain
    <2>2. PICK place : /\ pc' = [pc EXCEPT ![r] = place]
                       /\ place \in {"new", "preflight", "send"} => pc[r] \in {"new", "preflight"}
        BY <1>2 DEF Refuse, Reserve, Duplicate, Preflight, SendRefused, Receipt, ReceiptLost,
            Answer, Release, Goto
    <2>3. QED
        BY <2>1, <2>2 DEF Unsent, Types
<1>3. ASSUME Crash PROVE Unsent' \subseteq Unsent /\ txs' = txs
    BY <1>3 DEF Crash, Unsent, Types, Working, chain
<1>4. ASSUME NEW t \in TxIds, Mine(t) PROVE Unsent' = Unsent /\ Len(txs') = Len(txs)
    BY <1>4, MineGrows DEF Mine, Unsent
<1>5. \/ \E r \in Requests : Send(r) \/ SendLost(r)
      \/ \E r \in Requests :
            \/ Refuse(r) \/ Reserve(r) \/ Duplicate(r) \/ Preflight(r) \/ SendRefused(r)
            \/ Receipt(r) \/ ReceiptLost(r) \/ Answer(r) \/ Release(r)
      \/ Crash
      \/ \E t \in TxIds : Mine(t)
      \/ UNCHANGED <<pc, txs>>
    BY DEF Next, RequestStep, BookingStep, HealStep, Fault, KeyExpires, Watch,
        ReadMarket, InsertTrade, UpdateVolume, ReadPosition, WritePosition, QueryFails,
        LoadRows, ReadBalances, ApplyBalances, HealFails, vars, chain
<1>6. QED
    BY <1>1, <1>2, <1>3, <1>4, <1>5 DEF Unsent

LEMMA SlotsStep ==
    ASSUME Types, SlotsInv, [Next]_vars
    PROVE  SlotsInv'
<1>1. IsFiniteSet(Unsent) /\ Cardinality(Unsent) \in Nat
    BY OrderAssumption, FS_Subset, FS_CardinalityType DEF Unsent
<1>2. Unsent' \subseteq Unsent
    BY UnsentStep
<1>3. IsFiniteSet(Unsent') /\ Cardinality(Unsent') \in Nat /\ Cardinality(Unsent') <= Cardinality(Unsent)
    BY <1>1, <1>2, FS_Subset, FS_CardinalityType
<1>4. ASSUME NEW r \in Unsent, r \notin Unsent' PROVE Cardinality(Unsent') < Cardinality(Unsent)
    <2>1. Unsent' # Unsent
        BY <1>4
    <2>2. QED
        BY <1>1, <1>2, <1>3, <2>1, FS_Subset
<1>5. CASE Len(txs') = Len(txs)
    BY <1>1, <1>3, <1>5, RequestsFinite DEF SlotsInv, Types
<1>6. CASE Len(txs') = Len(txs) + 1 /\ \E r \in Unsent : r \notin Unsent'
    BY <1>1, <1>3, <1>4, <1>6, RequestsFinite DEF SlotsInv, Types
<1>7. QED
    BY <1>5, <1>6, UnsentStep

LEMMA KeysStep ==
    ASSUME Types, KeysInv, [Next]_vars
    PROVE  KeysInv'
<1>1. ASSUME NEW r \in Requests, Reserve(r) PROVE KeysInv'
    <2>1. \A q \in Requests : carries[q] = carries[r] => ~Working(q)
        BY <1>1 DEF Reserve, KeysInv
    <2>2. \A q \in Requests \ {r} : pc'[q] = pc[q]
        BY <1>1 DEF Reserve, Goto, Types
    <2>3. \A i \in Intents : key'[i] = (key[i] \/ i = carries[r])
        BY <1>1 DEF Reserve, Types
    <2>4. carries' = carries /\ carries \in [Requests -> Intents]
        BY <1>1 DEF Reserve, Types
    <2>5. QED
        BY <2>1, <2>2, <2>3, <2>4 DEF KeysInv, Working
<1>2. ASSUME NEW r \in Requests, Release(r) PROVE KeysInv'
    <2>1. \A q \in Requests \ {r} : carries[q] = carries[r] => ~Working(q)
        BY <1>2 DEF Release, KeysInv, Working
    <2>2. \A q \in Requests \ {r} : pc'[q] = pc[q]
        BY <1>2 DEF Release, Goto, Types
    <2>3. ~Working(r)'
        BY <1>2 DEF Release, Goto, Types, Working
    <2>4. \A i \in Intents : i # carries[r] => key'[i] = key[i]
        BY <1>2 DEF Release, Types
    <2>5. carries' = carries /\ carries \in [Requests -> Intents]
        BY <1>2 DEF Release, Types
    <2>6. QED
        BY <2>1, <2>2, <2>3, <2>4, <2>5 DEF KeysInv, Working
<1>3. ASSUME NEW i \in Intents, KeyExpires(i) PROVE KeysInv'
    <2>1. carries' = carries /\ pc' = pc /\ carries \in [Requests -> Intents]
        BY <1>3 DEF KeyExpires, Types
    <2>2. \A r \in Requests : Working(r) => key'[carries[r]] = key[carries[r]]
        BY <1>3, <2>1 DEF KeyExpires, Types
    <2>3. QED
        BY <2>1, <2>2 DEF KeysInv, Working
<1>4. ASSUME UNCHANGED <<carries, key>>, \A r \in Requests : Working(r)' => Working(r)
      PROVE  KeysInv'
    BY <1>4 DEF KeysInv
<1>5. ASSUME NEW r \in Requests,
             \/ Refuse(r) \/ Duplicate(r) \/ Preflight(r) \/ Send(r) \/ SendRefused(r) \/ SendLost(r)
             \/ Receipt(r) \/ ReceiptLost(r) \/ Answer(r)
      PROVE  KeysInv'
    <2>1. UNCHANGED <<carries, key>>
        BY <1>5 DEF Refuse, Duplicate, Preflight, Send, SendRefused, SendLost, Receipt, ReceiptLost, Answer
    <2>2. PICK place : /\ pc' = [pc EXCEPT ![r] = place]
                       /\ Working(r) \/ place = "failed"
        BY <1>5 DEF Refuse, Duplicate, Preflight, Send, SendRefused, SendLost, Receipt, ReceiptLost,
            Answer, Goto, Working
    <2>3. \A q \in Requests : Working(q)' => Working(q)
        BY <2>2 DEF Working, Types
    <2>4. QED
        BY <1>4, <2>1, <2>3
<1>6. ASSUME Crash PROVE KeysInv'
    <2>1. \A r \in Requests : ~Working(r)'
        BY <1>6 DEF Crash, Working
    <2>2. QED
        BY <2>1 DEF KeysInv
<1>7. ASSUME UNCHANGED <<carries, key, pc>> PROVE KeysInv'
    BY <1>4, <1>7 DEF Working
<1>8. \/ \E r \in Requests : Reserve(r) \/ Release(r)
      \/ \E i \in Intents : KeyExpires(i)
      \/ \E r \in Requests :
            \/ Refuse(r) \/ Duplicate(r) \/ Preflight(r) \/ Send(r) \/ SendRefused(r) \/ SendLost(r)
            \/ Receipt(r) \/ ReceiptLost(r) \/ Answer(r)
      \/ Crash
      \/ UNCHANGED <<carries, key, pc>>
    BY DEF Next, RequestStep, BookingStep, HealStep, Fault, Mine, Watch,
        ReadMarket, InsertTrade, UpdateVolume, ReadPosition, WritePosition, QueryFails,
        LoadRows, ReadBalances, ApplyBalances, HealFails, vars
<1>9. QED
    BY <1>1, <1>2, <1>3, <1>5, <1>6, <1>7, <1>8

---------------------------------------------------------------------------
(* What is booked was executed *)

\* How a step changes the bookings: one starts, for an executed trade, or one
\* takes its step, or they stop.
Started(f) ==
    /\ f \in FillIds
    /\ f[2] \in Executed
    /\ fills' = [fills EXCEPT ![f].at = "market"]
Stopped == fills' = [f \in FillIds |-> IF Running(f) THEN Finished("threw") ELSE fills[f]]

LEMMA FillMoves ==
    ASSUME Types, SlotsInv, HashInv, [Next]_vars
    PROVE  \/ UNCHANGED <<fills, trades, volume>>
           \/ ((\E f \in FillIds : Started(f)) /\ UNCHANGED <<trades, volume>>)
           \/ \E f \in FillIds : BookingStep(f) \/ QueryFails(f)
           \/ (Stopped /\ UNCHANGED <<trades, volume>>)
<1>1. ASSUME NEW r \in Requests, Receipt(r)
      PROVE  /\ UNCHANGED <<trades, volume>>
             /\ fills' = fills \/ Started(<<"route", hash[r]>>)
    <2>1. hash[r] \in DOMAIN txs /\ hash[r] \in TxIds
        BY <1>1, SlotTypes DEF Receipt, HashInv
    <2>2. QED
        BY <1>1, <2>1 DEF Receipt, Started, FillIds, Executed, db
<1>2. ASSUME Watch
      PROVE  /\ UNCHANGED <<trades, volume>>
             /\ fills' = fills \/ Started(<<"watcher", watched + 1>>)
    <2>1. watched + 1 \in DOMAIN txs /\ watched + 1 \in TxIds
        BY <1>2, SlotTypes DEF Watch, Types
    <2>2. QED
        BY <1>2, <2>1 DEF Watch, Started, FillIds, Executed, db
<1>3. ASSUME Crash PROVE Stopped /\ UNCHANGED <<trades, volume>>
    BY <1>3 DEF Crash, Stopped, db
<1>4. ASSUME NEW r \in Requests, Receipt(r)
      PROVE  /\ UNCHANGED <<trades, volume>>
             /\ fills' = fills \/ \E f \in FillIds : Started(f)
    BY <1>1, <1>4 DEF Started
<1>5. ASSUME Watch
      PROVE  /\ UNCHANGED <<trades, volume>>
             /\ fills' = fills \/ \E f \in FillIds : Started(f)
    BY <1>2, <1>5 DEF Started
<1>6. \/ \E r \in Requests : Receipt(r)
      \/ Watch
      \/ Crash
      \/ \E f \in FillIds : BookingStep(f) \/ QueryFails(f)
      \/ UNCHANGED <<fills, trades, volume>>
    BY DEF Next, RequestStep, HealStep, Fault, Refuse, Reserve, Duplicate, Preflight, Send, SendRefused,
        SendLost, ReceiptLost, Answer, Release, KeyExpires, Mine,
        LoadRows, ReadBalances, ApplyBalances, HealFails, vars, db
<1>7. QED
    BY <1>3, <1>4, <1>5, <1>6

\* The booking of one trade, and what it leaves alone.
LEMMA BookingMoves ==
    ASSUME Types, NEW f \in FillIds, BookingStep(f) \/ QueryFails(f)
    PROVE  /\ txs' = txs
           /\ trades \subseteq trades'
           /\ trades' \subseteq trades \cup {f[2]}
           /\ trades' # trades => fills[f].at = "insert"
           /\ fills[f].at # "none"
           /\ \A g \in FillIds \ {f} : fills'[g] = fills[g]
           /\ Inserted(f)' => fills[f].at = "insert" \/ Inserted(f)
           /\ fills[f].at = "insert" => trades' = trades \cup {f[2]} \/ fills'[f].at = "threw"
<1>1. fills \in [FillIds -> Fill] /\ trades \subseteq TxIds
    BY DEF Types
<1>2. ASSUME ReadMarket(f) \/ UpdateVolume(f) \/ ReadPosition(f)
      PROVE  /\ UNCHANGED <<txs, trades>>
             /\ fills[f].at \notin {"none", "insert"}
             /\ \A g \in FillIds \ {f} : fills'[g] = fills[g]
             /\ Inserted(f)' => Inserted(f)
    BY <1>1, <1>2 DEF ReadMarket, UpdateVolume, ReadPosition, Fill, Inserted, chain, db
<1>3. ASSUME InsertTrade(f)
      PROVE  /\ txs' = txs
             /\ trades' = trades \cup {f[2]}
             /\ fills[f].at = "insert"
             /\ \A g \in FillIds \ {f} : fills'[g] = fills[g]
    BY <1>1, <1>3 DEF InsertTrade, chain
<1>4. ASSUME WritePosition(f)
      PROVE  /\ UNCHANGED <<txs, trades>>
             /\ fills[f].at = "write"
             /\ \A g \in FillIds \ {f} : fills'[g] = fills[g]
             /\ Inserted(f)
    BY <1>1, <1>4 DEF WritePosition, Inserted, chain
<1>5. ASSUME QueryFails(f)
      PROVE  /\ UNCHANGED <<txs, trades>>
             /\ fills[f].at # "none"
             /\ \A g \in FillIds \ {f} : fills'[g] = fills[g]
             /\ fills'[f].at = IF fills[f].at = "volume" THEN "position" ELSE "threw"
    BY <1>1, <1>5 DEF QueryFails, Running, Finished, chain, db
<1>6. QED
    BY <1>2, <1>3, <1>4, <1>5 DEF BookingStep, Inserted

LEMMA FillsStep ==
    ASSUME Types, SlotsInv, HashInv, FillsInv, Types', [Next]_vars
    PROVE  FillsInv'
<1>1. Executed \subseteq Executed'
    BY NextGrows, ExecutedGrows DEF Types
<1>2. fills \in [FillIds -> Fill]
    BY DEF Types
<1>3. CASE UNCHANGED <<fills, trades, volume>>
    BY <1>1, <1>3 DEF FillsInv, Inserted
<1>4. ASSUME NEW f \in FillIds, Started(f), UNCHANGED <<trades, volume>>
      PROVE  FillsInv'
    <2>1. \A g \in FillIds : \/ fills'[g] = fills[g]
                            \/ (g = f /\ fills'[g].at = "market")
        BY <1>2, <1>4 DEF Started, Fill
    <2>2. QED
        BY <1>1, <1>4, <2>1 DEF Started, FillsInv, Inserted
<1>5. ASSUME NEW f \in FillIds, BookingStep(f) \/ QueryFails(f)
      PROVE  FillsInv'
    <2>1. f[2] \in Executed
        BY <1>5, BookingMoves DEF FillsInv
    <2>2. trades' \subseteq Executed'
        BY <1>1, <1>5, <2>1, BookingMoves DEF FillsInv
    <2>3. Inserted(f)' => f[2] \in trades'
        <3>1. fills'[f].at = "threw" => ~Inserted(f)'
            BY DEF Inserted
        <3>2. QED
            BY <1>5, <3>1, BookingMoves DEF FillsInv
    <2>4. ASSUME NEW g \in FillIds, g # f
          PROVE  /\ fills'[g].at # "none" => g[2] \in Executed'
                 /\ Inserted(g)' => g[2] \in trades'
        <3>1. fills'[g] = fills[g] /\ trades \subseteq trades'
            BY <1>5, <2>4, BookingMoves
        <3>2. QED
            BY <1>1, <3>1 DEF FillsInv, Inserted
    <2>5. QED
        BY <1>1, <2>1, <2>2, <2>3, <2>4 DEF FillsInv
<1>6. CASE Stopped /\ UNCHANGED <<trades, volume>>
    <2>1. \A g \in FillIds : \/ fills'[g] = fills[g]
                            \/ (fills[g].at # "none" /\ fills'[g].at = "threw")
        BY <1>6 DEF Stopped, Running, Finished
    <2>2. QED
        BY <1>1, <1>6, <2>1 DEF FillsInv, Inserted
<1>7. QED
    BY <1>3, <1>4, <1>5, <1>6, FillMoves

---------------------------------------------------------------------------
(* A success has been booked *)

LEMMA HashStep ==
    ASSUME Types, SlotsInv, HashInv, FillsInv, [Next]_vars
    PROVE  HashInv'
<1>1. Grows /\ trades \subseteq trades'
    <2>1. Grows
        BY NextGrows
    <2>2. \A f \in FillIds : BookingStep(f) \/ QueryFails(f) => trades \subseteq trades'
        BY BookingMoves
    <2>3. QED
        BY <2>1, <2>2, FillMoves
<1>2. DOMAIN txs \subseteq 1..Len(txs')
    BY <1>1 DEF Grows, Types
<1>3. ASSUME NEW r \in Requests, pc'[r] = pc[r], hash'[r] = hash[r]
      PROVE  /\ pc'[r] \in {"receipt", "booking"} => hash'[r] \in DOMAIN txs \cup 1..Len(txs')
             /\ pc'[r] = "success" => hash'[r] \in trades'
    BY <1>1, <1>3 DEF HashInv
<1>4. ASSUME NEW r \in Requests,
             \A q \in Requests \ {r} : pc'[q] = pc[q] /\ hash'[q] = hash[q],
             pc'[r] \in {"receipt", "booking"} => hash'[r] \in 1..Len(txs'),
             pc'[r] = "success" => hash'[r] \in trades',
             DOMAIN txs' = 1..Len(txs')
      PROVE  HashInv'
    BY <1>2, <1>3, <1>4 DEF HashInv
<1>5. ASSUME NEW r \in Requests, Send(r) PROVE HashInv'
    <2>1. carries[r] \in Intents
        BY DEF Types
    <2>2. Len(txs') = Len(txs) + 1 /\ txs' \in Seq(Tx) /\ Len(txs) \in Nat
        BY <1>5, <2>1, SendGrows DEF Send, Types
    <2>3. pc'[r] = "receipt"
        BY <1>5 DEF Send, Goto, Types
    <2>4. hash'[r] = Len(txs')
        BY <1>5 DEF Send, Types
    <2>5. \A q \in Requests \ {r} : pc'[q] = pc[q] /\ hash'[q] = hash[q]
        BY <1>5 DEF Send, Goto, Types
    <2>6. hash'[r] \in 1..Len(txs')
        BY <2>2, <2>4
    <2>7. DOMAIN txs' = 1..Len(txs')
        BY <2>2
    <2>8. QED
        BY <1>4, <2>3, <2>5, <2>6, <2>7
<1>6. ASSUME NEW r \in Requests, Receipt(r) PROVE HashInv'
    <2>1. UNCHANGED <<txs, hash>> /\ hash[r] \in DOMAIN txs
        BY <1>6 DEF Receipt, HashInv, chain
    <2>2. pc'[r] \in {"booking", "release"}
        BY <1>6 DEF Receipt, Goto, Types
    <2>3. \A q \in Requests \ {r} : pc'[q] = pc[q]
        BY <1>6 DEF Receipt, Goto, Types
    <2>4. QED
        BY <1>1, <2>1, <2>2, <2>3 DEF HashInv
<1>7. ASSUME NEW r \in Requests, Answer(r) PROVE HashInv'
    <2>1. UNCHANGED <<txs, hash, trades>>
        BY <1>7 DEF Answer, chain, db
    <2>2. hash[r] \in TxIds
        BY <1>7, SlotTypes DEF Answer, HashInv
    <2>3. pc'[r] \in {"success", "release"}
        BY <1>7 DEF Answer, Goto, Types
    <2>4. pc'[r] = "success" => fills[<<"route", hash[r]>>].at = "booked"
        BY <1>7 DEF Answer, Goto, Types
    <2>5. pc'[r] = "success" => hash[r] \in trades
        BY <2>2, <2>4 DEF FillsInv, Inserted, FillIds
    <2>6. \A q \in Requests \ {r} : pc'[q] = pc[q]
        BY <1>7 DEF Answer, Goto, Types
    <2>7. QED
        BY <2>1, <2>3, <2>5, <2>6 DEF HashInv
<1>8. ASSUME NEW r \in Requests, Release(r) PROVE HashInv'
    <2>1. UNCHANGED <<txs, trades>>
        BY <1>8 DEF Release, chain, db
    <2>2. pc'[r] = "failed" /\ \A q \in Requests \ {r} : pc'[q] = pc[q] /\ hash'[q] = hash[q]
        BY <1>8 DEF Release, Goto, Types
    <2>3. QED
        BY <2>1, <2>2 DEF HashInv
<1>9. ASSUME NEW r \in Requests, SendLost(r) PROVE HashInv'
    <2>1. carries[r] \in Intents
        BY DEF Types
    <2>2. txs' \in Seq(Tx)
        BY <1>9, <2>1, SendGrows DEF SendLost
    <2>3. pc'[r] = "release" /\ hash' = hash /\ \A q \in Requests \ {r} : pc'[q] = pc[q]
        BY <1>9 DEF SendLost, Goto, Types
    <2>4. DOMAIN txs' = 1..Len(txs')
        BY <2>2
    <2>5. QED
        BY <1>4, <2>3, <2>4
<1>10. ASSUME NEW r \in Requests,
              \/ Refuse(r) \/ Reserve(r) \/ Duplicate(r) \/ Preflight(r) \/ SendRefused(r) \/ ReceiptLost(r)
       PROVE  HashInv'
    <2>1. UNCHANGED <<txs, hash, trades>>
        BY <1>10 DEF Refuse, Reserve, Duplicate, Preflight, SendRefused, ReceiptLost, chain, db
    <2>2. PICK place \in {"failed", "preflight", "send", "release"} : pc' = [pc EXCEPT ![r] = place]
        BY <1>10 DEF Refuse, Reserve, Duplicate, Preflight, SendRefused, ReceiptLost, Goto
    <2>3. QED
        BY <2>1, <2>2 DEF HashInv, Types
<1>11. ASSUME Crash PROVE HashInv'
    <2>1. UNCHANGED <<txs, trades>>
        BY <1>11 DEF Crash, chain, db
    <2>2. \A q \in Requests : pc'[q] = "unanswered" \/ (pc'[q] = pc[q] /\ hash'[q] = hash[q])
        BY <1>11 DEF Crash
    <2>3. QED
        BY <2>1, <2>2 DEF HashInv
<1>12. ASSUME NEW t \in TxIds, Mine(t) PROVE HashInv'
    <2>1. txs' \in Seq(Tx)
        BY <1>12, MineGrows
    <2>2. DOMAIN txs' = 1..Len(txs')
        BY <2>1
    <2>3. UNCHANGED <<pc, hash>>
        BY <1>12 DEF Mine
    <2>4. QED
        BY <1>2, <1>3, <2>2, <2>3 DEF HashInv
<1>13. ASSUME UNCHANGED <<pc, hash, txs>> PROVE HashInv'
    BY <1>1, <1>13 DEF HashInv
<1>14. \/ \E r \in Requests :
            \/ Send(r) \/ Receipt(r) \/ Answer(r) \/ Release(r) \/ SendLost(r)
            \/ Refuse(r) \/ Reserve(r) \/ Duplicate(r) \/ Preflight(r) \/ SendRefused(r) \/ ReceiptLost(r)
       \/ Crash
       \/ \E t \in TxIds : Mine(t)
       \/ UNCHANGED <<pc, hash, txs>>
    BY DEF Next, RequestStep, BookingStep, HealStep, Fault, KeyExpires, Watch,
        ReadMarket, InsertTrade, UpdateVolume, ReadPosition, WritePosition, QueryFails,
        LoadRows, ReadBalances, ApplyBalances, HealFails, vars, chain
<1>15. QED
    BY <1>5, <1>6, <1>7, <1>8, <1>9, <1>10, <1>11, <1>12, <1>13, <1>14

---------------------------------------------------------------------------
(* The volume adds up *)

LEMMA AddsUpStays ==
    ASSUME Types, Types', Grows, NEW S, S \subseteq DOMAIN txs, NEW v, AddsUp(v, S),
           NEW T, S \subseteq T
    PROVE  AddsUp(v, T)'
<1>1. PICK some \in SUBSET S : v = SumOver([t \in some |-> OrderOf(t).collateral])
    BY DEF AddsUp
<1>2. \A t \in some : OrderOf(t)' = OrderOf(t)
    BY ExecutedGrows DEF Types
<1>3. [t \in some |-> OrderOf(t).collateral]' = [t \in some |-> OrderOf(t).collateral]
    BY <1>2
<1>4. v = SumOver([t \in some |-> OrderOf(t).collateral])'
    BY <1>1, <1>3 DEF SumOver, UnitsOf
<1>5. QED
    BY <1>1, <1>4 DEF AddsUp

\* A trade that is not among those a number adds up is added to it.
LEMMA AddsUpOneMore ==
    ASSUME Types, NEW S, S \subseteq DOMAIN txs, NEW t \in S,
           NEW v, AddsUp(v, S \ {t})
    PROVE  AddsUp(v + OrderOf(t).collateral, S)
<1>1. PICK some \in SUBSET (S \ {t}) : v = SumOver([u \in some |-> OrderOf(u).collateral])
    BY DEF AddsUp
<1> DEFINE more == some \cup {t}
           cost == [u \in more |-> OrderOf(u).collateral]
<1>2. cost \in [more -> Nat]
    <2>1. \A u \in more : OrderOf(u) \in Orders
        BY OrderTypes
    <2>2. QED
        BY <2>1 DEF Orders
<1>3. IsFiniteSet(some)
    <2>1. IsFiniteSet(1..Len(txs))
        BY FS_Interval DEF Types
    <2>2. some \subseteq 1..Len(txs)
        BY DEF Types
    <2>3. QED
        BY <2>1, <2>2, FS_Subset
<1>4. [u \in some |-> cost[u]] = [u \in some |-> OrderOf(u).collateral]
    OBVIOUS
<1>5. cost[t] = OrderOf(t).collateral
    OBVIOUS
<1>6. SumOver(cost) = SumOver([u \in some |-> cost[u]]) + cost[t]
    <2> HIDE DEF cost
    <2>1. QED
        BY <1>2, <1>3, SumExtend
<1>7. more \in SUBSET S
    OBVIOUS
<1>8. v + OrderOf(t).collateral = SumOver(cost)
    <2> HIDE DEF cost
    <2>1. QED
        BY <1>1, <1>4, <1>5, <1>6
<1>9. QED
    BY <1>7, <1>8 DEF AddsUp

\* What volumes a booking, as it stands, may have.
Read(f) ==
    /\ fills[f].at = "insert" => AddsUp(fills[f].volume, trades)
    /\ fills[f].at = "volume" => AddsUp(fills[f].volume, trades \ {f[2]})

LEMMA VolumeStep ==
    ASSUME Types, SlotsInv, HashInv, FillsInv, VolumeInv, Types', [Next]_vars
    PROVE  VolumeInv'
<1>1. Grows /\ trades \subseteq DOMAIN txs
    BY NextGrows DEF FillsInv, Executed
<1>2. fills \in [FillIds -> Fill]
    BY DEF Types
<1>3. ASSUME trades \subseteq trades', NEW v, AddsUp(v, trades)
      PROVE  AddsUp(v, trades)'
    <2>1. PICK old : old = trades
        OBVIOUS
    <2>2. PICK more : more = trades'
        OBVIOUS
    <2>3. AddsUp(v, more)'
        BY <1>1, <1>3, <2>1, <2>2, AddsUpStays
    <2>4. QED
        BY <2>2, <2>3 DEF AddsUp
<1>4. ASSUME trades \subseteq trades', NEW g \in FillIds, fills'[g] = fills[g]
      PROVE  Read(g)'
    <2>1. Read(g)
        BY DEF VolumeInv, Read
    <2>2. PICK v : v = fills[g].volume
        OBVIOUS
    <2>3. CASE fills[g].at = "insert"
        <3>1. AddsUp(v, trades)
            BY <2>1, <2>2, <2>3 DEF Read
        <3>2. AddsUp(v, trades)'
            BY <1>3, <1>4, <3>1
        <3>3. fills'[g].volume = v /\ fills'[g].at = "insert"
            BY <1>4, <2>2, <2>3
        <3>4. QED
            BY <3>2, <3>3 DEF Read, AddsUp
    <2>4. CASE fills[g].at = "volume"
        <3>1. PICK rest : rest = trades \ {g[2]}
            OBVIOUS
        <3>2. PICK more : more = trades' \ {g[2]}
            OBVIOUS
        <3>3. rest \subseteq DOMAIN txs /\ rest \subseteq more /\ AddsUp(v, rest)
            BY <1>1, <1>4, <2>1, <2>2, <2>4, <3>1, <3>2 DEF Read
        <3>4. AddsUp(v, more)'
            BY <1>1, <3>3, AddsUpStays
        <3>5. fills'[g].volume = v /\ fills'[g].at = "volume"
            BY <1>4, <2>2, <2>4
        <3>6. QED
            BY <3>2, <3>4, <3>5 DEF Read, AddsUp
    <2>5. CASE fills[g].at \notin {"insert", "volume"}
        BY <1>4, <2>5 DEF Read
    <2>6. QED
        BY <2>3, <2>4, <2>5
<1>5. ASSUME trades \subseteq trades', volume' = volume PROVE AddsUp(volume, trades)'
    <2>1. PICK v : v = volume
        OBVIOUS
    <2>2. AddsUp(v, trades)'
        BY <1>3, <1>5, <2>1 DEF VolumeInv
    <2>3. QED
        BY <1>5, <2>1, <2>2 DEF AddsUp
<1>6. ASSUME AddsUp(volume, trades)', \A g \in FillIds : Read(g)' PROVE VolumeInv'
    BY <1>6 DEF VolumeInv, Read
<1>7. ASSUME NEW f \in FillIds,
             \A g \in FillIds \ {f} : fills'[g] = fills[g],
             fills'[f].at \notin {"insert", "volume"},
             trades \subseteq trades', volume' = volume
      PROVE  VolumeInv'
    BY <1>4, <1>5, <1>6, <1>7 DEF Read
<1>8. CASE UNCHANGED <<fills, trades, volume>>
    BY <1>4, <1>5, <1>6, <1>8
<1>9. ASSUME NEW f \in FillIds, Started(f), UNCHANGED <<trades, volume>>
      PROVE  VolumeInv'
    <2>1. fills'[f].at = "market" /\ \A g \in FillIds \ {f} : fills'[g] = fills[g]
        BY <1>2, <1>9 DEF Started, Fill
    <2>2. QED
        BY <1>7, <1>9, <2>1
<1>10. ASSUME NEW f \in FillIds, QueryFails(f) \/ ReadPosition(f) \/ WritePosition(f)
       PROVE  VolumeInv'
    <2>1. UNCHANGED <<trades, volume>>
        BY <1>10 DEF QueryFails, ReadPosition, WritePosition, db
    <2>2. fills'[f].at \notin {"insert", "volume"}
        BY <1>2, <1>10 DEF QueryFails, ReadPosition, WritePosition, Finished, Fill
    <2>3. \A g \in FillIds \ {f} : fills'[g] = fills[g]
        BY <1>10, BookingMoves DEF BookingStep
    <2>4. QED
        BY <1>7, <2>1, <2>2, <2>3
<1>11. ASSUME NEW f \in FillIds, ReadMarket(f) PROVE VolumeInv'
    <2>1. UNCHANGED <<trades, volume>>
        BY <1>11 DEF ReadMarket, db
    <2>2. fills'[f].at = "insert" /\ fills'[f].volume = volume
        BY <1>2, <1>11 DEF ReadMarket, Fill
    <2>3. AddsUp(volume, trades)'
        BY <1>5, <2>1
    <2>4. Read(f)'
        BY <2>1, <2>2, <2>3 DEF Read, AddsUp
    <2>5. \A g \in FillIds \ {f} : fills'[g] = fills[g]
        BY <1>11, BookingMoves DEF BookingStep
    <2>6. QED
        BY <1>4, <1>6, <2>1, <2>3, <2>4, <2>5
<1>12. ASSUME NEW f \in FillIds, InsertTrade(f) PROVE VolumeInv'
    <2>1. trades' = trades \cup {f[2]} /\ volume' = volume
        BY <1>12 DEF InsertTrade
    <2>2. \A g \in FillIds \ {f} : fills'[g] = fills[g]
        BY <1>12, BookingMoves DEF BookingStep
    <2>3. CASE f[2] \in trades
        <3>1. fills'[f].at = "booked"
            BY <1>2, <1>12, <2>3 DEF InsertTrade, Finished
        <3>2. QED
            BY <1>7, <2>1, <2>2, <3>1
    <2>4. CASE f[2] \notin trades
        <3>1. fills[f].at = "insert" /\ fills'[f].at = "volume" /\ fills'[f].volume = fills[f].volume
            BY <1>2, <1>12, <2>4 DEF InsertTrade, Fill
        <3>2. PICK v : v = fills[f].volume
            OBVIOUS
        <3>3. AddsUp(v, trades)
            BY <3>1, <3>2 DEF VolumeInv
        <3>4. PICK old : old = trades
            OBVIOUS
        <3>5. AddsUp(v, old)'
            BY <1>1, <3>3, <3>4, AddsUpStays
        <3>6. trades' \ {f[2]} = old
            BY <2>1, <2>4, <3>4
        <3>7. Read(f)'
            BY <3>1, <3>2, <3>5, <3>6 DEF Read
        <3>8. QED
            BY <1>4, <1>5, <1>6, <2>1, <2>2, <3>7
    <2>5. QED
        BY <2>3, <2>4
<1>13. ASSUME NEW f \in FillIds, UpdateVolume(f) PROVE VolumeInv'
    <2>1. trades' = trades /\ txs' = txs
        BY <1>13 DEF UpdateVolume, chain
    <2>2. \A g \in FillIds \ {f} : fills'[g] = fills[g]
        BY <1>13, BookingMoves DEF BookingStep
    <2>3. fills'[f].at = "position"
        BY <1>2, <1>13 DEF UpdateVolume, Fill
    <2>4. f[2] \in trades /\ AddsUp(fills[f].volume, trades \ {f[2]})
        BY <1>13 DEF UpdateVolume, FillsInv, Inserted, VolumeInv
    <2>5. AddsUp(fills[f].volume + OrderOf(f[2]).collateral, trades)
        BY <1>1, <2>4, AddsUpOneMore
    <2>6. AddsUp(volume', trades)
        BY <1>13, <2>5 DEF UpdateVolume
    <2>7. AddsUp(volume, trades)'
        <3>1. PICK some \in SUBSET trades :
                  volume' = SumOver([t \in some |-> OrderOf(t).collateral])
            BY <2>6 DEF AddsUp
        <3>2. [t \in some |-> OrderOf(t).collateral]' = [t \in some |-> OrderOf(t).collateral]
            BY <2>1 DEF OrderOf
        <3>3. volume' = SumOver([t \in some |-> OrderOf(t).collateral]')
            BY <3>1, <3>2
        <3>4. volume' = SumOver([t \in some |-> OrderOf(t).collateral])'
            BY <3>3 DEF SumOver, UnitsOf
        <3>5. QED
            BY <2>1, <3>1, <3>4 DEF AddsUp
    <2>8. Read(f)'
        BY <2>3 DEF Read
    <2>9. QED
        BY <1>4, <1>6, <2>1, <2>2, <2>7, <2>8
<1>14. CASE Stopped /\ UNCHANGED <<trades, volume>>
    <2>1. \A g \in FillIds : fills'[g] = fills[g] \/ fills'[g].at = "threw"
        BY <1>14 DEF Stopped, Finished
    <2>2. \A g \in FillIds : Read(g)'
        BY <1>4, <1>14, <2>1 DEF Read
    <2>3. QED
        BY <1>5, <1>6, <1>14, <2>2
<1>15. QED
    BY <1>8, <1>9, <1>10, <1>11, <1>12, <1>13, <1>14, FillMoves DEF BookingStep

---------------------------------------------------------------------------
(* The theorems *)

LEMMA PipelineStep ==
    ASSUME PipelineInv, [Next]_vars
    PROVE  PipelineInv'
<1>1. Types /\ SlotsInv /\ KeysInv /\ HashInv /\ FillsInv /\ VolumeInv
    BY DEF PipelineInv
<1>2. Types'
    BY <1>1, TypesStep
<1>3. QED
    BY <1>1, <1>2, SlotsStep, KeysStep, HashStep, FillsStep, VolumeStep DEF PipelineInv

LEMMA PipelineInvariant == Spec => []PipelineInv
<1>1. QED
    BY PipelineInit, PipelineStep, PTL DEF Spec

\* While a request works on an intent its nonce stays reserved, by this request
\* alone, in spite of releases, of keys that expire and of restarts; and what
\* the pipeline keeps is well typed: the operator sends at most one transaction
\* for each request.
THEOREM IntentReservedWhileWorking == Spec => []ReservedWhileWorking
<1>1. PipelineInv => ReservedWhileWorking
    <2> SUFFICES ASSUME PipelineInv PROVE ReservedWhileWorking
        OBVIOUS
    <2>1. IsFiniteSet(Unsent)
        BY OrderAssumption, FS_Subset DEF Unsent
    <2>2. Cardinality(Unsent) \in Nat
        BY <2>1, FS_CardinalityType
    <2>3. Len(txs) <= Cardinality(Requests)
        BY <2>2, RequestsFinite DEF PipelineInv, SlotsInv, Types
    <2>4. TypeOK
        BY <2>3 DEF PipelineInv, Types, TypeOK
    <2>5. QED
        BY <2>4 DEF PipelineInv, KeysInv, ReservedWhileWorking
<1>2. QED
    BY <1>1, PipelineInvariant, PTL

\* processTradeFill (services/indexer.ts), called by the route and by the
\* watcher for the same trades in any interleaving, books only what was
\* executed, and counts no trade twice in the volume of the market.
THEOREM TradesBookedOnce == Spec => []NeverDoubleBooked
<1>1. PipelineInv => NeverDoubleBooked
    BY DEF PipelineInv, FillsInv, VolumeInv, AddsUp, NeverDoubleBooked
<1>2. QED
    BY <1>1, PipelineInvariant, PTL

\* A trader who is told of success by /buy or /sell (routes/trading.ts) has a
\* trade on the chain and in the books.
THEOREM SuccessMeansBooked == Spec => []SuccessIsBooked
<1>1. PipelineInv => SuccessIsBooked
    BY DEF PipelineInv, HashInv, FillsInv, SuccessIsBooked
<1>2. QED
    BY <1>1, PipelineInvariant, PTL

=============================================================================
