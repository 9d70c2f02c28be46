-------------------------- MODULE LifecycleProofs --------------------------
(***************************************************************************)
(* Proofs about MarketLifecycle.tla.                                       *)
(*                                                                         *)
(* LifeInv says what every process, row and transaction is about: a row    *)
(* belongs to one market, a process works on a row of the right kind, and  *)
(* the transaction in flight is the one its sender waits for.  DrainInv,   *)
(* RangeWinner and DailyWinner are added to it for the amounts withdrawn   *)
(* and for the published winners of the two families.                      *)
(***************************************************************************)
EXTENDS MarketLifecycle, FiniteSetTheorems, TLAPS

Resolvers == Ticks \cup {"fallback"}
Resolving == {"acquire", "send", "receipt", "release"}
TickWork == {"price", "close", "stuck"} \cup Resolving
RangeTick == {"idle", "send", "receipt", "close", "ensure", "create", "created"}
DailyTick == {"idle", "check", "create", "created"} \cup TickWork

---------------------------------------------------------------------------
(* The invariant *)

\* A process at these places works on a row.
HasRow(a) ==
    \/ proc[a].at \in TickWork \cup {"drain", "drained"}
    \/ family = "range" /\ proc[a].at \in {"create", "created"}

\* Each process does its own work only; the admin's tick is a 24-hour one.
PlaceInv ==
    /\ proc["fallback"].at \in {"idle"} \cup Resolving
    /\ proc["drain"].at \in {"idle", "drain", "drained"}
    /\ \A a \in Ticks : proc[a].at \in (IF family = "range" THEN RangeTick ELSE DailyTick)
    /\ family = "range" => proc["admin"].at = "idle"
    /\ \A a \in Actors : HasRow(a) => proc[a].row \in Keys

\* The row of a 24-hour market has the market's number.
DailyRow(k) ==
    /\ rows[k].status # "creating"
    /\ rows[k].status = "absent" => rows[k] = NoRow
    /\ rows[k].status # "absent" => k \in DOMAIN chain /\ rows[k].market = k
    /\ rows[k].result # None => rows[k].resolved

DailyRows ==
    family = "24h" =>
        /\ \A k \in Keys : DailyRow(k)
        /\ \A m \in createdEvents : rows[m].status = "absent"
        /\ \A a \in Actors : HasRow(a) => rows[proc[a].row].status # "absent"

\* No two rows of range markets have the same market, and only an open or a
\* resolved row has one.
RangeRows ==
    family = "range" =>
        /\ createdEvents = {} /\ resolvedEvents = {}
        /\ \A k \in Keys :
              /\ rows[k].status # "plain"
              /\ rows[k].status \in {"open", "resolved"} <=> rows[k].market # None
              /\ rows[k].status = "resolved" <=> rows[k].resolved
              /\ rows[k].result # None => rows[k].resolved
        /\ \A j, k \in Keys :
              rows[j].market = rows[k].market => j = k \/ rows[k].market = None

\* What the range worker, the fallback and the drain rely on of their row.
RangeWork ==
    family = "range" =>
        /\ proc["worker"].at \in {"send", "receipt", "close"} =>
              rows[proc["worker"].row].status = "open"
        /\ proc["worker"].at \in {"create", "created"} =>
              rows[proc["worker"].row].status = "creating"
        /\ proc["worker"].at = "created" =>
              \A k \in Keys : rows[k].market = proc["worker"].made => rows[k].market = None
        /\ \A a \in {"fallback", "drain"} :
              proc[a].at # "idle" => rows[proc[a].row].status = "resolved"

MadeInv ==
    \A a \in Ticks :
        /\ proc[a].made \in 0..Len(chain)
        /\ proc[a].at = "created" /\ proc[a].outcome = "success" => proc[a].made # None

\* The transaction in flight, and who waits for it.
TxInv ==
    /\ tx.op = "none" => tx = NoTx
    /\ tx.op \in {"resolve", "drain"} => tx.market \in DOMAIN chain
    /\ tx.op = "create" => Len(chain) < MaxMarkets[family]

WaitInv ==
    /\ tx.by # "nobody" =>
          /\ proc[tx.by].outcome = "none"
          /\ tx.op = "resolve" => proc[tx.by].at = "receipt" /\ tx.result = proc[tx.by].result
          /\ tx.op = "create" => proc[tx.by].at = "created"
          /\ tx.op = "drain" => proc[tx.by].at = "drained"
    /\ \A a \in Actors :
          proc[a].at \in {"receipt", "created", "drained"} /\ proc[a].outcome = "none" => tx.by = a

\* The drain has no answer yet when it sends.
FreshInv == proc["drain"].at = "drain" => proc["drain"].outcome = "none"

\* The market of the transaction is the one of its sender's row.
TargetInv == tx.by # "nobody" /\ tx.op \in {"resolve", "drain"} => tx.market = Target(tx.by)

LifeInv ==
    /\ TypeOK
    /\ PlaceInv
    /\ DailyRows
    /\ RangeRows
    /\ RangeWork
    /\ MadeInv
    /\ TxInv
    /\ WaitInv
    /\ FreshInv
    /\ TargetInv

\* A behaviour is about one family of markets.
LEMMA FamilyStays == Next => family' = family
    BY DEF Next, Works, TickStep, ResolveStep, FallbackStep, DrainStep, ChainStep,
           CallFails, TickStart, RangeStart, Price, Close, Stuck, Check, CloseRange,
           Ensure, CreateSend, CreateFails, NotCreated, Created, CreatedRange,
           CreateLost, ForceCreate, Acquire, Send, SendRejected, SendFails, Receipt,
           ReceiptLost, Release, FallbackStart, DrainHeal, DrainStart, DrainSend,
           DrainReceipt, DrainLost, MineResolve, MineDrain, MineCreate, Cancel, Clock,
           Crash, LockExpires, HandleCreated, HandleResolved, Redeem, ByHand, events,
           history

\* Who writes the chain.
LEMMA ChainWriters == Next =>
    \/ chain' = chain
    \/ MineResolve \/ MineDrain \/ MineCreate
    \/ \E m \in DOMAIN chain : Redeem(m) \/ \E r \in Results : ByHand(m, r)
    BY DEF Next, Works, TickStep, ResolveStep, FallbackStep, DrainStep, ChainStep,
           CallFails, TickStart, RangeStart, Price, Close, Stuck, Check, CloseRange,
           Ensure, CreateSend, CreateFails, NotCreated, Created, CreatedRange,
           CreateLost, ForceCreate, Acquire, Send, SendRejected, SendFails, Receipt,
           ReceiptLost, Release, FallbackStart, DrainHeal, DrainStart, DrainSend,
           DrainReceipt, DrainLost, MineResolve, MineDrain, MineCreate, Cancel, Clock,
           Crash, LockExpires, HandleCreated, HandleResolved, Redeem, ByHand, events,
           history

\* Who writes a row.
LEMMA RowWriters == Next =>
    \/ rows' = rows
    \/ \E a \in Ticks :
          \/ Close(a) \/ Stuck(a) \/ CloseRange(a) \/ Ensure(a)
          \/ CreateFails(a) \/ NotCreated(a) \/ Created(a) \/ CreatedRange(a) \/ CreateLost(a)
    \/ ForceCreate
    \/ \E k \in Keys : DrainHeal(k)
    \/ DrainReceipt
    \/ \E m \in DOMAIN chain : HandleCreated(m) \/ HandleResolved(m)
<1> SUFFICES ASSUME Next, rows' # rows
             PROVE  \/ \E a \in Ticks :
                          \/ Close(a) \/ Stuck(a) \/ CloseRange(a) \/ Ensure(a)
                          \/ CreateFails(a) \/ NotCreated(a) \/ Created(a) \/ CreatedRange(a)
                          \/ CreateLost(a)
                    \/ ForceCreate
                    \/ \E k \in Keys : DrainHeal(k)
                    \/ DrainReceipt
                    \/ \E m \in DOMAIN chain : HandleCreated(m) \/ HandleResolved(m)
    OBVIOUS
<1>1. \A a \in Actors : ~(ResolveStep(a) \/ CallFails(a))
    BY DEF ResolveStep, CallFails, Acquire, Send, SendRejected, SendFails, Receipt, ReceiptLost, Release
<1>2. \A a \in Ticks : ~(TickStart(a) \/ RangeStart(a) \/ Price(a) \/ Check(a) \/ CreateSend(a))
    BY DEF TickStart, RangeStart, Price, Check, CreateSend
<1>3. ~(ChainStep \/ Cancel \/ Clock \/ Crash \/ DrainSend \/ DrainLost)
    BY DEF ChainStep, MineResolve, MineDrain, MineCreate, Cancel, Clock, Crash, DrainSend, DrainLost
<1>4. \A k \in Keys : ~(FallbackStart(k) \/ DrainStart(k) \/ LockExpires(k))
    BY DEF FallbackStart, DrainStart, LockExpires
<1>5. \A m \in DOMAIN chain : ~Redeem(m) /\ \A r \in Results : ~ByHand(m, r)
    BY DEF Redeem, ByHand
<1>6. QED
    BY <1>1, <1>2, <1>3, <1>4, <1>5 DEF Next, Works, TickStep, FallbackStep, DrainStep, Actors

\* Who sends, abandons or ends a transaction.
LEMMA Senders == Next =>
    \/ tx' = tx
    \/ \E a \in Resolvers : Send(a) \/ SendFails(a) \/ ReceiptLost(a)
    \/ \E a \in Ticks : CreateSend(a) \/ CreateLost(a)
    \/ DrainSend \/ DrainLost
    \/ MineResolve \/ MineDrain \/ MineCreate \/ Cancel \/ Crash
    BY DEF Next, Works, TickStep, ResolveStep, FallbackStep, DrainStep, ChainStep,
           CallFails, TickStart, RangeStart, Price, Close, Stuck, Check, CloseRange,
           Ensure, CreateSend, CreateFails, NotCreated, Created, CreatedRange,
           CreateLost, ForceCreate, Acquire, Send, SendRejected, SendFails, Receipt,
           ReceiptLost, Release, FallbackStart, DrainHeal, DrainStart, DrainSend,
           DrainReceipt, DrainLost, MineResolve, MineDrain, MineCreate, Cancel, Clock,
           Crash, LockExpires, HandleCreated, HandleResolved, Redeem, ByHand, events,
           history, Resolvers

---------------------------------------------------------------------------
(* The chain *)

\* A market stays what it was created as, its result and what was drained.
ChainGrows ==
    /\ chain' \in Seq(Market)
    /\ Len(chain) <= Len(chain') /\ Len(chain') <= MaxMarkets[family]
    /\ \A m \in DOMAIN chain :
          /\ m \in DOMAIN chain'
          /\ Settled(m) => Settled(m)' /\ chain'[m].result = chain[m].result
          /\ chain[m].drained => chain'[m].drained /\ chain'[m].withdrawn = chain[m].withdrawn

\* A market that is rewritten leaves the others as they are.
LEMMA Rewritten ==
    ASSUME chain \in Seq(Market), NEW m \in DOMAIN chain, NEW new \in Market,
           chain' = [chain EXCEPT ![m] = new]
    PROVE  /\ chain' \in Seq(Market) /\ Len(chain') = Len(chain)
           /\ chain'[m] = new
           /\ \A n \in DOMAIN chain : n # m => chain'[n] = chain[n]
OBVIOUS

\* What rewriting one market has to respect for ChainGrows.
LEMMA GrowsIfRewritten ==
    ASSUME TypeOK, NEW m \in DOMAIN chain, NEW new \in Market,
           chain' = [chain EXCEPT ![m] = new],
           Settled(m) => new.result = chain[m].result,
           chain[m].drained => new.drained /\ new.withdrawn = chain[m].withdrawn
    PROVE  ChainGrows /\ Len(chain') = Len(chain)
<1>1. chain \in Seq(Market) /\ Len(chain) <= MaxMarkets[family]
    BY DEF TypeOK, SettlementTypeOK
<1>2. /\ chain' \in Seq(Market) /\ Len(chain') = Len(chain)
      /\ chain'[m] = new
      /\ \A n \in DOMAIN chain : n # m => chain'[n] = chain[n]
    BY <1>1, Rewritten
<1>3. DOMAIN chain' = DOMAIN chain
    BY <1>1, <1>2
<1>4. QED
    BY <1>1, <1>2, <1>3 DEF ChainGrows, Settled, None

\* Every step respects ChainGrows, and only MineCreate adds a market.
LEMMA ChainStep1 == LifeInv /\ Next => ChainGrows /\ (MineCreate \/ Len(chain') = Len(chain))
<1> SUFFICES ASSUME LifeInv, Next PROVE ChainGrows /\ (MineCreate \/ Len(chain') = Len(chain))
    OBVIOUS
<1>1. TypeOK /\ chain \in Seq(Market) /\ Len(chain) <= MaxMarkets[family]
    BY DEF LifeInv, TypeOK, SettlementTypeOK
<1>2. ASSUME chain' = chain
      PROVE  ChainGrows /\ Len(chain') = Len(chain)
    BY <1>1, <1>2 DEF ChainGrows, Settled
<1>3. ASSUME MineResolve, chain' # chain
      PROVE  ChainGrows /\ Len(chain') = Len(chain)
    <2>1. /\ tx.market \in DOMAIN chain /\ ~Settled(tx.market)
          /\ chain' = [chain EXCEPT ![tx.market] = [chain[tx.market] EXCEPT !.result = tx.result]]
        BY <1>3 DEF MineResolve, LifeInv, TxInv
    <2>2. [chain[tx.market] EXCEPT !.result = tx.result] \in Market
        <3>1. chain[tx.market] \in Market
            BY <1>1, <2>1
        <3>2. tx.result \in Results \cup {None}
            BY <1>1 DEF TypeOK, SettlementTypeOK, Tx
        <3>3. QED
            BY <3>1, <3>2 DEF Market
    <2>3. PICK m \in DOMAIN chain, new \in Market :
              /\ m = tx.market /\ new = [chain[tx.market] EXCEPT !.result = tx.result]
        BY <2>1, <2>2
    <2>4. new.drained = chain[m].drained /\ new.withdrawn = chain[m].withdrawn
        BY <1>1, <2>3 DEF Market
    <2>5. QED
        BY <1>1, <2>1, <2>3, <2>4, GrowsIfRewritten
<1>4. ASSUME MineDrain, chain' # chain
      PROVE  ChainGrows /\ Len(chain') = Len(chain)
    <2>1. /\ tx.market \in DOMAIN chain /\ ~chain[tx.market].drained
          /\ chain' = [chain EXCEPT ![tx.market] =
                 [chain[tx.market] EXCEPT !.drained = TRUE, !.withdrawn = Withdrawable(tx.market)]]
        BY <1>4 DEF MineDrain, LifeInv, TxInv
    <2>2. [chain[tx.market] EXCEPT !.drained = TRUE, !.withdrawn = Withdrawable(tx.market)] \in Market
        <3>1. chain[tx.market] \in Market
            BY <1>1, <2>1
        <3>2. Withdrawable(tx.market) \in 0..2
            BY DEF Withdrawable
        <3>3. QED
            BY <3>1, <3>2 DEF Market
    <2>3. PICK m \in DOMAIN chain, new \in Market :
              /\ m = tx.market
              /\ new = [chain[tx.market] EXCEPT !.drained = TRUE, !.withdrawn = Withdrawable(tx.market)]
        BY <2>1, <2>2
    <2>4. new.result = chain[m].result
        BY <1>1, <2>3 DEF Market
    <2>5. QED
        BY <1>1, <2>1, <2>3, <2>4, GrowsIfRewritten
<1>5. ASSUME NEW m \in DOMAIN chain, Redeem(m)
      PROVE  ChainGrows /\ Len(chain') = Len(chain)
    <2>0. chain[m] \in Market
        BY <1>1
    <2>1. PICK new \in Market : new = [chain[m] EXCEPT !.claimed = TRUE]
        BY <2>0 DEF Market
    <2>2. new.result = chain[m].result /\ new.drained = chain[m].drained
          /\ new.withdrawn = chain[m].withdrawn
        BY <2>0, <2>1 DEF Market
    <2>3. chain' = [chain EXCEPT ![m] = new]
        BY <1>5, <2>1 DEF Redeem
    <2>4. QED
        BY <1>1, <2>2, <2>3, GrowsIfRewritten
<1>6. ASSUME NEW m \in DOMAIN chain, NEW r \in Results, ByHand(m, r)
      PROVE  ChainGrows /\ Len(chain') = Len(chain)
    <2>0. chain[m] \in Market
        BY <1>1
    <2>1. PICK new \in Market : new = [chain[m] EXCEPT !.result = r]
        BY <2>0 DEF Market
    <2>2. new.drained = chain[m].drained /\ new.withdrawn = chain[m].withdrawn
        BY <2>0, <2>1 DEF Market
    <2>3. chain' = [chain EXCEPT ![m] = new] /\ ~Settled(m)
        BY <1>6, <2>1 DEF ByHand
    <2>4. QED
        BY <1>1, <2>2, <2>3, GrowsIfRewritten
<1>7. ASSUME MineCreate PROVE ChainGrows
    <2>1. PICK new \in Market : chain' = Append(chain, new)
        <3>1. Day \in Nat
            BY DEF LifeInv, TypeOK, SettlementTypeOK, Day
        <3>2. [day |-> Day, result |-> None, claimed |-> FALSE, drained |-> FALSE,
               withdrawn |-> 0] \in Market
            BY <3>1 DEF Market
        <3>3. QED
            BY <1>7, <3>2 DEF MineCreate
    <2>2. Len(chain) < MaxMarkets[family]
        BY <1>7 DEF MineCreate, LifeInv, TxInv
    <2>3. /\ chain' \in Seq(Market) /\ Len(chain') = Len(chain) + 1
          /\ \A n \in DOMAIN chain : n \in DOMAIN chain' /\ chain'[n] = chain[n]
        BY <1>1, <2>1
    <2>4. MaxMarkets[family] \in Nat
        BY BoundAssumption DEF LifeInv, TypeOK, SettlementTypeOK
    <2>5. QED
        BY <1>1, <2>2, <2>3, <2>4 DEF ChainGrows, Settled
<1>8. QED
    BY <1>2, <1>3, <1>4, <1>5, <1>6, <1>7, ChainWriters

---------------------------------------------------------------------------
(* Types *)

\* The numbers of markets are market numbers, and rows of 24-hour markets.
LEMMA NumbersFit ==
    ASSUME TypeOK, NEW n \in 1..MaxMarkets[family]
    PROVE  n \in MarketIds /\ (family = "24h" => n \in Keys)
BY DEF TypeOK, SettlementTypeOK, MarketIds, Keys

\* So are those of the markets on the chain.
LEMMA NumbersOnChain ==
    ASSUME TypeOK, NEW m \in DOMAIN chain
    PROVE  /\ m \in 1..Len(chain) /\ m \in MarketIds
           /\ family = "24h" => m \in Keys
           /\ chain[m] \in Market
<1>1. /\ chain \in Seq(Market) /\ Len(chain) <= MaxMarkets[family]
      /\ MaxMarkets[family] \in Nat
    BY BoundAssumption DEF TypeOK, SettlementTypeOK
<1>2. m \in 1..Len(chain) /\ m \in 1..MaxMarkets[family] /\ chain[m] \in Market
    BY <1>1
<1>3. QED
    BY <1>2, NumbersFit

\* A row is a row, and its market is on the chain.
LEMMA RowTyped ==
    ASSUME TypeOK, NEW k \in Keys
    PROVE  /\ rows[k] \in Row
           /\ rows[k].market # None => rows[k].market \in DOMAIN chain
BY DEF TypeOK, SettlementTypeOK, None, Row

\* The fields of a process that does nothing.
LEMMA IdleTyped ==
    /\ Idle \in Proc
    /\ Idle.at = "idle" /\ Idle.row = None /\ Idle.result = None
    /\ Idle.amount = 0 /\ Idle.made = None /\ Idle.outcome = "none"
BY DEF Idle, Proc, None

\* What Begins leaves in the processes.
LEMMA BeginsTyped ==
    ASSUME proc \in [Actors -> Proc], NEW a \in Actors, NEW k \in Keys \cup {None},
           NEW place \in {"idle", "price", "check", "ensure", "create", "created"},
           Begins(a, place, k)
    PROVE  /\ proc' \in [Actors -> Proc]
           /\ proc'[a].at = place /\ proc'[a].row = k /\ proc'[a].result = None
           /\ proc'[a].made = None /\ proc'[a].outcome = "none"
           /\ \A b \in Actors : b # a => proc'[b] = proc[b]
<1> DEFINE new == [Idle EXCEPT !.at = place, !.row = k]
<1>1. /\ new \in Proc
      /\ new.at = place /\ new.row = k /\ new.result = None
      /\ new.made = None /\ new.outcome = "none"
    BY IdleTyped DEF Proc
<1>2. proc' = [proc EXCEPT ![a] = new]
    BY DEF Begins
<1> HIDE DEF new
<1>3. QED
    BY <1>1, <1>2

\* What Goes leaves in the processes.
LEMMA GoesTyped ==
    ASSUME proc \in [Actors -> Proc], NEW a \in Actors,
           NEW place \in {"idle", "acquire", "send", "release", "close", "stuck", "create", "drained"},
           Goes(a, place)
    PROVE  /\ proc' \in [Actors -> Proc]
           /\ proc'[a].at = place
           /\ place # "idle" => /\ proc'[a].row = proc[a].row /\ proc'[a].result = proc[a].result
                               /\ proc'[a].made = proc[a].made
                               /\ proc'[a].amount = proc[a].amount
                               /\ proc'[a].outcome = proc[a].outcome
           /\ place = "idle" => proc'[a] = Idle
           /\ \A b \in Actors : b # a => proc'[b] = proc[b]
BY IdleTyped DEF Goes, Proc

\* The processes stay processes.
LEMMA ProcTyped == LifeInv /\ Next => proc' \in [Actors -> Proc]
<1> SUFFICES ASSUME LifeInv, Next PROVE proc' \in [Actors -> Proc]
    OBVIOUS
<1>1. /\ proc \in [Actors -> Proc] /\ family \in Families
      /\ tx \in Tx
    BY DEF LifeInv, TypeOK, SettlementTypeOK
<1>2. ASSUME \/ Clock
             \/ (\E k \in Keys : DrainHeal(k) \/ LockExpires(k))
             \/ (\E m \in DOMAIN chain : HandleCreated(m) \/ HandleResolved(m) \/
                Redeem(m))
             \/ (\E m \in DOMAIN chain, r \in Results : ByHand(m, r))
      PROVE  proc' \in [Actors -> Proc]
    <2>1. UNCHANGED proc
        BY <1>2
        DEF DrainHeal, Undrained, Clock, LockExpires, Fault, Bounded, HandleCreated,
            HandleResolved, Redeem, ByHand, events, history
    <2>2. QED
        BY <2>1, <1>1 DEF Proc
<1>3. ASSUME NEW a \in Ticks, TickStart(a) PROVE proc' \in [Actors -> Proc]
    <2>1. (\E k \in Keys : Begins(a, "price", k)) \/ Begins(a, "check", None)
        BY <1>3 DEF TickStart
    <2>2. QED
        BY <2>1, <1>1, BeginsTyped DEF Actors, Ticks
<1>4. ASSUME NEW a \in Ticks, RangeStart(a) PROVE proc' \in [Actors -> Proc]
    <2>1. CASE Begins(a, "ensure", None)
        BY <2>1, <1>1, BeginsTyped DEF Actors, Ticks
    <2>2. ASSUME NEW k \in Keys, NEW r \in Results,
                 proc' = [proc EXCEPT ![a] = [Idle EXCEPT !.at = "send", !.row = k, !.result = r]]
          PROVE  proc' \in [Actors -> Proc]
        <3>1. [Idle EXCEPT !.at = "send", !.row = k, !.result = r] \in Proc
            BY IdleTyped DEF Proc
        <3>2. QED
            BY <2>2, <3>1, <1>1
    <2>3. QED
        BY <1>4, <2>1, <2>2 DEF RangeStart
<1>5. ASSUME NEW a \in Ticks, Price(a) PROVE proc' \in [Actors -> Proc]
    BY <1>5, <1>1, IdleTyped DEF Price, Goes, Proc, Actors, Ticks, Resolvers, Results
<1>6. ASSUME NEW a \in Ticks, Close(a) PROVE proc' \in [Actors -> Proc]
    BY <1>6, <1>1, IdleTyped
    DEF Close, Closed, Begins, Daily, Proc, Actors, Ticks, Resolvers, Results
<1>7. ASSUME NEW a \in Ticks, Stuck(a) PROVE proc' \in [Actors -> Proc]
    <2>1. Begins(a, "check", None) \/ Goes(a, "idle")
        BY <1>7 DEF Stuck
    <2>2. QED
        BY <2>1, <1>1, BeginsTyped, GoesTyped DEF Actors, Ticks
<1>8. ASSUME NEW a \in Ticks, Check(a) PROVE proc' \in [Actors -> Proc]
    BY <1>8, <1>1, IdleTyped DEF Check, Goes, Proc, Actors, Ticks, Resolvers, Results
<1>9. ASSUME NEW a \in Ticks, CloseRange(a) PROVE proc' \in [Actors -> Proc]
    BY <1>9, <1>1, IdleTyped
    DEF CloseRange, Closed, Begins, Ranged, Proc, Actors, Ticks, Resolvers, Results
<1>10. ASSUME NEW a \in Ticks, Ensure(a) PROVE proc' \in [Actors -> Proc]
    <2>1. (Day + 1 \in Keys /\ Begins(a, "create", Day + 1)) \/ Goes(a, "idle")
        <3>1. now \in Nat /\ LastDay \in Nat
            BY BoundAssumption DEF LifeInv, TypeOK, SettlementTypeOK
        <3>2. QED
            BY <1>10, <3>1 DEF Ensure, Keys, Day
    <2>2. QED
        BY <2>1, <1>1, BeginsTyped, GoesTyped DEF Actors, Ticks
<1>11. ASSUME NEW a \in Ticks, CreateSend(a) PROVE proc' \in [Actors -> Proc]
    BY <1>11, <1>1, IdleTyped
    DEF CreateSend, Begins, Proc, Actors, Ticks, Resolvers, Results
<1>12. ASSUME NEW a \in Ticks, CreateFails(a) PROVE proc' \in [Actors -> Proc]
    BY <1>12, <1>1, IdleTyped
    DEF CreateFails, GivenUp, Ranged, Goes, Proc, Actors, Ticks, Resolvers, Results
<1>13. ASSUME NEW a \in Ticks, NotCreated(a) PROVE proc' \in [Actors -> Proc]
    BY <1>13, <1>1, IdleTyped
    DEF NotCreated, GivenUp, Ranged, Goes, Proc, Actors, Ticks, Resolvers, Results
<1>14. ASSUME NEW a \in Ticks, Created(a) PROVE proc' \in [Actors -> Proc]
    BY <1>14, <1>1, IdleTyped
    DEF Created, Inserted, Daily, Goes, Proc, Actors, Ticks, Resolvers, Results
<1>15. ASSUME NEW a \in Ticks, CreatedRange(a) PROVE proc' \in [Actors -> Proc]
    BY <1>15, <1>1, IdleTyped
    DEF CreatedRange, Ranged, Goes, Proc, Actors, Ticks, Resolvers, Results
<1>16. ASSUME NEW a \in Ticks, CreateLost(a) PROVE proc' \in [Actors -> Proc]
    BY <1>16, <1>1, IdleTyped
    DEF CreateLost, GivenUp, Ranged, Goes, Abandoned, Fault, Bounded, Proc, Actors,
        Ticks, Resolvers, Results
<1>17. ASSUME ForceCreate PROVE proc' \in [Actors -> Proc]
    BY <1>17, <1>1, IdleTyped
    DEF ForceCreate, Called, Daily, Begins, Proc, Actors, Ticks, Resolvers, Results
<1>18. ASSUME NEW a \in Resolvers, Acquire(a) PROVE proc' \in [Actors -> Proc]
    BY <1>18, <1>1, IdleTyped DEF Acquire, Goes, Proc, Actors, Ticks, Resolvers, Results
<1>19. ASSUME NEW a \in Resolvers, Send(a) PROVE proc' \in [Actors -> Proc]
    BY <1>19, <1>1, IdleTyped
    DEF Send, Broadcast, Target, Proc, Actors, Ticks, Resolvers, Results
<1>20. ASSUME NEW a \in Resolvers, SendRejected(a) PROVE proc' \in [Actors -> Proc]
    BY <1>20, <1>1, IdleTyped
    DEF SendRejected, Fails, Unlocked, Proc, Actors, Ticks, Resolvers, Results
<1>21. ASSUME NEW a \in Resolvers, SendFails(a) PROVE proc' \in [Actors -> Proc]
    BY <1>21, <1>1, IdleTyped
    DEF SendFails, Fails, Unlocked, Fault, Bounded, Target, Proc, Actors, Ticks,
        Resolvers, Results
<1>22. ASSUME NEW a \in Resolvers, Receipt(a) PROVE proc' \in [Actors -> Proc]
    BY <1>22, <1>1, IdleTyped DEF Receipt, Goes, Proc, Actors, Ticks, Resolvers, Results
<1>23. ASSUME NEW a \in Resolvers, ReceiptLost(a) PROVE proc' \in [Actors -> Proc]
    BY <1>23, <1>1, IdleTyped
    DEF ReceiptLost, Fails, Unlocked, Fault, Bounded, Abandoned, Proc, Actors, Ticks,
        Resolvers, Results
<1>24. ASSUME NEW a \in Resolvers, Release(a) PROVE proc' \in [Actors -> Proc]
    BY <1>24, <1>1, IdleTyped DEF Release, Goes, Proc, Actors, Ticks, Resolvers, Results
<1>25. ASSUME NEW k \in Keys, FallbackStart(k) PROVE proc' \in [Actors -> Proc]
    <2>1. rows[k].result \in Results \cup {None}
        BY RowTyped DEF LifeInv, Row
    <2>2. PICK r \in Results \cup {None} : r = rows[k].result
        BY <2>1
    <2>3. [Idle EXCEPT !.at = "acquire", !.row = k, !.result = r] \in Proc
        BY IdleTyped DEF Proc
    <2>4. QED
        BY <1>25, <2>2, <2>3, <1>1 DEF FallbackStart
<1>26. ASSUME NEW k \in Keys, DrainStart(k) PROVE proc' \in [Actors -> Proc]
    <2>1. Withdrawable(rows[k].market) \in 0..2
        BY DEF Withdrawable
    <2>2. PICK v \in 0..2 : v = Withdrawable(rows[k].market)
        BY <2>1
    <2>3. [Idle EXCEPT !.at = "drain", !.row = k, !.amount = v] \in Proc
        BY IdleTyped DEF Proc
    <2>4. QED
        BY <1>26, <2>2, <2>3, <1>1 DEF DrainStart
<1>27. ASSUME DrainSend PROVE proc' \in [Actors -> Proc]
    BY <1>27, <1>1, IdleTyped
    DEF DrainSend, Broadcast, Goes, Target, Proc, Actors, Ticks, Resolvers, Results
<1>28. ASSUME DrainReceipt PROVE proc' \in [Actors -> Proc]
    BY <1>28, <1>1, IdleTyped
    DEF DrainReceipt, RecordedAmount, Goes, Proc, Actors, Ticks, Resolvers, Results
<1>29. ASSUME DrainLost PROVE proc' \in [Actors -> Proc]
    BY <1>29, <1>1, IdleTyped
    DEF DrainLost, Abandoned, Goes, Fault, Bounded, Proc, Actors, Ticks, Resolvers,
        Results
<1>30. ASSUME MineResolve PROVE proc' \in [Actors -> Proc]
    BY <1>30, <1>1, IdleTyped
    DEF MineResolve, Answered, Proc, Actors, Ticks, Resolvers, Results
<1>31. ASSUME MineDrain PROVE proc' \in [Actors -> Proc]
    BY <1>31, <1>1, IdleTyped
    DEF MineDrain, Answered, Proc, Actors, Ticks, Resolvers, Results
<1>32. ASSUME MineCreate PROVE proc' \in [Actors -> Proc]
    <2>1. Len(chain) + 1 \in MarketIds
        <3>1. Len(chain) + 1 \in 1..MaxMarkets[family]
            BY <1>32, BoundAssumption DEF MineCreate, LifeInv, TypeOK, SettlementTypeOK, TxInv
        <3>2. QED
            BY <3>1, NumbersFit DEF LifeInv
    <2>2. CASE tx.by \in Actors
        <3>1. PICK b \in Actors : b = tx.by
            BY <2>2
        <3>2. proc' = [proc EXCEPT ![b] = [@ EXCEPT !.outcome = "success", !.made = Len(chain) + 1]]
            BY <1>32, <1>1, <3>1 DEF MineCreate, Answered, Proc
        <3>3. QED
            BY <3>2, <2>1, <1>1 DEF Proc
    <2>3. QED
        BY <1>32, <1>1, <2>2 DEF MineCreate
<1>33. ASSUME Cancel PROVE proc' \in [Actors -> Proc]
    BY <1>33, <1>1, IdleTyped
    DEF Cancel, Answered, Bounded, Proc, Actors, Ticks, Resolvers, Results
<1>34. ASSUME Crash PROVE proc' \in [Actors -> Proc]
    BY <1>34, <1>1, IdleTyped
    DEF Crash, Fault, Bounded, Proc, Actors, Ticks, Resolvers, Results
<1>35. QED
    BY <1>2, <1>3, <1>4, <1>5, <1>6, <1>7, <1>8, <1>9, <1>10, <1>11, <1>12, <1>13,
       <1>14, <1>15, <1>16, <1>17, <1>18, <1>19, <1>20, <1>21, <1>22, <1>23, <1>24,
       <1>25, <1>26, <1>27, <1>28, <1>29, <1>30, <1>31, <1>32, <1>33, <1>34
       DEF Next, Works, TickStep, ResolveStep, FallbackStep, DrainStep, ChainStep,
           CallFails, Resolvers

---------------------------------------------------------------------------
(* The rows *)

\* What a change of one row has to be.
LEMMA RowChanged ==
    ASSUME TypeOK, NEW k \in Keys, NEW new \in Row, new.market \in 0..Len(chain),
           rows' = [rows EXCEPT ![k] = new]
    PROVE  rows' \in [Keys -> Row] /\ \A j \in Keys : rows'[j].market \in 0..Len(chain)
BY DEF TypeOK, SettlementTypeOK

\* A process that has a row has one of the rows.
LEMMA WorkedRow ==
    ASSUME LifeInv, NEW a \in Actors, HasRow(a)
    PROVE  /\ proc[a].row \in Keys /\ rows[proc[a].row] \in Row
           /\ proc[a] \in Proc
           /\ rows[proc[a].row].market \in 0..Len(chain)
BY DEF LifeInv, PlaceInv, TypeOK, SettlementTypeOK

\* Today's row is one of the rows.
LEMMA Today ==
    ASSUME TypeOK, Day <= LastDay
    PROVE  Day \in Nat /\ now \in Nat /\ Day + 1 \in Keys
BY BoundAssumption DEF TypeOK, SettlementTypeOK, Day, Keys

\* A market a creator was told of is on the chain.
LEMMA MadeOnChain ==
    ASSUME LifeInv, NEW a \in Ticks, proc[a].at = "created", proc[a].outcome = "success"
    PROVE  /\ proc[a].made \in DOMAIN chain
           /\ family = "24h" => proc[a].made \in Keys
           /\ chain[proc[a].made] \in Market
<1>1. proc[a].made \in 1..Len(chain) /\ TypeOK
    BY DEF LifeInv, MadeInv, TypeOK, SettlementTypeOK, None
<1>2. PICK m \in DOMAIN chain : m = proc[a].made
    BY <1>1 DEF TypeOK, SettlementTypeOK
<1>3. QED
    BY <1>1, <1>2, NumbersOnChain

\* The rows stay rows, of markets on the chain.
LEMMA RowsTyped ==
    LifeInv /\ Next => rows' \in [Keys -> Row] /\ \A k \in Keys : rows'[k].market \in 0..Len(chain)
<1> SUFFICES ASSUME LifeInv, Next
             PROVE  /\ rows' \in [Keys -> Row]
                    /\ \A k \in Keys : rows'[k].market \in 0..Len(chain)
    OBVIOUS
<1> DEFINE Fit == /\ rows' \in [Keys -> Row]
                  /\ \A k \in Keys : rows'[k].market \in 0..Len(chain)
<1>1. TypeOK /\ chain \in Seq(Market) /\ Len(chain) \in Nat
    BY DEF LifeInv, TypeOK, SettlementTypeOK
<1>2. ASSUME rows' = rows PROVE Fit
    BY <1>1, <1>2 DEF TypeOK, SettlementTypeOK
<1>3. ASSUME NEW a \in Ticks, Close(a) \/ CloseRange(a) PROVE Fit
    <2>1. rows' = Closed(a) /\ a \in Actors /\ HasRow(a)
        BY <1>3 DEF Close, CloseRange, HasRow, TickWork, Actors
    <2>2. PICK k \in Keys, r \in Results \cup {None} : k = proc[a].row /\ r = proc[a].result
        BY <2>1, WorkedRow DEF Proc
    <2>3. /\ rows' = [rows EXCEPT ![k] =
                 [rows[k] EXCEPT !.resolved = TRUE, !.result = r, !.status = "resolved"]]
          /\ rows[k] \in Row
        BY <2>1, <2>2, WorkedRow, <1>1 DEF Closed, TypeOK, SettlementTypeOK
    <2> DEFINE new == [rows[k] EXCEPT !.resolved = TRUE, !.result = r, !.status = "resolved"]
    <2>4. new \in Row /\ new.market = rows[k].market
        BY <2>3 DEF Row
    <2>5. QED
        BY <1>1, <2>3, <2>4, RowChanged DEF TypeOK, SettlementTypeOK
<1>4. ASSUME NEW a \in Ticks, Stuck(a), rows' # rows PROVE Fit
    <2>1. a \in Actors /\ HasRow(a)
        BY <1>4 DEF Stuck, HasRow, TickWork, Actors
    <2>2. PICK k \in Keys : k = proc[a].row
        BY <2>1, WorkedRow
    <2>3. /\ rows' = [rows EXCEPT ![k] =
                 [rows[k] EXCEPT !.resolved = TRUE, !.result = None, !.status = "cancelled"]]
          /\ rows[k] \in Row
        BY <1>4, <2>1, <2>2, WorkedRow, <1>1 DEF Stuck, TypeOK, SettlementTypeOK
    <2> DEFINE new == [rows[k] EXCEPT !.resolved = TRUE, !.result = None,
                            !.status = "cancelled"]
    <2>4. new \in Row /\ new.market = rows[k].market
        BY <2>3 DEF Row
    <2>5. QED
        BY <1>1, <2>3, <2>4, RowChanged DEF TypeOK, SettlementTypeOK
<1>5. ASSUME NEW a \in Ticks, Ensure(a), rows' # rows PROVE Fit
    <2>1. PICK d \in Nat, n \in Nat : d = Day /\ n = now
        BY <1>1, <1>5, Today DEF Ensure
    <2>2. /\ d + 1 \in Keys
          /\ rows' = [rows EXCEPT ![d + 1] =
                 [NoRow EXCEPT !.status = "creating", !.day = d, !.since = n]]
        BY <1>1, <1>5, <2>1, Today DEF Ensure
    <2>3. NoRow \in Row /\ NoRow.market = None
        BY DEF NoRow, Row, None
    <2> DEFINE new == [NoRow EXCEPT !.status = "creating", !.day = d, !.since = n]
    <2>4. new \in Row /\ new.market = None
        BY <2>3 DEF Row
    <2>5. new.market \in 0..Len(chain)
        BY <1>1, <2>4 DEF None
    <2>6. rows' = [rows EXCEPT ![d + 1] = new]
        BY <2>2
    <2> HIDE DEF new
    <2>7. QED
        BY <1>1, <2>2, <2>4, <2>5, <2>6, RowChanged
<1>6. ASSUME NEW a \in Ticks, CreateFails(a) \/ NotCreated(a) \/ CreateLost(a), rows' # rows
      PROVE  Fit
    <2>1. /\ rows' = [rows EXCEPT ![proc[a].row].status = "cancelled"]
          /\ a \in Actors /\ HasRow(a)
        BY <1>6 DEF CreateFails, NotCreated, CreateLost, GivenUp, Ranged, HasRow, Actors
    <2>2. PICK k \in Keys : k = proc[a].row
        BY <2>1, WorkedRow
    <2>3. rows' = [rows EXCEPT ![k] = [rows[k] EXCEPT !.status = "cancelled"]] /\ rows[k] \in Row
        BY <2>1, <2>2, WorkedRow, <1>1 DEF TypeOK, SettlementTypeOK
    <2> DEFINE new == [rows[k] EXCEPT !.status = "cancelled"]
    <2>4. new \in Row /\ new.market = rows[k].market
        BY <2>3 DEF Row
    <2>5. QED
        BY <1>1, <2>3, <2>4, RowChanged DEF TypeOK, SettlementTypeOK
<1>7. ASSUME NEW a \in Ticks, Created(a) PROVE Fit
    <2>1. PICK m \in DOMAIN chain : m = proc[a].made /\ m \in Keys
        BY <1>7, MadeOnChain DEF Created, Daily
    <2>2. /\ m \in 1..Len(chain) /\ m \in MarketIds
          /\ chain[m].day \in Nat
        BY <1>1, <2>1, NumbersOnChain DEF Market
    <2>3. /\ rows' = [rows EXCEPT ![m] =
                 [rows[m] EXCEPT !.status = "open", !.market = m, !.day = chain[m].day]]
          /\ rows[m] \in Row
        BY <1>1, <1>7, <2>1 DEF Created, Inserted, TypeOK, SettlementTypeOK
    <2> DEFINE new == [rows[m] EXCEPT !.status = "open", !.market = m, !.day = chain[m].day]
    <2>4. new \in Row /\ new.market = m
        BY <2>2, <2>3 DEF Row
    <2>5. new.market \in 0..Len(chain)
        BY <1>1, <2>2, <2>4
    <2>6. rows' = [rows EXCEPT ![m] = new]
        BY <2>3
    <2> HIDE DEF new
    <2>7. QED
        BY <1>1, <2>1, <2>4, <2>5, <2>6, RowChanged
<1>8. ASSUME NEW a \in Ticks, CreatedRange(a) PROVE Fit
    <2>1. PICK m \in DOMAIN chain : m = proc[a].made
        BY <1>8, MadeOnChain DEF CreatedRange
    <2>2. m \in 1..Len(chain) /\ m \in MarketIds
        BY <1>1, <2>1, NumbersOnChain
    <2>3. a \in Actors /\ HasRow(a)
        BY <1>8 DEF CreatedRange, Ranged, HasRow, Actors
    <2>4. PICK k \in Keys : k = proc[a].row
        BY <2>3, WorkedRow
    <2>5. /\ rows' = [rows EXCEPT ![k] = [rows[k] EXCEPT !.status = "open", !.market = m]]
          /\ rows[k] \in Row
        BY <1>1, <1>8, <2>1, <2>4 DEF CreatedRange, TypeOK, SettlementTypeOK
    <2> DEFINE new == [rows[k] EXCEPT !.status = "open", !.market = m]
    <2>6. new \in Row /\ new.market = m
        BY <2>2, <2>5 DEF Row
    <2>7. new.market \in 0..Len(chain)
        BY <1>1, <2>2, <2>6
    <2>8. rows' = [rows EXCEPT ![k] = new]
        BY <2>5
    <2> HIDE DEF new
    <2>9. QED
        BY <1>1, <2>6, <2>7, <2>8, RowChanged
<1>9. ASSUME ForceCreate PROVE Fit
    <2>1. \A k \in Keys :
              [rows[k] EXCEPT !.resolved = TRUE, !.status = "resolved"] \in Row
        BY RowTyped, <1>1 DEF Row
    <2>2. \A k \in Keys :
              [rows[k] EXCEPT !.resolved = TRUE, !.status = "resolved"].market = rows[k].market
        BY RowTyped, <1>1 DEF Row
    <2>3. QED
        BY <1>9, <1>1, <2>1, <2>2 DEF ForceCreate, TypeOK, SettlementTypeOK
<1>10. ASSUME NEW k \in Keys, DrainHeal(k) \/ (DrainReceipt /\ k = proc["drain"].row /\ rows' # rows)
       PROVE  Fit
    <2>1. (rows[k].market \in DOMAIN chain /\ rows[k] \in Row) \/ ~DrainHeal(k)
        BY <1>10, <1>1, RowTyped DEF DrainHeal, Undrained, Settled
    <2>2. DrainHeal(k) => chain[rows[k].market].withdrawn \in 0..2
        BY <2>1, <1>1, NumbersOnChain DEF Market
    <2>3. PICK v \in 0..2 : rows' = [rows EXCEPT ![k] =
                                [rows[k] EXCEPT !.drained = TRUE, !.withdrawn = v]]
        <3>1. CASE DrainHeal(k)
            BY <3>1, <2>2, <1>1 DEF DrainHeal, TypeOK, SettlementTypeOK
        <3>2. CASE ~DrainHeal(k)
            <4>1. RecordedAmount(k) \in 0..2
                <5>1. proc["drain"].amount \in 0..2
                    BY <1>1 DEF TypeOK, SettlementTypeOK, Proc, Actors
                <5>2. CASE family # "range"
                    <6>1. HasRow("drain") /\ family = "24h"
                        BY <1>10, <3>2, <5>2, <1>1, BoundAssumption
                        DEF DrainReceipt, HasRow, TypeOK, SettlementTypeOK
                    <6>2. rows[k].market \in DOMAIN chain
                        BY <6>1, <1>10, <3>2 DEF LifeInv, DailyRows, DailyRow, Actors
                    <6>3. QED
                        BY <6>2, <1>1, <5>2, NumbersOnChain DEF RecordedAmount, Market
                <5>3. QED
                    BY <5>1, <5>2 DEF RecordedAmount
            <4>2. rows' = [rows EXCEPT ![k] =
                      [rows[k] EXCEPT !.drained = TRUE, !.withdrawn = RecordedAmount(k)]]
                BY <3>2, <1>10, <1>1 DEF DrainReceipt, TypeOK, SettlementTypeOK
            <4>3. QED
                BY <4>1, <4>2
        <3>3. QED
            BY <3>1, <3>2
    <2> DEFINE new == [rows[k] EXCEPT !.drained = TRUE, !.withdrawn = v]
    <2>4. new \in Row /\ new.market = rows[k].market
        BY <1>1, RowTyped DEF Row
    <2>5. QED
        BY <1>1, <2>3, <2>4, RowChanged DEF TypeOK, SettlementTypeOK
<1>11. ASSUME DrainReceipt, rows' # rows PROVE Fit
    <2>1. HasRow("drain") /\ "drain" \in Actors
        BY <1>11 DEF DrainReceipt, HasRow, Actors
    <2>2. proc["drain"].row \in Keys
        BY <2>1, WorkedRow
    <2>3. QED
        BY <1>10, <1>11, <2>2
<1>12. ASSUME NEW m \in DOMAIN chain, HandleCreated(m) PROVE Fit
    <2>1. family = "24h"
        BY <1>12, <1>1, BoundAssumption DEF HandleCreated, LifeInv, RangeRows, TypeOK, SettlementTypeOK
    <2>2. m \in Keys /\ m \in 1..Len(chain) /\ m \in MarketIds /\ chain[m].day \in Nat
        BY <1>1, <2>1, NumbersOnChain DEF Market
    <2>3. NoRow \in Row
        BY DEF NoRow, Row, None
    <2> DEFINE new == [NoRow EXCEPT !.status = "plain", !.market = m, !.day = chain[m].day]
    <2>4. new \in Row /\ new.market = m
        BY <2>2, <2>3 DEF Row
    <2>5. new.market \in 0..Len(chain)
        BY <1>1, <2>2, <2>4
    <2>6. rows' = [rows EXCEPT ![m] = new]
        BY <1>12 DEF HandleCreated
    <2> HIDE DEF new
    <2>7. QED
        BY <1>1, <2>2, <2>4, <2>5, <2>6, RowChanged
<1>13. ASSUME NEW m \in DOMAIN chain, HandleResolved(m), rows' # rows PROVE Fit
    <2>1. family = "24h"
        BY <1>13, <1>1, BoundAssumption DEF HandleResolved, LifeInv, RangeRows, TypeOK, SettlementTypeOK
    <2>2. m \in Keys /\ chain[m].result \in Results \cup {None}
        BY <1>1, <2>1, NumbersOnChain DEF Market
    <2>3. /\ rows[m] \in Row
          /\ rows' = [rows EXCEPT ![m] =
                 [rows[m] EXCEPT !.resolved = TRUE, !.result = chain[m].result, !.status = "resolved"]]
        BY <1>13, <2>2, <1>1 DEF HandleResolved, TypeOK, SettlementTypeOK
    <2> DEFINE new == [rows[m] EXCEPT !.resolved = TRUE, !.result = chain[m].result,
                            !.status = "resolved"]
    <2>4. new \in Row /\ new.market = rows[m].market
        BY <2>2, <2>3 DEF Row
    <2>5. QED
        BY <1>1, <2>2, <2>3, <2>4, RowChanged DEF TypeOK, SettlementTypeOK
<1> HIDE DEF Fit
<1>14. Fit
    BY <1>2, <1>3, <1>4, <1>5, <1>6, <1>7, <1>8, <1>9, <1>10, <1>11, <1>12, <1>13, RowWriters
<1>15. QED
    BY <1>14 DEF Fit

\* The transaction in flight stays a transaction.
LEMMA TxTyped == LifeInv /\ Next => tx' \in Tx
<1> SUFFICES ASSUME LifeInv, Next PROVE tx' \in Tx
    OBVIOUS
<1>1. tx \in Tx /\ NoTx \in Tx /\ proc \in [Actors -> Proc]
    BY DEF LifeInv, TypeOK, SettlementTypeOK, Tx, NoTx, None
<1>2. ASSUME NEW a \in Actors, HasRow(a)
      PROVE  Target(a) \in MarketIds \cup {None} /\ proc[a].result \in Results \cup {None}
    BY <1>2, WorkedRow DEF Target, Row, Proc
<1>3. ASSUME NEW a \in Resolvers, Send(a) PROVE tx' \in Tx
    <2>1. a \in Actors /\ HasRow(a)
        BY <1>3 DEF Send, Resolvers, Actors, HasRow, TickWork, Resolving
    <2>2. PICK m \in MarketIds \cup {None}, r \in Results \cup {None} :
              m = Target(a) /\ r = proc[a].result
        BY <1>2, <2>1
    <2>3. tx' = [op |-> "resolve", market |-> m, result |-> r, by |-> a]
        BY <1>3, <2>2 DEF Send, Broadcast
    <2>4. QED
        BY <2>1, <2>3 DEF Tx
<1>4. ASSUME NEW a \in Resolvers, SendFails(a), tx' # tx PROVE tx' \in Tx
    <2>1. a \in Actors /\ HasRow(a)
        BY <1>4 DEF SendFails, Resolvers, Actors, HasRow, TickWork, Resolving
    <2>2. PICK m \in MarketIds \cup {None}, r \in Results \cup {None} :
              m = Target(a) /\ r = proc[a].result
        BY <1>2, <2>1
    <2>3. tx' = [NoTx EXCEPT !.op = "resolve", !.market = m, !.result = r]
        BY <1>4, <2>2 DEF SendFails
    <2>4. QED
        BY <2>3, <1>1 DEF Tx
<1>5. ASSUME NEW a \in Actors, tx' = Abandoned(a) PROVE tx' \in Tx
    BY <1>1, <1>5 DEF Abandoned, Tx
<1>6. ASSUME NEW a \in Ticks, CreateSend(a) PROVE tx' \in Tx
    BY <1>1, <1>6 DEF CreateSend, Tx, Actors
<1>7. ASSUME DrainSend, tx' # tx PROVE tx' \in Tx
    <2>1. "drain" \in Actors /\ HasRow("drain")
        BY <1>7 DEF DrainSend, Actors, HasRow
    <2>2. PICK m \in MarketIds \cup {None}, r \in Results \cup {None} :
              m = Target("drain") /\ r = proc["drain"].result
        BY <1>2, <2>1
    <2>3. tx' = [op |-> "drain", market |-> m, result |-> r, by |-> "drain"]
        BY <1>7, <2>2 DEF DrainSend, Broadcast
    <2>4. QED
        BY <2>1, <2>3 DEF Tx
<1>8. ASSUME Crash PROVE tx' \in Tx
    BY <1>1, <1>8 DEF Crash, Tx
<1>9. CASE MineResolve \/ MineDrain \/ MineCreate \/ Cancel
    BY <1>1, <1>9 DEF MineResolve, MineDrain, MineCreate, Cancel
<1>10. CASE DrainLost \/ \E a \in Resolvers : ReceiptLost(a)
    BY <1>10, <1>5 DEF DrainLost, ReceiptLost, Actors, Resolvers
<1>11. CASE \E a \in Ticks : CreateLost(a)
    BY <1>11, <1>5 DEF CreateLost, Actors
<1>12. QED
    BY <1>1, <1>3, <1>4, <1>6, <1>7, <1>8, <1>9, <1>10, <1>11, Senders

---------------------------------------------------------------------------
(* The other variables *)

\* Clock, locks, events, and what bounds the behaviour.
OthersTyped ==
    /\ now \in Nat
    /\ locks \subseteq Keys
    /\ createdEvents \subseteq DOMAIN chain /\ resolvedEvents \subseteq DOMAIN chain
    /\ adminCalls \in 0..MaxAdminCalls
    /\ byHand \subseteq DOMAIN chain
    /\ faults \in Nat /\ cancels \in Nat

\* What a step does to the counts of faults, cancellations and resolutions by hand.
LEMMA Troubles == Next =>
    \/ UNCHANGED <<faults, cancels, byHand>>
    \/ /\ Bounded
       /\ \/ faults' = faults + 1 /\ UNCHANGED <<cancels, byHand>>
          \/ cancels' = cancels + 1 /\ UNCHANGED <<faults, byHand>>
          \/ /\ UNCHANGED <<faults, cancels>>
             /\ \E m \in DOMAIN chain : byHand' = byHand \cup {m}
    BY DEF Next, Works, TickStep, ResolveStep, FallbackStep, DrainStep, ChainStep,
           CallFails, TickStart, RangeStart, Price, Close, Stuck, Check, CloseRange,
           Ensure, CreateSend, CreateFails, NotCreated, Created, CreatedRange,
           CreateLost, ForceCreate, Acquire, Send, SendRejected, SendFails, Receipt,
           ReceiptLost, Release, FallbackStart, DrainHeal, DrainStart, DrainSend,
           DrainReceipt, DrainLost, MineResolve, MineDrain, MineCreate, Cancel, Clock,
           Crash, LockExpires, HandleCreated, HandleResolved, Redeem, ByHand, events,
           history, Called, Fault

\* Their bound is respected.
LEMMA TroubleStep == LifeInv /\ Next =>
    /\ faults' + cancels' + Cardinality(byHand') <= MaxTrouble[family']
    /\ faults' \in Nat /\ cancels' \in Nat
<1> SUFFICES ASSUME LifeInv, Next
             PROVE  /\ faults' + cancels' + Cardinality(byHand') <= MaxTrouble[family']
                    /\ faults' \in Nat /\ cancels' \in Nat
    OBVIOUS
<1>1. /\ faults + cancels + Cardinality(byHand) <= MaxTrouble[family]
      /\ MaxTrouble[family] \in Nat /\ faults \in Nat /\ cancels \in Nat
      /\ chain \in Seq(Market) /\ byHand \subseteq DOMAIN chain
      /\ family' = family
    BY FamilyStays, BoundAssumption DEF LifeInv, TypeOK, SettlementTypeOK
<1>2. Len(chain) \in Nat /\ byHand \subseteq 1..Len(chain)
    BY <1>1
<1>3. IsFiniteSet(1..Len(chain))
    BY <1>2, FS_Interval
<1>4. IsFiniteSet(byHand)
    BY <1>2, <1>3, FS_Subset
<1>5. Cardinality(byHand) \in Nat
    BY <1>4, FS_CardinalityType
<1>6. CASE UNCHANGED <<faults, cancels, byHand>>
    BY <1>1, <1>6
<1>7. CASE Bounded /\ byHand' = byHand
    <2>1. /\ \/ faults' = faults + 1 /\ cancels' = cancels
             \/ cancels' = cancels + 1 /\ faults' = faults
             \/ faults' = faults /\ cancels' = cancels
          /\ Cardinality(byHand') = Cardinality(byHand)
        BY <1>7, Troubles
    <2>2. faults + cancels + Cardinality(byHand) < MaxTrouble[family]
        BY <1>7 DEF Bounded
    <2>3. QED
        BY <2>1, <2>2, <1>1, <1>5
<1>8. ASSUME Bounded, faults' = faults, cancels' = cancels,
             NEW m \in DOMAIN chain, byHand' = byHand \cup {m}
      PROVE  /\ faults' + cancels' + Cardinality(byHand') <= MaxTrouble[family']
             /\ faults' \in Nat /\ cancels' \in Nat
    <2>1. /\ Cardinality(byHand \cup {m}) <= Cardinality(byHand) + 1
          /\ Cardinality(byHand \cup {m}) \in Nat
        <3>1. Cardinality(byHand \cup {m}) =
                  IF m \in byHand THEN Cardinality(byHand) ELSE Cardinality(byHand) + 1
            BY <1>4, FS_AddElement, Zenon
        <3>2. QED
            BY <3>1, <1>5
    <2>2. faults + cancels + Cardinality(byHand) < MaxTrouble[family]
        BY <1>8 DEF Bounded
    <2>3. Cardinality(byHand') = Cardinality(byHand \cup {m})
        BY <1>8
    <2>4. QED
        BY <2>1, <2>2, <2>3, <1>1, <1>5, <1>8
<1>9. QED
    BY <1>6, <1>7, <1>8, Troubles

\* Clock, locks, events and counters keep their types.
LEMMA OthersStep == LifeInv /\ Next => OthersTyped'
<1> SUFFICES ASSUME LifeInv, Next PROVE OthersTyped'
    OBVIOUS
<1>1. /\ OthersTyped /\ chain \in Seq(Market) /\ BoundAssumption
      /\ DOMAIN chain \subseteq DOMAIN chain' /\ DOMAIN chain = 1..Len(chain) /\ Len(chain) \in Nat
      /\ \A a \in Resolvers : proc[a].at \in {"acquire", "release"} => proc[a].row \in Keys
    BY ChainStep1, BoundAssumption
    DEF ChainGrows, OthersTyped, LifeInv, TypeOK, SettlementTypeOK, PlaceInv, HasRow, TickWork, Resolving,
        Resolvers, Actors
<1>2. family' = family /\ MaxAdminCalls \in Nat /\ faults' \in Nat /\ cancels' \in Nat
    BY FamilyStays, TroubleStep, BoundAssumption
<1>3. ASSUME \/ DrainSend \/ DrainReceipt
             \/ (\E a \in Ticks : RangeStart(a) \/ Price(a) \/ Close(a) \/ Stuck(a) \/
                Check(a) \/ CloseRange(a) \/ Ensure(a) \/ CreateSend(a) \/
                CreateFails(a) \/ NotCreated(a) \/ CreatedRange(a))
             \/ (\E k \in Keys : FallbackStart(k) \/ DrainHeal(k) \/ DrainStart(k))
             \/ (\E a \in Resolvers : Send(a) \/ SendRejected(a) \/ Receipt(a))
      PROVE  OthersTyped'
    <2>1. UNCHANGED <<now, locks, events, history, chain, family>>
        BY <1>3
        DEF RangeStart, Ranged, Begins, Active, Price, Goes, Close, Closed, Daily,
            Stuck, Check, CloseRange, Ensure, Retryable, CreateSend, CreateFails,
            GivenUp, NotCreated, CreatedRange, Send, Broadcast, Target, SendRejected,
            Fails, Unlocked, Receipt, FallbackStart, Unsettled, DrainHeal, Undrained,
            DrainStart, DrainSend, DrainReceipt, RecordedAmount, events, history
    <2>2. QED
        BY <2>1, <1>1 DEF OthersTyped, events, history
<1>4. ASSUME NEW a \in Ticks, TickStart(a) PROVE OthersTyped'
    <2>1. /\ UNCHANGED <<now, locks, chain, createdEvents, resolvedEvents, byHand>>
          /\ adminCalls' = adminCalls \/ (adminCalls < MaxAdminCalls /\ adminCalls' = adminCalls + 1)
        BY <1>4 DEF TickStart, Called, events
    <2>2. adminCalls' \in 0..MaxAdminCalls
        BY <2>1, <1>1, <1>2 DEF OthersTyped
    <2>3. QED
        BY <2>1, <2>2, <1>1, <1>2 DEF OthersTyped
<1>5. ASSUME NEW a \in Ticks, Created(a) PROVE OthersTyped'
    BY <1>5, <1>1, <1>2
    DEF Created, Inserted, Daily, Goes, OthersTyped, events, history, Resolvers, Ticks,
        Actors
<1>6. ASSUME NEW a \in Ticks, CreateLost(a) PROVE OthersTyped'
    BY <1>6, <1>1, <1>2
    DEF CreateLost, GivenUp, Ranged, Goes, Abandoned, Fault, Bounded, OthersTyped,
        events, history, Resolvers, Ticks, Actors
<1>7. ASSUME ForceCreate PROVE OthersTyped'
    <2>1. /\ UNCHANGED <<now, locks, chain, createdEvents, resolvedEvents, byHand>>
          /\ adminCalls < MaxAdminCalls /\ adminCalls' = adminCalls + 1
        BY <1>7 DEF ForceCreate, Called, events
    <2>2. adminCalls' \in 0..MaxAdminCalls
        BY <2>1, <1>1, <1>2 DEF OthersTyped
    <2>3. QED
        BY <2>1, <2>2, <1>1, <1>2 DEF OthersTyped
<1>8. ASSUME NEW a \in Resolvers, Acquire(a) PROVE OthersTyped'
    BY <1>8, <1>1, <1>2
    DEF Acquire, Goes, OthersTyped, events, history, Resolvers, Ticks, Actors
<1>9. ASSUME NEW a \in Resolvers, SendFails(a) PROVE OthersTyped'
    BY <1>9, <1>1, <1>2
    DEF SendFails, Fails, Unlocked, Fault, Bounded, Target, OthersTyped, events,
        history, Resolvers, Ticks, Actors
<1>10. ASSUME NEW a \in Resolvers, ReceiptLost(a) PROVE OthersTyped'
    BY <1>10, <1>1, <1>2
    DEF ReceiptLost, Fails, Unlocked, Fault, Bounded, Abandoned, OthersTyped, events,
        history, Resolvers, Ticks, Actors
<1>11. ASSUME NEW a \in Resolvers, Release(a) PROVE OthersTyped'
    BY <1>11, <1>1, <1>2
    DEF Release, Goes, OthersTyped, events, history, Resolvers, Ticks, Actors
<1>12. ASSUME DrainLost PROVE OthersTyped'
    BY <1>12, <1>1, <1>2
    DEF DrainLost, Abandoned, Goes, Fault, Bounded, OthersTyped, events, history,
        Resolvers, Ticks, Actors
<1>13. ASSUME MineResolve PROVE OthersTyped'
    <2>1. tx.market \in DOMAIN chain'
        BY <1>13, <1>1 DEF MineResolve, LifeInv, TxInv
    <2>2. QED
        BY <1>13, <1>1, <1>2, <2>1 DEF MineResolve, Heard, OthersTyped, history
<1>14. ASSUME MineDrain PROVE OthersTyped'
    BY <1>14, <1>1, <1>2
    DEF MineDrain, Answered, OthersTyped, events, history, Resolvers, Ticks, Actors
<1>15. ASSUME MineCreate PROVE OthersTyped'
    <2>1. Len(chain) + 1 \in DOMAIN chain'
        BY <1>15, <1>1, <1>2 DEF MineCreate
    <2>2. QED
        BY <1>15, <1>1, <1>2, <2>1 DEF MineCreate, Heard, OthersTyped, history
<1>16. ASSUME Cancel PROVE OthersTyped'
    BY <1>16, <1>1, <1>2
    DEF Cancel, Answered, Bounded, OthersTyped, events, history, Resolvers, Ticks,
        Actors
<1>17. ASSUME Clock PROVE OthersTyped'
    BY <1>17, <1>1, <1>2
    DEF Clock, OthersTyped, events, history, Resolvers, Ticks, Actors
<1>18. ASSUME Crash PROVE OthersTyped'
    BY <1>18, <1>1, <1>2
    DEF Crash, Fault, Bounded, OthersTyped, events, history, Resolvers, Ticks, Actors
<1>19. ASSUME NEW k \in Keys, LockExpires(k) PROVE OthersTyped'
    BY <1>19, <1>1, <1>2
    DEF LockExpires, Fault, Bounded, OthersTyped, events, history, Resolvers, Ticks,
        Actors
<1>20. ASSUME NEW m \in DOMAIN chain, HandleCreated(m) PROVE OthersTyped'
    BY <1>20, <1>1, <1>2
    DEF HandleCreated, OthersTyped, events, history, Resolvers, Ticks, Actors
<1>21. ASSUME NEW m \in DOMAIN chain, HandleResolved(m) PROVE OthersTyped'
    BY <1>21, <1>1, <1>2
    DEF HandleResolved, OthersTyped, events, history, Resolvers, Ticks, Actors
<1>22. ASSUME NEW m \in DOMAIN chain, Redeem(m) PROVE OthersTyped'
    BY <1>22, <1>1, <1>2
    DEF Redeem, OthersTyped, events, history, Resolvers, Ticks, Actors
<1>23. ASSUME NEW m \in DOMAIN chain, NEW r \in Results, ByHand(m, r)
       PROVE  OthersTyped'
    <2>1. /\ UNCHANGED <<now, locks, adminCalls, createdEvents>>
          /\ byHand' = byHand \cup {m}
          /\ resolvedEvents' = resolvedEvents \cup {m} \/ resolvedEvents' = resolvedEvents
        BY <1>23 DEF ByHand, Heard
    <2>2. QED
        BY <2>1, <1>1, <1>2 DEF OthersTyped
<1>24. QED
    BY <1>3, <1>4, <1>5, <1>6, <1>7, <1>8, <1>9, <1>10, <1>11, <1>12, <1>13, <1>14,
       <1>15, <1>16, <1>17, <1>18, <1>19, <1>20, <1>21, <1>22, <1>23
       DEF Next, Works, TickStep, ResolveStep, FallbackStep, DrainStep, ChainStep,
           CallFails, Resolvers

\* A step keeps all types.
LEMMA TypeStep == LifeInv /\ Next => TypeOK'
<1> SUFFICES ASSUME LifeInv, Next PROVE TypeOK'
    OBVIOUS
<1>1. /\ proc' \in [Actors -> Proc] /\ tx' \in Tx /\ OthersTyped'
      /\ rows' \in [Keys -> Row] /\ \A k \in Keys : rows'[k].market \in 0..Len(chain)
      /\ ChainGrows /\ family' = family
    BY ProcTyped, TxTyped, OthersStep, RowsTyped, ChainStep1, FamilyStays
<1>2. /\ chain' \in Seq(Market) /\ Len(chain') <= MaxMarkets[family']
      /\ Len(chain) <= Len(chain') /\ chain \in Seq(Market) /\ family' \in Families
    BY <1>1 DEF ChainGrows, LifeInv, TypeOK, SettlementTypeOK
<1>0. /\ faults' + cancels' + Cardinality(byHand)' <= MaxTrouble[family']
      /\ faults' \in Nat /\ cancels' \in Nat
    BY TroubleStep
<1>3. \A k \in Keys : rows'[k].market \in 0..Len(chain')
    BY <1>1, <1>2
<1>4. QED
    BY <1>0, <1>1, <1>2, <1>3 DEF OthersTyped, TypeOK, SettlementTypeOK

\* Nobody comes to a place of another's work.
LEMMA PlaceStep == LifeInv /\ Next => PlaceInv'
<1> SUFFICES ASSUME LifeInv, Next PROVE PlaceInv'
    OBVIOUS
<1>1. /\ PlaceInv /\ proc \in [Actors -> Proc] /\ proc' \in [Actors -> Proc]
      /\ family \in {"24h", "range"} /\ now \in Nat
    BY ProcTyped, BoundAssumption DEF LifeInv, TypeOK, SettlementTypeOK
<1>2. ASSUME \/ Clock
             \/ (\E k \in Keys : DrainHeal(k) \/ LockExpires(k))
             \/ (\E m \in DOMAIN chain : HandleCreated(m) \/ HandleResolved(m) \/
                Redeem(m))
             \/ (\E m \in DOMAIN chain, r \in Results : ByHand(m, r))
      PROVE  PlaceInv'
    <2>1. UNCHANGED <<family, proc>>
        BY <1>2
        DEF DrainHeal, Undrained, Clock, LockExpires, Fault, Bounded, HandleCreated,
            HandleResolved, Redeem, ByHand, events, history
    <2>2. QED
        BY <2>1, <1>1 DEF PlaceInv, HasRow, Actors, Ticks
<1>3. ASSUME NEW a \in Ticks, TickStart(a) PROVE PlaceInv'
    <2>1. (\E k \in Keys : Begins(a, "price", k)) \/ Begins(a, "check", None)
        BY <1>3 DEF TickStart
    <2>2. family' = family /\ family = "24h"
        BY <1>3 DEF TickStart, Daily
    <2>3. ASSUME NEW k \in Keys, Begins(a, "price", k) PROVE PlaceInv'
        BY <2>2, <2>3, <1>1 DEF Begins, PlaceInv, HasRow, TickWork, Resolving, RangeTick, DailyTick, Idle, Actors, Ticks, Resolvers, Proc
    <2>4. CASE Begins(a, "check", None)
        BY <2>2, <2>4, <1>1 DEF Begins, PlaceInv, HasRow, TickWork, Resolving, RangeTick, DailyTick, Idle, Actors, Ticks, Resolvers, Proc
    <2>5. QED
        BY <2>1, <2>3, <2>4
<1>4. ASSUME NEW a \in Ticks, RangeStart(a) PROVE PlaceInv'
    <2>1. (\E k \in Keys, r \in Results :
              proc' = [proc EXCEPT ![a] = [Idle EXCEPT !.at = "send", !.row = k, !.result = r]])
          \/ Begins(a, "ensure", None)
        BY <1>4 DEF RangeStart
    <2>2. family' = family /\ family = "range" /\ a = "worker"
        BY <1>4 DEF RangeStart, Ranged
    <2>3. ASSUME NEW k \in Keys, NEW r \in Results,
                 proc' = [proc EXCEPT ![a] = [Idle EXCEPT !.at = "send", !.row = k, !.result = r]]
          PROVE  PlaceInv'
        BY <2>2, <2>3, <1>1 DEF PlaceInv, HasRow, TickWork, Resolving, RangeTick, DailyTick, Idle, Actors, Ticks, Resolvers, Proc
    <2>4. CASE Begins(a, "ensure", None)
        BY <2>2, <2>4, <1>1 DEF Begins, PlaceInv, HasRow, TickWork, Resolving, RangeTick, DailyTick, Idle, Actors, Ticks, Resolvers, Proc
    <2>5. QED
        BY <2>1, <2>3, <2>4
<1>5. ASSUME NEW a \in Ticks, Price(a) PROVE PlaceInv'
    BY <1>5, <1>1
    DEF Price, Goes, PlaceInv, HasRow, TickWork, Resolving, RangeTick, DailyTick, Idle,
        Actors, Ticks, Resolvers, Proc
<1>6. ASSUME NEW a \in Ticks, Close(a) PROVE PlaceInv'
    BY <1>6, <1>1
    DEF Close, Closed, Begins, Daily, PlaceInv, HasRow, TickWork, Resolving, RangeTick,
        DailyTick, Idle, Actors, Ticks, Resolvers, Proc
<1>7. ASSUME NEW a \in Ticks, Stuck(a) PROVE PlaceInv'
    <2>1. Begins(a, "check", None) \/ Goes(a, "idle")
        BY <1>7 DEF Stuck
    <2>2. family' = family /\ proc[a].at = "stuck"
        BY <1>7 DEF Stuck
    <2>3. CASE Begins(a, "check", None)
        BY <2>2, <2>3, <1>1 DEF Begins, PlaceInv, HasRow, TickWork, Resolving, RangeTick, DailyTick, Idle, Actors, Ticks, Resolvers, Proc
    <2>4. CASE Goes(a, "idle")
        BY <2>2, <2>4, <1>1 DEF Goes, PlaceInv, HasRow, TickWork, Resolving, RangeTick, DailyTick, Idle, Actors, Ticks, Resolvers, Proc
    <2>5. QED
        BY <2>1, <2>3, <2>4
<1>8. ASSUME NEW a \in Ticks, Check(a) PROVE PlaceInv'
    BY <1>8, <1>1
    DEF Check, Goes, PlaceInv, HasRow, TickWork, Resolving, RangeTick, DailyTick, Idle,
        Actors, Ticks, Resolvers, Proc
<1>9. ASSUME NEW a \in Ticks, CloseRange(a) PROVE PlaceInv'
    BY <1>9, <1>1
    DEF CloseRange, Closed, Begins, Ranged, PlaceInv, HasRow, TickWork, Resolving,
        RangeTick, DailyTick, Idle, Actors, Ticks, Resolvers, Proc
<1>10. ASSUME NEW a \in Ticks, Ensure(a) PROVE PlaceInv'
    <2>1. (Day + 1 \in Keys /\ Begins(a, "create", Day + 1)) \/ Goes(a, "idle")
        BY <1>10, <1>1, BoundAssumption DEF Ensure, Keys, Day
    <2>2. family' = family /\ family = "range" /\ a = "worker"
        BY <1>10, <1>1 DEF Ensure, PlaceInv, DailyTick, TickWork, Resolving, Ticks
    <2>3. ASSUME NEW k \in Keys, Begins(a, "create", k) PROVE PlaceInv'
        BY <2>2, <2>3, <1>1 DEF Begins, PlaceInv, HasRow, TickWork, Resolving, RangeTick, DailyTick, Idle, Actors, Ticks, Resolvers, Proc
    <2>4. CASE Goes(a, "idle")
        BY <2>2, <2>4, <1>1 DEF Goes, PlaceInv, HasRow, TickWork, Resolving, RangeTick, DailyTick, Idle, Actors, Ticks, Resolvers, Proc
    <2>5. QED
        BY <2>1, <2>3, <2>4
<1>11. ASSUME NEW a \in Ticks, CreateSend(a) PROVE PlaceInv'
    BY <1>11, <1>1
    DEF CreateSend, Begins, PlaceInv, HasRow, TickWork, Resolving, RangeTick, DailyTick,
        Idle, Actors, Ticks, Resolvers, Proc
<1>12. ASSUME NEW a \in Ticks, CreateFails(a) PROVE PlaceInv'
    BY <1>12, <1>1
    DEF CreateFails, GivenUp, Ranged, Goes, PlaceInv, HasRow, TickWork, Resolving,
        RangeTick, DailyTick, Idle, Actors, Ticks, Resolvers, Proc
<1>13. ASSUME NEW a \in Ticks, NotCreated(a) PROVE PlaceInv'
    BY <1>13, <1>1
    DEF NotCreated, GivenUp, Ranged, Goes, PlaceInv, HasRow, TickWork, Resolving,
        RangeTick, DailyTick, Idle, Actors, Ticks, Resolvers, Proc
<1>14. ASSUME NEW a \in Ticks, Created(a) PROVE PlaceInv'
    BY <1>14, <1>1
    DEF Created, Inserted, Daily, Goes, PlaceInv, HasRow, TickWork, Resolving,
        RangeTick, DailyTick, Idle, Actors, Ticks, Resolvers, Proc
<1>15. ASSUME NEW a \in Ticks, CreatedRange(a) PROVE PlaceInv'
    BY <1>15, <1>1
    DEF CreatedRange, Ranged, Goes, PlaceInv, HasRow, TickWork, Resolving, RangeTick,
        DailyTick, Idle, Actors, Ticks, Resolvers, Proc
<1>16. ASSUME NEW a \in Ticks, CreateLost(a) PROVE PlaceInv'
    BY <1>16, <1>1
    DEF CreateLost, GivenUp, Ranged, Goes, Abandoned, Fault, Bounded, PlaceInv, HasRow,
        TickWork, Resolving, RangeTick, DailyTick, Idle, Actors, Ticks, Resolvers, Proc
<1>17. ASSUME ForceCreate PROVE PlaceInv'
    BY <1>17, <1>1
    DEF ForceCreate, Called, Daily, Begins, PlaceInv, HasRow, TickWork, Resolving,
        RangeTick, DailyTick, Idle, Actors, Ticks, Resolvers, Proc
<1>18. ASSUME NEW a \in Resolvers, Acquire(a) PROVE PlaceInv'
    BY <1>18, <1>1
    DEF Acquire, Goes, PlaceInv, HasRow, TickWork, Resolving, RangeTick, DailyTick,
        Idle, Actors, Ticks, Resolvers, Proc
<1>19. ASSUME NEW a \in Resolvers, Send(a) PROVE PlaceInv'
    BY <1>19, <1>1
    DEF Send, Broadcast, Target, PlaceInv, HasRow, TickWork, Resolving, RangeTick,
        DailyTick, Idle, Actors, Ticks, Resolvers, Proc
<1>20. ASSUME NEW a \in Resolvers, SendRejected(a) PROVE PlaceInv'
    BY <1>20, <1>1
    DEF SendRejected, Fails, Unlocked, PlaceInv, HasRow, TickWork, Resolving, RangeTick,
        DailyTick, Idle, Actors, Ticks, Resolvers, Proc
<1>21. ASSUME NEW a \in Resolvers, SendFails(a) PROVE PlaceInv'
    BY <1>21, <1>1
    DEF SendFails, Fails, Unlocked, Fault, Bounded, Target, PlaceInv, HasRow, TickWork,
        Resolving, RangeTick, DailyTick, Idle, Actors, Ticks, Resolvers, Proc
<1>22. ASSUME NEW a \in Resolvers, Receipt(a) PROVE PlaceInv'
    BY <1>22, <1>1
    DEF Receipt, Goes, PlaceInv, HasRow, TickWork, Resolving, RangeTick, DailyTick,
        Idle, Actors, Ticks, Resolvers, Proc
<1>23. ASSUME NEW a \in Resolvers, ReceiptLost(a) PROVE PlaceInv'
    BY <1>23, <1>1
    DEF ReceiptLost, Fails, Unlocked, Fault, Bounded, Abandoned, PlaceInv, HasRow,
        TickWork, Resolving, RangeTick, DailyTick, Idle, Actors, Ticks, Resolvers, Proc
<1>24. ASSUME NEW a \in Resolvers, Release(a) PROVE PlaceInv'
    BY <1>24, <1>1
    DEF Release, Goes, PlaceInv, HasRow, TickWork, Resolving, RangeTick, DailyTick,
        Idle, Actors, Ticks, Resolvers, Proc
<1>25. ASSUME NEW k \in Keys, FallbackStart(k) PROVE PlaceInv'
    BY <1>25, <1>1
    DEF FallbackStart, Unsettled, PlaceInv, HasRow, TickWork, Resolving, RangeTick,
        DailyTick, Idle, Actors, Ticks, Resolvers, Proc
<1>26. ASSUME NEW k \in Keys, DrainStart(k) PROVE PlaceInv'
    BY <1>26, <1>1
    DEF DrainStart, Undrained, PlaceInv, HasRow, TickWork, Resolving, RangeTick,
        DailyTick, Idle, Actors, Ticks, Resolvers, Proc
<1>27. ASSUME DrainSend PROVE PlaceInv'
    BY <1>27, <1>1
    DEF DrainSend, Broadcast, Goes, Target, PlaceInv, HasRow, TickWork, Resolving,
        RangeTick, DailyTick, Idle, Actors, Ticks, Resolvers, Proc
<1>28. ASSUME DrainReceipt PROVE PlaceInv'
    BY <1>28, <1>1
    DEF DrainReceipt, RecordedAmount, Goes, PlaceInv, HasRow, TickWork, Resolving,
        RangeTick, DailyTick, Idle, Actors, Ticks, Resolvers, Proc
<1>29. ASSUME DrainLost PROVE PlaceInv'
    BY <1>29, <1>1
    DEF DrainLost, Abandoned, Goes, Fault, Bounded, PlaceInv, HasRow, TickWork,
        Resolving, RangeTick, DailyTick, Idle, Actors, Ticks, Resolvers, Proc
<1>30. ASSUME MineResolve PROVE PlaceInv'
    BY <1>30, <1>1
    DEF MineResolve, Answered, PlaceInv, HasRow, TickWork, Resolving, RangeTick,
        DailyTick, Idle, Actors, Ticks, Resolvers, Proc
<1>31. ASSUME MineDrain PROVE PlaceInv'
    BY <1>31, <1>1
    DEF MineDrain, Answered, PlaceInv, HasRow, TickWork, Resolving, RangeTick,
        DailyTick, Idle, Actors, Ticks, Resolvers, Proc
<1>32. ASSUME MineCreate PROVE PlaceInv'
    <2>1. family' = family
          /\ \A a \in Actors : proc'[a].at = proc[a].at /\ proc'[a].row = proc[a].row
        BY <1>32, <1>1 DEF MineCreate, Answered, Proc
    <2>2. QED
        BY <2>1, <1>1 DEF PlaceInv, HasRow, Actors, Ticks
<1>33. ASSUME Cancel PROVE PlaceInv'
    BY <1>33, <1>1
    DEF Cancel, Answered, Bounded, PlaceInv, HasRow, TickWork, Resolving, RangeTick,
        DailyTick, Idle, Actors, Ticks, Resolvers, Proc
<1>34. ASSUME Crash PROVE PlaceInv'
    BY <1>34, <1>1
    DEF Crash, Fault, Bounded, PlaceInv, HasRow, TickWork, Resolving, RangeTick,
        DailyTick, Idle, Actors, Ticks, Resolvers, Proc
<1>35. QED
    BY <1>2, <1>3, <1>4, <1>5, <1>6, <1>7, <1>8, <1>9, <1>10, <1>11, <1>12, <1>13,
       <1>14, <1>15, <1>16, <1>17, <1>18, <1>19, <1>20, <1>21, <1>22, <1>23, <1>24,
       <1>25, <1>26, <1>27, <1>28, <1>29, <1>30, <1>31, <1>32, <1>33, <1>34
       DEF Next, Works, TickStep, ResolveStep, FallbackStep, DrainStep, ChainStep,
           CallFails, Resolvers

---------------------------------------------------------------------------
(* The rows of 24-hour markets *)

\* One row is rewritten at a time, except by ForceCreate; a row that comes to
\* be there has no event to handle any more.
DailyChange ==
    \E k \in Keys \cap DOMAIN chain, new \in Row :
        /\ rows' = [rows EXCEPT ![k] = new]
        /\ new.market = k
        /\ new.status \notin {"absent", "creating"}
        /\ new.result # None => new.resolved
        /\ k \notin createdEvents'

\* Only a creation adds an event to createdEvents.
LEMMA NewEvents == Next =>
    \/ createdEvents' \subseteq createdEvents
    \/ MineCreate /\ rows' = rows /\ createdEvents' = createdEvents \cup {Len(chain) + 1}
    BY DEF Next, Works, TickStep, ResolveStep, FallbackStep, DrainStep, ChainStep,
           CallFails, TickStart, RangeStart, Price, Close, Stuck, Check, CloseRange,
           Ensure, CreateSend, CreateFails, NotCreated, Created, CreatedRange,
           CreateLost, ForceCreate, Acquire, Send, SendRejected, SendFails, Receipt,
           ReceiptLost, Release, FallbackStart, DrainHeal, DrainStart, DrainSend,
           DrainReceipt, DrainLost, MineResolve, MineDrain, MineCreate, Cancel, Clock,
           Crash, LockExpires, HandleCreated, HandleResolved, Redeem, ByHand, events,
           history, Heard

\* Every step of the 24-hour family respects DailyChange, or is ForceCreate.
LEMMA DailyChanges ==
    LifeInv /\ Next /\ family = "24h" => rows' = rows \/ ForceCreate \/ DailyChange
<1> SUFFICES ASSUME LifeInv, Next, family = "24h", rows' # rows, ~ForceCreate
             PROVE  DailyChange
    OBVIOUS
<1>1. /\ TypeOK /\ chain \in Seq(Market) /\ rows \in [Keys -> Row]
      /\ \A k \in Keys : DailyRow(k)
      /\ \A m \in createdEvents : rows[m].status = "absent"
      /\ createdEvents \subseteq DOMAIN chain
      /\ createdEvents' \subseteq createdEvents
    BY NewEvents DEF LifeInv, TypeOK, SettlementTypeOK, DailyRows
<1>2. ASSUME NEW k \in Keys, NEW new \in Row, rows[k].status # "absent",
             rows' = [rows EXCEPT ![k] = new], new.market = rows[k].market,
             new.status \notin {"absent", "creating"}, new.result # None => new.resolved
      PROVE  DailyChange
    <2>1. k \in DOMAIN chain /\ rows[k].market = k /\ k \notin createdEvents
        BY <1>1, <1>2 DEF DailyRow
    <2>2. QED
        BY <1>1, <1>2, <2>1 DEF DailyChange
<1>3. ASSUME NEW a \in Ticks, Close(a) PROVE DailyChange
    <2>1. rows' = Closed(a) /\ a \in Actors /\ HasRow(a)
        BY <1>3 DEF Close, HasRow, TickWork, Actors
    <2>2. PICK k \in Keys, r \in Results \cup {None} :
              k = proc[a].row /\ r = proc[a].result /\ rows[k].status # "absent"
        BY <2>1, WorkedRow DEF Proc, LifeInv, DailyRows
    <2>3. /\ rows' = [rows EXCEPT ![k] =
                 [rows[k] EXCEPT !.resolved = TRUE, !.result = r, !.status = "resolved"]]
          /\ rows[k] \in Row
        BY <2>1, <2>2, <1>1 DEF Closed
    <2> DEFINE new == [rows[k] EXCEPT !.resolved = TRUE, !.result = r, !.status = "resolved"]
    <2>4. new \in Row /\ new.market = rows[k].market /\ new.status = "resolved" /\ new.resolved
        BY <2>3 DEF Row
    <2>5. rows' = [rows EXCEPT ![k] = new]
        BY <2>3
    <2> HIDE DEF new
    <2>6. QED
        BY <1>2, <2>2, <2>4, <2>5
<1>4. ASSUME NEW a \in Ticks, Stuck(a) PROVE DailyChange
    <2>1. a \in Actors /\ HasRow(a)
        BY <1>4 DEF Stuck, HasRow, TickWork, Actors
    <2>2. PICK k \in Keys : k = proc[a].row /\ rows[k].status # "absent"
        BY <2>1, WorkedRow DEF LifeInv, DailyRows
    <2>3. /\ rows' = [rows EXCEPT ![k] =
                 [rows[k] EXCEPT !.resolved = TRUE, !.result = None, !.status = "cancelled"]]
          /\ rows[k] \in Row
        BY <1>4, <2>2, <1>1 DEF Stuck
    <2> DEFINE new == [rows[k] EXCEPT !.resolved = TRUE, !.result = None,
                            !.status = "cancelled"]
    <2>4. new \in Row /\ new.market = rows[k].market /\ new.status = "cancelled" /\ new.resolved
        BY <2>3 DEF Row, None
    <2>5. rows' = [rows EXCEPT ![k] = new]
        BY <2>3
    <2> HIDE DEF new
    <2>6. QED
        BY <1>2, <2>2, <2>4, <2>5
<1>5. ASSUME NEW a \in Ticks, Created(a) PROVE DailyChange
    <2>1. PICK m \in DOMAIN chain :
              /\ m = proc[a].made /\ m \in Keys /\ chain[m] \in Market
              /\ m \notin createdEvents'
        BY <1>5, MadeOnChain DEF Created
    <2>2. m \in MarketIds /\ chain[m].day \in Nat
        BY <1>1, <2>1, NumbersOnChain DEF Market
    <2>3. /\ rows' = [rows EXCEPT ![m] =
                 [rows[m] EXCEPT !.status = "open", !.market = m, !.day = chain[m].day]]
          /\ rows[m] \in Row
        BY <1>1, <1>5, <2>1 DEF Created, Inserted
    <2> DEFINE new == [rows[m] EXCEPT !.status = "open", !.market = m, !.day = chain[m].day]
    <2>4. /\ new \in Row /\ new.market = m /\ new.status = "open"
          /\ new.result = rows[m].result /\ new.resolved = rows[m].resolved
        BY <2>2, <2>3 DEF Row
    <2>5. rows' = [rows EXCEPT ![m] = new] /\ (new.result # None => new.resolved)
        BY <1>1, <2>1, <2>3, <2>4 DEF DailyRow
    <2> HIDE DEF new
    <2>6. QED
        BY <2>1, <2>4, <2>5 DEF DailyChange
<1>6. ASSUME NEW k \in Keys, rows[k].status # "absent", NEW v \in 0..2,
             rows' = [rows EXCEPT ![k] = [rows[k] EXCEPT !.drained = TRUE, !.withdrawn = v]]
      PROVE  DailyChange
    <2> DEFINE new == [rows[k] EXCEPT !.drained = TRUE, !.withdrawn = v]
    <2>1. /\ new \in Row /\ new.market = rows[k].market /\ new.status = rows[k].status
          /\ new.result = rows[k].result /\ new.resolved = rows[k].resolved
        BY <1>1 DEF Row
    <2>2. rows' = [rows EXCEPT ![k] = new] /\ (new.result # None => new.resolved)
        BY <1>1, <1>6, <2>1 DEF DailyRow
    <2>3. new.status \notin {"absent", "creating"}
        BY <1>1, <1>6, <2>1 DEF DailyRow
    <2> HIDE DEF new
    <2>4. QED
        BY <1>2, <1>6, <2>1, <2>2, <2>3
<1>7. ASSUME NEW k \in Keys, DrainHeal(k) PROVE DailyChange
    <2>1. rows[k].resolved /\ rows[k].market \in DOMAIN chain
        BY <1>1, <1>7, RowTyped DEF DrainHeal, Undrained, Settled
    <2>2. rows[k].status # "absent"
        BY <1>1, <2>1 DEF DailyRow, NoRow
    <2>3. PICK v \in 0..2 : v = chain[rows[k].market].withdrawn
        BY <1>1, <2>1, NumbersOnChain DEF Market
    <2>4. rows' = [rows EXCEPT ![k] = [rows[k] EXCEPT !.drained = TRUE, !.withdrawn = v]]
        BY <1>1, <1>7, <2>3 DEF DrainHeal
    <2>5. QED
        BY <1>6, <2>2, <2>4
<1>8. ASSUME DrainReceipt PROVE DailyChange
    <2>1. HasRow("drain") /\ "drain" \in Actors
        BY <1>8 DEF DrainReceipt, HasRow, Actors
    <2>2. PICK k \in Keys : k = proc["drain"].row /\ rows[k].status # "absent"
        BY <2>1, WorkedRow DEF LifeInv, DailyRows
    <2>3. rows[k].market \in DOMAIN chain
        BY <1>1, <2>2 DEF DailyRow
    <2>4. PICK v \in 0..2 : v = RecordedAmount(k)
        BY <1>1, <2>3, NumbersOnChain DEF RecordedAmount, Market
    <2>5. rows' = [rows EXCEPT ![k] = [rows[k] EXCEPT !.drained = TRUE, !.withdrawn = v]]
        BY <1>1, <1>8, <2>2, <2>4 DEF DrainReceipt
    <2>6. QED
        BY <1>6, <2>2, <2>5
<1>9. ASSUME NEW m \in DOMAIN chain, HandleCreated(m) PROVE DailyChange
    <2>1. m \in Keys /\ m \in MarketIds /\ chain[m].day \in Nat /\ m \notin createdEvents'
        BY <1>1, <1>9, NumbersOnChain DEF Market, HandleCreated
    <2>2. NoRow \in Row /\ NoRow.result = None
        BY DEF NoRow, Row, None
    <2> DEFINE new == [NoRow EXCEPT !.status = "plain", !.market = m, !.day = chain[m].day]
    <2>3. new \in Row /\ new.market = m /\ new.status = "plain" /\ new.result = None
        BY <2>1, <2>2 DEF Row
    <2>4. rows' = [rows EXCEPT ![m] = new]
        BY <1>9 DEF HandleCreated
    <2> HIDE DEF new
    <2>5. QED
        BY <2>1, <2>3, <2>4 DEF DailyChange
<1>10. ASSUME NEW m \in DOMAIN chain, HandleResolved(m) PROVE DailyChange
    <2>1. m \in Keys /\ chain[m].result \in Results \cup {None} /\ rows[m].status # "absent"
        BY <1>1, <1>10, NumbersOnChain DEF Market, HandleResolved
    <2>2. PICK r \in Results \cup {None} : r = chain[m].result
        BY <2>1
    <2>3. /\ rows[m] \in Row
          /\ rows' = [rows EXCEPT ![m] =
                 [rows[m] EXCEPT !.resolved = TRUE, !.result = r, !.status = "resolved"]]
        BY <1>1, <1>10, <2>1, <2>2 DEF HandleResolved
    <2> DEFINE new == [rows[m] EXCEPT !.resolved = TRUE, !.result = r, !.status = "resolved"]
    <2>4. new \in Row /\ new.market = rows[m].market /\ new.status = "resolved" /\ new.resolved
        BY <2>3 DEF Row
    <2>5. rows' = [rows EXCEPT ![m] = new]
        BY <2>3
    <2> HIDE DEF new
    <2>6. QED
        BY <1>2, <2>1, <2>4, <2>5
<1>11. \A a \in Ticks : ~(CloseRange(a) \/ Ensure(a) \/ CreatedRange(a))
    BY DEF CloseRange, Ensure, CreatedRange, Ranged, LifeInv, PlaceInv, DailyTick, TickWork, Resolving
<1>12. \A a \in Ticks : ~(CreateFails(a) \/ NotCreated(a) \/ CreateLost(a))
    BY DEF CreateFails, NotCreated, CreateLost, GivenUp, Ranged
<1>13. QED
    BY <1>3, <1>4, <1>5, <1>7, <1>8, <1>9, <1>10, <1>11, <1>12, RowWriters

\* Rows of 24-hour markets are never removed.
LEMMA DailyRowStep == LifeInv /\ Next /\ family = "24h" =>
    /\ \A k \in Keys : DailyRow(k)' /\ (rows[k].status # "absent" => rows'[k].status # "absent")
    /\ \A m \in createdEvents' : rows'[m].status = "absent"
<1> SUFFICES ASSUME LifeInv, Next, family = "24h"
             PROVE  /\ \A k \in Keys : /\ DailyRow(k)'
                                       /\ rows[k].status # "absent" => rows'[k].status # "absent"
                    /\ \A m \in createdEvents' : rows'[m].status = "absent"
    OBVIOUS
<1>1. /\ TypeOK /\ chain \in Seq(Market) /\ rows \in [Keys -> Row]
      /\ \A k \in Keys : DailyRow(k)
      /\ \A m \in createdEvents : rows[m].status = "absent"
      /\ createdEvents \subseteq DOMAIN chain
      /\ \A k \in DOMAIN chain : k \in DOMAIN chain'
      /\ family' = family
    BY ChainStep1, FamilyStays DEF ChainGrows, LifeInv, TypeOK, SettlementTypeOK, DailyRows
<1>2. \A m \in createdEvents' : m \in createdEvents \/ (MineCreate /\ m = Len(chain) + 1 /\ rows' = rows)
    BY NewEvents
<1>3. CASE rows' = rows
    <2>1. \A m \in createdEvents' : rows'[m].status = "absent"
        <3>1. ASSUME MineCreate PROVE Len(chain) + 1 \in Keys /\ rows[Len(chain) + 1].status = "absent"
            <4>1. Len(chain) + 1 \in Keys /\ Len(chain) + 1 \notin DOMAIN chain
                <5>1. Len(chain) + 1 \in 1..MaxMarkets[family]
                    BY <3>1, BoundAssumption DEF MineCreate, LifeInv, TypeOK, SettlementTypeOK, TxInv
                <5>2. QED
                    BY <5>1, <1>1, NumbersFit
            <4>2. QED
                BY <4>1, <1>1 DEF DailyRow
        <3>2. QED
            BY <1>1, <1>2, <1>3, <3>1
    <2>2. QED
        BY <2>1, <1>1, <1>3 DEF DailyRow
<1>4. CASE ForceCreate
    <2>1. /\ createdEvents' = createdEvents /\ chain' = chain
          /\ rows' = [k \in Keys |->
                 IF Active(k) /\ Ended(rows[k].day)
                 THEN [rows[k] EXCEPT !.resolved = TRUE, !.status = "resolved"] ELSE rows[k]]
        BY <1>4 DEF ForceCreate, events
    <2>2. ASSUME NEW k \in Keys
          PROVE  \/ rows'[k] = rows[k]
                 \/ /\ rows[k].status = "open"
                    /\ rows'[k].status = "resolved" /\ rows'[k].resolved
                    /\ rows'[k].market = rows[k].market
        <3>1. CASE Active(k) /\ Ended(rows[k].day)
            <4>1. rows'[k] = [rows[k] EXCEPT !.resolved = TRUE, !.status = "resolved"] /\ rows[k] \in Row
                BY <2>1, <3>1, <1>1
            <4>2. QED
                BY <3>1, <4>1 DEF Active, Row
        <3>2. QED
            BY <2>1, <3>1
    <2>3. \A k \in Keys : DailyRow(k)' /\ (rows[k].status # "absent" <=> rows'[k].status # "absent")
        <3> TAKE k \in Keys
        <3>1. DailyRow(k) /\ chain' = chain
            BY <1>1, <2>1
        <3>2. CASE rows'[k] = rows[k]
            BY <3>1, <3>2 DEF DailyRow
        <3>3. CASE /\ rows[k].status = "open"
                   /\ rows'[k].status = "resolved" /\ rows'[k].resolved
                   /\ rows'[k].market = rows[k].market
            BY <3>1, <3>3 DEF DailyRow
        <3>4. QED
            BY <2>2, <3>2, <3>3
    <2>4. \A m \in createdEvents : m \in Keys
        BY <1>1, NumbersOnChain
    <2>5. QED
        BY <2>1, <2>3, <2>4, <1>1
<1>5. CASE DailyChange
    <2>1. PICK k \in Keys \cap DOMAIN chain, new \in Row :
              /\ rows' = [rows EXCEPT ![k] = new]
              /\ new.market = k
              /\ new.status \notin {"absent", "creating"}
              /\ new.result # None => new.resolved
              /\ k \notin createdEvents'
        BY <1>5 DEF DailyChange
    <2>2. rows'[k] = new /\ \A j \in Keys : j # k => rows'[j] = rows[j]
        BY <2>1, <1>1
    <2>3. DailyRow(k)' /\ rows'[k].status # "absent"
        BY <2>1, <2>2, <1>1 DEF DailyRow
    <2>4. \A j \in Keys : j # k => DailyRow(j)'
        BY <2>2, <1>1 DEF DailyRow
    <2>5. ASSUME NEW m \in createdEvents' PROVE rows'[m].status = "absent"
        <3>1. (m \in createdEvents /\ m # k /\ m \in Keys) \/ rows' = rows
            BY <1>1, <1>2, <2>1, <2>5, NumbersOnChain
        <3>2. (m \in Keys /\ m # k /\ rows[m].status = "absent") \/ rows' = rows
            BY <3>1, <1>1
        <3>3. QED
            BY <3>2, <2>2, <2>3, <2>5, <1>1, <1>2, <1>3
    <2>6. QED
        BY <2>2, <2>3, <2>4, <2>5
<1>6. QED
    BY <1>3, <1>4, <1>5, DailyChanges

\* A process has a row it had before, or one that it has just found.
DailyWork ==
    \A a \in Actors : HasRow(a)' =>
        \/ HasRow(a) /\ proc'[a].row = proc[a].row
        \/ proc'[a].row \in Keys /\ rows[proc'[a].row].status # "absent"

\* Every step of the 24-hour family respects DailyWork.
LEMMA DailyWorks == LifeInv /\ Next /\ family = "24h" => DailyWork
<1> SUFFICES ASSUME LifeInv, family = "24h", Next PROVE DailyWork
    OBVIOUS
<1>1. /\ proc \in [Actors -> Proc] /\ family = "24h" /\ family' = family
      /\ \A k \in Keys : rows[k].status = "absent" => ~rows[k].resolved
      /\ Idle.at = "idle"
    BY FamilyStays, IdleTyped DEF LifeInv, TypeOK, SettlementTypeOK, DailyRows, DailyRow, NoRow
<1>2. ASSUME \/ Clock
             \/ (\E k \in Keys : DrainHeal(k) \/ LockExpires(k))
             \/ (\E m \in DOMAIN chain : HandleCreated(m) \/ HandleResolved(m) \/
                Redeem(m))
             \/ (\E m \in DOMAIN chain, r \in Results : ByHand(m, r))
      PROVE  DailyWork
    <2>1. UNCHANGED proc
        BY <1>2
        DEF DrainHeal, Undrained, Clock, LockExpires, Fault, Bounded, HandleCreated,
            HandleResolved, Redeem, ByHand, events, history
    <2>2. QED
        BY <2>1, <1>1 DEF DailyWork, HasRow
<1>3. ASSUME NEW a \in Ticks, TickStart(a) PROVE DailyWork
    <2>1. (\E k \in Keys : Active(k) /\ Begins(a, "price", k)) \/ Begins(a, "check", None)
        BY <1>3 DEF TickStart
    <2>2. QED
        BY <2>1, <1>1, BeginsTyped DEF DailyWork, Active, None, HasRow, TickWork, Resolving, Actors, Ticks, Resolvers, Proc
<1>4. ASSUME NEW a \in Ticks, RangeStart(a) PROVE DailyWork
    BY <1>4, <1>1, IdleTyped
    DEF RangeStart, Ranged, Begins, Active, DailyWork, HasRow, TickWork, Resolving,
        Actors, Ticks, Resolvers, Proc
<1>5. ASSUME NEW a \in Ticks, Price(a) PROVE DailyWork
    BY <1>5, <1>1, IdleTyped
    DEF Price, Goes, DailyWork, HasRow, TickWork, Resolving, Actors, Ticks, Resolvers,
        Proc
<1>6. ASSUME NEW a \in Ticks, Close(a) PROVE DailyWork
    BY <1>6, <1>1, IdleTyped
    DEF Close, Closed, Begins, Daily, DailyWork, HasRow, TickWork, Resolving, Actors,
        Ticks, Resolvers, Proc
<1>7. ASSUME NEW a \in Ticks, Stuck(a) PROVE DailyWork
    <2>1. Begins(a, "check", None) \/ Goes(a, "idle")
        BY <1>7 DEF Stuck
    <2>2. a \in Actors /\ proc'[a].at \in {"check", "idle"}
        BY <2>1, <1>1, BeginsTyped, GoesTyped, IdleTyped DEF Actors, Ticks
    <2>3. \A b \in Actors : b # a => proc'[b] = proc[b]
        BY <2>1, <1>1, BeginsTyped, GoesTyped DEF Actors, Ticks
    <2>4. QED
        BY <2>2, <2>3, <1>1 DEF DailyWork, HasRow, TickWork, Resolving
<1>8. ASSUME NEW a \in Ticks, Check(a) PROVE DailyWork
    BY <1>8, <1>1, IdleTyped
    DEF Check, Goes, DailyWork, HasRow, TickWork, Resolving, Actors, Ticks, Resolvers,
        Proc
<1>9. ASSUME NEW a \in Ticks, CloseRange(a) PROVE DailyWork
    BY <1>9, <1>1, IdleTyped
    DEF CloseRange, Closed, Begins, Ranged, DailyWork, HasRow, TickWork, Resolving,
        Actors, Ticks, Resolvers, Proc
<1>10. ASSUME NEW a \in Ticks, Ensure(a) PROVE DailyWork
    BY <1>10, <1>1 DEF Ensure, LifeInv, PlaceInv, DailyTick, TickWork, Resolving
<1>11. ASSUME NEW a \in Ticks, CreateSend(a) PROVE DailyWork
    BY <1>11, <1>1, IdleTyped
    DEF CreateSend, Begins, DailyWork, HasRow, TickWork, Resolving, Actors, Ticks,
        Resolvers, Proc
<1>12. ASSUME NEW a \in Ticks, CreateFails(a) PROVE DailyWork
    BY <1>12, <1>1, IdleTyped
    DEF CreateFails, GivenUp, Ranged, Goes, DailyWork, HasRow, TickWork, Resolving,
        Actors, Ticks, Resolvers, Proc
<1>13. ASSUME NEW a \in Ticks, NotCreated(a) PROVE DailyWork
    BY <1>13, <1>1, IdleTyped
    DEF NotCreated, GivenUp, Ranged, Goes, DailyWork, HasRow, TickWork, Resolving,
        Actors, Ticks, Resolvers, Proc
<1>14. ASSUME NEW a \in Ticks, Created(a) PROVE DailyWork
    BY <1>14, <1>1, IdleTyped
    DEF Created, Inserted, Daily, Goes, DailyWork, HasRow, TickWork, Resolving, Actors,
        Ticks, Resolvers, Proc
<1>15. ASSUME NEW a \in Ticks, CreatedRange(a) PROVE DailyWork
    BY <1>15, <1>1, IdleTyped
    DEF CreatedRange, Ranged, Goes, DailyWork, HasRow, TickWork, Resolving, Actors,
        Ticks, Resolvers, Proc
<1>16. ASSUME NEW a \in Ticks, CreateLost(a) PROVE DailyWork
    BY <1>16, <1>1, IdleTyped
    DEF CreateLost, GivenUp, Ranged, Goes, Abandoned, Fault, Bounded, DailyWork, HasRow,
        TickWork, Resolving, Actors, Ticks, Resolvers, Proc
<1>17. ASSUME ForceCreate PROVE DailyWork
    BY <1>17, <1>1, IdleTyped
    DEF ForceCreate, Called, Daily, Begins, DailyWork, HasRow, TickWork, Resolving,
        Actors, Ticks, Resolvers, Proc
<1>18. ASSUME NEW a \in Resolvers, Acquire(a) PROVE DailyWork
    BY <1>18, <1>1, IdleTyped
    DEF Acquire, Goes, DailyWork, HasRow, TickWork, Resolving, Actors, Ticks, Resolvers,
        Proc
<1>19. ASSUME NEW a \in Resolvers, Send(a) PROVE DailyWork
    BY <1>19, <1>1, IdleTyped
    DEF Send, Broadcast, Target, DailyWork, HasRow, TickWork, Resolving, Actors, Ticks,
        Resolvers, Proc
<1>20. ASSUME NEW a \in Resolvers, SendRejected(a) PROVE DailyWork
    BY <1>20, <1>1, IdleTyped
    DEF SendRejected, Fails, Unlocked, DailyWork, HasRow, TickWork, Resolving, Actors,
        Ticks, Resolvers, Proc
<1>21. ASSUME NEW a \in Resolvers, SendFails(a) PROVE DailyWork
    BY <1>21, <1>1, IdleTyped
    DEF SendFails, Fails, Unlocked, Fault, Bounded, Target, DailyWork, HasRow, TickWork,
        Resolving, Actors, Ticks, Resolvers, Proc
<1>22. ASSUME NEW a \in Resolvers, Receipt(a) PROVE DailyWork
    BY <1>22, <1>1, IdleTyped
    DEF Receipt, Goes, DailyWork, HasRow, TickWork, Resolving, Actors, Ticks, Resolvers,
        Proc
<1>23. ASSUME NEW a \in Resolvers, ReceiptLost(a) PROVE DailyWork
    BY <1>23, <1>1, IdleTyped
    DEF ReceiptLost, Fails, Unlocked, Fault, Bounded, Abandoned, DailyWork, HasRow,
        TickWork, Resolving, Actors, Ticks, Resolvers, Proc
<1>24. ASSUME NEW a \in Resolvers, Release(a) PROVE DailyWork
    BY <1>24, <1>1, IdleTyped
    DEF Release, Goes, DailyWork, HasRow, TickWork, Resolving, Actors, Ticks, Resolvers,
        Proc
<1>25. ASSUME NEW k \in Keys, FallbackStart(k) PROVE DailyWork
    BY <1>25, <1>1, IdleTyped
    DEF FallbackStart, Unsettled, DailyWork, HasRow, TickWork, Resolving, Actors, Ticks,
        Resolvers, Proc
<1>26. ASSUME NEW k \in Keys, DrainStart(k) PROVE DailyWork
    BY <1>26, <1>1, IdleTyped
    DEF DrainStart, Undrained, DailyWork, HasRow, TickWork, Resolving, Actors, Ticks,
        Resolvers, Proc
<1>27. ASSUME DrainSend PROVE DailyWork
    BY <1>27, <1>1, IdleTyped
    DEF DrainSend, Broadcast, Goes, Target, DailyWork, HasRow, TickWork, Resolving,
        Actors, Ticks, Resolvers, Proc
<1>28. ASSUME DrainReceipt PROVE DailyWork
    BY <1>28, <1>1, IdleTyped
    DEF DrainReceipt, RecordedAmount, Goes, DailyWork, HasRow, TickWork, Resolving,
        Actors, Ticks, Resolvers, Proc
<1>29. ASSUME DrainLost PROVE DailyWork
    BY <1>29, <1>1, IdleTyped
    DEF DrainLost, Abandoned, Goes, Fault, Bounded, DailyWork, HasRow, TickWork,
        Resolving, Actors, Ticks, Resolvers, Proc
<1>30. ASSUME MineResolve PROVE DailyWork
    BY <1>30, <1>1, IdleTyped
    DEF MineResolve, Answered, DailyWork, HasRow, TickWork, Resolving, Actors, Ticks,
        Resolvers, Proc
<1>31. ASSUME MineDrain PROVE DailyWork
    BY <1>31, <1>1, IdleTyped
    DEF MineDrain, Answered, DailyWork, HasRow, TickWork, Resolving, Actors, Ticks,
        Resolvers, Proc
<1>32. ASSUME MineCreate PROVE DailyWork
    <2>1. \A a \in Actors : proc'[a].at = proc[a].at /\ proc'[a].row = proc[a].row
        BY <1>32, <1>1 DEF MineCreate, Answered, Proc
    <2>2. QED
        BY <2>1, <1>1 DEF DailyWork, HasRow
<1>33. ASSUME Cancel PROVE DailyWork
    BY <1>33, <1>1, IdleTyped
    DEF Cancel, Answered, Bounded, DailyWork, HasRow, TickWork, Resolving, Actors,
        Ticks, Resolvers, Proc
<1>34. ASSUME Crash PROVE DailyWork
    BY <1>34, <1>1, IdleTyped
    DEF Crash, Fault, Bounded, DailyWork, HasRow, TickWork, Resolving, Actors, Ticks,
        Resolvers, Proc
<1>35. QED
    BY <1>2, <1>3, <1>4, <1>5, <1>6, <1>7, <1>8, <1>9, <1>10, <1>11, <1>12, <1>13,
       <1>14, <1>15, <1>16, <1>17, <1>18, <1>19, <1>20, <1>21, <1>22, <1>23, <1>24,
       <1>25, <1>26, <1>27, <1>28, <1>29, <1>30, <1>31, <1>32, <1>33, <1>34
       DEF Next, Works, TickStep, ResolveStep, FallbackStep, DrainStep, ChainStep,
           CallFails, Resolvers

\* The rows of 24-hour markets stay as DailyRows says.
LEMMA DailyStep == LifeInv /\ Next => DailyRows'
<1> SUFFICES ASSUME LifeInv, Next, family = "24h" PROVE DailyRows'
    BY FamilyStays DEF DailyRows
<1>1. /\ \A k \in Keys : DailyRow(k)' /\ (rows[k].status # "absent" => rows'[k].status # "absent")
      /\ \A m \in createdEvents' : rows'[m].status = "absent"
    BY DailyRowStep
<1>2. \A a \in Actors : HasRow(a) => rows[proc[a].row].status # "absent" /\ proc[a].row \in Keys
    BY DEF LifeInv, DailyRows, PlaceInv
<1>3. ASSUME NEW a \in Actors, HasRow(a)' PROVE rows'[proc'[a].row].status # "absent"
    BY <1>1, <1>2, <1>3, DailyWorks DEF DailyWork
<1>4. QED
    BY <1>1, <1>3 DEF DailyRows

---------------------------------------------------------------------------
(* The rows of range markets *)

\* Who rewrites the row of a range market, and how.
RangeChange ==
    \E k \in Keys, new \in Row :
        /\ rows' = [rows EXCEPT ![k] = new]
        /\ \/ /\ rows[k].status = "resolved" /\ new.status = "resolved"
              /\ new.resolved = rows[k].resolved /\ new.result = rows[k].result
              /\ new.market = rows[k].market
              /\ proc'["worker"] = proc["worker"]
           \/ /\ CloseRange("worker")
              /\ k = proc["worker"].row
              /\ rows[k].status = "open" /\ new.status = "resolved" /\ new.resolved
              /\ new.market = rows[k].market /\ new.result = proc["worker"].result
              /\ proc'["worker"].at = "ensure"
           \/ /\ rows[k].status \notin {"open", "resolved"} /\ new.status = "creating"
              /\ new.market = None /\ ~new.resolved /\ new.result = None
              /\ proc'["worker"].at = "create" /\ proc'["worker"].row = k
           \/ /\ rows[k].status = "creating" /\ new.status = "cancelled"
              /\ new.resolved = rows[k].resolved /\ new.result = rows[k].result
              /\ new.market = rows[k].market
              /\ proc'["worker"].at = "idle"
           \/ /\ CreatedRange("worker")
              /\ rows[k].status = "creating" /\ new.status = "open"
              /\ new.resolved = rows[k].resolved /\ new.result = rows[k].result
              /\ new.market = proc["worker"].made /\ new.market # None
              /\ \A j \in Keys : rows[j].market # new.market
              /\ proc'["worker"].at = "idle"

\* Every step of the range family respects RangeChange.
LEMMA RangeChanges == LifeInv /\ Next /\ family = "range" => rows' = rows \/ RangeChange
<1> SUFFICES ASSUME LifeInv, Next, family = "range", rows' # rows PROVE RangeChange
    OBVIOUS
<1>1. /\ TypeOK /\ chain \in Seq(Market) /\ rows \in [Keys -> Row] /\ proc \in [Actors -> Proc]
      /\ RangeRows /\ RangeWork /\ PlaceInv /\ "worker" \in Actors /\ "drain" \in Actors
    BY DEF LifeInv, TypeOK, SettlementTypeOK, Actors, Ticks
<1>2. \A a \in Ticks : proc[a].at # "idle" => a = "worker"
    BY <1>1 DEF PlaceInv, Ticks
<1>3. ASSUME CloseRange("worker") PROVE RangeChange
    <2>1. rows' = Closed("worker") /\ HasRow("worker") /\ proc["worker"].at = "close"
        BY <1>3 DEF CloseRange, HasRow, TickWork
    <2>2. PICK k \in Keys, r \in Results \cup {None} :
              k = proc["worker"].row /\ r = proc["worker"].result /\ rows[k].status = "open"
        BY <1>1, <2>1, WorkedRow DEF Proc, RangeWork
    <2>3. /\ rows' = [rows EXCEPT ![k] =
                 [rows[k] EXCEPT !.resolved = TRUE, !.result = r, !.status = "resolved"]]
          /\ rows[k] \in Row
        BY <2>1, <2>2, <1>1 DEF Closed
    <2> DEFINE new == [rows[k] EXCEPT !.resolved = TRUE, !.result = r, !.status = "resolved"]
    <2>4. /\ new \in Row /\ new.market = rows[k].market /\ new.status = "resolved" /\ new.resolved
          /\ new.result = r
        BY <2>3 DEF Row
    <2>5. rows' = [rows EXCEPT ![k] = new]
        BY <2>3
    <2>6. proc'["worker"].at = "ensure"
        BY <1>1, <1>3, BeginsTyped DEF CloseRange
    <2> HIDE DEF new
    <2>7. QED
        BY <1>3, <2>2, <2>4, <2>5, <2>6 DEF RangeChange
<1>4. ASSUME Ensure("worker") PROVE RangeChange
    <2>1. PICK d \in Nat, n \in Nat : d = Day /\ n = now /\ Day <= LastDay
        BY <1>1, <1>4, Today DEF Ensure
    <2>2. /\ d + 1 \in Keys /\ Retryable(d + 1)
          /\ rows' = [rows EXCEPT ![d + 1] =
                 [NoRow EXCEPT !.status = "creating", !.day = d, !.since = n]]
          /\ Begins("worker", "create", d + 1)
        BY <1>1, <1>4, <2>1, Today DEF Ensure
    <2>3. /\ NoRow \in Row /\ NoRow.market = None
          /\ ~NoRow.resolved /\ NoRow.result = None
        BY DEF NoRow, Row, None
    <2> DEFINE new == [NoRow EXCEPT !.status = "creating", !.day = d, !.since = n]
    <2>4. /\ new \in Row /\ new.market = None /\ new.status = "creating"
          /\ ~new.resolved /\ new.result = None
        BY <2>3 DEF Row
    <2>5. rows' = [rows EXCEPT ![d + 1] = new]
        BY <2>2
    <2> HIDE DEF new
    <2>6. rows[d + 1].status \notin {"open", "resolved"}
        BY <2>2 DEF Retryable
    <2>7. proc'["worker"].at = "create" /\ proc'["worker"].row = d + 1
        BY <1>1, <2>2, BeginsTyped
    <2>8. QED
        BY <2>2, <2>4, <2>5, <2>6, <2>7 DEF RangeChange
<1>5. ASSUME CreateFails("worker") \/ NotCreated("worker") \/ CreateLost("worker")
      PROVE  RangeChange
    <2>1. /\ rows' = [rows EXCEPT ![proc["worker"].row].status = "cancelled"]
          /\ HasRow("worker") /\ Goes("worker", "idle")
          /\ proc["worker"].at \in {"create", "created"}
        BY <1>5 DEF CreateFails, NotCreated, CreateLost, GivenUp, Ranged, HasRow
    <2>2. PICK k \in Keys : k = proc["worker"].row /\ rows[k].status = "creating"
        BY <1>1, <2>1, WorkedRow DEF RangeWork
    <2>3. rows' = [rows EXCEPT ![k] = [rows[k] EXCEPT !.status = "cancelled"]] /\ rows[k] \in Row
        BY <2>1, <2>2, <1>1
    <2> DEFINE new == [rows[k] EXCEPT !.status = "cancelled"]
    <2>4. /\ new \in Row /\ new.market = rows[k].market /\ new.status = "cancelled"
          /\ new.resolved = rows[k].resolved /\ new.result = rows[k].result
        BY <2>3 DEF Row
    <2>5. rows' = [rows EXCEPT ![k] = new]
        BY <2>3
    <2> HIDE DEF new
    <2>6. proc'["worker"].at = "idle"
        BY <1>1, <2>1, GoesTyped, IdleTyped
    <2>7. QED
        BY <2>2, <2>4, <2>5, <2>6 DEF RangeChange
<1>6. ASSUME CreatedRange("worker") PROVE RangeChange
    <2>1. proc["worker"].at = "created" /\ proc["worker"].outcome = "success" /\ "worker" \in Ticks
        BY <1>6 DEF CreatedRange, Ticks
    <2>2. PICK m \in DOMAIN chain : m = proc["worker"].made
        BY <2>1, MadeOnChain
    <2>3. m \in MarketIds /\ m # None
        BY <1>1, <2>2, NumbersOnChain DEF None
    <2>4. HasRow("worker")
        BY <2>1 DEF HasRow
    <2>5. PICK k \in Keys : k = proc["worker"].row /\ rows[k].status = "creating"
        BY <1>1, <2>1, <2>4, WorkedRow DEF RangeWork
    <2>6. /\ rows' = [rows EXCEPT ![k] = [rows[k] EXCEPT !.status = "open", !.market = m]]
          /\ rows[k] \in Row
        BY <1>1, <1>6, <2>2, <2>5 DEF CreatedRange
    <2> DEFINE new == [rows[k] EXCEPT !.status = "open", !.market = m]
    <2>7. /\ new \in Row /\ new.market = m /\ new.status = "open"
          /\ new.resolved = rows[k].resolved /\ new.result = rows[k].result
        BY <2>3, <2>6 DEF Row
    <2>8. rows' = [rows EXCEPT ![k] = new]
        BY <2>6
    <2> HIDE DEF new
    <2>9. \A j \in Keys : rows[j].market # m
        BY <1>1, <2>1, <2>2, <2>3 DEF RangeWork
    <2>10. proc'["worker"].at = "idle"
        BY <1>1, <1>6, GoesTyped, IdleTyped DEF CreatedRange
    <2>11. /\ new.market = proc["worker"].made /\ new.market # None
           /\ \A j \in Keys : rows[j].market # new.market
        BY <2>2, <2>3, <2>7, <2>9
    <2>12. QED
        BY <1>6, <2>5, <2>7, <2>8, <2>10, <2>11 DEF RangeChange
<1>7. ASSUME NEW k \in Keys, rows[k].status = "resolved", NEW v \in 0..2,
             rows' = [rows EXCEPT ![k] = [rows[k] EXCEPT !.drained = TRUE, !.withdrawn = v]],
             proc'["worker"] = proc["worker"]
      PROVE  RangeChange
    <2> DEFINE new == [rows[k] EXCEPT !.drained = TRUE, !.withdrawn = v]
    <2>1. /\ new \in Row /\ new.market = rows[k].market /\ new.status = rows[k].status
          /\ new.result = rows[k].result /\ new.resolved = rows[k].resolved
        BY <1>1 DEF Row
    <2>2. rows' = [rows EXCEPT ![k] = new]
        BY <1>7
    <2> HIDE DEF new
    <2>3. QED
        BY <1>7, <2>1, <2>2 DEF RangeChange
<1>8. ASSUME NEW k \in Keys, DrainHeal(k) PROVE RangeChange
    <2>1. rows[k].resolved /\ rows[k].market \in DOMAIN chain
        BY <1>1, <1>8, RowTyped DEF DrainHeal, Undrained, Settled
    <2>2. rows[k].status = "resolved" /\ proc' = proc
        BY <1>1, <1>8, <2>1 DEF RangeRows, DrainHeal
    <2>3. PICK v \in 0..2 : v = chain[rows[k].market].withdrawn
        BY <1>1, <2>1, NumbersOnChain DEF Market
    <2>4. rows' = [rows EXCEPT ![k] = [rows[k] EXCEPT !.drained = TRUE, !.withdrawn = v]]
        BY <1>1, <1>8, <2>3 DEF DrainHeal
    <2>5. QED
        BY <1>7, <2>2, <2>4
<1>9. ASSUME DrainReceipt PROVE RangeChange
    <2>1. HasRow("drain") /\ proc["drain"].at = "drained" /\ Goes("drain", "idle")
        BY <1>9 DEF DrainReceipt, HasRow
    <2>2. PICK k \in Keys, v \in 0..2 :
              k = proc["drain"].row /\ v = proc["drain"].amount /\ rows[k].status = "resolved"
        BY <1>1, <2>1, WorkedRow DEF Proc, RangeWork
    <2>3. rows' = [rows EXCEPT ![k] = [rows[k] EXCEPT !.drained = TRUE, !.withdrawn = v]]
        BY <1>1, <1>9, <2>2 DEF DrainReceipt, RecordedAmount
    <2>4. proc'["worker"] = proc["worker"]
        BY <1>1, <2>1, GoesTyped
    <2>5. QED
        BY <1>7, <2>2, <2>3, <2>4
<1>10. /\ \A a \in Ticks : ~(Close(a) \/ Stuck(a) \/ Created(a))
       /\ \A m \in DOMAIN chain : ~(HandleCreated(m) \/ HandleResolved(m))
       /\ ~ForceCreate
    BY <1>1 DEF Close, Created, Daily, ForceCreate, Stuck, PlaceInv, RangeTick, HandleCreated,
                HandleResolved, RangeRows
<1>11. \A a \in Ticks : CloseRange(a) \/ Ensure(a) \/ CreateFails(a) \/ NotCreated(a)
                        \/ CreatedRange(a) \/ CreateLost(a) => a = "worker"
    BY <1>2 DEF CloseRange, Ensure, CreateFails, NotCreated, CreatedRange, CreateLost
<1>12. QED
    BY <1>3, <1>4, <1>5, <1>6, <1>8, <1>9, <1>10, <1>11, RowWriters

\* Range markets have no event to handle.
LEMMA RangeEvents == Next /\ family = "range" =>
    createdEvents' \subseteq createdEvents /\ resolvedEvents' \subseteq resolvedEvents
    BY DEF Next, Works, TickStep, ResolveStep, FallbackStep, DrainStep, ChainStep,
           CallFails, TickStart, RangeStart, Price, Close, Stuck, Check, CloseRange,
           Ensure, CreateSend, CreateFails, NotCreated, Created, CreatedRange,
           CreateLost, ForceCreate, Acquire, Send, SendRejected, SendFails, Receipt,
           ReceiptLost, Release, FallbackStart, DrainHeal, DrainStart, DrainSend,
           DrainReceipt, DrainLost, MineResolve, MineDrain, MineCreate, Cancel, Clock,
           Crash, LockExpires, HandleCreated, HandleResolved, Redeem, ByHand, events,
           history, Heard, Daily

\* The rows of range markets stay as RangeRows says.
LEMMA RangeRowStep == LifeInv /\ Next => RangeRows'
<1> SUFFICES ASSUME LifeInv, Next, family = "range" PROVE RangeRows'
    BY FamilyStays DEF RangeRows
<1>1. rows \in [Keys -> Row] /\ RangeRows
    BY DEF LifeInv, TypeOK, SettlementTypeOK
<1>2. createdEvents' = {} /\ resolvedEvents' = {}
    BY <1>1, RangeEvents DEF RangeRows
<1>3. CASE rows' = rows
    BY <1>1, <1>2, <1>3 DEF RangeRows
<1>4. CASE RangeChange
    <2>1. PICK k \in Keys, new \in Row :
        /\ rows' = [rows EXCEPT ![k] = new]
        /\ new.status # "plain"
        /\ new.status \in {"open", "resolved"} <=> new.market # None
        /\ new.status = "resolved" <=> new.resolved
        /\ new.result # None => new.resolved
        /\ \/ new.market = rows[k].market \/ new.market = None
           \/ \A j \in Keys : rows[j].market # new.market
        <3>1. PICK k \in Keys, new \in Row :
                /\ rows' = [rows EXCEPT ![k] = new]
                /\ \/ /\ rows[k].status = "resolved" /\ new.status = "resolved"
                      /\ new.resolved = rows[k].resolved /\ new.result = rows[k].result
                      /\ new.market = rows[k].market
                   \/ /\ rows[k].status = "open" /\ new.status = "resolved" /\ new.resolved
                      /\ new.market = rows[k].market
                   \/ /\ new.status = "creating"
                      /\ new.market = None /\ ~new.resolved /\ new.result = None
                   \/ /\ rows[k].status = "creating" /\ new.status = "cancelled"
                      /\ new.resolved = rows[k].resolved /\ new.result = rows[k].result
                      /\ new.market = rows[k].market
                   \/ /\ rows[k].status = "creating" /\ new.status = "open"
                      /\ new.resolved = rows[k].resolved /\ new.result = rows[k].result
                      /\ new.market # None
                      /\ \A j \in Keys : rows[j].market # new.market
            BY <1>4 DEF RangeChange
        <3>2. /\ rows[k].status \in {"open", "resolved"} <=> rows[k].market # None
              /\ rows[k].status = "resolved" <=> rows[k].resolved
              /\ rows[k].result # None => rows[k].resolved
            BY <1>1 DEF RangeRows
        <3>3. QED
            BY <3>1, <3>2
    <2>2. rows'[k] = new /\ \A j \in Keys : j # k => rows'[j] = rows[j]
        BY <1>1, <2>1
    <2>3. ASSUME NEW j \in Keys
          PROVE  /\ rows'[j].status # "plain"
                 /\ rows'[j].status \in {"open", "resolved"} <=> rows'[j].market # None
                 /\ rows'[j].status = "resolved" <=> rows'[j].resolved
                 /\ rows'[j].result # None => rows'[j].resolved
        BY <1>1, <2>1, <2>2 DEF RangeRows
    <2>4. ASSUME NEW i \in Keys, NEW j \in Keys, rows'[i].market = rows'[j].market
          PROVE  i = j \/ rows'[i].market = None
        BY <1>1, <2>1, <2>2, <2>4 DEF RangeRows
    <2>5. QED
        BY <1>2, <2>3, <2>4 DEF RangeRows
<1>5. QED
    BY <1>3, <1>4, RangeChanges

\* What the worker, the fallback and the drain work on next.
RangeWorkers ==
    LET old == proc["worker"]
        new == proc'["worker"]
    IN  /\ new.at \in {"send", "receipt", "close"} => rows[new.row].status = "open"
        /\ new.at \in {"create", "created"} =>
              \/ new.at = "create" /\ new.row \in Keys /\ rows'[new.row].status = "creating"
              \/ old.at \in {"create", "created"} /\ new.row = old.row
        /\ new.at = "created" =>
              \/ new.made = None
              \/ old.at = "created" /\ new.made = old.made
              \/ new.made = Len(chain) + 1 /\ rows' = rows
        /\ \A a \in {"fallback", "drain"} :
              proc'[a].at # "idle" =>
                  proc'[a].row \in Keys /\ rows[proc'[a].row].status = "resolved"

\* Every step of the range family respects RangeWorkers.
LEMMA RangeWorks == LifeInv /\ Next /\ family = "range" => RangeWorkers
<1> SUFFICES ASSUME LifeInv, family = "range", Next PROVE RangeWorkers
    OBVIOUS
<1>1. /\ proc \in [Actors -> Proc] /\ family = "range" /\ Idle.at = "idle" /\ RangeWork
      /\ \A k \in Keys : rows[k].resolved => rows[k].status = "resolved"
      /\ \A a \in Ticks : proc[a].at # "idle" => a = "worker"
      /\ \A a \in Ticks : proc[a].at \in RangeTick
      /\ \A a \in {"fallback", "drain"} : proc[a].at # "idle" => proc[a].row \in Keys
    BY IdleTyped
    DEF LifeInv, TypeOK, SettlementTypeOK, RangeRows, PlaceInv, HasRow, Actors, Ticks, TickWork, Resolving
<1>2. ASSUME \/ Clock
             \/ (\E k \in Keys : DrainHeal(k) \/ LockExpires(k))
             \/ (\E m \in DOMAIN chain : HandleCreated(m) \/ HandleResolved(m) \/
                Redeem(m))
             \/ (\E m \in DOMAIN chain, r \in Results : ByHand(m, r))
      PROVE  RangeWorkers
    <2>1. UNCHANGED proc
        BY <1>2
        DEF DrainHeal, Undrained, Clock, LockExpires, Fault, Bounded, HandleCreated,
            HandleResolved, Redeem, ByHand, events, history
    <2>2. QED
        BY <2>1, <1>1 DEF RangeWorkers, RangeWork, Actors, Ticks
<1>3. ASSUME NEW a \in Ticks, TickStart(a) PROVE RangeWorkers
    BY <1>3, <1>1 DEF TickStart, Daily
<1>4. ASSUME NEW a \in Ticks, RangeStart(a) PROVE RangeWorkers
    <2>1. CASE Begins(a, "ensure", None)
        <3>1. /\ proc'[a].at = "ensure" /\ a = "worker"
              /\ \A b \in Actors : b # a => proc'[b] = proc[b]
            BY <2>1, <1>1, <1>4, BeginsTyped DEF Actors, RangeStart, Ranged
        <3>2. QED
            BY <3>1, <1>1 DEF RangeWorkers, RangeWork, Actors
    <2>2. CASE \E k \in Keys, r \in Results :
                  /\ Active(k)
                  /\ proc' = [proc EXCEPT ![a] = [Idle EXCEPT !.at = "send", !.row = k, !.result = r]]
        <3>1. PICK k \in Keys, r \in Results :
                  /\ Active(k)
                  /\ proc' = [proc EXCEPT ![a] = [Idle EXCEPT !.at = "send", !.row = k, !.result = r]]
            BY <2>2
        <3>2. /\ proc'[a].at = "send" /\ proc'[a].row = k /\ a = "worker"
              /\ \A b \in Actors : b # a => proc'[b] = proc[b]
            BY <3>1, <1>1, <1>4, IdleTyped DEF Actors, RangeStart, Ranged, Proc
        <3>3. QED
            BY <3>1, <3>2, <1>1 DEF RangeWorkers, RangeWork, Actors, Active
    <2>3. QED
        BY <1>4, <2>1, <2>2 DEF RangeStart
<1>5. ASSUME NEW a \in Ticks, Price(a) PROVE RangeWorkers
    BY <1>5, <1>1 DEF Price, RangeTick
<1>6. ASSUME NEW a \in Ticks, Close(a) PROVE RangeWorkers
    BY <1>6, <1>1 DEF Close, Daily
<1>7. ASSUME NEW a \in Ticks, Stuck(a) PROVE RangeWorkers
    BY <1>7, <1>1 DEF Stuck, RangeTick
<1>8. ASSUME NEW a \in Ticks, Check(a) PROVE RangeWorkers
    BY <1>8, <1>1 DEF Check, RangeTick
<1>9. ASSUME NEW a \in Ticks, CloseRange(a) PROVE RangeWorkers
    <2>1. /\ a = "worker" /\ proc'[a].at = "ensure"
          /\ \A b \in Actors : b # a => proc'[b] = proc[b]
        BY <1>9, <1>1, BeginsTyped DEF CloseRange, Ranged, Actors
    <2>2. QED
        BY <2>1, <1>1 DEF RangeWorkers, RangeWork, Actors
<1>10. ASSUME NEW a \in Ticks, Ensure(a) PROVE RangeWorkers
    <2>1. \/ /\ Day + 1 \in Keys /\ rows'[Day + 1].status = "creating"
             /\ Begins(a, "create", Day + 1)
          \/ Goes(a, "idle")
        <3>1. ASSUME Day <= LastDay, Retryable(Day + 1)
              PROVE  Day + 1 \in Keys /\ rows'[Day + 1].status = "creating" /\ Begins(a, "create", Day + 1)
            <4>1. PICK k \in Keys : k = Day + 1
                BY <3>1, Today DEF LifeInv
            <4>2. /\ rows' = [rows EXCEPT ![k] =
                         [NoRow EXCEPT !.status = "creating", !.day = Day, !.since = now]]
                  /\ rows \in [Keys -> Row] /\ Begins(a, "create", k)
                BY <1>10, <3>1, <4>1 DEF Ensure, LifeInv, TypeOK, SettlementTypeOK
            <4>3. [NoRow EXCEPT !.status = "creating", !.day = Day, !.since = now].status = "creating"
                BY DEF NoRow
            <4>4. QED
                BY <4>1, <4>2, <4>3
        <3>2. QED
            BY <1>10, <3>1 DEF Ensure
    <2>2. /\ \A b \in Actors : b # a => proc'[b] = proc[b]
          /\ \/ proc'[a].at = "idle"
             \/ /\ proc'[a].at = "create" /\ proc'[a].row \in Keys
                /\ rows'[proc'[a].row].status = "creating"
        BY <2>1, <1>1, BeginsTyped, GoesTyped, IdleTyped DEF Actors, Ticks
    <2>3. a = "worker"
        BY <1>10, <1>1 DEF Ensure
    <2>4. QED
        BY <2>2, <2>3, <1>1 DEF RangeWorkers, RangeWork, Actors
<1>11. ASSUME NEW a \in Ticks, CreateSend(a) PROVE RangeWorkers
    <2>1. /\ a = "worker" /\ a \in Actors /\ proc[a].at = "create"
          /\ Begins(a, "created", proc[a].row) /\ proc[a].row \in Keys
        BY <1>11, <1>1 DEF CreateSend, LifeInv, PlaceInv, HasRow, Actors
    <2>2. /\ proc'[a].at = "created" /\ proc'[a].row = proc[a].row /\ proc'[a].made = None
          /\ \A b \in Actors : b # a => proc'[b] = proc[b]
        BY <2>1, <1>1, BeginsTyped
    <2>3. QED
        BY <2>1, <2>2, <1>1 DEF RangeWorkers, RangeWork, Actors
<1>12. ASSUME NEW a \in Ticks, CreateFails(a) PROVE RangeWorkers
    <2>1. /\ a = "worker" /\ proc'[a].at = "idle"
          /\ \A b \in Actors : b # a => proc'[b] = proc[b]
        BY <1>12, <1>1, GoesTyped, IdleTyped DEF CreateFails, Actors, Ticks
    <2>2. QED
        BY <2>1, <1>1 DEF RangeWorkers, RangeWork, Actors
<1>13. ASSUME NEW a \in Ticks, NotCreated(a) PROVE RangeWorkers
    <2>1. /\ a = "worker" /\ proc'[a].at = "idle"
          /\ \A b \in Actors : b # a => proc'[b] = proc[b]
        BY <1>13, <1>1, GoesTyped, IdleTyped DEF NotCreated, Actors, Ticks
    <2>2. QED
        BY <2>1, <1>1 DEF RangeWorkers, RangeWork, Actors
<1>14. ASSUME NEW a \in Ticks, Created(a) PROVE RangeWorkers
    BY <1>14, <1>1 DEF Created, Daily
<1>15. ASSUME NEW a \in Ticks, CreatedRange(a) PROVE RangeWorkers
    <2>1. /\ a = "worker" /\ proc'[a].at = "idle"
          /\ \A b \in Actors : b # a => proc'[b] = proc[b]
        BY <1>15, <1>1, GoesTyped, IdleTyped DEF CreatedRange, Actors, Ticks
    <2>2. QED
        BY <2>1, <1>1 DEF RangeWorkers, RangeWork, Actors
<1>16. ASSUME NEW a \in Ticks, CreateLost(a) PROVE RangeWorkers
    <2>1. /\ a = "worker" /\ proc'[a].at = "idle"
          /\ \A b \in Actors : b # a => proc'[b] = proc[b]
        BY <1>16, <1>1, GoesTyped, IdleTyped DEF CreateLost, Actors, Ticks
    <2>2. QED
        BY <2>1, <1>1 DEF RangeWorkers, RangeWork, Actors
<1>17. ASSUME ForceCreate PROVE RangeWorkers
    BY <1>17, <1>1 DEF ForceCreate, Daily
<1>18. ASSUME NEW a \in Resolvers, Acquire(a) PROVE RangeWorkers
    <2>1. a = "fallback"
        BY <1>18, <1>1 DEF Acquire, Resolvers, RangeTick
    <2>2. /\ proc'[a].at = "idle" \/ proc'[a].row = proc[a].row
          /\ \A b \in Actors : b # a => proc'[b] = proc[b]
        BY <1>18, <1>1, <2>1, GoesTyped, IdleTyped DEF Acquire, Actors, Ticks
    <2>3. proc[a].at # "idle"
        BY <1>18 DEF Acquire
    <2>4. QED
        BY <2>1, <2>2, <2>3, <1>1 DEF RangeWorkers, RangeWork, Actors, Ticks
<1>19. ASSUME NEW a \in Resolvers, Send(a) PROVE RangeWorkers
    BY <1>19, <1>1, IdleTyped
    DEF Send, Broadcast, Target, RangeWorkers, RangeWork, Actors, Ticks, Resolvers, Proc
<1>20. ASSUME NEW a \in Resolvers, SendRejected(a) PROVE RangeWorkers
    BY <1>20, <1>1, IdleTyped
    DEF SendRejected, Fails, Unlocked, RangeWorkers, RangeWork, Actors, Ticks,
        Resolvers, Proc
<1>21. ASSUME NEW a \in Resolvers, SendFails(a) PROVE RangeWorkers
    BY <1>21, <1>1, IdleTyped
    DEF SendFails, Fails, Unlocked, Fault, Bounded, Target, RangeWorkers, RangeWork,
        Actors, Ticks, Resolvers, Proc
<1>22. ASSUME NEW a \in Resolvers, Receipt(a) PROVE RangeWorkers
    BY <1>22, <1>1, IdleTyped
    DEF Receipt, Goes, RangeWorkers, RangeWork, Actors, Ticks, Resolvers, Proc
<1>23. ASSUME NEW a \in Resolvers, ReceiptLost(a) PROVE RangeWorkers
    BY <1>23, <1>1, IdleTyped
    DEF ReceiptLost, Fails, Unlocked, Fault, Bounded, Abandoned, RangeWorkers,
        RangeWork, Actors, Ticks, Resolvers, Proc
<1>24. ASSUME NEW a \in Resolvers, Release(a) PROVE RangeWorkers
    <2>1. a = "fallback"
        BY <1>24, <1>1 DEF Release, Resolvers, RangeTick
    <2>2. /\ proc'[a].at = "idle" \/ proc'[a].row = proc[a].row
          /\ \A b \in Actors : b # a => proc'[b] = proc[b]
        BY <1>24, <1>1, <2>1, GoesTyped, IdleTyped DEF Release, Actors, Ticks
    <2>3. proc[a].at # "idle"
        BY <1>24 DEF Release
    <2>4. QED
        BY <2>1, <2>2, <2>3, <1>1 DEF RangeWorkers, RangeWork, Actors, Ticks
<1>25. ASSUME NEW k \in Keys, FallbackStart(k) PROVE RangeWorkers
    <2>1. rows[k].status = "resolved"
        BY <1>25, <1>1 DEF FallbackStart, Unsettled
    <2>2. /\ proc'["fallback"].row = k
          /\ \A b \in Actors : b # "fallback" => proc'[b] = proc[b]
        BY <1>25, <1>1, IdleTyped DEF FallbackStart, Proc, Actors
    <2>3. QED
        BY <2>1, <2>2, <1>1 DEF RangeWorkers, RangeWork, Actors, Ticks
<1>26. ASSUME NEW k \in Keys, DrainStart(k) PROVE RangeWorkers
    <2>1. rows[k].status = "resolved"
        BY <1>26, <1>1 DEF DrainStart, Undrained
    <2>2. /\ proc'["drain"].row = k
          /\ \A b \in Actors : b # "drain" => proc'[b] = proc[b]
        BY <1>26, <1>1, IdleTyped DEF DrainStart, Proc, Actors
    <2>3. QED
        BY <2>1, <2>2, <1>1 DEF RangeWorkers, RangeWork, Actors, Ticks
<1>27. ASSUME DrainSend PROVE RangeWorkers
    BY <1>27, <1>1, IdleTyped
    DEF DrainSend, Broadcast, Goes, Target, RangeWorkers, RangeWork, Actors, Ticks,
        Resolvers, Proc
<1>28. ASSUME DrainReceipt PROVE RangeWorkers
    BY <1>28, <1>1, IdleTyped
    DEF DrainReceipt, RecordedAmount, Goes, RangeWorkers, RangeWork, Actors, Ticks,
        Resolvers, Proc
<1>29. ASSUME DrainLost PROVE RangeWorkers
    BY <1>29, <1>1, IdleTyped
    DEF DrainLost, Abandoned, Goes, Fault, Bounded, RangeWorkers, RangeWork, Actors,
        Ticks, Resolvers, Proc
<1>30. ASSUME MineResolve PROVE RangeWorkers
    <2>1. \A a \in Actors : /\ proc'[a].at = proc[a].at /\ proc'[a].row = proc[a].row
                            /\ proc'[a].made = proc[a].made
        BY <1>30, <1>1 DEF MineResolve, Answered, Proc
    <2>2. QED
        BY <2>1, <1>1 DEF RangeWorkers, RangeWork, Actors, Ticks
<1>31. ASSUME MineDrain PROVE RangeWorkers
    <2>1. \A a \in Actors : /\ proc'[a].at = proc[a].at /\ proc'[a].row = proc[a].row
                            /\ proc'[a].made = proc[a].made
        BY <1>31, <1>1 DEF MineDrain, Answered, Proc
    <2>2. QED
        BY <2>1, <1>1 DEF RangeWorkers, RangeWork, Actors, Ticks
<1>32. ASSUME MineCreate PROVE RangeWorkers
    <2>1. /\ \A a \in Actors : proc'[a].at = proc[a].at /\ proc'[a].row = proc[a].row
          /\ \A a \in Actors : proc'[a].made \in {proc[a].made, Len(chain) + 1}
          /\ rows' = rows
        BY <1>32, <1>1 DEF MineCreate, Answered, Proc
    <2>2. QED
        BY <2>1, <1>1 DEF RangeWorkers, RangeWork, Actors, Ticks
<1>33. ASSUME Cancel PROVE RangeWorkers
    <2>1. \A a \in Actors : /\ proc'[a].at = proc[a].at /\ proc'[a].row = proc[a].row
                            /\ proc'[a].made = proc[a].made
        BY <1>33, <1>1 DEF Cancel, Answered, Proc
    <2>2. QED
        BY <2>1, <1>1 DEF RangeWorkers, RangeWork, Actors, Ticks
<1>34. ASSUME Crash PROVE RangeWorkers
    BY <1>34, <1>1, IdleTyped
    DEF Crash, Fault, Bounded, RangeWorkers, RangeWork, Actors, Ticks, Resolvers, Proc
<1>35. QED
    BY <1>2, <1>3, <1>4, <1>5, <1>6, <1>7, <1>8, <1>9, <1>10, <1>11, <1>12, <1>13,
       <1>14, <1>15, <1>16, <1>17, <1>18, <1>19, <1>20, <1>21, <1>22, <1>23, <1>24,
       <1>25, <1>26, <1>27, <1>28, <1>29, <1>30, <1>31, <1>32, <1>33, <1>34
       DEF Next, Works, TickStep, ResolveStep, FallbackStep, DrainStep, ChainStep,
           CallFails, Resolvers

\* What a process of the range family relies on stays true.
LEMMA RangeWorkStep == LifeInv /\ Next => RangeWork'
<1> SUFFICES ASSUME LifeInv, Next, family = "range" PROVE RangeWork'
    BY FamilyStays DEF RangeWork
<1>1. /\ rows \in [Keys -> Row] /\ proc' \in [Actors -> Proc] /\ proc \in [Actors -> Proc]
      /\ RangeRows /\ RangeWork /\ RangeWorkers /\ PlaceInv'
      /\ \A k \in Keys : rows[k].market \in 0..Len(chain)
    BY ProcTyped, RangeWorks, PlaceStep DEF LifeInv, TypeOK, SettlementTypeOK
<1>2. PICK old \in Proc, new \in Proc : old = proc["worker"] /\ new = proc'["worker"]
    BY <1>1 DEF Actors, Ticks
<1>3. /\ new.at \in {"send", "receipt", "close"} => new.row \in Keys
      /\ old.at \in {"create", "created"} =>
            /\ rows[old.row].status = "creating" /\ old.row \in Keys
            /\ old.at = "created" => \A k \in Keys : rows[k].market = old.made => rows[k].market = None
    BY <1>1, <1>2 DEF LifeInv, PlaceInv, RangeWork, HasRow, TickWork, Resolving, Actors, Ticks
<1>4. CASE rows' = rows
    <2>1. new.at \in {"send", "receipt", "close"} => rows'[new.row].status = "open"
        BY <1>1, <1>2, <1>4 DEF RangeWorkers
    <2>2. new.at \in {"create", "created"} => rows'[new.row].status = "creating"
        BY <1>1, <1>2, <1>3, <1>4 DEF RangeWorkers
    <2>3. ASSUME new.at = "created", NEW k \in Keys, rows'[k].market = new.made
          PROVE  rows'[k].market = None
        <3>1. rows[k].market # Len(chain) + 1
            BY <1>1 DEF LifeInv, TypeOK, SettlementTypeOK
        <3>2. QED
            BY <1>1, <1>2, <1>3, <1>4, <2>3, <3>1 DEF RangeWorkers
    <2>4. \A a \in {"fallback", "drain"} : proc'[a].at # "idle" => rows'[proc'[a].row].status = "resolved"
        BY <1>1, <1>4 DEF RangeWorkers
    <2>5. QED
        BY <1>2, <2>1, <2>2, <2>3, <2>4 DEF RangeWork
<1>5. CASE RangeChange /\ rows' # rows
    <2>1. PICK k \in Keys, row \in Row :
              /\ rows' = [rows EXCEPT ![k] = row]
              /\ \/ rows[k].status = "resolved" /\ row.status = "resolved" /\ row.market = rows[k].market
                    /\ new = old
                 \/ rows[k].status = "open" /\ row.status = "resolved" /\ new.at = "ensure"
                 \/ /\ rows[k].status \notin {"open", "resolved"}
                    /\ new.at = "idle" \/ (new.at = "create" /\ row.status = "creating" /\ new.row = k)
        BY <1>2, <1>5 DEF RangeChange
    <2>2. rows'[k] = row /\ \A j \in Keys : j # k => rows'[j] = rows[j]
        BY <1>1, <2>1
    <2>3. new.at \in {"send", "receipt", "close"} => rows'[new.row].status = "open"
        BY <1>1, <1>2, <1>3, <2>1, <2>2 DEF RangeWorkers
    <2>4. new.at \in {"create", "created"} => rows'[new.row].status = "creating"
        BY <1>1, <1>2, <1>3, <2>1, <2>2 DEF RangeWorkers
    <2>5. ASSUME new.at = "created", NEW j \in Keys, rows'[j].market = new.made
          PROVE  rows'[j].market = None
        BY <1>1, <1>2, <1>3, <2>1, <2>2, <2>5 DEF RangeWorkers
    <2>6. \A a \in {"fallback", "drain"} : proc'[a].at # "idle" => rows'[proc'[a].row].status = "resolved"
        BY <1>1, <2>1, <2>2 DEF RangeWorkers
    <2>7. QED
        BY <1>2, <2>3, <2>4, <2>5, <2>6 DEF RangeWork
<1>6. QED
    BY <1>4, <1>5, RangeChanges

---------------------------------------------------------------------------
(* The transaction in flight *)

\* A process that sends has a market on the chain.
LEMMA TargetOnChain ==
    ASSUME LifeInv, NEW a \in Actors,
           proc[a].at \in {"send", "receipt", "drain", "drained"}
    PROVE  /\ proc[a].row \in Keys
           /\ Target(a) = rows[proc[a].row].market
           /\ Target(a) \in DOMAIN chain /\ Target(a) # None
<1>1. /\ TypeOK /\ HasRow(a) /\ proc[a].row \in Keys /\ family \in {"24h", "range"}
      /\ PlaceInv /\ chain \in Seq(Market)
    BY BoundAssumption
    DEF LifeInv, TypeOK, SettlementTypeOK, HasRow, TickWork, Resolving, PlaceInv
<1>2. CASE family = "24h"
    <2>1. rows[proc[a].row].market \in DOMAIN chain
        BY <1>1, <1>2 DEF LifeInv, DailyRows, DailyRow
    <2>2. QED
        BY <1>1, <2>1, NumbersOnChain DEF Target, None
<1>3. CASE family = "range"
    <2>1. a # "admin"
        BY <1>1, <1>3 DEF PlaceInv
    <2>2. rows[proc[a].row].status \in {"open", "resolved"}
        BY <1>1, <1>3, <2>1 DEF LifeInv, RangeWork, Actors, Ticks, PlaceInv, RangeTick
    <2>3. rows[proc[a].row].market # None
        BY <1>1, <1>3, <2>2 DEF LifeInv, RangeRows
    <2>4. QED
        BY <1>1, <2>3, RowTyped DEF Target
<1>4. QED
    BY <1>1, <1>2, <1>3

\* A row keeps its market.
LEMMA MarketKept ==
    LifeInv /\ Next => \A k \in Keys : rows[k].market # None => rows'[k].market = rows[k].market
<1> SUFFICES ASSUME LifeInv, Next, NEW k \in Keys, rows[k].market # None
             PROVE  rows'[k].market = rows[k].market
    OBVIOUS
<1>1. family \in {"24h", "range"} /\ rows \in [Keys -> Row] /\ TypeOK
    BY BoundAssumption DEF LifeInv, TypeOK, SettlementTypeOK
<1>2. CASE family = "24h"
    <2>1. DailyRow(k) /\ DailyRow(k)'
        BY <1>2, DailyRowStep DEF LifeInv, DailyRows
    <2>2. rows[k].status # "absent"
        BY <2>1 DEF DailyRow, NoRow
    <2>3. rows'[k].status # "absent"
        BY <1>2, <2>2, DailyRowStep
    <2>4. QED
        BY <2>1, <2>2, <2>3 DEF DailyRow
<1>3. CASE family = "range"
    <2>1. rows[k].status \in {"open", "resolved"}
        BY <1>3 DEF LifeInv, RangeRows
    <2>2. CASE RangeChange
        BY <1>1, <2>1, <2>2 DEF RangeChange
    <2>3. QED
        BY <1>3, <2>2, RangeChanges
<1>4. QED
    BY <1>1, <1>2, <1>3

\* The transaction in flight stays about a market on the chain.
LEMMA TxStep == LifeInv /\ Next => TxInv'
<1> SUFFICES ASSUME LifeInv, Next PROVE TxInv'
    OBVIOUS
<1>1. /\ tx \in Tx /\ TxInv /\ chain \in Seq(Market) /\ family' = family
      /\ \A m \in DOMAIN chain : m \in DOMAIN chain'
      /\ MineCreate \/ Len(chain') = Len(chain)
    BY ChainStep1, FamilyStays DEF ChainGrows, LifeInv, TypeOK, SettlementTypeOK
<1>2. CASE UNCHANGED tx /\ ~MineCreate
    BY <1>1, <1>2 DEF TxInv
<1>3. CASE tx' = NoTx
    BY <1>3 DEF TxInv, NoTx
<1>4. ASSUME NEW a \in Actors \cup {"nobody"}, tx' = [tx EXCEPT !.by = a], tx = NoTx => a = "nobody",
             ~MineCreate
      PROVE  TxInv'
    <2>1. /\ tx'.op = tx.op /\ tx'.market = tx.market
          /\ tx = NoTx => tx' = NoTx
        BY <1>1, <1>4 DEF Tx, NoTx
    <2>2. QED
        BY <1>1, <1>4, <2>1 DEF TxInv
<1>5. ASSUME NEW a \in Actors, tx' = Abandoned(a), ~MineCreate PROVE TxInv'
    <2>1. CASE tx.by = a
        <3>1. tx' = [tx EXCEPT !.by = "nobody"]
            BY <1>5, <2>1 DEF Abandoned
        <3>2. QED
            BY <3>1, <1>4, <1>5
    <2>2. CASE tx.by # a
        BY <1>2, <1>5, <2>2 DEF Abandoned
    <2>3. QED
        BY <2>1, <2>2
<1>6. ASSUME NEW m \in DOMAIN chain, tx'.market = m, tx'.op \in {"resolve", "drain"}
      PROVE  TxInv'
    BY <1>1, <1>6 DEF TxInv
<1>7. ASSUME NEW a \in Resolvers, Send(a) PROVE TxInv'
    <2>1. tx'.op = "resolve" /\ tx'.market = Target(a) /\ a \in Actors /\ proc[a].at = "send"
        BY <1>7 DEF Send, Broadcast, Resolvers, Actors
    <2>2. QED
        BY <2>1, <1>6, TargetOnChain
<1>8. ASSUME NEW a \in Resolvers, SendFails(a), tx' # tx PROVE TxInv'
    <2>1. tx'.op = "resolve" /\ tx'.market = Target(a) /\ a \in Actors /\ proc[a].at = "send"
        BY <1>8 DEF SendFails, NoTx, Resolvers, Actors
    <2>2. QED
        BY <2>1, <1>6, TargetOnChain
<1>9. ASSUME DrainSend, tx' # tx PROVE TxInv'
    <2>1. tx'.op = "drain" /\ tx'.market = Target("drain") /\ "drain" \in Actors /\ proc["drain"].at = "drain"
        BY <1>9 DEF DrainSend, Broadcast, Actors
    <2>2. QED
        BY <2>1, <1>6, TargetOnChain
<1>10. ASSUME NEW a \in Ticks, CreateSend(a) PROVE TxInv'
    <2>1. tx'.op = "create" /\ Len(chain) < MaxMarkets[family] /\ chain' = chain
        BY <1>10 DEF CreateSend, NoTx
    <2>2. QED
        BY <1>1, <2>1 DEF TxInv
<1>11. CASE MineResolve \/ MineDrain \/ MineCreate \/ Cancel
    BY <1>3, <1>11 DEF MineResolve, MineDrain, MineCreate, Cancel
<1>12. CASE Crash
    <2>1. tx' = [tx EXCEPT !.by = "nobody"] /\ chain' = chain
        BY <1>12 DEF Crash
    <2>2. QED
        BY <2>1, <1>11, <1>4
<1>13. ASSUME NEW a \in Actors, tx' = Abandoned(a) PROVE TxInv'
    BY <1>5, <1>11, <1>13
<1>14. CASE DrainLost \/ (\E a \in Resolvers : ReceiptLost(a)) \/ \E a \in Ticks : CreateLost(a)
    BY <1>13, <1>14 DEF DrainLost, ReceiptLost, CreateLost, Actors, Resolvers
<1>15. UNCHANGED tx => TxInv'
    BY <1>2, <1>11
<1>16. QED
    BY <1>7, <1>8, <1>9, <1>10, <1>11, <1>12, <1>14, <1>15, Senders

MadeFits(a) ==
    /\ proc'[a].made \in 0..Len(chain')
    /\ proc'[a].at = "created" /\ proc'[a].outcome = "success" => proc'[a].made # None

\* The number a creator is told of fits the chain.
LEMMA MadeFitsAll == LifeInv /\ Next => \A c \in Ticks : MadeFits(c)
<1> SUFFICES ASSUME LifeInv, Next PROVE \A c \in Ticks : MadeFits(c)
    OBVIOUS
<1>1. /\ proc \in [Actors -> Proc] /\ MadeInv /\ Len(chain) \in Nat /\ Len(chain') \in Nat
      /\ Len(chain) <= Len(chain') /\ tx.by \in Actors \cup {"nobody"}
      /\ tx.by \in Actors /\ tx.op \in {"resolve", "drain"} => proc[tx.by].at # "created"
    BY ChainStep1 DEF ChainGrows, LifeInv, TypeOK, SettlementTypeOK, WaitInv, Actors, Ticks, Tx
<1>2. ASSUME \/ Clock
             \/ (\E k \in Keys : DrainHeal(k) \/ LockExpires(k))
             \/ (\E m \in DOMAIN chain : HandleCreated(m) \/ HandleResolved(m) \/
                Redeem(m))
             \/ (\E m \in DOMAIN chain, r \in Results : ByHand(m, r))
      PROVE  \A c \in Ticks : MadeFits(c)
    <2>1. UNCHANGED proc
        BY <1>2
        DEF DrainHeal, Undrained, Clock, LockExpires, Fault, Bounded, HandleCreated,
            HandleResolved, Redeem, ByHand, events, history
    <2>2. QED
        BY <2>1, <1>1 DEF MadeFits, MadeInv
<1>3. ASSUME NEW a \in Ticks, TickStart(a) PROVE \A c \in Ticks : MadeFits(c)
    <2>1. (\E k \in Keys : Begins(a, "price", k)) \/ Begins(a, "check", None)
        BY <1>3 DEF TickStart
    <2>2. /\ a \in Actors /\ proc'[a].made = None /\ proc'[a].outcome = "none"
          /\ \A b \in Actors : b # a => proc'[b] = proc[b]
        BY <2>1, <1>1, BeginsTyped DEF Actors, Ticks
    <2>3. QED
        BY <2>2, <1>1 DEF MadeFits, MadeInv, None, Actors, Ticks
<1>4. ASSUME NEW a \in Ticks, RangeStart(a) PROVE \A c \in Ticks : MadeFits(c)
    <2>1. /\ a \in Actors /\ proc'[a].made = None /\ proc'[a].outcome = "none"
          /\ \A b \in Actors : b # a => proc'[b] = proc[b]
        <3>1. CASE Begins(a, "ensure", None)
            BY <3>1, <1>1, BeginsTyped DEF Actors
        <3>2. ASSUME NEW k \in Keys, NEW r \in Results,
                     proc' = [proc EXCEPT ![a] = [Idle EXCEPT !.at = "send", !.row = k, !.result = r]]
              PROVE  /\ proc'[a].made = None /\ proc'[a].outcome = "none"
                     /\ \A b \in Actors : b # a => proc'[b] = proc[b]
            BY <3>2, <1>1, IdleTyped DEF Actors, Proc
        <3>3. QED
            BY <1>4, <3>1, <3>2 DEF RangeStart, Actors
    <2>2. QED
        BY <2>1, <1>1 DEF MadeFits, MadeInv, None, Actors, Ticks
<1>5. ASSUME NEW a \in Ticks, Price(a) PROVE \A c \in Ticks : MadeFits(c)
    BY <1>5, <1>1, IdleTyped
    DEF Price, Goes, MadeFits, MadeInv, None, Actors, Ticks, Resolvers, Proc
<1>6. ASSUME NEW a \in Ticks, Close(a) PROVE \A c \in Ticks : MadeFits(c)
    <2>1. /\ a \in Actors /\ proc'[a].made = None /\ proc'[a].outcome = "none"
          /\ \A b \in Actors : b # a => proc'[b] = proc[b]
        BY <1>6, <1>1, BeginsTyped, GoesTyped, IdleTyped DEF Close, Actors, Ticks, None
    <2>2. QED
        BY <2>1, <1>1 DEF MadeFits, MadeInv, None, Actors, Ticks
<1>7. ASSUME NEW a \in Ticks, Stuck(a) PROVE \A c \in Ticks : MadeFits(c)
    <2>1. /\ a \in Actors /\ proc'[a].made = None /\ proc'[a].outcome = "none"
          /\ \A b \in Actors : b # a => proc'[b] = proc[b]
        BY <1>7, <1>1, BeginsTyped, GoesTyped, IdleTyped DEF Stuck, Actors, Ticks, None
    <2>2. QED
        BY <2>1, <1>1 DEF MadeFits, MadeInv, None, Actors, Ticks
<1>8. ASSUME NEW a \in Ticks, Check(a) PROVE \A c \in Ticks : MadeFits(c)
    BY <1>8, <1>1, IdleTyped
    DEF Check, Goes, MadeFits, MadeInv, None, Actors, Ticks, Resolvers, Proc
<1>9. ASSUME NEW a \in Ticks, CloseRange(a) PROVE \A c \in Ticks : MadeFits(c)
    <2>1. /\ a \in Actors /\ proc'[a].made = None /\ proc'[a].outcome = "none"
          /\ \A b \in Actors : b # a => proc'[b] = proc[b]
        BY <1>9, <1>1, BeginsTyped, GoesTyped, IdleTyped DEF CloseRange, Actors, Ticks, None
    <2>2. QED
        BY <2>1, <1>1 DEF MadeFits, MadeInv, None, Actors, Ticks
<1>10. ASSUME NEW a \in Ticks, Ensure(a) PROVE \A c \in Ticks : MadeFits(c)
    <2>1. (Day + 1 \in Keys /\ Begins(a, "create", Day + 1)) \/ Goes(a, "idle")
        BY <1>10, Today DEF Ensure, LifeInv
    <2>2. /\ a \in Actors /\ proc'[a].made = None /\ proc'[a].outcome = "none"
          /\ \A b \in Actors : b # a => proc'[b] = proc[b]
        BY <2>1, <1>1, BeginsTyped, GoesTyped, IdleTyped DEF Actors, Ticks
    <2>3. QED
        BY <2>2, <1>1 DEF MadeFits, MadeInv, None, Actors, Ticks
<1>11. ASSUME NEW a \in Ticks, CreateSend(a) PROVE \A c \in Ticks : MadeFits(c)
    <2>1. /\ a \in Actors /\ Begins(a, "created", proc[a].row) /\ proc[a].row \in Keys \cup {None}
        BY <1>11, <1>1 DEF CreateSend, Actors, Ticks, Proc
    <2>2. /\ proc'[a].made = None /\ proc'[a].outcome = "none"
          /\ \A b \in Actors : b # a => proc'[b] = proc[b]
        BY <2>1, <1>1, BeginsTyped
    <2>3. QED
        BY <2>1, <2>2, <1>1 DEF MadeFits, MadeInv, None, Actors, Ticks
<1>12. ASSUME NEW a \in Ticks, CreateFails(a) PROVE \A c \in Ticks : MadeFits(c)
    <2>1. /\ a \in Actors /\ proc'[a].made = None /\ proc'[a].outcome = "none"
          /\ \A b \in Actors : b # a => proc'[b] = proc[b]
        BY <1>12, <1>1, BeginsTyped, GoesTyped, IdleTyped DEF CreateFails, Actors, Ticks, None
    <2>2. QED
        BY <2>1, <1>1 DEF MadeFits, MadeInv, None, Actors, Ticks
<1>13. ASSUME NEW a \in Ticks, NotCreated(a) PROVE \A c \in Ticks : MadeFits(c)
    <2>1. /\ a \in Actors /\ proc'[a].made = None /\ proc'[a].outcome = "none"
          /\ \A b \in Actors : b # a => proc'[b] = proc[b]
        BY <1>13, <1>1, BeginsTyped, GoesTyped, IdleTyped DEF NotCreated, Actors, Ticks, None
    <2>2. QED
        BY <2>1, <1>1 DEF MadeFits, MadeInv, None, Actors, Ticks
<1>14. ASSUME NEW a \in Ticks, Created(a) PROVE \A c \in Ticks : MadeFits(c)
    <2>1. /\ a \in Actors /\ proc'[a].made = None /\ proc'[a].outcome = "none"
          /\ \A b \in Actors : b # a => proc'[b] = proc[b]
        BY <1>14, <1>1, BeginsTyped, GoesTyped, IdleTyped DEF Created, Actors, Ticks, None
    <2>2. QED
        BY <2>1, <1>1 DEF MadeFits, MadeInv, None, Actors, Ticks
<1>15. ASSUME NEW a \in Ticks, CreatedRange(a) PROVE \A c \in Ticks : MadeFits(c)
    <2>1. /\ a \in Actors /\ proc'[a].made = None /\ proc'[a].outcome = "none"
          /\ \A b \in Actors : b # a => proc'[b] = proc[b]
        BY <1>15, <1>1, BeginsTyped, GoesTyped, IdleTyped DEF CreatedRange, Actors, Ticks, None
    <2>2. QED
        BY <2>1, <1>1 DEF MadeFits, MadeInv, None, Actors, Ticks
<1>16. ASSUME NEW a \in Ticks, CreateLost(a) PROVE \A c \in Ticks : MadeFits(c)
    <2>1. /\ a \in Actors /\ proc'[a].made = None /\ proc'[a].outcome = "none"
          /\ \A b \in Actors : b # a => proc'[b] = proc[b]
        BY <1>16, <1>1, BeginsTyped, GoesTyped, IdleTyped DEF CreateLost, Actors, Ticks, None
    <2>2. QED
        BY <2>1, <1>1 DEF MadeFits, MadeInv, None, Actors, Ticks
<1>17. ASSUME ForceCreate PROVE \A c \in Ticks : MadeFits(c)
    <2>1. /\ "admin" \in Actors /\ proc'["admin"].made = None /\ proc'["admin"].outcome = "none"
          /\ \A b \in Actors : b # "admin" => proc'[b] = proc[b]
        BY <1>17, <1>1, BeginsTyped DEF ForceCreate, Actors, Ticks, None
    <2>2. QED
        BY <2>1, <1>1 DEF MadeFits, MadeInv, None, Actors, Ticks
<1>18. ASSUME NEW a \in Resolvers, Acquire(a) PROVE \A c \in Ticks : MadeFits(c)
    BY <1>18, <1>1, IdleTyped
    DEF Acquire, Goes, MadeFits, MadeInv, None, Actors, Ticks, Resolvers, Proc
<1>19. ASSUME NEW a \in Resolvers, Send(a) PROVE \A c \in Ticks : MadeFits(c)
    BY <1>19, <1>1, IdleTyped
    DEF Send, Broadcast, Target, MadeFits, MadeInv, None, Actors, Ticks, Resolvers, Proc
<1>20. ASSUME NEW a \in Resolvers, SendRejected(a) PROVE \A c \in Ticks : MadeFits(c)
    BY <1>20, <1>1, IdleTyped
    DEF SendRejected, Fails, Unlocked, MadeFits, MadeInv, None, Actors, Ticks,
        Resolvers, Proc
<1>21. ASSUME NEW a \in Resolvers, SendFails(a) PROVE \A c \in Ticks : MadeFits(c)
    BY <1>21, <1>1, IdleTyped
    DEF SendFails, Fails, Unlocked, Fault, Bounded, Target, MadeFits, MadeInv, None,
        Actors, Ticks, Resolvers, Proc
<1>22. ASSUME NEW a \in Resolvers, Receipt(a) PROVE \A c \in Ticks : MadeFits(c)
    BY <1>22, <1>1, IdleTyped
    DEF Receipt, Goes, MadeFits, MadeInv, None, Actors, Ticks, Resolvers, Proc
<1>23. ASSUME NEW a \in Resolvers, ReceiptLost(a) PROVE \A c \in Ticks : MadeFits(c)
    BY <1>23, <1>1, IdleTyped
    DEF ReceiptLost, Fails, Unlocked, Fault, Bounded, Abandoned, MadeFits, MadeInv,
        None, Actors, Ticks, Resolvers, Proc
<1>24. ASSUME NEW a \in Resolvers, Release(a) PROVE \A c \in Ticks : MadeFits(c)
    BY <1>24, <1>1, IdleTyped
    DEF Release, Goes, MadeFits, MadeInv, None, Actors, Ticks, Resolvers, Proc
<1>25. ASSUME NEW k \in Keys, FallbackStart(k) PROVE \A c \in Ticks : MadeFits(c)
    BY <1>25, <1>1, IdleTyped
    DEF FallbackStart, Unsettled, MadeFits, MadeInv, None, Actors, Ticks, Resolvers,
        Proc
<1>26. ASSUME NEW k \in Keys, DrainStart(k) PROVE \A c \in Ticks : MadeFits(c)
    BY <1>26, <1>1, IdleTyped
    DEF DrainStart, Undrained, MadeFits, MadeInv, None, Actors, Ticks, Resolvers, Proc
<1>27. ASSUME DrainSend PROVE \A c \in Ticks : MadeFits(c)
    BY <1>27, <1>1, IdleTyped
    DEF DrainSend, Broadcast, Goes, Target, MadeFits, MadeInv, None, Actors, Ticks,
        Resolvers, Proc
<1>28. ASSUME DrainReceipt PROVE \A c \in Ticks : MadeFits(c)
    BY <1>28, <1>1, IdleTyped
    DEF DrainReceipt, RecordedAmount, Goes, MadeFits, MadeInv, None, Actors, Ticks,
        Resolvers, Proc
<1>29. ASSUME DrainLost PROVE \A c \in Ticks : MadeFits(c)
    BY <1>29, <1>1, IdleTyped
    DEF DrainLost, Abandoned, Goes, Fault, Bounded, MadeFits, MadeInv, None, Actors,
        Ticks, Resolvers, Proc
<1>30. ASSUME MineResolve PROVE \A c \in Ticks : MadeFits(c)
    <2>1. \A a \in Actors :
              \/ proc'[a] = proc[a]
              \/ a = tx.by /\ proc'[a].at = proc[a].at /\ proc'[a].made = proc[a].made
        BY <1>30, <1>1 DEF MineResolve, Answered, Proc
    <2>2. QED
        BY <2>1, <1>30, <1>1 DEF MineResolve, MadeFits, MadeInv, None, Actors, Ticks
<1>31. ASSUME MineDrain PROVE \A c \in Ticks : MadeFits(c)
    <2>1. \A a \in Actors :
              \/ proc'[a] = proc[a]
              \/ a = tx.by /\ proc'[a].at = proc[a].at /\ proc'[a].made = proc[a].made
        BY <1>31, <1>1 DEF MineDrain, Answered, Proc
    <2>2. QED
        BY <2>1, <1>31, <1>1 DEF MineDrain, MadeFits, MadeInv, None, Actors, Ticks
<1>32. ASSUME MineCreate PROVE \A c \in Ticks : MadeFits(c)
    <2>1. Len(chain') = Len(chain) + 1
        BY <1>32 DEF MineCreate, LifeInv, TypeOK, SettlementTypeOK
    <2>2. \A a \in Actors :
              \/ proc'[a] = proc[a]
              \/ proc'[a].made = Len(chain) + 1
        BY <1>32, <1>1 DEF MineCreate, Answered, Proc
    <2>3. QED
        BY <2>1, <2>2, <1>1 DEF MadeFits, MadeInv, None, Actors
<1>33. ASSUME Cancel PROVE \A c \in Ticks : MadeFits(c)
    BY <1>33, <1>1, IdleTyped
    DEF Cancel, Answered, Bounded, MadeFits, MadeInv, None, Actors, Ticks, Resolvers,
        Proc
<1>34. ASSUME Crash PROVE \A c \in Ticks : MadeFits(c)
    BY <1>34, <1>1, IdleTyped
    DEF Crash, Fault, Bounded, MadeFits, MadeInv, None, Actors, Ticks, Resolvers, Proc
<1>35. QED
    BY <1>2, <1>3, <1>4, <1>5, <1>6, <1>7, <1>8, <1>9, <1>10, <1>11, <1>12, <1>13,
       <1>14, <1>15, <1>16, <1>17, <1>18, <1>19, <1>20, <1>21, <1>22, <1>23, <1>24,
       <1>25, <1>26, <1>27, <1>28, <1>29, <1>30, <1>31, <1>32, <1>33, <1>34
       DEF Next, Works, TickStep, ResolveStep, FallbackStep, DrainStep, ChainStep,
           CallFails, Resolvers

\* MadeInv is kept.
LEMMA MadeStep == LifeInv /\ Next => MadeInv'
BY MadeFitsAll DEF MadeInv, MadeFits

Waiting(a) == proc[a].at \in {"receipt", "created", "drained"} /\ proc[a].outcome = "none"

\* The sender is the one process that waits.
LEMMA SenderWaits ==
    ASSUME LifeInv
    PROVE  /\ tx.by \in Actors \cup {"nobody"}
           /\ tx.by # "nobody" => Waiting(tx.by) /\ tx # NoTx
           /\ \A a \in Actors : Waiting(a) => tx.by = a
<1>1. tx \in Tx /\ TxInv /\ WaitInv
    BY DEF LifeInv, TypeOK, SettlementTypeOK
<1>2. tx.by # "nobody" => tx # NoTx
    BY DEF NoTx
<1>3. tx.by # "nobody" => Waiting(tx.by)
    BY <1>1, <1>2 DEF TxInv, WaitInv, Waiting, Tx
<1>4. QED
    BY <1>1, <1>2, <1>3 DEF Tx, WaitInv, Waiting

\* One process moves on, and waits for nothing.
Moves(a) ==
    /\ \A b \in Actors : b # a => proc'[b] = proc[b]
    /\ ~Waiting(a)'
    /\ \/ tx' = tx /\ ~Waiting(a)
       \/ tx' = Abandoned(a)
       \/ tx = NoTx /\ tx'.by = "nobody" /\ tx'.op # "none"

\* The three kinds of step keep WaitInv: a move,
LEMMA WaitIfMoves == ASSUME LifeInv, NEW a \in Actors, Moves(a) PROVE WaitInv'
<1>1. tx \in Tx /\ TxInv /\ WaitInv /\ ~Waiting(a)'
    BY DEF LifeInv, TypeOK, SettlementTypeOK, Moves
<1>2. CASE tx' = tx /\ ~Waiting(a)
    <2>1. tx'.by # a /\ tx'.by \in Actors \cup {"nobody"}
        BY <1>2, SenderWaits DEF Actors, Ticks
    <2>2. tx'.by # "nobody" => proc'[tx'.by] = proc[tx'.by]
        BY <2>1 DEF Moves
    <2>3. \A b \in Actors : Waiting(b)' => tx'.by = b
        BY <1>1, <1>2, SenderWaits DEF Moves, Waiting
    <2>4. QED
        BY <1>1, <1>2, <2>2, <2>3 DEF WaitInv, Waiting
<1>3. CASE tx.by = a /\ tx' = [tx EXCEPT !.by = "nobody"]
    <2>1. tx'.by = "nobody"
        BY <1>1, <1>3 DEF Tx
    <2>2. \A b \in Actors : b # a => ~Waiting(b)
        BY <1>3, SenderWaits
    <2>3. \A b \in Actors : ~Waiting(b)'
        BY <1>1, <2>2 DEF Moves, Waiting
    <2>4. QED
        BY <2>1, <2>3 DEF WaitInv, Waiting
<1>4. CASE tx.by # a /\ tx' = tx
    BY <1>2, <1>4, SenderWaits
<1>5. CASE tx = NoTx /\ tx'.by = "nobody" /\ tx'.op # "none"
    <2>1. \A b \in Actors : ~Waiting(b)
        <3>1. tx.by = "nobody" /\ "nobody" \notin Actors
            BY <1>5 DEF NoTx, Actors, Ticks
        <3>2. QED
            BY <3>1, SenderWaits
    <2>2. \A b \in Actors : ~Waiting(b)'
        BY <1>1, <2>1 DEF Moves, Waiting
    <2>3. QED
        BY <1>5, <2>2 DEF WaitInv, Waiting
<1>6. QED
    BY <1>2, <1>3, <1>4, <1>5 DEF Moves, Abandoned

\* One process sends, and waits.
Starts(a, place) ==
    /\ tx = NoTx
    /\ \A b \in Actors : b # a => proc'[b] = proc[b]
    /\ tx'.by = a
    /\ proc'[a].at = place /\ proc'[a].outcome = "none"
    /\ tx'.op = (IF place = "receipt" THEN "resolve" ELSE IF place = "created" THEN "create" ELSE "drain")
    /\ tx'.result = proc'[a].result
    /\ place \in {"receipt", "created", "drained"}

\* the beginning of a wait,
LEMMA WaitIfStarts == ASSUME LifeInv, NEW a \in Actors, NEW place, Starts(a, place) PROVE WaitInv'
<1>1. \A b \in Actors : ~Waiting(b)
    <2>1. tx.by = "nobody" /\ "nobody" \notin Actors
        BY DEF Starts, NoTx, Actors, Ticks
    <2>2. QED
        BY <2>1, SenderWaits
<1>2. \A b \in Actors : Waiting(b)' => b = a
    BY <1>1 DEF Starts, Waiting
<1>3. QED
    BY <1>2 DEF WaitInv, Waiting, Starts

\* The one that waits gets its answer.
Answers(how) ==
    /\ tx' = NoTx
    /\ \A b \in Actors : /\ b # tx.by => proc'[b] = proc[b]
                         /\ b = tx.by => proc'[b].outcome = how

\* and its end.
LEMMA WaitIfAnswered == ASSUME LifeInv, NEW how, how # "none", Answers(how) PROVE WaitInv'
<1>1. tx'.by = "nobody" /\ \A b \in Actors : /\ b # tx.by => proc'[b] = proc[b]
                                             /\ b = tx.by => proc'[b].outcome = how
    BY DEF NoTx, Answers
<1>2. \A b \in Actors : ~Waiting(b)'
    <2> TAKE b \in Actors
    <2>1. CASE b = tx.by
        BY <1>1, <2>1 DEF Waiting
    <2>2. CASE b # tx.by
        <3>1. ~Waiting(b)
            BY <2>2, SenderWaits
        <3>2. proc'[b] = proc[b]
            BY <1>1, <2>2
        <3>3. QED
            BY <3>1, <3>2 DEF Waiting
    <2>3. QED
        BY <2>1, <2>2
<1>3. QED
    BY <1>1, <1>2 DEF WaitInv, Waiting

\* What a step does to who waits.
Progress ==
    \/ UNCHANGED <<proc, tx>>
    \/ \E a \in Actors : Moves(a)
    \/ \E a \in Actors, place \in {"receipt", "created", "drained"} : Starts(a, place)
    \/ \E how \in {"success", "reverted", "replaced"} : Answers(how)
    \/ tx'.by = "nobody" /\ \A b \in Actors : proc'[b].at = "idle"

\* Every step is one of them.
LEMMA Progresses == LifeInv /\ Next => Progress
<1> SUFFICES ASSUME LifeInv, Next PROVE Progress
    OBVIOUS
<1>1. /\ proc \in [Actors -> Proc] /\ tx \in Tx /\ PlaceInv /\ Ticks \subseteq Actors /\ Resolvers \subseteq Actors
      /\ "drain" \in Actors /\ "fallback" \in Actors
    BY DEF LifeInv, TypeOK, SettlementTypeOK, Actors, Ticks, Resolvers
<1>2. ASSUME \/ Clock
             \/ (\E k \in Keys : DrainHeal(k) \/ LockExpires(k))
             \/ (\E m \in DOMAIN chain : HandleCreated(m) \/ HandleResolved(m) \/
                Redeem(m))
             \/ (\E m \in DOMAIN chain, r \in Results : ByHand(m, r))
      PROVE  Progress
    <2>1. UNCHANGED <<proc, tx>>
        BY <1>2
        DEF DrainHeal, Undrained, Clock, LockExpires, Fault, Bounded, HandleCreated,
            HandleResolved, Redeem, ByHand, events, history
    <2>2. QED
        BY <2>1, <1>1 DEF Progress
<1>3. ASSUME NEW a \in Ticks, TickStart(a) PROVE Progress
    <2>1. (\E k \in Keys : Begins(a, "price", k)) \/ Begins(a, "check", None)
        BY <1>3 DEF TickStart
    <2>2. proc[a].at = "idle" /\ tx' = tx
        BY <1>3 DEF TickStart
    <2>3. Moves(a)
        BY <2>1, <2>2, <1>1, BeginsTyped DEF Moves, Waiting
    <2>4. QED
        BY <2>3, <1>1 DEF Progress
<1>4. ASSUME NEW a \in Ticks, RangeStart(a) PROVE Progress
    <2>1. \A b \in Actors : b # a => proc'[b] = proc[b]
        BY <1>4, <1>1, BeginsTyped DEF RangeStart
    <2>2. proc'[a].at \in {"ensure", "send"} /\ proc[a].at = "idle" /\ tx' = tx
        <3>1. CASE Begins(a, "ensure", None)
            BY <1>4, <3>1, <1>1, BeginsTyped DEF RangeStart
        <3>2. ASSUME NEW k \in Keys, NEW r \in Results,
                     proc' = [proc EXCEPT ![a] = [Idle EXCEPT !.at = "send", !.row = k, !.result = r]]
              PROVE  proc'[a].at = "send"
            BY <3>2, <1>1, IdleTyped DEF Proc
        <3>3. QED
            BY <1>4, <3>1, <3>2 DEF RangeStart
    <2>3. Moves(a)
        BY <2>1, <2>2 DEF Moves, Waiting
    <2>4. QED
        BY <2>3, <1>1 DEF Progress
<1>5. ASSUME NEW a \in Ticks, Price(a) PROVE Progress
    <2>1. Moves(a)
        BY <1>5, <1>1, GoesTyped, IdleTyped DEF Moves, Waiting, None, Price, Proc
    <2>2. QED
        BY <2>1, <1>1 DEF Progress, Ticks
<1>6. ASSUME NEW a \in Ticks, Close(a) PROVE Progress
    <2>1. Moves(a)
        BY <1>6, <1>1, BeginsTyped DEF Moves, Waiting, None, Close
    <2>2. QED
        BY <2>1, <1>1 DEF Progress, Ticks
<1>7. ASSUME NEW a \in Ticks, Stuck(a) PROVE Progress
    <2>1. Moves(a)
        BY <1>7, <1>1, BeginsTyped, GoesTyped, IdleTyped DEF Moves, Waiting, None, Stuck
    <2>2. QED
        BY <2>1, <1>1 DEF Progress, Ticks
<1>8. ASSUME NEW a \in Ticks, Check(a) PROVE Progress
    <2>1. Moves(a)
        BY <1>8, <1>1, GoesTyped, IdleTyped DEF Moves, Waiting, None, Check, Proc
    <2>2. QED
        BY <2>1, <1>1 DEF Progress, Ticks
<1>9. ASSUME NEW a \in Ticks, CloseRange(a) PROVE Progress
    <2>1. Moves(a)
        BY <1>9, <1>1, BeginsTyped DEF Moves, Waiting, None, CloseRange
    <2>2. QED
        BY <2>1, <1>1 DEF Progress, Ticks
<1>10. ASSUME NEW a \in Ticks, Ensure(a) PROVE Progress
    <2>1. (Day + 1 \in Keys /\ Begins(a, "create", Day + 1)) \/ Goes(a, "idle")
        BY <1>10, Today DEF Ensure, LifeInv
    <2>2. proc[a].at = "ensure" /\ tx' = tx
        BY <1>10 DEF Ensure
    <2>3. Moves(a)
        BY <2>1, <2>2, <1>1, BeginsTyped, GoesTyped, IdleTyped DEF Moves, Waiting
    <2>4. QED
        BY <2>3, <1>1 DEF Progress
<1>11. ASSUME NEW a \in Ticks, CreateSend(a) PROVE Progress
    <2>1. /\ a \in Actors /\ Begins(a, "created", proc[a].row) /\ proc[a].row \in Keys \cup {None}
        BY <1>11, <1>1 DEF CreateSend, Proc
    <2>2. /\ proc'[a].at = "created" /\ proc'[a].outcome = "none" /\ proc'[a].result = None
          /\ \A b \in Actors : b # a => proc'[b] = proc[b]
        BY <2>1, <1>1, BeginsTyped
    <2>3. Starts(a, "created")
        BY <1>11, <2>2 DEF CreateSend, Starts, NoTx
    <2>4. QED
        BY <2>1, <2>3 DEF Progress
<1>12. ASSUME NEW a \in Ticks, CreateFails(a) PROVE Progress
    <2>1. Moves(a)
        BY <1>12, <1>1, BeginsTyped, GoesTyped, IdleTyped DEF Moves, Waiting, None, CreateFails
    <2>2. QED
        BY <2>1, <1>1 DEF Progress, Ticks
<1>13. ASSUME NEW a \in Ticks, NotCreated(a) PROVE Progress
    <2>1. Moves(a)
        BY <1>13, <1>1, BeginsTyped, GoesTyped, IdleTyped DEF Moves, Waiting, None, NotCreated
    <2>2. QED
        BY <2>1, <1>1 DEF Progress, Ticks
<1>14. ASSUME NEW a \in Ticks, Created(a) PROVE Progress
    <2>1. Moves(a)
        BY <1>14, <1>1, BeginsTyped, GoesTyped, IdleTyped DEF Moves, Waiting, None, Created
    <2>2. QED
        BY <2>1, <1>1 DEF Progress, Ticks
<1>15. ASSUME NEW a \in Ticks, CreatedRange(a) PROVE Progress
    <2>1. Moves(a)
        BY <1>15, <1>1, BeginsTyped, GoesTyped, IdleTyped DEF Moves, Waiting, None, CreatedRange
    <2>2. QED
        BY <2>1, <1>1 DEF Progress, Ticks
<1>16. ASSUME NEW a \in Ticks, CreateLost(a) PROVE Progress
    <2>1. Moves(a)
        BY <1>16, <1>1, BeginsTyped, GoesTyped, IdleTyped DEF Moves, Waiting, None, CreateLost
    <2>2. QED
        BY <2>1, <1>1 DEF Progress, Ticks
<1>17. ASSUME ForceCreate PROVE Progress
    <2>1. Moves("admin")
        BY <1>17, <1>1, BeginsTyped DEF ForceCreate, Moves, Waiting, Ticks
    <2>2. QED
        BY <2>1, <1>1 DEF Progress, Ticks
<1>18. ASSUME NEW a \in Resolvers, Acquire(a) PROVE Progress
    <2>1. Moves(a)
        BY <1>18, <1>1, GoesTyped, IdleTyped DEF Moves, Waiting, None, Acquire, Proc
    <2>2. QED
        BY <2>1, <1>1 DEF Progress, Ticks
<1>19. ASSUME NEW a \in Resolvers, Send(a) PROVE Progress
    <2>1. Starts(a, "receipt")
        BY <1>19, <1>1 DEF Send, Broadcast, Starts, Proc
    <2>2. QED
        BY <2>1, <1>1 DEF Progress
<1>20. ASSUME NEW a \in Resolvers, SendRejected(a) PROVE Progress
    <2>1. Moves(a)
        BY <1>20, <1>1, IdleTyped DEF Moves, Waiting, None, SendRejected, Fails, Proc
    <2>2. QED
        BY <2>1, <1>1 DEF Progress, Ticks
<1>21. ASSUME NEW a \in Resolvers, SendFails(a) PROVE Progress
    <2>1. /\ \A b \in Actors : b # a => proc'[b] = proc[b]
          /\ ~Waiting(a)' /\ ~Waiting(a)
        BY <1>21, <1>1 DEF SendFails, Fails, Waiting, Proc
    <2>2. tx' = tx \/ (tx = NoTx /\ tx'.by = "nobody" /\ tx'.op = "resolve")
        BY <1>21 DEF SendFails, NoTx
    <2>3. QED
        BY <2>1, <2>2, <1>1 DEF Progress, Moves
<1>22. ASSUME NEW a \in Resolvers, Receipt(a) PROVE Progress
    <2>1. Moves(a)
        BY <1>22, <1>1, GoesTyped, IdleTyped DEF Moves, Waiting, None, Receipt, Proc
    <2>2. QED
        BY <2>1, <1>1 DEF Progress, Ticks
<1>23. ASSUME NEW a \in Resolvers, ReceiptLost(a) PROVE Progress
    <2>1. Moves(a)
        BY <1>23, <1>1, IdleTyped DEF Moves, Waiting, None, ReceiptLost, Fails, Proc
    <2>2. QED
        BY <2>1, <1>1 DEF Progress, Ticks
<1>24. ASSUME NEW a \in Resolvers, Release(a) PROVE Progress
    <2>1. Moves(a)
        BY <1>24, <1>1, GoesTyped, IdleTyped DEF Moves, Waiting, None, Release, Proc
    <2>2. QED
        BY <2>1, <1>1 DEF Progress, Ticks
<1>25. ASSUME NEW k \in Keys, FallbackStart(k) PROVE Progress
    <2>1. /\ \A b \in Actors : b # "fallback" => proc'[b] = proc[b]
          /\ proc'["fallback"].at = "acquire" /\ proc["fallback"].at = "idle" /\ tx' = tx
        BY <1>25, <1>1, IdleTyped DEF FallbackStart, Proc
    <2>2. Moves("fallback")
        BY <2>1 DEF Moves, Waiting
    <2>3. QED
        BY <2>2, <1>1 DEF Progress
<1>26. ASSUME NEW k \in Keys, DrainStart(k) PROVE Progress
    <2>1. /\ \A b \in Actors : b # "drain" => proc'[b] = proc[b]
          /\ proc'["drain"].at = "drain" /\ proc["drain"].at = "idle" /\ tx' = tx
        BY <1>26, <1>1, IdleTyped DEF DrainStart, Proc
    <2>2. Moves("drain")
        BY <2>1 DEF Moves, Waiting
    <2>3. QED
        BY <2>2, <1>1 DEF Progress
<1>27. ASSUME DrainSend PROVE Progress
    <2>1. CASE Goes("drain", "idle") /\ UNCHANGED tx
        <3>1. Moves("drain")
            BY <1>27, <2>1, <1>1, GoesTyped, IdleTyped DEF DrainSend, Moves, Waiting
        <3>2. QED
            BY <3>1, <1>1 DEF Progress
    <2>2. CASE Broadcast("drain", "drain") /\ Goes("drain", "drained")
        <3>1. proc["drain"].outcome = "none"
            BY <1>27 DEF DrainSend, LifeInv, FreshInv
        <3>2. Starts("drain", "drained")
            BY <1>27, <2>2, <3>1, <1>1, GoesTyped DEF DrainSend, Broadcast, Starts
        <3>3. QED
            BY <3>2, <1>1 DEF Progress
    <2>3. QED
        BY <1>27, <2>1, <2>2 DEF DrainSend
<1>28. ASSUME DrainReceipt PROVE Progress
    <2>1. Moves("drain")
        BY <1>28, <1>1, GoesTyped, IdleTyped DEF DrainReceipt, Moves, Waiting
    <2>2. QED
        BY <2>1, <1>1 DEF Progress
<1>29. ASSUME DrainLost PROVE Progress
    <2>1. Moves("drain")
        BY <1>29, <1>1, GoesTyped, IdleTyped DEF DrainLost, Moves, Waiting
    <2>2. QED
        BY <2>1, <1>1 DEF Progress
<1>30. ASSUME MineResolve PROVE Progress
    <2>1. PICK how \in {"success", "reverted", "replaced"} :
              \A b \in Actors : /\ b # tx.by => proc'[b] = proc[b]
                                /\ b = tx.by => proc'[b].outcome = how
        BY <1>30, <1>1 DEF MineResolve, Answered, Proc
    <2>2. tx' = NoTx
        BY <1>30 DEF MineResolve
    <2>3. QED
        BY <2>1, <2>2 DEF Progress, Answers
<1>31. ASSUME MineDrain PROVE Progress
    <2>1. PICK how \in {"success", "reverted", "replaced"} :
              \A b \in Actors : /\ b # tx.by => proc'[b] = proc[b]
                                /\ b = tx.by => proc'[b].outcome = how
        BY <1>31, <1>1 DEF MineDrain, Answered, Proc
    <2>2. tx' = NoTx
        BY <1>31 DEF MineDrain
    <2>3. QED
        BY <2>1, <2>2 DEF Progress, Answers
<1>32. ASSUME MineCreate PROVE Progress
    <2>1. PICK how \in {"success", "reverted", "replaced"} :
              \A b \in Actors : /\ b # tx.by => proc'[b] = proc[b]
                                /\ b = tx.by => proc'[b].outcome = how
        BY <1>32, <1>1 DEF MineCreate, Answered, Proc
    <2>2. tx' = NoTx
        BY <1>32 DEF MineCreate
    <2>3. QED
        BY <2>1, <2>2 DEF Progress, Answers
<1>33. ASSUME Cancel PROVE Progress
    <2>1. PICK how \in {"success", "reverted", "replaced"} :
              \A b \in Actors : /\ b # tx.by => proc'[b] = proc[b]
                                /\ b = tx.by => proc'[b].outcome = how
        BY <1>33, <1>1 DEF Cancel, Answered, Proc
    <2>2. tx' = NoTx
        BY <1>33 DEF Cancel
    <2>3. QED
        BY <2>1, <2>2 DEF Progress, Answers
<1>34. ASSUME Crash PROVE Progress
    <2>1. tx'.by = "nobody" /\ \A b \in Actors : proc'[b].at = "idle"
        BY <1>34, <1>1, IdleTyped DEF Crash, Tx
    <2>2. QED
        BY <2>1 DEF Progress
<1>35. QED
    BY <1>2, <1>3, <1>4, <1>5, <1>6, <1>7, <1>8, <1>9, <1>10, <1>11, <1>12, <1>13,
       <1>14, <1>15, <1>16, <1>17, <1>18, <1>19, <1>20, <1>21, <1>22, <1>23, <1>24,
       <1>25, <1>26, <1>27, <1>28, <1>29, <1>30, <1>31, <1>32, <1>33, <1>34
       DEF Next, Works, TickStep, ResolveStep, FallbackStep, DrainStep, ChainStep,
           CallFails, Resolvers

\* WaitInv is kept.
LEMMA WaitStep == LifeInv /\ Next => WaitInv'
<1> SUFFICES ASSUME LifeInv, Next PROVE WaitInv'
    OBVIOUS
<1>1. CASE UNCHANGED <<proc, tx>>
    BY <1>1 DEF LifeInv, WaitInv
<1>2. CASE tx'.by = "nobody" /\ \A b \in Actors : proc'[b].at = "idle"
    BY <1>2 DEF WaitInv
<1>3. QED
    BY <1>1, <1>2, Progresses, WaitIfMoves, WaitIfStarts, WaitIfAnswered DEF Progress

\* Who still waits has not moved.
LEMMA WaitersStay ==
    ASSUME LifeInv, Next, NEW a \in Actors, Waiting(a), Waiting(a)'
    PROVE  proc'[a] = proc[a]
<1>1. tx.by = a /\ tx # NoTx
    BY SenderWaits DEF Actors, Ticks
<1>2. \A how \in {"success", "reverted", "replaced"} : ~Answers(how)
    BY <1>1 DEF Answers, Waiting
<1>3. \A b \in Actors : Moves(b) => proc'[a] = proc[a]
    BY DEF Moves
<1>4. \A b \in Actors, place \in {"receipt", "created", "drained"} : ~Starts(b, place)
    BY <1>1 DEF Starts
<1>5. QED
    BY <1>2, <1>3, <1>4, Progresses DEF Progress, Waiting

\* FreshInv is kept.
LEMMA FreshStep == LifeInv /\ Next => FreshInv'
<1> SUFFICES ASSUME LifeInv, Next PROVE FreshInv'
    OBVIOUS
<1>1. /\ proc \in [Actors -> Proc] /\ tx \in Tx /\ PlaceInv /\ Ticks \subseteq Actors /\ Resolvers \subseteq Actors
      /\ "drain" \in Actors /\ FreshInv /\ "fallback" \in Actors
    BY DEF LifeInv, TypeOK, SettlementTypeOK, Actors, Ticks, Resolvers
<1>2. ASSUME \/ Clock
             \/ (\E k \in Keys : DrainHeal(k) \/ LockExpires(k))
             \/ (\E m \in DOMAIN chain : HandleCreated(m) \/ HandleResolved(m) \/
                Redeem(m))
             \/ (\E m \in DOMAIN chain, r \in Results : ByHand(m, r))
      PROVE  FreshInv'
    <2>1. UNCHANGED proc
        BY <1>2
        DEF DrainHeal, Undrained, Clock, LockExpires, Fault, Bounded, HandleCreated,
            HandleResolved, Redeem, ByHand, events, history
    <2>2. QED
        BY <2>1, <1>1 DEF FreshInv
<1>3. ASSUME NEW a \in Ticks, TickStart(a) PROVE FreshInv'
    <2>1. (\E k \in Keys : Begins(a, "price", k)) \/ Begins(a, "check", None)
        BY <1>3 DEF TickStart
    <2>2. proc'["drain"] = proc["drain"]
        BY <2>1, <1>1, BeginsTyped DEF Ticks
    <2>3. QED
        BY <2>2, <1>1 DEF FreshInv
<1>4. ASSUME NEW a \in Ticks, RangeStart(a) PROVE FreshInv'
    <2>1. proc'["drain"] = proc["drain"]
        BY <1>4, <1>1, IdleTyped DEF RangeStart, Ranged, Begins, Active, Actors, Ticks, Resolvers, Proc, None
    <2>2. QED
        BY <2>1, <1>1 DEF FreshInv
<1>5. ASSUME NEW a \in Ticks, Price(a) PROVE FreshInv'
    <2>1. proc'["drain"] = proc["drain"]
        BY <1>5, <1>1, IdleTyped DEF Price, Goes, Actors, Ticks, Resolvers, Proc, None
    <2>2. QED
        BY <2>1, <1>1 DEF FreshInv
<1>6. ASSUME NEW a \in Ticks, Close(a) PROVE FreshInv'
    <2>1. proc'["drain"] = proc["drain"]
        BY <1>6, <1>1, IdleTyped DEF Close, Closed, Begins, Daily, Actors, Ticks, Resolvers, Proc, None
    <2>2. QED
        BY <2>1, <1>1 DEF FreshInv
<1>7. ASSUME NEW a \in Ticks, Stuck(a) PROVE FreshInv'
    <2>1. proc'["drain"] = proc["drain"]
        BY <1>7, <1>1, IdleTyped DEF Stuck, Begins, Goes, Actors, Ticks, Resolvers, Proc, None
    <2>2. QED
        BY <2>1, <1>1 DEF FreshInv
<1>8. ASSUME NEW a \in Ticks, Check(a) PROVE FreshInv'
    <2>1. proc'["drain"] = proc["drain"]
        BY <1>8, <1>1, IdleTyped DEF Check, Goes, Actors, Ticks, Resolvers, Proc, None
    <2>2. QED
        BY <2>1, <1>1 DEF FreshInv
<1>9. ASSUME NEW a \in Ticks, CloseRange(a) PROVE FreshInv'
    <2>1. proc'["drain"] = proc["drain"]
        BY <1>9, <1>1, IdleTyped DEF CloseRange, Closed, Begins, Ranged, Actors, Ticks, Resolvers, Proc, None
    <2>2. QED
        BY <2>1, <1>1 DEF FreshInv
<1>10. ASSUME NEW a \in Ticks, Ensure(a) PROVE FreshInv'
    <2>1. proc'["drain"] = proc["drain"]
        BY <1>10, <1>1, IdleTyped DEF Ensure, Begins, Goes, Retryable, Actors, Ticks, Resolvers, Proc, None
    <2>2. QED
        BY <2>1, <1>1 DEF FreshInv
<1>11. ASSUME NEW a \in Ticks, CreateSend(a) PROVE FreshInv'
    <2>1. proc'["drain"] = proc["drain"]
        BY <1>11, <1>1, IdleTyped DEF CreateSend, Begins, Actors, Ticks, Resolvers, Proc, None
    <2>2. QED
        BY <2>1, <1>1 DEF FreshInv
<1>12. ASSUME NEW a \in Ticks, CreateFails(a) PROVE FreshInv'
    <2>1. proc'["drain"] = proc["drain"]
        BY <1>12, <1>1, IdleTyped DEF CreateFails, GivenUp, Ranged, Goes, Actors, Ticks, Resolvers, Proc, None
    <2>2. QED
        BY <2>1, <1>1 DEF FreshInv
<1>13. ASSUME NEW a \in Ticks, NotCreated(a) PROVE FreshInv'
    <2>1. proc'["drain"] = proc["drain"]
        BY <1>13, <1>1, IdleTyped DEF NotCreated, GivenUp, Ranged, Goes, Actors, Ticks, Resolvers, Proc, None
    <2>2. QED
        BY <2>1, <1>1 DEF FreshInv
<1>14. ASSUME NEW a \in Ticks, Created(a) PROVE FreshInv'
    <2>1. proc'["drain"] = proc["drain"]
        BY <1>14, <1>1, IdleTyped DEF Created, Inserted, Daily, Goes, Actors, Ticks, Resolvers, Proc, None
    <2>2. QED
        BY <2>1, <1>1 DEF FreshInv
<1>15. ASSUME NEW a \in Ticks, CreatedRange(a) PROVE FreshInv'
    <2>1. proc'["drain"] = proc["drain"]
        BY <1>15, <1>1, IdleTyped DEF CreatedRange, Ranged, Goes, Actors, Ticks, Resolvers, Proc, None
    <2>2. QED
        BY <2>1, <1>1 DEF FreshInv
<1>16. ASSUME NEW a \in Ticks, CreateLost(a) PROVE FreshInv'
    <2>1. proc'["drain"] = proc["drain"]
        BY <1>16, <1>1, IdleTyped DEF CreateLost, GivenUp, Ranged, Goes, Abandoned, Fault, Bounded, Actors, Ticks, Resolvers, Proc, None
    <2>2. QED
        BY <2>1, <1>1 DEF FreshInv
<1>17. ASSUME ForceCreate PROVE FreshInv'
    <2>1. proc'["drain"] = proc["drain"]
        BY <1>17, <1>1, IdleTyped DEF ForceCreate, Called, Daily, Begins, Actors, Ticks, Resolvers, Proc, None
    <2>2. QED
        BY <2>1, <1>1 DEF FreshInv
<1>18. ASSUME NEW a \in Resolvers, Acquire(a) PROVE FreshInv'
    <2>1. proc'["drain"] = proc["drain"]
        BY <1>18, <1>1, IdleTyped DEF Acquire, Goes, Actors, Ticks, Resolvers, Proc, None
    <2>2. QED
        BY <2>1, <1>1 DEF FreshInv
<1>19. ASSUME NEW a \in Resolvers, Send(a) PROVE FreshInv'
    <2>1. proc'["drain"] = proc["drain"]
        BY <1>19, <1>1, IdleTyped DEF Send, Broadcast, Target, Actors, Ticks, Resolvers, Proc, None
    <2>2. QED
        BY <2>1, <1>1 DEF FreshInv
<1>20. ASSUME NEW a \in Resolvers, SendRejected(a) PROVE FreshInv'
    <2>1. proc'["drain"] = proc["drain"]
        BY <1>20, <1>1, IdleTyped DEF SendRejected, Fails, Unlocked, Actors, Ticks, Resolvers, Proc, None
    <2>2. QED
        BY <2>1, <1>1 DEF FreshInv
<1>21. ASSUME NEW a \in Resolvers, SendFails(a) PROVE FreshInv'
    <2>1. proc'["drain"] = proc["drain"]
        BY <1>21, <1>1, IdleTyped DEF SendFails, Fails, Unlocked, Fault, Bounded, Target, Actors, Ticks, Resolvers, Proc, None
    <2>2. QED
        BY <2>1, <1>1 DEF FreshInv
<1>22. ASSUME NEW a \in Resolvers, Receipt(a) PROVE FreshInv'
    <2>1. proc'["drain"] = proc["drain"]
        BY <1>22, <1>1, IdleTyped DEF Receipt, Goes, Actors, Ticks, Resolvers, Proc, None
    <2>2. QED
        BY <2>1, <1>1 DEF FreshInv
<1>23. ASSUME NEW a \in Resolvers, ReceiptLost(a) PROVE FreshInv'
    <2>1. proc'["drain"] = proc["drain"]
        BY <1>23, <1>1, IdleTyped DEF ReceiptLost, Fails, Unlocked, Fault, Bounded, Abandoned, Actors, Ticks, Resolvers, Proc, None
    <2>2. QED
        BY <2>1, <1>1 DEF FreshInv
<1>24. ASSUME NEW a \in Resolvers, Release(a) PROVE FreshInv'
    <2>1. proc'["drain"] = proc["drain"]
        BY <1>24, <1>1, IdleTyped DEF Release, Goes, Actors, Ticks, Resolvers, Proc, None
    <2>2. QED
        BY <2>1, <1>1 DEF FreshInv
<1>25. ASSUME NEW k \in Keys, FallbackStart(k) PROVE FreshInv'
    <2>1. proc'["drain"] = proc["drain"]
        BY <1>25, <1>1, IdleTyped DEF FallbackStart, Unsettled, Actors, Ticks, Resolvers, Proc, None
    <2>2. QED
        BY <2>1, <1>1 DEF FreshInv
<1>26. ASSUME NEW k \in Keys, DrainStart(k) PROVE FreshInv'
    <2>1. proc'["drain"].outcome = "none"
        BY <1>26, <1>1, IdleTyped DEF DrainStart, Proc
    <2>2. QED
        BY <2>1 DEF FreshInv
<1>27. ASSUME DrainSend PROVE FreshInv'
    <2>1. proc'["drain"].at \in {"idle", "drained"}
        BY <1>27, <1>1, GoesTyped, IdleTyped DEF DrainSend
    <2>2. QED
        BY <2>1 DEF FreshInv
<1>28. ASSUME DrainReceipt PROVE FreshInv'
    <2>1. proc'["drain"].at = "idle"
        BY <1>28, <1>1, GoesTyped, IdleTyped DEF DrainReceipt, DrainLost
    <2>2. QED
        BY <2>1 DEF FreshInv
<1>29. ASSUME DrainLost PROVE FreshInv'
    <2>1. proc'["drain"].at = "idle"
        BY <1>29, <1>1, GoesTyped, IdleTyped DEF DrainReceipt, DrainLost
    <2>2. QED
        BY <2>1 DEF FreshInv
<1>30. ASSUME MineResolve PROVE FreshInv'
    <2>1. proc["drain"].at # "drain" \/ tx.by # "drain"
        BY SenderWaits DEF Waiting
    <2>2. proc'["drain"].at = proc["drain"].at /\ (tx.by # "drain" => proc'["drain"] = proc["drain"])
        BY <1>30, <1>1 DEF MineResolve, Answered, Proc
    <2>3. QED
        BY <2>1, <2>2, <1>1 DEF FreshInv
<1>31. ASSUME MineDrain PROVE FreshInv'
    <2>1. proc["drain"].at # "drain" \/ tx.by # "drain"
        BY SenderWaits DEF Waiting
    <2>2. proc'["drain"].at = proc["drain"].at /\ (tx.by # "drain" => proc'["drain"] = proc["drain"])
        BY <1>31, <1>1 DEF MineDrain, Answered, Proc
    <2>3. QED
        BY <2>1, <2>2, <1>1 DEF FreshInv
<1>32. ASSUME MineCreate PROVE FreshInv'
    <2>1. proc["drain"].at # "drain" \/ tx.by # "drain"
        BY SenderWaits DEF Waiting
    <2>2. proc'["drain"].at = proc["drain"].at /\ (tx.by # "drain" => proc'["drain"] = proc["drain"])
        BY <1>32, <1>1 DEF MineCreate, Answered, Proc
    <2>3. QED
        BY <2>1, <2>2, <1>1 DEF FreshInv
<1>33. ASSUME Cancel PROVE FreshInv'
    <2>1. proc["drain"].at # "drain" \/ tx.by # "drain"
        BY SenderWaits DEF Waiting
    <2>2. proc'["drain"].at = proc["drain"].at /\ (tx.by # "drain" => proc'["drain"] = proc["drain"])
        BY <1>33, <1>1 DEF Cancel, Answered, Proc
    <2>3. QED
        BY <2>1, <2>2, <1>1 DEF FreshInv
<1>34. ASSUME Crash PROVE FreshInv'
    <2>1. proc'["drain"].at = "idle"
        BY <1>34, <1>1, IdleTyped DEF Crash
    <2>2. QED
        BY <2>1 DEF FreshInv
<1>35. QED
    BY <1>2, <1>3, <1>4, <1>5, <1>6, <1>7, <1>8, <1>9, <1>10, <1>11, <1>12, <1>13,
       <1>14, <1>15, <1>16, <1>17, <1>18, <1>19, <1>20, <1>21, <1>22, <1>23, <1>24,
       <1>25, <1>26, <1>27, <1>28, <1>29, <1>30, <1>31, <1>32, <1>33, <1>34
       DEF Next, Works, TickStep, ResolveStep, FallbackStep, DrainStep, ChainStep,
           CallFails, Resolvers

\* TargetInv is kept: nobody changes the market of a row at work.
LEMMA TargetStep == LifeInv /\ Next => TargetInv'
<1> SUFFICES ASSUME LifeInv, Next, tx'.by # "nobody", tx'.op \in {"resolve", "drain"}
             PROVE  tx'.market = Target(tx.by)'
    BY DEF TargetInv, Target
<1>1. tx \in Tx /\ proc \in [Actors -> Proc] /\ rows \in [Keys -> Row]
    BY DEF LifeInv, TypeOK, SettlementTypeOK
<1>2. ASSUME NEW a \in Actors, tx'.by = a, tx'.market = Target(a), proc'[a].row = proc[a].row,
             proc[a].at \in {"send", "receipt", "drain", "drained"}
      PROVE  tx'.market = Target(tx.by)'
    <2>1. proc[a].row \in Keys /\ rows[proc[a].row].market = Target(a) /\ Target(a) # None
        BY <1>2, TargetOnChain
    <2>2. rows'[proc[a].row].market = Target(a)
        BY <2>1, MarketKept
    <2>3. QED
        BY <1>2, <2>2 DEF Target
<1>3. CASE tx'.by = tx.by /\ tx'.op = tx.op /\ tx'.market = tx.market
    <2>1. PICK a \in Actors : a = tx.by /\ Waiting(a)
        BY <1>3, SenderWaits
    <2>2. proc[a].at \in {"receipt", "drained"}
        BY <1>3, <2>1 DEF LifeInv, WaitInv
    <2>3. tx.market = Target(a)
        BY <1>3, <2>1 DEF LifeInv, TargetInv
    <2>4. Waiting(a)' /\ proc'[a].at \in {"receipt", "drained"}
        BY <1>1, <1>3, <2>1, WaitStep, TxStep, TypeStep DEF WaitInv, TxInv, Waiting, NoTx
    <2>5. proc'[a].row = proc[a].row
        BY <2>1, <2>2, <2>4, WaitersStay
    <2>6. QED
        BY <1>2, <1>3, <2>1, <2>2, <2>3, <2>5
<1>4. ASSUME NEW a \in Resolvers, Send(a) PROVE tx'.market = Target(tx.by)'
    <2>1. /\ a \in Actors /\ tx'.by = a /\ tx'.market = Target(a) /\ proc[a].at = "send"
          /\ proc'[a].row = proc[a].row
        BY <1>1, <1>4 DEF Send, Broadcast, Resolvers, Actors, Proc
    <2>2. QED
        BY <2>1, <1>2
<1>5. ASSUME DrainSend, tx' # tx PROVE tx'.market = Target(tx.by)'
    <2>1. /\ "drain" \in Actors /\ tx'.by = "drain" /\ tx'.market = Target("drain")
          /\ proc["drain"].at = "drain" /\ proc'["drain"].row = proc["drain"].row
        BY <1>1, <1>5, GoesTyped DEF DrainSend, Broadcast, Actors
    <2>2. QED
        BY <2>1, <1>2
<1>6. ASSUME NEW a \in Actors, tx' = Abandoned(a) PROVE tx'.market = Target(tx.by)'
    BY <1>1, <1>3, <1>6 DEF Abandoned, Tx
<1>7. ASSUME NEW a \in Resolvers, SendFails(a), tx' # tx PROVE FALSE
    BY <1>7 DEF SendFails, NoTx
<1>8. ASSUME NEW a \in Ticks, CreateSend(a) PROVE FALSE
    BY <1>8 DEF CreateSend, NoTx
<1>9. CASE Crash \/ MineResolve \/ MineDrain \/ MineCreate \/ Cancel
    BY <1>1, <1>9 DEF Crash, MineResolve, MineDrain, MineCreate, Cancel, NoTx, Tx
<1>10. CASE DrainLost \/ (\E a \in Resolvers : ReceiptLost(a)) \/ \E a \in Ticks : CreateLost(a)
    BY <1>6, <1>10 DEF DrainLost, ReceiptLost, CreateLost, Actors, Resolvers
<1>11. QED
    BY <1>3, <1>4, <1>5, <1>7, <1>8, <1>9, <1>10, Senders

---------------------------------------------------------------------------
(* The invariant *)

\* LifeInv holds at the beginning.
LEMMA LifeInit == Init => LifeInv
<1> SUFFICES ASSUME Init PROVE LifeInv
    OBVIOUS
<1>1. /\ family \in Families /\ now = 0 /\ chain = <<>> /\ tx = NoTx /\ locks = {}
      /\ rows = [k \in Keys |-> NoRow] /\ proc = [a \in Actors |-> Idle]
      /\ createdEvents = {} /\ resolvedEvents = {}
      /\ adminCalls = 0 /\ byHand = {} /\ faults = 0 /\ cancels = 0
    BY DEF Init, SettlementInit
<1>2. /\ NoRow \in Row /\ NoRow.status = "absent" /\ NoRow.market = None /\ NoRow.result = None
      /\ ~NoRow.resolved
    BY DEF NoRow, Row, None
<1>3. TypeOK
    <2>1. proc \in [Actors -> Proc] /\ rows \in [Keys -> Row]
        BY <1>1, <1>2, IdleTyped
    <2>2. \A k \in Keys : rows[k].market \in 0..Len(chain)
        BY <1>1, <1>2 DEF None
    <2>3. chain \in Seq(Market) /\ Len(chain) = 0 /\ MaxMarkets[family] \in Nat
          /\ MaxTrouble[family] \in Nat /\ MaxAdminCalls \in Nat
        BY <1>1, BoundAssumption
    <2>4. tx \in Tx
        BY <1>1 DEF NoTx, Tx, None
    <2>5. Cardinality(byHand) = 0
        BY <1>1, FS_EmptySet
    <2>6. QED
        BY <1>1, <2>1, <2>2, <2>3, <2>4, <2>5 DEF TypeOK, SettlementTypeOK
<1>4. \A a \in Actors : proc[a].at = "idle" /\ proc[a].made = None
    BY <1>1, IdleTyped
<1>5. PlaceInv
    BY <1>4 DEF PlaceInv, HasRow, Actors, Ticks, TickWork, Resolving, RangeTick, DailyTick
<1>6. \A k \in Keys : rows[k] = NoRow
    BY <1>1
<1>7. DailyRows
    BY <1>1, <1>2, <1>4, <1>6 DEF DailyRows, DailyRow, HasRow, TickWork, Resolving, Actors
<1>8. RangeRows /\ RangeWork
    BY <1>1, <1>2, <1>4, <1>6 DEF RangeRows, RangeWork, Actors, Ticks
<1>9. MadeInv
    BY <1>1, <1>4 DEF MadeInv, Actors, None
<1>10. TxInv /\ WaitInv /\ FreshInv /\ TargetInv
    BY <1>1, <1>4 DEF TxInv, WaitInv, FreshInv, TargetInv, NoTx, Actors
<1>11. QED
    BY <1>3, <1>5, <1>7, <1>8, <1>9, <1>10 DEF LifeInv

\* LifeInv is inductive.
LEMMA LifeStep == LifeInv /\ [Next]_vars => LifeInv'
<1>1. LifeInv /\ Next => LifeInv'
    BY TypeStep, PlaceStep, DailyStep, RangeRowStep, RangeWorkStep, MadeStep, TxStep, WaitStep,
       FreshStep, TargetStep DEF LifeInv
<1>2. LifeInv /\ UNCHANGED vars => LifeInv'
    <2> SUFFICES ASSUME LifeInv, UNCHANGED vars PROVE LifeInv'
        OBVIOUS
    <2>1. /\ family' = family /\ now' = now /\ chain' = chain /\ tx' = tx /\ rows' = rows
          /\ locks' = locks /\ proc' = proc /\ createdEvents' = createdEvents
          /\ resolvedEvents' = resolvedEvents /\ adminCalls' = adminCalls /\ byHand' = byHand
          /\ faults' = faults /\ cancels' = cancels
        BY DEF vars, events, history
    <2>2. TypeOK'
        BY <2>1 DEF LifeInv, TypeOK, SettlementTypeOK
    <2>3. PlaceInv'
        BY <2>1 DEF LifeInv, PlaceInv, HasRow
    <2>4. DailyRows'
        BY <2>1 DEF LifeInv, DailyRows, DailyRow, HasRow
    <2>5. RangeRows' /\ RangeWork'
        BY <2>1 DEF LifeInv, RangeRows, RangeWork
    <2>6. MadeInv' /\ TxInv' /\ WaitInv' /\ FreshInv'
        BY <2>1 DEF LifeInv, MadeInv, TxInv, WaitInv, FreshInv
    <2>7. TargetInv'
        BY <2>1 DEF LifeInv, TargetInv, Target
    <2>8. QED
        BY <2>2, <2>3, <2>4, <2>5, <2>6, <2>7 DEF LifeInv
<1>3. QED
    BY <1>1, <1>2

\* Every row, process and transaction is about what it should be about.
THEOREM LifecycleInvariant == Spec => []LifeInv
BY LifeInit, LifeStep, PTL DEF Spec

---------------------------------------------------------------------------
(* What is drained is recorded *)

\* How the result of a market comes about, and the amount drawn from it.
LEMMA ChainFields ==
    ASSUME LifeInv, Next, NEW m \in DOMAIN chain
    PROVE  /\ \/ chain'[m].result = chain[m].result
              \/ MineResolve /\ tx.market = m /\ ~Settled(m) /\ chain'[m].result = tx.result
              \/ \E r \in Results : ByHand(m, r)
           /\ \/ chain'[m].withdrawn = chain[m].withdrawn
              \/ MineDrain /\ tx.market = m /\ ~chain[m].drained
           /\ chain'[m].drained = chain[m].drained \/ MineDrain
<1>1. chain \in Seq(Market) /\ TypeOK /\ DOMAIN chain = 1..Len(chain) /\ chain[m] \in Market
    BY DEF LifeInv, TypeOK, SettlementTypeOK
<1>2. CASE chain' = chain
    BY <1>2
<1>3. CASE MineResolve /\ chain' # chain
    <2>1. /\ tx.market \in DOMAIN chain /\ ~Settled(tx.market)
          /\ chain' = [chain EXCEPT ![tx.market].result = tx.result]
        BY <1>3 DEF MineResolve, LifeInv, TxInv
    <2>2. CASE m = tx.market
        BY <1>1, <1>3, <2>1, <2>2 DEF Market
    <2>3. CASE m # tx.market
        BY <1>1, <2>1, <2>3
    <2>4. QED
        BY <2>2, <2>3
<1>4. CASE MineDrain /\ chain' # chain
    <2>1. /\ tx.market \in DOMAIN chain /\ ~chain[tx.market].drained
          /\ chain' = [chain EXCEPT ![tx.market].drained = TRUE,
                                    ![tx.market].withdrawn = Withdrawable(tx.market)]
        BY <1>4 DEF MineDrain, LifeInv, TxInv
    <2>2. CASE m = tx.market
        BY <1>1, <1>4, <2>1, <2>2 DEF Market
    <2>3. CASE m # tx.market
        BY <1>1, <2>1, <2>3
    <2>4. QED
        BY <2>2, <2>3
<1>5. CASE MineCreate
    <2>1. chain'[m] = chain[m]
        BY <1>1, <1>5 DEF MineCreate
    <2>2. QED
        BY <2>1
<1>6. ASSUME NEW n \in DOMAIN chain, Redeem(n)
      PROVE  /\ chain'[m].result = chain[m].result
             /\ chain'[m].withdrawn = chain[m].withdrawn
             /\ chain'[m].drained = chain[m].drained
    BY <1>1, <1>6 DEF Redeem, Market
<1>7. ASSUME NEW n \in DOMAIN chain, NEW r \in Results, ByHand(n, r)
      PROVE  /\ chain'[m].result = chain[m].result \/ m = n
             /\ chain'[m].withdrawn = chain[m].withdrawn
             /\ chain'[m].drained = chain[m].drained
    BY <1>1, <1>7 DEF ByHand, Market
<1>8. QED
    BY <1>2, <1>3, <1>4, <1>5, <1>6, <1>7, ChainWriters

\* Only the drain marks a row as drained, with the amount it finds on the chain.
LEMMA DrainedRows ==
    ASSUME LifeInv, Next, family = "24h", NEW k \in Keys, rows'[k].drained
    PROVE  \/ rows[k].drained /\ rows'[k].withdrawn = rows[k].withdrawn
           \/ /\ rows'[k].withdrawn = chain[k].withdrawn
              /\ \/ DrainHeal(k)
                 \/ DrainReceipt /\ k = proc["drain"].row
<1> DEFINE Same == rows'[k].drained = rows[k].drained /\ rows'[k].withdrawn = rows[k].withdrawn
<1>1. /\ rows \in [Keys -> Row] /\ TypeOK /\ PlaceInv /\ rows[k] \in Row
      /\ \A j \in Keys : DailyRow(j)
    BY DEF LifeInv, TypeOK, SettlementTypeOK, DailyRows
<1>2. CASE rows' = rows
    BY <1>2
<1>3. ASSUME NEW a \in Ticks, Close(a) \/ Stuck(a) \/ Created(a) PROVE Same
    <2>1. Created(a) \/ (a \in Actors /\ HasRow(a))
        BY <1>3 DEF Close, Stuck, HasRow, TickWork, Actors
    <2>2. PICK j \in Keys : j = (IF Created(a) THEN proc[a].made ELSE proc[a].row)
        BY <2>1, WorkedRow, MadeOnChain DEF Created, Daily
    <2>3. CASE j # k
        BY <1>1, <1>3, <2>2, <2>3 DEF Close, Closed, Stuck, Created, Inserted
    <2>4. CASE j = k
        <3>1. CASE Close(a) /\ ~Created(a)
            BY <1>1, <2>2, <2>4, <3>1 DEF Close, Closed, Row
        <3>2. CASE Stuck(a) /\ ~Created(a)
            <4>1. \/ rows' = rows
                  \/ rows'[k] = [rows[k] EXCEPT !.resolved = TRUE, !.result = None, !.status = "cancelled"]
                BY <1>1, <2>2, <2>4, <3>2 DEF Stuck
            <4>2. QED
                BY <4>1, <1>1 DEF Row
        <3>3. CASE Created(a)
            BY <1>1, <2>2, <2>4, <3>3 DEF Created, Inserted, Row
        <3>4. QED
            BY <1>3, <3>1, <3>2, <3>3
    <2>5. QED
        BY <2>3, <2>4
<1>4. ASSUME ForceCreate PROVE Same
    <2>1. rows' = [j \in Keys |->
                     IF Active(j) /\ Ended(rows[j].day)
                     THEN [rows[j] EXCEPT !.resolved = TRUE, !.status = "resolved"] ELSE rows[j]]
        BY <1>4 DEF ForceCreate
    <2>2. [rows[k] EXCEPT !.resolved = TRUE, !.status = "resolved"].drained = rows[k].drained
          /\ [rows[k] EXCEPT !.resolved = TRUE, !.status = "resolved"].withdrawn = rows[k].withdrawn
        BY <1>1 DEF Row
    <2>3. QED
        BY <2>1, <2>2
<1>5. ASSUME NEW j \in Keys, DrainHeal(j)
      PROVE  Same \/ (DrainHeal(k) /\ rows'[k].withdrawn = chain[k].withdrawn)
    <2>1. rows[j].market = j
        BY <1>1, <1>5 DEF DrainHeal, Undrained, DailyRow, NoRow
    <2>2. rows' = [rows EXCEPT ![j].drained = TRUE, ![j].withdrawn = chain[j].withdrawn]
        BY <1>5, <2>1 DEF DrainHeal
    <2>3. CASE j = k
        BY <1>1, <1>5, <2>2, <2>3 DEF Row
    <2>4. CASE j # k
        BY <1>1, <2>2, <2>4
    <2>5. QED
        BY <2>3, <2>4
<1>6. ASSUME DrainReceipt, rows' # rows
      PROVE  Same \/ (k = proc["drain"].row /\ rows'[k].withdrawn = chain[k].withdrawn)
    <2>1. HasRow("drain") /\ "drain" \in Actors
        BY <1>6 DEF DrainReceipt, HasRow, Actors
    <2>2. PICK j \in Keys : j = proc["drain"].row /\ rows[j].market = j
        BY <1>1, <2>1, WorkedRow DEF LifeInv, DailyRows, DailyRow
    <2>3. rows' = [rows EXCEPT ![j].drained = TRUE, ![j].withdrawn = chain[j].withdrawn]
        BY <1>6, <2>2 DEF DrainReceipt, RecordedAmount
    <2>4. CASE j = k
        BY <1>1, <2>2, <2>3, <2>4 DEF Row
    <2>5. CASE j # k
        BY <1>1, <2>3, <2>5
    <2>6. QED
        BY <2>4, <2>5
<1>7. ASSUME NEW m \in DOMAIN chain, HandleCreated(m) PROVE Same \/ rows'[k].drained = FALSE
    <2>1. [NoRow EXCEPT !.status = "plain", !.market = m, !.day = chain[m].day].drained = FALSE
        BY DEF NoRow
    <2>2. QED
        BY <1>1, <1>7, <2>1 DEF HandleCreated
<1>8. ASSUME NEW m \in DOMAIN chain, HandleResolved(m) PROVE Same
    BY <1>1, <1>8 DEF HandleResolved, Row
<1>9. \A a \in Ticks : ~(CloseRange(a) \/ Ensure(a) \/ CreatedRange(a))
    BY <1>1 DEF CloseRange, Ensure, CreatedRange, Ranged, PlaceInv, DailyTick, TickWork, Resolving
<1>10. \A a \in Ticks : CreateFails(a) \/ NotCreated(a) \/ CreateLost(a) => rows' = rows
    BY DEF CreateFails, NotCreated, CreateLost, GivenUp, Ranged
<1>11. QED
    BY <1>2, <1>3, <1>4, <1>5, <1>6, <1>7, <1>8, <1>9, <1>10, RowWriters

\* A drained row has its final amount, and no transaction of the drain can
\* change the amount any more.
DrainInv ==
    family = "24h" =>
        /\ \A k \in Keys :
              rows[k].drained =>
                  /\ rows[k].withdrawn = chain[k].withdrawn
                  /\ tx.op = "drain" /\ tx.market = k => chain[k].drained
        /\ proc["drain"].at # "idle" => ~rows[proc["drain"].row].drained
        /\ proc["drain"].at = "drained" /\ proc["drain"].outcome # "none" => tx.op # "drain"

DrainWork ==
    LET old == proc["drain"]
        new == proc'["drain"]
    IN  /\ new.at # "idle" =>
              \/ new.row = old.row /\ old.at # "idle"
              \/ \E k \in Keys : new.row = k /\ ~rows[k].drained /\ rows' = rows
        /\ new.at = "drained" /\ new.outcome # "none" =>
              tx'.op = "none" \/ (old.at = "drained" /\ old.outcome # "none")

\* Every step respects DrainWork.
LEMMA DrainWorks == LifeInv /\ Next => DrainWork
<1> SUFFICES ASSUME LifeInv, Next PROVE DrainWork
    OBVIOUS
<1>1. proc \in [Actors -> Proc] /\ tx \in Tx /\ NoTx.op = "none" /\ "drain" \in Actors /\ FreshInv
    BY DEF LifeInv, TypeOK, SettlementTypeOK, Actors, NoTx
<1>2. ASSUME \/ Clock
             \/ (\E k \in Keys : DrainHeal(k) \/ LockExpires(k))
             \/ (\E m \in DOMAIN chain : HandleCreated(m) \/ HandleResolved(m) \/
                Redeem(m))
             \/ (\E m \in DOMAIN chain, r \in Results : ByHand(m, r))
      PROVE  DrainWork
    <2>1. UNCHANGED proc
        BY <1>2
        DEF DrainHeal, Undrained, Clock, LockExpires, Fault, Bounded, HandleCreated,
            HandleResolved, Redeem, ByHand, events, history
    <2>2. QED
        BY <2>1, <1>1 DEF DrainWork
<1>3. ASSUME NEW a \in Ticks, TickStart(a) PROVE DrainWork
    <2>1. (\E k \in Keys : Begins(a, "price", k)) \/ Begins(a, "check", None)
        BY <1>3 DEF TickStart
    <2>2. proc'["drain"] = proc["drain"]
        BY <2>1, <1>1, BeginsTyped DEF Actors, Ticks
    <2>3. QED
        BY <2>2 DEF DrainWork
<1>4. ASSUME NEW a \in Ticks, RangeStart(a) PROVE DrainWork
    <2>1. proc'["drain"] = proc["drain"]
        BY <1>4, <1>1, IdleTyped DEF RangeStart, Ranged, Begins, Active, Actors, Ticks, Resolvers, Proc, None
    <2>2. QED
        BY <2>1 DEF DrainWork
<1>5. ASSUME NEW a \in Ticks, Price(a) PROVE DrainWork
    <2>1. proc'["drain"] = proc["drain"]
        BY <1>5, <1>1, IdleTyped DEF Price, Goes, Actors, Ticks, Resolvers, Proc, None
    <2>2. QED
        BY <2>1 DEF DrainWork
<1>6. ASSUME NEW a \in Ticks, Close(a) PROVE DrainWork
    <2>1. proc'["drain"] = proc["drain"]
        BY <1>6, <1>1, IdleTyped DEF Close, Closed, Begins, Daily, Actors, Ticks, Resolvers, Proc, None
    <2>2. QED
        BY <2>1 DEF DrainWork
<1>7. ASSUME NEW a \in Ticks, Stuck(a) PROVE DrainWork
    <2>1. proc'["drain"] = proc["drain"]
        BY <1>7, <1>1, IdleTyped DEF Stuck, Begins, Goes, Actors, Ticks, Resolvers, Proc, None
    <2>2. QED
        BY <2>1 DEF DrainWork
<1>8. ASSUME NEW a \in Ticks, Check(a) PROVE DrainWork
    <2>1. proc'["drain"] = proc["drain"]
        BY <1>8, <1>1, IdleTyped DEF Check, Goes, Actors, Ticks, Resolvers, Proc, None
    <2>2. QED
        BY <2>1 DEF DrainWork
<1>9. ASSUME NEW a \in Ticks, CloseRange(a) PROVE DrainWork
    <2>1. proc'["drain"] = proc["drain"]
        BY <1>9, <1>1, IdleTyped DEF CloseRange, Closed, Begins, Ranged, Actors, Ticks, Resolvers, Proc, None
    <2>2. QED
        BY <2>1 DEF DrainWork
<1>10. ASSUME NEW a \in Ticks, Ensure(a) PROVE DrainWork
    <2>1. proc'["drain"] = proc["drain"]
        BY <1>10, <1>1, IdleTyped DEF Ensure, Begins, Goes, Retryable, Actors, Ticks, Resolvers, Proc, None
    <2>2. QED
        BY <2>1 DEF DrainWork
<1>11. ASSUME NEW a \in Ticks, CreateSend(a) PROVE DrainWork
    <2>1. proc'["drain"] = proc["drain"]
        BY <1>11, <1>1, IdleTyped DEF CreateSend, Begins, Actors, Ticks, Resolvers, Proc, None
    <2>2. QED
        BY <2>1 DEF DrainWork
<1>12. ASSUME NEW a \in Ticks, CreateFails(a) PROVE DrainWork
    <2>1. proc'["drain"] = proc["drain"]
        BY <1>12, <1>1, IdleTyped DEF CreateFails, GivenUp, Ranged, Goes, Actors, Ticks, Resolvers, Proc, None
    <2>2. QED
        BY <2>1 DEF DrainWork
<1>13. ASSUME NEW a \in Ticks, NotCreated(a) PROVE DrainWork
    <2>1. proc'["drain"] = proc["drain"]
        BY <1>13, <1>1, IdleTyped DEF NotCreated, GivenUp, Ranged, Goes, Actors, Ticks, Resolvers, Proc, None
    <2>2. QED
        BY <2>1 DEF DrainWork
<1>14. ASSUME NEW a \in Ticks, Created(a) PROVE DrainWork
    <2>1. proc'["drain"] = proc["drain"]
        BY <1>14, <1>1, IdleTyped DEF Created, Inserted, Daily, Goes, Actors, Ticks, Resolvers, Proc, None
    <2>2. QED
        BY <2>1 DEF DrainWork
<1>15. ASSUME NEW a \in Ticks, CreatedRange(a) PROVE DrainWork
    <2>1. proc'["drain"] = proc["drain"]
        BY <1>15, <1>1, IdleTyped DEF CreatedRange, Ranged, Goes, Actors, Ticks, Resolvers, Proc, None
    <2>2. QED
        BY <2>1 DEF DrainWork
<1>16. ASSUME NEW a \in Ticks, CreateLost(a) PROVE DrainWork
    <2>1. proc'["drain"] = proc["drain"]
        BY <1>16, <1>1, IdleTyped DEF CreateLost, GivenUp, Ranged, Goes, Abandoned, Fault, Bounded, Actors, Ticks, Resolvers, Proc, None
    <2>2. QED
        BY <2>1 DEF DrainWork
<1>17. ASSUME ForceCreate PROVE DrainWork
    <2>1. proc'["drain"] = proc["drain"]
        BY <1>17, <1>1, IdleTyped DEF ForceCreate, Called, Daily, Begins, Actors, Ticks, Resolvers, Proc, None
    <2>2. QED
        BY <2>1 DEF DrainWork
<1>18. ASSUME NEW a \in Resolvers, Acquire(a) PROVE DrainWork
    <2>1. proc'["drain"] = proc["drain"]
        BY <1>18, <1>1, IdleTyped DEF Acquire, Goes, Actors, Ticks, Resolvers, Proc, None
    <2>2. QED
        BY <2>1 DEF DrainWork
<1>19. ASSUME NEW a \in Resolvers, Send(a) PROVE DrainWork
    <2>1. proc'["drain"] = proc["drain"]
        BY <1>19, <1>1, IdleTyped DEF Send, Broadcast, Target, Actors, Ticks, Resolvers, Proc, None
    <2>2. QED
        BY <2>1 DEF DrainWork
<1>20. ASSUME NEW a \in Resolvers, SendRejected(a) PROVE DrainWork
    <2>1. proc'["drain"] = proc["drain"]
        BY <1>20, <1>1, IdleTyped DEF SendRejected, Fails, Unlocked, Actors, Ticks, Resolvers, Proc, None
    <2>2. QED
        BY <2>1 DEF DrainWork
<1>21. ASSUME NEW a \in Resolvers, SendFails(a) PROVE DrainWork
    <2>1. proc'["drain"] = proc["drain"]
        BY <1>21, <1>1, IdleTyped DEF SendFails, Fails, Unlocked, Fault, Bounded, Target, Actors, Ticks, Resolvers, Proc, None
    <2>2. QED
        BY <2>1 DEF DrainWork
<1>22. ASSUME NEW a \in Resolvers, Receipt(a) PROVE DrainWork
    <2>1. proc'["drain"] = proc["drain"]
        BY <1>22, <1>1, IdleTyped DEF Receipt, Goes, Actors, Ticks, Resolvers, Proc, None
    <2>2. QED
        BY <2>1 DEF DrainWork
<1>23. ASSUME NEW a \in Resolvers, ReceiptLost(a) PROVE DrainWork
    <2>1. proc'["drain"] = proc["drain"]
        BY <1>23, <1>1, IdleTyped DEF ReceiptLost, Fails, Unlocked, Fault, Bounded, Abandoned, Actors, Ticks, Resolvers, Proc, None
    <2>2. QED
        BY <2>1 DEF DrainWork
<1>24. ASSUME NEW a \in Resolvers, Release(a) PROVE DrainWork
    <2>1. proc'["drain"] = proc["drain"]
        BY <1>24, <1>1, IdleTyped DEF Release, Goes, Actors, Ticks, Resolvers, Proc, None
    <2>2. QED
        BY <2>1 DEF DrainWork
<1>25. ASSUME NEW k \in Keys, FallbackStart(k) PROVE DrainWork
    <2>1. proc'["drain"] = proc["drain"]
        BY <1>25, <1>1, IdleTyped DEF FallbackStart, Unsettled, Actors, Ticks, Resolvers, Proc, None
    <2>2. QED
        BY <2>1 DEF DrainWork
<1>26. ASSUME NEW k \in Keys, DrainStart(k) PROVE DrainWork
    <2>1. proc'["drain"].outcome = "none" /\ proc'["drain"].row = k
        BY <1>26, <1>1, IdleTyped DEF DrainStart, Proc
    <2>2. ~rows[k].drained /\ rows' = rows
        BY <1>26 DEF DrainStart, Undrained
    <2>3. QED
        BY <2>1, <2>2 DEF DrainWork
<1>27. ASSUME DrainSend PROVE DrainWork
    <2>1. \/ proc'["drain"].at = "idle"
          \/ proc'["drain"].row = proc["drain"].row /\ proc'["drain"].outcome = "none"
        BY <1>27, <1>1, GoesTyped, IdleTyped DEF DrainSend, FreshInv
    <2>2. proc["drain"].at # "idle"
        BY <1>27 DEF DrainSend
    <2>3. QED
        BY <2>1, <2>2 DEF DrainWork
<1>28. ASSUME DrainReceipt PROVE DrainWork
    <2>1. proc'["drain"].at = "idle"
        BY <1>28, <1>1, GoesTyped, IdleTyped DEF DrainReceipt, DrainLost
    <2>2. QED
        BY <2>1 DEF DrainWork
<1>29. ASSUME DrainLost PROVE DrainWork
    <2>1. proc'["drain"].at = "idle"
        BY <1>29, <1>1, GoesTyped, IdleTyped DEF DrainReceipt, DrainLost
    <2>2. QED
        BY <2>1 DEF DrainWork
<1>30. ASSUME MineResolve PROVE DrainWork
    <2>1. proc'["drain"].at = proc["drain"].at /\ proc'["drain"].row = proc["drain"].row
        BY <1>30, <1>1 DEF MineResolve, Answered, Proc
    <2>2. tx'.op = "none"
        BY <1>30, <1>1 DEF MineResolve
    <2>3. QED
        BY <2>1, <2>2 DEF DrainWork
<1>31. ASSUME MineDrain PROVE DrainWork
    <2>1. proc'["drain"].at = proc["drain"].at /\ proc'["drain"].row = proc["drain"].row
        BY <1>31, <1>1 DEF MineDrain, Answered, Proc
    <2>2. tx'.op = "none"
        BY <1>31, <1>1 DEF MineDrain
    <2>3. QED
        BY <2>1, <2>2 DEF DrainWork
<1>32. ASSUME MineCreate PROVE DrainWork
    <2>1. proc'["drain"].at = proc["drain"].at /\ proc'["drain"].row = proc["drain"].row
        BY <1>32, <1>1 DEF MineCreate, Answered, Proc
    <2>2. tx'.op = "none"
        BY <1>32, <1>1 DEF MineCreate
    <2>3. QED
        BY <2>1, <2>2 DEF DrainWork
<1>33. ASSUME Cancel PROVE DrainWork
    <2>1. proc'["drain"].at = proc["drain"].at /\ proc'["drain"].row = proc["drain"].row
        BY <1>33, <1>1 DEF Cancel, Answered, Proc
    <2>2. tx'.op = "none"
        BY <1>33, <1>1 DEF Cancel
    <2>3. QED
        BY <2>1, <2>2 DEF DrainWork
<1>34. ASSUME Crash PROVE DrainWork
    <2>1. proc'["drain"].at = "idle"
        BY <1>34, <1>1, IdleTyped DEF Crash
    <2>2. QED
        BY <2>1 DEF DrainWork
<1>35. QED
    BY <1>2, <1>3, <1>4, <1>5, <1>6, <1>7, <1>8, <1>9, <1>10, <1>11, <1>12, <1>13,
       <1>14, <1>15, <1>16, <1>17, <1>18, <1>19, <1>20, <1>21, <1>22, <1>23, <1>24,
       <1>25, <1>26, <1>27, <1>28, <1>29, <1>30, <1>31, <1>32, <1>33, <1>34
       DEF Next, Works, TickStep, ResolveStep, FallbackStep, DrainStep, ChainStep,
           CallFails, Resolvers

\* DrainInv is inductive, relative to LifeInv.
LEMMA DrainInvStep == LifeInv /\ DrainInv /\ Next => DrainInv'
<1> SUFFICES ASSUME LifeInv, DrainInv, Next, family = "24h" PROVE DrainInv'
    BY FamilyStays DEF DrainInv
<1>1. /\ rows \in [Keys -> Row] /\ TypeOK /\ PlaceInv /\ proc \in [Actors -> Proc] /\ tx \in Tx
      /\ chain \in Seq(Market) /\ "drain" \in Actors
      /\ \A k \in Keys : DailyRow(k)
      /\ \A k \in Keys : rows[k].drained =>
            /\ k \in DOMAIN chain
            /\ rows[k].withdrawn = chain[k].withdrawn
            /\ tx.op = "drain" /\ tx.market = k => chain[k].drained
      /\ proc["drain"].at # "idle" => ~rows[proc["drain"].row].drained
      /\ proc["drain"].at = "drained" /\ proc["drain"].outcome # "none" => tx.op # "drain"
    BY DEF LifeInv, TypeOK, SettlementTypeOK, DailyRows, DailyRow, DrainInv, Actors, NoRow
<1>2. \/ tx'.op # "drain"
      \/ tx'.op = tx.op /\ tx'.market = tx.market
      \/ /\ tx'.op = "drain" /\ DrainSend
         /\ tx'.market = Target("drain") /\ proc["drain"].at = "drain"
    <2>1. ASSUME NEW a \in Actors, tx' = Abandoned(a)
          PROVE  tx'.op = tx.op /\ tx'.market = tx.market
        BY <1>1, <2>1 DEF Abandoned, Tx
    <2>2. CASE \E a \in Resolvers : Send(a) \/ SendFails(a)
        <3>1. ASSUME NEW a \in Resolvers, Send(a) PROVE tx'.op = "resolve"
            BY <3>1 DEF Send, Broadcast
        <3>2. ASSUME NEW a \in Resolvers, SendFails(a) PROVE tx' = tx \/ tx'.op = "resolve"
            BY <3>2 DEF SendFails, NoTx
        <3>3. QED
            BY <2>2, <3>1, <3>2
    <2>3. CASE \E a \in Ticks : CreateSend(a)
        BY <2>3 DEF CreateSend, NoTx
    <2>4. CASE DrainSend
        BY <2>4 DEF DrainSend, Broadcast
    <2>5. CASE MineResolve \/ MineDrain \/ MineCreate \/ Cancel
        BY <2>5 DEF MineResolve, MineDrain, MineCreate, Cancel, NoTx
    <2>6. CASE Crash
        BY <1>1, <2>6 DEF Crash, Tx
    <2>7. CASE DrainLost \/ (\E a \in Resolvers : ReceiptLost(a)) \/ \E a \in Ticks : CreateLost(a)
        BY <2>1, <2>7 DEF DrainLost, ReceiptLost, CreateLost, Actors, Resolvers
    <2>8. QED
        BY <2>2, <2>3, <2>4, <2>5, <2>6, <2>7, Senders
<1>3. proc["drain"].at # "idle" => proc["drain"].row \in Keys /\ Target("drain") = proc["drain"].row
    BY <1>1 DEF LifeInv, PlaceInv, HasRow, DailyRows, DailyRow, Target
<1>4. ASSUME NEW k \in Keys, rows'[k].drained
      PROVE  /\ rows'[k].withdrawn = chain'[k].withdrawn
             /\ tx'.op = "drain" /\ tx'.market = k => chain'[k].drained
    <2>1. CASE rows[k].drained /\ rows'[k].withdrawn = rows[k].withdrawn
        <3>1. k \in DOMAIN chain
            BY <1>1, <2>1
        <3>2. chain'[k].withdrawn = chain[k].withdrawn
            <4>1. ~(MineDrain /\ tx.market = k /\ ~chain[k].drained)
                BY <1>1, <2>1 DEF MineDrain
            <4>2. QED
                BY <3>1, <4>1, ChainFields
        <3>3. chain[k].drained => chain'[k].drained
            BY <3>1, ChainStep1 DEF ChainGrows
        <3>4. ~(DrainSend /\ proc["drain"].at = "drain" /\ k = Target("drain"))
            BY <1>1, <1>3, <2>1
        <3>5. QED
            BY <1>1, <1>2, <2>1, <3>2, <3>3, <3>4
    <2>2. CASE rows'[k].withdrawn = chain[k].withdrawn /\ DrainHeal(k)
        <3>1. rows[k].market = k /\ chain' = chain /\ tx' = tx /\ chain[k].drained
            BY <1>1, <2>2 DEF DrainHeal, Undrained, DailyRow, NoRow
        <3>2. QED
            BY <2>2, <3>1
    <2>3. CASE rows'[k].withdrawn = chain[k].withdrawn /\ DrainReceipt
        <3>1. chain' = chain /\ tx' = tx /\ tx.op # "drain"
            BY <1>1, <2>3 DEF DrainReceipt
        <3>2. QED
            BY <2>3, <3>1
    <2>4. QED
        BY <1>4, <2>1, <2>2, <2>3, DrainedRows
<1>5. ASSUME proc'["drain"].at # "idle" PROVE ~rows'[proc'["drain"].row].drained
    <2>1. \/ proc'["drain"].row = proc["drain"].row /\ proc["drain"].at # "idle"
          \/ \E k \in Keys : proc'["drain"].row = k /\ ~rows[k].drained /\ rows' = rows
        BY <1>5, DrainWorks DEF DrainWork
    <2>2. ~DrainReceipt
        BY <1>1, <1>5, GoesTyped, IdleTyped DEF DrainReceipt
    <2>3. CASE proc'["drain"].row = proc["drain"].row /\ proc["drain"].at # "idle"
        <3>1. PICK k \in Keys : k = proc["drain"].row /\ ~rows[k].drained
            BY <1>1, <1>3, <2>3
        <3>2. ~DrainHeal(k)
            BY <2>3 DEF DrainHeal
        <3>3. ~rows'[k].drained
            BY <2>2, <3>1, <3>2, DrainedRows
        <3>4. QED
            BY <2>3, <3>1, <3>3
    <2>4. QED
        BY <2>1, <2>3
<1>6. ASSUME proc'["drain"].at = "drained", proc'["drain"].outcome # "none" PROVE tx'.op # "drain"
    <2>1. \/ tx'.op = "none"
          \/ proc["drain"].at = "drained" /\ proc["drain"].outcome # "none"
        BY <1>6, DrainWorks DEF DrainWork
    <2>2. ~(DrainSend /\ proc["drain"].at = "drain") \/ tx'.op = "none"
        BY <2>1
    <2>3. QED
        BY <1>1, <1>2, <2>1, <2>2
<1>7. QED
    BY <1>4, <1>5, <1>6 DEF DrainInv

\* What the row of a 24-hour market records as withdrawn (drainHourlyMarket,
\* which reads the amount again after its transaction, or finds the market
\* drained) is what the pool has paid.
THEOREM DrainIsRecorded == Spec => []DrainedAsRecorded
<1>1. Init => LifeInv /\ DrainInv
    <2> SUFFICES ASSUME Init PROVE DrainInv
        BY LifeInit
    <2>1. /\ rows = [k \in Keys |-> NoRow] /\ proc["drain"].at = "idle"
        BY IdleTyped DEF Init, SettlementInit, Actors
    <2>2. ~NoRow.drained
        BY DEF NoRow
    <2>3. QED
        BY <2>1, <2>2 DEF DrainInv
<1>2. LifeInv /\ DrainInv /\ [Next]_vars => (LifeInv /\ DrainInv)'
    <2>1. LifeInv /\ DrainInv /\ UNCHANGED vars => DrainInv'
        BY DEF DrainInv, vars
    <2>2. QED
        BY <2>1, LifeStep, DrainInvStep
<1>3. LifeInv /\ DrainInv => DrainedAsRecorded
    <2> SUFFICES ASSUME LifeInv, DrainInv, NEW k \in Keys, family = "24h", rows[k].drained
                 PROVE  rows[k].withdrawn = chain[rows[k].market].withdrawn
        BY DEF DrainedAsRecorded, LifeInv
    <2>1. DailyRow(k)
        BY DEF LifeInv, DailyRows
    <2>2. rows[k].market = k
        BY <2>1 DEF DailyRow, NoRow
    <2>3. QED
        BY <2>2 DEF DrainInv
<1>4. QED
    BY <1>1, <1>2, <1>3, PTL DEF Spec

---------------------------------------------------------------------------
(* What resolves a market *)

\* What was resolved by hand stays so.
LEMMA ByHandGrows == Next => byHand \subseteq byHand'
BY Troubles

\* A transaction that resolves is in flight already, or is sent for a market
\* that is not settled.
LEMMA Resolvings ==
    ASSUME LifeInv, Next, tx'.op = "resolve"
    PROVE  \/ tx.op = "resolve" /\ tx'.market = tx.market /\ tx'.result = tx.result
              /\ ~MineResolve /\ ~Cancel
           \/ \E a \in Resolvers :
                 /\ proc[a].at = "send" /\ tx = NoTx
                 /\ Send(a) \/ SendFails(a)
                 /\ tx'.market = Target(a) /\ tx'.result = proc[a].result
                 /\ ~Settled(Target(a))
                 /\ chain' = chain /\ rows' = rows
<1>1. tx \in Tx
    BY DEF LifeInv, TypeOK, SettlementTypeOK
<1>2. ASSUME NEW a \in Actors, tx' = Abandoned(a)
      PROVE  tx'.op = tx.op /\ tx'.market = tx.market /\ tx'.result = tx.result
    BY <1>1, <1>2 DEF Abandoned, Tx
<1>3. ASSUME NEW a \in Resolvers, Send(a)
      PROVE  /\ proc[a].at = "send" /\ tx = NoTx
             /\ tx'.market = Target(a) /\ tx'.result = proc[a].result
             /\ ~Settled(Target(a))
             /\ chain' = chain /\ rows' = rows
    BY <1>3 DEF Send, Broadcast
<1>4. ASSUME NEW a \in Resolvers, SendFails(a), tx' # tx
      PROVE  /\ proc[a].at = "send" /\ tx = NoTx
             /\ tx'.market = Target(a) /\ tx'.result = proc[a].result
             /\ ~Settled(Target(a))
             /\ chain' = chain /\ rows' = rows
    BY <1>4 DEF SendFails, NoTx
<1>5. ASSUME tx' = tx PROVE ~MineResolve /\ ~Cancel
    BY <1>5 DEF MineResolve, Cancel, NoTx
<1>6. ~MineResolve /\ ~Cancel
    BY DEF MineResolve, Cancel, NoTx
<1>7. CASE \E a \in Ticks : CreateSend(a)
    BY <1>7 DEF CreateSend, NoTx
<1>8. CASE DrainSend
    BY <1>1, <1>6, <1>8 DEF DrainSend, Broadcast
<1>9. CASE Crash
    BY <1>1, <1>6, <1>9 DEF Crash, Tx
<1>10. CASE MineDrain \/ MineCreate
    BY <1>10 DEF MineDrain, MineCreate, NoTx
<1>11. CASE DrainLost \/ (\E a \in Resolvers : ReceiptLost(a)) \/ \E a \in Ticks : CreateLost(a)
    <2>1. \E a \in Actors : tx' = Abandoned(a)
        BY <1>11 DEF DrainLost, ReceiptLost, CreateLost, Actors, Resolvers
    <2>2. QED
        BY <2>1, <1>2, <1>6
<1>12. CASE tx' = tx
    BY <1>6, <1>12
<1>13. QED
    BY <1>3, <1>4, <1>6, <1>7, <1>8, <1>9, <1>10, <1>11, <1>12, Senders

\* Only the owner can settle a market whose resolution is in flight.
FirstInv == tx.op = "resolve" /\ Settled(tx.market) => tx.market \in byHand

\* FirstInv is inductive, relative to LifeInv.
LEMMA FirstStep == LifeInv /\ FirstInv /\ Next => FirstInv'
<1> SUFFICES ASSUME LifeInv, FirstInv, Next, tx'.op = "resolve", Settled(tx.market)'
             PROVE  tx'.market \in byHand'
    BY DEF FirstInv, Settled
<1>1. CASE \E a \in Resolvers : /\ tx'.market = Target(a) /\ ~Settled(Target(a)) /\ chain' = chain
    BY <1>1 DEF Settled
<1>2. CASE tx.op = "resolve" /\ tx'.market = tx.market /\ ~MineResolve
    <2>1. tx.market \in DOMAIN chain
        BY <1>2 DEF LifeInv, TxInv
    <2>2. Settled(tx.market) \/ \E r \in Results : ByHand(tx.market, r)
        BY <1>2, <2>1, ChainFields DEF Settled
    <2>3. QED
        BY <1>2, <2>2, ByHandGrows DEF FirstInv, ByHand
<1>3. QED
    BY <1>1, <1>2, Resolvings

---------------------------------------------------------------------------
(* The winner of a range market *)

\* The result of a row is what the chain says, or will say; the worker that
\* was answered has the result its row is to get.
RangeRowWinner(k) ==
    rows[k].result # None =>
        /\ Settled(rows[k].market) /\ rows[k].market \notin byHand =>
              rows[k].result = chain[rows[k].market].result
        /\ tx.op = "resolve" /\ tx.market = rows[k].market => tx.result = rows[k].result

AnsweredWinner ==
    proc["worker"].at = "close" \/ (proc["worker"].at = "receipt" /\ proc["worker"].outcome # "none") =>
        /\ Settled(Target("worker")) /\ Target("worker") \notin byHand =>
              chain[Target("worker")].result = proc["worker"].result
        /\ ~(tx.op = "resolve" /\ tx.market = Target("worker"))

RangeWinner ==
    family = "range" =>
        /\ \A k \in Keys : RangeRowWinner(k)
        /\ proc["fallback"].at # "idle" =>
              /\ proc["fallback"].result = rows[proc["fallback"].row].result
              /\ proc["fallback"].result # None
        /\ AnsweredWinner

\* A row that has a result keeps it, unless the worker closes it.
LEMMA RangeResults ==
    ASSUME LifeInv, Next, family = "range", NEW k \in Keys
    PROVE  /\ rows[k].status = "resolved" =>
                 /\ rows'[k].status = "resolved" /\ rows'[k].result = rows[k].result
           /\ rows'[k].result # None =>
                 \/ rows[k].result # None /\ rows'[k].result = rows[k].result
                    /\ rows'[k].market = rows[k].market
                 \/ CloseRange("worker") /\ k = proc["worker"].row
                    /\ rows'[k].result = proc["worker"].result
                    /\ rows'[k].market = rows[k].market
<1>1. rows \in [Keys -> Row] /\ RangeRows
    BY DEF LifeInv, TypeOK, SettlementTypeOK
<1>2. rows[k].result # None => rows[k].status = "resolved" /\ rows[k].market # None
    BY <1>1 DEF RangeRows
<1>3. CASE rows' = rows
    BY <1>3
<1>4. CASE RangeChange
    <2>1. PICK j \in Keys, new \in Row :
        /\ rows' = [rows EXCEPT ![j] = new]
        /\ \/ /\ rows[j].status = "resolved" /\ new.status = "resolved"
              /\ new.result = rows[j].result /\ new.market = rows[j].market
           \/ /\ CloseRange("worker") /\ j = proc["worker"].row
              /\ rows[j].status = "open" /\ new.market = rows[j].market
              /\ new.result = proc["worker"].result
           \/ rows[j].status # "resolved" /\ new.result = None
           \/ rows[j].status = "creating" /\ new.result = rows[j].result
        BY <1>4 DEF RangeChange
    <2>2. CASE j = k
        BY <1>1, <1>2, <2>1, <2>2
    <2>3. CASE j # k
        BY <1>1, <1>2, <2>1, <2>3
    <2>4. QED
        BY <2>2, <2>3
<1>5. QED
    BY <1>3, <1>4, RangeChanges

---------------------------------------------------------------------------
(* How a process comes to where it is in a resolution *)

\* The places between the choice of a row and its end.
Working == {"price", "close"} \cup Resolving

\* A tick leaves the end of a resolution to close the row, or when it fails.
Leaves(a) ==
    a \in Ticks /\ proc[a].at \in {"receipt", "close"} =>
        Close(a) \/ CloseRange(a) \/ faults' = faults + 1

Onward(a) ==
    LET old == proc[a]
        new == proc'[a]
        Same == new.row = old.row /\ new.result = old.result
    IN  \/ new = old
        \/ new.at \notin Working /\ Leaves(a)
        \/ TickStart(a) /\ new.at = "price"
              /\ \E k \in Keys : new.row = k /\ Active(k)
        \/ RangeStart(a) /\ new.at = "send"
        \/ Price(a) /\ new.at = "acquire" /\ new.row = old.row
        \/ a = "fallback" /\ new.at = "acquire"
              /\ \E k \in Keys : FallbackStart(k) /\ new.row = k /\ new.result = rows[k].result
        \/ Acquire(a) /\ new.at = "send" /\ Same /\ old.row \notin locks
        \/ Send(a) /\ new.at = "receipt" /\ new.outcome = "none" /\ Same
        \/ SendRejected(a) /\ new.at = "release" /\ Same
        \/ faults' = faults + 1 /\ new.at = "release" /\ Same /\ old.at \in {"send", "receipt"}
        \/ Receipt(a) /\ new.at = "close" /\ Same
        \/ Release(a) /\ new.at = "close" /\ Same
        \/ /\ MineResolve \/ Cancel
           /\ tx.by = a /\ old.at = "receipt" /\ old.outcome = "none"
           /\ new.at = "receipt" /\ new.outcome # "none" /\ Same

\* Only one process moves at a time, but for a restart.
MovesOn(a) == Onward(a) /\ \A b \in Resolvers : b # a => proc'[b] = proc[b]

\* It is enough to look at the process that moves.
LEMMA OnwardIfMoves ==
    (\E a \in Actors : MovesOn(a)) => \A b \in Resolvers : Onward(b)
BY DEF MovesOn, Onward

\* Every step of a process is one that Onward lists.
LEMMA WorkMoves == LifeInv /\ Next => \A b \in Resolvers : Onward(b)
<1> SUFFICES ASSUME LifeInv, Next PROVE \A b \in Resolvers : Onward(b)
    OBVIOUS
<1>1. /\ proc \in [Actors -> Proc] /\ tx \in Tx /\ PlaceInv
      /\ Ticks \subseteq Actors /\ Resolvers \subseteq Actors /\ Ticks \subseteq Resolvers
      /\ "drain" \in Actors /\ "fallback" \in Actors /\ "drain" \notin Resolvers
      /\ "fallback" \in Resolvers /\ "fallback" \notin Ticks
    BY DEF LifeInv, TypeOK, SettlementTypeOK, Actors, Ticks, Resolvers
<1>2. ASSUME \/ Clock
             \/ (\E k \in Keys : DrainHeal(k) \/ LockExpires(k))
             \/ (\E m \in DOMAIN chain : HandleCreated(m) \/ HandleResolved(m) \/
                Redeem(m))
             \/ (\E m \in DOMAIN chain, r \in Results : ByHand(m, r))
      PROVE  \A b \in Resolvers : Onward(b)
    <2>1. UNCHANGED proc
        BY <1>2
        DEF DrainHeal, Undrained, Clock, LockExpires, Fault, Bounded, HandleCreated,
            HandleResolved, Redeem, ByHand, events, history
    <2>2. QED
        BY <2>1, <1>1 DEF Onward
<1>3. ASSUME NEW a \in Ticks, TickStart(a) PROVE \A b \in Resolvers : Onward(b)
    <2>1. (\E k \in Keys : Active(k) /\ Begins(a, "price", k)) \/ Begins(a, "check", None)
        BY <1>3 DEF TickStart
    <2>2. \A b \in Resolvers : b # a => proc'[b] = proc[b]
        BY <2>1, <1>1, BeginsTyped
    <2>3. CASE Begins(a, "check", None)
        <3>1. proc'[a].at = "check"
            BY <2>3, <1>1, BeginsTyped
        <3>2. QED
            BY <3>1, <2>2, <1>1, <1>3, OnwardIfMoves
            DEF MovesOn, Onward, Working, Resolving, Leaves, TickStart
    <2>4. ASSUME NEW k \in Keys, Active(k), Begins(a, "price", k) PROVE Onward(a)
        <3>1. proc'[a].at = "price" /\ proc'[a].row = k
            BY <2>4, <1>1, BeginsTyped
        <3>2. QED
            BY <3>1, <2>4, <1>3 DEF Onward
    <2>5. QED
        BY <2>1, <2>2, <2>3, <2>4, <1>1, OnwardIfMoves DEF MovesOn
<1>4. ASSUME NEW a \in Ticks, RangeStart(a) PROVE \A b \in Resolvers : Onward(b)
    <2>1. \A b \in Actors : b # a => proc'[b] = proc[b]
        BY <1>4, <1>1, BeginsTyped DEF RangeStart
    <2>2. proc'[a].at \in {"ensure", "send"}
        <3>1. CASE Begins(a, "ensure", None)
            BY <3>1, <1>1, BeginsTyped
        <3>2. ASSUME NEW k \in Keys, NEW r \in Results,
                     proc' = [proc EXCEPT ![a] = [Idle EXCEPT !.at = "send", !.row = k, !.result = r]]
              PROVE  proc'[a].at = "send"
            BY <3>2, <1>1, IdleTyped DEF Proc
        <3>3. QED
            BY <1>4, <3>1, <3>2 DEF RangeStart
    <2>3. Onward(a)
        BY <1>4, <2>2 DEF Onward, Working, Resolving, Leaves, RangeStart
    <2>4. QED
        BY <2>1, <2>3, <1>1, OnwardIfMoves DEF MovesOn
<1>5. ASSUME NEW a \in Ticks, Price(a) PROVE \A b \in Resolvers : Onward(b)
    <2>1. \A b \in Resolvers : b # a => proc'[b] = proc[b]
        BY <1>5, <1>1, BeginsTyped, GoesTyped, IdleTyped DEF Price, Goes, Proc
    <2>2. Onward(a)
        <3>1. \/ proc'[a].at = "stuck"
              \/ proc'[a].at = "acquire" /\ proc'[a].row = proc[a].row
            BY <1>5, <1>1, GoesTyped DEF Price, Proc
        <3>2. QED
            BY <3>1, <1>5 DEF Onward, Working, Resolving, Leaves, Price
    <2>3. QED
        BY <2>1, <2>2, <1>1, OnwardIfMoves DEF MovesOn
<1>6. ASSUME NEW a \in Ticks, Close(a) PROVE \A b \in Resolvers : Onward(b)
    <2>1. \A b \in Resolvers : b # a => proc'[b] = proc[b]
        BY <1>6, <1>1, BeginsTyped DEF Close, None
    <2>2. Onward(a)
        <3>1. proc'[a].at \in {"idle", "check", "ensure", "create"}
            BY <1>6, <1>1, BeginsTyped DEF Close, None
        <3>2. QED
            BY <3>1, <1>6 DEF Onward, Working, Resolving, Leaves, Close
    <2>3. QED
        BY <2>1, <2>2, <1>1, OnwardIfMoves DEF MovesOn
<1>7. ASSUME NEW a \in Ticks, Stuck(a) PROVE \A b \in Resolvers : Onward(b)
    <2>1. \A b \in Resolvers : b # a => proc'[b] = proc[b]
        BY <1>7, <1>1, BeginsTyped, GoesTyped, IdleTyped DEF Stuck, None
    <2>2. Onward(a)
        <3>1. proc'[a].at \in {"idle", "check", "ensure", "create"}
            BY <1>7, <1>1, BeginsTyped, GoesTyped, IdleTyped DEF Stuck, None
        <3>2. QED
            BY <3>1, <1>7 DEF Onward, Working, Resolving, Leaves, Stuck
    <2>3. QED
        BY <2>1, <2>2, <1>1, OnwardIfMoves DEF MovesOn
<1>8. ASSUME NEW a \in Ticks, Check(a) PROVE \A b \in Resolvers : Onward(b)
    <2>1. \A b \in Resolvers : b # a => proc'[b] = proc[b]
        BY <1>8, <1>1, GoesTyped, IdleTyped DEF Check, None
    <2>2. Onward(a)
        <3>1. proc'[a].at \in {"idle", "check", "ensure", "create"}
            BY <1>8, <1>1, GoesTyped, IdleTyped DEF Check, None
        <3>2. QED
            BY <3>1, <1>8 DEF Onward, Working, Resolving, Leaves, Check
    <2>3. QED
        BY <2>1, <2>2, <1>1, OnwardIfMoves DEF MovesOn
<1>9. ASSUME NEW a \in Ticks, CloseRange(a) PROVE \A b \in Resolvers : Onward(b)
    <2>1. \A b \in Resolvers : b # a => proc'[b] = proc[b]
        BY <1>9, <1>1, BeginsTyped DEF CloseRange, None
    <2>2. Onward(a)
        <3>1. proc'[a].at \in {"idle", "check", "ensure", "create"}
            BY <1>9, <1>1, BeginsTyped DEF CloseRange, None
        <3>2. QED
            BY <3>1, <1>9 DEF Onward, Working, Resolving, Leaves, CloseRange
    <2>3. QED
        BY <2>1, <2>2, <1>1, OnwardIfMoves DEF MovesOn
<1>10. ASSUME NEW a \in Ticks, Ensure(a) PROVE \A b \in Resolvers : Onward(b)
    <2>1. (Day + 1 \in Keys /\ Begins(a, "create", Day + 1)) \/ Goes(a, "idle")
        BY <1>10, Today DEF Ensure, LifeInv
    <2>2. /\ proc'[a].at \in {"idle", "create"}
          /\ \A b \in Actors : b # a => proc'[b] = proc[b]
        BY <2>1, <1>1, BeginsTyped, GoesTyped, IdleTyped
    <2>3. Onward(a)
        BY <2>2, <1>10 DEF Onward, Working, Resolving, Leaves, Ensure
    <2>4. QED
        BY <2>2, <2>3, <1>1, OnwardIfMoves DEF MovesOn
<1>11. ASSUME NEW a \in Ticks, CreateSend(a) PROVE \A b \in Resolvers : Onward(b)
    <2>1. /\ a \in Actors /\ Begins(a, "created", proc[a].row) /\ proc[a].row \in Keys \cup {None}
        BY <1>11, <1>1 DEF CreateSend, Proc
    <2>2. proc'[a].at = "created" /\ \A b \in Actors : b # a => proc'[b] = proc[b]
        BY <2>1, <1>1, BeginsTyped
    <2>3. Onward(a)
        BY <2>2, <1>11 DEF Onward, Working, Resolving, Leaves, CreateSend
    <2>4. QED
        BY <2>2, <2>3, <1>1, OnwardIfMoves DEF MovesOn
<1>12. ASSUME NEW a \in Ticks, CreateFails(a) PROVE \A b \in Resolvers : Onward(b)
    <2>1. \A b \in Resolvers : b # a => proc'[b] = proc[b]
        BY <1>12, <1>1, GoesTyped, IdleTyped DEF CreateFails, None
    <2>2. Onward(a)
        <3>1. proc'[a].at \in {"idle", "check", "ensure", "create"}
            BY <1>12, <1>1, GoesTyped, IdleTyped DEF CreateFails, None
        <3>2. QED
            BY <3>1, <1>12 DEF Onward, Working, Resolving, Leaves, CreateFails
    <2>3. QED
        BY <2>1, <2>2, <1>1, OnwardIfMoves DEF MovesOn
<1>13. ASSUME NEW a \in Ticks, NotCreated(a) PROVE \A b \in Resolvers : Onward(b)
    <2>1. \A b \in Resolvers : b # a => proc'[b] = proc[b]
        BY <1>13, <1>1, GoesTyped, IdleTyped DEF NotCreated, None
    <2>2. Onward(a)
        <3>1. proc'[a].at \in {"idle", "check", "ensure", "create"}
            BY <1>13, <1>1, GoesTyped, IdleTyped DEF NotCreated, None
        <3>2. QED
            BY <3>1, <1>13 DEF Onward, Working, Resolving, Leaves, NotCreated
    <2>3. QED
        BY <2>1, <2>2, <1>1, OnwardIfMoves DEF MovesOn
<1>14. ASSUME NEW a \in Ticks, Created(a) PROVE \A b \in Resolvers : Onward(b)
    <2>1. \A b \in Resolvers : b # a => proc'[b] = proc[b]
        BY <1>14, <1>1, GoesTyped, IdleTyped DEF Created, None
    <2>2. Onward(a)
        <3>1. proc'[a].at \in {"idle", "check", "ensure", "create"}
            BY <1>14, <1>1, GoesTyped, IdleTyped DEF Created, None
        <3>2. QED
            BY <3>1, <1>14 DEF Onward, Working, Resolving, Leaves, Created
    <2>3. QED
        BY <2>1, <2>2, <1>1, OnwardIfMoves DEF MovesOn
<1>15. ASSUME NEW a \in Ticks, CreatedRange(a) PROVE \A b \in Resolvers : Onward(b)
    <2>1. \A b \in Resolvers : b # a => proc'[b] = proc[b]
        BY <1>15, <1>1, GoesTyped, IdleTyped DEF CreatedRange, None
    <2>2. Onward(a)
        <3>1. proc'[a].at \in {"idle", "check", "ensure", "create"}
            BY <1>15, <1>1, GoesTyped, IdleTyped DEF CreatedRange, None
        <3>2. QED
            BY <3>1, <1>15 DEF Onward, Working, Resolving, Leaves, CreatedRange
    <2>3. QED
        BY <2>1, <2>2, <1>1, OnwardIfMoves DEF MovesOn
<1>16. ASSUME NEW a \in Ticks, CreateLost(a) PROVE \A b \in Resolvers : Onward(b)
    <2>1. \A b \in Resolvers : b # a => proc'[b] = proc[b]
        BY <1>16, <1>1, GoesTyped, IdleTyped DEF CreateLost, None
    <2>2. Onward(a)
        <3>1. proc'[a].at \in {"idle", "check", "ensure", "create"}
            BY <1>16, <1>1, GoesTyped, IdleTyped DEF CreateLost, None
        <3>2. QED
            BY <3>1, <1>16 DEF Onward, Working, Resolving, Leaves, CreateLost
    <2>3. QED
        BY <2>1, <2>2, <1>1, OnwardIfMoves DEF MovesOn
<1>17. ASSUME ForceCreate PROVE \A b \in Resolvers : Onward(b)
    <2>1. proc'["admin"].at = "check" /\ \A b \in Actors : b # "admin" => proc'[b] = proc[b]
        BY <1>17, <1>1, BeginsTyped DEF ForceCreate, Ticks
    <2>2. Onward("admin") /\ "admin" \in Actors
        BY <2>1, <1>1, <1>17 DEF Onward, Working, Resolving, Ticks, Leaves, ForceCreate
    <2>3. QED
        BY <2>1, <2>2, <1>1, OnwardIfMoves DEF MovesOn
<1>18. ASSUME NEW a \in Resolvers, Acquire(a) PROVE \A b \in Resolvers : Onward(b)
    <2>1. \A b \in Resolvers : b # a => proc'[b] = proc[b]
        BY <1>18, <1>1, GoesTyped, IdleTyped DEF Acquire
    <2>2. Onward(a)
        <3>1. \/ proc'[a].at \in {"stuck", "idle"}
              \/ /\ proc'[a].at = "send" /\ proc'[a].row = proc[a].row
                 /\ proc'[a].result = proc[a].result /\ proc[a].row \notin locks
            BY <1>18, <1>1, GoesTyped, IdleTyped DEF Acquire
        <3>2. QED
            BY <3>1, <1>18 DEF Onward, Working, Resolving, Leaves, Acquire
    <2>3. QED
        BY <2>1, <2>2, <1>1, OnwardIfMoves DEF MovesOn
<1>19. ASSUME NEW a \in Resolvers, Send(a) PROVE \A b \in Resolvers : Onward(b)
    <2>1. \A b \in Resolvers : b # a => proc'[b] = proc[b]
        BY <1>19, <1>1 DEF Send, Proc
    <2>2. Onward(a)
        <3>1. /\ proc'[a].at = "receipt" /\ proc'[a].outcome = "none"
              /\ proc'[a].row = proc[a].row /\ proc'[a].result = proc[a].result
            BY <1>19, <1>1 DEF Send, Proc
        <3>2. QED
            BY <3>1, <1>19 DEF Onward
    <2>3. QED
        BY <2>1, <2>2, <1>1, OnwardIfMoves DEF MovesOn
<1>20. ASSUME NEW a \in Resolvers, SendRejected(a)
       PROVE  \A b \in Resolvers : Onward(b)
    <2>1. \A b \in Resolvers : b # a => proc'[b] = proc[b]
        BY <1>20, <1>1 DEF SendRejected, Fails, Proc
    <2>2. Onward(a)
        <3>1. /\ proc'[a].at \in {"ensure", "release"}
              /\ proc'[a].row = proc[a].row /\ proc'[a].result = proc[a].result
            BY <1>20, <1>1 DEF SendRejected, Fails, Proc
        <3>2. QED
            BY <3>1, <1>20 DEF Onward, Working, Resolving, Leaves, SendRejected
    <2>3. QED
        BY <2>1, <2>2, <1>1, OnwardIfMoves DEF MovesOn
<1>21. ASSUME NEW a \in Resolvers, SendFails(a) PROVE \A b \in Resolvers : Onward(b)
    <2>1. \A b \in Resolvers : b # a => proc'[b] = proc[b]
        BY <1>21, <1>1 DEF SendFails, Fails, Proc
    <2>2. Onward(a)
        <3>1. /\ proc'[a].at \in {"ensure", "release"} /\ faults' = faults + 1
              /\ proc'[a].row = proc[a].row /\ proc'[a].result = proc[a].result
              /\ proc[a].at \in {"send", "receipt"}
            BY <1>21, <1>1 DEF SendFails, Fails, Fault, Proc
        <3>2. QED
            BY <3>1, <1>21 DEF Onward, Working, Resolving, Leaves
    <2>3. QED
        BY <2>1, <2>2, <1>1, OnwardIfMoves DEF MovesOn
<1>22. ASSUME NEW a \in Resolvers, Receipt(a) PROVE \A b \in Resolvers : Onward(b)
    <2>1. \A b \in Resolvers : b # a => proc'[b] = proc[b]
        BY <1>22, <1>1, GoesTyped, IdleTyped DEF Receipt
    <2>2. Onward(a)
        <3>1. \/ proc'[a].at \in {"stuck", "idle"} /\ Leaves(a)
              \/ /\ proc'[a].at = "close" /\ proc'[a].row = proc[a].row
                 /\ proc'[a].result = proc[a].result
            BY <1>22, <1>1, GoesTyped, IdleTyped DEF Receipt, Leaves
        <3>2. QED
            BY <3>1, <1>22 DEF Onward, Working, Resolving
    <2>3. QED
        BY <2>1, <2>2, <1>1, OnwardIfMoves DEF MovesOn
<1>23. ASSUME NEW a \in Resolvers, ReceiptLost(a)
       PROVE  \A b \in Resolvers : Onward(b)
    <2>1. \A b \in Resolvers : b # a => proc'[b] = proc[b]
        BY <1>23, <1>1 DEF ReceiptLost, Fails, Proc
    <2>2. Onward(a)
        <3>1. /\ proc'[a].at \in {"ensure", "release"} /\ faults' = faults + 1
              /\ proc'[a].row = proc[a].row /\ proc'[a].result = proc[a].result
              /\ proc[a].at \in {"send", "receipt"}
            BY <1>23, <1>1 DEF ReceiptLost, Fails, Fault, Proc
        <3>2. QED
            BY <3>1, <1>23 DEF Onward, Working, Resolving, Leaves
    <2>3. QED
        BY <2>1, <2>2, <1>1, OnwardIfMoves DEF MovesOn
<1>24. ASSUME NEW a \in Resolvers, Release(a) PROVE \A b \in Resolvers : Onward(b)
    <2>1. \A b \in Resolvers : b # a => proc'[b] = proc[b]
        BY <1>24, <1>1, GoesTyped, IdleTyped DEF Release
    <2>2. Onward(a)
        <3>1. \/ proc'[a].at \in {"stuck", "idle"} /\ Leaves(a)
              \/ /\ proc'[a].at = "close" /\ proc'[a].row = proc[a].row
                 /\ proc'[a].result = proc[a].result
            BY <1>24, <1>1, GoesTyped, IdleTyped DEF Release, Leaves
        <3>2. QED
            BY <3>1, <1>24 DEF Onward, Working, Resolving
    <2>3. QED
        BY <2>1, <2>2, <1>1, OnwardIfMoves DEF MovesOn
<1>25. ASSUME NEW k \in Keys, FallbackStart(k) PROVE \A b \in Resolvers : Onward(b)
    <2>1. proc' = [proc EXCEPT !["fallback"] =
                [Idle EXCEPT !.at = "acquire", !.row = k, !.result = rows[k].result]]
        BY <1>25 DEF FallbackStart
    <2>2. /\ \A b \in Actors : b # "fallback" => proc'[b] = proc[b]
          /\ proc'["fallback"].at = "acquire" /\ proc'["fallback"].row = k
          /\ proc'["fallback"].result = rows[k].result
        BY <2>1, <1>1, IdleTyped DEF Proc
    <2>3. Onward("fallback")
        BY <2>2, <1>25 DEF Onward
    <2>4. QED
        BY <2>2, <2>3, <1>1, OnwardIfMoves DEF MovesOn
<1>26. ASSUME NEW k \in Keys, DrainStart(k) PROVE \A b \in Resolvers : Onward(b)
    <2>1. \A b \in Resolvers : proc'[b] = proc[b]
        BY <1>26, <1>1, IdleTyped DEF DrainStart, Proc
    <2>2. QED
        BY <2>1 DEF Onward
<1>27. ASSUME DrainSend PROVE \A b \in Resolvers : Onward(b)
    <2>1. \A b \in Resolvers : proc'[b] = proc[b]
        BY <1>27, <1>1, GoesTyped, IdleTyped DEF DrainSend
    <2>2. QED
        BY <2>1 DEF Onward
<1>28. ASSUME DrainReceipt PROVE \A b \in Resolvers : Onward(b)
    <2>1. \A b \in Resolvers : proc'[b] = proc[b]
        BY <1>28, <1>1, GoesTyped, IdleTyped DEF DrainReceipt
    <2>2. QED
        BY <2>1 DEF Onward
<1>29. ASSUME DrainLost PROVE \A b \in Resolvers : Onward(b)
    <2>1. \A b \in Resolvers : proc'[b] = proc[b]
        BY <1>29, <1>1, GoesTyped, IdleTyped DEF DrainLost
    <2>2. QED
        BY <2>1 DEF Onward
<1>30. ASSUME MineResolve PROVE \A b \in Resolvers : Onward(b)
    <2>1. tx.by \in Actors => proc[tx.by].outcome = "none"
        BY SenderWaits DEF Waiting, Actors, Ticks
    <2>2. PICK how \in {"success", "reverted", "replaced"} :
              proc' = Answered(how)
        BY <1>30 DEF MineResolve
    <2>3. \A b \in Actors :
             \/ proc'[b] = proc[b]
             \/ /\ b = tx.by /\ proc'[b].at = proc[b].at /\ proc'[b].outcome # "none"
                /\ proc'[b].row = proc[b].row /\ proc'[b].result = proc[b].result
        BY <2>2, <1>1 DEF Answered, Proc
    <2>4. tx.by \in Resolvers => proc[tx.by].at \in {"receipt", "created"}
        BY <1>1, SenderWaits DEF Waiting, PlaceInv, Actors, Ticks, Resolvers, Resolving, DailyTick, RangeTick, TickWork
    <2>5. ASSUME NEW b \in Resolvers PROVE Onward(b)
        BY <2>1, <2>3, <2>4, <1>1, <1>30 DEF Onward, Working, Resolving, Leaves
    <2>6. QED
        BY <2>5
<1>31. ASSUME MineDrain PROVE \A b \in Resolvers : Onward(b)
    <2>1. tx.by \in Actors => proc[tx.by].at \in {"drained", "created"}
        BY <1>31, SenderWaits DEF MineDrain, LifeInv, WaitInv, Actors, Ticks
    <2>2. \A b \in Actors : proc'[b] = proc[b] \/ (b = tx.by /\ proc'[b].at = proc[b].at)
        BY <1>31, <1>1 DEF MineDrain, Answered, Proc
    <2>3. QED
        BY <2>1, <2>2, <1>1 DEF Onward, Working, Resolving, Leaves, Actors
<1>32. ASSUME MineCreate PROVE \A b \in Resolvers : Onward(b)
    <2>1. tx.by \in Actors => proc[tx.by].at \in {"drained", "created"}
        BY <1>32, SenderWaits DEF MineCreate, LifeInv, WaitInv, Actors, Ticks
    <2>2. \A b \in Actors : proc'[b] = proc[b] \/ (b = tx.by /\ proc'[b].at = proc[b].at)
        BY <1>32, <1>1 DEF MineCreate, Answered, Proc
    <2>3. QED
        BY <2>1, <2>2, <1>1 DEF Onward, Working, Resolving, Leaves, Actors
<1>33. ASSUME Cancel PROVE \A b \in Resolvers : Onward(b)
    <2>1. tx.by \in Actors => proc[tx.by].outcome = "none"
        BY SenderWaits DEF Waiting, Actors, Ticks
    <2>2. PICK how \in {"success", "reverted", "replaced"} :
              proc' = Answered(how)
        BY <1>33 DEF Cancel
    <2>3. \A b \in Actors :
             \/ proc'[b] = proc[b]
             \/ /\ b = tx.by /\ proc'[b].at = proc[b].at /\ proc'[b].outcome # "none"
                /\ proc'[b].row = proc[b].row /\ proc'[b].result = proc[b].result
        BY <2>2, <1>1 DEF Answered, Proc
    <2>4. tx.by \in Resolvers => proc[tx.by].at \in {"receipt", "created"}
        BY <1>1, SenderWaits DEF Waiting, PlaceInv, Actors, Ticks, Resolvers, Resolving, DailyTick, RangeTick, TickWork
    <2>5. ASSUME NEW b \in Resolvers PROVE Onward(b)
        BY <2>1, <2>3, <2>4, <1>1, <1>33 DEF Onward, Working, Resolving, Leaves
    <2>6. QED
        BY <2>5
<1>34. ASSUME Crash PROVE \A b \in Resolvers : Onward(b)
    <2>1. \A b \in Actors : proc'[b].at = "idle"
        BY <1>34, <1>1, IdleTyped DEF Crash
    <2>2. QED
        BY <2>1, <1>1, <1>34 DEF Onward, Working, Resolving, Leaves, Crash, Fault
<1>35. QED
    BY <1>2, <1>3, <1>4, <1>5, <1>6, <1>7, <1>8, <1>9, <1>10, <1>11, <1>12, <1>13,
       <1>14, <1>15, <1>16, <1>17, <1>18, <1>19, <1>20, <1>21, <1>22, <1>23, <1>24,
       <1>25, <1>26, <1>27, <1>28, <1>29, <1>30, <1>31, <1>32, <1>33, <1>34
       DEF Next, Works, TickStep, ResolveStep, FallbackStep, DrainStep, ChainStep,
           CallFails, Resolvers

\* No two rows of range markets have the same market.
LEMMA SameMarket ==
    ASSUME LifeInv, family = "range", NEW j \in Keys, NEW k \in Keys,
           rows[j].market = rows[k].market, rows[k].market # None
    PROVE  j = k
BY DEF LifeInv, RangeRows

\* Nobody sends for the market of a row that has a result, but the fallback;
\* nobody sends for the market of the worker's row, but the worker.
LEMMA RangeSenders ==
    ASSUME LifeInv, family = "range", NEW a \in Resolvers, proc[a].at = "send",
           NEW k \in Keys, rows[k].market # None, Target(a) = rows[k].market
    PROVE  /\ k = proc[a].row
           /\ \/ a = "worker" /\ rows[k].status = "open"
              \/ a = "fallback" /\ rows[k].status = "resolved"
<1>1. a \in Actors /\ a \in {"worker", "admin", "fallback"}
    BY DEF Resolvers, Actors, Ticks
<1>2. proc[a].row \in Keys /\ Target(a) = rows[proc[a].row].market
    BY <1>1, TargetOnChain
<1>3. k = proc[a].row
    BY <1>2, SameMarket
<1>4. a # "admin"
    BY DEF LifeInv, PlaceInv
<1>5. proc["worker"].at = "send" => rows[proc["worker"].row].status = "open"
    BY DEF LifeInv, RangeWork
<1>6. proc["fallback"].at = "send" => rows[proc["fallback"].row].status = "resolved"
    BY DEF LifeInv, RangeWork
<1>7. QED
    BY <1>1, <1>3, <1>4, <1>5, <1>6

\* A row with a result keeps RangeRowWinner, and the worker's close begins it.
LEMMA RangeRowWinnerStep ==
    ASSUME LifeInv, RangeWinner, Next, family = "range", NEW k \in Keys, rows'[k].result # None
    PROVE  /\ Settled(rows[k].market)' /\ rows'[k].market \notin byHand' =>
                 rows'[k].result = chain'[rows'[k].market].result
           /\ tx'.op = "resolve" /\ tx'.market = rows'[k].market => tx'.result = rows'[k].result
<1>1. CASE rows[k].result # None /\ rows'[k].result = rows[k].result
           /\ rows'[k].market = rows[k].market
    <2>1. PICK m \in DOMAIN chain : m = rows[k].market /\ m # None
        BY <1>1, RowTyped DEF LifeInv, RangeRows
    <2>2. /\ rows[k].status = "resolved"
          /\ Settled(m) /\ m \notin byHand => rows[k].result = chain[m].result
          /\ tx.op = "resolve" /\ tx.market = m => tx.result = rows[k].result
        BY <1>1, <2>1 DEF LifeInv, RangeRows, RangeWinner, RangeRowWinner
    <2>3. ASSUME Settled(m)', m \notin byHand' PROVE rows[k].result = chain'[m].result
        <3>1. m \notin byHand /\ ~\E r \in Results : ByHand(m, r)
            BY <2>3, ByHandGrows DEF ByHand
        <3>2. CASE chain'[m].result = chain[m].result
            BY <2>2, <2>3, <3>1, <3>2 DEF Settled
        <3>3. CASE MineResolve /\ tx.market = m /\ chain'[m].result = tx.result
            BY <2>2, <3>3 DEF MineResolve
        <3>4. QED
            BY <3>1, <3>2, <3>3, ChainFields
    <2>4. ASSUME tx'.op = "resolve", tx'.market = m PROVE tx'.result = rows[k].result
        <3>1. CASE tx.op = "resolve" /\ tx'.market = tx.market /\ tx'.result = tx.result
            BY <2>2, <2>4, <3>1
        <3>2. ASSUME NEW a \in Resolvers, proc[a].at = "send", tx'.market = Target(a),
                     tx'.result = proc[a].result
              PROVE  tx'.result = rows[k].result
            <4>1. Target(a) = rows[k].market /\ rows[k].market # None
                BY <2>1, <2>4, <3>2
            <4>2. k = proc[a].row /\ a = "fallback"
                BY <2>2, <3>2, <4>1, RangeSenders
            <4>3. QED
                BY <3>2, <4>2 DEF RangeWinner
        <3>3. QED
            BY <2>4, <3>1, <3>2, Resolvings
    <2>5. Settled(rows[k].market)' = Settled(m)'
        BY <1>1, <2>1 DEF Settled
    <2>6. QED
        BY <1>1, <2>1, <2>3, <2>4, <2>5
<1>2. CASE CloseRange("worker") /\ k = proc["worker"].row
           /\ rows'[k].result = proc["worker"].result /\ rows'[k].market = rows[k].market
    <2>1. chain' = chain /\ tx' = tx /\ byHand' = byHand /\ proc["worker"].at = "close"
        BY <1>2 DEF CloseRange, history
    <2>2. /\ Settled(rows[k].market) /\ rows[k].market \notin byHand =>
                chain[rows[k].market].result = proc["worker"].result
          /\ ~(tx.op = "resolve" /\ tx.market = rows[k].market)
        BY <1>2, <2>1 DEF RangeWinner, AnsweredWinner, Target
    <2>3. QED
        BY <1>2, <2>1, <2>2 DEF Settled
<1>3. QED
    BY <1>1, <1>2, RangeResults

\* The worker that is answered keeps what AnsweredWinner says, through any step.
LEMMA AnsweredWinnerStep ==
    ASSUME LifeInv, FirstInv, RangeWinner, Next, family = "range",
           proc'["worker"].at = "close" \/ (proc'["worker"].at = "receipt" /\ proc'["worker"].outcome # "none")
    PROVE  /\ Settled(Target("worker"))' /\ Target("worker")' \notin byHand' =>
                 chain'[Target("worker")'].result = proc'["worker"].result
           /\ ~(tx'.op = "resolve" /\ tx'.market = Target("worker")')
<1>1. proc \in [Actors -> Proc] /\ "worker" \in Resolvers /\ "worker" \in Actors
    BY DEF LifeInv, TypeOK, SettlementTypeOK, Resolvers, Ticks, Actors
<1>2. /\ proc["worker"].at \in {"receipt", "close"}
      /\ proc'["worker"].row = proc["worker"].row /\ proc'["worker"].result = proc["worker"].result
      /\ \/ proc["worker"].at = "close" \/ (proc["worker"].at = "receipt" /\ proc["worker"].outcome # "none")
         \/ Waiting("worker") /\ tx.by = "worker" /\ (MineResolve \/ Cancel)
    <2>1. Onward("worker")
        BY <1>1, WorkMoves
    <2>2. ~Release("worker")
        BY DEF Release, LifeInv, PlaceInv, Ticks, RangeTick
    <2>3. QED
        BY <2>1, <2>2 DEF Onward, Working, Resolving, Receipt, Waiting
<1>3. PICK k \in Keys : k = proc["worker"].row /\ rows[k].status = "open" /\ rows[k].market # None
    <2>1. HasRow("worker")
        BY <1>2 DEF HasRow, TickWork, Resolving
    <2>2. QED
        BY <1>1, <1>2, <2>1 DEF LifeInv, PlaceInv, RangeWork, RangeRows
<1>4. PICK m \in DOMAIN chain : m = rows[k].market
    BY <1>3, RowTyped DEF LifeInv
<1>5. Target("worker") = m /\ Target("worker")' = m
    <2>1. rows'[k].market = m
        BY <1>3, <1>4, MarketKept
    <2>2. QED
        BY <1>2, <1>3, <1>4, <2>1 DEF Target
<1>6. ASSUME Settled(m)', m \notin byHand'
      PROVE  chain'[m].result = proc["worker"].result
    <2>1. m \notin byHand /\ ~\E r \in Results : ByHand(m, r)
        BY <1>6, ByHandGrows DEF ByHand
    <2>2. CASE proc["worker"].at = "close" \/ (proc["worker"].at = "receipt" /\ proc["worker"].outcome # "none")
        <3>1. /\ Settled(m) => chain[m].result = proc["worker"].result
              /\ ~(tx.op = "resolve" /\ tx.market = m)
            BY <1>5, <2>1, <2>2 DEF RangeWinner, AnsweredWinner
        <3>2. chain'[m].result = chain[m].result
            BY <2>1, <3>1, ChainFields DEF MineResolve
        <3>3. QED
            BY <1>6, <3>1, <3>2 DEF Settled
    <2>3. CASE Waiting("worker") /\ tx.by = "worker"
        <3>1. tx.op = "resolve" /\ tx.result = proc["worker"].result /\ tx.market = m
            <4>1. tx.op \in {"resolve", "create", "drain"}
                BY <2>3, SenderWaits DEF LifeInv, TypeOK, SettlementTypeOK, Tx, TxInv
            <4>2. tx.op = "resolve" /\ tx.result = proc["worker"].result
                BY <1>2, <2>3, <4>1 DEF LifeInv, WaitInv
            <4>3. QED
                BY <1>5, <2>3, <4>2 DEF LifeInv, TargetInv
        <3>2. ~Settled(m)
            BY <2>1, <3>1 DEF FirstInv
        <3>3. QED
            BY <1>6, <2>1, <3>1, <3>2, ChainFields DEF Settled
    <2>4. QED
        BY <1>2, <2>2, <2>3
<1>7. ~(tx'.op = "resolve" /\ tx'.market = m)
    <2>1. CASE MineResolve \/ Cancel
        BY <2>1 DEF MineResolve, Cancel, NoTx
    <2>2. CASE ~MineResolve /\ ~Cancel
        <3>1. ~(tx.op = "resolve" /\ tx.market = m)
            BY <1>2, <1>5, <2>2 DEF RangeWinner, AnsweredWinner
        <3>2. ASSUME NEW a \in Resolvers, proc[a].at = "send" PROVE Target(a) # m
            BY <1>2, <1>3, <1>4, <3>2, RangeSenders
        <3>3. QED
            BY <3>1, <3>2, Resolvings
    <2>3. QED
        BY <2>1, <2>2
<1>8. Settled(Target("worker"))' = Settled(m)'
    BY <1>5 DEF Settled
<1>9. QED
    BY <1>2, <1>5, <1>6, <1>7, <1>8

\* RangeWinner is inductive, relative to LifeInv and FirstInv.
LEMMA RangeWinnerStep == LifeInv /\ FirstInv /\ RangeWinner /\ Next => RangeWinner'
<1> SUFFICES ASSUME LifeInv, FirstInv, RangeWinner, Next, family = "range" PROVE RangeWinner'
    BY FamilyStays DEF RangeWinner
<1>1. \A k \in Keys : RangeRowWinner(k)'
    BY RangeRowWinnerStep DEF RangeRowWinner
<1>2. AnsweredWinner'
    BY AnsweredWinnerStep DEF AnsweredWinner
<1>3. ASSUME proc'["fallback"].at # "idle"
      PROVE  /\ proc'["fallback"].result = rows'[proc'["fallback"].row].result
             /\ proc'["fallback"].result # None
    <2>1. "fallback" \in Resolvers /\ Onward("fallback")
        BY WorkMoves DEF Resolvers
    <2>2. proc'["fallback"].at \in Resolving
        BY <1>3, LifeStep DEF LifeInv, PlaceInv
    <2>3. ~TickStart("fallback") /\ ~RangeStart("fallback") /\ ~Price("fallback")
          /\ proc'["fallback"].at # "close"
        BY <2>2 DEF TickStart, RangeStart, Price, Daily, Ranged, Ticks, Resolving, LifeInv, PlaceInv
    <2>4. \/ /\ proc["fallback"].at # "idle"
             /\ proc'["fallback"].row = proc["fallback"].row
             /\ proc'["fallback"].result = proc["fallback"].result
          \/ \E k \in Keys : FallbackStart(k) /\ proc'["fallback"].row = k
                             /\ proc'["fallback"].result = rows[k].result
        BY <1>3, <2>1, <2>2, <2>3 DEF Onward, Working, Resolving, Acquire, Send, SendRejected
    <2>5. CASE \E k \in Keys : FallbackStart(k) /\ proc'["fallback"].row = k
                               /\ proc'["fallback"].result = rows[k].result
        BY <2>5 DEF FallbackStart, Unsettled
    <2>6. CASE /\ proc["fallback"].at # "idle"
               /\ proc'["fallback"].row = proc["fallback"].row
               /\ proc'["fallback"].result = proc["fallback"].result
        <3>1. PICK k \in Keys : k = proc["fallback"].row
            BY <2>6 DEF LifeInv, PlaceInv, HasRow, TickWork, Actors
        <3>2. rows[k].status = "resolved" /\ proc["fallback"].result = rows[k].result
              /\ proc["fallback"].result # None
            BY <2>6, <3>1 DEF LifeInv, RangeWork, RangeWinner
        <3>3. rows'[k].result = rows[k].result
            BY <3>2, RangeResults
        <3>4. QED
            BY <2>6, <3>1, <3>2, <3>3
    <2>7. QED
        BY <2>4, <2>5, <2>6
<1>4. QED
    BY <1>1, <1>2, <1>3, FamilyStays DEF RangeWinner

---------------------------------------------------------------------------
(* The winner of a 24-hour market, as long as no call is lost *)

At(a, k, places) == proc[a].row = k /\ proc[a].at \in places
Holding == {"send", "receipt", "release", "close"}

\* Who holds a market has its lock; nobody has settled it before it sends, and
\* what settles it is its own result.
HolderLocks(k) ==
    \A a \in Resolvers : At(a, k, Holding) =>
        /\ k \in locks
        /\ proc[a].at # "release"
        /\ Settled(k) => chain[k].result = proc[a].result
        /\ proc[a].at = "send" \/ (proc[a].at = "receipt" /\ proc[a].outcome = "none") => ~Settled(k)

OneHolder(k) == \A a, b \in Resolvers : At(a, k, Holding) /\ At(b, k, Holding) => a = b

\* Only a settled market can get a result while a tick holds it.
Unpublished(k) == \A a \in Ticks : At(a, k, Holding) => rows[k].result = None \/ Settled(k)

\* A tick on its way to a lock that is free finds the market as it was.
Untouched(k) ==
    \A a \in Ticks : At(a, k, {"price", "acquire"}) /\ k \notin locks =>
        ~Settled(k) /\ rows[k].result = None /\ ~At("fallback", k, Resolving)

\* The fallback works with the result of the row.
FallbackAgrees(k) ==
    At("fallback", k, Resolving) =>
        /\ rows[k].resolved
        /\ rows[k].result \in {None, proc["fallback"].result}
        /\ \A a \in Ticks : ~At(a, k, Holding)
        /\ proc["fallback"].at = "acquire" => ~Settled(k)

\* A settled market is resolved in its row, or about to be.
SettledIsSeen(k) ==
    Settled(k) => rows[k].resolved \/ \E a \in Ticks : At(a, k, {"receipt", "close"})

Published(k) == rows[k].result # None /\ Settled(k) => rows[k].result = chain[k].result

Quiet(k) ==
    /\ HolderLocks(k) /\ OneHolder(k) /\ Unpublished(k) /\ Untouched(k)
    /\ FallbackAgrees(k) /\ SettledIsSeen(k) /\ Published(k)

DailyWinner ==
    family = "24h" /\ faults = 0 =>
        /\ tx # NoTx => tx.by # "nobody"
        /\ \A k \in DOMAIN chain \ byHand : Quiet(k)

\* Without a fault by the end of a step there was none before it.
LEMMA NoFault ==
    ASSUME LifeInv, Next, faults' = 0
    PROVE  faults = 0 /\ faults' # faults + 1 /\ ~Fault
<1>1. faults \in Nat
    BY DEF LifeInv, TypeOK, SettlementTypeOK
<1>2. QED
    BY <1>1, Troubles DEF Fault

\* A process that has a row of a 24-hour market works for that market.
LEMMA WorksFor ==
    ASSUME LifeInv, family = "24h", NEW a \in Resolvers, NEW k \in Keys,
           At(a, k, TickWork)
    PROVE  Target(a) = k /\ rows[k].market = k /\ k # None
<1>1. a \in Actors /\ HasRow(a) /\ proc[a].row = k
    BY DEF Resolvers, Actors, At, HasRow
<1>2. rows[k].market = k
    BY <1>1 DEF LifeInv, DailyRows, DailyRow
<1>3. rows[k].status # "absent" => k \in DOMAIN chain
    BY DEF LifeInv, DailyRows, DailyRow
<1>4. k \in DOMAIN chain
    BY <1>1, <1>3 DEF LifeInv, DailyRows
<1>5. QED
    BY <1>1, <1>2, <1>4, NumbersOnChain DEF Target, LifeInv, None

\* The transaction that settles a market is the one its holder waits for.
LEMMA HolderSettles ==
    ASSUME LifeInv, DailyWinner, family = "24h", faults = 0, MineResolve,
           NEW k \in Keys, tx.market = k
    PROVE  \E b \in Resolvers : /\ tx.by = b /\ At(b, k, {"receipt"}) /\ At(b, k, Holding)
                                /\ proc[b].outcome = "none" /\ tx.result = proc[b].result
<1>1. tx.op = "resolve" /\ tx # NoTx /\ tx.by # "nobody"
    BY DEF MineResolve, NoTx, DailyWinner
<1>2. /\ tx.by \in Actors /\ proc[tx.by].at = "receipt" /\ proc[tx.by].outcome = "none"
      /\ tx.result = proc[tx.by].result /\ Target(tx.by) = k
    BY <1>1, SenderWaits DEF LifeInv, WaitInv, TargetInv
<1>3. PICK b \in Resolvers : b = tx.by
    BY <1>2 DEF LifeInv, PlaceInv, Actors, Resolvers
<1>4. proc[b].row \in Keys /\ At(b, proc[b].row, TickWork)
    BY <1>2, <1>3 DEF LifeInv, PlaceInv, HasRow, TickWork, Resolving, At
<1>5. proc[b].row = k
    BY <1>2, <1>3, <1>4, WorksFor
<1>6. QED
    BY <1>2, <1>3, <1>5 DEF At, Holding

\* How the result of a 24-hour market comes about.
LEMMA DailySettled ==
    ASSUME LifeInv, DailyWinner, Next, family = "24h", faults = 0,
           NEW k \in Keys, k \in DOMAIN chain, k \notin byHand'
    PROVE  \/ chain'[k].result = chain[k].result /\ Settled(k)' = Settled(k)
           \/ /\ MineResolve /\ ~Settled(k) /\ rows' = rows
              /\ \E b \in Resolvers : /\ tx.by = b /\ At(b, k, {"receipt"}) /\ At(b, k, Holding)
                                      /\ proc[b].outcome = "none" /\ chain'[k].result = proc[b].result
<1>1. ~\E r \in Results : ByHand(k, r)
    BY DEF ByHand
<1>2. CASE chain'[k].result = chain[k].result
    BY <1>2 DEF Settled
<1>3. CASE MineResolve /\ tx.market = k /\ ~Settled(k) /\ chain'[k].result = tx.result
    BY <1>3, HolderSettles DEF MineResolve
<1>4. QED
    BY <1>1, <1>2, <1>3, ChainFields

\* How the row of a 24-hour market gets its result.
LEMMA DailyResults ==
    ASSUME LifeInv, Next, family = "24h", NEW k \in Keys
    PROVE  /\ rows[k].resolved => rows'[k].resolved
           /\ \/ rows'[k].result = rows[k].result
              \/ rows'[k].result = None
              \/ \E a \in Ticks : Close(a) /\ proc[a].row = k /\ rows'[k].result = proc[a].result
              \/ HandleResolved(k) /\ rows'[k].result = chain[k].result
<1> DEFINE Done == rows[k].resolved => rows'[k].resolved
<1>1. /\ rows \in [Keys -> Row] /\ TypeOK /\ PlaceInv /\ rows[k] \in Row
      /\ \A j \in Keys : DailyRow(j)
    BY DEF LifeInv, TypeOK, SettlementTypeOK, DailyRows
<1>2. CASE rows' = rows
    BY <1>2
<1>3. ASSUME NEW a \in Ticks, Close(a)
      PROVE  Done /\ (rows'[k].result = rows[k].result
                      \/ (proc[a].row = k /\ rows'[k].result = proc[a].result))
    <2>1. a \in Actors /\ HasRow(a)
        BY <1>3 DEF Close, HasRow, TickWork, Actors
    <2>2. PICK j \in Keys : j = proc[a].row
        BY <2>1, WorkedRow
    <2>3. rows' = [rows EXCEPT ![j].resolved = TRUE, ![j].result = proc[a].result,
                               ![j].status = "resolved"]
        BY <1>3, <2>2 DEF Close, Closed
    <2>4. CASE j = k
        BY <1>1, <2>2, <2>3, <2>4 DEF Row
    <2>5. CASE j # k
        BY <1>1, <2>3, <2>5
    <2>6. QED
        BY <2>4, <2>5
<1>4. ASSUME NEW a \in Ticks, Stuck(a)
      PROVE  Done /\ (rows'[k].result = rows[k].result \/ rows'[k].result = None)
    <2>1. a \in Actors /\ HasRow(a)
        BY <1>4 DEF Stuck, HasRow, TickWork, Actors
    <2>2. PICK j \in Keys : j = proc[a].row
        BY <2>1, WorkedRow
    <2>3. \/ rows' = rows
          \/ rows' = [rows EXCEPT ![j].resolved = TRUE, ![j].result = None, ![j].status = "cancelled"]
        BY <1>4, <2>2 DEF Stuck
    <2>4. CASE j = k
        BY <1>1, <2>3, <2>4 DEF Row
    <2>5. CASE j # k
        BY <1>1, <2>3, <2>5
    <2>6. QED
        BY <2>4, <2>5
<1>5. ASSUME NEW a \in Ticks, Created(a)
      PROVE  Done /\ rows'[k].result = rows[k].result
    <2>1. PICK j \in Keys : j = proc[a].made
        BY <1>5, MadeOnChain DEF Created, Daily
    <2>2. rows' = [rows EXCEPT ![j] = [rows[j] EXCEPT !.status = "open", !.market = j,
                                                      !.day = chain[j].day]]
        BY <1>1, <1>5, <2>1 DEF Created, Inserted
    <2>3. CASE j = k
        BY <1>1, <2>2, <2>3 DEF Row
    <2>4. CASE j # k
        BY <1>1, <2>2, <2>4
    <2>5. QED
        BY <2>3, <2>4
<1>6. ASSUME ForceCreate PROVE Done /\ rows'[k].result = rows[k].result
    <2>1. rows' = [j \in Keys |->
                     IF Active(j) /\ Ended(rows[j].day)
                     THEN [rows[j] EXCEPT !.resolved = TRUE, !.status = "resolved"] ELSE rows[j]]
        BY <1>6 DEF ForceCreate
    <2>2. /\ [rows[k] EXCEPT !.resolved = TRUE, !.status = "resolved"].resolved
          /\ [rows[k] EXCEPT !.resolved = TRUE, !.status = "resolved"].result = rows[k].result
        BY <1>1 DEF Row
    <2>3. QED
        BY <2>1, <2>2
<1>7. ASSUME NEW j \in Keys, DrainHeal(j) PROVE Done /\ rows'[k].result = rows[k].result
    <2>1. PICK w \in 0..2 \cup {chain[rows[j].market].withdrawn} :
              rows' = [rows EXCEPT ![j].drained = TRUE, ![j].withdrawn = w]
        BY <1>7 DEF DrainHeal
    <2>2. QED
        BY <1>1, <2>1 DEF Row
<1>8. ASSUME DrainReceipt PROVE Done /\ rows'[k].result = rows[k].result
    <2>1. HasRow("drain") /\ "drain" \in Actors
        BY <1>8 DEF DrainReceipt, HasRow, Actors
    <2>2. PICK j \in Keys, w \in {RecordedAmount(proc["drain"].row)} :
              rows' = rows \/ rows' = [rows EXCEPT ![j].drained = TRUE, ![j].withdrawn = w]
        BY <1>8, <2>1, WorkedRow DEF DrainReceipt
    <2>3. QED
        BY <1>1, <2>2 DEF Row
<1>9. ASSUME NEW m \in DOMAIN chain, HandleCreated(m)
      PROVE  Done /\ (rows'[k].result = rows[k].result \/ rows'[k].result = None)
    <2>1. m \in Keys /\ rows[m] = NoRow
        BY <1>1, <1>9, NumbersOnChain DEF HandleCreated, LifeInv, DailyRows, DailyRow
    <2>2. rows' = [rows EXCEPT ![m] = [NoRow EXCEPT !.status = "plain", !.market = m,
                                                    !.day = chain[m].day]]
        BY <1>9 DEF HandleCreated
    <2>3. CASE m = k
        BY <1>1, <2>1, <2>2, <2>3 DEF NoRow
    <2>4. CASE m # k
        BY <1>1, <2>2, <2>4
    <2>5. QED
        BY <2>3, <2>4
<1>10. ASSUME NEW m \in DOMAIN chain, HandleResolved(m)
       PROVE  Done /\ (rows'[k].result = rows[k].result
                       \/ (HandleResolved(k) /\ rows'[k].result = chain[k].result))
    <2>1. \/ rows' = rows
          \/ rows' = [rows EXCEPT ![m].resolved = TRUE, ![m].result = chain[m].result,
                                  ![m].status = "resolved"]
        BY <1>10 DEF HandleResolved
    <2>2. CASE m = k
        BY <1>1, <1>10, <2>1, <2>2 DEF Row
    <2>3. CASE m # k
        BY <1>1, <2>1, <2>3
    <2>4. QED
        BY <2>2, <2>3
<1>11. \A a \in Ticks : ~(CloseRange(a) \/ Ensure(a) \/ CreatedRange(a))
    BY <1>1 DEF CloseRange, Ensure, CreatedRange, Ranged, PlaceInv, DailyTick, TickWork, Resolving
<1>12. \A a \in Ticks : CreateFails(a) \/ NotCreated(a) \/ CreateLost(a) => rows' = rows
    BY DEF CreateFails, NotCreated, CreateLost, GivenUp, Ranged
<1>13. QED
    BY <1>2, <1>3, <1>4, <1>5, <1>6, <1>7, <1>8, <1>9, <1>10, <1>11, <1>12, RowWriters

\* Who writes a lock.
LEMMA LockWriters == Next =>
    \/ locks' = locks
    \/ \E a \in Resolvers : Acquire(a) \/ Release(a)
    \/ \E k \in Keys : LockExpires(k)
    BY DEF Next, Works, TickStep, ResolveStep, FallbackStep, DrainStep, ChainStep,
           CallFails, TickStart, RangeStart, Price, Close, Stuck, Check, CloseRange,
           Ensure, CreateSend, CreateFails, NotCreated, Created, CreatedRange,
           CreateLost, ForceCreate, Acquire, Send, SendRejected, SendFails, Receipt,
           ReceiptLost, Release, FallbackStart, DrainHeal, DrainStart, DrainSend,
           DrainReceipt, DrainLost, MineResolve, MineDrain, MineCreate, Cancel, Clock,
           Crash, LockExpires, HandleCreated, HandleResolved, Redeem, ByHand, events,
           history, Resolvers

\* Who has a market's lock had it before, or has just taken it while it was free.
LEMMA HeldBefore ==
    ASSUME LifeInv, Next, family = "24h", faults' = 0, NEW k \in Keys, HolderLocks(k),
           NEW a \in Resolvers, At(a, k, Holding)'
    PROVE  /\ proc'[a].at # "release"
           /\ proc'[a].result = proc[a].result
           /\ \/ At(a, k, Holding) /\ (proc'[a] = proc[a] \/ proc'[a].at # "send")
              \/ Acquire(a) /\ At(a, k, {"acquire"}) /\ k \notin locks /\ proc'[a].at = "send"
<1>1. Onward(a) /\ proc'[a].row = k /\ proc'[a].at \in Holding
    BY WorkMoves DEF At
<1>2. proc[a].row = k /\ proc[a].at \in Holding => proc[a].at # "release"
    BY DEF HolderLocks, At
<1>3. ~(SendRejected(a) /\ proc[a].row = k)
    <2>1. SUFFICES ASSUME SendRejected(a), proc[a].row = k PROVE FALSE
        OBVIOUS
    <2>2. At(a, k, Holding) /\ At(a, k, TickWork) /\ proc[a].at = "send"
        BY <2>1 DEF SendRejected, At, Holding, TickWork, Resolving
    <2>3. Target(a) = k /\ Settled(Target(a))
        BY <2>1, <2>2, WorksFor DEF SendRejected
    <2>4. QED
        BY <2>2, <2>3 DEF HolderLocks
<1>4. ~(Release(a) /\ proc[a].row = k)
    BY <1>2 DEF Release, Holding
<1>5. ~RangeStart(a) /\ faults' # faults + 1
    BY NoFault DEF RangeStart, Ranged
<1>6. CASE proc'[a] = proc[a]
    BY <1>1, <1>2, <1>6 DEF At
<1>7. CASE Acquire(a) /\ proc'[a].at = "send" /\ proc'[a].row = proc[a].row
           /\ proc'[a].result = proc[a].result /\ proc[a].row \notin locks
    BY <1>1, <1>7 DEF Acquire, At
<1>8. CASE Send(a) /\ proc'[a].at = "receipt" /\ proc'[a].row = proc[a].row
           /\ proc'[a].result = proc[a].result
    BY <1>1, <1>8 DEF Send, At, Holding
<1>9. CASE Receipt(a) /\ proc'[a].at = "close" /\ proc'[a].row = proc[a].row
           /\ proc'[a].result = proc[a].result
    BY <1>1, <1>9 DEF Receipt, At, Holding
<1>10. CASE /\ proc[a].at = "receipt" /\ proc'[a].at = "receipt" /\ proc'[a].row = proc[a].row
            /\ proc'[a].result = proc[a].result
    BY <1>1, <1>10 DEF At, Holding
<1>11. proc'[a].at \notin {"price", "acquire"}
    BY <1>1 DEF Holding
<1>12. QED
    BY <1>1, <1>3, <1>4, <1>5, <1>6, <1>7, <1>8, <1>9, <1>10, <1>11
       DEF Onward, Working, Resolving, Holding

\* The fallback works on a market with the result it has begun with.
LEMMA FallbackBefore ==
    ASSUME LifeInv, Next, NEW k \in Keys, At("fallback", k, Resolving)'
    PROVE  \/ /\ At("fallback", k, Resolving) /\ proc'["fallback"].result = proc["fallback"].result
              /\ proc'["fallback"].at = "acquire" => proc'["fallback"] = proc["fallback"]
           \/ FallbackStart(k) /\ proc'["fallback"].result = rows[k].result
<1>1. Onward("fallback") /\ proc'["fallback"].row = k /\ proc'["fallback"].at \in Resolving
    BY WorkMoves DEF At, Resolvers
<1>2. ~TickStart("fallback") /\ ~RangeStart("fallback") /\ ~Price("fallback")
      /\ proc'["fallback"].at # "close"
    BY <1>1 DEF TickStart, RangeStart, Price, Daily, Ranged, Ticks, Resolving, LifeInv, PlaceInv
<1>3. \/ /\ proc["fallback"].at \in Resolving /\ proc'["fallback"].row = proc["fallback"].row
         /\ proc'["fallback"].result = proc["fallback"].result
         /\ proc'["fallback"].at = "acquire" => proc'["fallback"] = proc["fallback"]
      \/ \E j \in Keys : FallbackStart(j) /\ proc'["fallback"].row = j
                         /\ proc'["fallback"].result = rows[j].result
    BY <1>1, <1>2 DEF Onward, Working, Resolving, Acquire, Send, SendRejected
<1>4. QED
    BY <1>1, <1>3 DEF At

\* A tick on its way to the lock was so before, or has just begun.
LEMMA TickBefore ==
    ASSUME LifeInv, Next, NEW k \in Keys, NEW a \in Ticks, At(a, k, {"price", "acquire"})'
    PROVE  At(a, k, {"price", "acquire"}) \/ (TickStart(a) /\ Active(k))
<1>1. Onward(a) /\ proc'[a].row = k /\ proc'[a].at \in {"price", "acquire"} /\ a # "fallback"
    BY WorkMoves DEF At, Resolvers, Ticks
<1>2. QED
    BY <1>1 DEF Onward, Working, Resolving, Price, At

\* A tick leaves the end of a resolution only to close the row.
LEMMA TickLeaves ==
    ASSUME LifeInv, Next, family = "24h", faults' = 0, NEW k \in Keys, NEW a \in Ticks,
           At(a, k, {"receipt", "close"})
    PROVE  At(a, k, {"receipt", "close"})' \/ Close(a)
<1>1. /\ proc[a].row = k /\ proc[a].at \in {"receipt", "close"}
      /\ a \in Ticks /\ a \in Resolvers /\ a # "fallback"
    BY DEF At, Resolvers, Ticks
<1>2. faults' # faults + 1 /\ ~CloseRange(a) /\ Onward(a)
    BY <1>1, NoFault, WorkMoves DEF CloseRange, Ranged
<1>3. Close(a) \/ (proc'[a].row = k /\ proc'[a].at \in {"receipt", "close"})
    BY <1>1, <1>2
       DEF Onward, Leaves, TickStart, RangeStart, Price, Acquire, Send, SendRejected, Receipt, Release
<1>4. QED
    BY <1>3 DEF At

\* A free lock is taken by its owner alone; it expires under nobody.
LEMMA DailyLocks ==
    ASSUME LifeInv, Next, family = "24h", faults' = 0, NEW k \in Keys, HolderLocks(k)
    PROVE  /\ k \in locks /\ k \notin locks' => ~Occupied(k) /\ UNCHANGED <<chain, rows, proc>>
           /\ \A a \in Resolvers : Acquire(a) /\ At(a, k, {"acquire"}) /\ k \notin locks =>
                 /\ k \in locks' /\ UNCHANGED <<chain, rows>>
                 /\ \A b \in Resolvers : b # a => proc'[b] = proc[b]
<1>1. proc \in [Actors -> Proc] /\ Resolvers \subseteq Actors
    BY DEF LifeInv, TypeOK, SettlementTypeOK, Actors, Resolvers
<1>2. ASSUME NEW a \in Resolvers, Acquire(a), At(a, k, {"acquire"}), k \notin locks
      PROVE  /\ k \in locks' /\ UNCHANGED <<chain, rows>>
             /\ \A b \in Resolvers : b # a => proc'[b] = proc[b]
    BY <1>1, <1>2, GoesTyped DEF Acquire, At
<1>3. ASSUME k \in locks, k \notin locks'
      PROVE  ~Occupied(k) /\ UNCHANGED <<chain, rows, proc>>
    <2>1. \A a \in Resolvers : ~(Release(a) /\ k = proc[a].row)
        BY DEF Release, HolderLocks, At, Holding
    <2>2. ~(LockExpires(k) /\ Occupied(k))
        BY NoFault DEF LockExpires
    <2>3. LockExpires(k)
        BY <1>3, <2>1, LockWriters DEF Release, Acquire, LockExpires
    <2>4. QED
        BY <2>2, <2>3 DEF LockExpires
<1>4. QED
    BY <1>2, <1>3

\* A step of a behaviour without faults, and a market nobody resolves by hand.
QuietBefore(k) ==
    /\ LifeInv /\ DailyWinner /\ Next
    /\ family = "24h" /\ faults = 0 /\ faults' = 0
    /\ k \in Keys /\ k \in DOMAIN chain /\ k \notin byHand' /\ k # None
    /\ HolderLocks(k) /\ OneHolder(k) /\ Unpublished(k) /\ Untouched(k)
    /\ FallbackAgrees(k) /\ SettledIsSeen(k) /\ Published(k)

\* What is settled stays so; it is the holder of the market who settles it.
LEMMA SettledStep ==
    ASSUME NEW k, QuietBefore(k)
    PROVE  /\ Settled(k) => Settled(k)' /\ chain'[k].result = chain[k].result
           /\ ~Settled(k) /\ Settled(k)' =>
                 /\ rows' = rows /\ MineResolve
                 /\ \E b \in Resolvers : /\ tx.by = b /\ At(b, k, {"receipt"}) /\ At(b, k, Holding)
                                         /\ proc[b].outcome = "none" /\ chain'[k].result = proc[b].result
<1>1. Settled(k) => Settled(k)' /\ chain'[k].result = chain[k].result
    BY ChainStep1 DEF QuietBefore, ChainGrows
<1>2. QED
    BY <1>1, DailySettled DEF QuietBefore

\* The row is closed by the holder, or copies the chain.
LEMMA ResultStep ==
    ASSUME NEW k, QuietBefore(k)
    PROVE  /\ rows[k].resolved => rows'[k].resolved
           /\ \/ rows'[k].result = rows[k].result
              \/ rows'[k].result = None
              \/ \E a \in Ticks : /\ Close(a) /\ At(a, k, Holding) /\ rows'[k].result = proc[a].result
                                  /\ chain' = chain
              \/ rows'[k].result = chain[k].result /\ Settled(k) /\ UNCHANGED <<chain, proc>>
<1>1. k # None
    BY DEF QuietBefore
<1>2. HandleResolved(k) => UNCHANGED <<chain, proc>>
    BY DEF HandleResolved
<1>3. \A a \in Ticks : Close(a) /\ proc[a].row = k => At(a, k, Holding) /\ chain' = chain
    BY DEF Close, At, Holding
<1>4. chain[k].result = None \/ Settled(k)
    BY <1>1 DEF Settled
<1>5. QED
    BY <1>2, <1>3, <1>4, DailyResults DEF QuietBefore

\* Each part of Quiet is kept: HolderLocks by the lock and by OneHolder,
LEMMA HolderStep == ASSUME NEW k, QuietBefore(k) PROVE HolderLocks(k)'
<1> SUFFICES ASSUME NEW a \in Resolvers, At(a, k, Holding)'
             PROVE  /\ k \in locks'
                    /\ proc'[a].at # "release"
                    /\ Settled(k)' => chain'[k].result = proc'[a].result
                    /\ proc'[a].at = "send" \/ (proc'[a].at = "receipt" /\ proc'[a].outcome = "none")
                          => ~Settled(k)'
    BY DEF HolderLocks
<1>1. /\ proc'[a].at # "release"
      /\ proc'[a].result = proc[a].result
      /\ \/ At(a, k, Holding) /\ (proc'[a] = proc[a] \/ proc'[a].at # "send")
         \/ Acquire(a) /\ At(a, k, {"acquire"}) /\ k \notin locks /\ proc'[a].at = "send"
    BY HeldBefore DEF QuietBefore
<1>2. CASE Acquire(a) /\ At(a, k, {"acquire"}) /\ k \notin locks /\ proc'[a].at = "send"
    <2>1. k \in locks' /\ chain' = chain
        BY <1>2, DailyLocks DEF QuietBefore
    <2>2. ~Settled(k)
        <3>1. CASE a \in Ticks
            BY <1>2, <3>1 DEF QuietBefore, Untouched, At
        <3>2. CASE a = "fallback"
            BY <1>2, <3>2 DEF QuietBefore, FallbackAgrees, At, Resolving
        <3>3. QED
            BY <3>1, <3>2 DEF Resolvers
    <2>3. QED
        BY <1>1, <2>1, <2>2 DEF Settled
<1>3. CASE At(a, k, Holding) /\ (proc'[a] = proc[a] \/ proc'[a].at # "send")
    <2>1. /\ k \in locks
          /\ proc[a].at # "release"
          /\ Settled(k) => chain[k].result = proc[a].result
          /\ proc[a].at = "send" \/ (proc[a].at = "receipt" /\ proc[a].outcome = "none") => ~Settled(k)
        BY <1>3 DEF QuietBefore, HolderLocks
    <2>2. k \in locks'
        <3>1. Occupied(k)
            BY <1>3 DEF Occupied, At, Holding, Resolvers
        <3>2. QED
            BY <2>1, <3>1, DailyLocks DEF QuietBefore
    <2>3. CASE ~Settled(k) /\ Settled(k)'
        <3>1. PICK b \in Resolvers : /\ tx.by = b /\ At(b, k, {"receipt"}) /\ At(b, k, Holding)
                                     /\ proc[b].outcome = "none" /\ chain'[k].result = proc[b].result
            BY <2>3, SettledStep
        <3>2. a = b /\ MineResolve
            BY <1>3, <2>3, <3>1, SettledStep DEF QuietBefore, OneHolder
        <3>3. ~(proc'[a].at = "receipt" /\ proc'[a].outcome = "none")
            <4>1. tx' = NoTx
                BY <3>2 DEF MineResolve
            <4>2. LifeInv'
                BY LifeStep DEF QuietBefore
            <4>3. a \in Actors
                BY DEF Actors, Resolvers
            <4>4. proc'[a].at = "receipt" /\ proc'[a].outcome = "none" => tx'.by = a
                BY <4>2, <4>3 DEF LifeInv, WaitInv
            <4>5. QED
                BY <4>1, <4>3, <4>4 DEF NoTx, Actors, Ticks
        <3>4. proc'[a].at # "send"
            BY <1>3, <3>1, <3>2 DEF At
        <3>5. QED
            BY <1>1, <2>2, <3>1, <3>2, <3>3, <3>4
    <2>4. CASE Settled(k)
        <3>1. Settled(k)' /\ chain'[k].result = chain[k].result
            BY <2>4, SettledStep
        <3>2. proc[a].at # "send" /\ ~(proc[a].at = "receipt" /\ proc[a].outcome = "none")
            BY <2>1, <2>4
        <3>3. ~(proc'[a].at = "receipt" /\ proc'[a].outcome = "none")
            <4>1. Onward(a) /\ faults' # faults + 1 /\ a \in Actors
                BY WorkMoves, NoFault DEF QuietBefore, Actors, Resolvers
            <4>2. ~Send(a)
                BY <3>2 DEF Send
            <4>3. QED
                BY <3>2, <4>1, <4>2 DEF Onward, Working, Resolving
        <3>4. QED
            BY <1>1, <1>3, <2>1, <2>2, <2>4, <3>1, <3>2, <3>3
    <2>5. CASE ~Settled(k)'
        BY <1>1, <2>2, <2>5
    <2>6. QED
        BY <2>3, <2>4, <2>5
<1>4. QED
    BY <1>1, <1>2, <1>3

\* Who held a market is the only one, and keeps others out by its lock.
LEMMA OneHolderStep == ASSUME NEW k, QuietBefore(k) PROVE OneHolder(k)'
<1> SUFFICES ASSUME NEW a \in Resolvers, NEW b \in Resolvers, a # b,
                    At(a, k, Holding)', At(b, k, Holding)'
             PROVE  FALSE
    BY DEF OneHolder
<1>1. ASSUME NEW c \in Resolvers, At(c, k, Holding)'
      PROVE  \/ At(c, k, Holding)
             \/ Acquire(c) /\ At(c, k, {"acquire"}) /\ k \notin locks
    BY <1>1, HeldBefore DEF QuietBefore
<1>2. ASSUME NEW c \in Resolvers, NEW d \in Resolvers, c # d, At(d, k, Holding)',
             Acquire(c), At(c, k, {"acquire"}), k \notin locks
      PROVE  FALSE
    <2>1. proc'[d] = proc[d]
        BY <1>2, DailyLocks DEF QuietBefore
    <2>2. At(d, k, Holding)
        BY <1>2, <2>1 DEF At
    <2>3. QED
        BY <1>2, <2>2 DEF QuietBefore, HolderLocks
<1>3. QED
    BY <1>1, <1>2 DEF QuietBefore, OneHolder

\* Unpublished, since the holder is the only one to close,
LEMMA UnpublishedStep == ASSUME NEW k, QuietBefore(k) PROVE Unpublished(k)'
<1> SUFFICES ASSUME NEW a \in Ticks, At(a, k, Holding)', ~Settled(k)'
             PROVE  rows'[k].result = None
    BY DEF Unpublished
<1>1. a \in Resolvers /\ ~Settled(k)
    BY SettledStep DEF Resolvers
<1>2. CASE Acquire(a) /\ At(a, k, {"acquire"}) /\ k \notin locks
    <2>1. rows' = rows
        BY <1>1, <1>2, DailyLocks DEF QuietBefore
    <2>2. rows[k].result = None
        BY <1>2 DEF QuietBefore, Untouched, At
    <2>3. QED
        BY <2>1, <2>2
<1>3. CASE At(a, k, Holding)
    <2>1. rows[k].result = None
        BY <1>1, <1>3 DEF QuietBefore, Unpublished
    <2>2. ~\E b \in Ticks : Close(b) /\ At(b, k, Holding)
        <3>1. SUFFICES ASSUME NEW b \in Ticks, Close(b), At(b, k, Holding) PROVE FALSE
            OBVIOUS
        <3>2. b = a
            BY <1>1, <1>3, <3>1 DEF QuietBefore, OneHolder, Resolvers
        <3>3. proc'[a].at = "check"
            BY <3>1, <3>2, BeginsTyped DEF Close, QuietBefore, LifeInv, TypeOK, SettlementTypeOK, Actors
        <3>4. QED
            BY <3>3 DEF At, Holding
    <2>3. QED
        BY <1>1, <2>1, <2>2, ResultStep
<1>4. QED
    BY <1>1, <1>2, <1>3, HeldBefore DEF QuietBefore

\* Untouched, since nobody holds the market while its lock is free,
LEMMA UntouchedStep == ASSUME NEW k, QuietBefore(k) PROVE Untouched(k)'
<1> SUFFICES ASSUME NEW a \in Ticks, At(a, k, {"price", "acquire"})', k \notin locks'
             PROVE  ~Settled(k)' /\ rows'[k].result = None /\ ~At("fallback", k, Resolving)'
    BY DEF Untouched
<1>1. k \notin locks
    <2>1. SUFFICES ASSUME k \in locks PROVE FALSE
        OBVIOUS
    <2>2. ~Occupied(k) /\ proc' = proc
        BY <2>1, DailyLocks DEF QuietBefore
    <2>3. QED
        BY <2>2 DEF Occupied, At
<1>2. \A b \in Resolvers : ~At(b, k, Holding)
    BY <1>1 DEF QuietBefore, HolderLocks
<1>3. ~Settled(k) /\ rows[k].result = None /\ ~At("fallback", k, Resolving)
    <2>1. CASE At(a, k, {"price", "acquire"})
        BY <1>1, <2>1 DEF QuietBefore, Untouched
    <2>2. CASE TickStart(a) /\ Active(k)
        <3>1. ~rows[k].resolved
            BY <2>2 DEF Active
        <3>2. ~Settled(k)
            <4>1. \A b \in Ticks : ~At(b, k, {"receipt", "close"})
                BY <1>2 DEF At, Holding, Resolvers
            <4>2. QED
                BY <3>1, <4>1 DEF QuietBefore, SettledIsSeen
        <3>3. rows[k].result = None
            BY <3>1 DEF QuietBefore, LifeInv, DailyRows, DailyRow
        <3>4. QED
            BY <3>1, <3>2, <3>3 DEF QuietBefore, FallbackAgrees
    <2>3. QED
        BY <2>1, <2>2, TickBefore DEF QuietBefore
<1>4. ~Settled(k)'
    BY <1>2, <1>3, SettledStep
<1>5. rows'[k].result = None
    BY <1>2, <1>3, ResultStep DEF Resolvers
<1>6. ~FallbackStart(k)
    BY <1>3 DEF FallbackStart, Unsettled
<1>7. QED
    BY <1>3, <1>4, <1>5, <1>6, FallbackBefore DEF QuietBefore

\* FallbackAgrees, since a tick that holds a market shuts the fallback out,
LEMMA AgreesStep == ASSUME NEW k, QuietBefore(k) PROVE FallbackAgrees(k)'
<1> SUFFICES ASSUME At("fallback", k, Resolving)'
             PROVE  /\ rows'[k].resolved
                    /\ rows'[k].result \in {None, proc'["fallback"].result}
                    /\ \A a \in Ticks : ~At(a, k, Holding)'
                    /\ proc'["fallback"].at = "acquire" => ~Settled(k)'
    BY DEF FallbackAgrees
<1>1. CASE FallbackStart(k) /\ proc'["fallback"].result = rows[k].result
    <2>1. /\ rows[k].resolved /\ rows[k].result # None /\ ~Settled(rows[k].market)
          /\ rows[k].market # None /\ UNCHANGED <<chain, rows>>
        BY <1>1 DEF FallbackStart, Unsettled
    <2>2. rows[k].market = k
        BY <2>1 DEF QuietBefore, LifeInv, DailyRows, DailyRow, NoRow
    <2>3. \A a \in Ticks : proc'[a] = proc[a]
        BY <1>1 DEF FallbackStart, QuietBefore, LifeInv, TypeOK, SettlementTypeOK, Actors, Ticks
    <2>4. \A a \in Ticks : ~At(a, k, Holding)
        BY <2>1, <2>2 DEF QuietBefore, Unpublished
    <2>5. QED
        BY <1>1, <2>1, <2>2, <2>3, <2>4 DEF At, Settled
<1>2. CASE /\ At("fallback", k, Resolving) /\ proc'["fallback"].result = proc["fallback"].result
           /\ proc'["fallback"].at = "acquire" => proc'["fallback"] = proc["fallback"]
    <2>1. /\ rows[k].resolved
          /\ rows[k].result \in {None, proc["fallback"].result}
          /\ \A a \in Ticks : ~At(a, k, Holding)
          /\ proc["fallback"].at = "acquire" => ~Settled(k)
        BY <1>2 DEF QuietBefore, FallbackAgrees
    <2>2. "fallback" \in Resolvers /\ At("fallback", k, {"acquire"} \cup Holding)
        BY <1>2 DEF Resolvers, At, Holding, Resolving
    <2>3. Settled(k) => chain[k].result = proc["fallback"].result
        BY <2>1, <2>2 DEF QuietBefore, HolderLocks, At
    <2>4. rows'[k].resolved /\ rows'[k].result \in {None, proc'["fallback"].result}
        BY <1>2, <2>1, <2>3, ResultStep
    <2>5. ASSUME NEW a \in Ticks, At(a, k, Holding)' PROVE FALSE
        <3>1. Acquire(a) /\ At(a, k, {"acquire"}) /\ k \notin locks
            BY <2>1, <2>5, HeldBefore DEF QuietBefore, Resolvers
        <3>2. QED
            BY <1>2, <3>1 DEF QuietBefore, Untouched, At
    <2>6. ASSUME proc'["fallback"].at = "acquire", Settled(k)' PROVE FALSE
        <3>1. proc["fallback"].at = "acquire" /\ ~Settled(k)
            BY <1>2, <2>1, <2>6
        <3>2. PICK b \in Resolvers : At(b, k, {"receipt"}) /\ At(b, k, Holding)
            BY <2>6, <3>1, SettledStep
        <3>3. b \notin Ticks /\ b # "fallback"
            BY <2>1, <3>1, <3>2 DEF At
        <3>4. QED
            BY <3>3 DEF Resolvers
    <2>7. QED
        BY <2>4, <2>5, <2>6
<1>3. QED
    BY <1>1, <1>2, FallbackBefore DEF QuietBefore

\* SettledIsSeen, by the tick whose transaction settles the market,
LEMMA SettledIsSeenStep == ASSUME NEW k, QuietBefore(k) PROVE SettledIsSeen(k)'
<1> SUFFICES ASSUME Settled(k)', ~rows'[k].resolved
             PROVE  \E a \in Ticks : At(a, k, {"receipt", "close"})'
    BY DEF SettledIsSeen
<1>1. ~rows[k].resolved
    BY ResultStep
<1>2. CASE Settled(k)
    <2>1. PICK a \in Ticks : At(a, k, {"receipt", "close"})
        BY <1>1, <1>2 DEF QuietBefore, SettledIsSeen
    <2>2. ~Close(a)
        <3>1. SUFFICES ASSUME Close(a) PROVE rows'[k].resolved
            OBVIOUS
        <3>2. rows' = [rows EXCEPT ![k].resolved = TRUE, ![k].result = proc[a].result,
                                   ![k].status = "resolved"]
            BY <2>1, <3>1 DEF Close, Closed, At
        <3>3. rows \in [Keys -> Row] /\ k \in Keys
            BY DEF QuietBefore, LifeInv, TypeOK, SettlementTypeOK
        <3>4. QED
            BY <3>2, <3>3 DEF Row
    <2>3. QED
        BY <2>1, <2>2, TickLeaves DEF QuietBefore
<1>3. CASE ~Settled(k)
    <2>1. PICK b \in Resolvers : At(b, k, {"receipt"})
        BY <1>3, SettledStep
    <2>2. b # "fallback"
        BY <1>1, <2>1 DEF QuietBefore, FallbackAgrees, At, Resolving
    <2>3. b \in Ticks /\ At(b, k, {"receipt", "close"})
        BY <2>1, <2>2 DEF Resolvers, At
    <2>4. MineResolve
        BY <1>3, SettledStep
    <2>5. ~Close(b)
        BY <2>1 DEF Close, At
    <2>6. QED
        BY <2>3, <2>5, TickLeaves DEF QuietBefore
<1>4. QED
    BY <1>2, <1>3

\* and Published, by all of them.
LEMMA PublishedStep == ASSUME NEW k, QuietBefore(k) PROVE Published(k)'
<1> SUFFICES ASSUME rows'[k].result # None, Settled(k)'
             PROVE  rows'[k].result = chain'[k].result
    BY DEF Published
<1>1. CASE rows'[k].result = rows[k].result
    <2>1. CASE Settled(k)
        BY <1>1, <2>1, SettledStep DEF QuietBefore, Published
    <2>2. CASE ~Settled(k)
        <3>1. PICK b \in Resolvers : /\ At(b, k, {"receipt"}) /\ At(b, k, Holding)
                                     /\ chain'[k].result = proc[b].result
            BY <2>2, SettledStep
        <3>2. b \notin Ticks
            BY <1>1, <2>2, <3>1 DEF QuietBefore, Unpublished
        <3>3. b = "fallback"
            BY <3>2 DEF Resolvers
        <3>4. At("fallback", k, Resolving)
            BY <3>1, <3>3 DEF At, Resolving
        <3>5. rows[k].result = proc["fallback"].result
            BY <1>1, <3>4 DEF QuietBefore, FallbackAgrees
        <3>6. QED
            BY <1>1, <3>1, <3>3, <3>5
    <2>3. QED
        BY <2>1, <2>2
<1>2. ASSUME NEW a \in Ticks, At(a, k, Holding), rows'[k].result = proc[a].result, chain' = chain
      PROVE  rows'[k].result = chain'[k].result
    BY <1>2 DEF QuietBefore, HolderLocks, Settled, Resolvers
<1>3. QED
    BY <1>1, <1>2, ResultStep

\* A market that is just created has no row, so that nobody works on it.
LEMMA NewIsQuiet ==
    ASSUME LifeInv, Next, family = "24h", NEW k \in DOMAIN chain', k \notin DOMAIN chain
    PROVE  Quiet(k)'
<1>1. /\ MineCreate /\ k = Len(chain) + 1 /\ chain \in Seq(Market)
      /\ rows' = rows /\ chain'[k].result = None
    <2>1. chain \in Seq(Market) /\ chain' \in Seq(Market)
        BY ChainStep1 DEF LifeInv, TypeOK, SettlementTypeOK, ChainGrows
    <2>2. MineCreate
        BY <2>1, ChainStep1
    <2>3. QED
        BY <2>1, <2>2 DEF MineCreate
<1>2. /\ LifeInv' /\ family' = "24h" /\ k \in Keys
    <2>1. LifeInv' /\ family' = "24h"
        BY LifeStep, FamilyStays
    <2>2. TypeOK'
        BY <2>1 DEF LifeInv
    <2>3. k \in 1..MaxMarkets[family]
        <3>1. Len(chain') <= MaxMarkets[family] /\ chain' \in Seq(Market)
            BY ChainStep1 DEF ChainGrows
        <3>2. k \in 1..Len(chain')
            BY <3>1
        <3>3. MaxMarkets[family] \in Nat
            BY BoundAssumption DEF LifeInv, TypeOK, SettlementTypeOK
        <3>4. QED
            BY <3>1, <3>2, <3>3
    <2>4. QED
        BY <2>1, <2>3, NumbersFit DEF LifeInv
<1>3. rows[k].status = "absent" /\ rows[k] = NoRow
    BY <1>2 DEF LifeInv, DailyRows, DailyRow
<1>4. ~Settled(k)' /\ rows'[k].result = None
    BY <1>1, <1>3 DEF Settled, NoRow
<1>5. ASSUME NEW a \in Resolvers PROVE ~At(a, k, TickWork)'
    <2>1. HasRow(a)' => rows'[proc'[a].row].status # "absent"
        BY <1>2 DEF LifeInv, DailyRows, Actors, Resolvers
    <2>2. QED
        BY <1>1, <1>3, <2>1 DEF At, HasRow
<1>6. ASSUME NEW a \in Resolvers
      PROVE  /\ ~At(a, k, Holding)' /\ ~At(a, k, {"price", "acquire"})' /\ ~At(a, k, Resolving)'
    BY <1>5 DEF At, TickWork, Resolving, Holding
<1>7. Ticks \subseteq Resolvers /\ "fallback" \in Resolvers
    BY DEF Resolvers
<1>8. HolderLocks(k)' /\ OneHolder(k)' /\ Unpublished(k)'
    BY <1>6, <1>7 DEF HolderLocks, OneHolder, Unpublished
<1>9. Untouched(k)' /\ FallbackAgrees(k)'
    BY <1>6, <1>7 DEF Untouched, FallbackAgrees
<1>10. SettledIsSeen(k)' /\ Published(k)'
    BY <1>4 DEF SettledIsSeen, Published
<1>11. QED
    BY <1>8, <1>9, <1>10 DEF Quiet

\* DailyWinner is inductive, relative to LifeInv.
LEMMA DailyWinnerStep == LifeInv /\ DailyWinner /\ Next => DailyWinner'
<1> SUFFICES ASSUME LifeInv, DailyWinner, Next, family = "24h", faults' = 0
             PROVE  /\ tx' # NoTx => tx'.by # "nobody"
                    /\ \A k \in DOMAIN chain' \ byHand' : Quiet(k)'
    BY FamilyStays DEF DailyWinner
<1>1. faults = 0 /\ ~Fault
    BY NoFault
<1>2. tx' # NoTx => tx'.by # "nobody"
    <2>1. CASE tx' = tx
        BY <1>1, <2>1 DEF DailyWinner
    <2>2. CASE \E a \in Resolvers : Send(a)
        BY <2>2 DEF Send, Broadcast, Resolvers, Ticks
    <2>3. CASE \E a \in Ticks : CreateSend(a)
        BY <2>3 DEF CreateSend, NoTx, Ticks
    <2>4. CASE DrainSend
        BY <1>1, <2>4 DEF DrainSend, Broadcast
    <2>5. CASE MineResolve \/ MineDrain \/ MineCreate \/ Cancel
        BY <2>5 DEF MineResolve, MineDrain, MineCreate, Cancel
    <2>6. QED
        BY <1>1, <2>1, <2>2, <2>3, <2>4, <2>5, Senders
           DEF SendFails, ReceiptLost, CreateLost, DrainLost, Crash
<1>3. ASSUME NEW k \in DOMAIN chain' \ byHand', k \in DOMAIN chain PROVE Quiet(k)'
    <2>1. k \notin byHand
        BY <1>3, ByHandGrows
    <2>2. Quiet(k)
        BY <1>1, <1>3, <2>1 DEF DailyWinner
    <2>3. k \in Keys /\ k # None
        BY <1>3, NumbersOnChain DEF LifeInv, None
    <2>4. QuietBefore(k)
        BY <1>1, <1>3, <2>2, <2>3 DEF QuietBefore, Quiet
    <2>5. QED
        BY <2>4, HolderStep, OneHolderStep, UnpublishedStep, UntouchedStep, AgreesStep,
           SettledIsSeenStep, PublishedStep DEF Quiet
<1>4. QED
    BY <1>2, <1>3, NewIsQuiet

\* All of it holds at the beginning,
LEMMA WinnerInit == Init => FirstInv /\ RangeWinner /\ DailyWinner
<1> SUFFICES ASSUME Init PROVE FirstInv /\ RangeWinner /\ DailyWinner
    OBVIOUS
<1>1. /\ tx = NoTx /\ chain = <<>> /\ rows = [k \in Keys |-> NoRow]
      /\ proc = [a \in Actors |-> Idle] /\ "worker" \in Actors /\ "fallback" \in Actors
    BY DEF Init, SettlementInit, Actors, Ticks
<1>2. FirstInv
    BY <1>1 DEF FirstInv, NoTx
<1>3. RangeWinner
    <2>1. \A k \in Keys : RangeRowWinner(k)
        BY <1>1 DEF RangeRowWinner, NoRow
    <2>2. proc["fallback"].at = "idle" /\ AnsweredWinner
        BY <1>1, IdleTyped DEF AnsweredWinner
    <2>3. QED
        BY <2>1, <2>2 DEF RangeWinner
<1>4. DailyWinner
    BY <1>1 DEF DailyWinner
<1>5. QED
    BY <1>2, <1>3, <1>4

\* is enough for what the winners promise,
LEMMA WinnerFollows == LifeInv /\ RangeWinner /\ DailyWinner => WinnerPublished
<1> SUFFICES ASSUME LifeInv, RangeWinner, DailyWinner, NEW k \in Keys,
                    rows[k].result # None, Settled(rows[k].market), rows[k].market \notin byHand,
                    family = "24h" => faults = 0
             PROVE  rows[k].result = chain[rows[k].market].result
    BY DEF WinnerPublished
<1>1. CASE family = "range"
    BY <1>1 DEF RangeWinner, RangeRowWinner
<1>2. CASE family = "24h"
    <2>1. rows[k].market = k /\ k \in DOMAIN chain
        BY <1>2 DEF LifeInv, DailyRows, DailyRow, NoRow
    <2>2. Published(k)
        BY <1>2, <2>1 DEF DailyWinner, Quiet
    <2>3. QED
        BY <2>1, <2>2 DEF Published
<1>3. family \in {"24h", "range"}
    BY BoundAssumption DEF LifeInv, TypeOK, SettlementTypeOK
<1>4. QED
    BY <1>1, <1>2, <1>3

\* and is inductive.
LEMMA WinnerStep ==
    LifeInv /\ FirstInv /\ RangeWinner /\ DailyWinner /\ [Next]_vars
        => FirstInv' /\ RangeWinner' /\ DailyWinner'
<1> SUFFICES ASSUME LifeInv, FirstInv, RangeWinner, DailyWinner, [Next]_vars
             PROVE  FirstInv' /\ RangeWinner' /\ DailyWinner'
    OBVIOUS
<1>1. CASE Next
    BY <1>1, FirstStep, RangeWinnerStep, DailyWinnerStep
<1>2. CASE UNCHANGED vars
    <2>1. UNCHANGED <<family, now, chain, tx, rows, locks, proc, byHand, faults>>
        BY <1>2 DEF vars, history
    <2>2. FirstInv' /\ RangeWinner'
        BY <2>1 DEF FirstInv, RangeWinner, RangeRowWinner, AnsweredWinner, Settled, Target
    <2>3. ASSUME NEW k PROVE Quiet(k)' <=> Quiet(k)
        BY <2>1 DEF Quiet, HolderLocks, OneHolder, Unpublished, Untouched, FallbackAgrees,
                    SettledIsSeen, Published, At, Settled
    <2>4. DailyWinner'
        BY <2>1, <2>3 DEF DailyWinner
    <2>5. QED
        BY <2>2, <2>4
<1>3. QED
    BY <1>1, <1>2

\* Two results are never published for one market: the range market's row says
\* what the chain says (processRangeMarketTick draws a winner for each attempt),
\* and so does the row of a 24-hour market in a behaviour without faults, in
\* which the lock of resolveMarketOnChain lets one tick at a time resolve it.
THEOREM WinnerIsPublished == Spec => []WinnerPublished
<1>1. Init => LifeInv /\ FirstInv /\ RangeWinner /\ DailyWinner
    BY LifeInit, WinnerInit
<1>2. LifeInv /\ FirstInv /\ RangeWinner /\ DailyWinner /\ [Next]_vars
          => (LifeInv /\ FirstInv /\ RangeWinner /\ DailyWinner)'
    BY LifeStep, WinnerStep
<1>3. LifeInv /\ FirstInv /\ RangeWinner /\ DailyWinner => WinnerPublished
    BY WinnerFollows
<1>4. QED
    BY <1>1, <1>2, <1>3, PTL DEF Spec
=============================================================================
