----------------------------- MODULE PagesProofs -----------------------------
(***************************************************************************)
(* What people are shown.  First the order ticket and the chart, for any   *)
(* number of outcomes, edits and quotes under way, and any number of       *)
(* trades and troubles.  Then the accounts of traders and of the house,    *)
(* for any number of traders, markets, trades, transfers and events, that  *)
(* are handled in any order and any number of times.                       *)
(***************************************************************************)
EXTENDS Pages, Accounts, SumProofs

---------------------------------------------------------------------------
(* The ticket *)

Form == [mode: {"buy", "sell"}, side: Outcomes, amount: Nat, max: BOOLEAN]
Quote == {Asks(f) : f \in Form} \union {NoQuote}
Stage == {"balance", "requote", "nonce", "sign", "sent"}

\* An order on its way has a quote for what it sells, but for the moment
\* between the balance read and the new quote.
TicketInv ==
    /\ ticket \in Form
    /\ order \in [form: Form, quote: Quote, at: Stage] \union {NoOrder}
    /\ order # NoOrder /\ order.at # "requote" => order.quote = Asks(order.form)

LEMMA AsksType ==
    ASSUME NEW f \in Form
    PROVE  Asks(f) \in Quote /\ Asks(f).mode = f.mode
BY DEF Quote, Asks

\* Filling in a field leaves a form.
LEMMA FormUpdate ==
    ASSUME NEW f \in Form
    PROVE  /\ \A m \in {"buy", "sell"} : [f EXCEPT !.mode = m, !.max = FALSE] \in Form
           /\ \A m \in {"buy", "sell"} : [f EXCEPT !.mode = m, !.amount = 0] \in Form
           /\ \A s \in Outcomes : [f EXCEPT !.side = s, !.max = FALSE] \in Form
           /\ \A s \in Outcomes : [f EXCEPT !.side = s] \in Form
           /\ \A a \in Nat : [f EXCEPT !.amount = a, !.max = FALSE] \in Form
           /\ \A a \in Nat : [f EXCEPT !.amount = a, !.max = TRUE] \in Form
           /\ \A a \in Nat : [f EXCEPT !.amount = a] \in Form
           /\ [f EXCEPT !.amount = 0] \in Form
           /\ [f EXCEPT !.max = FALSE] \in Form
           /\ [[f EXCEPT !.max = FALSE] EXCEPT !.amount = 0] \in Form
BY DEF Form

LEMMA TicketInvInit == TicketInit => TicketInv
<1> SUFFICES ASSUME TicketInit PROVE TicketInv
    OBVIOUS
<1>1. (CHOOSE s \in Outcomes : TRUE) \in Outcomes
    BY TicketAssumption
<1>2. QED
    BY <1>1 DEF TicketInit, TicketInv, Form

\* The form stays one whatever is edited.
LEMMA EditInv == TicketInv /\ Edit => TicketInv'
<1> SUFFICES ASSUME TicketInv, Edit PROVE TicketInv'
    OBVIOUS
<1>1. order' = order
    BY DEF Edit
<1>2. ticket \in Form
    BY DEF TicketInv
<1>3. \A a \in 0..MaxTyped : a \in Nat
    BY TicketAssumption
<1>4. ASSUME Fill PROVE ticket' \in Form
    <2>1. PICK f \in Form : ticket' = f \/ ticket' = [f EXCEPT !.amount = 0]
        <3>1. CASE \E m \in {"buy", "sell"} :
                       EmptyForm([ticket EXCEPT !.mode = m, !.max = FALSE])
            BY <1>2, <3>1, FormUpdate DEF EmptyForm
        <3>2. CASE \E s \in Outcomes : Change([ticket EXCEPT !.side = s, !.max = FALSE])
            BY <1>2, <3>2, FormUpdate DEF Change
        <3>3. CASE \E a \in 0..MaxTyped :
                       Change([ticket EXCEPT !.amount = a, !.max = FALSE])
            BY <1>2, <1>3, <3>3, FormUpdate DEF Change
        <3>4. QED
            BY <1>4, <3>1, <3>2, <3>3 DEF Fill
    <2>2. QED
        BY <2>1, FormUpdate
<1>5. ASSUME FillMax PROVE ticket' \in Form
    <2>1. PICK a \in 1..MaxTyped : Change([ticket EXCEPT !.amount = a, !.max = TRUE])
        BY <1>5 DEF FillMax
    <2>2. a \in Nat
        BY TicketAssumption
    <2>3. [ticket EXCEPT !.amount = a, !.max = TRUE] \in Form
        BY <1>2, <2>2, FormUpdate
    <2>4. QED
        BY <2>1, <2>3 DEF Change
<1>6. ASSUME FillDefaultSide PROVE ticket' \in Form
    BY <1>2, <1>6, FormUpdate DEF FillDefaultSide, EmptyForm
<1>7. ASSUME FillRange PROVE ticket' \in Form
    BY <1>2, <1>3, <1>7, FormUpdate DEF FillRange, ChangeRange
<1>8. ticket' \in Form
    BY <1>4, <1>5, <1>6, <1>7 DEF Edit
<1>9. QED
    BY <1>1, <1>8 DEF TicketInv

\* A click takes the quote on display if it is of the form; from then on the
\* order goes on with what it was started with.
LEMMA SubmitInv == TicketInv /\ (Submit \/ SubmitRange) => TicketInv'
<1> SUFFICES ASSUME TicketInv, Submit \/ SubmitRange PROVE TicketInv'
    OBVIOUS
<1>1. ticket \in Form /\ ticket' = ticket
    BY DEF TicketInv, Submit, SubmitRange
<1>2. quote = Asks(ticket)
    BY DEF Submit, SubmitRange, CanSubmitTrade, CanTrade, IsQuoteOf, IsRangeQuoteOf
<1>3. PICK at \in Stage : order' = [form |-> ticket, quote |-> quote, at |-> at]
    BY DEF Submit, SubmitRange, Stage
<1>4. order' \in [form: Form, quote: Quote, at: Stage]
    BY <1>1, <1>2, <1>3, AsksType
<1>5. order'.quote = Asks(order'.form)
    BY <1>2, <1>3
<1>6. QED
    BY <1>1, <1>4, <1>5 DEF TicketInv

LEMMA ReadSharesInv ==
    ASSUME TicketInv, NEW shares \in ShareBalance, ReadShares(shares)
    PROVE  TicketInv'
<1> DEFINE sold == IF order.form.max THEN shares - 1 ELSE order.form.amount
           form == [order.form EXCEPT !.amount = sold]
           at == IF IsQuoteOf(order.quote, form) THEN "nonce" ELSE "requote"
<1>1. /\ order \in [form: Form, quote: Quote, at: Stage]
      /\ ticket \in Form /\ ticket' = ticket
    BY DEF TicketInv, ReadShares, At
<1>2. /\ sold > 0
      /\ order' = [order EXCEPT !.form = form, !.at = at]
    BY DEF ReadShares
<1>3. sold \in Nat
    <2>1. shares \in Nat
        BY TicketAssumption DEF ShareBalance
    <2>2. order.form.amount \in Nat
        BY <1>1 DEF Form
    <2>3. QED
        BY <1>2, <2>1, <2>2
<1>4. form \in Form
    <2>1. order.form \in Form
        BY <1>1
    <2> HIDE DEF sold
    <2>2. QED
        BY <1>3, <2>1 DEF Form
<1> HIDE DEF form
<1>5. order' \in [form: Form, quote: Quote, at: Stage]
    BY <1>1, <1>2, <1>4 DEF Stage
<1>6. order'.at # "requote" => order'.quote = Asks(order'.form)
    BY <1>1, <1>2 DEF IsQuoteOf
<1>7. QED
    BY <1>1, <1>5, <1>6 DEF TicketInv

LEMMA RequoteInv == TicketInv /\ Requote => TicketInv'
<1> SUFFICES ASSUME TicketInv, Requote PROVE TicketInv'
    OBVIOUS
<1>1. /\ order \in [form: Form, quote: Quote, at: Stage]
      /\ ticket \in Form
      /\ order' = [order EXCEPT !.quote = Asks(order.form), !.at = "nonce"]
      /\ ticket' = [ticket EXCEPT !.amount = order.form.amount]
    BY DEF TicketInv, Requote, At
<1>2. order.form \in Form /\ order.form.amount \in Nat
    BY <1>1 DEF Form
<1>3. ticket' \in Form
    BY <1>1, <1>2 DEF Form
<1>4. order' \in [form: Form, quote: Quote, at: Stage]
    BY <1>1, <1>2, AsksType DEF Stage
<1>5. order'.quote = Asks(order'.form)
    BY <1>1
<1>6. QED
    BY <1>3, <1>4, <1>5 DEF TicketInv

\* The floor is computed from the order's own quote, which is of its mode.
LEMMA SignInv == TicketInv /\ (AskNonce \/ Sign \/ SignRange) => TicketInv'
<1> SUFFICES ASSUME TicketInv, AskNonce \/ Sign \/ SignRange PROVE TicketInv'
    OBVIOUS
<1>1. /\ order \in [form: Form, quote: Quote, at: Stage]
      /\ order.quote = Asks(order.form)
      /\ ticket \in Form /\ ticket' = ticket
    BY DEF TicketInv, AskNonce, Sign, SignRange, At
<1>2. order.form \in Form
    BY <1>1
<1>3. Floor(order) = order.quote
    BY <1>1, <1>2, AsksType DEF Floor
<1>4. RangeFloor(order) = order.quote
    BY <1>1 DEF RangeFloor, IsRangeQuoteOf
<1>5. \/ order' = [order EXCEPT !.at = "sign"]
      \/ order' = [order EXCEPT !.at = "sent", !.quote = order.quote]
    BY <1>3, <1>4 DEF AskNonce, Sign, SignRange
<1>6. order' \in [form: Form, quote: Quote, at: Stage]
    BY <1>1, <1>5 DEF Stage
<1>7. order'.quote = Asks(order'.form)
    BY <1>1, <1>5
<1>8. QED
    BY <1>1, <1>6, <1>7 DEF TicketInv

LEMMA EndInv == TicketInv /\ (Done \/ DoneRange \/ Fail) => TicketInv'
<1> SUFFICES ASSUME TicketInv, Done \/ DoneRange \/ Fail PROVE TicketInv'
    OBVIOUS
<1>1. order' = NoOrder
    BY DEF Done, DoneRange, Fail
<1>2. ticket \in Form
    BY DEF TicketInv
<1>3. ticket' \in Form
    BY <1>2, FormUpdate DEF Done, DoneRange, Fail, EmptyForm, ChangeRange
<1>4. QED
    BY <1>1, <1>3 DEF TicketInv

LEMMA TicketInvStep == TicketInv /\ TicketNext => TicketInv'
<1> SUFFICES ASSUME TicketInv, TicketNext PROVE TicketInv'
    OBVIOUS
<1>1. CASE AskQuote \/ \E q \in Request : ShowQuote(q) \/ ShowRangeQuote(q)
    <2>1. order' = order /\ ticket' = ticket
        BY <1>1 DEF AskQuote, ShowQuote, ShowRangeQuote
    <2>2. QED
        BY <2>1 DEF TicketInv
<1>2. QED
    BY <1>1, EditInv, SubmitInv, ReadSharesInv, RequoteInv, SignInv, EndInv
    DEF TicketNext

\* An order that was sent has the floor of its own quote, on both panels,
\* whatever the form says by then.
THEOREM FloorIsQuoted == Spec => []FloorMatchesOrder
<1>1. Init => TicketInv
    BY TicketInvInit DEF Init
<1>2. TicketInv /\ [Next]_vars => TicketInv'
    <2> SUFFICES ASSUME TicketInv, [Next]_vars PROVE TicketInv'
        OBVIOUS
    <2>1. CASE Market(TicketNext)
        BY <2>1, TicketInvStep DEF Market
    <2>2. CASE UNCHANGED ticketVars
        BY <2>2 DEF ticketVars, TicketInv
    <2>3. QED
        BY <2>1, <2>2 DEF Next, Home, Wallet, Admin, vars
<1>3. TicketInv => FloorMatchesOrder
    BY DEF TicketInv, FloorMatchesOrder, At
<1>4. QED
    BY <1>1, <1>2, <1>3, PTL DEF Spec

---------------------------------------------------------------------------
(* The chart *)

Mined == {t \in Trades : minedIn[t] # 0}

\* Every block has a trade, so there are no more of them than trades.
BlocksInv == blocks <= Cardinality(Mined)

\* As long as blocks could be read: a run that has its price has that of the
\* block its trade is in, and so has the chart.
Priced == {"priced", "inserted", "updated"}
FillInv ==
    /\ \A c \in Callers : fill[c].at \in {"called"} \union Priced => c[1] \in Mined
    /\ ~misread => \A c \in Callers :
          fill[c].at \in Priced => fill[c].price = minedIn[c[1]]
ChartInv ==
    ~misread => \A t \in Trades :
        chart[t] = Nothing \/ (t \in Mined /\ chart[t] = minedIn[t])

PricesInv == PricesTypeOK /\ BlocksInv /\ FillInv /\ ChartInv

Fill0 == [at : {"none", "called", "priced", "inserted", "updated", "over"},
          price : Price, read : BOOLEAN]

LEMMA PriceFacts ==
    /\ Cardinality(Trades) \in Nat
    /\ 0 \in Price
    /\ \A p \in Price : p \in Nat
    /\ Over \in Fill0
    /\ \A c \in Callers : c[1] \in Trades
<1>1. Cardinality(Trades) \in Nat
    BY TradesAssumption, FS_CardinalityType
<1>2. \A c \in Callers : c[1] \in Trades
    BY TradesAssumption DEF Callers
<1>3. QED
    BY <1>1, <1>2 DEF Price, Over, Fill0

LEMMA PricesInvInit == PricesInit => PricesInv
<1> SUFFICES ASSUME PricesInit PROVE PricesInv
    OBVIOUS
<1>1. PricesTypeOK
    <2>1. fill \in [Callers -> Fill0] /\ request \in
              [ByApi -> [at : {"none", "sent", "booking", "over"}, price : Price]]
        BY PriceFacts DEF PricesInit, Fill0
    <2>2. /\ blocks \in Price /\ minedIn \in [Trades -> Price] /\ row \in Price
          /\ chart \in [Trades -> Price \union {Nothing}]
          /\ listed \in Price \union {Projected}
          /\ job \in [at : {"idle", "read", "healed"}, price : Price]
        BY PriceFacts DEF PricesInit
    <2>3. trouble \in 0 .. MaxTrouble
        BY TradesAssumption DEF PricesInit
    <2>4. QED
        BY <2>1, <2>2, <2>3 DEF PricesInit, PricesTypeOK, Fill0
<1>2. Cardinality(Mined) \in Nat
    <2>1. IsFiniteSet(Mined)
        BY TradesAssumption, FS_Subset DEF Mined
    <2>2. QED
        BY <2>1, FS_CardinalityType
<1>3. QED
    BY <1>1, <1>2 DEF PricesInit, PricesInv, BlocksInv, FillInv, ChartInv, Priced

\* A block with trades is one more, with a trade more at least.
LEMMA MineInv ==
    ASSUME PricesInv, NEW ts \in SUBSET Trades, ts # {}, Mine(ts)
    PROVE  PricesInv'
<1> USE DEF PricesInv
<1>1. /\ PricesTypeOK /\ blocks \in Nat /\ blocks \in Price
      /\ minedIn \in [Trades -> Price]
      /\ \A t \in ts : minedIn[t] = 0
      /\ blocks' = blocks + 1
      /\ minedIn' = [t \in Trades |-> IF t \in ts THEN blocks' ELSE minedIn[t]]
      /\ misread' = misread /\ chart' = chart
    BY PriceFacts DEF PricesTypeOK, Mine, troubles
<1>2. Mined' = Mined \union ts
    BY <1>1 DEF Mined
<1>3. PICK t \in ts : t \in Trades /\ t \notin Mined
    <2>1. PICK t \in ts : t \in Trades
        OBVIOUS
    <2>2. t \notin Mined
        BY <1>1, <2>1 DEF Mined
    <2>3. QED
        BY <2>1, <2>2
<1>4. blocks' <= Cardinality(Mined') /\ blocks' \in Price
    <2>1. IsFiniteSet(Mined) /\ IsFiniteSet(Mined')
        BY <1>2, TradesAssumption, FS_Subset DEF Mined
    <2>2. Cardinality(Mined \union {t}) = Cardinality(Mined) + 1
        BY <1>3, <2>1, FS_AddElement
    <2>3. Cardinality(Mined \union {t}) <= Cardinality(Mined')
        BY <1>2, <1>3, <2>1, FS_Subset
    <2>4. Cardinality(Mined') <= Cardinality(Trades)
        BY <1>2, TradesAssumption, FS_Subset DEF Mined
    <2>5. /\ Cardinality(Mined) \in Nat /\ Cardinality(Mined') \in Nat
          /\ Cardinality(Trades) \in Nat
        BY <2>1, FS_CardinalityType, TradesAssumption
    <2>6. QED
        BY <1>1, <2>2, <2>3, <2>4, <2>5 DEF BlocksInv, Price
<1>5. minedIn' \in [Trades -> Price]
    BY <1>1, <1>4
<1>6. fill' = [c \in Callers |->
           IF c[1] \in ts /\ (c[2] = "watcher" \/ (c[2] = "route" /\ request[c[1]].at = "sent"))
           THEN [fill[c] EXCEPT !.at = "called"] ELSE fill[c]]
    BY DEF Mine
<1>7. fill \in [Callers -> Fill0]
    BY <1>1 DEF PricesTypeOK, Fill0
<1>8. fill' \in [Callers -> Fill0]
    <2>1. \A c \in Callers : [fill[c] EXCEPT !.at = "called"] \in Fill0
        BY <1>7 DEF Fill0
    <2>2. QED
        BY <1>6, <1>7, <2>1
<1>9. request' \in [ByApi -> [at : {"none", "sent", "booking", "over"}, price : Price]]
    BY <1>1 DEF Mine, PricesTypeOK
<1>10. PricesTypeOK'
    BY <1>1, <1>4, <1>5, <1>8, <1>9 DEF PricesTypeOK, Fill0, Mine, page, troubles
<1>11. FillInv'
    <2>1. ASSUME NEW c \in Callers, fill'[c].at \in {"called"} \union Priced
          PROVE  c[1] \in Mined'
        BY <1>2, <1>6, <1>7, <2>1 DEF FillInv, Priced, Fill0
    <2>2. ASSUME NEW c \in Callers, fill'[c].at \in Priced, ~misread
          PROVE  fill'[c].price = minedIn'[c[1]]
        <3>1. fill'[c] = fill[c]
            BY <1>6, <1>7, <2>2 DEF Priced, Fill0
        <3>2. c[1] \in Mined /\ fill[c].price = minedIn[c[1]]
            BY <2>2, <3>1 DEF FillInv
        <3>3. QED
            BY <1>1, <3>1, <3>2 DEF Mined
    <2>3. QED
        BY <1>1, <2>1, <2>2 DEF FillInv
<1>12. ChartInv'
    BY <1>1, <1>2 DEF ChartInv, Mined
<1>13. QED
    BY <1>4, <1>10, <1>11, <1>12 DEF BlocksInv

\* What any other step may do: blocks stay, a run or its price change only as
\* listed, and a trade that has its price keeps it.
KeepsFill(c) ==
    \/ fill'[c] = fill[c]
    \/ fill'[c] = Over
    \/ fill'[c].at = "called" /\ c[1] \in Mined
    \/ /\ fill[c].at = "called" /\ fill'[c].at = "priced"
       /\ misread' \/ fill'[c].price = minedIn[c[1]]
    \/ /\ fill[c].at \in Priced /\ fill'[c].at \in Priced
       /\ fill'[c].price = fill[c].price

KeepsChart ==
    \/ chart' = chart
    \/ \E c \in Callers : fill[c].at \in Priced
                          /\ chart' = [chart EXCEPT ![c[1]] = fill[c].price]

LEMMA KeepsInv ==
    ASSUME PricesInv, PricesTypeOK', blocks' = blocks, minedIn' = minedIn,
           misread => misread', \A c \in Callers : KeepsFill(c), KeepsChart
    PROVE  PricesInv'
<1> USE DEF PricesInv
<1>1. Mined' = Mined
    BY DEF Mined
<1>2. FillInv'
    <2>1. ASSUME NEW c \in Callers, fill'[c].at \in {"called"} \union Priced
          PROVE  c[1] \in Mined'
        BY <1>1, <2>1 DEF KeepsFill, FillInv, Priced, Over
    <2>2. ASSUME NEW c \in Callers, fill'[c].at \in Priced, ~misread'
          PROVE  fill'[c].price = minedIn'[c[1]]
        <3>1. ~misread
            BY <2>2
        <3>2. fill[c].at \in Priced => fill[c].price = minedIn[c[1]]
            BY <3>1 DEF FillInv
        <3>3. QED
            BY <2>2, <3>2 DEF KeepsFill, Priced, Over
    <2>3. QED
        BY <2>1, <2>2 DEF FillInv
<1>3. ChartInv'
    <2>1. CASE chart' = chart
        BY <1>1, <2>1 DEF ChartInv
    <2>2. ASSUME NEW c \in Callers, fill[c].at \in Priced,
                 chart' = [chart EXCEPT ![c[1]] = fill[c].price], ~misread'
          PROVE  \A t \in Trades :
                     chart'[t] = Nothing \/ (t \in Mined' /\ chart'[t] = minedIn'[t])
        <3>1. ~misread
            BY <2>2
        <3>2. c[1] \in Mined /\ fill[c].price = minedIn[c[1]]
            BY <2>2, <3>1 DEF FillInv
        <3>3. chart \in [Trades -> Price \union {Nothing}]
            BY DEF PricesTypeOK
        <3>4. QED
            BY <1>1, <2>2, <3>1, <3>2, <3>3 DEF ChartInv
    <2>3. QED
        BY <2>1, <2>2 DEF KeepsChart, ChartInv
<1>4. BlocksInv'
    BY <1>1 DEF BlocksInv
<1>5. QED
    BY <1>2, <1>3, <1>4

\* The route's request, and what happens to everybody.
LEMMA RequestKeepsInv ==
    ASSUME PricesInv,
           \/ \E t \in ByApi : AcceptBuy(t) \/ Answer(t) \/ Revert(t)
           \/ RestartApi
    PROVE  PricesInv'
<1> DEFINE Requests == [at : {"none", "sent", "booking", "over"}, price : Price]
<1>1. /\ PricesTypeOK /\ request \in [ByApi -> Requests] /\ row \in Price
      /\ fill \in [Callers -> Fill0]
    BY DEF PricesInv, PricesTypeOK, Fill0
<1>2. /\ blocks' = blocks /\ minedIn' = minedIn /\ chart' = chart
      /\ row' = row /\ locked' = locked /\ connected' = connected
      /\ fetching' = fetching
    BY DEF AcceptBuy, Answer, Revert, RestartApi, ledger, page
<1>3. /\ misread' = misread /\ trouble' \in 0 .. MaxTrouble
      /\ job' = job \/ job' = Idle
    <2>1. UNCHANGED troubles \/ Trouble
        BY DEF AcceptBuy, Answer, Revert, RestartApi
    <2>2. misread' = misread /\ trouble' \in 0 .. MaxTrouble
        BY <1>1, <2>1, TradesAssumption DEF troubles, Trouble, PricesTypeOK
    <2>3. job' = job \/ job' = Idle
        BY DEF AcceptBuy, Answer, Revert, RestartApi
    <2>4. QED
        BY <2>2, <2>3
<1> DEFINE over == [at |-> "over", price |-> 0]
<1>4. request' \in [ByApi -> Requests]
    <2>1. \/ request' = request
          \/ \E t \in ByApi :
                \/ request' = [request EXCEPT ![t] = [at |-> "sent", price |-> row]]
                \/ request' = [request EXCEPT ![t] = over]
          \/ request' = [t \in ByApi |-> IF request[t].at = "none" THEN request[t] ELSE over]
        BY DEF AcceptBuy, Answer, Revert, RestartApi
    <2>2. over \in Requests /\ [at |-> "sent", price |-> row] \in Requests
        BY <1>1, PriceFacts
    <2>3. QED
        <3> HIDE DEF over, Requests
        <3> QED  BY <1>1, <2>1, <2>2
<1>5. \A c \in Callers : fill'[c] = fill[c] \/ fill'[c] = Over
    BY <1>1 DEF AcceptBuy, Answer, Revert, RestartApi
<1>6. fill' \in [Callers -> Fill0]
    <2>1. \/ fill' = fill
          \/ \E t \in ByApi : fill' = [fill EXCEPT ![<<t, "route">>] = Over]
          \/ fill' = [c \in Callers |-> IF fill[c].at = "none" THEN fill[c] ELSE Over]
        BY DEF AcceptBuy, Answer, Revert, RestartApi
    <2>2. QED
        BY <1>1, <2>1, PriceFacts
<1>7. listed' \in Price \union {Projected}
    BY <1>1 DEF AcceptBuy, Answer, Revert, RestartApi, Publish, page, PricesTypeOK
<1>8. job' \in [at : {"idle", "read", "healed"}, price : Price]
    BY <1>1, <1>3, PriceFacts DEF Idle, PricesTypeOK
<1>9. PricesTypeOK'
    BY <1>1, <1>2, <1>3, <1>6, <1>7, <1>8, <1>4 DEF PricesTypeOK, Fill0
<1>10. QED
    BY <1>2, <1>3, <1>5, <1>9, KeepsInv DEF KeepsFill, KeepsChart

\* A client asks for a trade to be recorded.
LEMMA ReportKeepsInv ==
    ASSUME PricesInv, NEW t \in Reported, ReportTrade(t)
    PROVE  PricesInv'
<1> DEFINE c == <<t, "client">>
<1>1. /\ PricesTypeOK /\ row \in Price /\ fill \in [Callers -> Fill0]
      /\ c \in Callers /\ c[1] = t /\ t \in Trades
    BY TradesAssumption DEF PricesInv, PricesTypeOK, Fill0, Callers
<1>2. /\ t \in Mined
      /\ fill' = [fill EXCEPT ![c] = [at |-> "called", price |-> row, read |-> FALSE]]
      /\ UNCHANGED <<ledger, request, row, locked, chart, job, page>>
      /\ misread' = misread /\ trouble' \in 0 .. MaxTrouble
    BY <1>1, TradesAssumption DEF ReportTrade, Mined, Trouble, PricesTypeOK
<1> HIDE DEF c
<1>3. fill' \in [Callers -> Fill0]
    BY <1>1, <1>2 DEF Fill0
<1>4. PricesTypeOK'
    BY <1>1, <1>2, <1>3 DEF PricesTypeOK, Fill0, ledger, page
<1>5. ASSUME NEW d \in Callers PROVE KeepsFill(d)
    <2>1. CASE d = c
        BY <1>1, <1>2, <2>1 DEF KeepsFill
    <2>2. CASE d # c
        BY <1>1, <1>2, <2>2 DEF KeepsFill
    <2>3. QED
        BY <2>1, <2>2
<1>6. blocks' = blocks /\ minedIn' = minedIn /\ KeepsChart
    BY <1>2 DEF ledger, KeepsChart
<1>7. QED
    BY <1>2, <1>4, <1>5, <1>6, KeepsInv

\* The runs of processTradeFill.
LEMMA FillKeepsInv ==
    ASSUME PricesInv, NEW c \in Callers, FillStep(c)
    PROVE  PricesInv'
<1>1. /\ PricesTypeOK /\ row \in Price /\ blocks \in Price
      /\ fill \in [Callers -> Fill0]
      /\ c[1] \in Trades /\ minedIn[c[1]] \in Price
      /\ fill[c] \in Fill0 /\ fill[c].price \in Price /\ fill[c].read \in BOOLEAN
      /\ chart \in [Trades -> Price \union {Nothing}]
    BY PriceFacts DEF PricesInv, PricesTypeOK, Fill0
<1>2. c[2] = "client" => c = <<c[1], "client">>
    BY DEF Callers
<1>3. PICK f \in Fill0 :
          /\ fill' = [fill EXCEPT ![c] = f]
          /\ \/ f = Over
             \/ /\ fill[c].at = "called" /\ f.at = "priced"
                /\ misread' \/ f.price = minedIn[c[1]]
             \/ /\ fill[c].at \in Priced /\ f.at \in Priced
                /\ f.price = fill[c].price
    <2>1. ASSUME ReadPrices(c)
          PROVE  \E p \in Price, b \in BOOLEAN :
                     /\ fill' = [fill EXCEPT ![c] =
                                    [at |-> "priced", price |-> p, read |-> b]]
                     /\ misread' \/ p = minedIn[c[1]]
        BY <1>1, <2>1 DEF ReadPrices, Misread, Cached
    <2>2. CASE ReadPrices(c)
        <3>1. PICK p \in Price, b \in BOOLEAN :
                     /\ fill' = [fill EXCEPT ![c] =
                                    [at |-> "priced", price |-> p, read |-> b]]
                     /\ misread' \/ p = minedIn[c[1]]
            BY <2>1, <2>2
        <3>2. fill[c].at = "called"
            BY <2>2 DEF ReadPrices
        <3>3. [at |-> "priced", price |-> p, read |-> b] \in Fill0
            BY DEF Fill0
        <3>4. QED
            BY <3>1, <3>2, <3>3
    <2>3. ASSUME NEW at \in Priced, fill[c].at \in Priced,
                 fill' = [fill EXCEPT ![c].at = at]
          PROVE  \E f \in Fill0 :
                    /\ fill' = [fill EXCEPT ![c] = f]
                    /\ fill[c].at \in Priced /\ f.at \in Priced
                    /\ f.price = fill[c].price
        <3> DEFINE f == [fill[c] EXCEPT !.at = at]
        <3>1. f \in Fill0 /\ f.at = at /\ f.price = fill[c].price
            BY <1>1 DEF Fill0, Priced
        <3>2. fill' = [fill EXCEPT ![c] = f]
            BY <2>3
        <3>3. QED
            BY <2>3, <3>1, <3>2
    <2>4. CASE InsertTrade(c)
        BY <2>3, <2>4, PriceFacts DEF InsertTrade, Priced
    <2>5. CASE UpdateMarket(c)
        BY <2>3, <2>5 DEF UpdateMarket, Priced
    <2>6. CASE PublishPrice(c)
        BY <2>6, PriceFacts DEF PublishPrice
    <2>7. CASE c[2] = "client" /\ InsertReported(c[1])
        BY <1>2, <2>3, <2>7 DEF InsertReported, Priced
    <2>8. CASE c[2] = "client" /\ UpdateReported(c[1])
        BY <1>2, <2>8, PriceFacts DEF UpdateReported
    <2>9. QED
        BY <2>2, <2>4, <2>5, <2>6, <2>7, <2>8 DEF FillStep
<1>4. \A d \in Callers : KeepsFill(d)
    BY <1>1, <1>3 DEF KeepsFill
<1>5. KeepsChart
    <2>1. CASE UNCHANGED chart
        BY <2>1 DEF KeepsChart
    <2>2. CASE InsertTrade(c)
        BY <2>2 DEF InsertTrade, KeepsChart, Priced
    <2>3. CASE c[2] = "client" /\ InsertReported(c[1])
        <3>1. fill[c].at = "priced" /\ chart' = [chart EXCEPT ![c[1]] =
                  IF @ = Nothing THEN fill[c].price ELSE @]
            BY <1>2, <2>3 DEF InsertReported
        <3>2. chart' = chart \/ chart' = [chart EXCEPT ![c[1]] = fill[c].price]
            BY <1>1, <3>1
        <3>3. QED
            BY <3>1, <3>2 DEF KeepsChart, Priced
    <2>4. QED
        BY <2>1, <2>2, <2>3 DEF FillStep, ReadPrices, UpdateMarket, PublishPrice,
                                UpdateReported
<1>6. fill' \in [Callers -> Fill0]
    BY <1>1, <1>3
<1>7. chart' \in [Trades -> Price \union {Nothing}]
    BY <1>1, <1>5 DEF KeepsChart, PricesTypeOK, Fill0
<1>8. /\ UNCHANGED <<ledger, request, locked, job, fetching, connected>>
      /\ row' \in Price
      /\ listed' \in Price \union {Projected}
      /\ misread' \in BOOLEAN
      /\ misread => misread'
      /\ trouble' \in 0 .. MaxTrouble
    <2>1. /\ UNCHANGED <<ledger, request, locked, job, fetching, connected>>
        BY DEF FillStep, ReadPrices, InsertTrade, UpdateMarket, PublishPrice,
               InsertReported, UpdateReported, page
    <2>2. row' \in Price /\ listed' \in Price \union {Projected}
        <3>1. row' = row \/ row' = fill[c].price
            BY <1>2 DEF FillStep, ReadPrices, InsertTrade, UpdateMarket, PublishPrice,
                        InsertReported, UpdateReported
        <3>2. listed' = listed \/ listed' = fill[c].price
            BY DEF FillStep, ReadPrices, InsertTrade, UpdateMarket, PublishPrice,
                   InsertReported, UpdateReported, page, Publish
        <3>3. QED
            BY <1>1, <3>1, <3>2 DEF PricesTypeOK
    <2>3. /\ misread' \in BOOLEAN
          /\ misread => misread'
          /\ trouble' \in 0 .. MaxTrouble
        <3>1. UNCHANGED troubles \/ Misread
            BY DEF FillStep, ReadPrices, InsertTrade, UpdateMarket, PublishPrice,
                   InsertReported, UpdateReported
        <3>2. trouble' \in 0 .. MaxTrouble
            BY <1>1, <3>1, TradesAssumption DEF troubles, Misread, PricesTypeOK
        <3>3. misread' = misread \/ misread' = TRUE
            BY <3>1 DEF troubles, Misread
        <3>4. misread \in BOOLEAN
            BY <1>1 DEF PricesTypeOK
        <3>5. misread' \in BOOLEAN
            BY <3>3, <3>4
        <3>6. ASSUME misread PROVE misread'
            <4>1. CASE misread' = misread
                BY <3>6, <4>1, Zenon
            <4>2. CASE misread' = TRUE
                BY <4>2, Zenon
            <4>3. QED
                BY <3>3, <4>1, <4>2
        <3>7. QED
            BY <3>2, <3>5, <3>6, Zenon
    <2>4. QED
        BY <2>1, <2>2, <2>3
<1>9. PricesTypeOK'
    BY <1>1, <1>6, <1>7, <1>8 DEF PricesTypeOK, Fill0, ledger
<1>10. QED
    BY <1>4, <1>5, <1>8, <1>9, KeepsInv DEF ledger

\* The job, the page and the market's lock leave the chart and its recorders
\* alone.
LEMMA OthersKeepInv ==
    ASSUME PricesInv, JobStep \/ PageStep \/ Connect \/ Disconnect \/ Lock
    PROVE  PricesInv'
<1>1. /\ PricesTypeOK
      /\ job \in [at : {"idle", "read", "healed"}, price : Price]
      /\ row \in Price /\ blocks \in Price
    BY DEF PricesInv, PricesTypeOK
<1>2. /\ blocks' = blocks /\ minedIn' = minedIn /\ chart' = chart
      /\ fill' = fill /\ request' = request
    BY DEF JobStep, ReadChain, Heal, PublishHealed, PageStep, FetchMarkets, ShowMarkets,
           Connect, Disconnect, Lock, ledger
<1>3. misread' = misread /\ trouble' \in 0 .. MaxTrouble
    <2>1. UNCHANGED troubles \/ Trouble
        BY DEF JobStep, ReadChain, Heal, PublishHealed, PageStep, FetchMarkets,
               ShowMarkets, Connect, Disconnect, Lock
    <2>2. QED
        BY <1>1, <2>1, TradesAssumption DEF troubles, Trouble, PricesTypeOK
<1>4. /\ row' \in Price
      /\ job' \in [at : {"idle", "read", "healed"}, price : Price]
    BY <1>1, PriceFacts
    DEF JobStep, ReadChain, Heal, PublishHealed, Idle, PageStep, FetchMarkets,
        ShowMarkets, Connect, Disconnect, Lock
<1>5. /\ fetching' = fetching \/ fetching' = row \/ fetching' = Nothing
      /\ \/ listed' = listed \/ listed' = job.price
         \/ listed' = fetching /\ fetching # Nothing
    BY DEF JobStep, ReadChain, Heal, PublishHealed, PageStep, FetchMarkets, ShowMarkets,
           Connect, Disconnect, Lock, page, Publish
<1>6. fetching' \in Price \union {Nothing} /\ listed' \in Price \union {Projected}
    BY <1>1, <1>5 DEF PricesTypeOK
<1>7. locked' \in BOOLEAN /\ connected' \in BOOLEAN
    BY <1>1 DEF JobStep, ReadChain, Heal, PublishHealed, PageStep, FetchMarkets,
                ShowMarkets, Connect, Disconnect, Lock, page, PricesTypeOK
<1>8. PricesTypeOK'
    BY <1>1, <1>2, <1>3, <1>4, <1>6, <1>7 DEF PricesTypeOK
<1>9. QED
    BY <1>2, <1>3, <1>8, KeepsInv DEF KeepsFill, KeepsChart

LEMMA PricesInvStep == PricesInv /\ PricesNext => PricesInv'
<1> SUFFICES ASSUME PricesInv, PricesNext PROVE PricesInv'
    OBVIOUS
<1>1. ASSUME NEW ts \in SUBSET Trades, ts # {}, Mine(ts) PROVE PricesInv'
    BY <1>1, MineInv
<1>2. ASSUME \E ts \in (SUBSET Trades) \ {{}} : Mine(ts) PROVE PricesInv'
    <2>1. \E ts \in SUBSET Trades : ts # {} /\ Mine(ts)
        BY <1>2
    <2>2. QED
        BY <1>1, <2>1
<1>3. QED
    BY <1>2, RequestKeepsInv, ReportKeepsInv, FillKeepsInv, OthersKeepInv DEF PricesNext

\* As long as the blocks could be read the chart has, for every trade, the
\* price its own block left, for any number of trades, runs and troubles.
THEOREM ChartIsInOrder == Spec => []ChartInOrder
<1>1. Init => PricesInv
    BY PricesInvInit DEF Init
<1>2. PricesInv /\ [Next]_vars => PricesInv'
    <2> SUFFICES ASSUME PricesInv, [Next]_vars PROVE PricesInv'
        OBVIOUS
    <2>1. CASE Home(PricesNext)
        BY <2>1, PricesInvStep DEF Home
    <2>2. CASE UNCHANGED pricesVars
        BY <2>2 DEF pricesVars, ledger, page, troubles, PricesInv, PricesTypeOK,
                    BlocksInv, FillInv, ChartInv, Mined
    <2>3. QED
        BY <2>1, <2>2 DEF Next, Market, Wallet, Admin, vars
<1>3. PricesInv => ChartInOrder
    BY DEF PricesInv, ChartInv, ChartInOrder
<1>4. QED
    BY <1>1, <1>2, <1>3, PTL DEF Spec

---------------------------------------------------------------------------
(* The accounts: folds of trades *)

TradeRecords == [kind: {"buy", "sell"}, market: Markets, side: Sides,
                 shares: Nat \ {0}, amount: Nat]
Events == [kind: {"deposit", "withdraw", "redemption"}, user: Traders,
           market: Markets \union {Open}, amount: Nat, tx: Nat]
Rows == TradeRecords \union Events
Exposures == [shares: [Sides -> Nat], cashFlow: Int]

\* A row is a trade or an event, and its amount is a number.
LEMMA RowKinds ==
    ASSUME NEW r \in Rows
    PROVE  /\ IsTrade(r) => r \in TradeRecords
           /\ r.amount \in Nat
           /\ ~IsTrade(r) => r \in Events
BY DEF Rows, TradeRecords, Events, IsTrade

\* What a trade does to an exposure: nothing to the other sides.
LEMMA AddTradeType ==
    ASSUME NEW e \in Exposures, NEW r \in TradeRecords
    PROVE  /\ AddTrade(e, r) \in Exposures
           /\ \A s \in Sides : s # r.side => AddTrade(e, r).shares[s] = e.shares[s]
           /\ AddTrade(e, r).shares[r.side] =
                  IF r.kind = "buy" THEN e.shares[r.side] + r.shares
                  ELSE IF r.shares < e.shares[r.side] THEN e.shares[r.side] - r.shares ELSE 0
           /\ AddTrade(e, r).cashFlow =
                  e.cashFlow + IF r.kind = "buy" THEN -r.amount ELSE r.amount
BY DEF Exposures, TradeRecords, AddTrade, ReduceSide

\* No exposure is an exposure.
LEMMA NoExposureType == NoExposure \in Exposures
BY DEF NoExposure, Exposures

\* The largest of the numbers up to n.
LEMMA MaxType ==
    ASSUME NEW n \in Nat, NEW X \in SUBSET (1..n), X # {}
    PROVE  Max(X) \in X /\ \A x \in X : Max(X) >= x
<1>1. X \in SUBSET (0..n)
    OBVIOUS
<1>2. PICK a \in X : \A b \in X : b <= a
    BY <1>1, LargestNumber
<1>3. \A b \in X : a >= b
    BY <1>2, <1>1
<1>4. QED
    BY <1>3 DEF Max

\* The last of the first k numbers.
LEMMA MaxOfNumbers ==
    ASSUME NEW n \in Nat, NEW k \in 1..n
    PROVE  Max(1..k) = k /\ (1..k) \ {k} = 1..(k - 1)
<1>1. (1..k) \in SUBSET (1..n) /\ (1..k) # {} /\ k \in 1..k
    OBVIOUS
<1>2. Max(1..k) \in 1..k /\ Max(1..k) >= k
    BY <1>1, MaxType
<1>3. QED
    BY <1>2

\* What a fold over n rows runs through.
IsRun(run, n, T, base, step) ==
    /\ run \in [0..n -> T]
    /\ run[0] = base
    /\ \A k \in 1..n : run[k] = step[<<k, run[k - 1]>>]

\* The recursion behind the fold.
FoldsBy(iter, n, T, base, step) ==
    /\ iter \in [SUBSET (1..n) -> T]
    /\ iter = [X \in SUBSET (1..n) |-> IF X = {} THEN base
                  ELSE step[<<Max(X), iter[X \ {Max(X)}]>>]]
    /\ IsRun([k \in 0..n |-> iter[1..k]], n, T, base, step)

\* Folding over the first n numbers, each time taking off the greatest, is a
\* run through them.
LEMMA FoldRuns ==
    ASSUME NEW n \in Nat, NEW T, NEW base \in T, NEW step \in [(1..n) \X T -> T]
    PROVE  \E iter : FoldsBy(iter, n, T, base, step)
<1> DEFINE choose == [X \in SUBSET (1..n) |-> Max(X)]
<1>1. IsFiniteSet(1..n)
    BY FS_Interval
<1>2. \A X \in SUBSET (1..n) : X # {} => choose[X] \in X
    BY MaxType
<1>3. PICK iter : IsRecursion(iter, 1..n, T, base, choose, step)
    <2> HIDE DEF choose
    <2>1. QED
        BY <1>1, <1>2, FoldExists
<1>4. iter \in [SUBSET (1..n) -> T]
    BY <1>3 DEF IsRecursion
<1>5. iter = [X \in SUBSET (1..n) |-> IF X = {} THEN base
                  ELSE step[<<Max(X), iter[X \ {Max(X)}]>>]]
    BY <1>3 DEF IsRecursion
<1> DEFINE run == [k \in 0..n |-> iter[1..k]]
<1>6. \A k \in 0..n : 1..k \in SUBSET (1..n)
    OBVIOUS
<1>7. run \in [0..n -> T]
    BY <1>4, <1>6
<1>8. run[0] = base
    <2>1. 1..0 = {} /\ {} \in SUBSET (1..n) /\ 0 \in 0..n
        OBVIOUS
    <2>2. QED
        BY <1>5, <2>1
<1>9. ASSUME NEW k \in 1..n PROVE run[k] = step[<<k, run[k - 1]>>]
    <2>1. 1..k # {} /\ 1..k \in SUBSET (1..n) /\ k \in 0..n /\ k - 1 \in 0..n
        OBVIOUS
    <2>2. iter[1..k] = step[<<Max(1..k), iter[(1..k) \ {Max(1..k)}]>>]
        BY <1>5, <2>1
    <2>3. QED
        BY <2>1, <2>2, MaxOfNumbers
<1>10. IsRun(run, n, T, base, step)
    <2> HIDE DEF run
    <2>1. QED
        BY <1>7, <1>8, <1>9 DEF IsRun
<1>11. QED
    BY <1>4, <1>5, <1>10 DEF FoldsBy

\* Two runs with the same steps are the same as far as both go.
LEMMA RunsAgree ==
    ASSUME NEW n \in Nat, NEW l \in Nat, n <= l, NEW T, NEW base,
           NEW step, NEW run, IsRun(run, n, T, base, step),
           NEW longer, NEW other, IsRun(other, l, T, base, longer),
           \A k \in 1..n, t \in T : longer[<<k, t>>] = step[<<k, t>>]
    PROVE  \A k \in 0..n : other[k] = run[k]
<1> DEFINE bad == {k \in 0..n : other[k] # run[k]}
<1>1. SUFFICES ASSUME bad # {} PROVE FALSE
    OBVIOUS
<1>2. PICK k \in bad : \A j \in bad : k <= j
    <2>1. \A k \in bad : k \in 0..n
        OBVIOUS
    <2> HIDE DEF bad
    <2>2. bad \in SUBSET Nat
        BY <2>1
    <2>3. QED
        BY <1>1, <2>2, LeastNumber
<1>3. k \in 0..n /\ other[k] # run[k]
    OBVIOUS
<1>4. k # 0
    BY <1>3 DEF IsRun
<1>5. k - 1 \in 0..n /\ k \in 1..n /\ k \in 1..l /\ ~(k <= k - 1)
    BY ONLY <1>3, <1>4, n \in Nat, l \in Nat, n <= l
<1>6. other[k - 1] = run[k - 1]
    <2>1. k - 1 \notin bad
        <3> HIDE DEF bad
        <3>1. QED
            BY <1>2, <1>5
    <2>2. QED
        BY <2>1, <1>5
<1>7. run[k - 1] \in T
    BY <1>5 DEF IsRun
<1>8. QED
    BY <1>3, <1>5, <1>6, <1>7 DEF IsRun

AddTradeOf(e, r, m, g) == IF IsTradeOf(r, m, g) THEN AddTrade(e, r) ELSE e
TradeSteps(rs, m, g) ==
    [p \in (1..Len(rs)) \X Exposures |-> AddTradeOf(p[2], rs[p[1]], m, g)]

\* Rows that are no trades of the market and the sides are passed over.
LEMMA AddTradeOfType ==
    ASSUME NEW e \in Exposures, NEW r \in Rows, NEW m, NEW g
    PROVE  AddTradeOf(e, r, m, g) \in Exposures
BY RowKinds, AddTradeType DEF AddTradeOf, IsTradeOf

\* Folding trades runs through the rows one after the other.
LEMMA TradesRun ==
    ASSUME NEW rs \in Seq(Rows), NEW m, NEW g
    PROVE  \E run : /\ IsRun(run, Len(rs), Exposures, NoExposure, TradeSteps(rs, m, g))
                    /\ FoldTrades(rs, m, g) = run[Len(rs)]
<1> DEFINE n == Len(rs)
           step == TradeSteps(rs, m, g)
           defines(iter) == iter = [X \in SUBSET (1..n) |->
               IF X = {} THEN NoExposure
               ELSE IF IsTradeOf(rs[Max(X)], m, g)
                      THEN AddTrade(iter[X \ {Max(X)}], rs[Max(X)])
                      ELSE iter[X \ {Max(X)}]]
<1>1. n \in Nat /\ DOMAIN rs = 1..n /\ \A k \in 1..n : rs[k] \in Rows
    OBVIOUS
<1>2. step \in [(1..n) \X Exposures -> Exposures]
    <2>1. \A p \in (1..n) \X Exposures : AddTradeOf(p[2], rs[p[1]], m, g) \in Exposures
        BY <1>1, AddTradeOfType
    <2>2. QED
        BY <2>1 DEF TradeSteps
<1>3. PICK iter : FoldsBy(iter, n, Exposures, NoExposure, step)
    <2> HIDE DEF n, step
    <2>1. QED
        BY <1>1, <1>2, NoExposureType, FoldRuns
<1>4. /\ iter \in [SUBSET (1..n) -> Exposures]
      /\ iter = [X \in SUBSET (1..n) |-> IF X = {} THEN NoExposure
                        ELSE step[<<Max(X), iter[X \ {Max(X)}]>>]]
    <2> HIDE DEF n, step
    <2>1. QED
        BY <1>3 DEF FoldsBy
<1>5. \A X \in SUBSET (1..n) : X # {} =>
          step[<<Max(X), iter[X \ {Max(X)}]>>] =
              IF IsTradeOf(rs[Max(X)], m, g)
                THEN AddTrade(iter[X \ {Max(X)}], rs[Max(X)])
                ELSE iter[X \ {Max(X)}]
    <2>1. SUFFICES ASSUME NEW X \in SUBSET (1..n), X # {}
                   PROVE  step[<<Max(X), iter[X \ {Max(X)}]>>] =
                              AddTradeOf(iter[X \ {Max(X)}], rs[Max(X)], m, g)
        BY DEF AddTradeOf
    <2>2. Max(X) \in 1..n /\ iter[X \ {Max(X)}] \in Exposures
        BY <1>1, <1>4, <2>1, MaxType
    <2>3. QED
        BY <2>2 DEF TradeSteps
<1>6. defines(iter)
    <2> HIDE DEF step
    <2>1. QED
        BY <1>4, <1>5
<1>7. defines(CHOOSE h : defines(h))
    <2> HIDE DEF defines
    <2>1. QED
        BY <1>6
<1>8. FoldTrades(rs, m, g) = (CHOOSE h : defines(h))[1..n]
    BY <1>1 DEF FoldTrades, FoldLeft, MapThenFoldSet
<1>9. ASSUME NEW h, defines(h)
      PROVE  h = iter
    <2> DEFINE same == {X \in SUBSET (1..n) : h[X] = iter[X]}
    <2>1. ASSUME NEW X \in SUBSET (1..n), \A x \in X : X \ {x} \in same PROVE X \in same
        <3>1. CASE X = {}
            BY <1>6, <1>9, <3>1
        <3>2. CASE X # {}
            <4>1. Max(X) \in X
                BY <1>1, <3>2, MaxType
            <4>2. X \ {Max(X)} \in SUBSET (1..n) /\ h[X \ {Max(X)}] = iter[X \ {Max(X)}]
                BY <2>1, <4>1
            <4>3. QED
                BY <1>6, <1>9, <3>2, <4>2
        <3>3. QED
            BY <3>1, <3>2
    <2>2. \A X \in SUBSET (1..n) : X \in same
        <3> HIDE DEF same, defines
        <3>1. IsFiniteSet(1..n)
            BY <1>1, FS_Interval
        <3>2. QED
            BY <2>1, <3>1, SubsetInduction
    <2>3. QED
        BY <1>6, <1>9, <2>2
<1>10. FoldTrades(rs, m, g) = iter[1..n]
    <2> HIDE DEF defines
    <2>1. QED
        BY <1>7, <1>8, <1>9
<1> DEFINE run == [k \in 0..n |-> iter[1..k]]
<1>11. FoldTrades(rs, m, g) = run[n]
    BY <1>1, <1>10
<1>12. IsRun(run, n, Exposures, NoExposure, step)
    <2> HIDE DEF n, step
    <2>1. QED
        BY <1>3 DEF FoldsBy
<1>13. QED
    <2> HIDE DEF run
    <2>1. QED
        BY <1>11, <1>12

\* One row more is folded in last.
LEMMA TradesAppend ==
    ASSUME NEW rs \in Seq(Rows), NEW r \in Rows, NEW m, NEW g
    PROVE  /\ FoldTrades(rs, m, g) \in Exposures
           /\ FoldTrades(Append(rs, r), m, g) = AddTradeOf(FoldTrades(rs, m, g), r, m, g)
<1> DEFINE n == Len(rs)
           ls == Append(rs, r)
<1>1. ls \in Seq(Rows) /\ Len(ls) = n + 1 /\ n \in Nat /\ ls[n + 1] = r
      /\ \A k \in 1..n : ls[k] = rs[k]
    OBVIOUS
<1>2. PICK run : /\ IsRun(run, n, Exposures, NoExposure, TradeSteps(rs, m, g))
                 /\ FoldTrades(rs, m, g) = run[n]
    BY TradesRun
<1>3. PICK longer : /\ IsRun(longer, n + 1, Exposures, NoExposure, TradeSteps(ls, m, g))
                    /\ FoldTrades(ls, m, g) = longer[n + 1]
    <2> HIDE DEF ls, n
    <2>1. QED
        BY <1>1, TradesRun
<1>4. \A k \in 1..n, e \in Exposures :
          TradeSteps(ls, m, g)[<<k, e>>] = TradeSteps(rs, m, g)[<<k, e>>]
    <2> SUFFICES ASSUME NEW k \in 1..n, NEW e \in Exposures
                 PROVE  TradeSteps(ls, m, g)[<<k, e>>] = TradeSteps(rs, m, g)[<<k, e>>]
        OBVIOUS
    <2> HIDE DEF ls, n
    <2>1. k \in 1..Len(ls) /\ k \in 1..Len(rs)
        BY <1>1 DEF n
    <2>2. QED
        BY <1>1, <2>1 DEF TradeSteps
<1>5. longer[n] = run[n]
    <2> HIDE DEF ls, n
    <2>1. n \in 0..n /\ n <= n + 1 /\ n + 1 \in Nat
        BY <1>1
    <2>2. QED
        BY <1>1, <1>2, <1>3, <1>4, <2>1, RunsAgree
<1>6. run[n] \in Exposures
    BY <1>1, <1>2 DEF IsRun
<1>7. longer[n + 1] = TradeSteps(ls, m, g)[<<n + 1, longer[n]>>]
    <2> HIDE DEF ls, n
    <2>1. n + 1 \in 1..(n + 1) /\ (n + 1) - 1 = n
        BY <1>1
    <2>2. longer[n + 1] = TradeSteps(ls, m, g)[<<n + 1, longer[(n + 1) - 1]>>]
        BY <1>3, <2>1 DEF IsRun
    <2>3. QED
        BY <2>1, <2>2
<1>8. TradeSteps(ls, m, g)[<<n + 1, run[n]>>] = AddTradeOf(run[n], r, m, g)
    <2> HIDE DEF ls, n
    <2>1. n + 1 \in 1..Len(ls)
        BY <1>1
    <2>2. QED
        BY <1>1, <1>6, <2>1 DEF TradeSteps
<1>9. QED
    BY <1>2, <1>3, <1>5, <1>6, <1>7, <1>8

\* What trades are folded into.
LEMMA TradesType ==
    ASSUME NEW rs \in Seq(Rows), NEW m, NEW g
    PROVE  FoldTrades(rs, m, g) \in Exposures
<1>1. PICK run : /\ IsRun(run, Len(rs), Exposures, NoExposure, TradeSteps(rs, m, g))
                 /\ FoldTrades(rs, m, g) = run[Len(rs)]
    BY TradesRun
<1>2. Len(rs) \in 0..Len(rs)
    OBVIOUS
<1>3. QED
    BY <1>1, <1>2 DEF IsRun

\* Nobody is exposed by no trade.
LEMMA TradesOfNone == \A m, g : FoldTrades(<<>>, m, g) = NoExposure
<1> SUFFICES ASSUME NEW m, NEW g PROVE FoldTrades(<<>>, m, g) = NoExposure
    OBVIOUS
<1>1. <<>> \in Seq(Rows) /\ Len(<<>>) = 0
    OBVIOUS
<1>2. PICK run : /\ IsRun(run, Len(<<>>), Exposures, NoExposure, TradeSteps(<<>>, m, g))
                 /\ FoldTrades(<<>>, m, g) = run[Len(<<>>)]
    BY <1>1, TradesRun
<1>3. QED
    BY <1>1, <1>2 DEF IsRun

---------------------------------------------------------------------------
(* What trades add up to *)

\* What a row adds to a total, and to what is owned of a side.
AmountIn(r, kinds) == IF r.kind \in kinds THEN r.amount ELSE 0
SharesIn(r, m, s) ==
    IF ~IsTradeOf(r, m, {s}) THEN 0
    ELSE IF r.kind = "buy" THEN r.shares ELSE -r.shares

\* What a row adds to a total or to a net position is an integer.
LEMMA RowNumbers ==
    ASSUME NEW r \in Rows, NEW kinds, NEW m, NEW s
    PROVE  AmountIn(r, kinds) \in Int /\ SharesIn(r, m, s) \in Int
<1>1. AmountIn(r, kinds) \in Int
    BY RowKinds DEF AmountIn
<1>2. SharesIn(r, m, s) \in Int
    <2>1. CASE IsTradeOf(r, m, {s})
        <3>1. r \in TradeRecords
            BY <2>1, RowKinds DEF IsTradeOf
        <3>2. QED
            BY <3>1, <2>1 DEF SharesIn, TradeRecords
    <2>2. CASE ~IsTradeOf(r, m, {s})
        BY <2>2 DEF SharesIn
    <2>3. QED
        BY <2>1, <2>2
<1>3. QED
    BY <1>1, <1>2

\* A row more in a total.
LEMMA TotalAppend ==
    ASSUME NEW rs \in Seq(Rows), NEW r \in Rows, NEW kinds
    PROVE  /\ Total(rs, kinds) \in Int
           /\ Total(Append(rs, r), kinds) = Total(rs, kinds) + AmountIn(r, kinds)
<1> DEFINE n == Len(rs)
           ls == Append(rs, r)
           f == [i \in DOMAIN rs |-> AmountIn(rs[i], kinds)]
           g == [i \in DOMAIN ls |-> AmountIn(ls[i], kinds)]
<1>1. /\ n \in Nat /\ DOMAIN rs = 1..n /\ DOMAIN ls = 1..(n + 1) /\ ls[n + 1] = r
      /\ \A k \in 1..n : ls[k] = rs[k] /\ rs[k] \in Rows
    OBVIOUS
<1>2. DOMAIN f = 1..n /\ DOMAIN g = 1..(n + 1) /\ \A k \in 1..n : g[k] = f[k]
    <2> HIDE DEF ls, n
    <2>1. \A k \in 1..n : k \in 1..(n + 1)
        BY <1>1
    <2>2. QED
        BY <1>1, <2>1
<1>3. IntegersOn(f, 1..n)
    <2> HIDE DEF n
    <2>1. QED
        BY <1>1, RowNumbers DEF IntegersOn
<1>4. g[n + 1] = AmountIn(r, kinds) /\ g[n + 1] \in Int
    <2> HIDE DEF ls, n
    <2>1. n + 1 \in 1..(n + 1)
        BY <1>1
    <2>2. QED
        BY <1>1, <2>1, RowNumbers
<1>5. SumFunction(g) = SumFunction(f) + g[n + 1] /\ SumFunction(f) \in Int
    <2> HIDE DEF f, g, n
    <2>1. QED
        BY <1>1, <1>2, <1>3, <1>4, SumsAppend
<1>6. Total(rs, kinds) = SumFunction(f) /\ Total(ls, kinds) = SumFunction(g)
    BY DEF Total, AmountIn
<1>7. QED
    <2> HIDE DEF f, g, n
    <2>1. QED
        BY <1>4, <1>5, <1>6

\* A row more in a net position.
LEMMA NetAppend ==
    ASSUME NEW rs \in Seq(Rows), NEW r \in Rows, NEW m, NEW s
    PROVE  /\ NetOf(rs, m, s) \in Int
           /\ NetOf(Append(rs, r), m, s) = NetOf(rs, m, s) + SharesIn(r, m, s)
<1> DEFINE n == Len(rs)
           ls == Append(rs, r)
           f == [i \in DOMAIN rs |-> SharesIn(rs[i], m, s)]
           g == [i \in DOMAIN ls |-> SharesIn(ls[i], m, s)]
<1>1. /\ n \in Nat /\ DOMAIN rs = 1..n /\ DOMAIN ls = 1..(n + 1) /\ ls[n + 1] = r
      /\ \A k \in 1..n : ls[k] = rs[k] /\ rs[k] \in Rows
    OBVIOUS
<1>2. DOMAIN f = 1..n /\ DOMAIN g = 1..(n + 1) /\ \A k \in 1..n : g[k] = f[k]
    <2> HIDE DEF ls, n
    <2>1. \A k \in 1..n : k \in 1..(n + 1)
        BY <1>1
    <2>2. QED
        BY <1>1, <2>1
<1>3. IntegersOn(f, 1..n)
    <2> HIDE DEF n
    <2>1. QED
        BY <1>1, RowNumbers DEF IntegersOn
<1>4. g[n + 1] = SharesIn(r, m, s) /\ g[n + 1] \in Int
    <2> HIDE DEF ls, n
    <2>1. n + 1 \in 1..(n + 1)
        BY <1>1
    <2>2. QED
        BY <1>1, <2>1, RowNumbers
<1>5. SumFunction(g) = SumFunction(f) + g[n + 1] /\ SumFunction(f) \in Int
    <2> HIDE DEF f, g, n
    <2>1. QED
        BY <1>1, <1>2, <1>3, <1>4, SumsAppend
<1>6. NetOf(rs, m, s) = SumFunction(f) /\ NetOf(ls, m, s) = SumFunction(g)
    BY DEF NetOf, SharesIn
<1>7. QED
    <2> HIDE DEF f, g, n
    <2>1. QED
        BY <1>4, <1>5, <1>6

\* Without rows, totals and net positions are zero.
LEMMA EmptySums ==
    /\ \A kinds : Total(<<>>, kinds) = 0
    /\ \A m, s : NetOf(<<>>, m, s) = 0
BY SumsEmpty DEF Total, NetOf, SumFunction

\* The rows, newest first.
LEMMA RowsReverse ==
    ASSUME NEW rs \in Seq(Rows)
    PROVE  /\ Reverse(rs) \in Seq(Rows) /\ Len(Reverse(rs)) = Len(rs)
           /\ \A k \in 1..Len(rs) : Reverse(rs)[k] = rs[Len(rs) - k + 1]
<1>1. \A k \in 1..Len(rs) : (Len(rs) - k) + 1 \in 1..Len(rs)
                             /\ Reverse(rs)[k] = rs[(Len(rs) - k) + 1]
    BY DEF Reverse
<1>2. \A k \in 1..Len(rs) : rs[(Len(rs) - k) + 1] \in Rows
    BY <1>1
<1>3. QED
    BY <1>1, <1>2 DEF Reverse

\* What is owned of a side does not depend on the order of the rows.
LEMMA NetReverse ==
    ASSUME NEW rs \in Seq(Rows), NEW m, NEW s
    PROVE  NetOf(Reverse(rs), m, s) = NetOf(rs, m, s)
<1> DEFINE n == Len(rs)
           ls == Reverse(rs)
           f == [i \in DOMAIN rs |-> SharesIn(rs[i], m, s)]
           g == [i \in DOMAIN ls |-> SharesIn(ls[i], m, s)]
<1>1. n \in Nat /\ DOMAIN rs = 1..n /\ \A k \in 1..n : rs[k] \in Rows
    OBVIOUS
<1>2. DOMAIN ls = 1..n /\ \A k \in 1..n : ls[k] = rs[n - k + 1]
    BY RowsReverse
<1>3. DOMAIN f = 1..n /\ DOMAIN g = 1..n /\ \A k \in 1..n : g[k] = f[n - k + 1]
    <2> HIDE DEF ls, n
    <2>1. \A k \in 1..n : n - k + 1 \in 1..n
        BY <1>1
    <2>2. QED
        BY <1>1, <1>2, <2>1
<1>4. IntegersOn(f, 1..n)
    <2> HIDE DEF n
    <2>1. QED
        BY <1>1, RowNumbers DEF IntegersOn
<1>5. SumFunction(f) = SumFunction(g)
    <2> HIDE DEF f, g, n
    <2>1. QED
        BY <1>1, <1>3, <1>4, SumsReverse
<1>6. NetOf(rs, m, s) = SumFunction(f) /\ NetOf(ls, m, s) = SumFunction(g)
    BY DEF NetOf, SharesIn
<1>7. QED
    BY <1>5, <1>6

\* An exposure has at least what was bought and not sold, in any order.
LEMMA TradesCoverNet ==
    ASSUME NEW rs \in Seq(Rows), NEW m, NEW g, NEW s \in Sides, s \in g
    PROVE  NetOf(rs, m, s) <= FoldTrades(rs, m, g).shares[s]
<1> DEFINE n == Len(rs)
           f == [i \in DOMAIN rs |-> SharesIn(rs[i], m, s)]
<1>1. n \in Nat /\ DOMAIN rs = 1..n /\ \A k \in 1..n : rs[k] \in Rows
    OBVIOUS
<1>2. IntegersOn(f, 1..n)
    <2> HIDE DEF n
    <2>1. QED
        BY <1>1, RowNumbers DEF IntegersOn
<1>3. NetOf(rs, m, s) = SumFunctionOnSet(f, 1..n)
    BY <1>1 DEF NetOf, SharesIn, SumFunction
<1>4. PICK run : /\ IsRun(run, n, Exposures, NoExposure, TradeSteps(rs, m, g))
                 /\ FoldTrades(rs, m, g) = run[n]
    BY TradesRun
<1> DEFINE good == {k \in 0..n : SumFunctionOnSet(f, 1..k) <= run[k].shares[s]}
<1>5. 0 \in good
    <2>1. SumFunctionOnSet(f, 1..0) = 0
        BY SumsEmpty
    <2>2. run[0].shares[s] = 0
        BY <1>4 DEF IsRun, NoExposure
    <2>3. QED
        BY <1>1, <2>1, <2>2
<1>6. ASSUME NEW k \in 1..n, k - 1 \in good PROVE k \in good
    <2> DEFINE e == run[k - 1]
    <2>1. k \in 0..n /\ k - 1 \in 0..n
        BY <1>1
    <2>2. SumFunctionOnSet(f, 1..k) = SumFunctionOnSet(f, 1..(k - 1)) + f[k]
        <3> HIDE DEF f, n
        <3>1. QED
            BY <1>1, <1>2, SumsPrefix
    <2>3. e \in Exposures
        BY <1>4, <2>1 DEF IsRun
    <2>4. run[k] = AddTradeOf(e, rs[k], m, g)
        <3>1. run[k] = TradeSteps(rs, m, g)[<<k, e>>]
            BY <1>4 DEF IsRun
        <3>2. QED
            BY <2>3, <3>1 DEF TradeSteps
    <2>5. f[k] = SharesIn(rs[k], m, s) /\ f[k] \in Int
        BY <1>1, <1>2 DEF IntegersOn
    <2>6. SumFunctionOnSet(f, 1..(k - 1)) \in Int
        <3> HIDE DEF f, n
        <3>1. k - 1 \in Int /\ 1..(k - 1) \subseteq 1..n
            BY <1>1
        <3>2. IntegersOn(f, 1..(k - 1))
            BY <1>2, <3>1 DEF IntegersOn
        <3>3. IsFiniteSet(1..(k - 1))
            BY <3>1, FS_Interval
        <3>4. QED
            BY <3>2, <3>3, SumsType
    <2>7. SumFunctionOnSet(f, 1..(k - 1)) <= e.shares[s] /\ e.shares[s] \in Nat
        BY <1>6, <2>3 DEF Exposures
    <2>8. e.shares[s] + SharesIn(rs[k], m, s) <= run[k].shares[s] /\ run[k].shares[s] \in Nat
        <3>1. CASE ~IsTradeOf(rs[k], m, g)
            <4>1. ~IsTradeOf(rs[k], m, {s})
                BY <3>1 DEF IsTradeOf
            <4>2. QED
                BY <2>4, <2>7, <3>1, <4>1 DEF AddTradeOf, SharesIn
        <3>2. CASE IsTradeOf(rs[k], m, g)
            <4>1. rs[k] \in TradeRecords /\ run[k] = AddTrade(e, rs[k])
                BY <1>1, <2>4, <3>2, RowKinds DEF IsTradeOf, AddTradeOf
            <4>2. CASE rs[k].side # s
                BY <2>3, <2>7, <4>1, <4>2, AddTradeType DEF SharesIn, IsTradeOf
            <4>3. CASE rs[k].side = s
                <5>1. SharesIn(rs[k], m, s) = IF rs[k].kind = "buy" THEN rs[k].shares
                                              ELSE -rs[k].shares
                    BY <3>2, <4>3 DEF SharesIn, IsTradeOf
                <5>2. run[k].shares[s] =
                          IF rs[k].kind = "buy" THEN e.shares[s] + rs[k].shares
                          ELSE IF rs[k].shares < e.shares[s] THEN e.shares[s] - rs[k].shares
                          ELSE 0
                    BY <2>3, <4>1, <4>3, AddTradeType
                <5>3. rs[k].shares \in Nat
                    BY <4>1 DEF TradeRecords
                <5>4. QED
                    BY <2>7, <5>1, <5>2, <5>3
            <4>4. QED
                BY <4>2, <4>3
        <3>3. QED
            BY <3>1, <3>2
    <2>9. QED
        <3> HIDE DEF f, n, e
        <3>1. QED
            BY <2>1, <2>2, <2>5, <2>6, <2>7, <2>8
<1>7. \A k \in 0..n : k \in good
    <2> HIDE DEF good, n
    <2>1. QED
        BY <1>1, <1>5, <1>6, PrefixInduction
<1>8. n \in good
    <2> HIDE DEF good
    <2>1. QED
        BY <1>1, <1>7
<1>9. QED
    BY <1>3, <1>4, <1>8

---------------------------------------------------------------------------
(* The inductive invariant *)

Resolutions == [kind: {"resolved"}, user: {"house"}, market: Markets, amount: {0}, tx: Nat]
FeeRows == [market: Markets, amount: Nat, tx: Nat]

\* The events of a trader, handled or not: an event handled twice counts once.
EventIds(u) == {i \in DOMAIN rows[u] : ~IsTrade(rows[u][i])}
EventsOf(u) ==
    {e \in logs : e.kind # "resolved" /\ e.user = u} \union {rows[u][i] : i \in EventIds(u)}

Moved(u, kinds) == SumFunction([e \in EventsOf(u) |-> AmountIn(e, kinds)])
Redeemed(u, m) == \E e \in EventsOf(u) : e.kind = "redemption" /\ e.market = m

\* Tables and logs are finite and hold what they are declared to hold.
RowsInv ==
    /\ TypeOK /\ sent \in Nat
    /\ rows \in [Traders -> Seq(Rows)]
    /\ logs \subseteq Events \union Resolutions /\ IsFiniteSet(logs)
    /\ fees \subseteq FeeRows /\ IsFiniteSet(fees) /\ \A fee \in fees : fee.tx < sent

\* A row of an event is its trader's, and the only one of that event; a
\* market is redeemed once, for what the trades left.
EventsInv ==
    \A u \in Traders :
        /\ \A i \in EventIds(u) : rows[u][i].user = u
        /\ \A i, j \in EventIds(u) : rows[u][i] = rows[u][j] => i = j
        /\ \A e \in EventsOf(u) :
               IF e.kind = "redemption"
                 THEN /\ e.market \in Markets /\ outcome[e.market] # Open
                      /\ e.amount = NetOf(rows[u], e.market, outcome[e.market])
                      /\ e.amount > 0
                 ELSE e.market = Open /\ e.tx < sent
        /\ \A e, f \in EventsOf(u) :
               e.kind = "redemption" /\ f.kind = "redemption" /\ e.market = f.market => e = f

\* A market's row has the result of the chain, or the event that says so is
\* still to be handled; only resolved markets are drained.
ResolutionInv ==
    /\ \A m \in Markets :
           /\ market[m].result \in {Open, outcome[m]}
           /\ outcome[m] # Open /\ market[m].result = Open =>
                  \E log \in logs : log.kind = "resolved" /\ log.market = m
           /\ market[m].drained => market[m].result # Open
           /\ ~market[m].drained => market[m].withdrawn = 0 /\ market[m].claims = 0
    /\ \A log \in logs : log.kind = "resolved" => outcome[log.market] # Open

\* What the trades left is what is held, and what the position row says,
\* until it is redeemed.
PositionInv ==
    \A u \in Traders, m \in Markets, s \in Sides :
        /\ Exposure(u, m, GroupOf(m, s)).shares[s] = NetOf(rows[u], m, s)
        /\ \A t \in Sides \ GroupOf(m, s) : Exposure(u, m, GroupOf(m, s)).shares[t] = 0
        /\ held[<<u, m>>][s] =
               IF Redeemed(u, m) /\ s = outcome[m] THEN 0 ELSE NetOf(rows[u], m, s)
        /\ ~Redeemed(u, m) => balance[<<u, m>>][s] = NetOf(rows[u], m, s)

CashFlowOf(m) ==
    SumFunction([u \in Traders |->
        SumFunction([g \in Groups(m) |-> Exposure(u, m, g).cashFlow])])
NetTotal(m, s) == SumFunction([u \in Traders |-> NetOf(rows[u], m, s)])
\* What a pool has paid to winners.
Paid(m) ==
    IF outcome[m] = Open THEN 0
    ELSE NetTotal(m, outcome[m]) - Outstanding(held, m, outcome[m])

\* A pool holds what its trades paid in, less what was paid out of it, and can
\* pay whoever wins.
PoolInv ==
    \A m \in Markets :
        /\ cash[m] = Seed - CashFlowOf(m) - FeesOf(m) - market[m].withdrawn - Paid(m)
        /\ outcome[m] = Open => Covered(held, m, cash[m])
        /\ outcome[m] # Open => Outstanding(held, m, outcome[m]) <= cash[m]

\* An escrow holds what its rows and events say, handled or not.
LedgerInv ==
    \A u \in Traders :
        escrow[u] = Endowment + Total(rows[u], {"sell"}) - Total(rows[u], {"buy"})
                      + Moved(u, {"deposit", "redemption"}) - Moved(u, {"withdraw"})

Money ==
    SumFunction(escrow) + SumFunction(cash)
      + SumFunction([m \in Markets |-> market[m].withdrawn])
      + SumFunction([fee \in fees |-> fee.amount])
\* Money only comes and goes with deposits and withdrawals.
MoneyInv ==
    Money = Endowment * Cardinality(Traders) + Seed * Cardinality(Markets)
              + SumFunction([u \in Traders |-> Moved(u, {"deposit"})])
              - SumFunction([u \in Traders |-> Moved(u, {"withdraw"})])

AccountsInv ==
    /\ RowsInv /\ EventsInv /\ ResolutionInv
    /\ PositionInv /\ PoolInv /\ LedgerInv /\ MoneyInv

---------------------------------------------------------------------------
(* What each action changes in rows and sums *)

\* A trader's events are finitely many events.
LEMMA EventsType ==
    ASSUME RowsInv, NEW u \in Traders
    PROVE  /\ EventsOf(u) \subseteq Events /\ IsFiniteSet(EventsOf(u))
           /\ EventIds(u) \subseteq 1..Len(rows[u]) /\ IsFiniteSet(EventIds(u))
           /\ rows[u] \in Seq(Rows)
<1>1. rows[u] \in Seq(Rows)
    BY DEF RowsInv
<1>2. EventIds(u) \subseteq 1..Len(rows[u]) /\ Len(rows[u]) \in Nat
    BY <1>1 DEF EventIds
<1>3. IsFiniteSet(1..Len(rows[u]))
    BY <1>2, FS_Interval
<1>4. IsFiniteSet(EventIds(u))
    BY <1>2, <1>3, FS_Subset
<1>5. \A i \in EventIds(u) : rows[u][i] \in Events
    <2>1. ASSUME NEW i \in EventIds(u) PROVE rows[u][i] \in Events
        <3>1. rows[u][i] \in Rows /\ ~IsTrade(rows[u][i])
            BY <1>1, <1>2 DEF EventIds
        <3>2. QED
            BY <3>1, RowKinds
    <2>2. QED
        BY <2>1
<1>6. \A e \in logs : e.kind # "resolved" => e \in Events
    BY DEF RowsInv, Resolutions
<1>7. IsFiniteSet({rows[u][i] : i \in EventIds(u)})
    BY <1>4, FiniteImage
<1>8. IsFiniteSet({e \in logs : e.kind # "resolved" /\ e.user = u})
    BY FS_Subset DEF RowsInv
<1>9. IsFiniteSet(EventsOf(u))
    BY <1>7, <1>8, FS_Union DEF EventsOf
<1>10. EventsOf(u) \subseteq Events
    BY <1>5, <1>6 DEF EventsOf
<1>11. QED
    BY <1>1, <1>2, <1>4, <1>9, <1>10

\* What a trader's events moved is a number.
LEMMA AmountsOf ==
    ASSUME RowsInv, NEW u \in Traders, NEW kinds
    PROVE  /\ \A e \in EventsOf(u) : AmountIn(e, kinds) \in Nat
           /\ IntegersOn([e \in EventsOf(u) |-> AmountIn(e, kinds)], EventsOf(u))
           /\ Moved(u, kinds) \in Nat
<1>1. EventsOf(u) \subseteq Events /\ IsFiniteSet(EventsOf(u))
    BY EventsType
<1>2. \A e \in EventsOf(u) : AmountIn(e, kinds) \in Nat
    BY <1>1 DEF AmountIn, Events
<1> DEFINE f == [e \in EventsOf(u) |-> AmountIn(e, kinds)]
<1>3. \A e \in EventsOf(u) : f[e] \in Nat
    BY <1>2
<1>4. DOMAIN f = EventsOf(u) /\ Moved(u, kinds) = SumFunction(f)
    BY DEF Moved
<1>5. SumFunctionOnSet(f, EventsOf(u)) \in Nat
    <2> HIDE DEF f
    <2>1. QED
        BY <1>1, <1>3, SumsNat
<1>6. QED
    BY <1>2, <1>3, <1>4, <1>5 DEF SumFunction, IntegersOn

\* A new event moves its amount; nothing else is touched.
LEMMA EmitEvents ==
    ASSUME RowsInv, RowsInv', NEW u \in Traders, NEW e \in Events, e.user = u, e \notin EventsOf(u),
           rows' = rows, logs' = logs \union {e}
    PROVE  /\ EventsOf(u)' = EventsOf(u) \union {e}
           /\ \A v \in Traders \ {u} : EventsOf(v)' = EventsOf(v)
           /\ \A v \in Traders : EventIds(v)' = EventIds(v)
           /\ \A kinds : /\ Moved(u, kinds)' = Moved(u, kinds) + AmountIn(e, kinds)
                         /\ \A v \in Traders \ {u} : Moved(v, kinds)' = Moved(v, kinds)
<1>1. e.kind # "resolved"
    BY DEF Events
<1>2. \A v \in Traders : EventIds(v)' = EventIds(v)
    BY DEF EventIds
<1>3. EventsOf(u)' = EventsOf(u) \union {e}
    BY <1>1, <1>2 DEF EventsOf
<1>4. \A v \in Traders \ {u} : EventsOf(v)' = EventsOf(v)
    BY <1>2 DEF EventsOf
<1>5. ASSUME NEW kinds PROVE Moved(u, kinds)' = Moved(u, kinds) + AmountIn(e, kinds)
    <2> DEFINE S == EventsOf(u)
               f == [x \in S |-> AmountIn(x, kinds)]
               g == [x \in S \union {e} |-> AmountIn(x, kinds)]
    <2>1. IsFiniteSet(S) /\ IntegersOn(f, S)
        BY EventsType, AmountsOf
    <2>2. Moved(u, kinds) = SumFunctionOnSet(f, S) /\ DOMAIN g = S \union {e}
        BY DEF Moved, SumFunction
    <2>3. Moved(u, kinds)' = SumFunctionOnSet(g, S \union {e})
        BY <1>3 DEF Moved, SumFunction
    <2>4. (\A x \in S : g[x] = f[x]) /\ g[e] = AmountIn(e, kinds) /\ g[e] \in Int
        BY DEF AmountIn, Events
    <2>5. IntegersOn(g, S) /\ e \notin S
        BY <2>1, <2>4 DEF IntegersOn
    <2> HIDE DEF f, g, S
    <2>6. SumFunctionOnSet(g, S \union {e}) = SumFunctionOnSet(g, S) + g[e]
        BY <2>1, <2>4, <2>5, SumsAdd
    <2>7. SumFunctionOnSet(f, S) = SumFunctionOnSet(g, S)
        BY <2>1, <2>4, SumsAgree
    <2>8. QED
        BY <2>2, <2>3, <2>4, <2>6, <2>7
<1>6. ASSUME NEW kinds, NEW v \in Traders \ {u} PROVE Moved(v, kinds)' = Moved(v, kinds)
    BY <1>4 DEF Moved
<1>7. QED
    BY <1>2, <1>3, <1>4, <1>5, <1>6

\* A row more, for one trader.
LEMMA AppendRow ==
    ASSUME RowsInv, NEW u \in Traders, NEW r \in Rows,
           rows' = [rows EXCEPT ![u] = Append(@, r)]
    PROVE  /\ rows' \in [Traders -> Seq(Rows)]
           /\ rows'[u] = Append(rows[u], r)
           /\ \A v \in Traders \ {u} : rows'[v] = rows[v]
           /\ DOMAIN rows'[u] = 1..(Len(rows[u]) + 1) /\ rows'[u][Len(rows[u]) + 1] = r
           /\ \A k \in 1..Len(rows[u]) : rows'[u][k] = rows[u][k]
<1>1. rows \in [Traders -> Seq(Rows)] /\ rows[u] \in Seq(Rows)
    BY DEF RowsInv
<1>2. Append(rows[u], r) \in Seq(Rows)
    BY <1>1
<1>3. rows'[u] = Append(rows[u], r) /\ \A v \in Traders \ {u} : rows'[v] = rows[v]
    BY <1>1
<1>4. rows' \in [Traders -> Seq(Rows)]
    BY <1>1, <1>2
<1>5. QED
    BY <1>1, <1>3, <1>4

\* A row of a trade is no event.
LEMMA TradeEvents ==
    ASSUME RowsInv, NEW u \in Traders, NEW r \in TradeRecords, logs' = logs,
           rows' = [rows EXCEPT ![u] = Append(@, r)]
    PROVE  /\ \A v \in Traders : EventIds(v)' = EventIds(v) /\ EventsOf(v)' = EventsOf(v)
           /\ \A v \in Traders : \A i \in EventIds(v) : rows'[v][i] = rows[v][i]
           /\ \A kinds : \A v \in Traders : Moved(v, kinds)' = Moved(v, kinds)
<1>1. r \in Rows /\ IsTrade(r)
    BY DEF Rows, TradeRecords, IsTrade
<1>2. /\ rows'[u][Len(rows[u]) + 1] = r /\ DOMAIN rows'[u] = 1..(Len(rows[u]) + 1)
      /\ \A k \in 1..Len(rows[u]) : rows'[u][k] = rows[u][k]
      /\ \A v \in Traders \ {u} : rows'[v] = rows[v]
    BY <1>1, AppendRow
<1>3. \A v \in Traders : Len(rows[v]) \in Nat /\ DOMAIN rows[v] = 1..Len(rows[v])
    BY DEF RowsInv
<1>4. EventIds(u)' = EventIds(u)
    <2>1. ASSUME NEW i PROVE i \in EventIds(u)' <=> i \in EventIds(u)
        <3>1. i \in 1..(Len(rows[u]) + 1) <=> i \in 1..Len(rows[u]) \/ i = Len(rows[u]) + 1
            BY <1>3
        <3>2. QED
            BY <1>1, <1>2, <1>3, <3>1 DEF EventIds
    <2>2. QED
        BY <2>1
<1>5. ASSUME NEW v \in Traders \ {u} PROVE EventIds(v)' = EventIds(v)
    BY <1>2 DEF EventIds
<1>6. \A v \in Traders : \A i \in EventIds(v) : rows'[v][i] = rows[v][i]
    BY <1>2, <1>3 DEF EventIds
<1>7. ASSUME NEW v \in Traders PROVE EventsOf(v)' = EventsOf(v)
    <2>1. EventIds(v)' = EventIds(v)
        BY <1>4, <1>5
    <2>2. {rows'[v][i] : i \in EventIds(v)} = {rows[v][i] : i \in EventIds(v)}
        BY <1>6
    <2>3. QED
        BY <2>1, <2>2 DEF EventsOf
<1>8. \A kinds : \A v \in Traders : Moved(v, kinds)' = Moved(v, kinds)
    BY <1>7 DEF Moved
<1>9. QED
    BY <1>4, <1>5, <1>6, <1>7, <1>8

\* Nobody has redeemed in an open market.
LEMMA OpenPosition ==
    ASSUME EventsInv, PositionInv, NEW u \in Traders, NEW m \in Markets, outcome[m] = Open
    PROVE  /\ ~Redeemed(u, m)
           /\ \A s \in Sides : /\ held[<<u, m>>][s] = NetOf(rows[u], m, s)
                               /\ balance[<<u, m>>][s] = NetOf(rows[u], m, s)
<1>1. ~Redeemed(u, m)
    BY DEF EventsInv, Redeemed
<1>2. QED
    BY <1>1 DEF PositionInv

\* Nobody holds more of a side than is outstanding.
LEMMA OutstandingType ==
    ASSUME NEW h \in [Traders \X Markets -> [Sides -> Nat]], NEW m \in Markets, NEW s \in Sides
    PROVE  /\ Outstanding(h, m, s) \in Nat
           /\ \A u \in Traders : h[<<u, m>>][s] <= Outstanding(h, m, s)
<1> DEFINE f == [u \in Traders |-> h[<<u, m>>][s]]
<1>1. DOMAIN f = Traders /\ (\A u \in Traders : f[u] \in Nat)
      /\ \A u \in Traders : f[u] = h[<<u, m>>][s]
    OBVIOUS
<1>2. Outstanding(h, m, s) = SumFunctionOnSet(f, Traders)
    BY <1>1 DEF Outstanding, SumFunction
<1>3. SumFunctionOnSet(f, Traders) \in Nat /\ \A u \in Traders : f[u] <= SumFunctionOnSet(f, Traders)
    <2> HIDE DEF f
    <2>1. QED
        BY <1>1, FiniteAssumption, SumsNat
<1>4. QED
    BY <1>1, <1>2, <1>3

Quantity == [amount : Nat, shares : Nat \ {0}]
Signed(kind, n) == IF kind = "buy" THEN n ELSE -n

\* One entry of a table of holdings changes.
LEMMA EntryChange ==
    ASSUME NEW h \in [Traders \X Markets -> [Sides -> Nat]],
           NEW u \in Traders, NEW m \in Markets, NEW s \in Sides, NEW d \in Int,
           h[<<u, m>>][s] + d >= 0, NEW new, new = [h EXCEPT ![<<u, m>>][s] = @ + d]
    PROVE  /\ new \in [Traders \X Markets -> [Sides -> Nat]]
           /\ new[<<u, m>>][s] = h[<<u, m>>][s] + d
           /\ \A t \in Sides \ {s} : new[<<u, m>>][t] = h[<<u, m>>][t]
           /\ \A k \in (Traders \X Markets) \ {<<u, m>>} : new[k] = h[k]
<1>1. <<u, m>> \in Traders \X Markets /\ h[<<u, m>>] \in [Sides -> Nat]
    OBVIOUS
<1>2. h[<<u, m>>][s] + d \in Nat
    BY <1>1
<1>3. [h[<<u, m>>] EXCEPT ![s] = @ + d] \in [Sides -> Nat]
    BY <1>1, <1>2
<1>4. new = [h EXCEPT ![<<u, m>>] = [h[<<u, m>>] EXCEPT ![s] = @ + d]]
    BY <1>1
<1>5. QED
    BY <1>1, <1>3, <1>4

\* What a mined and booked trade has done.
Traded(u, m, s, kind, q, f) ==
    /\ outcome[m] = Open
    /\ Row(kind, m, s, q.shares, q.amount) \in TradeRecords
    /\ rows' = [rows EXCEPT ![u] = Append(@, Row(kind, m, s, q.shares, q.amount))]
    /\ held' \in [Traders \X Markets -> [Sides -> Nat]]
    /\ held'[<<u, m>>][s] = held[<<u, m>>][s] + Signed(kind, q.shares)
    /\ \A t \in Sides \ {s} : held'[<<u, m>>][t] = held[<<u, m>>][t]
    /\ \A k \in (Traders \X Markets) \ {<<u, m>>} : held'[k] = held[k]
    /\ balance' \in [Traders \X Markets -> [Sides -> Nat]]
    /\ balance'[<<u, m>>][s] = balance[<<u, m>>][s] + Signed(kind, q.shares)
    /\ \A t \in Sides \ {s} : balance'[<<u, m>>][t] = balance[<<u, m>>][t]
    /\ \A k \in (Traders \X Markets) \ {<<u, m>>} : balance'[k] = balance[k]
    /\ escrow' \in [Traders -> Nat]
    /\ escrow' = [escrow EXCEPT ![u] = @ - Signed(kind, q.amount)]
    /\ cash' \in [Markets -> Nat]
    /\ cash' = [cash EXCEPT ![m] = @ + Signed(kind, q.amount) - f]
    /\ Covered(held', m, cash'[m])
    /\ outcome' = outcome /\ logs' = logs /\ market' = market /\ sent' = sent + 1

\* A trade in its parts: a sell takes no more from the position row than
\* from the tokens.
LEMMA TradeEffect ==
    ASSUME RowsInv, EventsInv, PositionInv, NEW u \in Traders, NEW m \in Markets, NEW s \in Sides,
           NEW kind \in {"buy", "sell"}, NEW q \in Quantity, NEW f \in Nat, Trade(u, m, s, kind, q, f)
    PROVE  Traded(u, m, s, kind, q, f)
<1> DEFINE d == Signed(kind, q.shares)
           a == Signed(kind, q.amount)
<1>1. d \in Int /\ a \in Int /\ Row(kind, m, s, q.shares, q.amount) \in TradeRecords
    BY DEF Signed, Quantity, Row, TradeRecords
<1>2. /\ outcome[m] = Open /\ escrow[u] - a >= 0 /\ held[<<u, m>>][s] + d >= 0
      /\ held' = [held EXCEPT ![<<u, m>>][s] = @ + d]
      /\ cash' = [cash EXCEPT ![m] = @ + a - f]
      /\ Covered(held', m, cash'[m])
      /\ escrow' = [escrow EXCEPT ![u] = @ - a]
      /\ rows' = [rows EXCEPT ![u] = Append(@, Row(kind, m, s, q.shares, q.amount))]
      /\ balance' = [balance EXCEPT ![<<u, m>>][s] = @ + d]
      /\ sent' = sent + 1
      /\ outcome' = outcome /\ logs' = logs /\ market' = market
    BY DEF Trade, Signed
<1> HIDE DEF d, a
<1>3. balance[<<u, m>>][s] = held[<<u, m>>][s]
    BY <1>2, OpenPosition
<1>4. /\ held' \in [Traders \X Markets -> [Sides -> Nat]]
      /\ held'[<<u, m>>][s] = held[<<u, m>>][s] + d
      /\ \A t \in Sides \ {s} : held'[<<u, m>>][t] = held[<<u, m>>][t]
      /\ \A k \in (Traders \X Markets) \ {<<u, m>>} : held'[k] = held[k]
    <2>1. held \in [Traders \X Markets -> [Sides -> Nat]]
        BY DEF RowsInv, TypeOK
    <2>2. QED
        BY <1>1, <1>2, <2>1, EntryChange
<1>5. /\ balance' \in [Traders \X Markets -> [Sides -> Nat]]
      /\ balance'[<<u, m>>][s] = balance[<<u, m>>][s] + d
      /\ \A t \in Sides \ {s} : balance'[<<u, m>>][t] = balance[<<u, m>>][t]
      /\ \A k \in (Traders \X Markets) \ {<<u, m>>} : balance'[k] = balance[k]
    <2>1. balance \in [Traders \X Markets -> [Sides -> Nat]] /\ balance[<<u, m>>][s] + d >= 0
        BY <1>2, <1>3 DEF RowsInv, TypeOK
    <2>2. QED
        BY <1>1, <1>2, <2>1, EntryChange
<1>6. escrow' \in [Traders -> Nat]
    <2>1. escrow \in [Traders -> Nat]
        BY DEF RowsInv, TypeOK
    <2>2. escrow[u] - a \in Nat
        BY <1>1, <1>2, <2>1
    <2>3. QED
        BY <1>2, <2>1, <2>2
<1>7. cash' \in [Markets -> Nat]
    <2>1. cash \in [Markets -> Nat]
        BY DEF RowsInv, TypeOK
    <2>2. cash[m] + a - f \in Int /\ cash'[m] = cash[m] + a - f
        BY <1>1, <1>2, <2>1
    <2>3. Outstanding(held', m, s) <= cash'[m]
        BY <1>2 DEF Covered
    <2>4. Outstanding(held', m, s) \in Nat
        BY <1>4, OutstandingType
    <2>5. cash'[m] \in Nat
        <3>1. \A x, y \in Int : x \in Nat /\ x <= y => y \in Nat
            OBVIOUS
        <3>2. QED
            BY <2>2, <2>3, <2>4, <3>1
    <2>6. QED
        BY <1>2, <2>1, <2>2, <2>5
<1>8. QED
    BY <1>1, <1>2, <1>4, <1>5, <1>6, <1>7 DEF d, a, Traded

FeeTotal == SumFunction([fee \in fees |-> fee.amount])

\* Fees add up to integers.
LEMMA FeesType ==
    ASSUME RowsInv, NEW m
    PROVE  /\ IntegersOn([fee \in fees |-> fee.amount], fees)
           /\ IsFiniteSet({x \in fees : x.market = m})
           /\ FeeTotal \in Int /\ FeesOf(m) \in Int
<1>1. IsFiniteSet(fees) /\ \A fee \in fees : fee.amount \in Int
    BY DEF RowsInv, FeeRows
<1>2. IsFiniteSet({x \in fees : x.market = m})
    BY <1>1, FS_Subset
<1> DEFINE f == [fee \in fees |-> fee.amount]
           g == [fee \in {x \in fees : x.market = m} |-> fee.amount]
           S == {x \in fees : x.market = m}
<1>3. /\ IntegersOn(f, fees) /\ IntegersOn(g, S)
      /\ FeeTotal = SumFunctionOnSet(f, fees) /\ FeesOf(m) = SumFunctionOnSet(g, S)
    BY <1>1 DEF IntegersOn, FeeTotal, FeesOf, SumFunction
<1>4. SumFunctionOnSet(f, fees) \in Int /\ SumFunctionOnSet(g, S) \in Int
    <2>1. IsFiniteSet(S)
        BY <1>2
    <2> HIDE DEF f, g, S
    <2>2. QED
        BY <1>1, <1>3, <2>1, SumsType
<1>5. QED
    BY <1>2, <1>3, <1>4

\* The fee of a trade is a row of its own and adds to what was collected.
LEMMA FeeEffect ==
    ASSUME RowsInv, NEW m \in Markets, NEW f \in Nat, FeeCollected(m, f), sent' = sent + 1
    PROVE  /\ fees' \subseteq FeeRows /\ IsFiniteSet(fees') /\ \A fee \in fees' : fee.tx < sent'
           /\ FeeTotal' = FeeTotal + f
           /\ FeesOf(m)' = FeesOf(m) + f
           /\ \A k \in Markets \ {m} : FeesOf(k)' = FeesOf(k)
<1> DEFINE new == [market |-> m, amount |-> f, tx |-> sent]
<1>1. sent \in Nat /\ IsFiniteSet(fees) /\ fees \subseteq FeeRows
      /\ \A fee \in fees : fee.tx \in Nat /\ fee.tx < sent
    BY DEF RowsInv, FeeRows
<1>2. CASE f = 0
    <2>1. fees' = fees
        BY <1>2 DEF FeeCollected
    <2>2. FeeTotal' = FeeTotal /\ FeesOf(m)' = FeesOf(m) /\ \A k \in Markets : FeesOf(k)' = FeesOf(k)
        BY <2>1 DEF FeeTotal, FeesOf
    <2>3. \A fee \in fees : fee.tx < sent'
        BY <1>1
    <2>4. FeeTotal \in Int /\ FeesOf(m) \in Int
        BY FeesType
    <2>5. FeeTotal + f = FeeTotal /\ FeesOf(m) + f = FeesOf(m)
        BY <1>2, <2>4
    <2>6. QED
        BY <1>1, <2>1, <2>2, <2>3, <2>5
<1>3. CASE f # 0
    <2>1. fees' = fees \union {new}
        <3>1. {f} \ {0} = {f}
            BY <1>3
        <3>2. QED
            BY <3>1 DEF FeeCollected
    <2>2. new \in FeeRows /\ new.tx = sent /\ new.market = m /\ new.amount = f
        BY <1>1 DEF FeeRows
    <2> HIDE DEF new
    <2>3. new \notin fees
        BY <1>1, <2>2
    <2>4. fees' \subseteq FeeRows /\ IsFiniteSet(fees')
        BY <1>1, <2>1, <2>2, FS_AddElement
    <2>5. \A fee \in fees' : fee.tx < sent'
        BY <1>1, <2>1, <2>2
    <2>6. ASSUME NEW S, IsFiniteSet(S), S \subseteq fees
          PROVE  SumFunction([fee \in S \union {new} |-> fee.amount]) =
                     SumFunction([fee \in S |-> fee.amount]) + f
        <3> DEFINE a == [fee \in S |-> fee.amount]
                   b == [fee \in S \union {new} |-> fee.amount]
        <3>1. DOMAIN a = S /\ DOMAIN b = S \union {new} /\ new \notin S
              /\ b[new] = f /\ f \in Int /\ \A x \in S : a[x] = b[x]
            BY <2>2, <2>3, <2>6
        <3>2. IntegersOn(a, S) /\ IntegersOn(b, S)
            BY <1>1, <2>6 DEF IntegersOn, FeeRows
        <3>3. SumFunction(b) = SumFunction(a) + f
            <4> HIDE DEF a, b
            <4>1. SumFunctionOnSet(b, S \union {new}) = SumFunctionOnSet(b, S) + b[new]
                BY <2>6, <3>1, <3>2, SumsAdd
            <4>2. SumFunctionOnSet(a, S) = SumFunctionOnSet(b, S)
                BY <2>6, <3>1, <3>2, SumsAgree
            <4>3. QED
                BY <3>1, <4>1, <4>2 DEF SumFunction
        <3>4. QED
            BY <3>3
    <2>7. FeeTotal' = FeeTotal + f
        <3>1. FeeTotal' = SumFunction([fee \in fees \union {new} |-> fee.amount])
            BY <2>1 DEF FeeTotal
        <3>2. QED
            BY <1>1, <2>6, <3>1 DEF FeeTotal
    <2>8. FeesOf(m)' = FeesOf(m) + f
        <3> DEFINE S == {x \in fees : x.market = m}
        <3>1. {x \in fees' : x.market = m} = S \union {new}
            BY <2>1, <2>2
        <3>2. FeesOf(m) = SumFunction([fee \in S |-> fee.amount])
            BY DEF FeesOf
        <3>3. FeesOf(m)' = SumFunction([fee \in S \union {new} |-> fee.amount])
            BY <3>1 DEF FeesOf
        <3>4. IsFiniteSet(S) /\ S \subseteq fees
            BY FeesType
        <3> HIDE DEF S
        <3>5. QED
            BY <2>6, <3>2, <3>3, <3>4
    <2>9. ASSUME NEW k \in Markets \ {m} PROVE FeesOf(k)' = FeesOf(k)
        <3>1. {x \in fees' : x.market = k} = {x \in fees : x.market = k}
            BY <2>1, <2>2
        <3>2. QED
            BY <3>1 DEF FeesOf
    <2>10. QED
        BY <2>4, <2>5, <2>7, <2>8, <2>9
<1>4. QED
    BY <1>2, <1>3

\* A trade leaves the tables as they are declared.
LEMMA TradeRows ==
    ASSUME RowsInv, EventsInv, PositionInv, NEW u \in Traders, NEW m \in Markets, NEW s \in Sides,
           NEW kind \in {"buy", "sell"}, NEW q \in Quantity, NEW f \in Nat, Trade(u, m, s, kind, q, f)
    PROVE  RowsInv'
<1> DEFINE r == Row(kind, m, s, q.shares, q.amount)
<1>1. Traded(u, m, s, kind, q, f)
    BY TradeEffect
<1>2. r \in TradeRecords /\ rows' = [rows EXCEPT ![u] = Append(@, r)]
    BY <1>1 DEF Traded
<1>3. rows' \in [Traders -> Seq(Rows)]
    <2> HIDE DEF r
    <2>1. r \in Rows
        BY <1>2 DEF Rows
    <2>2. QED
        BY <1>2, <2>1, AppendRow
<1>4. /\ fees' \subseteq FeeRows /\ IsFiniteSet(fees')
      /\ \A fee \in fees' : fee.tx < sent'
    BY FeeEffect DEF Trade
<1>5. /\ held' \in [Traders \X Markets -> [Sides -> Nat]]
      /\ balance' \in [Traders \X Markets -> [Sides -> Nat]]
      /\ escrow' \in [Traders -> Nat] /\ cash' \in [Markets -> Nat]
      /\ outcome' = outcome /\ market' = market /\ logs' = logs /\ sent' = sent + 1
    BY <1>1 DEF Traded
<1>6. TypeOK'
    BY <1>5 DEF TypeOK, RowsInv
<1>7. sent' \in Nat /\ logs' \subseteq Events \union Resolutions /\ IsFiniteSet(logs')
    BY <1>5 DEF RowsInv
<1>8. QED
    BY <1>3, <1>4, <1>6, <1>7 DEF RowsInv

\* An emitted event is an event.
LEMMA EmitType ==
    ASSUME RowsInv, NEW kind \in {"deposit", "withdraw", "redemption"}, NEW u \in Traders,
           NEW m \in Markets \union {Open}, NEW a \in Nat
    PROVE  /\ Log(kind, u, m, a) \in Events
           /\ Log(kind, u, m, a).kind = kind /\ Log(kind, u, m, a).user = u
           /\ Log(kind, u, m, a).market = m /\ Log(kind, u, m, a).amount = a
           /\ Log(kind, u, m, a).tx = sent
BY DEF Log, Events, RowsInv

\* There are finitely many events still.
LEMMA LogsGrow ==
    ASSUME RowsInv, NEW e \in Events \union Resolutions, logs' = logs \union {e}
    PROVE  logs' \subseteq Events \union Resolutions /\ IsFiniteSet(logs')
BY FS_AddElement DEF RowsInv

\* So does a deposit or a withdrawal.
LEMMA TransferRows ==
    ASSUME RowsInv, NEW u \in Traders, DepositUsdc(u) \/ WithdrawUsdc(u)
    PROVE  RowsInv'
<1>1. /\ UNCHANGED <<held, cash, outcome, rows, fees, balance, market>>
      /\ sent' = sent + 1
    BY DEF DepositUsdc, WithdrawUsdc
<1>2. escrow \in [Traders -> Nat] /\ sent \in Nat
    BY DEF RowsInv, TypeOK
<1>3. escrow' \in [Traders -> Nat]
    <2>1. CASE DepositUsdc(u)
        BY <1>2, <2>1 DEF DepositUsdc
    <2>2. CASE WithdrawUsdc(u)
        BY <1>2, <2>2 DEF WithdrawUsdc
    <2>3. QED
        BY <2>1, <2>2
<1>4. PICK e \in Events : logs' = logs \union {e}
    <2>1. CASE DepositUsdc(u)
        BY <2>1, EmitType DEF DepositUsdc, Emit
    <2>2. CASE WithdrawUsdc(u)
        BY <1>2, <2>2, EmitType DEF WithdrawUsdc, Emit
    <2>3. QED
        BY <2>1, <2>2
<1>5. logs' \subseteq Events \union Resolutions /\ IsFiniteSet(logs')
    BY <1>4, LogsGrow
<1>6. TypeOK'
    BY <1>1, <1>3 DEF RowsInv, TypeOK
<1>7. \A fee \in fees : fee.tx < sent + 1
    BY <1>2 DEF RowsInv, FeeRows
<1>8. QED
    BY <1>1, <1>2, <1>5, <1>6, <1>7 DEF RowsInv

\* So does a resolution.
LEMMA ResolveRows ==
    ASSUME RowsInv, NEW m \in Markets, NEW s \in Sides, Resolve(m, s)
    PROVE  RowsInv'
<1>1. /\ UNCHANGED <<escrow, held, cash, rows, fees, balance, market, sent>>
      /\ outcome' = [outcome EXCEPT ![m] = s]
      /\ logs' = logs \union {Log("resolved", "house", m, 0)}
    BY DEF Resolve, Emit
<1>2. Log("resolved", "house", m, 0) \in Resolutions
    BY DEF Log, Resolutions, RowsInv
<1>3. logs' \subseteq Events \union Resolutions /\ IsFiniteSet(logs')
    BY <1>1, <1>2, LogsGrow
<1>4. outcome' \in [Markets -> Sides \union {Open}]
    BY <1>1 DEF RowsInv, TypeOK
<1>5. TypeOK'
    BY <1>1, <1>4 DEF RowsInv, TypeOK
<1>6. QED
    BY <1>1, <1>3, <1>5 DEF RowsInv

\* What a redemption has done.
RedeemDone(u, m) ==
    LET o == outcome[m]
        won == held[<<u, m>>][o]
        e == Log("redemption", u, m, won)
    IN  /\ o \in Sides /\ o # Open /\ won \in Nat /\ won > 0
        /\ ~Redeemed(u, m) /\ won = NetOf(rows[u], m, o)
        /\ e \in Events /\ e.user = u /\ e.kind = "redemption" /\ e.market = m
        /\ e.amount = won /\ e \notin EventsOf(u)
        /\ held' \in [Traders \X Markets -> [Sides -> Nat]]
        /\ held'[<<u, m>>][o] = 0
        /\ \A t \in Sides \ {o} : held'[<<u, m>>][t] = held[<<u, m>>][t]
        /\ \A k \in (Traders \X Markets) \ {<<u, m>>} : held'[k] = held[k]
        /\ cash' = [cash EXCEPT ![m] = @ - won] /\ cash' \in [Markets -> Nat]
        /\ escrow' = [escrow EXCEPT ![u] = @ + won] /\ escrow' \in [Traders -> Nat]
        /\ logs' = logs \union {e}
        /\ outcome' = outcome /\ rows' = rows /\ fees' = fees /\ balance' = balance
        /\ market' = market /\ sent' = sent

\* A redemption in its parts: it is the first of the market, of what the
\* trades left, and the pool can pay it.
LEMMA RedeemEffect ==
    ASSUME RowsInv, EventsInv, PositionInv, PoolInv, NEW u \in Traders, NEW m \in Markets,
           Redeem(u, m)
    PROVE  RedeemDone(u, m)
<1> DEFINE o == outcome[m]
           won == held[<<u, m>>][o]
           e == Log("redemption", u, m, won)
<1>1. /\ o # Open /\ won > 0
      /\ held' = [held EXCEPT ![<<u, m>>][o] = 0]
      /\ cash' = [cash EXCEPT ![m] = @ - won]
      /\ escrow' = [escrow EXCEPT ![u] = @ + won]
      /\ logs' = logs \union {e}
      /\ outcome' = outcome /\ rows' = rows /\ fees' = fees /\ balance' = balance
      /\ market' = market /\ sent' = sent
    BY DEF Redeem, Emit
<1>2. /\ o \in Sides /\ held \in [Traders \X Markets -> [Sides -> Nat]]
      /\ escrow \in [Traders -> Nat] /\ cash \in [Markets -> Nat]
    BY <1>1 DEF RowsInv, TypeOK
<1>3. won \in Nat
    BY <1>2
<1>4. ~Redeemed(u, m) /\ won = NetOf(rows[u], m, o)
    BY <1>1, <1>2 DEF PositionInv
<1>5. /\ e \in Events /\ e.user = u /\ e.kind = "redemption" /\ e.market = m /\ e.amount = won
    <2> HIDE DEF won
    <2>1. QED
        BY <1>3, EmitType
<1> HIDE DEF e
<1>6. e \notin EventsOf(u)
    BY <1>4, <1>5 DEF Redeemed
<1>7. won <= cash[m]
    <2>1. Outstanding(held, m, o) <= cash[m]
        BY <1>1 DEF PoolInv
    <2>2. Outstanding(held, m, o) \in Nat /\ won <= Outstanding(held, m, o)
        BY <1>2, OutstandingType
    <2>3. cash[m] \in Nat
        BY <1>2
    <2> HIDE DEF o, won
    <2>4. QED
        BY <1>3, <2>1, <2>2, <2>3
<1> HIDE DEF won
<1>8. cash' \in [Markets -> Nat] /\ escrow' \in [Traders -> Nat]
    <2>1. cash[m] - won \in Nat /\ escrow[u] + won \in Nat
        BY <1>2, <1>3, <1>7
    <2>2. QED
        BY <1>1, <1>2, <2>1
<1>9. /\ held' \in [Traders \X Markets -> [Sides -> Nat]]
      /\ held'[<<u, m>>][o] = 0
      /\ \A t \in Sides \ {o} : held'[<<u, m>>][t] = held[<<u, m>>][t]
      /\ \A k \in (Traders \X Markets) \ {<<u, m>>} : held'[k] = held[k]
    <2> HIDE DEF o
    <2>1. <<u, m>> \in Traders \X Markets /\ held[<<u, m>>] \in [Sides -> Nat]
        BY <1>2
    <2>2. [held[<<u, m>>] EXCEPT ![o] = 0] \in [Sides -> Nat]
        BY <2>1
    <2>3. held' = [held EXCEPT ![<<u, m>>] = [held[<<u, m>>] EXCEPT ![o] = 0]]
        BY <1>1
    <2>4. QED
        BY <1>2, <2>1, <2>2, <2>3
<1>10. QED
    BY <1>1, <1>2, <1>3, <1>4, <1>5, <1>6, <1>8, <1>9 DEF RedeemDone, e, won

\* A redemption leaves the tables as they are declared.
LEMMA RedeemRows ==
    ASSUME RowsInv, NEW u \in Traders, NEW m \in Markets, RedeemDone(u, m)
    PROVE  RowsInv'
<1>1. PICK e \in Events : logs' = logs \union {e}
    BY DEF RedeemDone
<1>2. logs' \subseteq Events \union Resolutions /\ IsFiniteSet(logs')
    BY <1>1, LogsGrow
<1>3. /\ held' \in [Traders \X Markets -> [Sides -> Nat]]
      /\ cash' \in [Markets -> Nat] /\ escrow' \in [Traders -> Nat]
      /\ outcome' = outcome /\ rows' = rows /\ fees' = fees /\ balance' = balance
      /\ market' = market /\ sent' = sent
    BY DEF RedeemDone
<1>4. TypeOK'
    BY <1>3 DEF RowsInv, TypeOK
<1>5. QED
    BY <1>2, <1>3, <1>4 DEF RowsInv

\* What handling an event does to the rows.
InsertDone(log) ==
    /\ rows' \in [Traders -> Seq(Rows)]
    /\ \/ rows' = rows
       \/ rows' = [rows EXCEPT ![log.user] = Append(@, log)]
    /\ \A v \in Traders :
           /\ EventsOf(v)' = EventsOf(v)
           /\ \A i \in EventIds(v)' : rows'[v][i].user = v
           /\ \A i, j \in EventIds(v)' : rows'[v][i] = rows'[v][j] => i = j

\* An event that is inserted twice is one row.
LEMMA InsertEffect ==
    ASSUME RowsInv, EventsInv, NEW log \in logs, log.kind # "resolved",
           Insert(log), logs' = logs \/ logs' = logs \ {log}
    PROVE  log \in Events /\ log.user \in Traders /\ InsertDone(log)
<1> DEFINE u == log.user
<1>1. log \in Events /\ u \in Traders /\ ~IsTrade(log) /\ log \in Rows
    BY DEF RowsInv, Resolutions, Events, IsTrade, Rows
<1>2. rows \in [Traders -> Seq(Rows)] /\ rows[u] \in Seq(Rows)
      /\ \A v \in Traders : Len(rows[v]) \in Nat /\ DOMAIN rows[v] = 1..Len(rows[v])
    BY <1>1 DEF RowsInv
<1>3. \A v \in Traders : /\ \A i \in EventIds(v) : rows[v][i].user = v
                         /\ \A i, j \in EventIds(v) : rows[v][i] = rows[v][j] => i = j
    BY DEF EventsInv
<1>4. CASE \E i \in DOMAIN rows[u] : rows[u][i] = log
    <2>1. rows' = rows
        BY <1>1, <1>2, <1>4 DEF Insert
    <2>2. PICK i \in DOMAIN rows[u] : rows[u][i] = log
        BY <1>4
    <2>3. i \in EventIds(u)
        BY <1>1, <2>2 DEF EventIds
    <2>4. ASSUME NEW v \in Traders
          PROVE  EventsOf(v)' = EventsOf(v) /\ EventIds(v)' = EventIds(v)
        <3>1. EventIds(v)' = EventIds(v)
            BY <2>1 DEF EventIds
        <3>2. EventsOf(v)' =
                  {e \in logs' : e.kind # "resolved" /\ e.user = v}
                      \union {rows[v][j] : j \in EventIds(v)}
            BY <2>1, <3>1 DEF EventsOf
        <3>3. \A x : x \in logs' => x \in logs
            OBVIOUS
        <3>4. \A x : x \in logs /\ x # log => x \in logs'
            OBVIOUS
        <3>5. log.user = v => log \in {rows[v][j] : j \in EventIds(v)}
            BY <2>2, <2>3
        <3>6. QED
            BY <3>1, <3>2, <3>3, <3>4, <3>5 DEF EventsOf
    <2>5. InsertDone(log)
        BY <1>2, <1>3, <2>1, <2>4 DEF InsertDone
    <2>6. QED
        BY <1>1, <2>5
<1>5. CASE ~\E i \in DOMAIN rows[u] : rows[u][i] = log
    <2>1. rows' = [rows EXCEPT ![u] = Append(@, log)]
        BY <1>1, <1>2, <1>5 DEF Insert
    <2> DEFINE n == Len(rows[u]) + 1
    <2>2. /\ rows' \in [Traders -> Seq(Rows)]
          /\ \A v \in Traders \ {u} : rows'[v] = rows[v]
          /\ DOMAIN rows'[u] = 1..n /\ rows'[u][n] = log
          /\ \A k \in 1..Len(rows[u]) : rows'[u][k] = rows[u][k]
        <3> HIDE DEF u
        <3>1. QED
            BY <1>1, <2>1, AppendRow
    <2>3. EventIds(u)' = EventIds(u) \union {n} /\ n \notin EventIds(u)
        <3>1. ASSUME NEW i PROVE i \in EventIds(u)' <=> i \in EventIds(u) \union {n}
            <4>1. i \in 1..n <=> i \in 1..Len(rows[u]) \/ i = n
                BY <1>1, <1>2
            <4>2. QED
                BY <1>1, <1>2, <2>2, <4>1 DEF EventIds
        <3>2. n \notin 1..Len(rows[u])
            BY <1>1, <1>2
        <3>3. QED
            BY <1>1, <1>2, <3>1, <3>2 DEF EventIds
    <2>4. \A v \in Traders \ {u} : EventIds(v)' = EventIds(v)
        BY <2>2 DEF EventIds
    <2>5. \A i \in EventIds(u) : rows'[u][i] = rows[u][i] /\ rows[u][i] # log
        BY <1>1, <1>2, <1>5, <2>2 DEF EventIds
    <2> HIDE DEF n
    <2>6. ASSUME NEW v \in Traders \ {u} PROVE EventsOf(v)' = EventsOf(v)
        <3>1. {rows'[v][j] : j \in EventIds(v)} = {rows[v][j] : j \in EventIds(v)}
            BY <2>2
        <3>2. {e \in logs' : e.kind # "resolved" /\ e.user = v} =
              {e \in logs : e.kind # "resolved" /\ e.user = v}
            OBVIOUS
        <3>3. QED
            BY <2>4, <3>1, <3>2 DEF EventsOf
    <2>7. EventsOf(u)' = EventsOf(u)
        <3>1. {rows'[u][j] : j \in EventIds(u) \union {n}} =
              {rows[u][j] : j \in EventIds(u)} \union {log}
            BY <2>2, <2>5
        <3>2. EventsOf(u)' = {e \in logs' : e.kind # "resolved" /\ e.user = u}
                                 \union ({rows[u][j] : j \in EventIds(u)} \union {log})
            BY <2>3, <3>1 DEF EventsOf
        <3>3. log \in {e \in logs : e.kind # "resolved" /\ e.user = u}
            OBVIOUS
        <3>4. \A x : (x \in logs' => x \in logs) /\ (x \in logs /\ x # log => x \in logs')
            OBVIOUS
        <3>5. QED
            BY <3>2, <3>3, <3>4 DEF EventsOf
    <2>8. ASSUME NEW v \in Traders
          PROVE  /\ \A i \in EventIds(v)' : rows'[v][i].user = v
                 /\ \A i, j \in EventIds(v)' : rows'[v][i] = rows'[v][j] => i = j
        <3>1. CASE v = u
            BY <1>3, <2>2, <2>3, <2>5, <3>1
        <3>2. CASE v # u
            BY <1>3, <2>2, <2>4, <3>2
        <3>3. QED
            BY <3>1, <3>2
    <2>9. InsertDone(log)
        BY <2>1, <2>2, <2>6, <2>7, <2>8 DEF InsertDone
    <2>10. QED
        BY <1>1, <2>9
<1>6. QED
    BY <1>4, <1>5

\* The row of an event is no trade: what the trades left stays.
LEMMA InsertKeeps ==
    ASSUME RowsInv, NEW log \in Events, log.user \in Traders, InsertDone(log), NEW v \in Traders
    PROVE  /\ \A m, g : FoldTrades(rows'[v], m, g) = FoldTrades(rows[v], m, g)
           /\ \A m, s : NetOf(rows'[v], m, s) = NetOf(rows[v], m, s)
           /\ \A kinds : log.kind \notin kinds => Total(rows'[v], kinds) = Total(rows[v], kinds)
<1>1. log \in Rows /\ ~IsTrade(log)
    BY DEF Rows, Events, IsTrade
<1>2. rows[v] \in Seq(Rows)
    BY DEF RowsInv
<1>3. CASE rows' = rows
    BY <1>3
<1>4. CASE rows' = [rows EXCEPT ![log.user] = Append(@, log)]
    <2>1. CASE v # log.user
        <3>1. rows'[v] = rows[v]
            BY <1>1, <1>4, <2>1, AppendRow
        <3>2. QED
            BY <3>1
    <2>2. CASE v = log.user
        <3>1. rows'[v] = Append(rows[v], log)
            BY <1>1, <1>4, <2>2, AppendRow
        <3>2. \A m, g : FoldTrades(Append(rows[v], log), m, g) = FoldTrades(rows[v], m, g)
            BY <1>1, <1>2, TradesAppend DEF AddTradeOf, IsTradeOf
        <3>3. ASSUME NEW m, NEW s
              PROVE  NetOf(Append(rows[v], log), m, s) = NetOf(rows[v], m, s)
            <4>1. SharesIn(log, m, s) = 0
                BY <1>1 DEF SharesIn, IsTradeOf
            <4>2. QED
                BY <1>1, <1>2, <4>1, NetAppend
        <3>4. ASSUME NEW kinds, log.kind \notin kinds
              PROVE  Total(Append(rows[v], log), kinds) = Total(rows[v], kinds)
            <4>1. AmountIn(log, kinds) = 0
                BY <3>4 DEF AmountIn
            <4>2. QED
                BY <1>1, <1>2, <4>1, TotalAppend
        <3>5. QED
            BY <3>1, <3>2, <3>3, <3>4
    <2>3. QED
        BY <2>1, <2>2
<1>5. QED
    BY <1>3, <1>4 DEF InsertDone

\* What the handlers do.
TransferHandled(log) ==
    /\ log \in Events /\ log.kind \in {"deposit", "withdraw"} /\ log.user \in Traders
    /\ InsertDone(log)
    /\ balance' = balance /\ market' = market

RedeemedHandled(log) ==
    /\ log \in Events /\ log.kind = "redemption" /\ log.user \in Traders
    /\ log.market \in Markets
    /\ InsertDone(log)
    /\ balance' \in [Traders \X Markets -> [Sides -> Nat]]
    /\ \A k \in (Traders \X Markets) \ {<<log.user, log.market>>} : balance'[k] = balance[k]
    /\ market' = market

ResolvedHandled(log) ==
    /\ log \in Resolutions
    /\ market' = [market EXCEPT ![log.market].result = outcome[log.market]]
    /\ rows' = rows /\ balance' = balance

Handled(log) ==
    /\ log \in logs /\ (logs' = logs \/ logs' = logs \ {log})
    /\ sent' \in Nat /\ sent <= sent'
    /\ escrow' = escrow /\ held' = held /\ cash' = cash /\ outcome' = outcome /\ fees' = fees
    /\ TransferHandled(log) \/ RedeemedHandled(log) \/ ResolvedHandled(log)

\* What a handler does, in its parts.
LEMMA HandleEffect ==
    ASSUME RowsInv, EventsInv, NEW log \in logs, Handle(log)
    PROVE  Handled(log)
<1>1. sent \in Nat
    BY DEF RowsInv
<1>2. /\ logs' = logs \/ logs' = logs \ {log}
      /\ sent' \in Nat /\ sent <= sent'
      /\ escrow' = escrow /\ held' = held /\ cash' = cash /\ outcome' = outcome
    BY <1>1 DEF Handle
<1>3. CASE HandleTransfer(log)
    <2>1. log.kind # "resolved" /\ Insert(log) /\ fees' = fees /\ balance' = balance
          /\ market' = market /\ log.kind \in {"deposit", "withdraw"}
        BY <1>3 DEF HandleTransfer
    <2>2. log \in Events /\ log.user \in Traders /\ InsertDone(log)
        BY <1>2, <2>1, InsertEffect
    <2>3. QED
        BY <1>2, <2>1, <2>2 DEF Handled, TransferHandled
<1>4. CASE HandleResolved(log)
    <2>1. log \in Resolutions
        BY <1>4 DEF HandleResolved, RowsInv, Events
    <2>2. QED
        BY <1>2, <1>4, <2>1 DEF Handled, HandleResolved, ResolvedHandled
<1>5. CASE HandleRedeemed(log) \/ RecordRangeRedemption(log)
    <2> DEFINE k == <<log.user, log.market>>
               new == [s \in Sides |-> IF s \in Zeroed(log.market) THEN 0 ELSE balance[k][s]]
    <2>1. /\ log.kind = "redemption" /\ log.market \in Markets /\ Insert(log) /\ fees' = fees
          /\ market' = market
          /\ balance' = [balance EXCEPT ![k] =
                             [s \in Sides |-> IF s \in Zeroed(log.market) THEN 0 ELSE @[s]]]
        BY <1>5 DEF HandleRedeemed, RecordRangeRedemption, Markets
    <2>2. log \in Events /\ log.user \in Traders /\ InsertDone(log)
        BY <1>2, <2>1, InsertEffect
    <2>3. balance \in [Traders \X Markets -> [Sides -> Nat]] /\ k \in Traders \X Markets
        BY <2>1, <2>2 DEF RowsInv, TypeOK
    <2>4. balance' = [balance EXCEPT ![k] = new]
        BY <2>1, <2>3
    <2>5. new \in [Sides -> Nat]
        BY <2>3
    <2>6. /\ balance' \in [Traders \X Markets -> [Sides -> Nat]]
          /\ \A j \in (Traders \X Markets) \ {k} : balance'[j] = balance[j]
        <3> HIDE DEF new, k
        <3>1. QED
            BY <2>3, <2>4, <2>5
    <2>7. QED
        BY <1>2, <2>1, <2>2, <2>6 DEF Handled, RedeemedHandled
<1>6. QED
    BY <1>3, <1>4, <1>5 DEF Handle

\* Events are moved, never made: they stay the same ones.
LEMMA HandledEvents ==
    ASSUME RowsInv, NEW log, Handled(log), NEW v \in Traders
    PROVE  /\ EventsOf(v)' = EventsOf(v)
           /\ \A kinds : Moved(v, kinds)' = Moved(v, kinds)
           /\ \A m : Redeemed(v, m)' = Redeemed(v, m)
           /\ \A m, g : FoldTrades(rows'[v], m, g) = FoldTrades(rows[v], m, g)
           /\ \A m, s : NetOf(rows'[v], m, s) = NetOf(rows[v], m, s)
           /\ \A kinds \in SUBSET {"buy", "sell"} : Total(rows'[v], kinds) = Total(rows[v], kinds)
<1>1. CASE TransferHandled(log) \/ RedeemedHandled(log)
    <2>1. InsertDone(log) /\ log \in Events /\ log.user \in Traders
        BY <1>1 DEF TransferHandled, RedeemedHandled
    <2>2. EventsOf(v)' = EventsOf(v)
        BY <2>1 DEF InsertDone
    <2>3. /\ \A m, g : FoldTrades(rows'[v], m, g) = FoldTrades(rows[v], m, g)
          /\ \A m, s : NetOf(rows'[v], m, s) = NetOf(rows[v], m, s)
        BY <2>1, InsertKeeps
    <2>4. ASSUME NEW kinds \in SUBSET {"buy", "sell"}
          PROVE  Total(rows'[v], kinds) = Total(rows[v], kinds)
        <3>1. log.kind \notin kinds
            BY <2>1 DEF Events
        <3>2. QED
            BY <2>1, <3>1, InsertKeeps
    <2>5. QED
        BY <2>2, <2>3, <2>4 DEF Moved, Redeemed
<1>2. CASE ResolvedHandled(log)
    <2>1. rows' = rows /\ log.kind = "resolved"
        BY <1>2 DEF ResolvedHandled, Resolutions
    <2>2. EventIds(v)' = EventIds(v)
        BY <2>1 DEF EventIds
    <2>3. \A e : e \in logs' /\ e.kind # "resolved" <=> e \in logs /\ e.kind # "resolved"
        BY <2>1 DEF Handled
    <2>4. EventsOf(v)' = EventsOf(v)
        BY <2>1, <2>2, <2>3 DEF EventsOf
    <2>5. QED
        BY <2>1, <2>4 DEF Moved, Redeemed
<1>3. QED
    BY <1>1, <1>2 DEF Handled

\* A handler leaves the tables as they are declared.
LEMMA HandledRows ==
    ASSUME RowsInv, NEW log, Handled(log)
    PROVE  RowsInv'
<1>1. /\ sent \in Nat /\ sent' \in Nat /\ sent <= sent' /\ fees' = fees /\ escrow' = escrow
      /\ held' = held /\ cash' = cash /\ outcome' = outcome
      /\ logs' \subseteq logs /\ IsFiniteSet(logs)
    BY DEF Handled, RowsInv
<1>2. logs' \subseteq Events \union Resolutions /\ IsFiniteSet(logs')
    BY <1>1, FS_Subset DEF RowsInv
<1>3. \A fee \in fees' : fee.tx < sent'
    BY <1>1 DEF RowsInv, FeeRows
<1>4. rows' \in [Traders -> Seq(Rows)]
    BY DEF Handled, TransferHandled, RedeemedHandled, ResolvedHandled, InsertDone, RowsInv
<1>5. balance' \in [Traders \X Markets -> [Sides -> Nat]]
    BY DEF Handled, TransferHandled, RedeemedHandled, ResolvedHandled, RowsInv, TypeOK
<1> DEFINE MarketTuple == [result : Sides \union {Open}, drained : BOOLEAN, withdrawn : Nat, claims : Nat]
<1>6. market' \in [Markets -> MarketTuple]
    <2>1. market \in [Markets -> MarketTuple] /\ outcome \in [Markets -> Sides \union {Open}]
        BY DEF RowsInv, TypeOK
    <2>2. CASE market' = market
        BY <2>1, <2>2
    <2>3. CASE ResolvedHandled(log)
        <3>1. log.market \in Markets
              /\ market' = [market EXCEPT ![log.market].result = outcome[log.market]]
            BY <2>3 DEF ResolvedHandled, Resolutions
        <3>2. [market[log.market] EXCEPT !.result = outcome[log.market]] \in MarketTuple
            BY <2>1, <3>1
        <3> HIDE DEF MarketTuple
        <3>3. QED
            BY <2>1, <3>1, <3>2
    <2>4. QED
        BY <2>2, <2>3 DEF Handled, TransferHandled, RedeemedHandled
<1>7. TypeOK'
    BY <1>1, <1>5, <1>6 DEF RowsInv, TypeOK
<1>8. QED
    BY <1>1, <1>2, <1>3, <1>4, <1>7 DEF RowsInv

\* What a drain has done.
Drained(m) ==
    \E w \in Nat, claims \in Nat :
        /\ market[m].result # Open /\ ~market[m].drained /\ w > 0
        /\ claims = Outstanding(held, m, outcome[m]) /\ claims <= cash[m] - w
        /\ cash' = [cash EXCEPT ![m] = @ - w] /\ cash' \in [Markets -> Nat]
        /\ market' = [market EXCEPT ![m] = [@ EXCEPT !.drained = TRUE, !.withdrawn = w,
                                                     !.claims = claims]]
        /\ market' \in [Markets -> [result : Sides \union {Open}, drained : BOOLEAN,
                                    withdrawn : Nat, claims : Nat]]
        /\ UNCHANGED <<escrow, held, outcome, logs, rows, fees, balance, sent>>

\* A drain in its parts: it leaves what the winners can claim.
LEMMA DrainEffect ==
    ASSUME RowsInv, ResolutionInv, NEW m \in Markets, NEW buffer \in Nat, Drain(m, buffer)
    PROVE  Drained(m)
<1> DEFINE claims == Outstanding(held, m, outcome[m])
           w == cash[m] - claims - buffer
<1>1. /\ market[m].result # Open /\ ~market[m].drained /\ w > 0
      /\ cash' = [cash EXCEPT ![m] = @ - w]
      /\ market' = [market EXCEPT ![m] = [@ EXCEPT !.drained = TRUE, !.withdrawn = w,
                                                   !.claims = claims]]
      /\ UNCHANGED <<escrow, held, outcome, logs, rows, fees, balance, sent>>
    BY DEF Drain, Resolved
<1>2. outcome[m] \in Sides
    BY <1>1 DEF ResolutionInv, RowsInv, TypeOK
<1>3. /\ cash \in [Markets -> Nat] /\ cash[m] \in Nat
      /\ market \in [Markets -> [result : Sides \union {Open}, drained : BOOLEAN,
                                 withdrawn : Nat, claims : Nat]]
      /\ held \in [Traders \X Markets -> [Sides -> Nat]]
    BY DEF RowsInv, TypeOK
<1>4. claims \in Nat
    BY <1>2, <1>3, OutstandingType
<1> HIDE DEF claims
<1>5. w \in Nat /\ claims <= cash[m] - w /\ cash[m] - w \in Nat
    BY <1>1, <1>3, <1>4
<1> HIDE DEF w
<1>6. cash' \in [Markets -> Nat]
    BY <1>1, <1>3, <1>5
<1>7. market' \in [Markets -> [result : Sides \union {Open}, drained : BOOLEAN,
                               withdrawn : Nat, claims : Nat]]
    BY <1>1, <1>3, <1>4, <1>5
<1>8. claims = Outstanding(held, m, outcome[m])
    BY DEF claims
<1>9. QED
    BY <1>1, <1>4, <1>5, <1>6, <1>7, <1>8 DEF Drained

\* A drain leaves the tables as they are declared.
LEMMA DrainedRows ==
    ASSUME RowsInv, NEW m \in Markets, Drained(m)
    PROVE  RowsInv'
<1>1. /\ UNCHANGED <<escrow, held, outcome, logs, rows, fees, balance, sent>>
      /\ cash' \in [Markets -> Nat]
      /\ market' \in [Markets -> [result : Sides \union {Open}, drained : BOOLEAN,
                                  withdrawn : Nat, claims : Nat]]
    BY DEF Drained
<1>2. TypeOK'
    BY <1>1 DEF RowsInv, TypeOK
<1>3. QED
    BY <1>1, <1>2 DEF RowsInv

---------------------------------------------------------------------------
(* EventsInv is kept *)

\* What a trade leaves owned.
LEMMA TradeNet ==
    ASSUME RowsInv, NEW u \in Traders, NEW m \in Markets, NEW s \in Sides,
           NEW kind \in {"buy", "sell"}, NEW q \in Quantity, NEW f \in Nat,
           Traded(u, m, s, kind, q, f)
    PROVE  /\ NetOf(rows'[u], m, s) = NetOf(rows[u], m, s) + Signed(kind, q.shares)
           /\ \A k, t : k # m \/ t # s => NetOf(rows'[u], k, t) = NetOf(rows[u], k, t)
           /\ \A v \in Traders \ {u} : rows'[v] = rows[v]
           /\ \A k, t : \A v \in Traders : NetOf(rows[v], k, t) \in Int
<1> DEFINE r == Row(kind, m, s, q.shares, q.amount)
<1>1. /\ r \in TradeRecords /\ r \in Rows /\ rows' = [rows EXCEPT ![u] = Append(@, r)]
      /\ r.kind = kind /\ r.market = m /\ r.side = s /\ r.shares = q.shares /\ IsTrade(r)
      /\ q.shares \in Nat
    BY DEF Traded, Rows, Row, IsTrade, Quantity
<1> HIDE DEF r
<1>2. /\ rows'[u] = Append(rows[u], r) /\ \A v \in Traders \ {u} : rows'[v] = rows[v]
      /\ \A v \in Traders : rows[v] \in Seq(Rows)
    BY <1>1, AppendRow DEF RowsInv
<1>3. \A k, t : NetOf(rows'[u], k, t) = NetOf(rows[u], k, t) + SharesIn(r, k, t)
    BY <1>1, <1>2, NetAppend
<1>4. \A k, t : \A v \in Traders : NetOf(rows[v], k, t) \in Int
    BY <1>1, <1>2, NetAppend
<1>5. SharesIn(r, m, s) = Signed(kind, q.shares)
    BY <1>1 DEF SharesIn, IsTradeOf, Signed
<1>6. \A k, t : k # m \/ t # s => SharesIn(r, k, t) = 0
    BY <1>1 DEF SharesIn, IsTradeOf
<1>7. \A k, t : k # m \/ t # s => NetOf(rows'[u], k, t) = NetOf(rows[u], k, t)
    BY <1>3, <1>4, <1>6
<1>8. QED
    BY <1>2, <1>3, <1>4, <1>5, <1>7

\* A trade is no event, and nobody can trade where events name an outcome.
LEMMA TradeEventsInv ==
    ASSUME RowsInv, EventsInv, NEW u \in Traders, NEW m \in Markets, NEW s \in Sides,
           NEW kind \in {"buy", "sell"}, NEW q \in Quantity, NEW f \in Nat,
           Traded(u, m, s, kind, q, f)
    PROVE  EventsInv'
<1> DEFINE r == Row(kind, m, s, q.shares, q.amount)
<1>1. /\ r \in TradeRecords /\ rows' = [rows EXCEPT ![u] = Append(@, r)] /\ logs' = logs
      /\ outcome' = outcome /\ outcome[m] = Open /\ sent' = sent + 1 /\ sent \in Nat
    BY DEF Traded, RowsInv
<1> HIDE DEF r
<1>2. /\ \A v \in Traders : EventIds(v)' = EventIds(v) /\ EventsOf(v)' = EventsOf(v)
      /\ \A v \in Traders : \A i \in EventIds(v) : rows'[v][i] = rows[v][i]
    BY <1>1, TradeEvents
<1>3. \A v \in Traders, k \in Markets :
          outcome[k] # Open =>
              NetOf(rows'[v], k, outcome[k]) = NetOf(rows[v], k, outcome[k])
    <2>1. /\ \A k, t : k # m \/ t # s => NetOf(rows'[u], k, t) = NetOf(rows[u], k, t)
          /\ \A v \in Traders \ {u} : rows'[v] = rows[v]
        BY TradeNet
    <2>2. QED
        BY <1>1, <2>1
<1>4. \A v \in Traders : \A e \in EventsOf(v) : e.tx \in Nat
    BY EventsType DEF Events
<1>5. SUFFICES ASSUME NEW v \in Traders
      PROVE  /\ \A i \in EventIds(v)' : rows'[v][i].user = v
             /\ \A i, j \in EventIds(v)' : rows'[v][i] = rows'[v][j] => i = j
             /\ \A e \in EventsOf(v)' :
                    IF e.kind = "redemption"
                      THEN /\ e.market \in Markets /\ outcome'[e.market] # Open
                           /\ e.amount = NetOf(rows'[v], e.market, outcome'[e.market])
                           /\ e.amount > 0
                      ELSE e.market = Open /\ e.tx < sent'
             /\ \A e, g \in EventsOf(v)' :
                    e.kind = "redemption" /\ g.kind = "redemption" /\ e.market = g.market
                        => e = g
    BY DEF EventsInv
<1>6. /\ \A i \in EventIds(v) : rows[v][i].user = v
      /\ \A i, j \in EventIds(v) : rows[v][i] = rows[v][j] => i = j
      /\ \A e, g \in EventsOf(v) :
             e.kind = "redemption" /\ g.kind = "redemption" /\ e.market = g.market => e = g
    BY DEF EventsInv
<1>7. ASSUME NEW e \in EventsOf(v)
      PROVE  IF e.kind = "redemption"
               THEN /\ e.market \in Markets /\ outcome'[e.market] # Open
                    /\ e.amount = NetOf(rows'[v], e.market, outcome'[e.market])
                    /\ e.amount > 0
               ELSE e.market = Open /\ e.tx < sent'
    <2>1. CASE e.kind = "redemption"
        <3>1. /\ e.market \in Markets /\ outcome[e.market] # Open /\ e.amount > 0
              /\ e.amount = NetOf(rows[v], e.market, outcome[e.market])
            BY <2>1 DEF EventsInv
        <3>2. QED
            BY <1>1, <1>3, <2>1, <3>1
    <2>2. CASE e.kind # "redemption"
        <3>1. e.market = Open /\ e.tx < sent
            BY <2>2 DEF EventsInv
        <3>2. e.tx < sent'
            BY <1>1, <1>4, <3>1
        <3>3. QED
            BY <2>2, <3>1, <3>2
    <2>3. QED
        BY <2>1, <2>2
<1>8. QED
    BY <1>2, <1>6, <1>7

\* A new event fits in with those there are.
LEMMA EmitEventsInv ==
    ASSUME RowsInv, RowsInv', EventsInv, NEW u \in Traders, NEW e \in Events, e.user = u,
           e \notin EventsOf(u), rows' = rows, logs' = logs \union {e}, outcome' = outcome,
           sent <= sent',
           e.kind # "redemption" => e.market = Open /\ e.tx < sent',
           e.kind = "redemption" =>
               /\ ~Redeemed(u, e.market) /\ e.market \in Markets /\ outcome[e.market] # Open
               /\ e.amount = NetOf(rows[u], e.market, outcome[e.market]) /\ e.amount > 0
    PROVE  EventsInv'
<1>1. /\ EventsOf(u)' = EventsOf(u) \union {e}
      /\ \A v \in Traders \ {u} : EventsOf(v)' = EventsOf(v)
      /\ \A v \in Traders : EventIds(v)' = EventIds(v)
    BY EmitEvents
<1>2. \A v \in Traders : \A x \in EventsOf(v) : x.tx \in Nat
    BY EventsType DEF Events
<1>3. sent \in Nat /\ sent' \in Nat
    BY DEF RowsInv
<1>4. ASSUME NEW v \in Traders, NEW x \in EventsOf(v)'
      PROVE  IF x.kind = "redemption"
               THEN /\ x.market \in Markets /\ outcome'[x.market] # Open
                    /\ x.amount = NetOf(rows'[v], x.market, outcome'[x.market])
                    /\ x.amount > 0
               ELSE x.market = Open /\ x.tx < sent'
    <2>1. CASE x \in EventsOf(v)
        <3>1. IF x.kind = "redemption"
                THEN /\ x.market \in Markets /\ outcome[x.market] # Open
                     /\ x.amount = NetOf(rows[v], x.market, outcome[x.market])
                     /\ x.amount > 0
                ELSE x.market = Open /\ x.tx < sent
            BY <2>1 DEF EventsInv
        <3>2. x.tx < sent => x.tx < sent'
            BY <1>2, <1>3, <2>1
        <3>3. QED
            BY <3>1, <3>2
    <2>2. CASE x \notin EventsOf(v)
        <3>1. x = e /\ v = u
            BY <1>1, <2>2
        <3>2. QED
            BY <3>1
    <2>3. QED
        BY <2>1, <2>2
<1>5. ASSUME NEW v \in Traders, NEW x \in EventsOf(v)', NEW y \in EventsOf(v)',
             x.kind = "redemption", y.kind = "redemption", x.market = y.market
      PROVE  x = y
    <2>1. CASE v = u
        <3>1. x = e \/ x \in EventsOf(u)
            BY <1>1, <2>1
        <3>2. y = e \/ y \in EventsOf(u)
            BY <1>1, <2>1
        <3>3. QED
            BY <1>5, <3>1, <3>2 DEF EventsInv, Redeemed
    <2>2. CASE v # u
        BY <1>1, <1>5, <2>2 DEF EventsInv
    <2>3. QED
        BY <2>1, <2>2
<1>6. \A v \in Traders : /\ \A i \in EventIds(v)' : rows'[v][i].user = v
                         /\ \A i, j \in EventIds(v)' : rows'[v][i] = rows'[v][j] => i = j
    BY <1>1 DEF EventsInv
<1>7. QED
    BY <1>4, <1>5, <1>6 DEF EventsInv

\* A resolution is no event of a trader.
LEMMA ResolveEventsInv ==
    ASSUME RowsInv, EventsInv, NEW m \in Markets, NEW s \in Sides, Resolve(m, s)
    PROVE  /\ EventsInv'
           /\ \A v \in Traders : EventsOf(v)' = EventsOf(v)
<1>1. /\ outcome[m] = Open /\ outcome' = [outcome EXCEPT ![m] = s]
      /\ logs' = logs \union {Log("resolved", "house", m, 0)}
      /\ rows' = rows /\ sent' = sent
      /\ outcome \in [Markets -> Sides \union {Open}]
    BY DEF Resolve, Emit, RowsInv, TypeOK
<1>2. Log("resolved", "house", m, 0).kind = "resolved"
    BY DEF Log
<1>3. \A v \in Traders : EventIds(v)' = EventIds(v)
    BY <1>1 DEF EventIds
<1>4. \A v \in Traders : EventsOf(v)' = EventsOf(v)
    BY <1>1, <1>2, <1>3 DEF EventsOf
<1>5. \A k \in Markets : outcome[k] # Open => outcome'[k] = outcome[k]
    BY <1>1
<1>6. ASSUME NEW v \in Traders, NEW x \in EventsOf(v)
      PROVE  IF x.kind = "redemption"
               THEN /\ x.market \in Markets /\ outcome'[x.market] # Open
                    /\ x.amount = NetOf(rows'[v], x.market, outcome'[x.market])
                    /\ x.amount > 0
               ELSE x.market = Open /\ x.tx < sent'
    <2>1. IF x.kind = "redemption"
            THEN /\ x.market \in Markets /\ outcome[x.market] # Open
                 /\ x.amount = NetOf(rows[v], x.market, outcome[x.market])
                 /\ x.amount > 0
            ELSE x.market = Open /\ x.tx < sent
        BY DEF EventsInv
    <2>2. QED
        BY <1>1, <1>5, <2>1
<1>7. \A v \in Traders : /\ \A i \in EventIds(v)' : rows'[v][i].user = v
                         /\ \A i, j \in EventIds(v)' : rows'[v][i] = rows'[v][j] => i = j
                         /\ \A x, y \in EventsOf(v) :
                                x.kind = "redemption" /\ y.kind = "redemption"
                                    /\ x.market = y.market => x = y
    BY <1>1, <1>3 DEF EventsInv
<1>8. EventsInv'
    BY <1>4, <1>6, <1>7 DEF EventsInv
<1>9. QED
    BY <1>4, <1>8

\* Whether an event is handled makes no difference to what happened.
LEMMA HandledEventsInv ==
    ASSUME RowsInv, EventsInv, NEW log, Handled(log)
    PROVE  EventsInv'
<1>1. outcome' = outcome /\ sent <= sent' /\ sent \in Nat /\ sent' \in Nat
    BY DEF Handled, RowsInv
<1>2. \A v \in Traders : EventsOf(v)' = EventsOf(v)
    BY HandledEvents
<1>3. \A v \in Traders : \A x \in EventsOf(v) : x.tx \in Nat
    BY EventsType DEF Events
<1>4. ASSUME NEW v \in Traders, NEW x \in EventsOf(v)
      PROVE  IF x.kind = "redemption"
               THEN /\ x.market \in Markets /\ outcome'[x.market] # Open
                    /\ x.amount = NetOf(rows'[v], x.market, outcome'[x.market])
                    /\ x.amount > 0
               ELSE x.market = Open /\ x.tx < sent'
    <2>1. IF x.kind = "redemption"
            THEN /\ x.market \in Markets /\ outcome[x.market] # Open
                 /\ x.amount = NetOf(rows[v], x.market, outcome[x.market])
                 /\ x.amount > 0
            ELSE x.market = Open /\ x.tx < sent
        BY DEF EventsInv
    <2>2. x.tx < sent => x.tx < sent'
        BY <1>1, <1>3
    <2>3. \A k, t : NetOf(rows'[v], k, t) = NetOf(rows[v], k, t)
        BY HandledEvents
    <2>4. QED
        BY <1>1, <2>1, <2>2, <2>3
<1>5. \A v \in Traders : /\ \A i \in EventIds(v)' : rows'[v][i].user = v
                         /\ \A i, j \in EventIds(v)' : rows'[v][i] = rows'[v][j] => i = j
    <2>1. CASE TransferHandled(log) \/ RedeemedHandled(log)
        BY <2>1 DEF TransferHandled, RedeemedHandled, InsertDone
    <2>2. CASE ResolvedHandled(log)
        BY <2>2 DEF ResolvedHandled, EventsInv, EventIds
    <2>3. QED
        BY <2>1, <2>2 DEF Handled
<1>6. \A v \in Traders : \A x, y \in EventsOf(v) :
          x.kind = "redemption" /\ y.kind = "redemption" /\ x.market = y.market => x = y
    BY DEF EventsInv
<1>7. QED
    BY <1>2, <1>4, <1>5, <1>6 DEF EventsInv

\* What a deposit or a withdrawal has done.
Transferred(u, e) ==
    /\ e \in Events /\ e.user = u /\ e.kind \in {"deposit", "withdraw"}
    /\ e.market = Open /\ e.tx = sent /\ e \notin EventsOf(u)
    /\ escrow' = [escrow EXCEPT ![u] = @ + IF e.kind = "deposit" THEN e.amount ELSE -e.amount]
    /\ logs' = logs \union {e} /\ sent' = sent + 1
    /\ held' = held /\ cash' = cash /\ outcome' = outcome /\ rows' = rows /\ fees' = fees
    /\ balance' = balance /\ market' = market

\* A deposit or a withdrawal in its parts.
LEMMA TransferEffect ==
    ASSUME RowsInv, EventsInv, NEW u \in Traders, DepositUsdc(u) \/ WithdrawUsdc(u)
    PROVE  \E e \in Events : Transferred(u, e)
<1>1. escrow \in [Traders -> Nat] /\ sent \in Nat /\ escrow[u] \in Nat
    BY DEF RowsInv, TypeOK
<1>2. \A e \in EventsOf(u) : e.kind # "redemption" => e.tx < sent
    BY DEF EventsInv
<1>3. CASE DepositUsdc(u)
    <2> DEFINE e == Log("deposit", u, Open, 1)
    <2>1. /\ e \in Events /\ e.user = u /\ e.kind = "deposit" /\ e.market = Open
          /\ e.amount = 1 /\ e.tx = sent
        BY EmitType
    <2>2. /\ escrow' = [escrow EXCEPT ![u] = @ + 1]
          /\ logs' = logs \union {e} /\ sent' = sent + 1
          /\ UNCHANGED <<held, cash, outcome, rows, fees, balance, market>>
        BY <1>3 DEF DepositUsdc, Emit
    <2> HIDE DEF e
    <2>3. e \notin EventsOf(u)
        BY <1>1, <1>2, <2>1
    <2>4. QED
        BY <2>1, <2>2, <2>3 DEF Transferred
<1>4. CASE WithdrawUsdc(u)
    <2> DEFINE e == Log("withdraw", u, Open, escrow[u])
    <2>1. /\ e \in Events /\ e.user = u /\ e.kind = "withdraw" /\ e.market = Open
          /\ e.amount = escrow[u] /\ e.tx = sent
        BY <1>1, EmitType
    <2>2. /\ escrow' = [escrow EXCEPT ![u] = 0]
          /\ logs' = logs \union {e} /\ sent' = sent + 1
          /\ UNCHANGED <<held, cash, outcome, rows, fees, balance, market>>
        BY <1>4 DEF WithdrawUsdc, Emit
    <2> HIDE DEF e
    <2>3. e \notin EventsOf(u)
        BY <1>1, <1>2, <2>1
    <2>4. escrow[u] + (-e.amount) = 0
        BY <1>1, <2>1
    <2>5. escrow' = [escrow EXCEPT ![u] = @ + IF e.kind = "deposit" THEN e.amount ELSE -e.amount]
        BY <2>1, <2>2, <2>4
    <2>6. QED
        BY <2>1, <2>2, <2>3, <2>5 DEF Transferred
<1>5. QED
    BY <1>3, <1>4

\* A deposit or a withdrawal is an event more.
LEMMA TransferEventsInv ==
    ASSUME RowsInv, RowsInv', EventsInv, NEW u \in Traders, NEW e \in Events, Transferred(u, e)
    PROVE  /\ EventsInv'
           /\ \A v \in Traders, m \in Markets : Redeemed(v, m)' = Redeemed(v, m)
<1>1. /\ e.user = u /\ e.kind # "redemption" /\ e.market = Open /\ e.tx = sent
      /\ e \notin EventsOf(u) /\ rows' = rows /\ logs' = logs \union {e} /\ outcome' = outcome
      /\ sent' = sent + 1 /\ sent \in Nat
    BY DEF Transferred, RowsInv
<1>2. sent <= sent' /\ e.tx < sent'
    BY <1>1
<1>3. EventsInv'
    BY <1>1, <1>2, EmitEventsInv
<1>4. /\ EventsOf(u)' = EventsOf(u) \union {e}
      /\ \A v \in Traders \ {u} : EventsOf(v)' = EventsOf(v)
    BY <1>1, EmitEvents
<1>5. \A v \in Traders, m \in Markets : Redeemed(v, m)' = Redeemed(v, m)
    BY <1>1, <1>4 DEF Redeemed
<1>6. QED
    BY <1>3, <1>5

\* A redemption is an event more, the only one of its market and trader.
LEMMA RedeemEventsInv ==
    ASSUME RowsInv, RowsInv', EventsInv, NEW u \in Traders, NEW m \in Markets, RedeemDone(u, m)
    PROVE  /\ EventsInv'
           /\ Redeemed(u, m)'
           /\ \A v \in Traders, k \in Markets :
                  v # u \/ k # m => Redeemed(v, k)' = Redeemed(v, k)
<1> DEFINE e == Log("redemption", u, m, held[<<u, m>>][outcome[m]])
<1>1. /\ e \in Events /\ e.user = u /\ e.kind = "redemption" /\ e.market = m
      /\ e.amount = NetOf(rows[u], m, outcome[m]) /\ e.amount > 0 /\ e \notin EventsOf(u)
      /\ outcome[m] # Open /\ ~Redeemed(u, m)
      /\ logs' = logs \union {e} /\ rows' = rows /\ outcome' = outcome /\ sent' = sent
    BY DEF RedeemDone
<1> HIDE DEF e
<1>2. sent <= sent'
    BY <1>1 DEF RowsInv
<1>3. EventsInv'
    BY <1>1, <1>2, EmitEventsInv
<1>4. /\ EventsOf(u)' = EventsOf(u) \union {e}
      /\ \A v \in Traders \ {u} : EventsOf(v)' = EventsOf(v)
    BY <1>1, EmitEvents
<1>5. QED
    BY <1>1, <1>3, <1>4 DEF Redeemed

---------------------------------------------------------------------------
(* ResolutionInv is kept *)

\* What is known of the resolutions only depends on them.
LEMMA KeepResolutionInv ==
    ASSUME ResolutionInv, outcome' = outcome, market' = market,
           \A log : log.kind = "resolved" => (log \in logs' <=> log \in logs)
    PROVE  ResolutionInv'
<1>1. ASSUME NEW m \in Markets
      PROVE  /\ market'[m].result \in {Open, outcome'[m]}
             /\ outcome'[m] # Open /\ market'[m].result = Open =>
                    \E log \in logs' : log.kind = "resolved" /\ log.market = m
             /\ market'[m].drained => market'[m].result # Open
             /\ ~market'[m].drained => market'[m].withdrawn = 0 /\ market'[m].claims = 0
    BY DEF ResolutionInv
<1>2. \A log \in logs' : log.kind = "resolved" => outcome'[log.market] # Open
    BY DEF ResolutionInv
<1>3. QED
    BY <1>1, <1>2 DEF ResolutionInv

\* A resolution waits to be handled.
LEMMA ResolveResolutionInv ==
    ASSUME RowsInv, ResolutionInv, NEW m \in Markets, NEW s \in Sides, Resolve(m, s)
    PROVE  ResolutionInv'
<1> DEFINE e == Log("resolved", "house", m, 0)
<1>1. /\ outcome[m] = Open /\ outcome' = [outcome EXCEPT ![m] = s] /\ logs' = logs \union {e}
      /\ market' = market /\ outcome \in [Markets -> Sides \union {Open}] /\ s # Open
    BY MarketsAssumption DEF Resolve, Emit, RowsInv, TypeOK
<1>2. e.kind = "resolved" /\ e.market = m
    BY DEF Log
<1> HIDE DEF e
<1>3. ASSUME NEW k \in Markets
      PROVE  /\ market'[k].result \in {Open, outcome'[k]}
             /\ outcome'[k] # Open /\ market'[k].result = Open =>
                    \E log \in logs' : log.kind = "resolved" /\ log.market = k
             /\ market'[k].drained => market'[k].result # Open
             /\ ~market'[k].drained => market'[k].withdrawn = 0 /\ market'[k].claims = 0
    BY <1>1, <1>2 DEF ResolutionInv
<1>4. \A log \in logs : log.kind = "resolved" => log.market \in Markets
    BY DEF RowsInv, Events, Resolutions
<1>5. \A log \in logs' : log.kind = "resolved" => outcome'[log.market] # Open
    BY <1>1, <1>2, <1>4 DEF ResolutionInv
<1>6. QED
    BY <1>3, <1>5 DEF ResolutionInv

\* A handled resolution is in the market's row.
LEMMA HandledResolutionInv ==
    ASSUME RowsInv, ResolutionInv, NEW log, Handled(log)
    PROVE  ResolutionInv'
<1>1. /\ log \in logs /\ (logs' = logs \/ logs' = logs \ {log}) /\ outcome' = outcome
    BY DEF Handled
<1>2. CASE TransferHandled(log) \/ RedeemedHandled(log)
    <2>1. log.kind # "resolved" /\ market' = market
        BY <1>2 DEF TransferHandled, RedeemedHandled
    <2>2. \A x : x.kind = "resolved" => (x \in logs' <=> x \in logs)
        BY <1>1, <2>1
    <2>3. QED
        BY <1>1, <2>1, <2>2, KeepResolutionInv
<1>3. CASE ResolvedHandled(log)
    <2> DEFINE m == log.market
    <2>1. /\ log.kind = "resolved" /\ m \in Markets /\ outcome[m] # Open
          /\ market' = [market EXCEPT ![m].result = outcome[m]]
        BY <1>1, <1>3 DEF ResolvedHandled, Resolutions, ResolutionInv
    <2>2. /\ \A k \in Markets \ {m} : market'[k] = market[k]
          /\ market'[m].result = outcome[m] /\ market'[m].drained = market[m].drained
          /\ market'[m].withdrawn = market[m].withdrawn /\ market'[m].claims = market[m].claims
        BY <2>1 DEF RowsInv, TypeOK
    <2>3. ASSUME NEW k \in Markets
          PROVE  /\ market'[k].result \in {Open, outcome'[k]}
                 /\ outcome'[k] # Open /\ market'[k].result = Open =>
                        \E x \in logs' : x.kind = "resolved" /\ x.market = k
                 /\ market'[k].drained => market'[k].result # Open
                 /\ ~market'[k].drained => market'[k].withdrawn = 0 /\ market'[k].claims = 0
        <3>1. CASE k = m
            BY <1>1, <2>1, <2>2, <3>1 DEF ResolutionInv
        <3>2. CASE k # m
            <4>1. outcome[k] # Open /\ market[k].result = Open =>
                      \E x \in logs : x.kind = "resolved" /\ x.market = k
                BY DEF ResolutionInv
            <4>2. \A x \in logs : x.market = k => x \in logs'
                BY <1>1, <3>2
            <4>3. QED
                BY <1>1, <2>2, <3>2, <4>1, <4>2 DEF ResolutionInv
        <3>3. QED
            BY <3>1, <3>2
    <2>4. \A x \in logs' : x.kind = "resolved" => outcome'[x.market] # Open
        BY <1>1 DEF ResolutionInv
    <2>5. QED
        BY <2>3, <2>4 DEF ResolutionInv
<1>4. QED
    BY <1>2, <1>3 DEF Handled

\* Only a market that is known to be resolved is drained.
LEMMA DrainedResolutionInv ==
    ASSUME RowsInv, ResolutionInv, NEW m \in Markets, Drained(m)
    PROVE  ResolutionInv'
<1>1. PICK w \in Nat, claims \in Nat :
          /\ market[m].result # Open
          /\ market' = [market EXCEPT ![m] = [@ EXCEPT !.drained = TRUE, !.withdrawn = w,
                                                       !.claims = claims]]
          /\ outcome' = outcome /\ logs' = logs
    BY DEF Drained
<1>2. /\ \A k \in Markets \ {m} : market'[k] = market[k]
      /\ market'[m].result = market[m].result /\ market'[m].drained = TRUE
    BY <1>1 DEF RowsInv, TypeOK
<1>3. ASSUME NEW k \in Markets
      PROVE  /\ market'[k].result \in {Open, outcome'[k]}
             /\ outcome'[k] # Open /\ market'[k].result = Open =>
                    \E log \in logs' : log.kind = "resolved" /\ log.market = k
             /\ market'[k].drained => market'[k].result # Open
             /\ ~market'[k].drained => market'[k].withdrawn = 0 /\ market'[k].claims = 0
    BY <1>1, <1>2 DEF ResolutionInv
<1>4. \A log \in logs' : log.kind = "resolved" => outcome'[log.market] # Open
    BY <1>1 DEF ResolutionInv
<1>5. QED
    BY <1>3, <1>4 DEF ResolutionInv

---------------------------------------------------------------------------
(* PositionInv is kept *)

\* A side is in its group, and in no other.
LEMMA GroupsOf ==
    ASSUME NEW m \in Markets, NEW s \in Sides
    PROVE  /\ s \in GroupOf(m, s) /\ GroupOf(m, s) \in Groups(m) /\ GroupOf(m, s) \subseteq Sides
           /\ \A t \in Sides : t \in GroupOf(m, s) => GroupOf(m, t) = GroupOf(m, s)
BY DEF GroupOf, Groups

\* What a trade adds to an exposure.
LEMMA TradeFolds ==
    ASSUME RowsInv, NEW u \in Traders, NEW m \in Markets, NEW s \in Sides,
           NEW kind \in {"buy", "sell"}, NEW q \in Quantity, NEW f \in Nat,
           Traded(u, m, s, kind, q, f)
    PROVE  \A k, g :
               /\ FoldTrades(rows[u], k, g) \in Exposures
               /\ FoldTrades(rows'[u], k, g) =
                      IF k = m /\ s \in g
                        THEN AddTrade(FoldTrades(rows[u], k, g),
                                      Row(kind, m, s, q.shares, q.amount))
                        ELSE FoldTrades(rows[u], k, g)
<1> DEFINE r == Row(kind, m, s, q.shares, q.amount)
<1>1. /\ r \in Rows /\ rows' = [rows EXCEPT ![u] = Append(@, r)]
      /\ r.market = m /\ r.side = s /\ IsTrade(r)
    BY DEF Traded, Rows, Row, IsTrade
<1> HIDE DEF r
<1>2. rows'[u] = Append(rows[u], r) /\ rows[u] \in Seq(Rows)
    BY <1>1, AppendRow DEF RowsInv
<1>3. ASSUME NEW k, NEW g
      PROVE  /\ FoldTrades(rows[u], k, g) \in Exposures
             /\ FoldTrades(rows'[u], k, g) =
                    IF k = m /\ s \in g THEN AddTrade(FoldTrades(rows[u], k, g), r)
                    ELSE FoldTrades(rows[u], k, g)
    <2>1. /\ FoldTrades(rows[u], k, g) \in Exposures
          /\ FoldTrades(rows'[u], k, g) = AddTradeOf(FoldTrades(rows[u], k, g), r, k, g)
        BY <1>1, <1>2, TradesAppend
    <2>2. IsTradeOf(r, k, g) <=> k = m /\ s \in g
        BY <1>1 DEF IsTradeOf
    <2>3. QED
        BY <2>1, <2>2 DEF AddTradeOf
<1>4. QED
    BY <1>3 DEF r

\* A trade changes the tokens, the position row and the exposure by the same
\* number of shares.
LEMMA TradePositionInv ==
    ASSUME RowsInv, EventsInv, PositionInv, NEW u \in Traders, NEW m \in Markets,
           NEW s \in Sides, NEW kind \in {"buy", "sell"}, NEW q \in Quantity, NEW f \in Nat,
           Traded(u, m, s, kind, q, f)
    PROVE  PositionInv'
<1> DEFINE r == Row(kind, m, s, q.shares, q.amount)
           d == Signed(kind, q.shares)
<1>1. /\ r \in TradeRecords /\ r.side = s /\ r.kind = kind /\ r.shares = q.shares
      /\ q.shares \in Nat /\ d = (IF kind = "buy" THEN q.shares ELSE -q.shares)
      /\ rows' = [rows EXCEPT ![u] = Append(@, r)] /\ logs' = logs
      /\ outcome' = outcome /\ outcome[m] = Open
      /\ held \in [Traders \X Markets -> [Sides -> Nat]]
      /\ held' \in [Traders \X Markets -> [Sides -> Nat]]
    BY DEF Traded, Row, Quantity, Signed, RowsInv, TypeOK
<1>2. /\ held'[<<u, m>>][s] = held[<<u, m>>][s] + d
      /\ \A t \in Sides \ {s} : held'[<<u, m>>][t] = held[<<u, m>>][t]
      /\ \A k \in (Traders \X Markets) \ {<<u, m>>} : held'[k] = held[k]
      /\ balance'[<<u, m>>][s] = balance[<<u, m>>][s] + d
      /\ \A t \in Sides \ {s} : balance'[<<u, m>>][t] = balance[<<u, m>>][t]
      /\ \A k \in (Traders \X Markets) \ {<<u, m>>} : balance'[k] = balance[k]
    BY DEF Traded
<1>3. /\ NetOf(rows'[u], m, s) = NetOf(rows[u], m, s) + d
      /\ \A k, t : k # m \/ t # s => NetOf(rows'[u], k, t) = NetOf(rows[u], k, t)
      /\ \A v \in Traders \ {u} : rows'[v] = rows[v]
    BY TradeNet
<1>4. \A k, g : /\ FoldTrades(rows[u], k, g) \in Exposures
                /\ FoldTrades(rows'[u], k, g) =
                       IF k = m /\ s \in g THEN AddTrade(FoldTrades(rows[u], k, g), r)
                       ELSE FoldTrades(rows[u], k, g)
    BY TradeFolds
<1>5. \A v \in Traders, k \in Markets : Redeemed(v, k)' = Redeemed(v, k)
    <2> HIDE DEF r
    <2>1. \A v \in Traders : EventsOf(v)' = EventsOf(v)
        BY <1>1, TradeEvents
    <2>2. QED
        BY <2>1 DEF Redeemed
<1>6. /\ ~Redeemed(u, m)
      /\ \A t \in Sides : /\ held[<<u, m>>][t] = NetOf(rows[u], m, t)
                          /\ balance[<<u, m>>][t] = NetOf(rows[u], m, t)
    BY <1>1, OpenPosition
<1> HIDE DEF r, d
<1>7. SUFFICES ASSUME NEW v \in Traders, NEW k \in Markets, NEW t \in Sides
      PROVE  /\ FoldTrades(rows'[v], k, GroupOf(k, t)).shares[t] = NetOf(rows'[v], k, t)
             /\ \A x \in Sides \ GroupOf(k, t) :
                    FoldTrades(rows'[v], k, GroupOf(k, t)).shares[x] = 0
             /\ held'[<<v, k>>][t] =
                    IF Redeemed(v, k)' /\ t = outcome'[k] THEN 0 ELSE NetOf(rows'[v], k, t)
             /\ ~Redeemed(v, k)' => balance'[<<v, k>>][t] = NetOf(rows'[v], k, t)
    BY DEF PositionInv, Exposure
<1> DEFINE g == GroupOf(k, t)
           e == FoldTrades(rows[v], k, g)
<1>8. /\ e.shares[t] = NetOf(rows[v], k, t) /\ \A x \in Sides \ g : e.shares[x] = 0
      /\ held[<<v, k>>][t] =
             IF Redeemed(v, k) /\ t = outcome[k] THEN 0 ELSE NetOf(rows[v], k, t)
      /\ ~Redeemed(v, k) => balance[<<v, k>>][t] = NetOf(rows[v], k, t)
    BY DEF PositionInv, Exposure
<1>9. CASE v # u
    <2>1. <<v, k>> \in (Traders \X Markets) \ {<<u, m>>} /\ rows'[v] = rows[v]
        BY <1>3, <1>9
    <2>2. held'[<<v, k>>] = held[<<v, k>>] /\ balance'[<<v, k>>] = balance[<<v, k>>]
        BY <1>2, <2>1
    <2>3. QED
        BY <1>1, <1>5, <1>8, <2>1, <2>2
<1>10. CASE v = u /\ k # m
    <2>1. <<v, k>> \in (Traders \X Markets) \ {<<u, m>>}
        BY <1>10
    <2>2. held'[<<v, k>>] = held[<<v, k>>] /\ balance'[<<v, k>>] = balance[<<v, k>>]
        BY <1>2, <2>1
    <2>3. NetOf(rows'[v], k, t) = NetOf(rows[v], k, t) /\ FoldTrades(rows'[v], k, g) = e
        BY <1>3, <1>4, <1>10
    <2>4. QED
        BY <1>1, <1>5, <1>8, <2>2, <2>3
<1>11. CASE v = u /\ k = m
    <2>1. /\ ~Redeemed(v, k)' /\ e \in Exposures
          /\ FoldTrades(rows'[v], k, g) = IF s \in g THEN AddTrade(e, r) ELSE e
        BY <1>4, <1>5, <1>6, <1>11
    <2>2. held'[<<v, k>>][t] = NetOf(rows'[v], k, t) /\ balance'[<<v, k>>][t] = NetOf(rows'[v], k, t)
        BY <1>2, <1>3, <1>6, <1>11
    <2>3. /\ \A x \in Sides \ {s} : AddTrade(e, r).shares[x] = e.shares[x]
          /\ AddTrade(e, r).shares[s] =
                 IF kind = "buy" THEN e.shares[s] + q.shares
                 ELSE IF q.shares < e.shares[s] THEN e.shares[s] - q.shares ELSE 0
        BY <1>1, <2>1, AddTradeType
    <2>4. \A x \in Sides \ g : FoldTrades(rows'[v], k, g).shares[x] = 0
        BY <1>8, <2>1, <2>3
    <2>5. FoldTrades(rows'[v], k, g).shares[t] = NetOf(rows'[v], k, t)
        <3>1. CASE t # s
            BY <1>3, <1>8, <1>11, <2>1, <2>3, <3>1
        <3>2. CASE t = s
            <4>1. s \in g
                BY <3>2, GroupsOf
            <4>2. /\ e.shares[s] \in Nat /\ e.shares[s] = NetOf(rows[u], m, s)
                  /\ held'[<<u, m>>][s] \in Nat
                BY <1>1, <1>8, <1>11, <2>1, <3>2 DEF Exposures
            <4>3. e.shares[s] + d \in Nat
                BY <1>2, <1>6, <4>2
            <4>4. AddTrade(e, r).shares[s] = e.shares[s] + d
                BY <1>1, <2>3, <4>2, <4>3
            <4>5. QED
                BY <1>3, <1>11, <2>1, <3>2, <4>1, <4>2, <4>4
        <3>3. QED
            BY <3>1, <3>2
    <2>6. QED
        BY <2>1, <2>2, <2>4, <2>5
<1>12. QED
    BY <1>9, <1>10, <1>11

\* Positions stay where the trades, the holdings and the redemptions do.
LEMMA KeepPositionInv ==
    ASSUME PositionInv, outcome' = outcome, held' = held, balance' = balance,
           \A v \in Traders, k \in Markets : Redeemed(v, k)' = Redeemed(v, k),
           \A v \in Traders : /\ \A k, g : FoldTrades(rows'[v], k, g) = FoldTrades(rows[v], k, g)
                              /\ \A k, t : NetOf(rows'[v], k, t) = NetOf(rows[v], k, t)
    PROVE  PositionInv'
<1>1. SUFFICES ASSUME NEW v \in Traders, NEW k \in Markets, NEW t \in Sides
      PROVE  /\ FoldTrades(rows'[v], k, GroupOf(k, t)).shares[t] = NetOf(rows'[v], k, t)
             /\ \A x \in Sides \ GroupOf(k, t) :
                    FoldTrades(rows'[v], k, GroupOf(k, t)).shares[x] = 0
             /\ held'[<<v, k>>][t] =
                    IF Redeemed(v, k)' /\ t = outcome'[k] THEN 0 ELSE NetOf(rows'[v], k, t)
             /\ ~Redeemed(v, k)' => balance'[<<v, k>>][t] = NetOf(rows'[v], k, t)
    BY DEF PositionInv, Exposure
<1>2. QED
    BY DEF PositionInv, Exposure

\* Nobody has redeemed anything when a market is resolved.
LEMMA ResolvePositionInv ==
    ASSUME RowsInv, EventsInv, PositionInv, NEW m \in Markets, NEW s \in Sides, Resolve(m, s)
    PROVE  PositionInv'
<1>1. /\ outcome[m] = Open /\ \A k \in Markets \ {m} : outcome'[k] = outcome[k]
      /\ held' = held /\ balance' = balance /\ rows' = rows
    BY DEF Resolve, RowsInv, TypeOK
<1>2. \A v \in Traders, k \in Markets : Redeemed(v, k)' = Redeemed(v, k)
    BY ResolveEventsInv DEF Redeemed
<1>3. \A v \in Traders : ~Redeemed(v, m)
    BY <1>1, OpenPosition
<1>4. SUFFICES ASSUME NEW v \in Traders, NEW k \in Markets, NEW t \in Sides
      PROVE  /\ FoldTrades(rows'[v], k, GroupOf(k, t)).shares[t] = NetOf(rows'[v], k, t)
             /\ \A x \in Sides \ GroupOf(k, t) :
                    FoldTrades(rows'[v], k, GroupOf(k, t)).shares[x] = 0
             /\ held'[<<v, k>>][t] =
                    IF Redeemed(v, k)' /\ t = outcome'[k] THEN 0 ELSE NetOf(rows'[v], k, t)
             /\ ~Redeemed(v, k)' => balance'[<<v, k>>][t] = NetOf(rows'[v], k, t)
    BY DEF PositionInv, Exposure
<1>5. QED
    BY <1>1, <1>2, <1>3 DEF PositionInv, Exposure

\* A redemption leaves nothing of the winning side.
LEMMA RedeemPositionInv ==
    ASSUME RowsInv, RowsInv', EventsInv, PositionInv, NEW u \in Traders, NEW m \in Markets,
           RedeemDone(u, m)
    PROVE  PositionInv'
<1>1. /\ held'[<<u, m>>][outcome[m]] = 0
      /\ \A t \in Sides \ {outcome[m]} : held'[<<u, m>>][t] = held[<<u, m>>][t]
      /\ \A k \in (Traders \X Markets) \ {<<u, m>>} : held'[k] = held[k]
      /\ outcome' = outcome /\ rows' = rows /\ balance' = balance
    BY DEF RedeemDone
<1>2. /\ Redeemed(u, m)'
      /\ \A v \in Traders, k \in Markets : v # u \/ k # m => Redeemed(v, k)' = Redeemed(v, k)
    BY RedeemEventsInv
<1>3. SUFFICES ASSUME NEW v \in Traders, NEW k \in Markets, NEW t \in Sides
      PROVE  /\ FoldTrades(rows'[v], k, GroupOf(k, t)).shares[t] = NetOf(rows'[v], k, t)
             /\ \A x \in Sides \ GroupOf(k, t) :
                    FoldTrades(rows'[v], k, GroupOf(k, t)).shares[x] = 0
             /\ held'[<<v, k>>][t] =
                    IF Redeemed(v, k)' /\ t = outcome'[k] THEN 0 ELSE NetOf(rows'[v], k, t)
             /\ ~Redeemed(v, k)' => balance'[<<v, k>>][t] = NetOf(rows'[v], k, t)
    BY DEF PositionInv, Exposure
<1>4. /\ FoldTrades(rows'[v], k, GroupOf(k, t)).shares[t] = NetOf(rows'[v], k, t)
      /\ \A x \in Sides \ GroupOf(k, t) : FoldTrades(rows'[v], k, GroupOf(k, t)).shares[x] = 0
      /\ held[<<v, k>>][t] =
             IF Redeemed(v, k) /\ t = outcome[k] THEN 0 ELSE NetOf(rows[v], k, t)
      /\ ~Redeemed(v, k) => balance[<<v, k>>][t] = NetOf(rows[v], k, t)
    BY <1>1 DEF PositionInv, Exposure
<1>5. CASE v # u \/ k # m
    <2>1. <<v, k>> \in (Traders \X Markets) \ {<<u, m>>}
        BY <1>5
    <2>2. held'[<<v, k>>] = held[<<v, k>>]
        BY <1>1, <2>1
    <2>3. Redeemed(v, k)' = Redeemed(v, k)
        BY <1>2, <1>5
    <2>4. QED
        BY <1>1, <1>4, <2>2, <2>3
<1>6. CASE v = u /\ k = m
    BY <1>1, <1>2, <1>4, <1>6
<1>7. QED
    BY <1>5, <1>6

\* A handler only touches the position row of a market that was redeemed.
LEMMA HandledPositionInv ==
    ASSUME RowsInv, PositionInv, NEW log, Handled(log)
    PROVE  PositionInv'
<1>1. outcome' = outcome /\ held' = held /\ log \in logs
    BY DEF Handled
<1>2. /\ \A v \in Traders, k \in Markets : Redeemed(v, k)' = Redeemed(v, k)
      /\ \A v \in Traders : /\ \A k, g : FoldTrades(rows'[v], k, g) = FoldTrades(rows[v], k, g)
                            /\ \A k, t : NetOf(rows'[v], k, t) = NetOf(rows[v], k, t)
    BY HandledEvents
<1>3. CASE TransferHandled(log) \/ ResolvedHandled(log)
    <2>1. balance' = balance
        BY <1>3 DEF TransferHandled, ResolvedHandled
    <2>2. QED
        BY <1>1, <1>2, <2>1, KeepPositionInv
<1>4. CASE RedeemedHandled(log)
    <2>1. /\ log.kind = "redemption" /\ log.user \in Traders /\ log.market \in Markets
          /\ \A k \in (Traders \X Markets) \ {<<log.user, log.market>>} : balance'[k] = balance[k]
        BY <1>4 DEF RedeemedHandled
    <2>2. Redeemed(log.user, log.market)
        BY <1>1, <2>1 DEF Redeemed, EventsOf
    <2>3. SUFFICES ASSUME NEW v \in Traders, NEW k \in Markets, NEW t \in Sides
          PROVE  /\ FoldTrades(rows'[v], k, GroupOf(k, t)).shares[t] = NetOf(rows'[v], k, t)
                 /\ \A x \in Sides \ GroupOf(k, t) :
                        FoldTrades(rows'[v], k, GroupOf(k, t)).shares[x] = 0
                 /\ held'[<<v, k>>][t] =
                        IF Redeemed(v, k)' /\ t = outcome'[k] THEN 0 ELSE NetOf(rows'[v], k, t)
                 /\ ~Redeemed(v, k)' => balance'[<<v, k>>][t] = NetOf(rows'[v], k, t)
        BY DEF PositionInv, Exposure
    <2>4. ~Redeemed(v, k) => balance'[<<v, k>>] = balance[<<v, k>>]
        <3>1. CASE v = log.user /\ k = log.market
            BY <2>2, <3>1
        <3>2. CASE v # log.user \/ k # log.market
            <4>1. <<v, k>> \in (Traders \X Markets) \ {<<log.user, log.market>>}
                BY <3>2
            <4>2. QED
                BY <2>1, <4>1
        <3>3. QED
            BY <3>1, <3>2
    <2>5. QED
        BY <1>1, <1>2, <2>4 DEF PositionInv, Exposure
<1>5. QED
    BY <1>3, <1>4 DEF Handled

---------------------------------------------------------------------------
(* PoolInv is kept *)

\* A market has finitely many groups, and a side is in one.
LEMMA GroupsFinite ==
    ASSUME NEW m \in Markets
    PROVE  /\ IsFiniteSet(Groups(m))
           /\ \A g \in Groups(m), s \in Sides : s \in g => g = GroupOf(m, s)
<1> DEFINE f == [s \in Sides |-> GroupOf(m, s)]
<1>1. Groups(m) = {f[s] : s \in Sides}
    BY DEF Groups
<1>2. IsFiniteSet({f[s] : s \in Sides})
    <2> HIDE DEF f
    <2>1. QED
        BY FiniteAssumption, FiniteImage
<1>3. \A g \in Groups(m), s \in Sides : s \in g => g = GroupOf(m, s)
    BY GroupsOf DEF Groups
<1>4. QED
    BY <1>1, <1>2, <1>3

TraderFlow(u, m) == SumFunction([g \in Groups(m) |-> Exposure(u, m, g).cashFlow])

\* What trades paid and brought is an integer.
LEMMA FlowType ==
    ASSUME RowsInv, NEW m \in Markets
    PROVE  /\ \A u \in Traders : TraderFlow(u, m) \in Int
           /\ CashFlowOf(m) = SumFunction([u \in Traders |-> TraderFlow(u, m)])
           /\ CashFlowOf(m) \in Int
<1>1. ASSUME NEW u \in Traders
      PROVE  TraderFlow(u, m) \in Int
    <2> DEFINE f == [g \in Groups(m) |-> Exposure(u, m, g).cashFlow]
    <2>1. rows[u] \in Seq(Rows)
        BY DEF RowsInv
    <2>2. \A g : Exposure(u, m, g) \in Exposures
        BY <2>1, TradesType DEF Exposure
    <2>3. IntegersOn(f, Groups(m)) /\ DOMAIN f = Groups(m)
        BY <2>2 DEF IntegersOn, Exposures
    <2>4. SumFunctionOnSet(f, Groups(m)) \in Int
        <3> HIDE DEF f
        <3>1. QED
            BY <2>3, GroupsFinite, SumsType
    <2>5. QED
        BY <2>3, <2>4 DEF TraderFlow, SumFunction
<1> DEFINE h == [u \in Traders |-> TraderFlow(u, m)]
<1>2. IntegersOn(h, Traders) /\ DOMAIN h = Traders
    BY <1>1 DEF IntegersOn
<1>3. SumFunctionOnSet(h, Traders) \in Int
    <2> HIDE DEF h
    <2>1. QED
        BY <1>2, FiniteAssumption, SumsType
<1>4. CashFlowOf(m) = SumFunction(h)
    BY DEF CashFlowOf, TraderFlow
<1>5. QED
    BY <1>1, <1>2, <1>3, <1>4 DEF SumFunction

\* A trade moves its amount, in its own market.
LEMMA TradeFlow ==
    ASSUME RowsInv, RowsInv', NEW u \in Traders, NEW m \in Markets, NEW s \in Sides,
           NEW kind \in {"buy", "sell"}, NEW q \in Quantity, NEW f \in Nat,
           Traded(u, m, s, kind, q, f)
    PROVE  /\ CashFlowOf(m)' = CashFlowOf(m) - Signed(kind, q.amount)
           /\ \A k \in Markets \ {m} : CashFlowOf(k)' = CashFlowOf(k)
<1> DEFINE r == Row(kind, m, s, q.shares, q.amount)
           a == Signed(kind, q.amount)
           g0 == GroupOf(m, s)
<1>1. /\ r \in TradeRecords /\ a \in Int /\ a = (IF r.kind = "buy" THEN r.amount ELSE -r.amount)
      /\ r.amount \in Nat
    BY DEF Traded, Row, Quantity, Signed
<1> HIDE DEF r, a
<1>2. \A k, g : /\ FoldTrades(rows[u], k, g) \in Exposures
                /\ FoldTrades(rows'[u], k, g) =
                       IF k = m /\ s \in g THEN AddTrade(FoldTrades(rows[u], k, g), r)
                       ELSE FoldTrades(rows[u], k, g)
    BY TradeFolds DEF r
<1>3. \A v \in Traders \ {u} : rows'[v] = rows[v]
    BY TradeNet
<1>4. \A v \in Traders \ {u}, k \in Markets : TraderFlow(v, k)' = TraderFlow(v, k)
    BY <1>3 DEF TraderFlow, Exposure
<1>5. \A k \in Markets \ {m} : TraderFlow(u, k)' = TraderFlow(u, k)
    BY <1>2 DEF TraderFlow, Exposure
<1>6. TraderFlow(u, m)' = TraderFlow(u, m) - a
    <2> DEFINE b == [g \in Groups(m) |-> FoldTrades(rows[u], m, g).cashFlow]
               c == [g \in Groups(m) |-> FoldTrades(rows'[u], m, g).cashFlow]
    <2>1. g0 \in Groups(m) /\ s \in g0 /\ \A g \in Groups(m) : s \in g => g = g0
        BY GroupsOf, GroupsFinite
    <2>2. \A g \in Groups(m) : g # g0 => c[g] = b[g]
        BY <1>2, <2>1
    <2>3. c[g0] = b[g0] - a /\ c[g0] \in Int /\ b[g0] \in Int
        <3>1. FoldTrades(rows[u], m, g0) \in Exposures
            BY <1>2
        <3>2. AddTrade(FoldTrades(rows[u], m, g0), r).cashFlow =
                  FoldTrades(rows[u], m, g0).cashFlow
                      + IF r.kind = "buy" THEN -r.amount ELSE r.amount
            BY <1>1, <3>1, AddTradeType
        <3>3. b[g0] \in Int
            BY <2>1, <3>1 DEF Exposures
        <3>4. c[g0] = b[g0] + IF r.kind = "buy" THEN -r.amount ELSE r.amount
            BY <1>2, <2>1, <3>2
        <3>5. QED
            BY <1>1, <3>3, <3>4
    <2>4. IntegersOn(b, Groups(m)) /\ DOMAIN b = Groups(m) /\ DOMAIN c = Groups(m)
        BY <1>2 DEF IntegersOn, Exposures
    <2>5. TraderFlow(u, m) = SumFunctionOnSet(b, Groups(m))
          /\ TraderFlow(u, m)' = SumFunctionOnSet(c, Groups(m))
        BY <2>4 DEF TraderFlow, Exposure, SumFunction, Groups, GroupOf
    <2>6. SumFunctionOnSet(c, Groups(m)) = SumFunctionOnSet(b, Groups(m)) + c[g0] - b[g0]
        <3> HIDE DEF b, c, g0
        <3>1. QED
            BY <2>1, <2>2, <2>3, <2>4, GroupsFinite, SumsChange
    <2>7. SumFunctionOnSet(b, Groups(m)) \in Int
        <3> HIDE DEF b
        <3>1. QED
            BY <2>4, GroupsFinite, SumsType
    <2>8. QED
        <3> HIDE DEF b, c, g0
        <3>1. QED
            BY <1>1, <2>3, <2>5, <2>6, <2>7
<1>7. \A k \in Markets \ {m} : CashFlowOf(k)' = CashFlowOf(k)
    <2> SUFFICES ASSUME NEW k \in Markets \ {m} PROVE CashFlowOf(k)' = CashFlowOf(k)
        OBVIOUS
    <2>1. \A v \in Traders : TraderFlow(v, k)' = TraderFlow(v, k)
        BY <1>4, <1>5
    <2>2. [v \in Traders |-> TraderFlow(v, k)]' = [v \in Traders |-> TraderFlow(v, k)]
        BY <2>1
    <2>3. CashFlowOf(k)' = SumFunction([v \in Traders |-> TraderFlow(v, k)])'
        BY DEF CashFlowOf, TraderFlow
    <2>4. CashFlowOf(k) = SumFunction([v \in Traders |-> TraderFlow(v, k)])
        BY DEF CashFlowOf, TraderFlow
    <2>5. QED
        BY <2>2, <2>3, <2>4 DEF SumFunction
<1>8. CashFlowOf(m)' = CashFlowOf(m) - a
    <2> DEFINE b == [v \in Traders |-> TraderFlow(v, m)]
               c == [v \in Traders |-> TraderFlow(v, m)']
    <2>1. CashFlowOf(m) = SumFunction(b) /\ \A v \in Traders : TraderFlow(v, m) \in Int
        BY FlowType
    <2>2. CashFlowOf(m)' = SumFunction(c)
        BY DEF CashFlowOf, TraderFlow
    <2>3. /\ IntegersOn(b, Traders) /\ DOMAIN b = Traders /\ DOMAIN c = Traders
          /\ \A v \in Traders : v # u => c[v] = b[v]
          /\ c[u] = b[u] - a /\ b[u] \in Int /\ c[u] \in Int
        BY <1>1, <1>4, <1>6, <2>1 DEF IntegersOn
    <2> HIDE DEF b, c
    <2>4. SumFunctionOnSet(c, Traders) = SumFunctionOnSet(b, Traders) + c[u] - b[u]
        BY <2>3, FiniteAssumption, SumsChange
    <2>5. SumFunctionOnSet(b, Traders) \in Int
        BY <2>3, FiniteAssumption, SumsType
    <2>6. QED
        BY <1>1, <2>1, <2>2, <2>3, <2>4, <2>5 DEF SumFunction
<1>9. QED
    BY <1>7, <1>8 DEF a

\* So is what they leave of a side.
LEMMA NetTotalType ==
    ASSUME RowsInv, NEW m, NEW s
    PROVE  /\ \A u \in Traders : NetOf(rows[u], m, s) \in Int
           /\ NetTotal(m, s) \in Int
<1>1. \A u \in Traders : NetOf(rows[u], m, s) \in Int
    <2>1. ASSUME NEW u \in Traders PROVE NetOf(rows[u], m, s) \in Int
        <3>1. rows[u] \in Seq(Rows)
            BY DEF RowsInv
        <3>2. NoExposure \in Exposures
            BY NoExposureType
        <3>3. \E r : r \in Rows
            <4>1. [kind |-> "deposit", user |-> u, market |-> Open, amount |-> 0, tx |-> 0] \in Rows
                BY DEF Rows, Events
            <4>2. QED
                BY <4>1
        <3>4. QED
            BY <3>1, <3>3, NetAppend
    <2>2. QED
        BY <2>1
<1> DEFINE f == [u \in Traders |-> NetOf(rows[u], m, s)]
<1>2. IntegersOn(f, Traders) /\ DOMAIN f = Traders /\ NetTotal(m, s) = SumFunction(f)
    BY <1>1 DEF IntegersOn, NetTotal
<1>3. SumFunctionOnSet(f, Traders) \in Int
    <2> HIDE DEF f
    <2>1. QED
        BY <1>2, FiniteAssumption, SumsType
<1>4. QED
    BY <1>1, <1>2, <1>3 DEF SumFunction

\* A trade pays the pool what it costs the trader, but for the fee.
LEMMA TradePoolInv ==
    ASSUME RowsInv, RowsInv', PoolInv, NEW u \in Traders, NEW m \in Markets, NEW s \in Sides,
           NEW kind \in {"buy", "sell"}, NEW q \in Quantity, NEW f \in Nat,
           Traded(u, m, s, kind, q, f), FeeCollected(m, f)
    PROVE  PoolInv'
<1> DEFINE a == Signed(kind, q.amount)
<1>1. /\ outcome[m] = Open /\ cash' = [cash EXCEPT ![m] = @ + a - f] /\ a \in Int
      /\ cash \in [Markets -> Nat] /\ Covered(held', m, cash'[m])
      /\ \A k \in (Traders \X Markets) \ {<<u, m>>} : held'[k] = held[k]
      /\ outcome' = outcome /\ market' = market /\ sent' = sent + 1
    BY DEF Traded, Signed, Quantity, RowsInv, TypeOK
<1> HIDE DEF a
<1>2. /\ CashFlowOf(m)' = CashFlowOf(m) - a
      /\ \A k \in Markets \ {m} : CashFlowOf(k)' = CashFlowOf(k)
    BY TradeFlow DEF a
<1>3. /\ FeesOf(m)' = FeesOf(m) + f
      /\ \A k \in Markets \ {m} : FeesOf(k)' = FeesOf(k)
    BY <1>1, FeeEffect
<1>4. CashFlowOf(m) \in Int /\ FeesOf(m) \in Int /\ market[m].withdrawn \in Nat
    BY FlowType, FeesType DEF RowsInv, TypeOK
<1>5. /\ \A k, t : k # m \/ t # s => NetOf(rows'[u], k, t) = NetOf(rows[u], k, t)
      /\ \A v \in Traders \ {u} : rows'[v] = rows[v]
    BY TradeNet
<1>6. ASSUME NEW k \in Markets \ {m}, NEW t
      PROVE  NetTotal(k, t)' = NetTotal(k, t) /\ Outstanding(held, k, t)' = Outstanding(held, k, t)
    <2>1. \A v \in Traders : NetOf(rows'[v], k, t) = NetOf(rows[v], k, t)
        BY <1>5
    <2>2. \A v \in Traders : held'[<<v, k>>] = held[<<v, k>>]
        <3>1. \A v \in Traders : <<v, k>> \in (Traders \X Markets) \ {<<u, m>>}
            OBVIOUS
        <3>2. QED
            BY <1>1, <3>1
    <2>3. QED
        BY <2>1, <2>2 DEF NetTotal, Outstanding
<1>7. ASSUME NEW k \in Markets
      PROVE  /\ cash'[k] = Seed - CashFlowOf(k)' - FeesOf(k)' - market'[k].withdrawn - Paid(k)'
             /\ outcome'[k] = Open => Covered(held', k, cash'[k])
             /\ outcome'[k] # Open => Outstanding(held', k, outcome'[k]) <= cash'[k]
    <2>1. CASE k = m
        <3>1. Paid(m) = 0 /\ Paid(m)' = 0
            BY <1>1 DEF Paid
        <3>2. cash[m] = Seed - CashFlowOf(m) - FeesOf(m) - market[m].withdrawn - Paid(m)
            BY DEF PoolInv
        <3>3. cash'[m] = cash[m] + a - f /\ market'[m].withdrawn = market[m].withdrawn
            BY <1>1
        <3>4. Seed \in Nat
            BY NumbersAssumption
        <3>5. cash'[m] = Seed - CashFlowOf(m)' - FeesOf(m)' - market'[m].withdrawn - Paid(m)'
            BY <1>1, <1>2, <1>3, <1>4, <3>1, <3>2, <3>3, <3>4
        <3>6. QED
            BY <1>1, <2>1, <3>5
    <2>2. CASE k # m
        <3>1. k \in Markets \ {m} /\ cash'[k] = cash[k] /\ market'[k] = market[k]
            BY <1>1, <2>2
        <3>2. Paid(k)' = Paid(k)
            BY <1>1, <1>6, <3>1 DEF Paid
        <3>3. Covered(held', k, cash[k]) = Covered(held, k, cash[k])
            BY <1>6, <3>1 DEF Covered
        <3>4. outcome'[k] # Open => Outstanding(held', k, outcome'[k]) = Outstanding(held, k, outcome[k])
            BY <1>1, <1>6, <3>1
        <3>5. QED
            BY <1>1, <1>2, <1>3, <3>1, <3>2, <3>3, <3>4 DEF PoolInv
    <2>3. QED
        BY <2>1, <2>2
<1>8. QED
    BY <1>7 DEF PoolInv

\* A pool keeps where nothing it is made of changes.
LEMMA KeepPoolInv ==
    ASSUME PoolInv, cash' = cash, fees' = fees, held' = held, outcome' = outcome,
           \A m \in Markets : market'[m].withdrawn = market[m].withdrawn,
           \A v \in Traders : /\ \A k, g : FoldTrades(rows'[v], k, g) = FoldTrades(rows[v], k, g)
                              /\ \A k, t : NetOf(rows'[v], k, t) = NetOf(rows[v], k, t)
    PROVE  PoolInv'
<1>1. \A m \in Markets : CashFlowOf(m)' = CashFlowOf(m)
    <2> SUFFICES ASSUME NEW m \in Markets PROVE CashFlowOf(m)' = CashFlowOf(m)
        OBVIOUS
    <2>1. \A v \in Traders : TraderFlow(v, m)' = TraderFlow(v, m)
        BY DEF TraderFlow, Exposure
    <2>2. [v \in Traders |-> TraderFlow(v, m)]' = [v \in Traders |-> TraderFlow(v, m)]
        BY <2>1
    <2>3. CashFlowOf(m)' = SumFunction([v \in Traders |-> TraderFlow(v, m)])'
        BY DEF CashFlowOf, TraderFlow
    <2>4. CashFlowOf(m) = SumFunction([v \in Traders |-> TraderFlow(v, m)])
        BY DEF CashFlowOf, TraderFlow
    <2>5. QED
        BY <2>2, <2>3, <2>4 DEF SumFunction
<1>2. \A m \in Markets : FeesOf(m)' = FeesOf(m)
    BY DEF FeesOf
<1>3. \A m, t : NetTotal(m, t)' = NetTotal(m, t) /\ Outstanding(held', m, t) = Outstanding(held, m, t)
    BY DEF NetTotal, Outstanding
<1>4. \A m \in Markets : Paid(m)' = Paid(m)
    BY <1>3 DEF Paid
<1>5. ASSUME NEW m \in Markets
      PROVE  /\ cash'[m] = Seed - CashFlowOf(m)' - FeesOf(m)' - market'[m].withdrawn - Paid(m)'
             /\ outcome'[m] = Open => Covered(held', m, cash'[m])
             /\ outcome'[m] # Open => Outstanding(held', m, outcome'[m]) <= cash'[m]
    <2>1. /\ cash[m] = Seed - CashFlowOf(m) - FeesOf(m) - market[m].withdrawn - Paid(m)
          /\ outcome[m] = Open => Covered(held, m, cash[m])
          /\ outcome[m] # Open => Outstanding(held, m, outcome[m]) <= cash[m]
        BY DEF PoolInv
    <2>2. market'[m].withdrawn = market[m].withdrawn
        OBVIOUS
    <2>3. QED
        BY <1>1, <1>2, <1>4, <2>1, <2>2
<1>6. QED
    BY <1>5 DEF PoolInv

\* Nothing is paid when a market is resolved.
LEMMA ResolvePoolInv ==
    ASSUME RowsInv, EventsInv, PositionInv, PoolInv, NEW m \in Markets, NEW s \in Sides,
           Resolve(m, s)
    PROVE  PoolInv'
<1>1. /\ outcome[m] = Open /\ outcome'[m] = s /\ s # Open
      /\ \A k \in Markets \ {m} : outcome'[k] = outcome[k]
      /\ held' = held /\ rows' = rows /\ cash' = cash /\ fees' = fees /\ market' = market
    BY MarketsAssumption DEF Resolve, RowsInv, TypeOK
<1>2. /\ \A k \in Markets : CashFlowOf(k)' = CashFlowOf(k) /\ FeesOf(k)' = FeesOf(k)
      /\ \A k \in Markets, t \in Sides : NetTotal(k, t)' = NetTotal(k, t)
    BY <1>1 DEF CashFlowOf, FeesOf, NetTotal, Exposure, Groups, GroupOf
<1>3. NetTotal(m, s) = Outstanding(held, m, s) /\ NetTotal(m, s) \in Int
    <2>1. \A v \in Traders : held[<<v, m>>][s] = NetOf(rows[v], m, s)
        BY <1>1, OpenPosition
    <2>2. [v \in Traders |-> held[<<v, m>>][s]] = [v \in Traders |-> NetOf(rows[v], m, s)]
        BY <2>1
    <2>3. QED
        BY <2>2, NetTotalType DEF NetTotal, Outstanding
<1>4. Paid(m) = 0 /\ Paid(m)' = 0
    <2>1. Paid(m)' = NetTotal(m, s)' - Outstanding(held', m, s)
        BY <1>1 DEF Paid
    <2>2. Outstanding(held', m, s) = Outstanding(held, m, s)
        BY <1>1
    <2>3. QED
        BY <1>1, <1>2, <1>3, <2>1, <2>2 DEF Paid
<1>5. ASSUME NEW k \in Markets
      PROVE  /\ cash'[k] = Seed - CashFlowOf(k)' - FeesOf(k)' - market'[k].withdrawn - Paid(k)'
             /\ outcome'[k] = Open => Covered(held', k, cash'[k])
             /\ outcome'[k] # Open => Outstanding(held', k, outcome'[k]) <= cash'[k]
    <2>1. /\ cash[k] = Seed - CashFlowOf(k) - FeesOf(k) - market[k].withdrawn - Paid(k)
          /\ outcome[k] = Open => Covered(held, k, cash[k])
          /\ outcome[k] # Open => Outstanding(held, k, outcome[k]) <= cash[k]
        BY DEF PoolInv
    <2>2. CASE k = m
        <3>1. Outstanding(held, m, s) <= cash[m]
            BY <1>1, <2>1, <2>2 DEF Covered
        <3>2. QED
            BY <1>1, <1>2, <1>4, <2>1, <2>2, <3>1
    <2>3. CASE k # m
        <3>1. outcome'[k] = outcome[k]
            BY <1>1, <2>3
        <3>2. outcome[k] # Open => outcome[k] \in Sides
            BY DEF RowsInv, TypeOK
        <3>3. Paid(k)' = Paid(k)
            BY <1>1, <1>2, <3>1, <3>2 DEF Paid
        <3>4. QED
            BY <1>1, <1>2, <2>1, <3>1, <3>3
    <2>4. QED
        BY <2>2, <2>3
<1>6. QED
    BY <1>5 DEF PoolInv

\* A pool pays a redemption out of what it holds for the winners.
LEMMA RedeemPoolInv ==
    ASSUME RowsInv, PoolInv, NEW u \in Traders, NEW m \in Markets, RedeemDone(u, m)
    PROVE  PoolInv'
<1> DEFINE o == outcome[m]
           won == held[<<u, m>>][o]
<1>1. /\ o \in Sides /\ o # Open /\ won \in Nat
      /\ held \in [Traders \X Markets -> [Sides -> Nat]]
      /\ held' \in [Traders \X Markets -> [Sides -> Nat]]
      /\ held'[<<u, m>>][o] = 0
      /\ \A k \in (Traders \X Markets) \ {<<u, m>>} : held'[k] = held[k]
      /\ cash' = [cash EXCEPT ![m] = @ - won] /\ cash \in [Markets -> Nat]
      /\ outcome' = outcome /\ rows' = rows /\ fees' = fees /\ market' = market
    BY DEF RedeemDone, RowsInv, TypeOK
<1>2. /\ \A k \in Markets : CashFlowOf(k)' = CashFlowOf(k) /\ FeesOf(k)' = FeesOf(k)
      /\ \A k \in Markets, t \in Sides : NetTotal(k, t)' = NetTotal(k, t)
    BY <1>1 DEF CashFlowOf, FeesOf, NetTotal, Exposure, Groups, GroupOf
<1>3. Outstanding(held', m, o) = Outstanding(held, m, o) - won
    <2> DEFINE b == [v \in Traders |-> held[<<v, m>>][o]]
               c == [v \in Traders |-> held'[<<v, m>>][o]]
    <2>1. \A v \in Traders \ {u} : held'[<<v, m>>] = held[<<v, m>>]
        <3>1. \A v \in Traders \ {u} : <<v, m>> \in (Traders \X Markets) \ {<<u, m>>}
            OBVIOUS
        <3>2. QED
            BY <1>1, <3>1
    <2>2. /\ IntegersOn(b, Traders) /\ DOMAIN b = Traders /\ DOMAIN c = Traders
          /\ \A v \in Traders : v # u => c[v] = b[v]
          /\ c[u] = 0 /\ b[u] = won
        BY <1>1, <2>1 DEF IntegersOn
    <2>3. Outstanding(held, m, o) = SumFunction(b) /\ Outstanding(held', m, o) = SumFunction(c)
        BY DEF Outstanding
    <2> HIDE DEF b, c, won
    <2>4. SumFunctionOnSet(c, Traders) = SumFunctionOnSet(b, Traders) + c[u] - b[u]
        BY <2>2, FiniteAssumption, SumsChange
    <2>5. SumFunctionOnSet(b, Traders) \in Int
        BY <2>2, FiniteAssumption, SumsType
    <2>6. QED
        BY <1>1, <2>2, <2>3, <2>4, <2>5 DEF SumFunction
<1>4. ASSUME NEW k \in Markets \ {m}, NEW t
      PROVE  Outstanding(held', k, t) = Outstanding(held, k, t)
    <2>1. \A v \in Traders : <<v, k>> \in (Traders \X Markets) \ {<<u, m>>}
        OBVIOUS
    <2>2. \A v \in Traders : held'[<<v, k>>] = held[<<v, k>>]
        BY <1>1, <2>1
    <2>3. QED
        BY <2>2 DEF Outstanding
<1>5. /\ CashFlowOf(m) \in Int /\ FeesOf(m) \in Int /\ market[m].withdrawn \in Nat
      /\ NetTotal(m, o) \in Int /\ Outstanding(held, m, o) \in Nat /\ Seed \in Nat
    BY <1>1, FlowType, FeesType, NetTotalType, OutstandingType, NumbersAssumption
       DEF RowsInv, TypeOK
<1> HIDE DEF o, won
<1>6. ASSUME NEW k \in Markets
      PROVE  /\ cash'[k] = Seed - CashFlowOf(k)' - FeesOf(k)' - market'[k].withdrawn - Paid(k)'
             /\ outcome'[k] = Open => Covered(held', k, cash'[k])
             /\ outcome'[k] # Open => Outstanding(held', k, outcome'[k]) <= cash'[k]
    <2>1. /\ cash[k] = Seed - CashFlowOf(k) - FeesOf(k) - market[k].withdrawn - Paid(k)
          /\ outcome[k] = Open => Covered(held, k, cash[k])
          /\ outcome[k] # Open => Outstanding(held, k, outcome[k]) <= cash[k]
        BY DEF PoolInv
    <2>2. CASE k = m
        <3>1. Paid(m) = NetTotal(m, o) - Outstanding(held, m, o)
            BY <1>1 DEF Paid, o
        <3>2. Paid(m)' = NetTotal(m, o) - Outstanding(held', m, o)
            BY <1>1, <1>2 DEF Paid, o
        <3>3. cash'[m] = cash[m] - won
            BY <1>1
        <3>4. cash'[m] = Seed - CashFlowOf(m) - FeesOf(m) - market[m].withdrawn - Paid(m)'
            BY <1>1, <1>3, <1>5, <2>1, <2>2, <3>1, <3>2, <3>3
        <3>5. Outstanding(held', m, o) <= cash'[m]
            <4>1. Outstanding(held, m, o) <= cash[m] /\ cash[m] \in Nat
                BY <1>1, <2>1, <2>2 DEF o
            <4>2. QED
                BY <1>1, <1>3, <1>5, <3>3, <4>1
        <3>6. QED
            BY <1>1, <1>2, <2>2, <3>4, <3>5 DEF o
    <2>3. CASE k # m
        <3>1. cash'[k] = cash[k] /\ k \in Markets \ {m}
            BY <1>1, <2>3
        <3>2. outcome[k] # Open => outcome[k] \in Sides
            BY DEF RowsInv, TypeOK
        <3>3. Paid(k)' = Paid(k)
            BY <1>1, <1>2, <1>4, <3>1, <3>2 DEF Paid
        <3>4. Covered(held', k, cash[k]) = Covered(held, k, cash[k])
            BY <1>4, <3>1 DEF Covered
        <3>5. QED
            BY <1>1, <1>2, <1>4, <2>1, <3>1, <3>3, <3>4
    <2>4. QED
        BY <2>2, <2>3
<1>7. QED
    BY <1>6 DEF PoolInv

\* A handler moves no money.
LEMMA HandledPoolInv ==
    ASSUME RowsInv, PoolInv, NEW log, Handled(log)
    PROVE  PoolInv'
<1>1. cash' = cash /\ fees' = fees /\ held' = held /\ outcome' = outcome
    BY DEF Handled
<1>2. \A m \in Markets : market'[m].withdrawn = market[m].withdrawn
    <2>1. CASE ResolvedHandled(log)
        BY <2>1 DEF ResolvedHandled, RowsInv, TypeOK
    <2>2. CASE market' = market
        BY <2>2
    <2>3. QED
        BY <2>1, <2>2 DEF Handled, TransferHandled, RedeemedHandled
<1>3. \A v \in Traders : /\ \A k, g : FoldTrades(rows'[v], k, g) = FoldTrades(rows[v], k, g)
                         /\ \A k, t : NetOf(rows'[v], k, t) = NetOf(rows[v], k, t)
    BY HandledEvents
<1>4. QED
    BY <1>1, <1>2, <1>3, KeepPoolInv

\* A drain leaves what the winners can still claim.
LEMMA DrainedPoolInv ==
    ASSUME RowsInv, ResolutionInv, PoolInv, NEW m \in Markets, Drained(m)
    PROVE  PoolInv'
<1>1. PICK w \in Nat, claims \in Nat :
          /\ market[m].result # Open /\ ~market[m].drained
          /\ claims = Outstanding(held, m, outcome[m]) /\ claims <= cash[m] - w
          /\ cash' = [cash EXCEPT ![m] = @ - w]
          /\ market' = [market EXCEPT ![m] = [@ EXCEPT !.drained = TRUE, !.withdrawn = w,
                                                       !.claims = claims]]
          /\ held' = held /\ outcome' = outcome /\ rows' = rows /\ fees' = fees
    BY DEF Drained
<1>2. /\ cash \in [Markets -> Nat]
      /\ market \in [Markets -> [result : Sides \union {Open}, drained : BOOLEAN,
                                 withdrawn : Nat, claims : Nat]]
    BY DEF RowsInv, TypeOK
<1>3. /\ market[m].withdrawn = 0 /\ market'[m].withdrawn = w /\ outcome[m] # Open
      /\ cash'[m] = cash[m] - w
      /\ \A k \in Markets \ {m} : cash'[k] = cash[k] /\ market'[k] = market[k]
    BY <1>1, <1>2 DEF ResolutionInv
<1>4. \A k \in Markets : CashFlowOf(k)' = CashFlowOf(k) /\ FeesOf(k)' = FeesOf(k)
                          /\ Paid(k)' = Paid(k)
    BY <1>1 DEF CashFlowOf, FeesOf, NetTotal, Exposure, Groups, GroupOf, Paid, Outstanding
<1>5. CashFlowOf(m) \in Int /\ FeesOf(m) \in Int /\ Seed \in Nat /\ Paid(m) \in Int
    <2>1. outcome[m] # Open => outcome[m] \in Sides
        BY DEF RowsInv, TypeOK
    <2>2. Paid(m) \in Int
        BY <1>1, <1>3, <2>1, NetTotalType DEF Paid
    <2>3. QED
        BY <2>2, FlowType, FeesType, NumbersAssumption
<1>6. ASSUME NEW k \in Markets
      PROVE  /\ cash'[k] = Seed - CashFlowOf(k)' - FeesOf(k)' - market'[k].withdrawn - Paid(k)'
             /\ outcome'[k] = Open => Covered(held', k, cash'[k])
             /\ outcome'[k] # Open => Outstanding(held', k, outcome'[k]) <= cash'[k]
    <2>1. /\ cash[k] = Seed - CashFlowOf(k) - FeesOf(k) - market[k].withdrawn - Paid(k)
          /\ outcome[k] = Open => Covered(held, k, cash[k])
          /\ outcome[k] # Open => Outstanding(held, k, outcome[k]) <= cash[k]
        BY DEF PoolInv
    <2>2. CASE k = m
        <3>1. cash'[m] = Seed - CashFlowOf(m) - FeesOf(m) - w - Paid(m)
            BY <1>2, <1>3, <1>5, <2>1, <2>2
        <3>2. QED
            BY <1>1, <1>3, <1>4, <2>2, <3>1
    <2>3. CASE k # m
        BY <1>1, <1>3, <1>4, <2>1, <2>3
    <2>4. QED
        BY <2>2, <2>3
<1>7. QED
    BY <1>6 DEF PoolInv

---------------------------------------------------------------------------
(* LedgerInv is kept *)

\* A total of a trader's rows is an integer.
LEMMA TotalType ==
    ASSUME RowsInv, NEW u \in Traders, NEW kinds
    PROVE  Total(rows[u], kinds) \in Int
<1>1. rows[u] \in Seq(Rows)
    BY DEF RowsInv
<1>2. [kind |-> "deposit", user |-> u, market |-> Open, amount |-> 0, tx |-> 0] \in Rows
    BY DEF Rows, Events
<1>3. QED
    BY <1>1, <1>2, TotalAppend

\* A trade is paid from the escrow, or into it.
LEMMA TradeLedgerInv ==
    ASSUME RowsInv, LedgerInv, NEW u \in Traders, NEW m \in Markets, NEW s \in Sides,
           NEW kind \in {"buy", "sell"}, NEW q \in Quantity, NEW f \in Nat,
           Traded(u, m, s, kind, q, f)
    PROVE  LedgerInv'
<1> DEFINE r == Row(kind, m, s, q.shares, q.amount)
           a == Signed(kind, q.amount)
<1>1. /\ r \in TradeRecords /\ r.kind = kind /\ r.amount = q.amount
      /\ rows' = [rows EXCEPT ![u] = Append(@, r)] /\ logs' = logs
      /\ escrow' = [escrow EXCEPT ![u] = @ - a] /\ escrow \in [Traders -> Nat]
      /\ q.amount \in Nat /\ a = (IF kind = "buy" THEN q.amount ELSE -q.amount)
    BY DEF Traded, Row, Quantity, Signed, RowsInv, TypeOK
<1> HIDE DEF r, a
<1>2. r \in Rows
    BY <1>1 DEF Rows
<1>4. /\ \A v \in Traders \ {u} : rows'[v] = rows[v]
      /\ rows'[u] = Append(rows[u], r) /\ rows[u] \in Seq(Rows)
    BY <1>1, <1>2, AppendRow DEF RowsInv
<1>5. ASSUME NEW v \in Traders
      PROVE  escrow'[v] = Endowment + Total(rows'[v], {"sell"}) - Total(rows'[v], {"buy"})
                            + Moved(v, {"deposit", "redemption"})' - Moved(v, {"withdraw"})'
    <2>1. escrow[v] = Endowment + Total(rows[v], {"sell"}) - Total(rows[v], {"buy"})
                        + Moved(v, {"deposit", "redemption"}) - Moved(v, {"withdraw"})
        BY DEF LedgerInv
    <2>2. /\ Moved(v, {"deposit", "redemption"})' = Moved(v, {"deposit", "redemption"})
          /\ Moved(v, {"withdraw"})' = Moved(v, {"withdraw"})
        BY <1>1, TradeEvents
    <2>3. CASE v # u
        BY <1>1, <1>4, <2>1, <2>2, <2>3
    <2>4. CASE v = u
        <3>1. /\ Total(rows'[u], {"sell"}) = Total(rows[u], {"sell"}) + AmountIn(r, {"sell"})
              /\ Total(rows'[u], {"buy"}) = Total(rows[u], {"buy"}) + AmountIn(r, {"buy"})
            BY <1>2, <1>4, TotalAppend
        <3>2. AmountIn(r, {"sell"}) - AmountIn(r, {"buy"}) = -a
              /\ AmountIn(r, {"sell"}) \in Int /\ AmountIn(r, {"buy"}) \in Int /\ a \in Int
            BY <1>1 DEF AmountIn
        <3>3. /\ Total(rows[u], {"sell"}) \in Int /\ Total(rows[u], {"buy"}) \in Int
              /\ Moved(u, {"deposit", "redemption"}) \in Nat /\ Moved(u, {"withdraw"}) \in Nat
              /\ Endowment \in Nat /\ escrow'[u] = escrow[u] - a
            BY <1>1, TotalType, AmountsOf, NumbersAssumption
        <3>4. QED
            BY <2>1, <2>2, <2>4, <3>1, <3>2, <3>3
    <2>5. QED
        BY <2>3, <2>4
<1>6. QED
    BY <1>5 DEF LedgerInv

\* A new event moves in the ledger what it moves in the escrow.
LEMMA EmitLedgerInv ==
    ASSUME RowsInv, RowsInv', LedgerInv, NEW u \in Traders, NEW e \in Events, e.user = u,
           e \notin EventsOf(u), rows' = rows, logs' = logs \union {e},
           escrow' = [escrow EXCEPT ![u] = @ + IF e.kind = "withdraw" THEN -e.amount
                                               ELSE e.amount]
    PROVE  LedgerInv'
<1>1. e.amount \in Nat /\ e.kind \in {"deposit", "withdraw", "redemption"}
      /\ escrow \in [Traders -> Nat]
    BY DEF Events, RowsInv, TypeOK
<1>2. ASSUME NEW v \in Traders
      PROVE  escrow'[v] = Endowment + Total(rows'[v], {"sell"}) - Total(rows'[v], {"buy"})
                            + Moved(v, {"deposit", "redemption"})' - Moved(v, {"withdraw"})'
    <2>1. escrow[v] = Endowment + Total(rows[v], {"sell"}) - Total(rows[v], {"buy"})
                        + Moved(v, {"deposit", "redemption"}) - Moved(v, {"withdraw"})
        BY DEF LedgerInv
    <2>2. CASE v # u
        <3>1. /\ Moved(v, {"deposit", "redemption"})' = Moved(v, {"deposit", "redemption"})
              /\ Moved(v, {"withdraw"})' = Moved(v, {"withdraw"})
            BY <2>2, EmitEvents
        <3>2. escrow'[v] = escrow[v]
            BY <1>1, <2>2
        <3>3. QED
            BY <2>1, <3>1, <3>2
    <2>3. CASE v = u
        <3> DEFINE i == AmountIn(e, {"deposit", "redemption"})
                   o == AmountIn(e, {"withdraw"})
        <3>1. /\ Moved(u, {"deposit", "redemption"})' = Moved(u, {"deposit", "redemption"}) + i
              /\ Moved(u, {"withdraw"})' = Moved(u, {"withdraw"}) + o
            BY EmitEvents
        <3>2. /\ i \in Int /\ o \in Int
              /\ i - o = IF e.kind = "withdraw" THEN -e.amount ELSE e.amount
            BY <1>1 DEF AmountIn
        <3> HIDE DEF i, o
        <3>3. escrow'[u] = escrow[u] + (i - o)
            BY <1>1, <3>2
        <3>4. /\ Total(rows[u], {"sell"}) \in Int /\ Total(rows[u], {"buy"}) \in Int
              /\ Moved(u, {"deposit", "redemption"}) \in Nat /\ Moved(u, {"withdraw"}) \in Nat
              /\ Endowment \in Nat
            BY TotalType, AmountsOf, NumbersAssumption
        <3>5. QED
            BY <2>1, <2>3, <3>1, <3>2, <3>3, <3>4
    <2>4. QED
        BY <2>2, <2>3
<1>3. QED
    BY <1>2 DEF LedgerInv

\* An escrow's ledger keeps where nothing it is made of changes.
LEMMA KeepLedgerInv ==
    ASSUME LedgerInv, escrow' = escrow,
           \A v \in Traders : /\ \A kinds : Moved(v, kinds)' = Moved(v, kinds)
                              /\ Total(rows'[v], {"sell"}) = Total(rows[v], {"sell"})
                              /\ Total(rows'[v], {"buy"}) = Total(rows[v], {"buy"})
    PROVE  LedgerInv'
BY DEF LedgerInv

---------------------------------------------------------------------------
(* MoneyInv is kept *)

WithdrawnTotal == SumFunction([m \in Markets |-> market[m].withdrawn])
MovedTotal(kind) == SumFunction([u \in Traders |-> Moved(u, {kind})])

\* The sums that money is made of are integers.
LEMMA MoneyParts ==
    ASSUME RowsInv
    PROVE  /\ SumFunction(escrow) \in Int /\ SumFunction(cash) \in Int
           /\ WithdrawnTotal \in Int /\ FeeTotal \in Int
           /\ \A kind : MovedTotal(kind) \in Int
           /\ Endowment * Cardinality(Traders) + Seed * Cardinality(Markets) \in Int
<1>1. /\ escrow \in [Traders -> Nat] /\ cash \in [Markets -> Nat]
      /\ \A m \in Markets : market[m].withdrawn \in Nat
    BY DEF RowsInv, TypeOK
<1>2. SumFunction(escrow) \in Int /\ SumFunction(cash) \in Int
    <2>1. DOMAIN escrow = Traders /\ DOMAIN cash = Markets
          /\ (\A x \in Traders : escrow[x] \in Int) /\ (\A x \in Markets : cash[x] \in Int)
        BY <1>1
    <2>2. QED
        BY <2>1, FiniteAssumption, IntegerSum
<1>3. WithdrawnTotal \in Int
    <2> DEFINE h == [m \in Markets |-> market[m].withdrawn]
    <2>1. DOMAIN h = Markets /\ \A x \in Markets : h[x] \in Int
        BY <1>1
    <2>2. SumFunction(h) \in Int
        <3> HIDE DEF h
        <3>1. QED
            BY <2>1, FiniteAssumption, IntegerSum
    <2>3. QED
        BY <2>2 DEF WithdrawnTotal
<1>4. ASSUME NEW kind PROVE MovedTotal(kind) \in Int
    <2> DEFINE h == [u \in Traders |-> Moved(u, {kind})]
    <2>1. \A x \in Traders : Moved(x, {kind}) \in Int
        <3>1. \A x \in Traders : Moved(x, {kind}) \in Nat
            BY AmountsOf
        <3>2. QED
            BY <3>1
    <2>2. DOMAIN h = Traders /\ \A x \in Traders : h[x] \in Int
        BY <2>1
    <2>3. SumFunction(h) \in Int
        <3> HIDE DEF h
        <3>1. QED
            BY <2>2, FiniteAssumption, IntegerSum
    <2>4. QED
        BY <2>3 DEF MovedTotal
<1>5. Cardinality(Traders) \in Nat /\ Cardinality(Markets) \in Nat
    BY FiniteAssumption, FS_CardinalityType
<1>6. Endowment * Cardinality(Traders) + Seed * Cardinality(Markets) \in Int
    BY <1>5, NumbersAssumption
<1>7. QED
    BY <1>2, <1>3, <1>4, <1>6, FeesType

\* The invariant, in its parts.
LEMMA MoneyIs ==
    MoneyInv <=>
        SumFunction(escrow) + SumFunction(cash) + WithdrawnTotal + FeeTotal =
            Endowment * Cardinality(Traders) + Seed * Cardinality(Markets)
              + MovedTotal("deposit") - MovedTotal("withdraw")
BY DEF MoneyInv, Money, WithdrawnTotal, FeeTotal, MovedTotal

\* The same of the next state.
LEMMA MoneyIsNext ==
    MoneyInv' <=>
        SumFunction(escrow)' + SumFunction(cash)' + WithdrawnTotal' + FeeTotal' =
            Endowment * Cardinality(Traders) + Seed * Cardinality(Markets)
              + MovedTotal("deposit")' - MovedTotal("withdraw")'
BY DEF MoneyInv, Money, WithdrawnTotal, FeeTotal, MovedTotal

\* A trade moves money between the escrow, the pool and the fees.
LEMMA TradeMoneyInv ==
    ASSUME RowsInv, MoneyInv, NEW u \in Traders, NEW m \in Markets, NEW s \in Sides,
           NEW kind \in {"buy", "sell"}, NEW q \in Quantity, NEW f \in Nat,
           Traded(u, m, s, kind, q, f), FeeCollected(m, f)
    PROVE  MoneyInv'
<1> DEFINE r == Row(kind, m, s, q.shares, q.amount)
           a == Signed(kind, q.amount)
<1>1. /\ r \in TradeRecords /\ rows' = [rows EXCEPT ![u] = Append(@, r)] /\ logs' = logs
      /\ escrow' = [escrow EXCEPT ![u] = @ - a] /\ escrow \in [Traders -> Nat]
      /\ cash' = [cash EXCEPT ![m] = @ + a - f] /\ cash \in [Markets -> Nat]
      /\ a \in Int /\ market' = market /\ sent' = sent + 1
    <2>1. a \in Int
        BY DEF Quantity, Signed
    <2>2. escrow \in [Traders -> Nat] /\ cash \in [Markets -> Nat]
        BY DEF RowsInv, TypeOK
    <2>3. /\ r \in TradeRecords /\ rows' = [rows EXCEPT ![u] = Append(@, r)] /\ logs' = logs
          /\ market' = market /\ sent' = sent + 1
        <3> HIDE DEF a
        <3>1. QED
            BY DEF Traded
    <2>4. /\ escrow' = [escrow EXCEPT ![u] = @ - a] /\ cash' = [cash EXCEPT ![m] = @ + a - f]
        BY DEF Traded
    <2>5. QED
        BY <2>1, <2>2, <2>3, <2>4
<1> HIDE DEF r, a
<1>2. SumFunction(escrow)' = SumFunction(escrow) - a
    <2>1. /\ DOMAIN escrow = Traders /\ DOMAIN escrow' = Traders /\ -a \in Int
          /\ (\A x \in Traders : escrow[x] \in Int) /\ escrow'[u] = escrow[u] + (-a)
          /\ \A x \in Traders \ {u} : escrow'[x] = escrow[x]
        BY <1>1
    <2>2. SumFunction(escrow') = SumFunction(escrow) + (-a) /\ SumFunction(escrow) \in Int
        BY <2>1, FiniteAssumption, PointSum
    <2>3. QED
        BY <1>1, <2>2 DEF SumFunction
<1>3. SumFunction(cash)' = SumFunction(cash) + a - f
    <2>1. /\ DOMAIN cash = Markets /\ DOMAIN cash' = Markets /\ a - f \in Int
          /\ (\A x \in Markets : cash[x] \in Int) /\ cash'[m] = cash[m] + (a - f)
          /\ \A x \in Markets \ {m} : cash'[x] = cash[x]
        BY <1>1
    <2>2. SumFunction(cash') = SumFunction(cash) + (a - f) /\ SumFunction(cash) \in Int
        BY <2>1, FiniteAssumption, PointSum
    <2>3. QED
        BY <1>1, <2>2 DEF SumFunction
<1>4. WithdrawnTotal' = WithdrawnTotal
    BY <1>1 DEF WithdrawnTotal
<1>5. FeeTotal' = FeeTotal + f
    BY <1>1, FeeEffect
<1>6. MovedTotal("deposit")' = MovedTotal("deposit")
      /\ MovedTotal("withdraw")' = MovedTotal("withdraw")
    <2>1. \A kinds : \A v \in Traders : Moved(v, kinds)' = Moved(v, kinds)
        BY <1>1, TradeEvents
    <2>2. QED
        BY <2>1 DEF MovedTotal
<1>7. /\ SumFunction(escrow) \in Int /\ SumFunction(cash) \in Int
      /\ WithdrawnTotal \in Int /\ FeeTotal \in Int
      /\ MovedTotal("deposit") \in Int /\ MovedTotal("withdraw") \in Int
      /\ Endowment * Cardinality(Traders) + Seed * Cardinality(Markets) \in Int
    BY MoneyParts
<1>8. SumFunction(escrow) + SumFunction(cash) + WithdrawnTotal + FeeTotal =
          Endowment * Cardinality(Traders) + Seed * Cardinality(Markets)
            + MovedTotal("deposit") - MovedTotal("withdraw")
    BY MoneyIs
<1>9. SumFunction(escrow)' + SumFunction(cash)' + WithdrawnTotal' + FeeTotal' =
          SumFunction(escrow) + SumFunction(cash) + WithdrawnTotal + FeeTotal
    <2>1. a \in Int /\ f \in Int
        BY <1>1
    <2>2. QED
        BY <1>2, <1>3, <1>4, <1>5, <1>7, <2>1
<1>10. QED
    BY <1>6, <1>8, <1>9, MoneyIsNext

\* What moves when an event is emitted.
LEMMA EmitTotals ==
    ASSUME RowsInv, RowsInv', NEW u \in Traders, NEW e \in Events, e.user = u,
           e \notin EventsOf(u), rows' = rows, logs' = logs \union {e}, NEW kind
    PROVE  MovedTotal(kind)' = MovedTotal(kind) + AmountIn(e, {kind})
<1> DEFINE h == [v \in Traders |-> Moved(v, {kind})]
           new == [v \in Traders |-> Moved(v, {kind})']
           d == AmountIn(e, {kind})
<1>1. d \in Int
    BY DEF AmountIn, Events
<1>2. /\ Moved(u, {kind})' = Moved(u, {kind}) + d
      /\ \A v \in Traders \ {u} : Moved(v, {kind})' = Moved(v, {kind})
    BY EmitEvents
<1>3. \A v \in Traders : Moved(v, {kind}) \in Nat
    BY AmountsOf
<1> HIDE DEF d
<1>4. /\ DOMAIN h = Traders /\ DOMAIN new = Traders /\ (\A v \in Traders : h[v] \in Int)
      /\ new[u] = h[u] + d /\ \A v \in Traders \ {u} : new[v] = h[v]
    BY <1>2, <1>3
<1>5. MovedTotal(kind) = SumFunction(h) /\ MovedTotal(kind)' = SumFunction(new)
    BY DEF MovedTotal
<1>6. SumFunction(new) = SumFunction(h) + d
    <2> HIDE DEF h, new
    <2>1. QED
        BY <1>1, <1>4, FiniteAssumption, PointSum
<1>7. QED
    BY <1>5, <1>6 DEF d

\* A deposit or a withdrawal moves money between the escrow and the world.
LEMMA TransferMoneyInv ==
    ASSUME RowsInv, RowsInv', MoneyInv, NEW u \in Traders, NEW e \in Events, Transferred(u, e)
    PROVE  MoneyInv'
<1> DEFINE i == AmountIn(e, {"deposit"})
           o == AmountIn(e, {"withdraw"})
<1>1. /\ e.user = u /\ e \notin EventsOf(u) /\ logs' = logs \union {e} /\ rows' = rows
      /\ escrow' = [escrow EXCEPT ![u] = @ + IF e.kind = "deposit" THEN e.amount
                                             ELSE -e.amount]
      /\ escrow \in [Traders -> Nat] /\ e.kind \in {"deposit", "withdraw"}
      /\ e.amount \in Nat /\ cash' = cash /\ market' = market /\ fees' = fees
    BY DEF Transferred, RowsInv, TypeOK, Events
<1>2. /\ i \in Int /\ o \in Int
      /\ i - o = IF e.kind = "deposit" THEN e.amount ELSE -e.amount
    BY <1>1 DEF AmountIn
<1>3. MovedTotal("deposit")' = MovedTotal("deposit") + i
      /\ MovedTotal("withdraw")' = MovedTotal("withdraw") + o
    BY <1>1, EmitTotals
<1> HIDE DEF i, o
<1>4. SumFunction(escrow)' = SumFunction(escrow) + (i - o)
    <2>1. /\ DOMAIN escrow = Traders /\ DOMAIN escrow' = Traders /\ i - o \in Int
          /\ (\A x \in Traders : escrow[x] \in Int) /\ escrow'[u] = escrow[u] + (i - o)
          /\ \A x \in Traders \ {u} : escrow'[x] = escrow[x]
        BY <1>1, <1>2
    <2>2. SumFunction(escrow') = SumFunction(escrow) + (i - o) /\ SumFunction(escrow) \in Int
        BY <2>1, FiniteAssumption, PointSum
    <2>3. QED
        BY <2>2 DEF SumFunction
<1>5. /\ SumFunction(cash)' = SumFunction(cash) /\ WithdrawnTotal' = WithdrawnTotal
      /\ FeeTotal' = FeeTotal
    BY <1>1 DEF WithdrawnTotal, FeeTotal, SumFunction
<1>6. QED
    BY <1>2, <1>3, <1>4, <1>5, MoneyParts, MoneyIs, MoneyIsNext

\* A redemption moves money from the pool to the escrow.
LEMMA RedeemMoneyInv ==
    ASSUME RowsInv, RowsInv', MoneyInv, NEW u \in Traders, NEW m \in Markets, RedeemDone(u, m)
    PROVE  MoneyInv'
<1> DEFINE won == held[<<u, m>>][outcome[m]]
           e == Log("redemption", u, m, won)
<1>1. /\ e \in Events /\ e.user = u /\ e.kind = "redemption" /\ e \notin EventsOf(u)
      /\ logs' = logs \union {e} /\ rows' = rows /\ won \in Nat
      /\ escrow' = [escrow EXCEPT ![u] = @ + won] /\ escrow \in [Traders -> Nat]
      /\ cash' = [cash EXCEPT ![m] = @ - won] /\ cash \in [Markets -> Nat]
      /\ market' = market /\ fees' = fees
    BY DEF RedeemDone, RowsInv, TypeOK
<1> HIDE DEF won, e
<1>2. AmountIn(e, {"deposit"}) = 0 /\ AmountIn(e, {"withdraw"}) = 0
    BY <1>1 DEF AmountIn
<1>3. MovedTotal("deposit")' = MovedTotal("deposit") + 0
      /\ MovedTotal("withdraw")' = MovedTotal("withdraw") + 0
    BY <1>1, <1>2, EmitTotals
<1>4. SumFunction(escrow)' = SumFunction(escrow) + won
    <2>1. /\ DOMAIN escrow = Traders /\ DOMAIN escrow' = Traders /\ won \in Int
          /\ (\A x \in Traders : escrow[x] \in Int) /\ escrow'[u] = escrow[u] + won
          /\ \A x \in Traders \ {u} : escrow'[x] = escrow[x]
        BY <1>1
    <2>2. SumFunction(escrow') = SumFunction(escrow) + won
        BY <2>1, FiniteAssumption, PointSum
    <2>3. QED
        BY <2>2 DEF SumFunction
<1>5. SumFunction(cash)' = SumFunction(cash) - won
    <2>1. /\ DOMAIN cash = Markets /\ DOMAIN cash' = Markets /\ -won \in Int
          /\ (\A x \in Markets : cash[x] \in Int) /\ cash'[m] = cash[m] + (-won)
          /\ \A x \in Markets \ {m} : cash'[x] = cash[x]
        BY <1>1
    <2>2. SumFunction(cash') = SumFunction(cash) + (-won) /\ SumFunction(cash) \in Int
        BY <2>1, FiniteAssumption, PointSum
    <2>3. QED
        BY <1>1, <2>2 DEF SumFunction
<1>6. WithdrawnTotal' = WithdrawnTotal /\ FeeTotal' = FeeTotal
    BY <1>1 DEF WithdrawnTotal, FeeTotal
<1>7. QED
    BY <1>1, <1>3, <1>4, <1>5, <1>6, MoneyParts, MoneyIs, MoneyIsNext

\* No money is lost where none moves.
LEMMA KeepMoneyInv ==
    ASSUME MoneyInv, escrow' = escrow, cash' = cash, fees' = fees,
           \A m \in Markets : market'[m].withdrawn = market[m].withdrawn,
           \A kinds : \A v \in Traders : Moved(v, kinds)' = Moved(v, kinds)
    PROVE  MoneyInv'
<1>1. /\ SumFunction(escrow)' = SumFunction(escrow) /\ SumFunction(cash)' = SumFunction(cash)
      /\ WithdrawnTotal' = WithdrawnTotal /\ FeeTotal' = FeeTotal
    BY DEF WithdrawnTotal, FeeTotal, SumFunction
<1>2. \A kind : MovedTotal(kind)' = MovedTotal(kind)
    BY DEF MovedTotal
<1>3. QED
    BY <1>1, <1>2, MoneyIs, MoneyIsNext

\* A drain moves money from the pool to the treasury.
LEMMA DrainedMoneyInv ==
    ASSUME RowsInv, ResolutionInv, MoneyInv, NEW m \in Markets, Drained(m)
    PROVE  MoneyInv'
<1>1. PICK w \in Nat, claims \in Nat :
          /\ ~market[m].drained
          /\ cash' = [cash EXCEPT ![m] = @ - w]
          /\ market' = [market EXCEPT ![m] = [@ EXCEPT !.drained = TRUE, !.withdrawn = w,
                                                       !.claims = claims]]
          /\ escrow' = escrow /\ rows' = rows /\ fees' = fees /\ logs' = logs
    BY DEF Drained
<1>2. /\ cash \in [Markets -> Nat] /\ \A k \in Markets : market[k].withdrawn \in Nat
      /\ market'[m].withdrawn = w /\ market[m].withdrawn = 0
      /\ \A k \in Markets \ {m} : market'[k] = market[k]
    BY <1>1 DEF ResolutionInv, RowsInv, TypeOK
<1>3. SumFunction(cash)' = SumFunction(cash) - w
    <2>1. /\ DOMAIN cash = Markets /\ DOMAIN cash' = Markets /\ -w \in Int
          /\ (\A x \in Markets : cash[x] \in Int) /\ cash'[m] = cash[m] + (-w)
          /\ \A x \in Markets \ {m} : cash'[x] = cash[x]
        BY <1>1, <1>2
    <2>2. SumFunction(cash') = SumFunction(cash) + (-w) /\ SumFunction(cash) \in Int
        BY <2>1, FiniteAssumption, PointSum
    <2>3. QED
        BY <2>2 DEF SumFunction
<1>4. WithdrawnTotal' = WithdrawnTotal + w
    <2> DEFINE h == [k \in Markets |-> market[k].withdrawn]
               new == [k \in Markets |-> market'[k].withdrawn]
    <2>1. /\ DOMAIN h = Markets /\ DOMAIN new = Markets /\ (\A x \in Markets : h[x] \in Int)
          /\ new[m] = h[m] + w /\ \A x \in Markets \ {m} : new[x] = h[x]
        BY <1>2
    <2>2. SumFunction(new) = SumFunction(h) + w
        <3> HIDE DEF h, new
        <3>1. w \in Int
            OBVIOUS
        <3>2. QED
            BY <2>1, <3>1, FiniteAssumption, PointSum
    <2>3. WithdrawnTotal = SumFunction(h) /\ WithdrawnTotal' = SumFunction(new)
        BY DEF WithdrawnTotal
    <2>4. QED
        BY <2>2, <2>3
<1>5. SumFunction(escrow)' = SumFunction(escrow) /\ FeeTotal' = FeeTotal
    BY <1>1 DEF FeeTotal, SumFunction
<1>6. \A kind : MovedTotal(kind)' = MovedTotal(kind)
    BY <1>1 DEF MovedTotal, Moved, EventsOf, EventIds
<1>7. QED
    BY <1>3, <1>4, <1>5, <1>6, MoneyParts, MoneyIs, MoneyIsNext

---------------------------------------------------------------------------
(* The invariant holds initially *)

\* At the start the tables are empty and the pools hold the seeds.
LEMMA InitRows == AccountsInit => RowsInv
<1> SUFFICES ASSUME AccountsInit PROVE RowsInv
    OBVIOUS
<1>1. escrow \in [Traders -> Nat] /\ cash \in [Markets -> Nat]
    BY NumbersAssumption DEF AccountsInit
<1>2. held \in [Traders \X Markets -> [Sides -> Nat]] /\ balance = held
    BY DEF AccountsInit
<1>3. outcome \in [Markets -> Sides \union {Open}]
    BY DEF AccountsInit
<1>4. market \in [Markets -> [result : Sides \union {Open}, drained : BOOLEAN,
                                withdrawn : Nat, claims : Nat]]
    BY DEF AccountsInit, Undrained
<1>5. rows \in [Traders -> Seq(Rows)]
    BY DEF AccountsInit
<1>6. logs = {} /\ fees = {} /\ sent = 0 /\ IsFiniteSet({})
    BY FS_EmptySet DEF AccountsInit
<1>7. TypeOK
    BY <1>1, <1>2, <1>3, <1>4 DEF TypeOK
<1>8. QED
    BY <1>5, <1>6, <1>7 DEF RowsInv

\* Nothing happened yet to anybody.
LEMMA InitEvents ==
    ASSUME AccountsInit, NEW u \in Traders
    PROVE  /\ EventIds(u) = {} /\ EventsOf(u) = {}
           /\ \A kinds : Moved(u, kinds) = 0 /\ Total(rows[u], kinds) = 0
           /\ \A m : ~Redeemed(u, m)
           /\ \A m, s : NetOf(rows[u], m, s) = 0
           /\ \A m, g : Exposure(u, m, g) = NoExposure
<1>1. rows[u] = <<>> /\ logs = {}
    BY DEF AccountsInit
<1>2. EventIds(u) = {}
    BY <1>1 DEF EventIds
<1>3. EventsOf(u) = {}
    BY <1>1, <1>2 DEF EventsOf
<1>4. ASSUME NEW kinds PROVE Moved(u, kinds) = 0
    <2> DEFINE h == [e \in EventsOf(u) |-> AmountIn(e, kinds)]
    <2>1. DOMAIN h = {}
        BY <1>3
    <2>2. SumFunction(h) = 0
        <3> HIDE DEF h
        <3>1. QED
            BY <2>1, SumsEmpty DEF SumFunction
    <2>3. QED
        BY <2>2 DEF Moved
<1>5. QED
    BY <1>1, <1>2, <1>3, <1>4, EmptySums, TradesOfNone DEF Redeemed, Exposure

\* Nobody holds anything at the start.
LEMMA InitPosition == AccountsInit => PositionInv
<1> SUFFICES ASSUME AccountsInit, NEW u \in Traders, NEW m \in Markets, NEW s \in Sides
             PROVE  /\ Exposure(u, m, GroupOf(m, s)).shares[s] = NetOf(rows[u], m, s)
                    /\ \A t \in Sides \ GroupOf(m, s) :
                           Exposure(u, m, GroupOf(m, s)).shares[t] = 0
                    /\ held[<<u, m>>][s] =
                           IF Redeemed(u, m) /\ s = outcome[m] THEN 0 ELSE NetOf(rows[u], m, s)
                    /\ ~Redeemed(u, m) => balance[<<u, m>>][s] = NetOf(rows[u], m, s)
    BY DEF PositionInv
<1>1. /\ Exposure(u, m, GroupOf(m, s)) = NoExposure
      /\ NetOf(rows[u], m, s) = 0 /\ ~Redeemed(u, m)
    BY InitEvents
<1>2. held[<<u, m>>][s] = 0 /\ balance[<<u, m>>][s] = 0
    BY DEF AccountsInit
<1>3. \A t \in Sides : NoExposure.shares[t] = 0
    BY DEF NoExposure
<1>4. QED
    BY <1>1, <1>2, <1>3

\* The pools hold their seeds.
LEMMA InitPool == AccountsInit => PoolInv
<1> SUFFICES ASSUME AccountsInit, NEW m \in Markets
             PROVE  /\ cash[m] = Seed - CashFlowOf(m) - FeesOf(m) - market[m].withdrawn - Paid(m)
                    /\ outcome[m] = Open => Covered(held, m, cash[m])
                    /\ outcome[m] # Open => Outstanding(held, m, outcome[m]) <= cash[m]
    BY DEF PoolInv
<1>1. cash[m] = Seed /\ outcome[m] = Open /\ market[m].withdrawn = 0 /\ Seed \in Nat
    BY NumbersAssumption DEF AccountsInit, Undrained
<1>2. ASSUME NEW u \in Traders PROVE TraderFlow(u, m) = 0
    <2> DEFINE h == [g \in Groups(m) |-> Exposure(u, m, g).cashFlow]
    <2>1. \A g \in Groups(m) : h[g] = 0
        BY InitEvents DEF NoExposure
    <2>2. DOMAIN h = Groups(m) /\ IsFiniteSet(Groups(m))
        BY GroupsFinite
    <2>3. SumFunction(h) = 0
        <3> HIDE DEF h
        <3>1. QED
            BY <2>1, <2>2, ZeroSum
    <2>4. QED
        BY <2>3 DEF TraderFlow
<1>3. CashFlowOf(m) = 0
    <2> DEFINE h == [u \in Traders |-> TraderFlow(u, m)]
    <2>1. DOMAIN h = Traders /\ \A u \in Traders : h[u] = 0
        BY <1>2
    <2>2. SumFunction(h) = 0
        <3> HIDE DEF h
        <3>1. QED
            BY <2>1, FiniteAssumption, ZeroSum
    <2>3. QED
        BY <2>2 DEF CashFlowOf, TraderFlow
<1>4. FeesOf(m) = 0
    <2> DEFINE h == [fee \in {x \in fees : x.market = m} |-> fee.amount]
    <2>1. DOMAIN h = {}
        BY DEF AccountsInit
    <2>2. SumFunction(h) = 0
        <3> HIDE DEF h
        <3>1. QED
            BY <2>1, SumsEmpty DEF SumFunction
    <2>3. QED
        BY <2>2 DEF FeesOf
<1>5. Paid(m) = 0
    BY <1>1 DEF Paid
<1>6. ASSUME NEW s \in Sides PROVE Outstanding(held, m, s) = 0
    <2> DEFINE h == [u \in Traders |-> held[<<u, m>>][s]]
    <2>1. DOMAIN h = Traders /\ \A u \in Traders : h[u] = 0
        BY DEF AccountsInit
    <2>2. SumFunction(h) = 0
        <3> HIDE DEF h
        <3>1. QED
            BY <2>1, FiniteAssumption, ZeroSum
    <2>3. QED
        BY <2>2 DEF Outstanding
<1>7. Covered(held, m, cash[m])
    BY <1>1, <1>6 DEF Covered
<1>8. QED
    BY <1>1, <1>3, <1>4, <1>5, <1>7

\* The escrows hold the endowment.
LEMMA InitMoney == AccountsInit => LedgerInv /\ MoneyInv
<1> SUFFICES ASSUME AccountsInit PROVE LedgerInv /\ MoneyInv
    OBVIOUS
<1>1. LedgerInv
    <2>1. ASSUME NEW u \in Traders
          PROVE  escrow[u] = Endowment + Total(rows[u], {"sell"}) - Total(rows[u], {"buy"})
                               + Moved(u, {"deposit", "redemption"}) - Moved(u, {"withdraw"})
        <3>1. escrow[u] = Endowment /\ Endowment \in Nat
            BY NumbersAssumption DEF AccountsInit
        <3>2. \A kinds : Moved(u, kinds) = 0 /\ Total(rows[u], kinds) = 0
            BY InitEvents
        <3>3. QED
            BY <3>1, <3>2
    <2>2. QED
        BY <2>1 DEF LedgerInv
<1>2. SumFunction(escrow) = Endowment * Cardinality(Traders)
    <2>1. DOMAIN escrow = Traders /\ (\A x \in Traders : escrow[x] = Endowment) /\ Endowment \in Int
        BY NumbersAssumption DEF AccountsInit
    <2>2. QED
        BY <2>1, FiniteAssumption, ConstantSum
<1>3. SumFunction(cash) = Seed * Cardinality(Markets)
    <2>1. DOMAIN cash = Markets /\ (\A x \in Markets : cash[x] = Seed) /\ Seed \in Int
        BY NumbersAssumption DEF AccountsInit
    <2>2. QED
        BY <2>1, FiniteAssumption, ConstantSum
<1>4. WithdrawnTotal = 0
    <2> DEFINE h == [m \in Markets |-> market[m].withdrawn]
    <2>1. DOMAIN h = Markets /\ \A x \in Markets : h[x] = 0
        BY DEF AccountsInit, Undrained
    <2>2. SumFunction(h) = 0
        <3> HIDE DEF h
        <3>1. QED
            BY <2>1, FiniteAssumption, ZeroSum
    <2>3. QED
        BY <2>2 DEF WithdrawnTotal
<1>5. FeeTotal = 0
    <2> DEFINE h == [fee \in fees |-> fee.amount]
    <2>1. DOMAIN h = {}
        BY DEF AccountsInit
    <2>2. SumFunction(h) = 0
        <3> HIDE DEF h
        <3>1. QED
            BY <2>1, SumsEmpty DEF SumFunction
    <2>3. QED
        BY <2>2 DEF FeeTotal
<1>6. ASSUME NEW kind PROVE MovedTotal(kind) = 0
    <2> DEFINE h == [u \in Traders |-> Moved(u, {kind})]
    <2>1. DOMAIN h = Traders /\ \A x \in Traders : h[x] = 0
        BY InitEvents
    <2>2. SumFunction(h) = 0
        <3> HIDE DEF h
        <3>1. QED
            BY <2>1, FiniteAssumption, ZeroSum
    <2>3. QED
        BY <2>2 DEF MovedTotal
<1>7. Endowment * Cardinality(Traders) \in Int /\ Seed * Cardinality(Markets) \in Int
    <2>1. Cardinality(Traders) \in Nat /\ Cardinality(Markets) \in Nat
        BY FiniteAssumption, FS_CardinalityType
    <2>2. QED
        BY <2>1, NumbersAssumption
<1>8. MovedTotal("deposit") = 0 /\ MovedTotal("withdraw") = 0
    BY <1>6
<1>9. SumFunction(escrow) + SumFunction(cash) + WithdrawnTotal + FeeTotal =
          Endowment * Cardinality(Traders) + Seed * Cardinality(Markets)
            + MovedTotal("deposit") - MovedTotal("withdraw")
    BY <1>2, <1>3, <1>4, <1>5, <1>7, <1>8
<1>10. QED
    BY <1>1, <1>9, MoneyIs

\* The invariant holds at the start.
LEMMA InitAccounts == AccountsInit => AccountsInv
<1> SUFFICES ASSUME AccountsInit PROVE AccountsInv
    OBVIOUS
<1>1. EventsInv
    BY InitEvents DEF EventsInv
<1>2. ResolutionInv
    <2>1. /\ logs = {}
          /\ \A m \in Markets : outcome[m] = Open /\ market[m] = Undrained
        BY DEF AccountsInit
    <2>2. QED
        BY <2>1 DEF ResolutionInv, Undrained
<1>3. QED
    BY <1>1, <1>2, InitRows, InitPosition, InitPool, InitMoney DEF AccountsInv

---------------------------------------------------------------------------
(* Every step keeps the invariant *)

\* Every action keeps the invariant.
LEMMA TradeKeeps ==
    ASSUME AccountsInv, NEW u \in Traders, NEW m \in Markets, NEW s \in Sides,
           NEW kind \in {"buy", "sell"}, NEW q \in Quantity, NEW f \in Nat,
           Trade(u, m, s, kind, q, f)
    PROVE  AccountsInv'
<1>1. /\ RowsInv /\ EventsInv /\ ResolutionInv /\ PositionInv /\ PoolInv /\ LedgerInv /\ MoneyInv
    BY DEF AccountsInv
<1>2. Traded(u, m, s, kind, q, f)
    BY <1>1, TradeEffect
<1>3. FeeCollected(m, f)
    BY DEF Trade
<1>4. RowsInv'
    BY <1>1, TradeRows
<1>5. EventsInv'
    BY <1>1, <1>2, TradeEventsInv
<1>6. ResolutionInv'
    <2>1. outcome' = outcome /\ market' = market /\ logs' = logs
        BY <1>2 DEF Traded
    <2>2. QED
        BY <1>1, <2>1, KeepResolutionInv
<1>7. PositionInv'
    BY <1>1, <1>2, TradePositionInv
<1>8. PoolInv'
    BY <1>1, <1>2, <1>3, <1>4, TradePoolInv
<1>9. LedgerInv'
    BY <1>1, <1>2, TradeLedgerInv
<1>10. MoneyInv'
    BY <1>1, <1>2, <1>3, TradeMoneyInv
<1>11. QED
    BY <1>4, <1>5, <1>6, <1>7, <1>8, <1>9, <1>10 DEF AccountsInv

\* A deposit or a withdrawal does.
LEMMA TransferKeeps ==
    ASSUME AccountsInv, NEW u \in Traders, DepositUsdc(u) \/ WithdrawUsdc(u)
    PROVE  AccountsInv'
<1>1. /\ RowsInv /\ EventsInv /\ ResolutionInv /\ PositionInv /\ PoolInv /\ LedgerInv /\ MoneyInv
    BY DEF AccountsInv
<1>2. RowsInv'
    BY <1>1, TransferRows
<1>3. PICK e \in Events : Transferred(u, e)
    BY <1>1, TransferEffect
<1>4. /\ e.user = u /\ e.kind \in {"deposit", "withdraw"} /\ e \notin EventsOf(u)
      /\ escrow' = [escrow EXCEPT ![u] =
                        @ + IF e.kind = "deposit" THEN e.amount ELSE -e.amount]
      /\ logs' = logs \union {e} /\ held' = held /\ cash' = cash /\ outcome' = outcome
      /\ rows' = rows /\ fees' = fees /\ balance' = balance /\ market' = market
    BY <1>3 DEF Transferred
<1>5. /\ EventsInv'
      /\ \A v \in Traders, m \in Markets : Redeemed(v, m)' = Redeemed(v, m)
    BY <1>1, <1>2, <1>3, TransferEventsInv
<1>6. ResolutionInv'
    <2>1. \A log : log.kind = "resolved" => (log \in logs' <=> log \in logs)
        BY <1>4
    <2>2. QED
        BY <1>1, <1>4, <2>1, KeepResolutionInv
<1>7. \A v \in Traders : /\ \A k, g : FoldTrades(rows'[v], k, g) = FoldTrades(rows[v], k, g)
                         /\ \A k, t : NetOf(rows'[v], k, t) = NetOf(rows[v], k, t)
    BY <1>4
<1>8. PositionInv'
    BY <1>1, <1>4, <1>5, <1>7, KeepPositionInv
<1>9. PoolInv'
    BY <1>1, <1>4, <1>7, KeepPoolInv
<1>10. LedgerInv'
    <2>1. escrow' = [escrow EXCEPT ![u] =
                         @ + IF e.kind = "withdraw" THEN -e.amount ELSE e.amount]
        BY <1>4
    <2>2. QED
        BY <1>1, <1>2, <1>4, <2>1, EmitLedgerInv
<1>11. MoneyInv'
    BY <1>1, <1>2, <1>3, TransferMoneyInv
<1>12. QED
    BY <1>2, <1>5, <1>6, <1>8, <1>9, <1>10, <1>11 DEF AccountsInv

\* A resolution does.
LEMMA ResolveKeeps ==
    ASSUME AccountsInv, NEW m \in Markets, NEW s \in Sides, Resolve(m, s)
    PROVE  AccountsInv'
<1>1. /\ RowsInv /\ EventsInv /\ ResolutionInv /\ PositionInv /\ PoolInv /\ LedgerInv /\ MoneyInv
    BY DEF AccountsInv
<1>2. RowsInv'
    BY <1>1, ResolveRows
<1>3. /\ EventsInv'
      /\ \A v \in Traders : EventsOf(v)' = EventsOf(v)
    BY <1>1, ResolveEventsInv
<1>4. \A kinds : \A v \in Traders : Moved(v, kinds)' = Moved(v, kinds)
    BY <1>3 DEF Moved
<1>5. escrow' = escrow /\ cash' = cash /\ fees' = fees /\ rows' = rows /\ market' = market
    BY DEF Resolve
<1>6. LedgerInv'
    BY <1>1, <1>4, <1>5, KeepLedgerInv
<1>7. MoneyInv'
    BY <1>1, <1>4, <1>5, KeepMoneyInv
<1>8. ResolutionInv' /\ PositionInv' /\ PoolInv'
    BY <1>1, ResolveResolutionInv, ResolvePositionInv, ResolvePoolInv
<1>9. QED
    BY <1>2, <1>3, <1>6, <1>7, <1>8 DEF AccountsInv

\* A redemption does.
LEMMA RedeemKeeps ==
    ASSUME AccountsInv, NEW u \in Traders, NEW m \in Markets, Redeem(u, m)
    PROVE  AccountsInv'
<1>1. /\ RowsInv /\ EventsInv /\ ResolutionInv /\ PositionInv /\ PoolInv /\ LedgerInv /\ MoneyInv
    BY DEF AccountsInv
<1>2. RedeemDone(u, m)
    BY <1>1, RedeemEffect
<1>3. RowsInv'
    BY <1>1, <1>2, RedeemRows
<1>4. EventsInv'
    BY <1>1, <1>2, <1>3, RedeemEventsInv
<1> DEFINE e == Log("redemption", u, m, held[<<u, m>>][outcome[m]])
<1>5. /\ e \in Events /\ e.user = u /\ e.kind = "redemption" /\ e \notin EventsOf(u)
      /\ escrow' = [escrow EXCEPT ![u] = @ + e.amount] /\ logs' = logs \union {e}
      /\ outcome' = outcome /\ market' = market /\ rows' = rows
    BY <1>2 DEF RedeemDone
<1> HIDE DEF e
<1>6. ResolutionInv'
    <2>1. \A log : log.kind = "resolved" => (log \in logs' <=> log \in logs)
        BY <1>5
    <2>2. QED
        BY <1>1, <1>5, <2>1, KeepResolutionInv
<1>7. LedgerInv'
    <2>1. escrow' = [escrow EXCEPT ![u] =
                         @ + IF e.kind = "withdraw" THEN -e.amount ELSE e.amount]
        BY <1>5
    <2>2. QED
        BY <1>1, <1>3, <1>5, <2>1, EmitLedgerInv
<1>8. PositionInv' /\ PoolInv' /\ MoneyInv'
    BY <1>1, <1>2, <1>3, RedeemPositionInv, RedeemPoolInv, RedeemMoneyInv
<1>9. QED
    BY <1>3, <1>4, <1>6, <1>7, <1>8 DEF AccountsInv

\* A handler does, in whatever order and however often it runs.
LEMMA HandleKeeps ==
    ASSUME AccountsInv, NEW log \in logs, Handle(log)
    PROVE  AccountsInv'
<1>1. /\ RowsInv /\ EventsInv /\ ResolutionInv /\ PositionInv /\ PoolInv /\ LedgerInv /\ MoneyInv
    BY DEF AccountsInv
<1>2. Handled(log)
    BY <1>1, HandleEffect
<1>3. RowsInv' /\ EventsInv' /\ ResolutionInv' /\ PositionInv' /\ PoolInv'
    BY <1>1, <1>2, HandledRows, HandledEventsInv, HandledResolutionInv, HandledPositionInv,
       HandledPoolInv
<1>4. cash' = cash /\ fees' = fees /\ escrow' = escrow
    BY <1>2 DEF Handled
<1>5. \A m \in Markets : market'[m].withdrawn = market[m].withdrawn
    <2>1. CASE ResolvedHandled(log)
        BY <1>1, <2>1 DEF ResolvedHandled, RowsInv, TypeOK
    <2>2. CASE market' = market
        BY <2>2
    <2>3. QED
        BY <1>2, <2>1, <2>2 DEF Handled, TransferHandled, RedeemedHandled
<1>6. \A v \in Traders : /\ \A kinds : Moved(v, kinds)' = Moved(v, kinds)
                         /\ Total(rows'[v], {"sell"}) = Total(rows[v], {"sell"})
                         /\ Total(rows'[v], {"buy"}) = Total(rows[v], {"buy"})
    <2>1. {"sell"} \in SUBSET {"buy", "sell"} /\ {"buy"} \in SUBSET {"buy", "sell"}
        OBVIOUS
    <2>2. QED
        BY <1>1, <1>2, <2>1, HandledEvents
<1>7. LedgerInv'
    BY <1>1, <1>4, <1>6, KeepLedgerInv
<1>8. MoneyInv'
    BY <1>1, <1>4, <1>5, <1>6, KeepMoneyInv
<1>9. QED
    BY <1>3, <1>7, <1>8 DEF AccountsInv

\* A drain does.
LEMMA DrainKeeps ==
    ASSUME AccountsInv, NEW m \in Markets, NEW buffer \in Nat, Drain(m, buffer)
    PROVE  AccountsInv'
<1>1. /\ RowsInv /\ EventsInv /\ ResolutionInv /\ PositionInv /\ PoolInv /\ LedgerInv /\ MoneyInv
    BY DEF AccountsInv
<1>2. Drained(m)
    BY <1>1, DrainEffect
<1>3. RowsInv' /\ ResolutionInv' /\ PoolInv' /\ MoneyInv'
    BY <1>1, <1>2, DrainedRows, DrainedResolutionInv, DrainedPoolInv, DrainedMoneyInv
<1>4. UNCHANGED <<escrow, held, outcome, logs, rows, balance, sent>>
    BY <1>2 DEF Drained
<1>5. /\ \A v \in Traders : EventsOf(v)' = EventsOf(v) /\ EventIds(v)' = EventIds(v)
      /\ \A v \in Traders : \A kinds : Moved(v, kinds)' = Moved(v, kinds)
      /\ \A v \in Traders, k \in Markets : Redeemed(v, k)' = Redeemed(v, k)
    <2>1. \A v \in Traders : EventIds(v)' = EventIds(v)
        BY <1>4 DEF EventIds
    <2>2. \A v \in Traders : EventsOf(v)' = EventsOf(v)
        BY <1>4, <2>1 DEF EventsOf
    <2>3. QED
        BY <2>1, <2>2 DEF Moved, Redeemed
<1>6. EventsInv'
    BY <1>1, <1>4, <1>5 DEF EventsInv
<1>7. PositionInv'
    BY <1>1, <1>4, <1>5, KeepPositionInv
<1>8. LedgerInv'
    BY <1>1, <1>4, <1>5, KeepLedgerInv
<1>9. QED
    BY <1>3, <1>6, <1>7, <1>8 DEF AccountsInv

\* And so does a step of somebody else.
LEMMA StutterKeeps == AccountsInv /\ UNCHANGED accountsVars => AccountsInv'
<1> SUFFICES ASSUME AccountsInv, UNCHANGED accountsVars PROVE AccountsInv'
    OBVIOUS
<1>1. /\ RowsInv /\ EventsInv /\ ResolutionInv /\ PositionInv /\ PoolInv /\ LedgerInv /\ MoneyInv
    BY DEF AccountsInv
<1>2. UNCHANGED <<escrow, held, cash, outcome, logs, rows, fees, balance, market, sent>>
    BY DEF accountsVars
<1>3. RowsInv'
    BY <1>1, <1>2 DEF RowsInv, TypeOK
<1>4. /\ \A v \in Traders : EventsOf(v)' = EventsOf(v) /\ EventIds(v)' = EventIds(v)
      /\ \A v \in Traders : \A kinds : Moved(v, kinds)' = Moved(v, kinds)
      /\ \A v \in Traders, k \in Markets : Redeemed(v, k)' = Redeemed(v, k)
    <2>1. \A v \in Traders : EventIds(v)' = EventIds(v)
        BY <1>2 DEF EventIds
    <2>2. \A v \in Traders : EventsOf(v)' = EventsOf(v)
        BY <1>2, <2>1 DEF EventsOf
    <2>3. QED
        BY <2>1, <2>2 DEF Moved, Redeemed
<1>5. EventsInv'
    BY <1>1, <1>2, <1>4 DEF EventsInv
<1>6. ResolutionInv'
    BY <1>1, <1>2, KeepResolutionInv
<1>7. PositionInv'
    BY <1>1, <1>2, <1>4, KeepPositionInv
<1>8. PoolInv'
    BY <1>1, <1>2, KeepPoolInv
<1>9. LedgerInv' /\ MoneyInv'
    BY <1>1, <1>2, <1>4, KeepLedgerInv, KeepMoneyInv
<1>10. QED
    BY <1>3, <1>5, <1>6, <1>7, <1>8, <1>9 DEF AccountsInv

\* The invariant is inductive.
LEMMA StepKeeps == AccountsInv /\ [AccountsNext]_accountsVars => AccountsInv'
<1> SUFFICES ASSUME AccountsInv, [AccountsNext]_accountsVars PROVE AccountsInv'
    OBVIOUS
<1>1. CASE TraderStep
    <2>1. PICK u \in Traders :
              \/ \E m \in Markets : Redeem(u, m)
              \/ \E m \in {x \in Markets : <<u, x>> \in Trading}, s \in Sides, f \in Fees :
                     \/ \E q \in Bought : Buy(u, m, s, q, f)
                     \/ \E q \in Sold : Sell(u, m, s, q, f)
              \/ DepositUsdc(u) \/ WithdrawUsdc(u)
        BY <1>1 DEF TraderStep
    <2>2. CASE \E m \in Markets : Redeem(u, m)
        BY <2>2, RedeemKeeps
    <2>3. CASE \E m \in {x \in Markets : <<u, x>> \in Trading}, s \in Sides, f \in Fees :
                   \/ \E q \in Bought : Buy(u, m, s, q, f)
                   \/ \E q \in Sold : Sell(u, m, s, q, f)
        <3>1. PICK m \in Markets, s \in Sides, f \in Fees :
                  \/ \E q \in Bought : Buy(u, m, s, q, f)
                  \/ \E q \in Sold : Sell(u, m, s, q, f)
            BY <2>3
        <3>2. f \in Nat /\ Bought \subseteq Quantity /\ Sold \subseteq Quantity
            BY NumbersAssumption DEF Quantity
        <3>3. PICK kind \in {"buy", "sell"}, q \in Quantity : Trade(u, m, s, kind, q, f)
            BY <3>1, <3>2 DEF Buy, Sell
        <3>4. QED
            BY <3>2, <3>3, TradeKeeps
    <2>4. CASE DepositUsdc(u) \/ WithdrawUsdc(u)
        BY <2>4, TransferKeeps
    <2>5. QED
        BY <2>1, <2>2, <2>3, <2>4
<1>2. CASE \E m \in Markets, s \in Sides : Resolve(m, s)
    BY <1>2, ResolveKeeps
<1>3. CASE \E m \in Markets, b \in Buffers : Drain(m, b)
    <2>1. Buffers \subseteq Nat
        BY NumbersAssumption
    <2>2. QED
        BY <1>3, <2>1, DrainKeeps
<1>4. CASE \E log \in logs : Handle(log)
    BY <1>4, HandleKeeps
<1>5. CASE UNCHANGED accountsVars
    BY <1>5, StutterKeeps
<1>6. QED
    BY <1>1, <1>2, <1>3, <1>4, <1>5 DEF AccountsNext

\* Always, what traders hold on chain, what their position rows say and what
\* their trades leave are the same until it is redeemed; every pool holds
\* what its trades paid in, less what was paid out of it; and every unit of
\* money is accounted for. Every action of trading.ts, range-markets.ts, the
\* indexer's handlers and the drain worker keeps it so.
THEOREM AccountsInvariant == AccountsSpec => []AccountsInv
<1>1. QED
    BY InitAccounts, StepKeeps, PTL DEF AccountsSpec

---------------------------------------------------------------------------
(* Winnings are shown *)

\* The invariant in its parts.
LEMMA AccountsParts ==
    ASSUME AccountsInv
    PROVE  /\ RowsInv /\ EventsInv /\ ResolutionInv /\ PositionInv
           /\ PoolInv /\ LedgerInv /\ MoneyInv /\ TypeOK
BY DEF AccountsInv, RowsInv

\* A market known to be resolved is known to be resolved as it was.
LEMMA ResolvedAs ==
    ASSUME AccountsInv, NEW m \in Resolved
    PROVE  /\ m \in Markets /\ market[m].result = outcome[m] /\ outcome[m] \in Sides
           /\ outcome[m] # Open
<1>1. m \in Markets /\ market[m].result # Open
    BY DEF Resolved
<1>2. market[m].result \in {Open, outcome[m]}
    BY <1>1, AccountsParts DEF ResolutionInv
<1>3. outcome[m] \in Sides \union {Open}
    BY <1>1, AccountsParts DEF TypeOK
<1>4. QED
    BY <1>1, <1>2, <1>3

\* What is still to be redeemed is what the trades left, in every account.
LEMMA StillHeld ==
    ASSUME AccountsInv, NEW u \in Traders, NEW m \in Resolved,
           held[<<u, m>>][outcome[m]] > 0
    PROVE  /\ held[<<u, m>>][outcome[m]] \in Nat
           /\ balance[<<u, m>>][outcome[m]] = held[<<u, m>>][outcome[m]]
           /\ NetOf(rows[u], m, outcome[m]) = held[<<u, m>>][outcome[m]]
<1> DEFINE o == outcome[m]
<1>1. m \in Markets /\ o \in Sides
    BY ResolvedAs
<1>2. /\ held[<<u, m>>][o] =
             IF Redeemed(u, m) /\ o = outcome[m] THEN 0 ELSE NetOf(rows[u], m, o)
      /\ ~Redeemed(u, m) => balance[<<u, m>>][o] = NetOf(rows[u], m, o)
    BY <1>1, AccountsParts DEF PositionInv
<1>3. held[<<u, m>>][o] \in Nat
    BY <1>1, AccountsParts DEF TypeOK
<1>4. ~Redeemed(u, m)
    BY <1>2, <1>3
<1>5. QED
    BY <1>2, <1>3, <1>4

\* The invariant implies that winnings are shown.
LEMMA WinningsFollow == AccountsInv => WinningsShown
<1> SUFFICES ASSUME AccountsInv, NEW u \in Traders, NEW m \in Resolved,
                    held[<<u, m>>][outcome[m]] > 0
             PROVE  /\ balance[<<u, m>>][outcome[m]] >= held[<<u, m>>][outcome[m]]
                    /\ m \in Ranged => RangeRedeemOffered(u, m)
                    /\ \E p \in Portfolio(u) :
                           /\ p.market = m /\ p.shares >= held[<<u, m>>][outcome[m]]
                           /\ RedeemOffered(p)
    BY DEF WinningsShown
<1> DEFINE o == outcome[m]
           won == held[<<u, m>>][o]
           g == GroupOf(m, o)
<1>1. m \in Markets /\ market[m].result = o /\ o \in Sides /\ o # Open
    BY ResolvedAs
<1>2. won \in Nat /\ won > 0 /\ balance[<<u, m>>][o] = won /\ NetOf(rows[u], m, o) = won
    BY StillHeld
<1> DEFINE foldedShares == FoldTrades(Reverse(rows[u]), m, g).shares[o]
<1>3. Held(u, m, o) = foldedShares /\ foldedShares >= won /\ foldedShares \in Nat
    <2>1. rows[u] \in Seq(Rows)
        BY AccountsParts DEF RowsInv
    <2>2. Reverse(rows[u]) \in Seq(Rows) /\ NetOf(Reverse(rows[u]), m, o) = won
        BY <1>2, <2>1, RowsReverse, NetReverse
    <2>3. o \in g
        BY <1>1, GroupsOf
    <2>4. NetOf(Reverse(rows[u]), m, o) <= foldedShares
        BY <1>1, <2>2, <2>3, TradesCoverNet
    <2>5. FoldTrades(Reverse(rows[u]), m, g) \in Exposures
        BY <2>2, TradesType
    <2>6. foldedShares \in Nat
        BY <1>1, <2>5 DEF Exposures
    <2>7. Held(u, m, o) = foldedShares
        BY DEF Held, Shown
    <2>8. QED
        BY <1>2, <2>2, <2>4, <2>6, <2>7
<1>4. \E p \in Portfolio(u) : p.market = m /\ p.shares >= won /\ RedeemOffered(p)
    <2> DEFINE key == <<m, o>>
               keys == {k \in Markets \X Sides : Held(u, k[1], k[2]) > 0}
               p == [market |-> key[1], side |-> key[2], shares |-> Held(u, key[1], key[2]),
                     redeemed |-> /\ key[1] \in Binary /\ market[key[1]].result = key[2]
                                  /\ balance[<<u, key[1]>>][key[2]] = 0]
    <2>1. key \in keys
        BY <1>1, <1>2, <1>3
    <2>2. p \in Portfolio(u)
        <3> HIDE DEF key
        <3>1. QED
            BY <2>1 DEF Portfolio
    <2>3. p.market = m /\ p.shares >= won /\ RedeemOffered(p)
        BY <1>1, <1>2, <1>3 DEF RedeemOffered
    <2>4. QED
        BY <2>2, <2>3
<1>5. m \in Ranged => RangeRedeemOffered(u, m)
    BY <1>1, <1>2 DEF RangeRedeemOffered
<1>6. QED
    BY <1>2, <1>4, <1>5

\* Always, what a trader has still to redeem in a market known to be
\* resolved is on the portfolio (portfolio.ts) in full with the offer to
\* redeem it, and offered on a range market's page, whatever was handled in
\* whatever order.
THEOREM TradersSeeWinnings == AccountsSpec => []WinningsShown
<1>1. QED
    BY AccountsInvariant, WinningsFollow, PTL

---------------------------------------------------------------------------
(* The profit of the house *)

\* What a trader won in a market, whatever it is kept by.
TraderWon(u, m) == SumFunction([g \in Groups(m) |-> SettlementValue(Exposure(u, m, g), m)])

\* What the exposures of a trader are worth is what the trades left of the
\* winning side, since only one group has it.
LEMMA WonIsNet ==
    ASSUME AccountsInv, NEW u \in Traders, NEW m \in Resolved
    PROVE  /\ \A g \in Groups(m) : /\ SettlementValue(Exposure(u, m, g), m) \in Nat
                                   /\ Exposure(u, m, g) \in Exposures
           /\ TraderWon(u, m) = NetOf(rows[u], m, outcome[m])
<1> DEFINE o == outcome[m]
<1>1. m \in Markets /\ market[m].result = o /\ o \in Sides /\ o # Open
    BY ResolvedAs
<1>2. \A g : SettlementValue(Exposure(u, m, g), m) = Exposure(u, m, g).shares[o]
    BY <1>1 DEF SettlementValue
<1>3. ASSUME NEW g PROVE Exposure(u, m, g) \in Exposures /\ Exposure(u, m, g).shares[o] \in Nat
    <2>1. rows[u] \in Seq(Rows)
        BY AccountsParts DEF RowsInv
    <2>2. Exposure(u, m, g) \in Exposures
        BY <2>1, TradesType DEF Exposure
    <2>3. QED
        BY <1>1, <2>2 DEF Exposures
<1> DEFINE h == [g \in Groups(m) |-> SettlementValue(Exposure(u, m, g), m)]
           mine == GroupOf(m, o)
<1>4. IsFiniteSet(Groups(m)) /\ mine \in Groups(m) /\ DOMAIN h = Groups(m)
    BY <1>1, GroupsFinite, GroupsOf
<1>5. h[mine] = NetOf(rows[u], m, o) /\ h[mine] \in Int
    <2>1. h[mine] = Exposure(u, m, mine).shares[o]
        BY <1>2, <1>4
    <2>2. Exposure(u, m, mine).shares[o] = NetOf(rows[u], m, o)
        BY <1>1, AccountsParts DEF PositionInv
    <2>3. Exposure(u, m, mine).shares[o] \in Nat
        BY <1>3
    <2>4. QED
        BY <2>1, <2>2, <2>3
<1>6. ASSUME NEW g \in Groups(m) \ {mine} PROVE h[g] = 0
    <2>1. PICK s \in Sides : g = GroupOf(m, s)
        BY DEF Groups
    <2>2. o \notin g
        BY <1>1, <2>1, GroupsFinite
    <2>3. \A t \in Sides \ GroupOf(m, s) : Exposure(u, m, GroupOf(m, s)).shares[t] = 0
        BY <1>1, AccountsParts DEF PositionInv
    <2>4. h[g] = Exposure(u, m, g).shares[o]
        BY <1>2
    <2>5. QED
        <3> HIDE DEF h
        <3>1. QED
            BY <1>1, <2>1, <2>2, <2>3, <2>4
<1>7. SumFunction(h) = h[mine]
    <2> HIDE DEF h, mine
    <2>1. QED
        BY <1>4, <1>5, <1>6, SingleSum
<1>8. QED
    BY <1>2, <1>3, <1>5, <1>7 DEF TraderWon

\* What traders who are still exposed made, and the others.
TraderRealised(u, m) ==
    SumFunction([g \in Groups(m) |-> RealisedPnl(Exposure(u, m, g), m)])
TraderExited(u, m) ==
    SumFunction([g \in {x \in Groups(m) : ~HasExposure(Exposure(u, m, x))} |->
        Exposure(u, m, g).cashFlow])

\* What a trader who is still exposed made, and what the others did, are all
\* there is.
LEMMA RealisedOrExited ==
    ASSUME AccountsInv, NEW u \in Traders, NEW m \in Resolved
    PROVE  /\ TraderRealised(u, m) \in Int /\ TraderExited(u, m) \in Int
           /\ TraderRealised(u, m) + TraderExited(u, m) =
                  TraderFlow(u, m) + NetOf(rows[u], m, outcome[m])
<1> DEFINE G == Groups(m)
           E(g) == Exposure(u, m, g)
           flow == [g \in G |-> E(g).cashFlow]
           won == [g \in G |-> SettlementValue(E(g), m)]
           real == [g \in G |-> RealisedPnl(E(g), m)]
           exited == [g \in {x \in G : ~HasExposure(E(x))} |-> E(g).cashFlow]
           left == [g \in G |-> IF HasExposure(E(g)) THEN 0 ELSE E(g).cashFlow]
           all == [g \in G |-> E(g).cashFlow + SettlementValue(E(g), m)]
<1>1. m \in Markets /\ market[m].result = outcome[m] /\ outcome[m] \in Sides /\ outcome[m] # Open
    BY ResolvedAs
<1>2. IsFiniteSet(G)
    BY <1>1, GroupsFinite
<1>3. ASSUME NEW g \in G
      PROVE  /\ E(g).cashFlow \in Int /\ SettlementValue(E(g), m) \in Nat
             /\ ~HasExposure(E(g)) => SettlementValue(E(g), m) = 0
    <2>1. E(g) \in Exposures /\ SettlementValue(E(g), m) \in Nat
        BY WonIsNet
    <2>2. ~HasExposure(E(g)) => SettlementValue(E(g), m) = 0
        <3>1. E(g).shares[outcome[m]] \in Nat
            BY <1>1, <2>1 DEF Exposures
        <3>2. SettlementValue(E(g), m) = E(g).shares[outcome[m]]
            BY <1>1 DEF SettlementValue
        <3>3. QED
            BY <1>1, <3>1, <3>2 DEF HasExposure
    <2>3. QED
        BY <2>1, <2>2 DEF Exposures
<1>4. \A g \in G : RealisedPnl(E(g), m) =
          IF HasExposure(E(g)) THEN E(g).cashFlow + SettlementValue(E(g), m) ELSE 0
    BY DEF RealisedPnl
<1> HIDE DEF E
<1>5. SumFunction(all) = SumFunction(flow) + SumFunction(won)
    <2>1. /\ DOMAIN all = G /\ DOMAIN flow = G /\ DOMAIN won = G
          /\ \A g \in G : flow[g] \in Int /\ won[g] \in Int /\ all[g] = flow[g] + won[g]
        BY <1>3
    <2>2. QED
        <3> HIDE DEF all, flow, won, G
        <3>1. QED
            BY <1>2, <2>1, PlusSum
<1>6. SumFunction(all) = SumFunction(real) + SumFunction(left)
    <2>1. DOMAIN all = G /\ DOMAIN real = G /\ DOMAIN left = G
        OBVIOUS
    <2>2. ASSUME NEW g \in G
          PROVE  real[g] \in Int /\ left[g] \in Int /\ all[g] = real[g] + left[g]
        <3>1. CASE HasExposure(E(g))
            BY <1>3, <1>4, <3>1
        <3>2. CASE ~HasExposure(E(g))
            BY <1>3, <1>4, <3>2
        <3>3. QED
            BY <3>1, <3>2
    <2>3. QED
        <3> HIDE DEF all, real, left, G
        <3>1. QED
            BY <1>2, <2>1, <2>2, PlusSum
<1>7. SumFunction(left) = SumFunction(exited)
    <2>1. /\ DOMAIN left = G /\ DOMAIN exited \in SUBSET G
          /\ \A g \in DOMAIN exited : exited[g] \in Int /\ left[g] = exited[g]
          /\ \A g \in G \ DOMAIN exited : left[g] = 0
        BY <1>3
    <2>2. QED
        <3> HIDE DEF left, exited, G
        <3>1. QED
            BY <1>2, <2>1, FilterSum
<1>8. SumFunction(real) \in Int
    <2>1. DOMAIN real = G /\ \A g \in G : real[g] \in Int
        <3>1. ASSUME NEW g \in G PROVE RealisedPnl(E(g), m) \in Int
            BY <1>3, <1>4
        <3>2. QED
            BY <3>1
    <2>2. QED
        <3> HIDE DEF real, G
        <3>1. QED
            BY <1>2, <2>1, IntegerSum
<1>9. SumFunction(left) \in Int
    <2>1. DOMAIN left = G /\ \A g \in G : left[g] \in Int
        BY <1>3
    <2>2. QED
        <3> HIDE DEF left, G
        <3>1. QED
            BY <1>2, <2>1, IntegerSum
<1>10. SumFunction(flow) = TraderFlow(u, m) /\ SumFunction(won) = NetOf(rows[u], m, outcome[m])
    BY WonIsNet DEF TraderFlow, TraderWon, E
<1>11. SumFunction(real) = TraderRealised(u, m) /\ SumFunction(exited) = TraderExited(u, m)
    BY DEF TraderRealised, TraderExited, E
<1> HIDE DEF all, flow, won, real, left, exited
<1>12. QED
    BY <1>5, <1>6, <1>7, <1>8, <1>9, <1>10, <1>11

\* The same of all traders.
LEMMA EstimateParts ==
    ASSUME AccountsInv, NEW m \in Resolved
    PROVE  /\ SumTraderRealisedPnl(m) \in Int /\ MadeByExited(m) \in Int
           /\ CashFlowOf(m) \in Int /\ NetTotal(m, outcome[m]) \in Int
           /\ SumTraderRealisedPnl(m) + MadeByExited(m) =
                  CashFlowOf(m) + NetTotal(m, outcome[m])
<1> DEFINE o == outcome[m]
           real == [u \in Traders |-> TraderRealised(u, m)]
           exited == [u \in Traders |-> TraderExited(u, m)]
           flow == [u \in Traders |-> TraderFlow(u, m)]
           net == [u \in Traders |-> NetOf(rows[u], m, o)]
           all == [u \in Traders |-> TraderFlow(u, m) + NetOf(rows[u], m, o)]
<1>1. m \in Markets
    BY ResolvedAs
<1>2. ASSUME NEW u \in Traders
      PROVE  /\ real[u] \in Int /\ exited[u] \in Int /\ flow[u] \in Int /\ net[u] \in Int
             /\ all[u] = real[u] + exited[u] /\ all[u] = flow[u] + net[u]
    BY <1>1, RealisedOrExited, FlowType, NetTotalType, AccountsParts
<1>3. /\ DOMAIN real = Traders /\ DOMAIN exited = Traders /\ DOMAIN flow = Traders
      /\ DOMAIN net = Traders /\ DOMAIN all = Traders
    OBVIOUS
<1>4. /\ SumFunction(real) = SumTraderRealisedPnl(m) /\ SumFunction(exited) = MadeByExited(m)
      /\ SumFunction(flow) = CashFlowOf(m) /\ SumFunction(net) = NetTotal(m, o)
    BY DEF SumTraderRealisedPnl, TraderRealised, MadeByExited, TraderExited, CashFlowOf,
           TraderFlow, NetTotal
<1> HIDE DEF real, exited, flow, net, all
<1>5. SumFunction(all) = SumFunction(real) + SumFunction(exited)
    BY <1>2, <1>3, FiniteAssumption, PlusSum
<1>6. SumFunction(all) = SumFunction(flow) + SumFunction(net)
    BY <1>2, <1>3, FiniteAssumption, PlusSum
<1>7. /\ SumFunction(real) \in Int /\ SumFunction(exited) \in Int
      /\ SumFunction(flow) \in Int /\ SumFunction(net) \in Int
    <2>1. /\ \A u \in Traders : real[u] \in Int
          /\ \A u \in Traders : exited[u] \in Int
          /\ \A u \in Traders : flow[u] \in Int
          /\ \A u \in Traders : net[u] \in Int
        BY <1>2
    <2>2. QED
        BY <2>1, <1>3, FiniteAssumption, IntegerSum
<1>8. QED
    BY <1>4, <1>5, <1>6, <1>7

\* The invariant implies that the house's profits differ by what they
\* should.
LEMMA HouseFollows == AccountsInv => HouseAddsUp
<1> SUFFICES ASSUME AccountsInv, NEW m \in Resolved
             PROVE  Estimated(m) - Final(m) = FeesOf(m) + LeftIn(m) + MadeByExited(m)
    BY DEF HouseAddsUp
<1> DEFINE o == outcome[m]
<1>1. m \in Markets /\ o \in Sides /\ o # Open
    BY ResolvedAs
<1>2. cash[m] = Seed - CashFlowOf(m) - FeesOf(m) - market[m].withdrawn - Paid(m)
    BY <1>1, AccountsParts DEF PoolInv
<1>3. Paid(m) = NetTotal(m, o) - Outstanding(held, m, o)
    BY <1>1 DEF Paid
<1>4. FeesOf(m) \in Int /\ market[m].withdrawn \in Int /\ Seed \in Int
    <2>1. FeesOf(m) \in Int
        BY AccountsParts, FeesType
    <2>2. market[m].withdrawn \in Nat
        BY <1>1, AccountsParts DEF TypeOK
    <2>3. QED
        BY <2>1, <2>2, NumbersAssumption
<1>5. Outstanding(held, m, o) \in Nat
    BY <1>1, AccountsParts, OutstandingType DEF TypeOK
<1>6. /\ SumTraderRealisedPnl(m) \in Int /\ MadeByExited(m) \in Int
      /\ CashFlowOf(m) \in Int /\ NetTotal(m, o) \in Int
      /\ SumTraderRealisedPnl(m) + MadeByExited(m) = CashFlowOf(m) + NetTotal(m, o)
    BY EstimateParts
<1>7. /\ Estimated(m) = -SumTraderRealisedPnl(m)
      /\ Final(m) = market[m].withdrawn - Seed
      /\ LeftIn(m) = cash[m] - Outstanding(held, m, o)
    BY DEF Estimated, Final, LeftIn
<1>8. QED
    BY <1>2, <1>3, <1>4, <1>5, <1>6, <1>7

\* Always, the house's profit estimated from trades and the one a drain
\* establishes (pnl.ts, admin.ts) differ by the fees, by what the drain left
\* in the pool, and by what traders made who sold out before the market was
\* resolved.
THEOREM HouseProfitExplained == AccountsSpec => []HouseAddsUp
<1>1. QED
    BY AccountsInvariant, HouseFollows, PTL

---------------------------------------------------------------------------
(* The books balance *)

\* A total of two kinds of rows is the sum of their totals.
LEMMA TotalSplit ==
    ASSUME NEW rs \in Seq(Rows), NEW A, NEW B, A \cap B = {}
    PROVE  Total(rs, A \cup B) = Total(rs, A) + Total(rs, B)
<1> DEFINE of(kinds) == [i \in DOMAIN rs |-> AmountIn(rs[i], kinds)]
           f == of(A)
           g == of(B)
           h == of(A \cup B)
<1>1. /\ Total(rs, A) = SumFunction(f) /\ Total(rs, B) = SumFunction(g)
      /\ Total(rs, A \cup B) = SumFunction(h)
    BY DEF Total, AmountIn
<1>2. DOMAIN rs = 1..Len(rs) /\ Len(rs) \in Nat /\ \A i \in DOMAIN rs : rs[i] \in Rows
    OBVIOUS
<1>3. IsFiniteSet(DOMAIN rs)
    BY <1>2, FS_Interval
<1>4. DOMAIN f = DOMAIN rs /\ DOMAIN g = DOMAIN rs /\ DOMAIN h = DOMAIN rs
    OBVIOUS
<1>5. ASSUME NEW i \in DOMAIN rs PROVE f[i] \in Int /\ g[i] \in Int /\ h[i] = f[i] + g[i]
    <2>1. rs[i].amount \in Nat
        BY <1>2, RowKinds
    <2>2. /\ AmountIn(rs[i], A) \in Int /\ AmountIn(rs[i], B) \in Int
          /\ AmountIn(rs[i], A \cup B) = AmountIn(rs[i], A) + AmountIn(rs[i], B)
        BY <2>1 DEF AmountIn
    <2>3. QED
        BY <2>2
<1>6. SumFunction(h) = SumFunction(f) + SumFunction(g)
    <2> HIDE DEF f, g, h
    <2>1. QED
        BY <1>3, <1>4, <1>5, PlusSum
<1>7. QED
    BY <1>1, <1>6

\* Once every event is handled, what moved is what is booked.
LEMMA BookedIsMoved ==
    ASSUME AccountsInv, logs = {}, NEW u \in Traders,
           NEW kinds \in SUBSET {"deposit", "withdraw", "redemption"}
    PROVE  Total(rows[u], kinds) = Moved(u, kinds)
<1> DEFINE rs == rows[u]
           Ids == EventIds(u)
           full == [i \in DOMAIN rs |-> AmountIn(rs[i], kinds)]
           part == [i \in Ids |-> AmountIn(rs[i], kinds)]
           to == [i \in Ids |-> rs[i]]
           amounts == [e \in EventsOf(u) |-> AmountIn(e, kinds)]
<1>1. /\ rs \in Seq(Rows) /\ Ids \subseteq DOMAIN rs /\ IsFiniteSet(Ids)
      /\ IsFiniteSet(EventsOf(u)) /\ DOMAIN rs = 1..Len(rs) /\ Len(rs) \in Nat
    <2>1. /\ rs \in Seq(Rows) /\ Ids \subseteq 1..Len(rs) /\ IsFiniteSet(Ids)
          /\ IsFiniteSet(EventsOf(u))
        BY AccountsParts, EventsType
    <2>2. DOMAIN rs = 1..Len(rs) /\ Len(rs) \in Nat
        <3> HIDE DEF rs
        <3>1. QED
            BY <2>1
    <2>3. QED
        BY <2>1, <2>2
<1>2. IsFiniteSet(DOMAIN rs)
    BY <1>1, FS_Interval
<1>3. EventsOf(u) = {rs[i] : i \in Ids}
    BY DEF EventsOf
<1>4. \A i \in DOMAIN rs : AmountIn(rs[i], kinds) \in Int
    <2>1. \A i \in DOMAIN rs : rs[i] \in Rows
        <3> HIDE DEF rs
        <3>1. QED
            BY <1>1
    <2>2. \A r \in Rows : AmountIn(r, kinds) \in Int
        BY RowNumbers
    <2>3. QED
        BY <2>1, <2>2
<1>5. SumFunction(full) = SumFunction(part)
    <2>1. \A i \in (DOMAIN rs) \ Ids : AmountIn(rs[i], kinds) = 0
        BY DEF EventIds, IsTrade, AmountIn
    <2>2. /\ DOMAIN full = DOMAIN rs /\ DOMAIN part = Ids
          /\ \A i \in Ids : part[i] \in Int /\ full[i] = part[i]
          /\ \A i \in (DOMAIN rs) \ Ids : full[i] = 0
        BY <1>1, <1>4, <2>1
    <2>3. QED
        <3> HIDE DEF full, part, Ids, rs
        <3>1. QED
            BY <1>1, <1>2, <2>2, FilterSum
<1>6. SumFunction(part) = SumFunction(amounts)
    <2>1. /\ to \in [Ids -> EventsOf(u)]
          /\ \A e \in EventsOf(u) : \E i \in Ids : to[i] = e
        BY <1>3
    <2>2. \A i, j \in Ids : to[i] = to[j] => i = j
        BY AccountsParts DEF EventsInv
    <2>3. \A i \in Ids : amounts[to[i]] = part[i] /\ part[i] \in Int
        BY <1>1, <1>3, <1>4
    <2>4. DOMAIN part = Ids /\ DOMAIN amounts = EventsOf(u)
        OBVIOUS
    <2> HIDE DEF to, part, amounts, Ids, rs
    <2>5. IntegersOn(part, Ids)
        BY <2>3 DEF IntegersOn
    <2>6. SumFunctionOnSet(part, Ids) = SumFunctionOnSet(amounts, EventsOf(u))
        BY <1>1, <2>1, <2>2, <2>3, <2>5, SumsReindex
    <2>7. QED
        BY <2>4, <2>6 DEF SumFunction
<1>7. Total(rows[u], kinds) = SumFunction(full) /\ Moved(u, kinds) = SumFunction(amounts)
    BY DEF Total, Moved, AmountIn
<1>8. QED
    BY <1>5, <1>6, <1>7

\* The invariant implies that a trader's transactions sum up to the escrow.
LEMMA LedgersFollow ==
    ASSUME AccountsInv, logs = {}
    PROVE  LedgersSettle
<1> SUFFICES ASSUME NEW u \in Traders PROVE Endowment + Ledger(u) = escrow[u]
    BY DEF LedgersSettle
<1>1. rows[u] \in Seq(Rows) /\ \A kinds : Total(rows[u], kinds) \in Int
    BY AccountsParts, TotalType DEF RowsInv
<1>2. Total(rows[u], {"deposit", "redemption", "sell"}) =
          Total(rows[u], {"deposit", "redemption"}) + Total(rows[u], {"sell"})
    <2>1. /\ {"deposit", "redemption", "sell"} = {"deposit", "redemption"} \cup {"sell"}
          /\ {"deposit", "redemption"} \cap {"sell"} = {}
        OBVIOUS
    <2>2. QED
        BY <1>1, <2>1, TotalSplit
<1>3. Total(rows[u], {"withdraw", "buy"}) =
          Total(rows[u], {"withdraw"}) + Total(rows[u], {"buy"})
    <2>1. {"withdraw", "buy"} = {"withdraw"} \cup {"buy"} /\ {"withdraw"} \cap {"buy"} = {}
        OBVIOUS
    <2>2. QED
        BY <1>1, <2>1, TotalSplit
<1>4. /\ Total(rows[u], {"deposit", "redemption"}) = Moved(u, {"deposit", "redemption"})
      /\ Total(rows[u], {"withdraw"}) = Moved(u, {"withdraw"})
    BY BookedIsMoved
<1>5. escrow[u] = Endowment + Total(rows[u], {"sell"}) - Total(rows[u], {"buy"})
                    + Moved(u, {"deposit", "redemption"}) - Moved(u, {"withdraw"})
    BY AccountsParts DEF LedgerInv
<1>6. QED
    BY <1>1, <1>2, <1>3, <1>4, <1>5, NumbersAssumption DEF Ledger

\* A trader's summary is what was realised, market by market.
LEMMA SummaryParts ==
    ASSUME AccountsInv, NEW u \in Traders
    PROVE  Summary(u) = SumFunction([m \in Resolved |-> TraderRealised(u, m)])
<1>1. ASSUME NEW m \in Resolved
      PROVE  SumFunction([g \in {x \in Groups(m) : HasExposure(Exposure(u, m, x))} |->
                 Exposure(u, m, g).cashFlow + SettlementValue(Exposure(u, m, g), m)]) =
             TraderRealised(u, m)
    <2> DEFINE G == Groups(m)
               E(g) == Exposure(u, m, g)
               foldedShares == [g \in {x \in G : HasExposure(E(x))} |->
                            E(g).cashFlow + SettlementValue(E(g), m)]
               real == [g \in G |-> RealisedPnl(E(g), m)]
    <2>1. IsFiniteSet(G)
        BY ResolvedAs, GroupsFinite
    <2>2. \A g \in G : E(g).cashFlow + SettlementValue(E(g), m) \in Int
        BY WonIsNet DEF Exposures
    <2>3. \A g \in G : RealisedPnl(E(g), m) =
              IF HasExposure(E(g)) THEN E(g).cashFlow + SettlementValue(E(g), m) ELSE 0
        BY DEF RealisedPnl
    <2> HIDE DEF E
    <2>4. /\ DOMAIN real = G /\ DOMAIN foldedShares \in SUBSET G
          /\ \A g \in DOMAIN foldedShares : foldedShares[g] \in Int /\ real[g] = foldedShares[g]
          /\ \A g \in G \ DOMAIN foldedShares : real[g] = 0
        BY <2>2, <2>3
    <2>5. SumFunction(real) = SumFunction(foldedShares)
        <3> HIDE DEF real, foldedShares, G
        <3>1. QED
            BY <2>1, <2>4, FilterSum
    <2>6. QED
        BY <2>5 DEF TraderRealised, E
<1>2. QED
    BY <1>1 DEF Summary

\* The invariant implies that the summaries sum up to the estimates.
LEMMA SummariesFollow ==
    ASSUME AccountsInv
    PROVE  SummariesSettle
<1> DEFINE byBoth == [u \in Traders |-> [m \in Resolved |-> TraderRealised(u, m)]]
           column == [m \in Resolved |-> [u \in Traders |-> TraderRealised(u, m)]]
           byUser == [u \in Traders |-> Summary(u)]
           byMarket == [m \in Resolved |-> SumTraderRealisedPnl(m)]
           estimates == [m \in Resolved |-> Estimated(m)]
<1>1. IsFiniteSet(Traders) /\ IsFiniteSet(Resolved)
    BY FiniteAssumption, FS_Subset DEF Resolved
<1>2. \A u \in Traders : \A m \in Resolved : TraderRealised(u, m) \in Int
    BY RealisedOrExited
<1>3. \A u \in Traders : DOMAIN byBoth[u] = Resolved /\ \A m \in Resolved : byBoth[u][m] \in Int
    BY <1>2
<1>4. \A m \in Resolved :
          DOMAIN column[m] = Traders /\ \A u \in Traders : column[m][u] = byBoth[u][m]
    OBVIOUS
<1>5. DOMAIN byUser = Traders /\ \A u \in Traders : byUser[u] = SumFunction(byBoth[u])
    BY SummaryParts
<1>6. DOMAIN byMarket = Resolved /\ \A m \in Resolved : byMarket[m] = SumFunction(column[m])
    BY DEF SumTraderRealisedPnl, TraderRealised
<1>7. DOMAIN estimates = Resolved
      /\ \A m \in Resolved : byMarket[m] \in Int /\ estimates[m] = -byMarket[m]
    <2>1. \A m \in Resolved :
              SumTraderRealisedPnl(m) \in Int /\ Estimated(m) = -SumTraderRealisedPnl(m)
        BY EstimateParts DEF Estimated
    <2>2. QED
        BY <2>1
<1>8. SummariesSettle <=> SumFunction(byUser) = -SumFunction(estimates)
    BY DEF SummariesSettle
<1> HIDE DEF byBoth, column, byUser, byMarket, estimates
<1>9. SumFunction(byUser) = SumFunction(byMarket)
    BY <1>1, <1>3, <1>4, <1>5, <1>6, SwapSum
<1>10. SumFunction(estimates) = -SumFunction(byMarket)
    BY <1>1, <1>6, <1>7, NegativeSum
<1>11. SumFunction(byMarket) \in Int
    BY <1>1, <1>6, <1>7, IntegerSum
<1>12. QED
    BY <1>8, <1>9, <1>10, <1>11

\* What is booked of a kind is what moved, for all traders.
LEMMA AllUsersMoved ==
    ASSUME AccountsInv, logs = {}, NEW kind \in {"deposit", "withdraw", "redemption"}
    PROVE  AllUsers(kind) = MovedTotal(kind)
<1>1. \A u \in Traders : Total(rows[u], {kind}) = Moved(u, {kind})
    BY BookedIsMoved
<1>2. QED
    BY <1>1 DEF AllUsers, MovedTotal

\* The invariant implies that the overview's totals are the money there is.
LEMMA TotalsFollow ==
    ASSUME AccountsInv, logs = {}
    PROVE  TotalsSettle
<1>1. Overview.tvl = MovedTotal("deposit") - MovedTotal("withdraw")
    BY AllUsersMoved DEF Overview
<1>2. Overview.startingLiquidity = Seed * Cardinality(Markets)
    BY DEF Overview
<1>3. Overview.currentLiquidity = SumFunction(cash)
    <2>1. cash \in [Markets -> Nat]
        BY AccountsParts DEF TypeOK
    <2>2. [m \in Markets |-> IF m \in {} THEN AtRisk(m) ELSE cash[m]] = cash
        BY <2>1
    <2>3. CurrentLiquidity({}) = SumFunction(cash)
        BY <2>2 DEF CurrentLiquidity
    <2>4. QED
        BY <2>3 DEF Overview
<1>4. Overview.liquidityWithdrawn = WithdrawnTotal /\ Overview.totalFees = FeeTotal
    BY DEF Overview, WithdrawnTotal, FeeTotal
<1>5. /\ SumFunction(escrow) \in Int /\ SumFunction(cash) \in Int
      /\ WithdrawnTotal \in Int /\ FeeTotal \in Int
      /\ MovedTotal("deposit") \in Int /\ MovedTotal("withdraw") \in Int
    BY AccountsParts, MoneyParts
<1>6. Endowment * Cardinality(Traders) \in Int /\ Seed * Cardinality(Markets) \in Int
    <2>1. Cardinality(Traders) \in Nat /\ Cardinality(Markets) \in Nat
        BY FiniteAssumption, FS_CardinalityType
    <2>2. QED
        BY <2>1, NumbersAssumption
<1>7. SumFunction(escrow) + SumFunction(cash) + WithdrawnTotal + FeeTotal =
          Endowment * Cardinality(Traders) + Seed * Cardinality(Markets)
            + MovedTotal("deposit") - MovedTotal("withdraw")
    BY AccountsParts, MoneyIs
<1>8. QED
    BY <1>1, <1>2, <1>3, <1>4, <1>5, <1>6, <1>7 DEF TotalsSettle

\* The trades in some markets.
TradesIn(M) == UNION {MarketTrades(m) : m \in M}
RowOf(t) == rows[t[1]][t[2]]

\* The trades of a market, one by one.
LEMMA InMarketTrades ==
    ASSUME NEW m, NEW t
    PROVE  t \in MarketTrades(m) <=>
               \E u \in Traders : \E i \in DOMAIN rows[u] :
                   IsTrade(rows[u][i]) /\ rows[u][i].market = m /\ t = <<u, i>>
BY DEF MarketTrades

\* The trades of some markets are finitely many, and each is of one trader
\* and one market.
LEMMA TradesInType ==
    ASSUME RowsInv, NEW M \in SUBSET Markets
    PROVE  /\ IsFiniteSet(TradesIn(M)) /\ IsFiniteSet(M)
           /\ \A t \in TradesIn(M) :
                  /\ t[1] \in Traders /\ t[2] \in DOMAIN rows[t[1]] /\ t = <<t[1], t[2]>>
                  /\ RowOf(t).market \in M /\ RowOf(t).amount \in Nat /\ IsTrade(RowOf(t))
           /\ \A m \in M : MarketTrades(m) = {t \in TradesIn(M) : RowOf(t).market = m}
<1>1. IsFiniteSet(M)
    BY FiniteAssumption, FS_Subset
<1>2. \A u \in Traders : \A i \in DOMAIN rows[u] : rows[u][i].amount \in Nat
    <2>1. ASSUME NEW u \in Traders, NEW i \in DOMAIN rows[u] PROVE rows[u][i].amount \in Nat
        <3>1. rows[u] \in Seq(Rows)
            BY DEF RowsInv
        <3>2. rows[u][i] \in Rows
            BY <3>1
        <3>3. QED
            BY <3>2, RowKinds
    <2>2. QED
        BY <2>1
<1>3. ASSUME NEW m \in Markets, NEW t \in MarketTrades(m)
      PROVE  /\ t[1] \in Traders /\ t[2] \in DOMAIN rows[t[1]] /\ t = <<t[1], t[2]>>
             /\ RowOf(t).market = m /\ RowOf(t).amount \in Nat /\ IsTrade(RowOf(t))
    <2>1. PICK u \in Traders : \E i \in DOMAIN rows[u] :
              IsTrade(rows[u][i]) /\ rows[u][i].market = m /\ t = <<u, i>>
        BY InMarketTrades
    <2>2. PICK i \in DOMAIN rows[u] :
              IsTrade(rows[u][i]) /\ rows[u][i].market = m /\ t = <<u, i>>
        BY <2>1
    <2>3. t[1] = u /\ t[2] = i
        BY <2>2
    <2>4. QED
        BY <1>2, <2>2, <2>3 DEF RowOf
<1>4. ASSUME NEW m \in Markets PROVE IsFiniteSet(MarketTrades(m))
    <2> DEFINE ids(u) == {x \in DOMAIN rows[u] : IsTrade(rows[u][x]) /\ rows[u][x].market = m}
               of == [u \in Traders |-> {<<u, i>> : i \in ids(u)}]
    <2>1. ASSUME NEW u \in Traders PROVE IsFiniteSet(of[u])
        <3>1. rows[u] \in Seq(Rows)
            BY DEF RowsInv
        <3>2. DOMAIN rows[u] = 1..Len(rows[u]) /\ Len(rows[u]) \in Nat
            BY <3>1
        <3>3. IsFiniteSet(1..Len(rows[u]))
            BY <3>2, FS_Interval
        <3>4. IsFiniteSet(ids(u))
            BY <3>2, <3>3, FS_Subset
        <3> DEFINE pair == [i \in ids(u) |-> <<u, i>>]
        <3>5. IsFiniteSet({pair[i] : i \in ids(u)})
            <4> HIDE DEF pair, ids
            <4>1. QED
                BY <3>4, FiniteImage
        <3>6. {pair[i] : i \in ids(u)} = of[u]
            OBVIOUS
        <3>7. QED
            BY <3>5, <3>6
    <2>2. IsFiniteSet({of[u] : u \in Traders})
        <3> HIDE DEF of
        <3>1. QED
            BY FiniteAssumption, FiniteImage
    <2>3. IsFiniteSet(UNION {of[u] : u \in Traders})
        <3> HIDE DEF of
        <3>1. QED
            BY <2>1, <2>2, FS_UNION
    <2>4. {of[u] : u \in Traders} = {{<<u, i>> : i \in ids(u)} : u \in Traders}
        OBVIOUS
    <2>5. MarketTrades(m) = UNION {of[u] : u \in Traders}
        BY <2>4 DEF MarketTrades
    <2>6. QED
        BY <2>3, <2>5
<1>5. IsFiniteSet(TradesIn(M))
    <2> DEFINE of == [m \in M |-> MarketTrades(m)]
    <2>1. {of[m] : m \in M} = {MarketTrades(m) : m \in M} /\ \A m \in M : IsFiniteSet(of[m])
        BY <1>4
    <2>2. IsFiniteSet({of[m] : m \in M})
        <3> HIDE DEF of
        <3>1. QED
            BY <1>1, FiniteImage
    <2>3. IsFiniteSet(UNION {of[m] : m \in M})
        <3> HIDE DEF of
        <3>1. QED
            BY <2>1, <2>2, FS_UNION
    <2>4. QED
        BY <2>1, <2>3 DEF TradesIn
<1>6. \A t : t \in TradesIn(M) <=> \E m \in M : t \in MarketTrades(m)
    BY DEF TradesIn
<1>7. QED
    BY <1>1, <1>3, <1>5, <1>6

\* Counted market by market, or trader by trader.
LEMMA CountedTwice ==
    ASSUME RowsInv, NEW M \in SUBSET Markets, NEW f, IntegersOn(f, TradesIn(M)),
           NEW byMarket, DOMAIN byMarket = M,
           \A m \in M : byMarket[m] = SumFunctionOnSet(f, MarketTrades(m)),
           NEW byUser, DOMAIN byUser = Traders,
           \A u \in Traders : byUser[u] = SumFunctionOnSet(f, {t \in TradesIn(M) : t[1] = u})
    PROVE  SumFunction(byMarket) = SumFunction(byUser)
<1> DEFINE S == TradesIn(M)
           marketOf == [t \in S |-> RowOf(t).market]
           userOf == [t \in S |-> t[1]]
<1>1. IsFiniteSet(S) /\ IsFiniteSet(M) /\ IsFiniteSet(Traders)
    BY TradesInType, FiniteAssumption
<1>2. marketOf \in [S -> M] /\ userOf \in [S -> Traders]
    BY TradesInType
<1>3. \A m \in M : byMarket[m] = SumFunctionOnSet(f, {t \in S : marketOf[t] = m})
    <2>1. ASSUME NEW m \in M PROVE MarketTrades(m) = {t \in S : marketOf[t] = m}
        <3>1. MarketTrades(m) = {t \in TradesIn(M) : RowOf(t).market = m}
            BY TradesInType
        <3>2. QED
            BY <3>1
    <2>2. QED
        BY <2>1
<1>4. \A u \in Traders : byUser[u] = SumFunctionOnSet(f, {t \in S : userOf[t] = u})
    <2>1. \A u \in Traders : {t \in S : userOf[t] = u} = {t \in TradesIn(M) : t[1] = u}
        OBVIOUS
    <2>2. QED
        BY <2>1
<1>5. IntegersOn(f, S)
    OBVIOUS
<1> HIDE DEF S, marketOf, userOf
<1>6. SumFunctionOnSet(byMarket, M) = SumFunctionOnSet(f, S)
    BY <1>1, <1>2, <1>3, <1>5, SumsByKind
<1>7. SumFunctionOnSet(byUser, Traders) = SumFunctionOnSet(f, S)
    BY <1>1, <1>2, <1>4, <1>5, SumsByKind
<1>8. QED
    BY <1>6, <1>7 DEF SumFunction

\* A volume is a sum of amounts.
LEMMA VolumeOf ==
    ASSUME RowsInv, NEW M \in SUBSET Markets, NEW f,
           \A t \in TradesIn(M) : f[t] = RowOf(t).amount,
           NEW ts \in SUBSET TradesIn(M)
    PROVE  Volume(ts) = SumFunctionOnSet(f, ts)
<1> DEFINE v == [t \in ts |-> RowOf(t).amount]
<1>1. IsFiniteSet(ts)
    BY TradesInType, FS_Subset
<1>2. (\A t \in ts : v[t] = f[t]) /\ (\A t \in ts : v[t] \in Int)
    <2>1. \A t \in ts : t \in TradesIn(M)
        OBVIOUS
    <2>2. \A t \in ts : RowOf(t).amount \in Nat
        BY <2>1, TradesInType
    <2>3. QED
        BY <2>1, <2>2
<1>3. Volume(ts) = SumFunction(v) /\ DOMAIN v = ts
    BY DEF Volume, RowOf
<1> HIDE DEF v
<1>4. IntegersOn(v, ts)
    BY <1>2 DEF IntegersOn
<1>5. SumFunctionOnSet(v, ts) = SumFunctionOnSet(f, ts)
    BY <1>1, <1>2, <1>4, SumsAgree
<1>6. QED
    BY <1>3, <1>5 DEF SumFunction

\* Volumes of binary markets are the same by market and by trader.
LEMMA VolumesAgree ==
    ASSUME AccountsInv
    PROVE  SumFunction([m \in Binary |-> MarketList[m].volume]) =
               SumFunction([u \in Traders |-> UserRow(u).totalVolume])
<1> DEFINE f == [t \in TradesIn(Binary) |-> RowOf(t).amount]
           byMarket == [m \in Binary |-> MarketList[m].volume]
           byUser == [u \in Traders |-> UserRow(u).totalVolume]
<1>1. RowsInv /\ Binary \in SUBSET Markets
    BY AccountsParts DEF Markets
<1>2. IntegersOn(f, TradesIn(Binary))
    <2>1. \A t \in TradesIn(Binary) : RowOf(t).amount \in Nat
        BY <1>1, TradesInType
    <2>2. QED
        BY <2>1 DEF IntegersOn
<1>3. \A t \in TradesIn(Binary) : f[t] = RowOf(t).amount
    OBVIOUS
<1>4. ASSUME NEW m \in Binary
      PROVE  byMarket[m] = SumFunctionOnSet(f, MarketTrades(m))
    <2>1. MarketTrades(m) \in SUBSET TradesIn(Binary)
        BY DEF TradesIn
    <2>2. Volume(MarketTrades(m)) = SumFunctionOnSet(f, MarketTrades(m))
        <3> HIDE DEF f
        <3>1. QED
            BY <1>1, <1>3, <2>1, VolumeOf
    <2>3. MarketList[m].volume = Volume(MarketTrades(m))
        BY <1>1 DEF MarketList, MarketRow
    <2>4. QED
        <3> HIDE DEF f
        <3>1. QED
            BY <2>2, <2>3
<1>5. ASSUME NEW u \in Traders
      PROVE  byUser[u] = SumFunctionOnSet(f, {t \in TradesIn(Binary) : t[1] = u})
    <2> DEFINE own == {t \in TradesIn(Binary) : t[1] = u}
    <2>1. own \in SUBSET TradesIn(Binary)
        OBVIOUS
    <2>2. Volume(own) = SumFunctionOnSet(f, own)
        <3> HIDE DEF f, own
        <3>1. QED
            BY <1>1, <1>3, <2>1, VolumeOf
    <2>3. UserRow(u).totalVolume = Volume(own)
        BY DEF UserRow, TradesIn
    <2>4. QED
        <3> HIDE DEF f
        <3>1. QED
            BY <2>2, <2>3
<1>6. DOMAIN byMarket = Binary /\ DOMAIN byUser = Traders
    OBVIOUS
<1>7. SumFunction(byMarket) = SumFunction(byUser)
    <2> HIDE DEF f, byMarket, byUser
    <2>1. QED
        BY <1>1, <1>2, <1>4, <1>5, <1>6, CountedTwice
<1>8. QED
    BY <1>7

\* Trades are as many by market as by trader.
LEMMA TradesCounted ==
    ASSUME AccountsInv
    PROVE  SumFunction([m \in Markets |-> MarketList[m].trades]) = Overview.totalTrades
<1> DEFINE f == [t \in TradesIn(Markets) |-> 1]
           ids(u) == {i \in DOMAIN rows[u] : IsTrade(rows[u][i])}
           byMarket == [m \in Markets |-> MarketList[m].trades]
           byUser == [u \in Traders |-> Cardinality(ids(u))]
<1>1. RowsInv /\ Markets \in SUBSET Markets
    BY AccountsParts
<1>2. IntegersOn(f, TradesIn(Markets)) /\ \A t \in TradesIn(Markets) : f[t] = 1
    BY DEF IntegersOn
<1>3. IsFiniteSet(TradesIn(Markets))
    BY <1>1, TradesInType
<1>4. ASSUME NEW m \in Markets
      PROVE  byMarket[m] = SumFunctionOnSet(f, MarketTrades(m))
    <2>1. MarketTrades(m) \subseteq TradesIn(Markets)
        BY DEF TradesIn
    <2>2. IsFiniteSet(MarketTrades(m))
        BY <1>3, <2>1, FS_Subset
    <2>3. byMarket[m] = Cardinality(MarketTrades(m))
        BY DEF MarketList, MarketRow
    <2>4. Cardinality(MarketTrades(m)) = SumFunctionOnSet(f, MarketTrades(m))
        <3> HIDE DEF f
        <3>1. QED
            BY <1>2, <2>1, <2>2, SumsOfOnes
    <2>5. QED
        <3> HIDE DEF f, byMarket
        <3>1. QED
            BY <2>3, <2>4
<1>5. ASSUME NEW u \in Traders
      PROVE  byUser[u] = SumFunctionOnSet(f, {t \in TradesIn(Markets) : t[1] = u})
    <2> DEFINE own == {t \in TradesIn(Markets) : t[1] = u}
               ones == [i \in ids(u) |-> 1]
               to == [i \in ids(u) |-> <<u, i>>]
    <2>1. rows[u] \in Seq(Rows)
        BY <1>1 DEF RowsInv
    <2>2. DOMAIN rows[u] = 1..Len(rows[u]) /\ Len(rows[u]) \in Nat
        BY <2>1
    <2>3. IsFiniteSet(1..Len(rows[u]))
        BY <2>2, FS_Interval
    <2>4. IsFiniteSet(ids(u)) /\ IsFiniteSet(own)
        BY <1>3, <2>2, <2>3, FS_Subset
    <2>5. ASSUME NEW i \in ids(u) PROVE <<u, i>> \in own
        <3>1. rows[u][i] \in Rows /\ IsTrade(rows[u][i])
            BY <2>1
        <3>2. rows[u][i].market \in Markets
            BY <3>1, RowKinds DEF TradeRecords
        <3>3. <<u, i>> \in MarketTrades(rows[u][i].market)
            BY <3>1, InMarketTrades
        <3>4. QED
            BY <3>2, <3>3 DEF TradesIn
    <2>6. ASSUME NEW t \in own PROVE t[2] \in ids(u) /\ t = <<u, t[2]>>
        <3>1. t \in TradesIn(Markets) /\ t[1] = u
            OBVIOUS
        <3>2. t[2] \in DOMAIN rows[t[1]] /\ t = <<t[1], t[2]>> /\ IsTrade(RowOf(t))
            BY <1>1, <3>1, TradesInType
        <3>3. IsTrade(rows[u][t[2]])
            BY <3>1, <3>2 DEF RowOf
        <3>4. QED
            BY <3>1, <3>2, <3>3
    <2>7. /\ to \in [ids(u) -> own]
          /\ \A t \in own : \E i \in ids(u) : to[i] = t
          /\ \A i, j \in ids(u) : to[i] = to[j] => i = j
        <3>1. to \in [ids(u) -> own]
            <4> HIDE DEF own, ids
            <4>1. QED
                BY <2>5
        <3>2. ASSUME NEW t \in own PROVE \E i \in ids(u) : to[i] = t
            <4>1. t[2] \in ids(u) /\ to[t[2]] = t
                <5> HIDE DEF own, ids
                <5>1. QED
                    BY <2>6
            <4>2. QED
                <5> HIDE DEF own, ids, to
                <5>1. QED
                    BY <4>1
        <3>3. \A i, j \in ids(u) : to[i] = to[j] => i = j
            <4> HIDE DEF ids
            <4>1. QED
                OBVIOUS
        <3>4. QED
            <4> HIDE DEF own, ids, to
            <4>1. QED
                BY <3>1, <3>2, <3>3
    <2>8. \A i \in ids(u) : f[to[i]] = ones[i] /\ ones[i] = 1
        <3>1. \A i \in ids(u) : to[i] \in TradesIn(Markets)
            <4> HIDE DEF ids, to
            <4>1. QED
                BY <2>7
        <3>2. QED
            <4> HIDE DEF ids, to
            <4>1. QED
                BY <3>1
    <2>9. IntegersOn(ones, ids(u))
        BY DEF IntegersOn
    <2>10. SumFunctionOnSet(ones, ids(u)) = SumFunctionOnSet(f, own)
        <3> HIDE DEF ones, to, own, ids, f
        <3>1. QED
            BY <2>4, <2>7, <2>8, <2>9, SumsReindex
    <2>11. Cardinality(ids(u)) = SumFunctionOnSet(ones, ids(u))
        <3> HIDE DEF ones, ids
        <3>1. QED
            BY <2>4, <2>8, SumsOfOnes
    <2>12. byUser[u] = Cardinality(ids(u))
        OBVIOUS
    <2>13. QED
        <3> HIDE DEF ones, ids, f, byUser
        <3>1. QED
            BY <2>10, <2>11, <2>12
<1>6. DOMAIN byMarket = Markets /\ DOMAIN byUser = Traders
    OBVIOUS
<1>7. SumFunction(byMarket) = SumFunction(byUser)
    <2> HIDE DEF f, byMarket, byUser
    <2>1. QED
        BY <1>1, <1>2, <1>4, <1>5, <1>6, CountedTwice
<1>8. Overview.totalTrades = SumFunction(byUser)
    BY DEF Overview
<1>9. QED
    BY <1>7, <1>8

\* The house's profit in the list and in the overview.
LEMMA ProfitsAgree ==
    ASSUME AccountsInv
    PROVE  SumFunction([m \in Markets |-> MarketList[m].housePnl]) = Overview.housePnl
<1> DEFINE perMarket == [m \in Markets |-> MarketList[m].housePnl]
           total == [m \in Resolved |-> HousePnl(m)]
<1>1. \A m \in Resolved : HousePnl(m) \in Int
    <2>1. ASSUME NEW m \in Resolved PROVE HousePnl(m) \in Int
        <3>1. market[m].withdrawn \in Nat /\ Seed \in Nat
            BY ResolvedAs, AccountsParts, NumbersAssumption DEF TypeOK
        <3>2. SumTraderRealisedPnl(m) \in Int
            BY EstimateParts
        <3>3. QED
            BY <3>1, <3>2 DEF HousePnl, Final, Estimated
    <2>2. QED
        BY <2>1
<1>2. Resolved \subseteq Markets
    BY DEF Resolved
<1>3. \A m \in Markets : MarketList[m].housePnl = IF m \in Resolved THEN HousePnl(m) ELSE 0
    BY DEF MarketList, MarketRow
<1>4. /\ DOMAIN perMarket = Markets /\ DOMAIN total \in SUBSET Markets
      /\ \A m \in DOMAIN total : total[m] \in Int /\ perMarket[m] = total[m]
      /\ \A m \in Markets \ DOMAIN total : perMarket[m] = 0
    BY <1>1, <1>2, <1>3
<1>5. SumFunction(perMarket) = SumFunction(total)
    <2> HIDE DEF perMarket, total
    <2>1. QED
        BY <1>4, FiniteAssumption, FilterSum
<1>6. Overview.housePnl = SumFunction(total)
    BY DEF Overview
<1>7. QED
    BY <1>5, <1>6

\* What is at risk, in the list and in the overview.
LEMMA RisksAgree ==
    ASSUME AccountsInv
    PROVE  SumFunction([m \in Markets |-> MarketList[m].atRisk]) = Overview.liquidityAtRisk
<1> DEFINE perMarket == [m \in Markets |-> MarketList[m].atRisk]
           claims == [m \in Markets |-> market[m].claims]
           both == [m \in Markets |-> market[m].claims + market[m].claims]
           seeds == [m \in Markets |-> IF m \in Resolved THEN 0 ELSE Seed]
           opens == [m \in Markets \ Resolved |-> Seed]
<1>1. \A m \in Markets : market[m].claims \in Nat
    BY AccountsParts DEF TypeOK
<1>2. \A m \in Markets \ Resolved : market[m].claims = 0
    <2>1. \A m \in Markets : /\ market[m].drained => market[m].result # Open
                             /\ ~market[m].drained => market[m].claims = 0
        BY AccountsParts DEF ResolutionInv
    <2>2. QED
        BY <2>1 DEF Resolved
<1>3. Seed \in Nat
    BY NumbersAssumption
<1>4. SumFunction(perMarket) = SumFunction(seeds) + SumFunction(both)
    <2>1. DOMAIN perMarket = Markets /\ DOMAIN seeds = Markets /\ DOMAIN both = Markets
        OBVIOUS
    <2>2. ASSUME NEW m \in Markets
          PROVE  seeds[m] \in Int /\ both[m] \in Int /\ perMarket[m] = seeds[m] + both[m]
        <3>1. perMarket[m] = AtRisk(m)
            BY DEF MarketList, MarketRow
        <3>2. AtRisk(m) = IF m \in Resolved THEN 2 * market[m].claims ELSE Seed
            BY DEF AtRisk
        <3>3. seeds[m] = (IF m \in Resolved THEN 0 ELSE Seed)
              /\ both[m] = market[m].claims + market[m].claims
            OBVIOUS
        <3>4. CASE m \in Resolved
            BY <1>1, <3>1, <3>2, <3>3, <3>4
        <3>5. CASE m \notin Resolved
            BY <1>1, <1>2, <1>3, <3>1, <3>2, <3>3, <3>5
        <3>6. QED
            BY <3>4, <3>5
    <2>3. QED
        <3> HIDE DEF perMarket, seeds, both
        <3>1. QED
            BY <2>1, <2>2, FiniteAssumption, PlusSum
<1>5. SumFunction(both) = SumFunction(claims) + SumFunction(claims)
    <2>1. /\ DOMAIN claims = Markets /\ DOMAIN both = Markets
          /\ \A m \in Markets : claims[m] \in Int /\ both[m] = claims[m] + claims[m]
        BY <1>1
    <2>2. QED
        <3> HIDE DEF claims, both
        <3>1. QED
            BY <2>1, FiniteAssumption, PlusSum
<1>6. SumFunction(claims) \in Int
    <2>1. DOMAIN claims = Markets /\ \A m \in Markets : claims[m] \in Int
        BY <1>1
    <2>2. QED
        <3> HIDE DEF claims
        <3>1. QED
            BY <2>1, FiniteAssumption, IntegerSum
<1>7. SumFunction(seeds) = SumFunction(opens)
    <2>1. /\ DOMAIN seeds = Markets /\ DOMAIN opens \in SUBSET Markets
          /\ \A m \in DOMAIN opens : opens[m] \in Int /\ seeds[m] = opens[m]
          /\ \A m \in Markets \ DOMAIN opens : seeds[m] = 0
        BY <1>3
    <2>2. QED
        <3> HIDE DEF seeds, opens
        <3>1. QED
            BY <2>1, FiniteAssumption, FilterSum
<1>8. SumFunction(opens) = Seed * Cardinality(Markets \ Resolved)
    <2>1. /\ DOMAIN opens = Markets \ Resolved /\ IsFiniteSet(Markets \ Resolved)
          /\ \A m \in Markets \ Resolved : opens[m] = Seed
        BY FiniteAssumption, FS_Subset
    <2>2. Seed \in Int
        BY <1>3
    <2>3. QED
        <3> HIDE DEF opens
        <3>1. QED
            BY <2>1, <2>2, ConstantSum
<1>9. Overview.liquidityAtRisk = Seed * Cardinality(Markets \ Resolved) + 2 * SumFunction(claims)
    BY DEF Overview
<1>10. 2 * SumFunction(claims) = SumFunction(claims) + SumFunction(claims)
    <2> HIDE DEF claims
    <2>1. QED
        BY <1>6
<1>11. QED
    <2> HIDE DEF perMarket, claims, both, seeds, opens
    <2>1. SumFunction(perMarket) = Overview.liquidityAtRisk
        BY <1>4, <1>5, <1>7, <1>8, <1>9, <1>10
    <2>2. QED
        BY <2>1 DEF perMarket

\* Net deposits are the same by trader and in the overview.
LEMMA DepositsAgree ==
    ASSUME AccountsInv
    PROVE  SumFunction([u \in Traders |-> UserHoldings(u).netDeposits]) = Overview.tvl
<1> DEFINE net == [u \in Traders |-> UserHoldings(u).netDeposits]
           in == [u \in Traders |-> Total(rows[u], {"deposit"})]
           out == [u \in Traders |-> Total(rows[u], {"withdraw"})]
<1>1. /\ DOMAIN net = Traders /\ DOMAIN in = Traders /\ DOMAIN out = Traders
      /\ \A u \in Traders : in[u] \in Int /\ out[u] \in Int /\ net[u] = in[u] - out[u]
    BY AccountsParts, TotalType DEF UserHoldings
<1>2. SumFunction(net) = SumFunction(in) - SumFunction(out)
    <2> HIDE DEF net, in, out
    <2>1. QED
        BY <1>1, FiniteAssumption, MinusSum
<1>3. Overview.tvl = SumFunction(in) - SumFunction(out)
    BY DEF Overview, AllUsers
<1>4. QED
    BY <1>2, <1>3

\* The invariant implies that the lists agree.
LEMMA ListsFollow ==
    ASSUME AccountsInv
    PROVE  ListsAgree
BY TradesCounted, VolumesAgree, ProfitsAgree, RisksAgree, DepositsAgree DEF ListsAgree

\* Of an open market the position rows, the tokens and the trades agree.
LEMMA OpenRows ==
    ASSUME AccountsInv, logs = {}, NEW m \in Markets \ Resolved, NEW u \in Traders
    PROVE  /\ \A s \in Sides : /\ balance[<<u, m>>][s] \in Nat
                               /\ balance[<<u, m>>][s] = held[<<u, m>>][s]
           /\ (\E g \in Groups(m) : HasExposure(Exposure(u, m, g))) <=>
                  \E s \in Sides : balance[<<u, m>>][s] > 0
<1>1. m \in Markets /\ outcome[m] = Open
    <2>1. market[m].result = Open
        BY DEF Resolved
    <2>2. outcome[m] # Open /\ market[m].result = Open =>
              \E log \in logs : log.kind = "resolved" /\ log.market = m
        BY AccountsParts DEF ResolutionInv
    <2>3. QED
        BY <2>1, <2>2
<1>2. \A s \in Sides : /\ held[<<u, m>>][s] = NetOf(rows[u], m, s)
                       /\ balance[<<u, m>>][s] = NetOf(rows[u], m, s)
    BY <1>1, AccountsParts, OpenPosition
<1>3. \A s \in Sides : balance[<<u, m>>][s] \in Nat
    BY AccountsParts DEF TypeOK
<1>4. ASSUME NEW g \in Groups(m), HasExposure(Exposure(u, m, g))
      PROVE  \E s \in Sides : balance[<<u, m>>][s] > 0
    <2>1. PICK s \in Sides : g = GroupOf(m, s)
        BY DEF Groups
    <2>2. PICK t \in Sides : Exposure(u, m, g).shares[t] > 0
        BY <1>4 DEF HasExposure
    <2>3. t \in g
        <3>1. \A x \in Sides \ GroupOf(m, s) : Exposure(u, m, GroupOf(m, s)).shares[x] = 0
            BY <1>1, AccountsParts DEF PositionInv
        <3>2. QED
            BY <2>1, <2>2, <3>1
    <2>4. g = GroupOf(m, t)
        BY <1>1, <2>3, GroupsFinite
    <2>5. Exposure(u, m, GroupOf(m, t)).shares[t] = NetOf(rows[u], m, t)
        BY <1>1, AccountsParts DEF PositionInv
    <2>6. QED
        BY <1>2, <2>2, <2>4, <2>5
<1>5. ASSUME NEW s \in Sides, balance[<<u, m>>][s] > 0
      PROVE  \E g \in Groups(m) : HasExposure(Exposure(u, m, g))
    <2>1. Exposure(u, m, GroupOf(m, s)).shares[s] = NetOf(rows[u], m, s)
        BY <1>1, AccountsParts DEF PositionInv
    <2>2. HasExposure(Exposure(u, m, GroupOf(m, s)))
        BY <1>2, <1>5, <2>1 DEF HasExposure
    <2>3. GroupOf(m, s) \in Groups(m)
        BY DEF Groups
    <2>4. QED
        BY <2>2, <2>3
<1>6. QED
    BY <1>2, <1>3, <1>4, <1>5

\* The invariant implies that the holders of an open market are those
\* exposed in it.
LEMMA HoldersFollow ==
    ASSUME AccountsInv, logs = {}
    PROVE  HoldersExposed
<1> SUFFICES ASSUME NEW m \in Markets \ Resolved
             PROVE  LET exposed == {u \in Traders :
                                        \E g \in Groups(m) : HasExposure(Exposure(u, m, g))}
                    IN  /\ {h.user : h \in Holders(m)} = exposed
                        /\ Holdings(m).holderCount = Cardinality(exposed)
                        /\ Holdings(m).openInterest =
                               SumFunction([s \in Sides |-> Outstanding(held, m, s)])
    BY DEF HoldersExposed
<1> DEFINE exposed == {u \in Traders : \E g \in Groups(m) : HasExposure(Exposure(u, m, g))}
           holding == {u \in Traders : \E s \in Sides : balance[<<u, m>>][s] > 0}
<1>1. exposed = holding
    BY OpenRows
<1>2. \A u \in Traders : /\ DOMAIN balance[<<u, m>>] = Sides
                         /\ \A s \in Sides : balance[<<u, m>>][s] \in Nat
    BY AccountsParts DEF TypeOK
<1>3. \A u \in Traders : OfMarket(u, m) > 0 <=> u \in holding
    <2>1. ASSUME NEW u \in Traders PROVE OfMarket(u, m) > 0 <=> u \in holding
        <3> DEFINE b == balance[<<u, m>>]
        <3>1. DOMAIN b = Sides /\ \A s \in Sides : b[s] \in Nat
            BY <1>2
        <3>2. OfMarket(u, m) = SumFunctionOnSet(b, Sides) /\ OfMarket(u, m) = SumFunction(b)
            BY <3>1 DEF OfMarket, SumFunction
        <3>3. u \in holding <=> \E s \in Sides : b[s] > 0
            OBVIOUS
        <3> HIDE DEF b, holding
        <3>4. /\ SumFunctionOnSet(b, Sides) \in Nat
              /\ \A s \in Sides : b[s] <= SumFunctionOnSet(b, Sides)
            BY <3>1, FiniteAssumption, SumsNat
        <3>5. CASE \E s \in Sides : b[s] > 0
            BY <3>1, <3>2, <3>3, <3>4, <3>5
        <3>6. CASE ~\E s \in Sides : b[s] > 0
            <4>1. \A s \in Sides : b[s] = 0
                BY <3>1, <3>6
            <4>2. SumFunction(b) = 0
                BY <3>1, <4>1, FiniteAssumption, ZeroSum
            <4>3. QED
                BY <3>2, <3>3, <3>6, <4>2
        <3>7. QED
            BY <3>5, <3>6
    <2>2. QED
        BY <2>1
<1>4. {h.user : h \in Holders(m)} = holding
    <2>1. ASSUME NEW h \in Holders(m) PROVE h.user \in holding
        <3>1. CASE m \in Binary
            <4>1. PICK u \in {x \in Traders : OfMarket(x, m) > 0} :
                      h = [user |-> u, shares |-> OfMarket(u, m)]
                BY <3>1 DEF Holders
            <4>2. h.user = u
                BY <4>1
            <4>3. u \in holding
                BY <1>3
            <4>4. QED
                BY <4>2, <4>3
        <3>2. CASE m \notin Binary
            <4>1. PICK k \in {x \in Traders \X Sides : balance[<<x[1], m>>][x[2]] > 0} :
                      h = [user |-> k[1], side |-> k[2], shares |-> balance[<<k[1], m>>][k[2]]]
                BY <3>2 DEF Holders
            <4>2. h.user = k[1]
                BY <4>1
            <4>3. k[1] \in holding
                OBVIOUS
            <4>4. QED
                BY <4>2, <4>3
        <3>3. QED
            BY <3>1, <3>2
    <2>2. ASSUME NEW u \in holding PROVE \E h \in Holders(m) : h.user = u
        <3>1. CASE m \in Binary
            <4> DEFINE h == [user |-> u, shares |-> OfMarket(u, m)]
            <4>1. u \in {x \in Traders : OfMarket(x, m) > 0}
                BY <1>3
            <4>2. h \in Holders(m) /\ h.user = u
                BY <3>1, <4>1 DEF Holders
            <4>3. QED
                BY <4>2
        <3>2. CASE m \notin Binary
            <4>1. PICK s \in Sides : balance[<<u, m>>][s] > 0
                OBVIOUS
            <4> DEFINE k == <<u, s>>
                       h == [user |-> k[1], side |-> k[2], shares |-> balance[<<k[1], m>>][k[2]]]
            <4>2. k \in {x \in Traders \X Sides : balance[<<x[1], m>>][x[2]] > 0} /\ k[1] = u
                BY <4>1
            <4>3. h \in Holders(m) /\ h.user = u
                <5> HIDE DEF k
                <5>1. QED
                    BY <3>2, <4>2 DEF Holders
            <4>4. QED
                BY <4>3
        <3>3. QED
            BY <3>1, <3>2
    <2>3. QED
        <3> HIDE DEF holding
        <3>1. QED
            BY <2>1, <2>2
<1>5. Holdings(m).holderCount = Cardinality(holding)
    <2>1. {u \in Traders : OfMarket(u, m) > 0} = holding
        BY <1>3
    <2>2. QED
        BY <2>1 DEF Holdings
<1>6. Holdings(m).openInterest = SumFunction([s \in Sides |-> Outstanding(held, m, s)])
    <2> DEFINE byBoth == [u \in Traders |-> [s \in Sides |-> held[<<u, m>>][s]]]
               column == [s \in Sides |-> [u \in Traders |-> held[<<u, m>>][s]]]
               byUser == [u \in Traders |-> OfMarket(u, m)]
               bySide == [s \in Sides |-> Outstanding(held, m, s)]
    <2>1. \A u \in Traders : DOMAIN byBoth[u] = Sides /\ \A s \in Sides : byBoth[u][s] \in Int
        BY AccountsParts DEF TypeOK
    <2>2. \A s \in Sides :
              DOMAIN column[s] = Traders /\ \A u \in Traders : column[s][u] = byBoth[u][s]
        OBVIOUS
    <2>3. DOMAIN byUser = Traders /\ \A u \in Traders : byUser[u] = SumFunction(byBoth[u])
        <3>1. ASSUME NEW u \in Traders PROVE byUser[u] = SumFunction(byBoth[u])
            <4>1. balance[<<u, m>>] = [s \in Sides |-> balance[<<u, m>>][s]]
                <5>1. balance[<<u, m>>] \in [Sides -> Nat]
                    BY AccountsParts DEF TypeOK
                <5>2. QED
                    BY <5>1
            <4>2. \A s \in Sides : balance[<<u, m>>][s] = held[<<u, m>>][s]
                BY OpenRows
            <4>3. balance[<<u, m>>] = byBoth[u]
                BY <4>1, <4>2
            <4>4. QED
                BY <4>3 DEF OfMarket
        <3>2. QED
            BY <3>1
    <2>4. DOMAIN bySide = Sides /\ \A s \in Sides : bySide[s] = SumFunction(column[s])
        BY DEF Outstanding
    <2>5. SumFunction(byUser) = SumFunction(bySide)
        <3>1. IsFiniteSet(Traders) /\ IsFiniteSet(Sides)
            BY FiniteAssumption
        <3> HIDE DEF byBoth, column, byUser, bySide, exposed, holding
        <3>2. QED
            BY <2>1, <2>2, <2>3, <2>4, <3>1, SwapSum
    <2>6. Holdings(m).openInterest = SumFunction(byUser)
        BY DEF Holdings
    <2>7. QED
        BY <2>5, <2>6
<1>7. QED
    BY <1>1, <1>4, <1>5, <1>6

\* The invariant implies that the books balance.
LEMMA BooksFollow == AccountsInv => BooksBalance
<1>1. AccountsInv => TypeOK
    BY AccountsParts
<1>2. AccountsInv /\ logs = {} =>
          /\ LedgersSettle
          /\ SummariesSettle
          /\ TotalsSettle
          /\ ListsAgree
          /\ HoldersExposed
    BY LedgersFollow, SummariesFollow, TotalsFollow, ListsFollow, HoldersFollow
<1>3. QED
    BY <1>1, <1>2 DEF BooksBalance

\* Always, once every event is handled, every trader's transactions sum up
\* to the trader's escrow, the summaries to the house's estimates, the
\* overview's totals to the money there is, the admin's lists to the
\* overview, and the holders of open markets are those exposed by trades
\* (trading.ts, pnl.ts, admin.ts).
THEOREM BooksAlwaysBalance == AccountsSpec => []BooksBalance
<1>1. QED
    BY AccountsInvariant, BooksFollow, PTL

---------------------------------------------------------------------------
(* Redemptions are named *)

Namings == [used: SUBSET Markets, named: Seq(Markets \union {Open})]
NoNaming == [used |-> {}, named |-> <<>>]
NamingOf(u, acc, r) == IF r.kind = "redemption" THEN NameRedemption(u, acc, r) ELSE acc
NamingSteps(u, rs) ==
    [p \in (1..Len(rs)) \X Namings |-> NamingOf(u, p[2], rs[p[1]])]

\* A market that a redemption may be named after was traded in.
LEMMA ContextTraded ==
    ASSUME AccountsInv, NEW u \in Traders, NEW m \in Contexts(u)
    PROVE  m \in Resolved /\ m \in Markets /\ LastTrade(u, m) \in Nat
<1> DEFINE o == market[m].result
           ids == {i \in DOMAIN rows[u] : IsTradeOf(rows[u][i], m, GroupOf(m, o))}
           net == [i \in DOMAIN rows[u] |->
                       IF ~IsTradeOf(rows[u][i], m, {o}) THEN 0
                       ELSE IF rows[u][i].kind = "buy" THEN rows[u][i].shares
                       ELSE -rows[u][i].shares]
<1>1. m \in Resolved /\ NetShares(u, m) > 0
    BY DEF Contexts
<1>2. m \in Markets /\ o \in Sides
    BY <1>1, ResolvedAs
<1>3. rows[u] \in Seq(Rows)
    BY AccountsParts DEF RowsInv
<1>4. DOMAIN rows[u] = 1..Len(rows[u]) /\ Len(rows[u]) \in Nat
    BY <1>3
<1>5. ids # {}
    <2>1. SUFFICES ASSUME ids = {} PROVE FALSE
        OBVIOUS
    <2>2. ASSUME NEW i \in DOMAIN rows[u] PROVE ~IsTradeOf(rows[u][i], m, {o})
        <3>1. o \in GroupOf(m, o)
            BY <1>2, GroupsOf
        <3>2. ~IsTradeOf(rows[u][i], m, GroupOf(m, o))
            BY <2>1
        <3>3. QED
            BY <3>1, <3>2 DEF IsTradeOf
    <2>3. DOMAIN net = DOMAIN rows[u] /\ \A i \in DOMAIN rows[u] : net[i] = 0
        BY <2>2
    <2>4. IsFiniteSet(DOMAIN rows[u])
        <3> HIDE DEF net, ids
        <3>1. IsFiniteSet(1..Len(rows[u]))
            BY <1>4, FS_Interval
        <3>2. QED
            BY <1>4, <3>1
    <2>5. SumFunction(net) = 0
        <3> HIDE DEF net
        <3>1. QED
            BY <2>3, <2>4, ZeroSum
    <2>6. NetShares(u, m) = SumFunction(net)
        BY DEF NetShares, NetOf
    <2>7. QED
        BY <1>1, <2>5, <2>6
<1>6. Max(ids) \in ids
    <2>1. ids \in SUBSET (1..Len(rows[u]))
        BY <1>4
    <2>2. QED
        <3> HIDE DEF ids
        <3>1. QED
            BY <1>4, <1>5, <2>1, MaxType
<1>7. LastTrade(u, m) = Max(ids)
    BY DEF LastTrade
<1>8. QED
    BY <1>1, <1>2, <1>4, <1>6, <1>7

\* There is an oldest of these markets.
LEMMA OldestIn ==
    ASSUME AccountsInv, NEW u \in Traders, NEW fit \in SUBSET Contexts(u), fit # {}
    PROVE  Oldest(u, fit) \in fit
<1> DEFINE lasts == {LastTrade(u, m) : m \in fit}
<1>1. \A m \in fit : LastTrade(u, m) \in Nat
    BY ContextTraded
<1>2. \E n \in lasts : \A x \in lasts : n <= x
    <2>1. lasts \in SUBSET Nat /\ lasts # {}
        BY <1>1
    <2>2. QED
        <3> HIDE DEF lasts
        <3>1. QED
            BY <2>1, LeastNumber
<1>3. \E m \in fit : \A k \in fit : LastTrade(u, m) <= LastTrade(u, k)
    BY <1>2
<1>4. QED
    BY <1>3 DEF Oldest

\* The state that redemptions are named in.
LEMMA NamingType ==
    ASSUME AccountsInv, NEW u \in Traders, NEW acc \in Namings, NEW r
    PROVE  NamingOf(u, acc, r) \in Namings
<1> DEFINE fit == NextContexts(u, r.amount, acc.used)
<1>1. fit \subseteq Contexts(u) /\ fit \subseteq Markets
    BY DEF NextContexts, Contexts, Resolved
<1>2. CASE r.kind = "redemption" /\ fit = {}
    <2>1. NamingOf(u, acc, r) = [acc EXCEPT !.named = Append(@, Open)]
        BY <1>2 DEF NamingOf, NameRedemption
    <2>2. acc.named \in Seq(Markets \union {Open}) /\ Open \in Markets \union {Open}
        BY DEF Namings
    <2>3. Append(acc.named, Open) \in Seq(Markets \union {Open})
        BY <2>2
    <2>4. QED
        <3> HIDE DEF fit
        <3>1. QED
            BY <2>1, <2>3 DEF Namings
<1>3. CASE r.kind = "redemption" /\ fit # {}
    <2>1. NamingOf(u, acc, r) = [used |-> acc.used \union {Oldest(u, fit)},
                                 named |-> Append(acc.named, Oldest(u, fit))]
        BY <1>3 DEF NamingOf, NameRedemption
    <2>2. Oldest(u, fit) \in Markets
        BY <1>1, <1>3, OldestIn
    <2>3. QED
        <3> HIDE DEF fit
        <3>1. QED
            BY <2>1, <2>2 DEF Namings
<1>4. CASE r.kind # "redemption"
    BY <1>4 DEF NamingOf
<1>5. QED
    BY <1>2, <1>3, <1>4

\* Naming runs through the rows one after the other, newest first.
LEMMA NamesRun ==
    ASSUME AccountsInv, NEW u \in Traders
    PROVE  LET rs == Reverse(rows[u])
           IN  \E run : /\ IsRun(run, Len(rs), Namings, NoNaming, NamingSteps(u, rs))
                        /\ Redemptions(u) = run[Len(rs)].named
<1> DEFINE rs == Reverse(rows[u])
           n == Len(rs)
           step == NamingSteps(u, rs)
           defines(iter) == iter = [X \in SUBSET (1..n) |->
               IF X = {} THEN [used |-> {}, named |-> <<>>]
               ELSE IF rs[Max(X)].kind = "redemption"
                      THEN NameRedemption(u, iter[X \ {Max(X)}], rs[Max(X)])
                      ELSE iter[X \ {Max(X)}]]
<1>1. rs \in Seq(Rows) /\ n \in Nat /\ DOMAIN rs = 1..n
    <2>1. rows[u] \in Seq(Rows)
        BY AccountsParts DEF RowsInv
    <2>2. rs \in Seq(Rows)
        BY <2>1, RowsReverse
    <2>3. QED
        <3> HIDE DEF rs
        <3>1. QED
            BY <2>2
<1> HIDE DEF rs
<1>2. step \in [(1..n) \X Namings -> Namings] /\ NoNaming \in Namings
    <2>1. \A p \in (1..n) \X Namings : NamingOf(u, p[2], rs[p[1]]) \in Namings
        BY NamingType
    <2>2. NoNaming \in Namings
        BY DEF NoNaming, Namings
    <2>3. QED
        BY <2>1, <2>2 DEF NamingSteps
<1>3. PICK iter : FoldsBy(iter, n, Namings, NoNaming, step)
    <2> HIDE DEF n, step
    <2>1. QED
        BY <1>1, <1>2, FoldRuns
<1>4. /\ iter \in [SUBSET (1..n) -> Namings]
      /\ iter = [X \in SUBSET (1..n) |-> IF X = {} THEN NoNaming
                        ELSE step[<<Max(X), iter[X \ {Max(X)}]>>]]
    <2> HIDE DEF n, step
    <2>1. QED
        BY <1>3 DEF FoldsBy
<1>5. \A X \in SUBSET (1..n) : X # {} =>
          step[<<Max(X), iter[X \ {Max(X)}]>>] =
              IF rs[Max(X)].kind = "redemption"
                THEN NameRedemption(u, iter[X \ {Max(X)}], rs[Max(X)])
                ELSE iter[X \ {Max(X)}]
    <2>1. SUFFICES ASSUME NEW X \in SUBSET (1..n), X # {}
                   PROVE  step[<<Max(X), iter[X \ {Max(X)}]>>] =
                              NamingOf(u, iter[X \ {Max(X)}], rs[Max(X)])
        BY DEF NamingOf
    <2>2. Max(X) \in 1..n /\ iter[X \ {Max(X)}] \in Namings
        BY <1>1, <1>4, <2>1, MaxType
    <2>3. QED
        BY <2>2 DEF NamingSteps
<1>6. defines(iter)
    <2> HIDE DEF step
    <2>1. QED
        BY <1>4, <1>5 DEF NoNaming
<1>7. defines(CHOOSE h : defines(h))
    <2> HIDE DEF defines
    <2>1. QED
        BY <1>6
<1>8. Redemptions(u) = (CHOOSE h : defines(h))[1..n].named
    BY <1>1 DEF Redemptions, FoldLeft, MapThenFoldSet, rs
<1>9. ASSUME NEW h, defines(h)
      PROVE  h = iter
    <2> DEFINE same == {X \in SUBSET (1..n) : h[X] = iter[X]}
    <2>1. ASSUME NEW X \in SUBSET (1..n), \A x \in X : X \ {x} \in same PROVE X \in same
        <3>1. CASE X = {}
            BY <1>6, <1>9, <3>1
        <3>2. CASE X # {}
            <4>1. Max(X) \in X
                BY <1>1, <3>2, MaxType
            <4>2. X \ {Max(X)} \in SUBSET (1..n) /\ h[X \ {Max(X)}] = iter[X \ {Max(X)}]
                BY <2>1, <4>1
            <4>3. QED
                BY <1>6, <1>9, <3>2, <4>2
        <3>3. QED
            BY <3>1, <3>2
    <2>2. \A X \in SUBSET (1..n) : X \in same
        <3> HIDE DEF same, defines
        <3>1. IsFiniteSet(1..n)
            BY <1>1, FS_Interval
        <3>2. QED
            BY <2>1, <3>1, SubsetInduction
    <2>3. QED
        BY <1>6, <1>9, <2>2
<1>10. Redemptions(u) = iter[1..n].named
    <2> HIDE DEF defines
    <2>1. QED
        BY <1>7, <1>8, <1>9
<1> DEFINE run == [k \in 0..n |-> iter[1..k]]
<1>11. Redemptions(u) = run[n].named
    BY <1>1, <1>10
<1>12. IsRun(run, n, Namings, NoNaming, step)
    <2> HIDE DEF n, step
    <2>1. QED
        BY <1>3 DEF FoldsBy
<1>13. QED
    <2> HIDE DEF run
    <2>1. QED
        BY <1>11, <1>12 DEF rs

\* Redemptions that were named, when those of prior were looked at.
MarketsWorth(u, ms, a) == {m \in ms : NetShares(u, m) = a}

WellNamed(u, acc, prior) ==
    /\ acc.used \subseteq Contexts(u)
    /\ \A i \in 1..Len(acc.named) : acc.named[i] \in acc.used
    /\ \A i, j \in 1..Len(acc.named) : acc.named[i] = acc.named[j] => i = j
    /\ \A a : Cardinality(MarketsWorth(u, acc.used, a)) <=
                  Cardinality(MarketsWorth(u, prior, a))

\* Finitely many markets are worth an amount.
LEMMA ContextsFinite ==
    ASSUME NEW u, NEW ms \in SUBSET Contexts(u), NEW a
    PROVE  /\ IsFiniteSet(MarketsWorth(u, ms, a))
           /\ Cardinality(MarketsWorth(u, ms, a)) \in Nat
<1>1. MarketsWorth(u, ms, a) \in SUBSET Markets
    BY DEF MarketsWorth, Contexts, Resolved
<1>2. IsFiniteSet(MarketsWorth(u, ms, a))
    BY <1>1, FiniteAssumption, FS_Subset
<1>3. QED
    BY <1>2, FS_CardinalityType

\* One market more counts for its worth only.
LEMMA OneMoreWorth ==
    ASSUME NEW u, NEW ms \in SUBSET Contexts(u), NEW m \in Contexts(u), m \notin ms, NEW a
    PROVE  Cardinality(MarketsWorth(u, ms \union {m}, a)) =
               Cardinality(MarketsWorth(u, ms, a)) + IF NetShares(u, m) = a THEN 1 ELSE 0
<1>1. IsFiniteSet(MarketsWorth(u, ms, a)) /\ Cardinality(MarketsWorth(u, ms, a)) \in Nat
    BY ContextsFinite
<1>2. CASE NetShares(u, m) = a
    <2>1. /\ MarketsWorth(u, ms \union {m}, a) = MarketsWorth(u, ms, a) \union {m}
          /\ m \notin MarketsWorth(u, ms, a)
        BY <1>2 DEF MarketsWorth
    <2>2. QED
        BY <1>1, <1>2, <2>1, FS_AddElement
<1>3. CASE NetShares(u, m) # a
    <2>1. MarketsWorth(u, ms \union {m}, a) = MarketsWorth(u, ms, a)
        BY <1>3 DEF MarketsWorth
    <2>2. QED
        BY <1>1, <1>3, <2>1
<1>4. QED
    BY <1>2, <1>3

\* One redemption more finds a market of its worth that was not given before.
LEMMA NameOne ==
    ASSUME AccountsInv, NEW u \in Traders, NEW acc \in Namings,
           NEW prior \in SUBSET Contexts(u), WellNamed(u, acc, prior),
           NEW own \in Contexts(u), own \notin prior,
           NEW r, r.amount = NetShares(u, own)
    PROVE  WellNamed(u, NameRedemption(u, acc, r), prior \union {own})
<1> DEFINE a == r.amount
           fit == NextContexts(u, a, acc.used)
           new == Oldest(u, fit)
           next == NameRedemption(u, acc, r)
<1>1. acc.used \in SUBSET Contexts(u) /\ acc.named \in Seq(Markets \union {Open})
    BY DEF WellNamed, Namings
<1>2. fit # {}
    <2>1. SUFFICES ASSUME fit = {} PROVE FALSE
        OBVIOUS
    <2>2. MarketsWorth(u, prior \union {own}, a) \subseteq MarketsWorth(u, acc.used, a)
        BY <2>1 DEF MarketsWorth, NextContexts
    <2>3. Cardinality(MarketsWorth(u, prior \union {own}, a)) <=
              Cardinality(MarketsWorth(u, acc.used, a))
        BY <1>1, <2>2, ContextsFinite, FS_Subset
    <2>4. Cardinality(MarketsWorth(u, prior \union {own}, a)) =
              Cardinality(MarketsWorth(u, prior, a)) + 1
        BY OneMoreWorth
    <2>5. Cardinality(MarketsWorth(u, acc.used, a)) <= Cardinality(MarketsWorth(u, prior, a))
        BY DEF WellNamed
    <2>6. /\ Cardinality(MarketsWorth(u, acc.used, a)) \in Nat
          /\ Cardinality(MarketsWorth(u, prior, a)) \in Nat
        BY <1>1, ContextsFinite
    <2> HIDE DEF a
    <2>7. QED
        BY <2>3, <2>4, <2>5, <2>6
<1>3. new \in Contexts(u) /\ new \notin acc.used /\ NetShares(u, new) = a
    <2>1. fit \in SUBSET Contexts(u)
        BY DEF NextContexts
    <2>2. new \in fit
        BY <1>2, <2>1, OldestIn
    <2>3. QED
        <3> HIDE DEF new
        <3>1. QED
            BY <2>2 DEF NextContexts
<1>4. next = [used |-> acc.used \union {new}, named |-> Append(acc.named, new)]
    BY <1>2 DEF NameRedemption
<1>5. next.used = acc.used \union {new} /\ next.named = Append(acc.named, new)
    BY <1>4
<1> HIDE DEF next, new, fit, a
<1>6. new \in Markets \union {Open}
    BY <1>3 DEF Contexts, Resolved
<1>7. /\ Len(next.named) = Len(acc.named) + 1 /\ Len(acc.named) \in Nat
      /\ next.named[Len(acc.named) + 1] = new
      /\ \A i \in 1..Len(acc.named) : next.named[i] = acc.named[i]
    BY <1>1, <1>5, <1>6
<1>8. next.used \subseteq Contexts(u)
    BY <1>1, <1>3, <1>5
<1>9. \A i \in 1..Len(acc.named) : acc.named[i] \in acc.used
    BY DEF WellNamed
<1>10. \A i \in 1..Len(next.named) : next.named[i] \in next.used
    BY <1>5, <1>7, <1>9
<1>11. \A i, j \in 1..Len(next.named) : next.named[i] = next.named[j] => i = j
    <2>1. \A i, j \in 1..Len(acc.named) : acc.named[i] = acc.named[j] => i = j
        BY DEF WellNamed
    <2>2. \A i \in 1..Len(acc.named) : next.named[i] # new
        BY <1>3, <1>7, <1>9
    <2>3. ASSUME NEW i \in 1..Len(next.named), NEW j \in 1..Len(next.named), i # j
          PROVE  next.named[i] # next.named[j]
        <3> DEFINE n == Len(acc.named)
        <3>1. (i \in 1..n \/ i = n + 1) /\ (j \in 1..n \/ j = n + 1)
            BY <1>7
        <3>2. CASE i \in 1..n /\ j \in 1..n
            BY <1>7, <2>1, <2>3, <3>2
        <3>3. CASE i \in 1..n /\ j = n + 1
            BY <1>7, <2>2, <3>3
        <3>4. CASE i = n + 1 /\ j \in 1..n
            BY <1>7, <2>2, <3>4
        <3>5. QED
            BY <2>3, <3>1, <3>2, <3>3, <3>4
    <2>4. QED
        BY <2>3
<1>12. ASSUME NEW x
       PROVE  Cardinality(MarketsWorth(u, next.used, x)) <=
                  Cardinality(MarketsWorth(u, prior \union {own}, x))
    <2>1. Cardinality(MarketsWorth(u, next.used, x)) =
              Cardinality(MarketsWorth(u, acc.used, x)) + IF a = x THEN 1 ELSE 0
        <3>1. Cardinality(MarketsWorth(u, acc.used \union {new}, x)) =
                  Cardinality(MarketsWorth(u, acc.used, x))
                    + IF NetShares(u, new) = x THEN 1 ELSE 0
            BY <1>1, <1>3, OneMoreWorth
        <3>2. QED
            BY <1>3, <1>5, <3>1
    <2>2. Cardinality(MarketsWorth(u, prior \union {own}, x)) =
              Cardinality(MarketsWorth(u, prior, x)) + IF a = x THEN 1 ELSE 0
        <3>1. Cardinality(MarketsWorth(u, prior \union {own}, x)) =
                  Cardinality(MarketsWorth(u, prior, x))
                    + IF NetShares(u, own) = x THEN 1 ELSE 0
            BY OneMoreWorth
        <3>2. QED
            BY <3>1 DEF a
    <2>3. Cardinality(MarketsWorth(u, acc.used, x)) <= Cardinality(MarketsWorth(u, prior, x))
        BY DEF WellNamed
    <2>4. /\ Cardinality(MarketsWorth(u, acc.used, x)) \in Nat
          /\ Cardinality(MarketsWorth(u, prior, x)) \in Nat
        BY <1>1, ContextsFinite
    <2>5. QED
        BY <2>1, <2>2, <2>3, <2>4
<1>13. QED
    BY <1>8, <1>10, <1>11, <1>12 DEF WellNamed, next

\* A booked redemption is of a market of its worth, and no two are of one market.
LEMMA RedemptionRows ==
    ASSUME AccountsInv, logs = {}, NEW u \in Traders
    PROVE  /\ \A i \in DOMAIN rows[u] : rows[u][i].kind = "redemption" =>
                  /\ rows[u][i].market \in Contexts(u)
                  /\ rows[u][i].amount = NetShares(u, rows[u][i].market)
           /\ \A i, j \in DOMAIN rows[u] :
                  /\ rows[u][i].kind = "redemption" /\ rows[u][j].kind = "redemption"
                  /\ rows[u][i].market = rows[u][j].market
                  => i = j
<1>1. \A i \in DOMAIN rows[u] : rows[u][i].kind = "redemption" =>
          i \in EventIds(u) /\ rows[u][i] \in EventsOf(u)
    BY DEF EventIds, EventsOf, IsTrade
<1>2. ASSUME NEW i \in DOMAIN rows[u], rows[u][i].kind = "redemption"
      PROVE  /\ rows[u][i].market \in Contexts(u)
             /\ rows[u][i].amount = NetShares(u, rows[u][i].market)
    <2> DEFINE e == rows[u][i]
    <2>1. /\ e.market \in Markets /\ outcome[e.market] # Open
          /\ e.amount = NetOf(rows[u], e.market, outcome[e.market]) /\ e.amount > 0
        BY <1>1, <1>2, AccountsParts DEF EventsInv
    <2>2. market[e.market].result # Open
        BY <2>1, AccountsParts DEF ResolutionInv
    <2>3. e.market \in Resolved
        BY <2>1, <2>2 DEF Resolved
    <2>4. market[e.market].result = outcome[e.market]
        BY <2>3, ResolvedAs
    <2>5. e.amount = NetShares(u, e.market)
        BY <2>1, <2>4 DEF NetShares
    <2>6. QED
        BY <2>1, <2>3, <2>5 DEF Contexts
<1>3. \A i, j \in DOMAIN rows[u] :
          /\ rows[u][i].kind = "redemption" /\ rows[u][j].kind = "redemption"
          /\ rows[u][i].market = rows[u][j].market
          => rows[u][i] = rows[u][j]
    BY <1>1, AccountsParts DEF EventsInv
<1>4. \A i, j \in EventIds(u) : rows[u][i] = rows[u][j] => i = j
    BY AccountsParts DEF EventsInv
<1>5. QED
    BY <1>1, <1>2, <1>3, <1>4

\* The same of the rows in the order they are named, newest first.
LEMMA NewestFirst ==
    ASSUME AccountsInv, logs = {}, NEW u \in Traders
    PROVE  LET rs == Reverse(rows[u])
           IN  /\ rs \in Seq(Rows)
               /\ \A k \in 1..Len(rs) : rs[k].kind = "redemption" =>
                      rs[k].market \in Contexts(u) /\ rs[k].amount = NetShares(u, rs[k].market)
               /\ \A j, k \in 1..Len(rs) :
                      /\ rs[j].kind = "redemption" /\ rs[k].kind = "redemption"
                      /\ rs[j].market = rs[k].market
                      => j = k
<1> DEFINE rs == Reverse(rows[u])
           n == Len(rows[u])
<1>1. rows[u] \in Seq(Rows)
    BY AccountsParts DEF RowsInv
<1>2. DOMAIN rows[u] = 1..n /\ n \in Nat
    BY <1>1
<1>3. rs \in Seq(Rows) /\ Len(rs) = n /\ \A k \in 1..n : rs[k] = rows[u][n - k + 1]
    BY <1>1, RowsReverse
<1>4. \A k \in 1..n : n - k + 1 \in DOMAIN rows[u]
    BY <1>2
<1> HIDE DEF rs, n
<1>5. ASSUME NEW k \in 1..n, rs[k].kind = "redemption"
      PROVE  rs[k].market \in Contexts(u) /\ rs[k].amount = NetShares(u, rs[k].market)
    BY <1>3, <1>4, <1>5, RedemptionRows
<1>6. ASSUME NEW j \in 1..n, NEW k \in 1..n,
             rs[j].kind = "redemption", rs[k].kind = "redemption", rs[j].market = rs[k].market
      PROVE  j = k
    <2>1. n - j + 1 = n - k + 1
        BY <1>3, <1>4, <1>6, RedemptionRows
    <2>2. QED
        BY <1>2, <2>1
<1>7. QED
    BY <1>3, <1>5, <1>6 DEF rs

\* The invariant implies that redemptions are named: before each, no more
\* markets of its worth were given than redemptions of that worth were
\* named, so that one is left.
LEMMA NamesFollow == AccountsInv => RedemptionsNamed
<1> SUFFICES ASSUME AccountsInv, logs = {}, NEW u \in Traders
             PROVE  \A i, j \in DOMAIN Redemptions(u) :
                        /\ Redemptions(u)[i] # Open
                        /\ Redemptions(u)[i] = Redemptions(u)[j] => i = j
    BY DEF RedemptionsNamed
<1> DEFINE rs == Reverse(rows[u])
           n == Len(rs)
           prior(k) == {rs[j].market : j \in {x \in 1..k : rs[x].kind = "redemption"}}
<1>1. /\ rs \in Seq(Rows)
      /\ \A k \in 1..n : rs[k].kind = "redemption" =>
             rs[k].market \in Contexts(u) /\ rs[k].amount = NetShares(u, rs[k].market)
      /\ \A j, k \in 1..n :
             /\ rs[j].kind = "redemption" /\ rs[k].kind = "redemption"
             /\ rs[j].market = rs[k].market
             => j = k
    BY NewestFirst
<1>2. PICK run : /\ IsRun(run, n, Namings, NoNaming, NamingSteps(u, rs))
                 /\ Redemptions(u) = run[n].named
    BY NamesRun
<1> HIDE DEF rs
<1>3. n \in Nat
    BY <1>1
<1>4. /\ run \in [0..n -> Namings] /\ run[0] = NoNaming
      /\ \A k \in 1..n : run[k] = NamingOf(u, run[k - 1], rs[k])
    <2>1. /\ run \in [0..n -> Namings] /\ run[0] = NoNaming
          /\ \A k \in 1..n : run[k] = NamingSteps(u, rs)[<<k, run[k - 1]>>]
        BY <1>2 DEF IsRun
    <2>2. \A k \in 1..n : k - 1 \in 0..n
        BY <1>3
    <2>3. \A k \in 1..n : <<k, run[k - 1]>> \in (1..n) \X Namings
        BY <2>1, <2>2
    <2>4. QED
        BY <2>1, <2>3 DEF NamingSteps
<1>5. \A k \in 0..n : prior(k) \in SUBSET Contexts(u)
    BY <1>1, <1>3
<1> DEFINE Good == {k \in 0..n : WellNamed(u, run[k], prior(k))}
<1>6. 0 \in Good
    <2>1. run[0].used = {} /\ run[0].named = <<>>
        BY <1>4 DEF NoNaming
    <2>2. \A a : MarketsWorth(u, {}, a) = {} /\ MarketsWorth(u, prior(0), a) = {}
        BY DEF MarketsWorth
    <2>3. Cardinality({}) = 0
        BY FS_EmptySet
    <2>4. WellNamed(u, run[0], prior(0))
        <3> HIDE DEF prior
        <3>1. Len(run[0].named) = 0 /\ 1..0 = {}
            BY <2>1
        <3>2. ASSUME NEW a
              PROVE  Cardinality(MarketsWorth(u, run[0].used, a)) <=
                         Cardinality(MarketsWorth(u, prior(0), a))
            <4>1. MarketsWorth(u, run[0].used, a) = {}
                BY <2>1, <2>2
            <4>2. MarketsWorth(u, prior(0), a) = {}
                BY <2>2
            <4>3. Cardinality(MarketsWorth(u, run[0].used, a)) = 0
                BY <2>3, <4>1
            <4>4. Cardinality(MarketsWorth(u, prior(0), a)) = 0
                BY <2>3, <4>2
            <4>5. QED
                BY <4>3, <4>4
        <3>3. QED
            BY <2>1, <3>1, <3>2 DEF WellNamed
    <2>5. QED
        BY <1>3, <2>4
<1>7. ASSUME NEW k \in 1..n, k - 1 \in Good
      PROVE  k \in Good
    <2>1. k - 1 \in 0..n /\ k \in 0..n /\ (1..k) = (1..(k - 1)) \union {k} /\ k \notin 1..(k - 1)
        BY <1>3
    <2>2. run[k - 1] \in Namings /\ WellNamed(u, run[k - 1], prior(k - 1))
        BY <1>4, <1>7, <2>1
    <2>3. prior(k - 1) \in SUBSET Contexts(u)
        BY <1>5, <2>1
    <2>4. CASE rs[k].kind = "redemption"
        <3> DEFINE own == rs[k].market
        <3>1. own \in Contexts(u) /\ rs[k].amount = NetShares(u, own)
            BY <1>1, <2>4
        <3>2. own \notin prior(k - 1)
            <4>1. SUFFICES ASSUME own \in prior(k - 1) PROVE FALSE
                OBVIOUS
            <4>2. PICK j \in 1..(k - 1) : rs[j].kind = "redemption" /\ rs[j].market = own
                BY <4>1
            <4>3. j \in 1..n
                BY <1>3, <2>1
            <4>4. j = k
                BY <1>1, <2>4, <4>2, <4>3
            <4>5. QED
                BY <2>1, <4>4
        <3>3. prior(k) = prior(k - 1) \union {own}
            BY <2>1, <2>4
        <3>4. run[k] = NameRedemption(u, run[k - 1], rs[k])
            BY <1>4, <2>4 DEF NamingOf
        <3>5. WellNamed(u, run[k], prior(k))
            <4> HIDE DEF prior, own
            <4>1. QED
                BY <2>2, <2>3, <3>1, <3>2, <3>3, <3>4, NameOne
        <3>6. QED
            BY <2>1, <3>5
    <2>5. CASE rs[k].kind # "redemption"
        <3>1. prior(k) = prior(k - 1)
            BY <2>1, <2>5
        <3>2. run[k] = run[k - 1]
            BY <1>4, <2>5 DEF NamingOf
        <3>3. WellNamed(u, run[k], prior(k))
            <4> HIDE DEF prior
            <4>1. QED
                BY <2>2, <3>1, <3>2
        <3>4. QED
            BY <2>1, <3>3
    <2>6. QED
        BY <2>4, <2>5
<1>8. n \in Good
    <2> HIDE DEF Good
    <2>1. \A k \in 0..n : k \in Good
        BY <1>3, <1>6, <1>7, PrefixInduction
    <2>2. QED
        BY <1>3, <2>1
<1>9. run[n] \in Namings /\ WellNamed(u, run[n], prior(n))
    BY <1>3, <1>4, <1>8
<1> HIDE DEF prior, Good
<1>10. DOMAIN Redemptions(u) = 1..Len(run[n].named)
    <2>1. run[n].named \in Seq(Markets \union {Open})
        BY <1>9 DEF Namings
    <2>2. QED
        BY <1>2, <2>1
<1>11. \A m \in Contexts(u) : m # Open
    BY MarketsAssumption DEF Contexts, Resolved
<1>12. QED
    BY <1>2, <1>9, <1>10, <1>11 DEF WellNamed

\* Always, once every event is handled, every redemption in a trader's list
\* of transactions (trading.ts) is shown with a market, and no two with the
\* same, though a redemption's row names none.
THEOREM RedemptionsAlwaysNamed == AccountsSpec => []RedemptionsNamed
<1>1. QED
    BY AccountsInvariant, NamesFollow, PTL
==============================================================================
