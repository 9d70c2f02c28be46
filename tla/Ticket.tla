------------------------------- MODULE Ticket -------------------------------
(***************************************************************************)
(* The order ticket of a market's page, of a binary market (TradePanel) or *)
(* of a ranged one (TradePanelRange): the trader fills it in, the page     *)
(* asks for a quote a moment after the last change, and an order is signed *)
(* with a floor taken from the quote.  Quotes are answered late, in any    *)
(* order or not at all, and the form can be changed while an order is on   *)
(* its way.  A quote is represented by the order it is for: its figures    *)
(* are those of Estimates.tla.  An amount of 0 is an empty field.          *)
(***************************************************************************)
EXTENDS Naturals, FiniteSets

CONSTANTS
    Outcomes,           \* YES and NO, or the ranges
    MaxTyped,           \* largest amount typed
    MaxEdits,           \* bound: changes of the form
    MaxAsked,           \* bound: quotes asked for and not answered
    NoQuote, NoOrder

ASSUME TicketAssumption ==
    /\ Outcomes # {}
    /\ MaxTyped \in Nat
    /\ NoQuote # NoOrder

VARIABLES
    panel,              \* "binary" or "range"
    ticket,             \* what the form says; max is sellMaxSelected
    timer,              \* a quote is due when the trader stops typing
    asked,              \* requests for quotes under way
    quote,              \* the quote on display
    order,              \* handleTrade under way, with what it was started with
    edits

ticketVars == <<panel, ticket, timer, asked, quote, order, edits>>

Request == [mode: {"buy", "sell"}, side: Outcomes, amount: 1..MaxTyped]
Asks(t) == [mode |-> t.mode, side |-> t.side, amount |-> t.amount]

TicketInit ==
    /\ panel \in {"binary", "range"}
    /\ ticket = [mode |-> "buy", side |-> CHOOSE s \in Outcomes : TRUE,
                 amount |-> 0, max |-> FALSE]
    /\ timer = FALSE /\ asked = {} /\ quote = NoQuote /\ order = NoOrder
    /\ edits = 0

---------------------------------------------------------------------------
(* The form *)

\* The effect that follows a change: it drops the timer and the quote, and
\* starts a timer unless the field is empty.
Change(t) ==
    /\ panel = "binary"
    /\ ticket' = t
    /\ IF Asks(t) = Asks(ticket) THEN UNCHANGED <<timer, quote>>
       ELSE quote' = NoQuote /\ timer' = (t.amount > 0)

\* The same of a ranged market: the quote is dropped by the buttons
\* (clearQuote), by the effect only when the field is empty.
ChangeRange(t, clearQuote) ==
    /\ panel = "range"
    /\ ticket' = t
    /\ LET changed == Asks(t) # Asks(ticket)
       IN  /\ timer' = IF changed THEN t.amount > 0 ELSE timer
           /\ quote' = IF clearQuote \/ (changed /\ t.amount = 0)
                           THEN NoQuote ELSE quote

\* Empty the field and drop the quote, with whatever else is changed.
EmptyForm(t) ==
    /\ panel = "binary"
    /\ ticket' = [t EXCEPT !.amount = 0]
    /\ quote' = NoQuote
    /\ timer' = FALSE

\* The buttons and the field of a binary market; quick amounts and percentages
\* are amounts like those typed.
Fill ==
    \/ \E m \in {"buy", "sell"} : EmptyForm([ticket EXCEPT !.mode = m, !.max = FALSE])
    \/ \E s \in Outcomes : Change([ticket EXCEPT !.side = s, !.max = FALSE])
    \/ \E a \in 0..MaxTyped : Change([ticket EXCEPT !.amount = a, !.max = FALSE])

\* MAX: the balance of the position as the page last loaded it
FillMax ==
    /\ ticket.mode = "sell"
    /\ \E a \in 1..MaxTyped : Change([ticket EXCEPT !.amount = a, !.max = TRUE])

\* The side chosen outside the panel; MAX is left as it was.
FillDefaultSide ==
    \E s \in Outcomes : EmptyForm([ticket EXCEPT !.side = s])

FillRange ==
    \/ \E m \in {"buy", "sell"} :
          ChangeRange([ticket EXCEPT !.mode = m, !.amount = 0], TRUE)
    \/ \E s \in Outcomes : ChangeRange([ticket EXCEPT !.side = s], FALSE)
    \/ \E a \in 0..MaxTyped : ChangeRange([ticket EXCEPT !.amount = a], TRUE)

Edit ==
    /\ edits < MaxEdits
    /\ edits' = edits + 1
    /\ Fill \/ FillMax \/ FillDefaultSide \/ FillRange
    /\ UNCHANGED <<panel, asked, order>>

---------------------------------------------------------------------------
(* Quotes *)

\* The timer goes off: nothing changed since it was started.
AskQuote ==
    /\ timer
    /\ Cardinality(asked) < MaxAsked
    /\ timer' = FALSE
    /\ asked' = asked \union {Asks(ticket)}
    /\ UNCHANGED <<panel, ticket, quote, order, edits>>

\* What the API answers: a quote for what was asked, computed by the pool, or
\* a refusal.  A ranged market has a route for each mode.
BuyQuotes(q) == {q, NoQuote}
SellQuotes(q) == {q, NoQuote}

\* An answer is shown whatever the form says by now; a failure clears.
ShowQuote(q) ==
    /\ panel = "binary"
    /\ q \in asked
    /\ asked' = asked \ {q}
    /\ quote' \in {q, NoQuote}
    /\ UNCHANGED <<panel, ticket, timer, order, edits>>

\* The fields of the other mode are emptied, which tells the modes apart.
ShowRangeQuote(q) ==
    /\ panel = "range"
    /\ q \in asked
    /\ asked' = asked \ {q}
    /\ quote' \in IF q.mode = "buy" THEN BuyQuotes(q) ELSE SellQuotes(q)
    /\ UNCHANGED <<panel, ticket, timer, order, edits>>

\* Mutant of IsQuoteOf: the side is not compared.
IsQuoteOfAnySide(q, o) ==
    q # NoQuote /\ q.mode = o.mode /\ q.amount = o.amount

\* hasCurrentEstimate
IsQuoteOf(q, o) == q = Asks(o)

\* hasCurrentBuyQuote and hasCurrentSellQuote
IsRangeQuoteOf(q, o) == q = Asks(o)

---------------------------------------------------------------------------
(* Orders *)

\* canSubmitTrade, and canTrade of a ranged market (where the balance on
\* display also bounds a sale)
CanSubmitTrade == order = NoOrder /\ ticket.amount > 0 /\ IsQuoteOf(quote, ticket)
CanTrade == order = NoOrder /\ ticket.amount > 0 /\ IsRangeQuoteOf(quote, ticket)

\* The click; handleTrade goes on with the values of this moment.  A sale
\* first reads the balance from the chain.
Submit ==
    /\ panel = "binary"
    /\ CanSubmitTrade
    /\ order' = [form |-> ticket, quote |-> quote,
                 at |-> IF ticket.mode = "sell" THEN "balance" ELSE "nonce"]
    /\ UNCHANGED <<panel, ticket, timer, asked, quote, edits>>

SubmitRange ==
    /\ panel = "range"
    /\ CanTrade
    /\ order' = [form |-> ticket, quote |-> quote, at |-> "nonce"]
    /\ UNCHANGED <<panel, ticket, timer, asked, quote, edits>>

At(stage) == order # NoOrder /\ order.at = stage

\* The balance GET /trading/share-balance finds at the token contract, after
\* trades of other tabs and devices
ShareBalance == 0..(MaxTyped + 1)

\* The balance read: MAX sells all of it but one unit, and the quote must be
\* for just that amount.
ReadShares(balance) ==
    /\ At("balance")
    /\ LET sold == IF order.form.max THEN balance - 1 ELSE order.form.amount
           form == [order.form EXCEPT !.amount = sold]
       IN  /\ sold > 0 /\ sold <= balance
           /\ order' = [order EXCEPT !.form = form,
                  !.at = IF IsQuoteOf(order.quote, form) THEN "nonce" ELSE "requote"]
    /\ UNCHANGED <<panel, ticket, timer, asked, quote, edits>>

\* A quote for the amount that is sold after all, shown in the form too; the
\* form's effect then starts over.
Requote ==
    LET shown == [ticket EXCEPT !.amount = order.form.amount]
    IN  /\ At("requote")
        /\ order' = [order EXCEPT !.quote = Asks(order.form), !.at = "nonce"]
        /\ ticket' = shown
        /\ IF shown = ticket
               THEN quote' = Asks(order.form) /\ UNCHANGED timer
               ELSE quote' = NoQuote /\ timer' = TRUE
        /\ UNCHANGED <<panel, asked, edits>>

\* The quote the floor is computed from, if it is of the order's mode
Floor(o) ==
    IF o.quote # NoQuote /\ o.quote.mode = o.form.mode THEN o.quote ELSE NoQuote

\* ... and of its amount and range.
RangeFloor(o) == IF IsRangeQuoteOf(o.quote, o.form) THEN o.quote ELSE NoQuote

\* GET /trading/nonce: fresh for every order
AskNonce ==
    /\ At("nonce")
    /\ order' = [order EXCEPT !.at = "sign"]
    /\ UNCHANGED <<panel, ticket, timer, asked, quote, edits>>

\* The trader signs the values handleTrade has, and they are sent.
Sign ==
    /\ panel = "binary"
    /\ At("sign")
    /\ order' = [order EXCEPT !.at = "sent", !.quote = Floor(order)]
    /\ UNCHANGED <<panel, ticket, timer, asked, quote, edits>>

SignRange ==
    /\ panel = "range"
    /\ At("sign")
    /\ order' = [order EXCEPT !.at = "sent", !.quote = RangeFloor(order)]
    /\ UNCHANGED <<panel, ticket, timer, asked, quote, edits>>

\* The trade is done: the form is emptied, whatever it says by now.
Done ==
    /\ panel = "binary"
    /\ At("sent")
    /\ order' = NoOrder
    /\ EmptyForm([ticket EXCEPT !.max = FALSE])
    /\ UNCHANGED <<panel, asked, edits>>

DoneRange ==
    /\ At("sent")
    /\ order' = NoOrder
    /\ ChangeRange([ticket EXCEPT !.amount = 0], TRUE)
    /\ UNCHANGED <<panel, asked, edits>>

\* No balance or not enough of it, no quote, no signature, or a refusal
Fail ==
    /\ order # NoOrder
    /\ order' = NoOrder
    /\ UNCHANGED <<panel, ticket, timer, asked, quote, edits>>

TicketNext ==
    \/ Edit
    \/ AskQuote
    \/ \E q \in Request : ShowQuote(q) \/ ShowRangeQuote(q)
    \/ Submit
    \/ SubmitRange
    \/ \E balance \in ShareBalance : ReadShares(balance)
    \/ Requote
    \/ AskNonce
    \/ Sign \/ SignRange
    \/ Done \/ DoneRange
    \/ Fail

---------------------------------------------------------------------------
(* Properties *)

\* What is signed is what was quoted: the floor of an order comes from a
\* quote for the same mode, outcome and amount, although answers arrive late
\* and out of order, the form changes under the handler, and MAX sells
\* another amount than the form says.  An order without a floor is never sent.
FloorMatchesOrder == At("sent") => order.quote = Asks(order.form)
=============================================================================
