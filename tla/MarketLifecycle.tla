-------------------------- MODULE MarketLifecycle --------------------------
(***************************************************************************)
(* The life of a market, from its creation to the drain of its pool, with  *)
(* the ticks that drive it:                                                *)
(*   - processHourlyTick (hourly-queue.ts), run by the BullMQ worker and   *)
(*     by the admin's POST /admin/24h/tick, and POST /admin/24h/create;    *)
(*   - processRangeMarketTick (range-market-queue.ts), run by its worker.  *)
(* What they share with the fallback, the drain and the indexer is in      *)
(* Settlement.tla.                                                         *)
(*                                                                         *)
(* The status of a row tells "open" (also "active", "locked") from the     *)
(* rest; a "plain" row is one the indexer has added for a market whose     *)
(* creator never wrote its own, which no worker looks for. The price feed  *)
(* answers with either result, or not at all.                              *)
(***************************************************************************)
EXTENDS Settlement

vars == <<family, now, chain, tx, rows, locks, proc, events, history>>

TypeOK == SettlementTypeOK

Init == SettlementInit

Daily(a) == family = "24h" /\ a \in Ticks
Ranged(a) == family = "range" /\ a = "worker"

\* The rows a tick works for: 24-hour markets that are not resolved yet, range
\* markets that are active.
Active(k) == rows[k].status = "open" /\ ~rows[k].resolved

Begins(a, place, k) == proc' = [proc EXCEPT ![a] = [Idle EXCEPT !.at = place, !.row = k]]

---------------------------------------------------------------------------
(* The 24-hour tick *)

Called(a) ==
    IF a = "admin" THEN adminCalls < MaxAdminCalls /\ adminCalls' = adminCalls + 1
                   ELSE UNCHANGED adminCalls

\* One unresolved row is looked at, in no particular order; before its end it
\* is left alone.
TickStart(a) ==
    /\ Daily(a)
    /\ proc[a].at = "idle"
    /\ Called(a)
    /\ \/ \E k \in Keys : Active(k) /\ Ended(rows[k].day) /\ Begins(a, "price", k)
       \/ (\A k \in Keys : ~Active(k)) /\ Begins(a, "check", None)
    /\ UNCHANGED <<family, now, chain, tx, rows, locks, events, byHand, faults, cancels>>

\* /24h/create with force: what is past its end and unresolved is closed
\* without a result.
ForceCreate ==
    /\ Daily("admin")
    /\ proc["admin"].at = "idle"
    /\ Called("admin")
    /\ rows' = [k \in Keys |->
           IF Active(k) /\ Ended(rows[k].day)
           THEN [rows[k] EXCEPT !.resolved = TRUE, !.status = "resolved"] ELSE rows[k]]
    /\ Begins("admin", "check", None)
    /\ UNCHANGED <<family, now, chain, tx, locks, events, byHand, faults, cancels>>

\* fetchNamPrice, compared with the threshold
Price(a) ==
    /\ proc[a].at = "price"
    /\ \/ Goes(a, "stuck")
       \/ \E r \in Results :
             proc' = [proc EXCEPT ![a].at = "acquire", ![a].result = r]
    /\ UNCHANGED <<family, now, chain, tx, rows, locks, events, history>>

\* The row gets the result this tick has worked with.
Closed(a) ==
    [rows EXCEPT ![proc[a].row].resolved = TRUE,
                 ![proc[a].row].result = proc[a].result,
                 ![proc[a].row].status = "resolved"]

Close(a) ==
    /\ Daily(a)
    /\ proc[a].at = "close"
    /\ rows' = Closed(a)
    /\ Begins(a, "check", None)
    /\ UNCHANGED <<family, now, chain, tx, locks, events, history>>

\* Mutant of Stuck: a market is given up only as long as nobody else works on it.
StuckPatient(a) ==
    /\ proc[a].at = "stuck"
    /\ Goes(a, "idle")
    /\ UNCHANGED <<family, now, chain, tx, rows, locks, events, history>>

\* Half an hour past its end an unresolved market is cancelled, whatever its
\* row says by now.
Stuck(a) ==
    /\ proc[a].at = "stuck"
    /\ LET k == proc[a].row
       IN IF Graced(rows[k].day)
          THEN /\ rows' = [rows EXCEPT ![k].resolved = TRUE, ![k].result = None,
                                       ![k].status = "cancelled"]
               /\ Begins(a, "check", None)
          ELSE Goes(a, "idle") /\ UNCHANGED rows
    /\ UNCHANGED <<family, now, chain, tx, locks, events, history>>

\* hasActiveHourlyMarket
Check(a) ==
    /\ proc[a].at = "check"
    /\ Goes(a, IF \E k \in Keys : Active(k) THEN "idle" ELSE "create")
    /\ UNCHANGED <<family, now, chain, tx, rows, locks, events, history>>

---------------------------------------------------------------------------
(* The range tick *)

\* resolveExpiredMarkets draws a winner for an active market past its end.
RangeStart(a) ==
    /\ Ranged(a)
    /\ proc[a].at = "idle"
    /\ \/ \E k \in Keys, r \in Results :
             /\ Active(k)
             /\ Ended(rows[k].day)
             /\ proc' = [proc EXCEPT ![a] = [Idle EXCEPT !.at = "send", !.row = k, !.result = r]]
       \/ /\ \A k \in Keys : ~(Active(k) /\ Ended(rows[k].day))
          /\ Begins(a, "ensure", None)
    /\ UNCHANGED <<family, now, chain, tx, rows, locks, events, history>>

CloseRange(a) ==
    /\ Ranged(a)
    /\ proc[a].at = "close"
    /\ rows' = Closed(a)
    /\ Begins(a, "ensure", None)
    /\ UNCHANGED <<family, now, chain, tx, locks, events, history>>

\* The row of today's market, unless there is one that is not to be retried:
\* cancelled, or left behind in creation for more than half an hour.
Retryable(k) ==
    \/ rows[k].status \in {"absent", "cancelled"}
    \/ rows[k].status = "creating" /\ rows[k].since < now

\* ensureTodayMarketsExist writes the sentinel row.
Ensure(a) ==
    /\ proc[a].at = "ensure"
    /\ LET k == Day + 1
       IN IF Day <= LastDay /\ Retryable(k)
          THEN /\ rows' = [rows EXCEPT ![k] =
                      [NoRow EXCEPT !.status = "creating", !.day = Day, !.since = now]]
               /\ Begins(a, "create", k)
          ELSE Goes(a, "idle") /\ UNCHANGED rows
    /\ UNCHANGED <<family, now, chain, tx, locks, events, history>>

---------------------------------------------------------------------------
(* Creation, by either tick *)

\* A creation that fails leaves the row of a date cancelled.
GivenUp(a) ==
    IF Ranged(a) THEN [rows EXCEPT ![proc[a].row].status = "cancelled"] ELSE rows

\* approve and createMarket, or createRangeMarket
CreateSend(a) ==
    /\ proc[a].at = "create"
    /\ tx = NoTx
    /\ Day <= LastDay
    /\ Len(chain) < MaxMarkets[family]
    /\ tx' = [NoTx EXCEPT !.op = "create", !.by = a]
    /\ Begins(a, "created", proc[a].row)
    /\ UNCHANGED <<family, now, chain, rows, locks, events, history>>

\* No price for the threshold, or the call is refused.
CreateFails(a) ==
    /\ proc[a].at = "create"
    /\ rows' = GivenUp(a)
    /\ Goes(a, "idle")
    /\ UNCHANGED <<family, now, chain, tx, locks, events, history>>

CreateLost(a) ==
    /\ proc[a].at = "created"
    /\ Fault
    /\ tx' = Abandoned(a)
    /\ rows' = GivenUp(a)
    /\ Goes(a, "idle")
    /\ UNCHANGED <<family, now, chain, locks, events, adminCalls, byHand, cancels>>

\* The market's row, keyed by its number: added unless the indexer has done
\* so, then marked as a 24-hour market.
Inserted(m) ==
    [rows EXCEPT ![m] = [@ EXCEPT !.status = "open", !.market = m, !.day = chain[m].day]]

\* The receipt of a replacement, without the event of the factory, is an error.
NotCreated(a) ==
    /\ proc[a].at = "created"
    /\ proc[a].outcome = "replaced"
    /\ rows' = GivenUp(a)
    /\ Goes(a, "idle")
    /\ UNCHANGED <<family, now, chain, tx, locks, events, history>>

\* The indexer has nothing to add to a row that is there, so that its event is
\* done with.
Created(a) ==
    /\ Daily(a)
    /\ proc[a].at = "created"
    /\ proc[a].outcome = "success"
    /\ rows' = Inserted(proc[a].made)
    /\ createdEvents' = createdEvents \ {proc[a].made}
    /\ Goes(a, "idle")
    /\ UNCHANGED <<family, now, chain, tx, locks, resolvedEvents, history>>

CreatedRange(a) ==
    /\ Ranged(a)
    /\ proc[a].at = "created"
    /\ proc[a].outcome = "success"
    /\ rows' = [rows EXCEPT ![proc[a].row].status = "open",
                            ![proc[a].row].market = proc[a].made]
    /\ Goes(a, "idle")
    /\ UNCHANGED <<family, now, chain, tx, locks, events, history>>

---------------------------------------------------------------------------
(* The indexer: each event is handled on its own, in any order. *)

HandleCreated(m) ==
    /\ m \in createdEvents
    /\ createdEvents' = createdEvents \ {m}
    /\ rows' = [rows EXCEPT ![m] = [NoRow EXCEPT !.status = "plain", !.market = m,
                                                 !.day = chain[m].day]]
    /\ UNCHANGED <<family, now, chain, tx, locks, proc, resolvedEvents, history>>

HandleResolved(m) ==
    /\ m \in resolvedEvents
    /\ resolvedEvents' = resolvedEvents \ {m}
    /\ rows' = IF rows[m].status = "absent" THEN rows
               ELSE [rows EXCEPT ![m].resolved = TRUE, ![m].result = chain[m].result,
                                 ![m].status = "resolved"]
    /\ UNCHANGED <<family, now, chain, tx, locks, proc, createdEvents, history>>

---------------------------------------------------------------------------
(* The environment *)

\* The owner resolves a market that no worker will: its row is cancelled,
\* closed without a result, plain, or missing.
ByHand(m, r) ==
    /\ ~Settled(m)
    /\ Ended(chain[m].day)
    /\ Bounded
    /\ \A k \in Keys : rows[k].market = m => ~Active(k) /\ rows[k].result = None
    /\ chain' = [chain EXCEPT ![m].result = r]
    /\ byHand' = byHand \cup {m}
    /\ resolvedEvents' = Heard(resolvedEvents, m)
    /\ UNCHANGED <<family, now, tx, rows, locks, proc, createdEvents, adminCalls, faults, cancels>>

\* A restart: every process forgets what it was doing, and the events that
\* were not handled yet are never delivered.
Crash ==
    /\ Fault
    /\ proc' = [a \in Actors |-> Idle]
    /\ tx' = [tx EXCEPT !.by = "nobody"]
    /\ createdEvents' = {} /\ resolvedEvents' = {}
    /\ UNCHANGED <<family, now, chain, rows, locks, adminCalls, byHand, cancels>>

ResolveStep(a) ==
    Acquire(a) \/ Send(a) \/ SendRejected(a) \/ Receipt(a) \/ Release(a)

TickStep(a) ==
    \/ Price(a) \/ Close(a) \/ Stuck(a) \/ Check(a)
    \/ CloseRange(a) \/ Ensure(a)
    \/ CreateSend(a) \/ CreateFails(a)
    \/ NotCreated(a) \/ Created(a) \/ CreatedRange(a)

Works(a) == ResolveStep(a) \/ TickStep(a)

FallbackStep == (\E k \in Keys : FallbackStart(k)) \/ ResolveStep("fallback")

DrainStep == (\E k \in Keys : DrainHeal(k) \/ DrainStart(k)) \/ DrainSend \/ DrainReceipt

ChainStep == MineResolve \/ MineDrain \/ MineCreate

CallFails(a) == SendFails(a) \/ ReceiptLost(a)

Next ==
    \/ \E a \in Ticks : TickStart(a) \/ RangeStart(a) \/ Works(a)
    \/ \E a \in Ticks : CallFails(a) \/ CreateLost(a)
    \/ ForceCreate
    \/ FallbackStep \/ CallFails("fallback")
    \/ DrainStep \/ DrainLost
    \/ ChainStep \/ Cancel \/ Clock \/ Crash
    \/ \E k \in Keys : LockExpires(k)
    \/ \E m \in DOMAIN chain :
          \/ HandleCreated(m) \/ HandleResolved(m) \/ Redeem(m)
          \/ \E r \in Results : ByHand(m, r)

\* BullMQ repeats the jobs, every await settles, blocks are produced, keys
\* expire. Nobody has to call the admin's routes, redeem, or resolve by hand,
\* and the price feed may never answer.
Fairness ==
    /\ WF_vars(TickStart("worker") \/ RangeStart("worker") \/ Works("worker"))
    /\ WF_vars(Works("admin"))
    /\ WF_vars(FallbackStep)
    /\ WF_vars(DrainStep)
    /\ WF_vars(ChainStep)
    /\ WF_vars(Clock)
    /\ WF_vars((\E k \in Keys : LockExpires(k)) /\ UNCHANGED faults)

Spec == Init /\ [][Next]_vars /\ Fairness

---------------------------------------------------------------------------
(* Properties *)

\* Two results for one market are never published: what the row of a range
\* market says is what the chain pays, through lost answers, restarts and
\* replaced transactions, although its worker draws a new winner for each
\* attempt; so it is for a 24-hour market, whose ticks see different prices,
\* as long as no answer is lost and no lock is overrun (then a market that is
\* "resolved already" gives its row the price of this tick). (A market the owner
\* resolves by hand while a tick works on it is left out.)
WinnerPublished ==
    \A k \in Keys :
        LET m == rows[k].market
        IN  /\ rows[k].result # None
            /\ Settled(m)
            /\ m \notin byHand
            /\ family = "24h" => faults = 0
            => rows[k].result = chain[m].result

\* What the row of a 24-hour market records as withdrawn is what the pool has
\* paid to the treasury, in whatever order redemptions and drains come, and
\* whichever run of the drain had its answer lost.
DrainedAsRecorded ==
    /\ TypeOK
    /\ \A k \in Keys :
          family = "24h" /\ rows[k].drained =>
              rows[k].withdrawn = chain[rows[k].market].withdrawn

\* No market blocks its successor: a row past its end does not stay open, even
\* if there is never a price and every call fails. A range worker has no such
\* limit, and stays on a market whose resolution it was not told of.
ExpiredIsClosed ==
    \A k \in Keys :
        Active(k) /\ Ended(rows[k].day) ~>
            \/ ~Active(k)
            \/ family = "range" /\ (faults > 0 \/ byHand # {})

\* What a row says about the winner comes true on the chain, though the
\* worker's transaction was replaced and its receipt taken for a success.
ClosedIsSettled ==
    \A k \in Keys :
        rows[k].resolved /\ rows[k].result # None ~>
            rows[k].result = None \/ Settled(rows[k].market)

\* The treasury gets its liquidity back, and the row says so, unless the
\* drain's transaction is replaced.
LiquidityReturns ==
    \A k \in Keys :
        rows[k].resolved /\ Settled(rows[k].market) ~>
            \/ rows[k].drained /\ chain[rows[k].market].drained
            \/ cancels > 0
=============================================================================
