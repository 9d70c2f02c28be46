----------------------------- MODULE Settlement -----------------------------
(***************************************************************************)
(* What the workers around a market share, for 24-hour markets (family     *)
(* "24h") and for range markets (family "range"):                          *)
(*   - the market on the chain, and its row in Postgres;                   *)
(*   - the operator's one transaction in flight (NonceManager.tla has the  *)
(*     pipeline), which the nonce job may replace by an empty one when it  *)
(*     is stuck;                                                           *)
(*   - resolving on the chain (services/resolution.ts) under a Redis lock  *)
(*     whose value is the same for every owner;                            *)
(*   - the fallback that resolves on the chain what the row says           *)
(*     (resolution-fallback-queue.ts), the drain of what no winner claims  *)
(*     (liquidity-drain-queue.ts), and the factory's events (indexer.ts).  *)
(*                                                                         *)
(* Time goes in half days that stand for the half hour after midnight and  *)
(* the rest of a day: a market created on a day ends at the next midnight. *)
(***************************************************************************)
EXTENDS Integers, Sequences, FiniteSets

CONSTANTS
    Families,           \* the families to consider, out of "24h" and "range"
    LastDay,            \* bound: no market is created after this day
    MaxMarkets,         \* bound on markets on the chain, for each family
    MaxAdminCalls,      \* bound on the admin's calls of /admin/24h
    MaxTrouble          \* bound, for each family, on faults (lost calls,
                        \* restarts, overrun locks), transactions replaced by
                        \* the nonce job and resolutions by hand, in all

ASSUME BoundAssumption ==
    /\ Families \subseteq {"24h", "range"}
    /\ {LastDay, MaxAdminCalls} \subseteq Nat
    /\ {MaxMarkets, MaxTrouble} \subseteq [Families -> Nat]
    /\ \A f \in Families : LastDay < MaxMarkets[f]

VARIABLES
    family,             \* the family of this behaviour
    now,                \* half days since the first midnight
    chain,              \* the markets on the chain, in order of creation
    tx,                 \* the operator's transaction in flight
    rows,               \* Postgres: a row for each market, or date
    locks,              \* Redis: rows whose resolve lock exists
    proc,               \* what each process is doing
    createdEvents, resolvedEvents,   \* markets with an event to handle
    adminCalls, byHand, faults, cancels     \* history, for the bounds

events == <<createdEvents, resolvedEvents>>
history == <<adminCalls, byHand, faults, cancels>>

\* A 24-hour market's row is found by the market's number, a range market's
\* by its day.
MarketIds == UNION {1..MaxMarkets[f] : f \in Families}
Keys == 1..(LastDay + 1) \cup (IF "24h" \in Families THEN 1..MaxMarkets["24h"] ELSE {})
Results == 1..2         \* YES and NO, or two of the ranges
None == 0
Ticks == {"worker", "admin"}
Actors == Ticks \cup {"fallback", "drain"}

Day == now \div 2
Ended(day) == now >= 2 * (day + 1)
Graced(day) == now > 2 * (day + 1)

Market == [day: Nat, result: Results \cup {None}, claimed: BOOLEAN,
           drained: BOOLEAN, withdrawn: 0..2]
Row == [status: {"absent", "plain", "creating", "open", "resolved", "cancelled"},
        market: MarketIds \cup {None}, day: Nat, since: Nat,
        resolved: BOOLEAN, result: Results \cup {None},
        drained: BOOLEAN, withdrawn: 0..2]
Tx == [op: {"none", "resolve", "create", "drain"}, market: MarketIds \cup {None},
       result: Results \cup {None}, by: Actors \cup {"nobody"}]
Proc == [at: {"idle", "price", "acquire", "send", "receipt", "release", "close",
              "stuck", "check", "ensure", "create", "created", "drain", "drained"},
         row: Keys \cup {None}, result: Results \cup {None}, amount: 0..2,
         made: MarketIds \cup {None},
         outcome: {"none", "success", "replaced", "reverted", "known", "error"}]

NoTx == [op |-> "none", market |-> None, result |-> None, by |-> "nobody"]
Idle == [at |-> "idle", row |-> None, result |-> None, amount |-> 0,
         made |-> None, outcome |-> "none"]
NoRow == [status |-> "absent", market |-> None, day |-> 0, since |-> 0,
          resolved |-> FALSE, result |-> None, drained |-> FALSE, withdrawn |-> 0]

SettlementTypeOK ==
    /\ family \in Families
    /\ now \in Nat
    /\ chain \in Seq(Market) /\ Len(chain) <= MaxMarkets[family]
    /\ tx \in Tx
    /\ rows \in [Keys -> Row]
    /\ \A k \in Keys : rows[k].market \in 0..Len(chain)
    /\ locks \subseteq Keys
    /\ proc \in [Actors -> Proc]
    /\ createdEvents \subseteq DOMAIN chain
    /\ resolvedEvents \subseteq DOMAIN chain
    /\ adminCalls \in 0..MaxAdminCalls
    /\ byHand \subseteq DOMAIN chain
    /\ faults + cancels + Cardinality(byHand) <= MaxTrouble[family]
    /\ {faults, cancels} \subseteq Nat

SettlementInit ==
    /\ family \in Families
    /\ now = 0
    /\ chain = <<>>
    /\ tx = NoTx
    /\ rows = [k \in Keys |-> NoRow]
    /\ locks = {}
    /\ proc = [a \in Actors |-> Idle]
    /\ createdEvents = {} /\ resolvedEvents = {}
    /\ adminCalls = 0 /\ byHand = {} /\ faults = 0 /\ cancels = 0

\* The market of the row a process works on.
Target(a) == rows[proc[a].row].market
Settled(m) == m # None /\ chain[m].result # None
Goes(a, place) == proc' = [proc EXCEPT ![a] = IF place = "idle" THEN Idle ELSE [@ EXCEPT !.at = place]]

\* Trouble is bounded as a whole.
Bounded == faults + cancels + Cardinality(byHand) < MaxTrouble[family]
Fault == Bounded /\ faults' = faults + 1

\* The range worker resolves without the lock its fallback takes.
Unlocked(a) == family = "range" /\ a = "worker"

---------------------------------------------------------------------------
(* resolveMarketOnChain, and the same steps in the range worker and in      *)
(* reconcileRangeMarkets                                                    *)

\* Mutant of Acquire: the answer of the lock is not looked at.
AcquireAnyway(a) ==
    /\ proc[a].at = "acquire"
    /\ locks' = locks \cup {proc[a].row}
    /\ Goes(a, "send")
    /\ UNCHANGED <<family, now, chain, tx, rows, events, history>>

\* acquireLock. Who finds the lock taken gets an empty hash, and skips.
Acquire(a) ==
    /\ proc[a].at = "acquire"
    /\ IF proc[a].row \in locks
       THEN Goes(a, IF a \in Ticks THEN "stuck" ELSE "idle") /\ UNCHANGED locks
       ELSE Goes(a, "send") /\ locks' = locks \cup {proc[a].row}
    /\ UNCHANGED <<family, now, chain, tx, rows, events, history>>

Broadcast(a, op) == tx' = [op |-> op, market |-> IF op = "create" THEN None ELSE Target(a),
                           result |-> proc[a].result, by |-> a]

\* Where a failed resolution goes on: the lock is released, if there is one.
Fails(a, how) ==
    proc' = [proc EXCEPT ![a].at = IF Unlocked(a) THEN "ensure" ELSE "release",
                         ![a].outcome = how]

\* withNonce waits for the transaction in flight; the call is simulated, so
\* that a market that is resolved already is refused.
Send(a) ==
    /\ proc[a].at = "send"
    /\ tx = NoTx
    /\ ~Settled(Target(a))
    /\ Broadcast(a, "resolve")
    /\ proc' = [proc EXCEPT ![a].at = "receipt", ![a].outcome = "none"]
    /\ UNCHANGED <<family, now, chain, rows, locks, events, history>>

SendRejected(a) ==
    /\ proc[a].at = "send"
    /\ tx = NoTx
    /\ Settled(Target(a))
    /\ Fails(a, "known")
    /\ UNCHANGED <<family, now, chain, tx, rows, locks, events, history>>

\* The call fails, or only its answer is lost.
SendFails(a) ==
    /\ proc[a].at = "send"
    /\ tx = NoTx
    /\ Fault
    /\ \/ UNCHANGED tx
       \/ ~Settled(Target(a)) /\ tx' = [NoTx EXCEPT !.op = "resolve",
              !.market = Target(a), !.result = proc[a].result]
    /\ Fails(a, "error")
    /\ UNCHANGED <<family, now, chain, rows, locks, events, adminCalls, byHand, cancels>>

\* The receipt's status is not looked at, nor whether it is the receipt of a
\* replacement.
Receipt(a) ==
    /\ proc[a].at = "receipt"
    /\ proc[a].outcome # "none"
    /\ Goes(a, IF a \in Ticks THEN "close" ELSE "idle")
    /\ UNCHANGED <<family, now, chain, tx, rows, locks, events, history>>

Abandoned(a) == IF tx.by = a THEN [tx EXCEPT !.by = "nobody"] ELSE tx

ReceiptLost(a) ==
    /\ proc[a].at = "receipt"
    /\ Fault
    /\ tx' = Abandoned(a)
    /\ Fails(a, "error")
    /\ UNCHANGED <<family, now, chain, rows, locks, events, adminCalls, byHand, cancels>>

\* releaseLock deletes the key, whoever owns it by now. The 24-hour tick
\* takes a market that is resolved already for its own success.
Release(a) ==
    /\ proc[a].at = "release"
    /\ locks' = locks \ {proc[a].row}
    /\ Goes(a, IF a \notin Ticks THEN "idle"
               ELSE IF proc[a].outcome = "known" THEN "close" ELSE "stuck")
    /\ UNCHANGED <<family, now, chain, tx, rows, events, history>>

\* A tick that has selected a row and not yet written it, or a fallback that
\* holds its lock.
Occupied(k) ==
    \/ \E a \in Ticks : /\ proc[a].row = k
                        /\ proc[a].at \in {"price", "acquire", "send", "receipt",
                                           "release", "close", "stuck"}
    \/ /\ proc["fallback"].row = k
       /\ proc["fallback"].at # "acquire"

\* The lock of a success is left to its TTL of two minutes. One that expires
\* under a process that has not done with the row is a fault.
LockExpires(k) ==
    /\ k \in locks
    /\ locks' = locks \ {k}
    /\ IF Occupied(k) THEN Fault ELSE UNCHANGED faults
    /\ UNCHANGED <<family, now, chain, tx, rows, proc, events, adminCalls, byHand, cancels>>

---------------------------------------------------------------------------
(* The fallback *)

\* Rows that are resolved with a result, past their end, with a market that
\* is not resolved on the chain.
Unsettled(k) ==
    /\ rows[k].resolved
    /\ rows[k].result # None
    /\ rows[k].market # None
    /\ Ended(rows[k].day)
    /\ ~Settled(rows[k].market)

\* Mutant of FallbackStart: only rows of the last half day are looked at.
FallbackRecent(k) ==
    /\ proc["fallback"].at = "idle"
    /\ Unsettled(k)
    /\ ~Graced(rows[k].day)
    /\ proc' = [proc EXCEPT !["fallback"] =
           [Idle EXCEPT !.at = "acquire", !.row = k, !.result = rows[k].result]]
    /\ UNCHANGED <<family, now, chain, tx, rows, locks, events, history>>

FallbackStart(k) ==
    /\ proc["fallback"].at = "idle"
    /\ Unsettled(k)
    /\ proc' = [proc EXCEPT !["fallback"] =
           [Idle EXCEPT !.at = "acquire", !.row = k, !.result = rows[k].result]]
    /\ UNCHANGED <<family, now, chain, tx, rows, locks, events, history>>

---------------------------------------------------------------------------
(* The drain. Its own lock is not modelled: one worker takes it. *)

\* What no claim and no claims buffer reserves: redemptions free the buffer.
Withdrawable(m) == IF chain[m].claimed THEN 2 ELSE 1

\* Resolved rows that are not drained, with a market that can be.
Undrained(k) ==
    /\ rows[k].resolved
    /\ ~rows[k].drained
    /\ Settled(rows[k].market)

\* Mutant of DrainHeal: a market that is drained already is passed over.
DrainPassesOver(k) ==
    /\ proc["drain"].at = "idle"
    /\ Undrained(k)
    /\ chain[rows[k].market].drained
    /\ UNCHANGED <<family, now, chain, tx, rows, locks, proc, events, history>>

\* A market that turns out to be drained already only has its row corrected.
DrainHeal(k) ==
    /\ proc["drain"].at = "idle"
    /\ Undrained(k)
    /\ chain[rows[k].market].drained
    /\ rows' = [rows EXCEPT ![k].drained = TRUE,
                            ![k].withdrawn = chain[rows[k].market].withdrawn]
    /\ UNCHANGED <<family, now, chain, tx, locks, proc, events, history>>

DrainStart(k) ==
    /\ proc["drain"].at = "idle"
    /\ Undrained(k)
    /\ ~chain[rows[k].market].drained
    /\ proc' = [proc EXCEPT !["drain"] =
           [Idle EXCEPT !.at = "drain", !.row = k, !.amount = Withdrawable(rows[k].market)]]
    /\ UNCHANGED <<family, now, chain, tx, rows, locks, events, history>>

\* A market that was drained meanwhile is refused, and left to the next run.
DrainSend ==
    /\ proc["drain"].at = "drain"
    /\ tx = NoTx
    /\ IF chain[Target("drain")].drained
       THEN Goes("drain", "idle") /\ UNCHANGED tx
       ELSE Broadcast("drain", "drain") /\ Goes("drain", "drained")
    /\ UNCHANGED <<family, now, chain, rows, locks, events, history>>

\* Mutant of RecordedAmount: the amount read before the transaction, as for
\* a range market.
RecordedAmountRead(k) == proc["drain"].amount

\* The amount is read again after the transaction of a 24-hour market.
RecordedAmount(k) == IF family = "range" THEN proc["drain"].amount
                                         ELSE chain[rows[k].market].withdrawn

DrainReceipt ==
    /\ proc["drain"].at = "drained"
    /\ proc["drain"].outcome # "none"
    /\ LET k == proc["drain"].row
       IN rows' = IF proc["drain"].outcome = "reverted" THEN rows
                  ELSE [rows EXCEPT ![k].drained = TRUE, ![k].withdrawn = RecordedAmount(k)]
    /\ Goes("drain", "idle")
    /\ UNCHANGED <<family, now, chain, tx, locks, events, history>>

\* A failed call, or a lost answer, ends the drain of this market for now.
DrainLost ==
    /\ proc["drain"].at \in {"drain", "drained"}
    /\ Fault
    /\ tx' = Abandoned("drain")
    /\ Goes("drain", "idle")
    /\ UNCHANGED <<family, now, chain, rows, locks, events, adminCalls, byHand, cancels>>

---------------------------------------------------------------------------
(* The chain and the clock *)

\* waitForTransactionReceipt answers the process that waits.
Answered(how) == IF tx.by \in Actors THEN [proc EXCEPT ![tx.by].outcome = how] ELSE proc

Heard(set, m) == IF family = "24h" THEN set \cup {m} ELSE set

MineResolve ==
    /\ tx.op = "resolve"
    /\ LET m == tx.market
       IN IF Settled(m)
          THEN proc' = Answered("reverted") /\ UNCHANGED <<chain, resolvedEvents>>
          ELSE /\ chain' = [chain EXCEPT ![m].result = tx.result]
               /\ resolvedEvents' = Heard(resolvedEvents, m)
               /\ proc' = Answered("success")
    /\ tx' = NoTx
    /\ UNCHANGED <<family, now, rows, locks, createdEvents, history>>

MineDrain ==
    /\ tx.op = "drain"
    /\ LET m == tx.market
       IN IF chain[m].drained
          THEN proc' = Answered("reverted") /\ UNCHANGED chain
          ELSE /\ chain' = [chain EXCEPT ![m].drained = TRUE, ![m].withdrawn = Withdrawable(m)]
               /\ proc' = Answered("success")
    /\ tx' = NoTx
    /\ UNCHANGED <<family, now, rows, locks, events, history>>

\* The creator finds the market's number in the receipt.
MineCreate ==
    /\ tx.op = "create"
    /\ chain' = Append(chain, [day |-> Day, result |-> None, claimed |-> FALSE,
                               drained |-> FALSE, withdrawn |-> 0])
    /\ createdEvents' = Heard(createdEvents, Len(chain) + 1)
    /\ proc' = IF tx.by \in Actors
               THEN [Answered("success") EXCEPT ![tx.by].made = Len(chain) + 1] ELSE proc
    /\ tx' = NoTx
    /\ UNCHANGED <<family, now, rows, locks, resolvedEvents, history>>

\* cancelTransaction: an empty transaction takes the nonce, and who waits
\* gets its receipt.
Cancel ==
    /\ tx # NoTx
    /\ Bounded
    /\ cancels' = cancels + 1
    /\ proc' = Answered("replaced")
    /\ tx' = NoTx
    /\ UNCHANGED <<family, now, chain, rows, locks, events, adminCalls, byHand, faults>>

\* A winner redeems. What is left to draw changes with it, so that it counts
\* only for a drain that is under way: before that it is as if it came at the
\* drain's beginning, and after it nothing depends on it.
Redeem(m) ==
    /\ Settled(m)
    /\ ~chain[m].claimed
    /\ proc["drain"].at \in {"drain", "drained"}
    /\ Target("drain") = m
    /\ chain' = [chain EXCEPT ![m].claimed = TRUE]
    /\ UNCHANGED <<family, now, tx, rows, locks, proc, events, history>>

Clock ==
    /\ now <= 2 * (LastDay + 1)
    /\ now' = now + 1
    /\ UNCHANGED <<family, chain, tx, rows, locks, proc, events, history>>
=============================================================================
