---------------------------- MODULE NonceManager ----------------------------
(***************************************************************************)
(* The transaction pipeline of the operator account: lib/nonce-manager.ts  *)
(* in several API processes, the reconciliation job, the Redis keys they   *)
(* share (nonce_state, active_tx, lock) and the account on the chain.      *)
(*                                                                         *)
(* Each process runs one withNonce call at a time (its promise chain).     *)
(* A step is what happens between two awaits that other actors can see; a  *)
(* withLock section that awaits nothing but Redis is one step, one that    *)
(* reads the chain is two, since the lock may expire in between.           *)
(*                                                                         *)
(* The account allows one transaction in flight, so the mempool is a       *)
(* Boolean: the transaction in flight has nonce `latest`.                  *)
(***************************************************************************)
EXTENDS Integers, FiniteSets

CONSTANTS
    Procs,              \* API processes that call withNonce
    Reconciler,         \* the nonce-reconciliation job
    NoOne,              \* no lock owner
    Orphan,             \* the lock of an actor that died
    MaxNonce,           \* bound on the nonces modelled
    MaxRequests,        \* bound on withNonce calls
    MaxFaults           \* bound on crashes, RPC failures and expiries of a
                        \* lock whose owner is alive

ASSUME ActorAssumption ==
    /\ IsFiniteSet(Procs)
    /\ Reconciler \notin Procs
    /\ NoOne \notin Procs \cup {Reconciler}
    /\ Orphan \notin Procs \cup {Reconciler, NoOne}
ASSUME BoundAssumption ==
    MaxNonce \in Nat /\ MaxRequests \in Nat /\ MaxFaults \in Nat

Actors == Procs \cup {Reconciler}
Nonces == 0..MaxNonce
NoNonce == -1

\* An entry of the pending map: absent, assigned with txHash "", broadcast, or
\* broadcast again by a cancellation.
Entry == {"absent", "ghost", "sent", "replacing"}

VARIABLES
    latest, inFlight,   \* the chain: nonces mined, one transaction in mempool
    stored,             \* nonce_state in Redis
    active,             \* active_tx in Redis: its nonce
    lock,               \* the lock's owner
    pc,                 \* where each actor is
    nonce,              \* the nonce each actor works with
    loaded,             \* nonce_state as read inside the lock
    seen,               \* latest and in-flight as read from the RPC node
    resync,             \* a nonce mismatch calls for resyncNonce
    todo,               \* stuck nonces the job still has to cancel
    requests, faults    \* counters for the bounds

chain == <<latest, inFlight>>
redis == <<stored, active, lock>>
locals == <<nonce, loaded, seen, resync, todo>>
vars == <<chain, redis, pc, locals, requests, faults>>

NonceState == [next: 0..(MaxNonce + 1), last: -1..MaxNonce,
               pending: [Nonces -> Entry]]

Places == {"idle", "wait", "peek", "clear", "clean", "assign", "assigning",
           "broadcast", "mark", "activate", "reclaim", "unset",
           "resync", "resyncing", "verify", "stuck", "cancel",
           "cancelMark", "cancelActive", "boot", "booting"}

TypeOK ==
    /\ latest \in 0..(MaxNonce + 1)
    /\ inFlight \in BOOLEAN
    /\ stored \in NonceState
    /\ active \in Nonces \cup {NoNonce}
    /\ lock \in Actors \cup {NoOne, Orphan}
    /\ pc \in [Actors -> Places]
    /\ nonce \in [Actors -> Nonces \cup {NoNonce}]
    /\ loaded \in [Actors -> NonceState]
    /\ seen \in [Actors -> [latest: 0..(MaxNonce + 1), inFlight: BOOLEAN]]
    /\ resync \in [Actors -> BOOLEAN]
    /\ todo \subseteq Nonces
    /\ requests \in 0..MaxRequests
    /\ faults \in 0..MaxFaults

---------------------------------------------------------------------------
(* The nonce_state record *)

Listed(s) == {n \in Nonces : s.pending[n] # "absent"}
Broadcast(s) == {n \in Nonces : s.pending[n] \in {"sent", "replacing"}}
Ghosts(s) == {n \in Nonces : s.pending[n] = "ghost"}

Empty == [next |-> 0, last |-> -1, pending |-> [n \in Nonces |-> "absent"]]
Unseen == [latest |-> 0, inFlight |-> FALSE]

Put(s, n, e) == [s EXCEPT !.pending[n] = e]
Without(s, gone) ==
    [s EXCEPT !.pending = [n \in Nonces |-> IF n \in gone THEN "absent" ELSE @[n]]]

RaiseLast(s, n) == [s EXCEPT !.last = IF n > @ THEN n ELSE @]

\* The transaction count with the block tag "pending".
PendingCount(c) == IF c.inFlight THEN c.latest + 1 ELSE c.latest
Chain == [latest |-> latest, inFlight |-> inFlight]

\* waitForNoInFlight: the nonce of a left-over active_tx is taken as confirmed.
Confirmed(s, n) ==
    IF s.pending[n] = "absent" THEN s ELSE RaiseLast(Without(s, {n}), n)

\* getNextNonce
Assigned(s) == [Put(s, s.next, "ghost") EXCEPT !.next = @ + 1]

\* reclaimNonce: give back n, and walk next down over the free nonces.
WalkedBack(s) ==
    LET Free(m) == \A k \in m..(s.next - 1) : s.pending[k] = "absent" /\ k > s.last
    IN  [s EXCEPT !.next =
            CHOOSE m \in 0..s.next : Free(m) /\ (m = 0 \/ ~Free(m - 1))]

Reclaimed(s, n) ==
    IF s.pending[n] = "ghost" THEN WalkedBack(Without(s, {n})) ELSE s

\* What resyncNonce and init have in common, given the counts c.
DropMined(s, c) == Without(s, {n \in Nonces : n < c.latest})
Advance(s, c) == [s EXCEPT !.next = IF PendingCount(c) > @ THEN PendingCount(c) ELSE @]

\* Mutant of Clamp: next only ever moves forward.
ClampNever(s, c, real, ghosts) == s

\* Entries that were never broadcast are dropped, and next is taken down to
\* the chain's count, unless something at or above that count was broadcast.
Clamp(s, c, real, ghosts) ==
    IF s.next > PendingCount(c) /\ \A n \in real : n < PendingCount(c)
        THEN [Without(s, ghosts) EXCEPT !.next = PendingCount(c)]
        ELSE s

\* Mutant of Resynced: the count is taken for the last nonce mined.
ResyncedToCount(s, c) ==
    LET a == Advance(RaiseLast(DropMined(s, c), c.latest), c)
    IN  Clamp(a, c, Broadcast(a), {n \in Ghosts(a) : n >= PendingCount(c)})

Resynced(s, c) ==
    LET a == Advance(RaiseLast(DropMined(s, c), c.latest - 1), c)
    IN  Clamp(a, c, Broadcast(a), {n \in Ghosts(a) : n >= PendingCount(c)})

Recovered(s, c) ==
    LET real == {n \in Broadcast(s) : n < s.next}
        clamped == Clamp(s, c, real, Ghosts(s))
    IN  RaiseLast(DropMined(Advance(clamped, c), c), c.latest - 1)

---------------------------------------------------------------------------
(* The lock *)

\* Sections that await only Redis need the lock free and leave it free.
Section(new) == lock = NoOne /\ stored' = new /\ UNCHANGED lock

\* Sections that await the RPC node: enter with a copy of the state and of
\* the counts, leave by storing what was made of the copy.
Enter(a) ==
    /\ lock = NoOne
    /\ lock' = a
    /\ loaded' = [loaded EXCEPT ![a] = stored]
    /\ seen' = [seen EXCEPT ![a] = Chain]
    /\ UNCHANGED stored

\* The Lua script: only the owner's release deletes the key.
Release(a) == lock' = IF lock = a THEN NoOne ELSE lock
Leave(a, new) == stored' = new /\ Release(a)

\* The copy and the counts go out of scope.
Forget(a) ==
    /\ loaded' = [loaded EXCEPT ![a] = Empty]
    /\ seen' = [seen EXCEPT ![a] = Unseen]

Goto(a, place) == pc' = [pc EXCEPT ![a] = place]

---------------------------------------------------------------------------
(* withNonce *)

Init ==
    /\ latest = 0
    /\ inFlight = FALSE
    /\ stored = Empty
    /\ active = NoNonce
    /\ lock = NoOne
    /\ pc = [a \in Actors |-> IF a = Reconciler THEN "resync" ELSE "idle"]
    /\ nonce = [a \in Actors |-> NoNonce]
    /\ loaded = [a \in Actors |-> Empty]
    /\ seen = [a \in Actors |-> Unseen]
    /\ resync = [a \in Actors |-> FALSE]
    /\ todo = {}
    /\ requests = 0
    /\ faults = 0

\* The promise chain starts the next operation.
Start(p) ==
    /\ pc[p] = "idle"
    /\ requests < MaxRequests
    /\ requests' = requests + 1
    /\ Goto(p, "wait")
    /\ UNCHANGED <<chain, redis, locals, faults>>

\* waitForNoInFlight: a poll finds nothing in flight, the next await reads
\* active_tx, and one that is there is taken for that of a mined transaction.
Poll(p) ==
    /\ pc[p] = "wait"
    /\ ~inFlight
    /\ Goto(p, "peek")
    /\ UNCHANGED <<chain, redis, locals, requests, faults>>

PeekActive(p) ==
    /\ pc[p] = "peek"
    /\ nonce' = [nonce EXCEPT ![p] = active]
    /\ Goto(p, IF active = NoNonce THEN "assign" ELSE "clear")
    /\ UNCHANGED <<chain, redis, loaded, seen, resync, todo, requests, faults>>

PollTimeout(p) ==
    /\ pc[p] = "wait"
    /\ inFlight
    /\ Goto(p, "idle")
    /\ UNCHANGED <<chain, redis, locals, requests, faults>>

ClearActive(p) ==
    /\ pc[p] = "clear"
    /\ active' = NoNonce
    /\ Goto(p, "clean")
    /\ UNCHANGED <<chain, stored, lock, locals, requests, faults>>

CleanPending(p) ==
    /\ pc[p] = "clean"
    /\ Section(Confirmed(stored, nonce[p]))
    /\ nonce' = [nonce EXCEPT ![p] = NoNonce]
    /\ Goto(p, "assign")
    /\ UNCHANGED <<chain, active, loaded, seen, resync, todo, requests, faults>>

\* getNextNonce: the pending map must be empty, and the chain quiet ... (the
\* last conjunct is the bound MaxNonce)
BeginAssign(p) ==
    /\ pc[p] = "assign"
    /\ Enter(p)
    /\ stored.next <= MaxNonce
    /\ Goto(p, "assigning")
    /\ UNCHANGED <<chain, active, nonce, resync, todo, requests, faults>>

\* Mutant of Assignable: the pending map is not looked at.
AssignableWithPending(p) == ~seen[p].inFlight /\ active = NoNonce

Assignable(p) ==
    /\ Listed(loaded[p]) = {}
    /\ ~seen[p].inFlight
    /\ active = NoNonce

\* ... and active_tx absent; then the nonce is tracked before it is used.
Assign(p) ==
    /\ pc[p] = "assigning"
    /\ Assignable(p)
    /\ nonce' = [nonce EXCEPT ![p] = loaded[p].next]
    /\ Leave(p, Assigned(loaded[p]))
    /\ Forget(p)
    /\ Goto(p, "broadcast")
    /\ UNCHANGED <<chain, active, resync, todo, requests, faults>>

\* getNextNonce throws: nothing is stored, the request fails.
RefuseAssign(p) ==
    /\ pc[p] = "assigning"
    /\ ~Assignable(p)
    /\ Release(p)
    /\ Forget(p)
    /\ Goto(p, "idle")
    /\ UNCHANGED <<chain, stored, active, nonce, resync, todo, requests, faults>>

\* fn(nonce): the node takes the next nonce of an account with nothing in flight.
Accepts(n) == n = latest /\ ~inFlight

Send(p) ==
    /\ pc[p] = "broadcast"
    /\ Accepts(nonce[p])
    /\ inFlight' = TRUE
    /\ Goto(p, "mark")
    /\ UNCHANGED <<latest, redis, locals, requests, faults>>

\* Mutant of SendRejected: a refused nonce is tried again.
SendRetried(p) ==
    /\ pc[p] = "broadcast"
    /\ ~Accepts(nonce[p])
    /\ resync' = [resync EXCEPT ![p] = nonce[p] > PendingCount(Chain)]
    /\ UNCHANGED <<chain, redis, pc, nonce, loaded, seen, todo, requests, faults>>

\* The node answers with an error; a gap is recognised by its message.
SendRejected(p) ==
    /\ pc[p] = "broadcast"
    /\ ~Accepts(nonce[p])
    /\ resync' = [resync EXCEPT ![p] = nonce[p] > PendingCount(Chain)]
    /\ Goto(p, "reclaim")
    /\ UNCHANGED <<chain, redis, nonce, loaded, seen, todo, requests, faults>>

\* fn throws although nothing is wrong with the nonce: the call is lost on its
\* way to the node, or the node's answer is lost and the transaction is in.
SendLost(p) ==
    /\ pc[p] = "broadcast"
    /\ faults < MaxFaults
    /\ faults' = faults + 1
    /\ inFlight' \in {inFlight, inFlight \/ Accepts(nonce[p])}
    /\ Goto(p, "reclaim")
    /\ UNCHANGED <<latest, redis, locals, requests>>

\* markNonceUsed, and active_tx after the lock is released.
MarkUsed(p) ==
    /\ pc[p] = "mark"
    /\ Section(Put(stored, nonce[p], "sent"))
    /\ Goto(p, "activate")
    /\ UNCHANGED <<chain, active, locals, requests, faults>>

SetActive(p) ==
    /\ pc[p] = "activate"
    /\ active' = nonce[p]
    /\ nonce' = [nonce EXCEPT ![p] = NoNonce]
    /\ Goto(p, "idle")
    /\ UNCHANGED <<chain, stored, lock, loaded, seen, resync, todo, requests, faults>>

\* reclaimNonce, then active_tx if it is ours, then perhaps resyncNonce.
Reclaim(p) ==
    /\ pc[p] = "reclaim"
    /\ Section(Reclaimed(stored, nonce[p]))
    /\ Goto(p, "unset")
    /\ UNCHANGED <<chain, active, locals, requests, faults>>

UnsetActive(p) ==
    /\ pc[p] = "unset"
    /\ active' = IF active = nonce[p] THEN NoNonce ELSE active
    /\ resync' = [resync EXCEPT ![p] = FALSE]
    /\ nonce' = [nonce EXCEPT ![p] = NoNonce]
    /\ Goto(p, IF resync[p] THEN "resync" ELSE "idle")
    /\ UNCHANGED <<chain, stored, lock, loaded, seen, todo, requests, faults>>

\* acquireLock gives up (its time is twice the TTL, so others took the lock in
\* turns) or Redis fails.  In markNonceUsed that is an exception like any
\* other: withNonce reclaims.
LockFails(p) ==
    /\ pc[p] \in {"clean", "assign", "mark", "activate", "reclaim", "resync"}
    /\ faults < MaxFaults
    /\ faults' = faults + 1
    /\ LET marking == pc[p] \in {"mark", "activate"}
       IN  /\ Goto(p, IF marking THEN "reclaim" ELSE "idle")
           /\ nonce' = [nonce EXCEPT ![p] = IF marking THEN @ ELSE NoNonce]
    /\ resync' = [resync EXCEPT ![p] = FALSE]
    /\ UNCHANGED <<chain, redis, loaded, seen, todo, requests>>

\* The RPC node does not answer: waitForNoInFlight throws, or a section leaves
\* its lock and stores nothing.
ReadFails(a) ==
    /\ pc[a] \in {"wait", "assigning", "resyncing"}
    /\ faults < MaxFaults
    /\ faults' = faults + 1
    /\ Release(a)
    /\ Forget(a)
    /\ Goto(a, IF a = Reconciler THEN "resync" ELSE "idle")
    /\ UNCHANGED <<chain, stored, active, nonce, resync, todo, requests>>

---------------------------------------------------------------------------
(* resyncNonce, the reconciliation job, init *)

BeginResync(a) ==
    /\ pc[a] = "resync"
    /\ Enter(a)
    /\ Goto(a, "resyncing")
    /\ UNCHANGED <<chain, active, nonce, resync, todo, requests, faults>>

Resync(a) ==
    /\ pc[a] = "resyncing"
    /\ Leave(a, Resynced(loaded[a], seen[a]))
    /\ active' = IF seen[a].inFlight THEN active ELSE NoNonce
    /\ loaded' = [loaded EXCEPT ![a] = Empty]
    /\ seen' = IF a = Reconciler THEN seen ELSE [seen EXCEPT ![a] = Unseen]
    /\ Goto(a, IF a = Reconciler THEN "verify" ELSE "idle")
    /\ UNCHANGED <<chain, nonce, resync, todo, requests, faults>>

\* Step 2 of the job looks at active_tx once more, with the same counts; step
\* 3 takes the entries old enough to be stuck, any of them here.
VerifyActive ==
    /\ pc[Reconciler] = "verify"
    /\ active' = IF seen[Reconciler].inFlight THEN active ELSE NoNonce
    /\ Forget(Reconciler)
    /\ Goto(Reconciler, "stuck")
    /\ UNCHANGED <<chain, stored, lock, nonce, resync, todo, requests, faults>>

FindStuck ==
    /\ pc[Reconciler] = "stuck"
    /\ todo' \in SUBSET {n \in Listed(stored) : stored.pending[n] # "replacing"}
    /\ Goto(Reconciler, IF todo' = {} THEN "resync" ELSE "cancel")
    /\ UNCHANGED <<chain, redis, nonce, loaded, seen, resync, requests, faults>>

\* cancelTransaction: a self-transfer with the same nonce and more gas, which
\* the node takes as the next transaction or instead of the one in flight.
Cancel(n) ==
    /\ pc[Reconciler] = "cancel"
    /\ n \in todo
    /\ n = latest
    /\ inFlight' = TRUE
    /\ nonce' = [nonce EXCEPT ![Reconciler] = n]
    /\ todo' = todo \ {n}
    /\ Goto(Reconciler, "cancelMark")
    /\ UNCHANGED <<latest, redis, loaded, seen, resync, requests, faults>>

CancelRejected(n) ==
    /\ pc[Reconciler] = "cancel"
    /\ n \in todo
    /\ n # latest
    /\ todo' = todo \ {n}
    /\ Goto(Reconciler, IF todo' = {} THEN "resync" ELSE "cancel")
    /\ UNCHANGED <<chain, redis, nonce, loaded, seen, resync, requests, faults>>

CancelMark ==
    /\ pc[Reconciler] = "cancelMark"
    /\ Section(Put(stored, nonce[Reconciler], "replacing"))
    /\ Goto(Reconciler, "cancelActive")
    /\ UNCHANGED <<chain, active, locals, requests, faults>>

CancelActive ==
    /\ pc[Reconciler] = "cancelActive"
    /\ active' = nonce[Reconciler]
    /\ nonce' = [nonce EXCEPT ![Reconciler] = NoNonce]
    /\ Goto(Reconciler, IF todo = {} THEN "resync" ELSE "cancel")
    /\ UNCHANGED <<chain, stored, lock, loaded, seen, resync, todo, requests, faults>>

\* The cancellation was sent, but its answer or the lock to record it is not
\* to be had; the job goes on with the next entry.
CancelLost ==
    /\ pc[Reconciler] = "cancelMark"
    /\ faults < MaxFaults
    /\ faults' = faults + 1
    /\ nonce' = [nonce EXCEPT ![Reconciler] = NoNonce]
    /\ Goto(Reconciler, IF todo = {} THEN "resync" ELSE "cancel")
    /\ UNCHANGED <<chain, redis, loaded, seen, resync, todo, requests>>

\* init at start-up
BeginInit(a) ==
    /\ pc[a] = "boot"
    /\ Enter(a)
    /\ Goto(a, "booting")
    /\ UNCHANGED <<chain, active, nonce, resync, todo, requests, faults>>

FinishInit(a) ==
    /\ pc[a] = "booting"
    /\ Leave(a, Recovered(loaded[a], seen[a]))
    /\ active' = IF seen[a].inFlight THEN active ELSE NoNonce
    /\ Forget(a)
    /\ Goto(a, IF a = Reconciler THEN "resync" ELSE "idle")
    /\ UNCHANGED <<chain, nonce, resync, todo, requests, faults>>

---------------------------------------------------------------------------
(* The environment *)

Mine ==
    /\ inFlight
    /\ inFlight' = FALSE
    /\ latest' = latest + 1
    /\ UNCHANGED <<redis, pc, locals, requests, faults>>

\* The process of an actor dies and is started again; its lock stays behind.
Crash(a) ==
    /\ pc[a] # "boot"
    /\ faults < MaxFaults
    /\ faults' = faults + 1
    /\ lock' = IF lock = a THEN Orphan ELSE lock
    /\ resync' = [resync EXCEPT ![a] = FALSE]
    /\ todo' = IF a = Reconciler THEN {} ELSE todo
    /\ nonce' = [nonce EXCEPT ![a] = NoNonce]
    /\ Forget(a)
    /\ Goto(a, "boot")
    /\ UNCHANGED <<chain, stored, active, requests>>

\* The lock's TTL runs out: after its owner died, or while it waits for the
\* RPC node.
ExpireOrphan ==
    /\ lock = Orphan
    /\ lock' = NoOne
    /\ UNCHANGED <<chain, stored, active, pc, locals, requests, faults>>

Expire ==
    /\ lock \in Actors
    /\ faults < MaxFaults
    /\ faults' = faults + 1
    /\ lock' = NoOne
    /\ UNCHANGED <<chain, stored, active, pc, locals, requests>>

---------------------------------------------------------------------------

SenderStep(p) ==
    \/ Poll(p) \/ PollTimeout(p) \/ PeekActive(p) \/ ClearActive(p) \/ CleanPending(p)
    \/ BeginAssign(p) \/ Assign(p) \/ RefuseAssign(p)
    \/ Send(p) \/ SendRejected(p)
    \/ MarkUsed(p) \/ SetActive(p) \/ Reclaim(p) \/ UnsetActive(p)

RecoveryStep(a) ==
    \/ BeginResync(a) \/ Resync(a) \/ BeginInit(a) \/ FinishInit(a)

JobStep ==
    \/ VerifyActive \/ FindStuck
    \/ \E n \in Nonces : Cancel(n) \/ CancelRejected(n)
    \/ CancelMark \/ CancelActive

Fault ==
    \/ \E p \in Procs : SendLost(p) \/ LockFails(p)
    \/ \E a \in Actors : Crash(a) \/ ReadFails(a)
    \/ CancelLost
    \/ Expire

Next ==
    \/ \E p \in Procs : Start(p) \/ SenderStep(p)
    \/ \E a \in Actors : RecoveryStep(a)
    \/ JobStep
    \/ Mine
    \/ ExpireOrphan
    \/ Fault

\* Promises are run, blocks are mined and keys expire; requests and faults
\* need not happen.  acquireLock tries again and again, so an actor that may
\* find the lock taken each time gets it in the end: strong fairness.
Fairness ==
    /\ \A p \in Procs : SF_vars(SenderStep(p))
    /\ \A a \in Actors : SF_vars(RecoveryStep(a))
    /\ WF_vars(JobStep)
    /\ WF_vars(Mine)
    /\ WF_vars(ExpireOrphan)

Spec == Init /\ [][Next]_vars /\ Fairness

---------------------------------------------------------------------------
(* Properties *)

\* A nonce that is sent to the node never leaves a gap before it: it is the
\* next one or one that is taken.  With a gap, or with a second transaction
\* in flight, the node of a delegated account refuses everything.
NonceNeverSkips ==
    \A p \in Procs : pc[p] = "broadcast" => nonce[p] <= latest

\* What the manager takes for confirmed was sent at least, and active_tx never
\* names a transaction that was not: waitForNoInFlight, reclaimNonce and the
\* resyncs rely on both, in processes that overwrite each other's state.
ConfirmedWasSent ==
    /\ TypeOK
    /\ stored.last < PendingCount(Chain)
    /\ active < PendingCount(Chain)

\* Every withNonce call comes back, with a hash or with an error, whatever
\* dies while it holds the lock: the promise chain of a process never stops.
RequestReturns ==
    \A p \in Procs : pc[p] = "wait" ~> pc[p] = "idle"

\* When requests and faults end, the reconciliation job brings the Redis
\* state back in line with the chain: no ghost, no stale active_tx, no gap.
InSync ==
    /\ ~inFlight
    /\ stored.next = latest
    /\ Listed(stored) = {}
    /\ active = NoNonce
    /\ lock # Orphan
EventuallyInSync == <>[]InSync

=============================================================================
