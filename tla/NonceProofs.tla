---------------------------- MODULE NonceProofs ----------------------------
(***************************************************************************)
(* The nonces of the operator account, for any number of API processes,    *)
(* requests, crashes, failed calls and expired locks.                      *)
(***************************************************************************)
EXTENDS NonceManager, SumProofs

(* The inductive invariant *)

\* A nonce_state, seen beside the counts c: what it takes for confirmed was
\* sent, and if its next nonce leaves a gap, the nonce before is listed as
\* pending, so that nobody is given the next one.
Sound(s, c) ==
    /\ s.last < PendingCount(c)
    /\ \/ s.next <= PendingCount(c)
       \/ s.pending[s.next - 1] # "absent"

\* The account has room for the transaction in flight.
ChainInv == inFlight => latest <= MaxNonce

\* What an actor has read: counts of the past, and a state that was sound beside
\* them, to be stored again when the lock may have passed to others.
SeenInv ==
    \A a \in Actors :
        /\ seen[a].inFlight => seen[a].latest <= MaxNonce
        /\ seen[a].latest <= latest
        /\ PendingCount(seen[a]) <= PendingCount(Chain)
        /\ Sound(loaded[a], seen[a])
        /\ pc[a] = "assigning" => loaded[a].next <= MaxNonce

\* The nonce an actor holds has been sent, or is its to send.
HoldsSent == {"clear", "clean", "mark", "activate", "cancelMark", "cancelActive"}
Holds == HoldsSent \cup {"broadcast", "reclaim", "unset"}
HeldInv ==
    \A a \in Actors :
        /\ pc[a] \in Holds => nonce[a] \in Nonces
        /\ pc[a] \in HoldsSent => nonce[a] < PendingCount(Chain)
        /\ pc[a] = "broadcast" => nonce[a] <= latest

NonceInv ==
    /\ TypeOK
    /\ ChainInv
    /\ Sound(stored, Chain)
    /\ active < PendingCount(Chain)
    /\ SeenInv
    /\ HeldInv

---------------------------------------------------------------------------
(* The operations on nonce_state *)

LEMMA EmptySound ==
    /\ Empty \in NonceState
    /\ Unseen \in [latest: 0..(MaxNonce + 1), inFlight: BOOLEAN]
    /\ PendingCount(Unseen) = 0
    /\ Sound(Empty, Unseen)
BY BoundAssumption DEF Empty, Unseen, NonceState, Nonces, Entry, PendingCount, Sound

Counts == [latest: 0..(MaxNonce + 1), inFlight: BOOLEAN]
Room(c) == c.inFlight => c.latest <= MaxNonce

LEMMA CountType ==
    ASSUME NEW c \in Counts, Room(c)
    PROVE  PendingCount(c) \in 0..(MaxNonce + 1) /\ c.latest <= PendingCount(c) /\ c.latest \in Nat
BY BoundAssumption DEF Counts, Room, PendingCount

\* Counts only grow, and a sound state stays sound.
LEMMA SoundLater ==
    ASSUME NEW s \in NonceState, NEW c \in Counts, NEW d \in Counts, Room(c), Room(d),
           PendingCount(c) <= PendingCount(d), Sound(s, c)
    PROVE  Sound(s, d)
<1>1. s.next \in Nat /\ s.last \in Int
    BY BoundAssumption DEF NonceState
<1>2. PendingCount(c) \in Nat /\ PendingCount(d) \in Nat
    BY CountType, BoundAssumption
<1>3. QED
    BY <1>1, <1>2 DEF Sound

LEMMA StateFields ==
    ASSUME NEW s \in NonceState
    PROVE  /\ s.next \in 0..(MaxNonce + 1) /\ s.next \in Nat
           /\ s.last \in -1..MaxNonce /\ s.last \in Int
           /\ s.pending \in [Nonces -> Entry]
           /\ s.next > 0 => s.next - 1 \in Nonces
BY BoundAssumption DEF NonceState, Nonces

LEMMA PutSound ==
    ASSUME NEW s \in NonceState, NEW c \in Counts, Sound(s, c),
           NEW n \in Nonces, NEW e \in Entry \ {"absent"}
    PROVE  Put(s, n, e) \in NonceState /\ Sound(Put(s, n, e), c)
<1> DEFINE new == Put(s, n, e)
<1>1. new \in NonceState /\ new.next = s.next /\ new.last = s.last
    BY DEF Put, NonceState
<1>2. new.pending = [s.pending EXCEPT ![n] = e] /\ s.pending \in [Nonces -> Entry]
    BY DEF Put, NonceState
<1>3. \A m \in Nonces : s.pending[m] # "absent" => new.pending[m] # "absent"
    BY <1>2
<1> HIDE DEF new
<1>4. CASE s.next <= PendingCount(c)
    BY <1>1, <1>4 DEF Sound, new
<1>5. CASE ~(s.next <= PendingCount(c)) /\ s.next > 0
    BY <1>1, <1>3, <1>5, StateFields DEF Sound, new
<1>6. CASE ~(s.next <= PendingCount(c)) /\ s.next <= 0
    BY <1>6, StateFields, BoundAssumption DEF Counts, PendingCount
<1>7. QED
    BY <1>4, <1>5, <1>6, StateFields

\* getNextNonce lists the nonce it assigns.
LEMMA AssignedSound ==
    ASSUME NEW s \in NonceState, NEW c \in Counts, Sound(s, c), s.next <= MaxNonce
    PROVE  Assigned(s) \in NonceState /\ Sound(Assigned(s), c)
<1>1. s.next \in Nonces
    BY StateFields DEF Nonces
<1>2. Put(s, s.next, "ghost") \in NonceState /\ Put(s, s.next, "ghost").next = s.next
      /\ Put(s, s.next, "ghost").last = s.last
      /\ Put(s, s.next, "ghost").pending[s.next] = "ghost"
    BY <1>1 DEF Put, NonceState, Entry
<1>3. /\ Assigned(s) \in NonceState
      /\ Assigned(s).next = s.next + 1
      /\ Assigned(s).last = s.last
      /\ Assigned(s).pending[s.next] = "ghost"
    BY <1>1, <1>2, BoundAssumption DEF Assigned, NonceState, Nonces
<1>4. Assigned(s).pending[Assigned(s).next - 1] # "absent"
    <2>1. s.next + 1 - 1 = s.next
        BY <1>1 DEF Nonces
    <2>2. Assigned(s).next - 1 = s.next
        BY <1>1, <1>3, <2>1 DEF Nonces
    <2>3. QED
        BY <1>3, <2>2
<1>5. QED
    BY <1>3, <1>4 DEF Sound

LEMMA WithoutType ==
    ASSUME NEW s \in NonceState, NEW gone
    PROVE  /\ Without(s, gone) \in NonceState
           /\ Without(s, gone).next = s.next
           /\ Without(s, gone).last = s.last
           /\ \A n \in Nonces : Without(s, gone).pending[n] = IF n \in gone THEN "absent" ELSE s.pending[n]
BY DEF Without, NonceState, Entry

\* Nonces that were sent may be dropped from the list.
LEMMA WithoutSound ==
    ASSUME NEW s \in NonceState, NEW c \in Counts, Room(c), Sound(s, c),
           NEW gone, \A n \in gone : n < PendingCount(c)
    PROVE  Sound(Without(s, gone), c)
<1> DEFINE new == Without(s, gone)
<1>1. /\ new.next = s.next /\ new.last = s.last
      /\ \A n \in Nonces : new.pending[n] = IF n \in gone THEN "absent" ELSE s.pending[n]
    BY WithoutType
<1>2. PendingCount(c) \in Nat
    BY CountType, BoundAssumption
<1> HIDE DEF new
<1>3. CASE s.next <= PendingCount(c)
    BY <1>1, <1>3 DEF Sound, new
<1>4. CASE s.next > PendingCount(c)
    <2>1. s.next - 1 \in Nonces /\ ~(s.next - 1 < PendingCount(c))
        BY <1>2, <1>4, StateFields
    <2>2. s.next - 1 \notin gone /\ s.pending[s.next - 1] # "absent"
        BY <1>2, <1>4, <2>1, StateFields DEF Sound
    <2>3. QED
        BY <1>1, <2>1, <2>2 DEF Sound, new
<1>5. QED
    BY <1>2, <1>3, <1>4, StateFields

LEMMA RaiseLastSound ==
    ASSUME NEW s \in NonceState, NEW c \in Counts, Sound(s, c),
           NEW n \in -1..MaxNonce, n < PendingCount(c)
    PROVE  RaiseLast(s, n) \in NonceState /\ Sound(RaiseLast(s, n), c)
<1>1. RaiseLast(s, n) = IF n > s.last THEN [s EXCEPT !.last = n] ELSE s
    BY DEF RaiseLast, NonceState
<1>2. QED
    BY <1>1 DEF NonceState, Sound

\* waitForNoInFlight
LEMMA ConfirmedSound ==
    ASSUME NEW s \in NonceState, NEW c \in Counts, Room(c), Sound(s, c),
           NEW n \in Nonces, n < PendingCount(c)
    PROVE  Confirmed(s, n) \in NonceState /\ Sound(Confirmed(s, n), c)
<1>1. Without(s, {n}) \in NonceState /\ Sound(Without(s, {n}), c)
    BY WithoutType, WithoutSound
<1>2. n \in -1..MaxNonce
    BY BoundAssumption DEF Nonces
<1>3. RaiseLast(Without(s, {n}), n) \in NonceState /\ Sound(RaiseLast(Without(s, {n}), n), c)
    BY <1>1, <1>2, RaiseLastSound
<1>4. QED
    BY <1>3 DEF Confirmed

\* reclaimNonce: the walk ends at a nonce that is listed or was sent.
LEMMA WalkedBackSound ==
    ASSUME NEW s \in NonceState, NEW c \in Counts, Room(c), s.last < PendingCount(c)
    PROVE  WalkedBack(s) \in NonceState /\ Sound(WalkedBack(s), c)
<1> DEFINE Free(m) == \A k \in m..(s.next - 1) : s.pending[k] = "absent" /\ k > s.last
           Goal(m) == m \in 0..s.next /\ Free(m) /\ (m = 0 \/ ~Free(m - 1))
           starts == {m \in 0..s.next : Free(m)}
<1>1. s.next \in Nat /\ s.next \in 0..(MaxNonce + 1) /\ s.last \in Int
    BY StateFields
<1>2. s.next \in starts /\ starts \in SUBSET Nat
    BY <1>1
<1>3. PICK n \in starts : \A m \in starts : n <= m
    <2> HIDE DEF starts
    <2>1. QED
        BY <1>2, LeastNumber
<1>4. Goal(n)
    BY <1>1, <1>3
<1> DEFINE w == CHOOSE m \in 0..s.next : Free(m) /\ (m = 0 \/ ~Free(m - 1))
<1>5. Goal(w)
    BY <1>4
<1>6. WalkedBack(s) = [s EXCEPT !.next = w]
    BY DEF WalkedBack
<1>7. w \in 0..s.next /\ Free(w) /\ (w = 0 \/ ~Free(w - 1))
    BY <1>5
<1>8. ASSUME w # 0 PROVE s.pending[w - 1] # "absent" \/ w - 1 <= s.last
    <2>1. PICK k \in (w - 1)..(s.next - 1) : ~(s.pending[k] = "absent" /\ k > s.last)
        BY <1>7, <1>8
    <2> HIDE DEF w
    <2>2. k = w - 1
        BY <1>1, <1>7, <2>1
    <2>3. w - 1 \in Int
        BY <1>1, <1>7
    <2>4. QED
        BY <1>1, <2>1, <2>2, <2>3
<1> HIDE DEF w
<1>9. WalkedBack(s) \in NonceState /\ WalkedBack(s).next = w /\ WalkedBack(s).last = s.last
      /\ WalkedBack(s).pending = s.pending
    BY <1>1, <1>6, <1>7, BoundAssumption DEF NonceState
<1>10. w <= PendingCount(c) \/ s.pending[w - 1] # "absent"
    <2>1. PendingCount(c) \in Nat /\ w \in Nat
        BY <1>1, <1>7, CountType, BoundAssumption
    <2>2. QED
        BY <1>1, <1>8, <2>1
<1>11. QED
    BY <1>9, <1>10 DEF Sound

LEMMA ReclaimedSound ==
    ASSUME NEW s \in NonceState, NEW c \in Counts, Room(c), Sound(s, c), NEW n \in Nonces
    PROVE  Reclaimed(s, n) \in NonceState /\ Sound(Reclaimed(s, n), c)
<1>1. Without(s, {n}) \in NonceState /\ Without(s, {n}).last < PendingCount(c)
    BY WithoutType DEF Sound
<1>2. QED
    BY <1>1, WalkedBackSound DEF Reclaimed

---------------------------------------------------------------------------
(* resyncNonce and init *)

LEMMA DropMinedSound ==
    ASSUME NEW s \in NonceState, NEW c \in Counts, Room(c), Sound(s, c)
    PROVE  DropMined(s, c) \in NonceState /\ Sound(DropMined(s, c), c)
<1>1. \A n \in {n \in Nonces : n < c.latest} : n < PendingCount(c)
    BY CountType, BoundAssumption DEF Nonces
<1>2. QED
    BY <1>1, WithoutType, WithoutSound DEF DropMined

LEMMA AdvanceSound ==
    ASSUME NEW s \in NonceState, NEW c \in Counts, Room(c), Sound(s, c)
    PROVE  Advance(s, c) \in NonceState /\ Sound(Advance(s, c), c)
<1>1. PendingCount(c) \in 0..(MaxNonce + 1) /\ PendingCount(c) \in Nat
    BY CountType, BoundAssumption
<1>2. Advance(s, c) = IF PendingCount(c) > s.next THEN [s EXCEPT !.next = PendingCount(c)] ELSE s
    BY DEF Advance, NonceState
<1>3. QED
    BY <1>1, <1>2 DEF NonceState, Sound

LEMMA ClampSound ==
    ASSUME NEW s \in NonceState, NEW c \in Counts, Room(c), Sound(s, c), NEW real, NEW ghosts
    PROVE  Clamp(s, c, real, ghosts) \in NonceState /\ Sound(Clamp(s, c, real, ghosts), c)
<1> DEFINE rest == Without(s, ghosts)
           new == [rest EXCEPT !.next = PendingCount(c)]
<1>1. PendingCount(c) \in 0..(MaxNonce + 1) /\ PendingCount(c) \in Nat
    BY CountType, BoundAssumption
<1>2. rest \in NonceState /\ rest.last = s.last
    BY WithoutType
<1>3. Clamp(s, c, real, ghosts) \in {s, new}
    BY DEF Clamp
<1> HIDE DEF rest
<1>4. new \in NonceState /\ new.next = PendingCount(c) /\ new.last = s.last
    BY <1>1, <1>2 DEF NonceState
<1>5. Sound(new, c)
    BY <1>1, <1>4 DEF Sound
<1>6. QED
    BY <1>3, <1>4, <1>5

LEMMA CountBelow ==
    ASSUME NEW c \in Counts, Room(c)
    PROVE  c.latest - 1 \in -1..MaxNonce /\ c.latest - 1 < PendingCount(c)
BY BoundAssumption DEF Counts, Room, PendingCount

LEMMA ResyncedSound ==
    ASSUME NEW s \in NonceState, NEW c \in Counts, Room(c), Sound(s, c)
    PROVE  Resynced(s, c) \in NonceState /\ Sound(Resynced(s, c), c)
<1> DEFINE raised == RaiseLast(DropMined(s, c), c.latest - 1)
           a == Advance(raised, c)
<1>1. raised \in NonceState /\ Sound(raised, c)
    BY DropMinedSound, CountBelow, RaiseLastSound
<1>2. a \in NonceState /\ Sound(a, c)
    <2> HIDE DEF raised
    <2>1. QED
        BY <1>1, AdvanceSound
<1>3. Resynced(s, c) = Clamp(a, c, Broadcast(a), {n \in Ghosts(a) : n >= PendingCount(c)})
    BY DEF Resynced
<1>4. QED
    <2> HIDE DEF a
    <2>1. QED
        BY <1>2, <1>3, ClampSound

LEMMA RecoveredSound ==
    ASSUME NEW s \in NonceState, NEW c \in Counts, Room(c), Sound(s, c)
    PROVE  Recovered(s, c) \in NonceState /\ Sound(Recovered(s, c), c)
<1> DEFINE clamped == Clamp(s, c, {n \in Broadcast(s) : n < s.next}, Ghosts(s))
           a == Advance(clamped, c)
           d == DropMined(a, c)
<1>1. clamped \in NonceState /\ Sound(clamped, c)
    BY ClampSound
<1>2. a \in NonceState /\ Sound(a, c)
    <2> HIDE DEF clamped
    <2>1. QED
        BY <1>1, AdvanceSound
<1>3. d \in NonceState /\ Sound(d, c)
    <2> HIDE DEF a
    <2>1. QED
        BY <1>2, DropMinedSound
<1>4. Recovered(s, c) = RaiseLast(d, c.latest - 1)
    BY DEF Recovered
<1>5. QED
    <2> HIDE DEF d
    <2>1. QED
        BY <1>3, <1>4, CountBelow, RaiseLastSound

---------------------------------------------------------------------------
(* Steps, one part of the state at a time *)

LEMMA ChainNow ==
    ASSUME TypeOK, ChainInv
    PROVE  /\ Chain \in Counts /\ Room(Chain)
           /\ latest \in Nat /\ PendingCount(Chain) \in Nat
           /\ PendingCount(Chain) = IF inFlight THEN latest + 1 ELSE latest
BY BoundAssumption DEF TypeOK, ChainInv, Chain, Counts, Room, PendingCount

LEMMA SeenThen ==
    ASSUME TypeOK, SeenInv, NEW a \in Actors
    PROVE  /\ seen[a] \in Counts /\ Room(seen[a])
           /\ loaded[a] \in NonceState
           /\ Sound(loaded[a], seen[a])
           /\ PendingCount(seen[a]) <= PendingCount(Chain)
BY DEF TypeOK, SeenInv, Counts, Room

\* The chain goes on, within the bound.
ChainGrows ==
    /\ latest' \in 0..(MaxNonce + 1)
    /\ inFlight' \in BOOLEAN
    /\ ChainInv'
    /\ latest <= latest'
    /\ PendingCount(Chain) <= PendingCount(Chain)'

LEMMA ChainStep ==
    ASSUME NonceInv, [Next]_vars
    PROVE  ChainGrows
<1>1. TypeOK /\ ChainInv /\ HeldInv /\ latest \in 0..(MaxNonce + 1) /\ inFlight \in BOOLEAN
    BY DEF NonceInv, TypeOK
<1> DEFINE count == IF inFlight THEN latest + 1 ELSE latest
<1> PendingCount(Chain) = count /\ PendingCount(Chain)' = count'
    BY DEF Chain, PendingCount
<1>2. ASSUME UNCHANGED chain PROVE ChainGrows
    BY <1>1, <1>2 DEF ChainGrows, chain, ChainInv
<1>3. ASSUME latest' = latest, inFlight => inFlight', inFlight' \in BOOLEAN, latest <= MaxNonce
      PROVE  ChainGrows
    BY <1>1, <1>3 DEF ChainGrows, ChainInv
<1>4. ASSUME NEW p \in Procs, Send(p) PROVE ChainGrows
    <2>1. nonce[p] \in Nonces
        BY <1>1, <1>4 DEF Send, HeldInv, Holds, Actors
    <2>2. QED
        BY <1>3, <1>4, <2>1 DEF Send, Accepts, Nonces
<1>5. ASSUME NEW p \in Procs, SendLost(p) PROVE ChainGrows
    <2>1. nonce[p] \in Nonces
        BY <1>1, <1>5 DEF SendLost, HeldInv, Holds, Actors
    <2>2. CASE Accepts(nonce[p])
        <3>1. latest <= MaxNonce /\ latest' = latest
            BY <1>5, <2>1, <2>2 DEF SendLost, Accepts, Nonces
        <3>2. (inFlight => inFlight') /\ inFlight' \in BOOLEAN
            BY <1>1, <1>5 DEF SendLost
        <3>3. QED
            BY <1>3, <3>1, <3>2
    <2>3. CASE ~Accepts(nonce[p])
        <3>1. inFlight' \in {inFlight, inFlight \/ FALSE} /\ latest' = latest
            BY <1>5, <2>3 DEF SendLost
        <3>2. UNCHANGED chain
            BY <1>1, <3>1 DEF chain
        <3>3. QED
            BY <1>2, <3>2
    <2>4. QED
        BY <2>2, <2>3
<1>6. ASSUME NEW n \in Nonces, Cancel(n) PROVE ChainGrows
    BY <1>3, <1>6 DEF Cancel, Nonces
<1>7. ASSUME Mine PROVE ChainGrows
    <2>1. inFlight /\ latest <= MaxNonce /\ inFlight' = FALSE /\ latest' = latest + 1
        BY <1>1, <1>7 DEF Mine, ChainInv
    <2>2. ~inFlight' /\ inFlight' \in BOOLEAN
        BY <2>1
    <2>3. count = latest + 1 /\ count' = latest'
        BY <2>1, <2>2
    <2>4. latest' \in 0..(MaxNonce + 1) /\ latest <= latest' /\ count <= count'
        BY <1>1, <2>1, <2>3, BoundAssumption
    <2>5. QED
        BY <2>2, <2>4 DEF ChainGrows, ChainInv
<1>8. \/ UNCHANGED chain
      \/ \E p \in Procs : Send(p) \/ SendLost(p)
      \/ \E n \in Nonces : Cancel(n)
      \/ Mine
    BY DEF Next, SenderStep, RecoveryStep, JobStep, Fault, Start, Poll, PollTimeout, PeekActive,
        ClearActive, CleanPending, BeginAssign, Assign, RefuseAssign, SendRejected, MarkUsed,
        SetActive, Reclaim, UnsetActive, BeginResync, Resync, BeginInit, FinishInit, VerifyActive,
        FindStuck, CancelRejected, CancelMark, CancelActive, CancelLost, LockFails, Crash, ReadFails,
        Expire, ExpireOrphan, vars
<1>9. QED
    BY <1>2, <1>4, <1>5, <1>6, <1>7, <1>8

\* What somebody stores is sound, however old the copy it was made from.
LEMMA LoadedSound ==
    ASSUME NonceInv, NEW a \in Actors, NEW s \in NonceState, Sound(s, seen[a])
    PROVE  Sound(s, Chain)
<1>1. /\ seen[a] \in Counts /\ Room(seen[a]) /\ PendingCount(seen[a]) <= PendingCount(Chain)
      /\ Chain \in Counts /\ Room(Chain)
    BY SeenThen, ChainNow DEF NonceInv
<1>2. QED
    BY <1>1, SoundLater

LEMMA StoredStep ==
    ASSUME NonceInv, [Next]_vars
    PROVE  stored' \in NonceState /\ Sound(stored', Chain)
<1>1. TypeOK /\ Sound(stored, Chain) /\ HeldInv /\ stored \in NonceState
    BY DEF NonceInv, TypeOK
<1>2. Chain \in Counts /\ Room(Chain)
    BY ChainNow DEF NonceInv
<1>3. ASSUME NEW a \in Actors
      PROVE  /\ seen[a] \in Counts /\ Room(seen[a])
             /\ loaded[a] \in NonceState /\ Sound(loaded[a], seen[a])
    BY SeenThen DEF NonceInv
<1>4. CASE UNCHANGED stored
    BY <1>1, <1>4
<1>5. ASSUME NEW p \in Procs, CleanPending(p)
      PROVE  stored' \in NonceState /\ Sound(stored', Chain)
    <2>1. nonce[p] \in Nonces /\ nonce[p] < PendingCount(Chain)
        BY <1>1, <1>5 DEF CleanPending, HeldInv, Holds, HoldsSent, Actors
    <2>2. QED
        BY <1>1, <1>2, <1>5, <2>1, ConfirmedSound DEF CleanPending, Section
<1>6. ASSUME NEW p \in Procs, Assign(p)
      PROVE  stored' \in NonceState /\ Sound(stored', Chain)
    <2>1. p \in Actors /\ loaded[p].next <= MaxNonce
        BY <1>6 DEF Assign, NonceInv, SeenInv, Actors
    <2>2. Assigned(loaded[p]) \in NonceState /\ Sound(Assigned(loaded[p]), seen[p])
        BY <1>3, <2>1, AssignedSound
    <2>3. QED
        BY <1>6, <2>1, <2>2, LoadedSound DEF Assign, Leave
<1>7. ASSUME NEW a \in Actors, NEW e \in Entry \ {"absent"}, pc[a] \in Holds,
             stored' = Put(stored, nonce[a], e)
      PROVE  stored' \in NonceState /\ Sound(stored', Chain)
    <2>1. nonce[a] \in Nonces
        BY <1>1, <1>7 DEF HeldInv
    <2>2. QED
        BY <1>1, <1>2, <1>7, <2>1, PutSound
<1>8. ASSUME NEW p \in Procs, Reclaim(p)
      PROVE  stored' \in NonceState /\ Sound(stored', Chain)
    <2>1. nonce[p] \in Nonces
        BY <1>1, <1>8 DEF Reclaim, HeldInv, Holds, Actors
    <2>2. QED
        BY <1>1, <1>2, <1>8, <2>1, ReclaimedSound DEF Reclaim, Section
<1>9. ASSUME NEW a \in Actors, Resync(a)
      PROVE  stored' \in NonceState /\ Sound(stored', Chain)
    <2>1. Resynced(loaded[a], seen[a]) \in NonceState /\ Sound(Resynced(loaded[a], seen[a]), seen[a])
        BY <1>3, ResyncedSound
    <2>2. QED
        BY <1>9, <2>1, LoadedSound DEF Resync, Leave
<1>10. ASSUME NEW a \in Actors, FinishInit(a)
       PROVE  stored' \in NonceState /\ Sound(stored', Chain)
    <2>1. Recovered(loaded[a], seen[a]) \in NonceState /\ Sound(Recovered(loaded[a], seen[a]), seen[a])
        BY <1>3, RecoveredSound
    <2>2. QED
        BY <1>10, <2>1, LoadedSound DEF FinishInit, Leave
<1>11. ASSUME NEW p \in Procs, MarkUsed(p)
       PROVE  stored' \in NonceState /\ Sound(stored', Chain)
    BY <1>7, <1>11 DEF MarkUsed, Section, Holds, HoldsSent, Entry, Actors
<1>12. ASSUME CancelMark
       PROVE  stored' \in NonceState /\ Sound(stored', Chain)
    BY <1>7, <1>12 DEF CancelMark, Section, Holds, HoldsSent, Entry, Actors
<1>13. \/ UNCHANGED stored
       \/ \E p \in Procs : CleanPending(p) \/ Assign(p) \/ MarkUsed(p) \/ Reclaim(p)
       \/ \E a \in Actors : Resync(a) \/ FinishInit(a)
       \/ CancelMark
    BY DEF Next, SenderStep, RecoveryStep, JobStep, Fault, Start, Poll, PollTimeout, PeekActive,
        ClearActive, BeginAssign, RefuseAssign, Send, SendRejected, SendLost, SetActive,
        UnsetActive, BeginResync, BeginInit, VerifyActive, Enter,
        FindStuck, Cancel, CancelRejected, CancelActive, CancelLost, LockFails, Crash, ReadFails,
        Mine, Expire, ExpireOrphan, vars, redis
<1>14. QED
    BY <1>4, <1>5, <1>6, <1>8, <1>9, <1>10, <1>11, <1>12, <1>13

LEMMA ActiveStep ==
    ASSUME NonceInv, [Next]_vars
    PROVE  active' \in Nonces \cup {NoNonce} /\ active' < PendingCount(Chain)
<1>1. TypeOK /\ HeldInv /\ active < PendingCount(Chain)
    BY DEF NonceInv
<1>2. NoNonce < PendingCount(Chain)
    BY <1>1, ChainNow DEF NonceInv, NoNonce
<1>3. CASE active' \in {active, NoNonce}
    BY <1>1, <1>2, <1>3 DEF TypeOK
<1>4. ASSUME NEW a \in Actors, pc[a] \in HoldsSent, active' = nonce[a]
      PROVE  active' \in Nonces \cup {NoNonce} /\ active' < PendingCount(Chain)
    BY <1>1, <1>4 DEF HeldInv, Holds
<1>5. \/ active' \in {active, NoNonce}
      \/ \E a \in Actors : pc[a] \in HoldsSent /\ active' = nonce[a]
    BY DEF Next, SenderStep, RecoveryStep, JobStep, Fault, Start, Poll, PollTimeout, PeekActive,
        ClearActive, CleanPending, BeginAssign, Assign, RefuseAssign, Send, SendRejected, SendLost, MarkUsed,
        SetActive, Reclaim, UnsetActive, BeginResync, Resync, BeginInit, FinishInit, VerifyActive,
        FindStuck, Cancel, CancelRejected, CancelMark, CancelActive, CancelLost, LockFails, Crash,
        ReadFails, Mine, Expire, ExpireOrphan, vars, redis, Actors, HoldsSent
<1>6. QED
    BY <1>3, <1>4, <1>5

\* What an actor that has read nothing new, or has just read, or has dropped
\* what it read, knows.
LEMMA SeenStep ==
    ASSUME NonceInv, [Next]_vars
    PROVE  /\ SeenInv'
           /\ loaded' \in [Actors -> NonceState]
           /\ seen' \in [Actors -> [latest: 0..(MaxNonce + 1), inFlight: BOOLEAN]]
<1> DEFINE Knows(a) ==
              /\ seen[a].inFlight => seen[a].latest <= MaxNonce
              /\ seen[a].latest <= latest
              /\ PendingCount(seen[a]) <= PendingCount(Chain)
              /\ Sound(loaded[a], seen[a])
              /\ pc[a] = "assigning" => loaded[a].next <= MaxNonce
           Typed(a) == loaded'[a] \in NonceState /\ seen'[a] \in Counts
           Fine == /\ \A a \in Actors : Knows(a)' /\ Typed(a)
                   /\ loaded' = [a \in Actors |-> loaded'[a]]
                   /\ seen' = [a \in Actors |-> seen'[a]]
<1>1. /\ ChainGrows
      /\ latest \in Nat /\ latest' \in Nat
      /\ PendingCount(Chain) \in Nat /\ PendingCount(Chain)' \in Nat
    <2>1. ChainGrows /\ latest \in 0..(MaxNonce + 1) /\ inFlight \in BOOLEAN
        BY ChainStep DEF NonceInv, TypeOK
    <2>2. PendingCount(Chain) \in {latest, latest + 1}
        BY DEF Chain, PendingCount
    <2>3. PendingCount(Chain)' \in {latest', latest' + 1}
        BY DEF Chain, PendingCount
    <2>4. latest \in Nat /\ latest' \in Nat
        BY <2>1, BoundAssumption DEF ChainGrows
    <2>5. QED
        BY <2>1, <2>2, <2>3, <2>4
<1>2. \A a \in Actors : Knows(a) /\ loaded[a] \in NonceState /\ seen[a] \in Counts /\ PendingCount(seen[a]) \in Nat
    <2>1. \A a \in Actors : Knows(a) /\ loaded[a] \in NonceState /\ seen[a] \in Counts
        BY DEF NonceInv, SeenInv, TypeOK, Counts
    <2>2. QED
        BY <2>1, CountType, BoundAssumption DEF Room
<1>3. ASSUME NEW a \in Actors, loaded'[a] = loaded[a], seen'[a] = seen[a],
             pc'[a] = "assigning" => pc[a] = "assigning"
      PROVE  Knows(a)' /\ Typed(a)
    <2>1. seen[a].latest \in Nat
        BY <1>2, BoundAssumption DEF Counts
    <2>2. (PendingCount(seen[a]) <= PendingCount(Chain))'
        BY <1>1, <1>2, <1>3 DEF ChainGrows
    <2>3. Sound(loaded[a], seen[a])'
        BY <1>2, <1>3 DEF Sound
    <2>4. QED
        BY <1>1, <1>2, <1>3, <2>1, <2>2, <2>3 DEF ChainGrows
<1>4. ASSUME NEW a \in Actors, loaded'[a] = Empty, seen'[a] = Unseen
      PROVE  Knows(a)' /\ Typed(a)
    <2>1. PendingCount(seen'[a]) = 0 /\ Sound(loaded'[a], seen'[a])
        BY <1>4, EmptySound
    <2>2. loaded'[a].next = 0 /\ seen'[a].latest = 0 /\ ~seen'[a].inFlight
        BY <1>4 DEF Empty, Unseen
    <2>3. QED
        BY <1>1, <1>4, <2>1, <2>2, EmptySound, BoundAssumption DEF Counts
<1>5. ASSUME NEW a \in Actors, loaded'[a] = stored, seen'[a] = Chain, UNCHANGED chain,
             pc'[a] = "assigning" => stored.next <= MaxNonce
      PROVE  Knows(a)' /\ Typed(a)
    <2>1. Chain \in Counts /\ Room(Chain) /\ stored \in NonceState /\ Sound(stored, Chain)
        BY ChainNow DEF NonceInv, TypeOK
    <2>2. Chain' = Chain /\ latest' = latest /\ Chain.latest = latest
        BY <1>5 DEF chain, Chain
    <2>3. QED
        BY <1>1, <1>5, <2>1, <2>2 DEF Room
<1>6. ASSUME Fine
      PROVE  /\ SeenInv'
             /\ loaded' \in [Actors -> NonceState]
             /\ seen' \in [Actors -> [latest: 0..(MaxNonce + 1), inFlight: BOOLEAN]]
    BY <1>6 DEF SeenInv, Counts
<1>7. loaded \in [Actors -> NonceState] /\ seen \in [Actors -> Counts] /\ pc \in [Actors -> Places]
    BY DEF NonceInv, TypeOK, Counts
<1> HIDE DEF Knows, Typed
<1>8. ASSUME NEW a \in Actors, Enter(a), UNCHANGED chain,
             \E place \in Places :
                (pc' = [pc EXCEPT ![a] = place]) /\ (place = "assigning" => stored.next <= MaxNonce)
      PROVE  Fine
    <2>1. loaded' = [loaded EXCEPT ![a] = stored] /\ seen' = [seen EXCEPT ![a] = Chain]
        BY <1>8 DEF Enter
    <2>2. PICK place \in Places :
              (pc' = [pc EXCEPT ![a] = place]) /\ (place = "assigning" => stored.next <= MaxNonce)
        BY <1>8
    <2>3. pc'[a] = "assigning" => stored.next <= MaxNonce
        BY <1>7, <2>2
    <2>4. Knows(a)' /\ Typed(a)
        BY <1>5, <1>7, <1>8, <2>1, <2>3
    <2>5. \A b \in Actors : b # a => loaded'[b] = loaded[b] /\ seen'[b] = seen[b] /\ pc'[b] = pc[b]
        BY <1>7, <2>1, <2>2
    <2>6. \A b \in Actors : b # a => Knows(b)' /\ Typed(b)
        BY <1>3, <2>5
    <2>7. QED
        BY <1>7, <2>1, <2>4, <2>6
<1>9. ASSUME NEW a \in Actors, Forget(a),
             \E place : place # "assigning" /\ pc' = [pc EXCEPT ![a] = place]
      PROVE  Fine
    BY <1>3, <1>4, <1>7, <1>9 DEF Forget
<1>10. ASSUME UNCHANGED <<loaded, seen>>,
              \A a \in Actors : pc'[a] = "assigning" => pc[a] = "assigning"
       PROVE  Fine
    BY <1>3, <1>7, <1>10
<1>11. ASSUME NEW a \in Actors, Resync(a)
       PROVE  Fine
    <2>1. CASE a = Reconciler
        <3>1. /\ loaded' = [loaded EXCEPT ![a] = Empty] /\ seen' = seen
              /\ pc' = [pc EXCEPT ![a] = "verify"] /\ UNCHANGED chain
            BY <1>11, <2>1 DEF Resync, Goto
        <3>2. Knows(a)' /\ Typed(a)
            <4>1. loaded'[a] = Empty /\ seen'[a] = seen[a] /\ pc'[a] = "verify"
                BY <1>7, <3>1
            <4>2. Chain' = Chain /\ latest' = latest
                BY <3>1 DEF chain, Chain
            <4>3. Sound(Empty, seen[a])
                BY <1>2, BoundAssumption DEF Sound, Empty, Knows
            <4>4. QED
                BY <1>2, <4>1, <4>2, <4>3, EmptySound DEF Knows, Typed
        <3>3. QED
            BY <1>3, <1>7, <3>1, <3>2
    <2>2. CASE a # Reconciler
        BY <1>9, <1>11, <2>2 DEF Resync, Forget, Goto
    <2>3. QED
        BY <2>1, <2>2
<1>12. ASSUME NEW p \in Procs, BeginAssign(p)
       PROVE  p \in Actors /\ Enter(p) /\ UNCHANGED chain /\ stored.next <= MaxNonce
              /\ pc' = [pc EXCEPT ![p] = "assigning"]
    BY <1>12 DEF BeginAssign, Goto, Actors
<1>13. ASSUME NEW a \in Actors, BeginResync(a) \/ BeginInit(a)
       PROVE  Enter(a) /\ UNCHANGED chain /\ \E place \in {"resyncing", "booting"} : pc' = [pc EXCEPT ![a] = place]
    BY <1>13 DEF BeginResync, BeginInit, Goto
<1>14. ASSUME NEW a \in Actors,
              \/ a \in Procs /\ (Assign(a) \/ RefuseAssign(a))
              \/ FinishInit(a) \/ Crash(a) \/ ReadFails(a)
              \/ (a = Reconciler /\ VerifyActive)
       PROVE  Forget(a) /\ \E place : place # "assigning" /\ pc' = [pc EXCEPT ![a] = place]
    BY <1>14 DEF Assign, RefuseAssign, FinishInit, Crash, ReadFails, VerifyActive, Goto
<1>15. \/ \E p \in Procs : BeginAssign(p)
       \/ \E a \in Actors : BeginResync(a) \/ BeginInit(a) \/ Resync(a)
       \/ \E a \in Actors :
              \/ a \in Procs /\ (Assign(a) \/ RefuseAssign(a))
              \/ FinishInit(a) \/ Crash(a) \/ ReadFails(a)
              \/ (a = Reconciler /\ VerifyActive)
       \/ /\ UNCHANGED <<loaded, seen>>
          /\ pc' = pc \/ \E a \in Actors, place \in Places \ {"assigning"} : pc' = [pc EXCEPT ![a] = place]
    BY DEF Next, SenderStep, RecoveryStep, JobStep, Fault, Start, Poll, PollTimeout, PeekActive,
        ClearActive, CleanPending, Send, SendRejected, SendLost, MarkUsed,
        SetActive, Reclaim, UnsetActive, FindStuck, Cancel, CancelRejected, CancelMark, CancelActive,
        CancelLost, LockFails, Mine, Expire, ExpireOrphan, vars, locals, Goto, Actors, Places
<1>16. ASSUME UNCHANGED <<loaded, seen>>,
              pc' = pc \/ \E a \in Actors, place \in Places \ {"assigning"} : pc' = [pc EXCEPT ![a] = place]
       PROVE  Fine
    <2>1. \A a \in Actors : pc'[a] = "assigning" => pc[a] = "assigning"
        BY <1>7, <1>16
    <2>2. QED
        BY <1>10, <1>16, <2>1
<1> HIDE DEF Fine
<1>17. ASSUME NEW p \in Procs, BeginAssign(p) PROVE Fine
    BY <1>8, <1>12, <1>17 DEF Places
<1>18. ASSUME NEW a \in Actors, BeginResync(a) \/ BeginInit(a) PROVE Fine
    BY <1>8, <1>13, <1>18 DEF Places
<1>19. Fine
    BY <1>9, <1>11, <1>14, <1>15, <1>16, <1>17, <1>18
<1>20. QED
    BY <1>6, <1>19

\* How a step changes what an actor holds: it is sent a nonce, or keeps, drops or
\* takes one that was sent.
LEMMA HeldStep ==
    ASSUME NonceInv, [Next]_vars
    PROVE  /\ HeldInv'
           /\ nonce' \in [Actors -> Nonces \cup {NoNonce}]
           /\ pc' \in [Actors -> Places]
<1> DEFINE Has(a) ==
              /\ pc[a] \in Holds => nonce[a] \in Nonces
              /\ pc[a] \in HoldsSent => nonce[a] < PendingCount(Chain)
              /\ pc[a] = "broadcast" => nonce[a] <= latest
           Typed(a) == nonce'[a] \in Nonces \cup {NoNonce} /\ pc'[a] \in Places
           Fine == /\ \A a \in Actors : Has(a)' /\ Typed(a)
                   /\ nonce' = [a \in Actors |-> nonce'[a]]
                   /\ pc' = [a \in Actors |-> pc'[a]]
<1>1. /\ latest \in Nat /\ latest' \in Nat /\ latest <= latest'
      /\ PendingCount(Chain) \in Nat /\ PendingCount(Chain)' \in Nat
      /\ PendingCount(Chain) <= PendingCount(Chain)'
    <2>1. ChainGrows /\ latest \in 0..(MaxNonce + 1)
        BY ChainStep DEF NonceInv, TypeOK
    <2>2. PendingCount(Chain) \in {latest, latest + 1}
        BY DEF Chain, PendingCount
    <2>3. PendingCount(Chain)' \in {latest', latest' + 1}
        BY DEF Chain, PendingCount
    <2>4. latest \in Nat /\ latest' \in Nat
        BY <2>1, BoundAssumption DEF ChainGrows
    <2>5. QED
        BY <2>1, <2>2, <2>3, <2>4 DEF ChainGrows
<1>2. /\ nonce \in [Actors -> Nonces \cup {NoNonce}] /\ pc \in [Actors -> Places]
      /\ \A a \in Actors : Has(a)
    BY DEF NonceInv, TypeOK, HeldInv
<1>3. \A a \in Actors : nonce[a] \in Int
    BY <1>2 DEF Nonces, NoNonce
\* An actor keeps its nonce, and goes where it needs no more than before.
<1>4. ASSUME NEW a \in Actors, nonce'[a] = nonce[a], pc'[a] \in Places,
             pc'[a] \in Holds => pc[a] \in Holds,
             pc'[a] \in HoldsSent => pc[a] \in HoldsSent,
             pc'[a] = "broadcast" => pc[a] = "broadcast"
      PROVE  Has(a)' /\ Typed(a)
    BY <1>1, <1>2, <1>3, <1>4
\* It goes where it needs none.
<1>5. ASSUME NEW a \in Actors, nonce'[a] \in {nonce[a], NoNonce}, pc'[a] \in Places \ Holds
      PROVE  Has(a)' /\ Typed(a)
    BY <1>2, <1>5 DEF Holds
\* Or with a nonce that is sent, or is to be sent.
<1>6. ASSUME NEW a \in Actors, nonce'[a] \in Nonces, pc'[a] \in Holds \ {"broadcast"}, pc'[a] \in Places,
             pc'[a] \in HoldsSent => nonce'[a] < PendingCount(Chain)'
      PROVE  Has(a)' /\ Typed(a)
    BY <1>6
<1>7. ASSUME Fine
      PROVE  /\ HeldInv'
             /\ nonce' \in [Actors -> Nonces \cup {NoNonce}]
             /\ pc' \in [Actors -> Places]
    BY <1>7 DEF HeldInv
<1> HIDE DEF Has, Typed
\* One actor takes a step, the others keep what they have.
<1>8. ASSUME NEW a \in Actors, Has(a)' /\ Typed(a),
             \E place : pc' = [pc EXCEPT ![a] = place],
             nonce' = nonce \/ \E n : nonce' = [nonce EXCEPT ![a] = n]
      PROVE  Fine
    <2>1. \A b \in Actors : b # a => nonce'[b] = nonce[b] /\ pc'[b] = pc[b] /\ pc[b] \in Places
        BY <1>2, <1>8
    <2>2. \A b \in Actors : b # a => Has(b)' /\ Typed(b)
        BY <1>4, <2>1
    <2>3. nonce' = [b \in Actors |-> nonce'[b]] /\ pc' = [b \in Actors |-> pc'[b]]
        BY <1>2, <1>8
    <2>4. QED
        BY <1>8, <2>2, <2>3
<1>9. ASSUME UNCHANGED <<nonce, pc>> PROVE Fine
    <2>1. \A b \in Actors : nonce'[b] = nonce[b] /\ pc'[b] = pc[b] /\ pc[b] \in Places
        BY <1>2, <1>9
    <2>2. \A b \in Actors : Has(b)' /\ Typed(b)
        BY <1>4, <2>1
    <2>3. nonce' = [b \in Actors |-> nonce'[b]] /\ pc' = [b \in Actors |-> pc'[b]]
        BY <1>2, <1>9
    <2>4. QED
        BY <2>2, <2>3
<1> HIDE DEF Fine
\* The actors that keep their nonce, or drop it.
<1>10. ASSUME NEW a \in Actors, NEW place \in Places \ Holds, pc' = [pc EXCEPT ![a] = place],
              nonce' = nonce \/ nonce' = [nonce EXCEPT ![a] = NoNonce]
       PROVE  Fine
    <2>1. pc'[a] = place /\ nonce'[a] \in {nonce[a], NoNonce}
        BY <1>2, <1>10
    <2>2. QED
        BY <1>5, <1>8, <1>10, <2>1
<1>11. ASSUME NEW a \in Actors, NEW place \in Places, pc' = [pc EXCEPT ![a] = place],
              nonce' = nonce \/ nonce' = [nonce EXCEPT ![a] = nonce[a]],
              place \in Holds => pc[a] \in Holds,
              place \in HoldsSent => pc[a] \in HoldsSent, place # "broadcast"
       PROVE  Fine
    <2>1. pc'[a] = place /\ nonce'[a] = nonce[a]
        BY <1>2, <1>11
    <2>2. QED
        BY <1>4, <1>8, <1>11, <2>1
<1>12. ASSUME NEW p \in Procs, PeekActive(p) PROVE Fine
    <2>1. p \in Actors /\ pc'[p] = (IF active = NoNonce THEN "assign" ELSE "clear") /\ nonce'[p] = active
        BY <1>2, <1>12 DEF PeekActive, Goto, Actors
    <2>2. active \in Nonces \cup {NoNonce} /\ active < PendingCount(Chain)
        BY DEF NonceInv, TypeOK
    <2>3. CASE active = NoNonce
        <3>1. pc'[p] \in Places \ Holds /\ nonce'[p] \in {nonce[p], NoNonce}
            BY <2>1, <2>3 DEF Places, Holds, HoldsSent
        <3>2. QED
            BY <1>5, <1>8, <1>12, <2>1, <3>1 DEF PeekActive, Goto
    <2>4. CASE active # NoNonce
        <3>1. pc'[p] \in Holds \ {"broadcast"} /\ pc'[p] \in Places /\ nonce'[p] \in Nonces
            BY <2>1, <2>2, <2>4 DEF Places, Holds, HoldsSent
        <3>2. nonce'[p] < PendingCount(Chain)'
            BY <1>1, <2>1, <2>2, <2>4 DEF Nonces
        <3>3. QED
            BY <1>6, <1>8, <1>12, <2>1, <3>1, <3>2 DEF PeekActive, Goto
    <2>5. QED
        BY <2>3, <2>4
\* getNextNonce: with nothing listed, and nothing in flight, there is no gap.
<1>13. ASSUME NEW p \in Procs, Assign(p) PROVE Fine
    <2>1. /\ p \in Actors /\ pc[p] = "assigning" /\ pc'[p] = "broadcast" /\ nonce'[p] = loaded[p].next
          /\ Assignable(p) /\ UNCHANGED latest
        BY <1>2, <1>13 DEF Assign, Goto, Actors, chain
    <2>2. /\ seen[p] \in Counts /\ Room(seen[p]) /\ loaded[p] \in NonceState
          /\ Sound(loaded[p], seen[p])
        BY <2>1, SeenThen DEF NonceInv
    <2>3. loaded[p].next <= MaxNonce /\ seen[p].latest <= latest
        BY <2>1 DEF NonceInv, SeenInv
    <2>4. loaded[p].next \in Nonces /\ (loaded[p].next > 0 => loaded[p].next - 1 \in Nonces)
        BY <2>2, <2>3, StateFields DEF Nonces
    <2>5. loaded[p].next > 0 => loaded[p].pending[loaded[p].next - 1] = "absent"
        BY <2>1, <2>4 DEF Assignable, Listed
    <2>6. PendingCount(seen[p]) = seen[p].latest /\ seen[p].latest \in Nat
        BY <2>1, <2>2, BoundAssumption DEF Assignable, PendingCount, Counts
    <2>7. loaded[p].next <= seen[p].latest
        BY <2>2, <2>4, <2>5, <2>6 DEF Sound, Nonces
    <2>8. loaded[p].next <= latest
        BY <1>1, <2>3, <2>4, <2>6, <2>7 DEF Nonces
    <2>9. Has(p)' /\ Typed(p)
        BY <2>1, <2>4, <2>8 DEF Has, Typed, Holds, HoldsSent, Places
    <2>10. QED
        BY <1>8, <1>13, <2>1, <2>9 DEF Assign, Goto
\* The nonce a node takes is in the mempool.
<1>14. ASSUME NEW p \in Procs, Send(p) PROVE Fine
    <2>1. p \in Actors /\ pc[p] = "broadcast" /\ pc'[p] = "mark" /\ nonce' = nonce
        BY <1>2, <1>14 DEF Send, Goto, Actors, locals
    <2>2. nonce[p] \in Nonces
        BY <1>2, <2>1 DEF Has, Holds
    <2>3. PendingCount(Chain)' = latest + 1 /\ nonce[p] = latest
        BY <1>14 DEF Send, Accepts, PendingCount, Chain
    <2>4. nonce'[p] < PendingCount(Chain)'
        BY <1>1, <2>1, <2>3
    <2>5. pc'[p] \in Holds \ {"broadcast"} /\ pc'[p] \in Places
        BY <2>1 DEF Holds, HoldsSent, Places
    <2>6. QED
        BY <1>6, <1>8, <1>14, <2>1, <2>2, <2>4, <2>5 DEF Send, Goto
<1>15. ASSUME NEW n \in Nonces, Cancel(n) PROVE Fine
    <2>1. Reconciler \in Actors /\ pc'[Reconciler] = "cancelMark" /\ nonce'[Reconciler] = n
        BY <1>2, <1>15 DEF Cancel, Goto, Actors
    <2>2. PendingCount(Chain)' = latest + 1 /\ n = latest
        BY <1>15 DEF Cancel, PendingCount, Chain
    <2>3. nonce'[Reconciler] < PendingCount(Chain)' /\ nonce'[Reconciler] \in Nonces
        BY <1>1, <2>1, <2>2
    <2>4. pc'[Reconciler] \in Holds \ {"broadcast"} /\ pc'[Reconciler] \in Places
        BY <2>1 DEF Holds, HoldsSent, Places
    <2>5. QED
        BY <1>6, <1>8, <1>15, <2>1, <2>3, <2>4 DEF Cancel, Goto
\* The other steps.
<1>16. ASSUME NEW p \in Procs,
              \/ Start(p) \/ Poll(p) \/ PollTimeout(p) \/ CleanPending(p) \/ BeginAssign(p)
              \/ RefuseAssign(p) \/ SetActive(p) \/ UnsetActive(p)
       PROVE  \E a \in Actors, place \in Places \ Holds :
                 /\ pc' = [pc EXCEPT ![a] = place]
                 /\ nonce' = nonce \/ nonce' = [nonce EXCEPT ![a] = NoNonce]
    <2>1. p \in Actors
        BY DEF Actors
    <2>2. \E place \in Places \ Holds :
                 /\ pc' = [pc EXCEPT ![p] = place]
                 /\ nonce' = nonce \/ nonce' = [nonce EXCEPT ![p] = NoNonce]
        BY <1>16 DEF Start, Poll, PollTimeout, CleanPending, BeginAssign, RefuseAssign, SetActive,
            UnsetActive, Goto, locals, Places, Holds, HoldsSent
    <2>3. QED
        BY <2>1, <2>2
<1>17. ASSUME NEW a \in Actors,
              RecoveryStep(a) \/ Crash(a) \/ ReadFails(a) \/ (a = Reconciler /\ (VerifyActive \/ FindStuck
              \/ CancelActive \/ CancelLost \/ \E n \in Nonces : CancelRejected(n)))
       PROVE  \E place \in Places \ Holds :
                 /\ pc' = [pc EXCEPT ![a] = place]
                 /\ nonce' = nonce \/ nonce' = [nonce EXCEPT ![a] = NoNonce]
    BY <1>17 DEF RecoveryStep, BeginResync, Resync, BeginInit, FinishInit, Crash, ReadFails, VerifyActive,
        FindStuck, CancelActive, CancelLost, CancelRejected, Goto, locals, Places, Holds, HoldsSent
<1>18. ASSUME NEW p \in Procs,
              ClearActive(p) \/ SendRejected(p) \/ SendLost(p) \/ MarkUsed(p) \/ Reclaim(p)
       PROVE  Fine
    <2>1. PICK place \in Places :
              /\ pc' = [pc EXCEPT ![p] = place] /\ nonce' = nonce
              /\ pc[p] \in Holds /\ place # "broadcast"
              /\ place \in HoldsSent => pc[p] \in HoldsSent
        BY <1>18 DEF ClearActive, SendRejected, SendLost, MarkUsed, Reclaim, Goto, locals, Places, Holds, HoldsSent
    <2>2. p \in Actors
        BY DEF Actors
    <2>3. QED
        BY <1>11, <2>1, <2>2
<1>19. ASSUME CancelMark PROVE Fine
    <2>1. /\ pc' = [pc EXCEPT ![Reconciler] = "cancelActive"] /\ nonce' = nonce
          /\ pc[Reconciler] = "cancelMark" /\ Reconciler \in Actors
        BY <1>19 DEF CancelMark, Goto, locals, Actors
    <2>2. QED
        BY <1>11, <2>1 DEF Places, Holds, HoldsSent
<1>20. ASSUME NEW p \in Procs, LockFails(p) PROVE Fine
    <2>1. p \in Actors
        BY DEF Actors
    <2>2. CASE pc[p] \in {"mark", "activate"}
        <3>1. pc' = [pc EXCEPT ![p] = "reclaim"] /\ nonce' = [nonce EXCEPT ![p] = nonce[p]]
            BY <1>20, <2>2 DEF LockFails, Goto
        <3>2. QED
            BY <1>11, <2>1, <2>2, <3>1 DEF Places, Holds, HoldsSent
    <2>3. CASE pc[p] \notin {"mark", "activate"}
        <3>1. pc' = [pc EXCEPT ![p] = "idle"] /\ nonce' = [nonce EXCEPT ![p] = NoNonce]
            BY <1>20, <2>3 DEF LockFails, Goto
        <3>2. QED
            BY <1>10, <2>1, <3>1 DEF Places, Holds, HoldsSent
    <2>4. QED
        BY <2>2, <2>3
<1>21. \/ UNCHANGED <<nonce, pc>>
       \/ \E p \in Procs :
             \/ PeekActive(p) \/ Assign(p) \/ Send(p) \/ LockFails(p)
             \/ Start(p) \/ Poll(p) \/ PollTimeout(p) \/ CleanPending(p) \/ BeginAssign(p)
             \/ RefuseAssign(p) \/ SetActive(p) \/ UnsetActive(p)
             \/ ClearActive(p) \/ SendRejected(p) \/ SendLost(p) \/ MarkUsed(p) \/ Reclaim(p)
       \/ \E n \in Nonces : Cancel(n)
       \/ CancelMark
       \/ \E a \in Actors :
              RecoveryStep(a) \/ Crash(a) \/ ReadFails(a) \/ (a = Reconciler /\ (VerifyActive \/ FindStuck
              \/ CancelActive \/ CancelLost \/ \E n \in Nonces : CancelRejected(n)))
    BY DEF Next, SenderStep, JobStep, Fault, Mine, Expire, ExpireOrphan, vars, locals, Actors
<1>22. Fine
    BY <1>9, <1>10, <1>12, <1>13, <1>14, <1>15, <1>16, <1>17, <1>18, <1>19, <1>20, <1>21
<1>23. QED
    BY <1>7, <1>22 DEF Fine

LEMMA CounterStep ==
    ASSUME NonceInv, [Next]_vars
    PROVE  /\ lock' \in Actors \cup {NoOne, Orphan}
           /\ resync' \in [Actors -> BOOLEAN]
           /\ todo' \subseteq Nonces
           /\ requests' \in 0..MaxRequests
           /\ faults' \in 0..MaxFaults
<1>1. /\ lock \in Actors \cup {NoOne, Orphan}
      /\ resync \in [Actors -> BOOLEAN]
      /\ todo \subseteq Nonces
      /\ requests \in 0..MaxRequests
      /\ faults \in 0..MaxFaults
    BY DEF NonceInv, TypeOK
<1>2. lock' \in {lock, NoOne, Orphan} \/ lock' \in Actors
    BY DEF Next, SenderStep, RecoveryStep, JobStep, Fault, Start, Poll, PollTimeout, PeekActive,
        ClearActive, CleanPending, BeginAssign, Assign, RefuseAssign, Send, SendRejected, SendLost, MarkUsed,
        SetActive, Reclaim, UnsetActive, BeginResync, Resync, BeginInit, FinishInit, VerifyActive,
        FindStuck, Cancel, CancelRejected, CancelMark, CancelActive, CancelLost, LockFails, Crash,
        ReadFails, Mine, Expire, ExpireOrphan, vars, redis, Actors, Enter, Leave, Release, Section
<1>3. \/ resync' = resync
      \/ \E a \in Actors, b \in BOOLEAN : resync' = [resync EXCEPT ![a] = b]
    <2>1. ASSUME NEW p \in Procs, SendRejected(p)
          PROVE  \E a \in Actors, b \in BOOLEAN : resync' = [resync EXCEPT ![a] = b]
        <3>1. (nonce[p] > PendingCount(Chain)) \in BOOLEAN
            OBVIOUS
        <3>2. p \in Actors
            BY DEF Actors
        <3>3. QED
            BY <2>1, <3>1, <3>2 DEF SendRejected
    <2>2. \/ resync' = resync
          \/ \E p \in Procs : SendRejected(p)
          \/ \E a \in Actors : resync' = [resync EXCEPT ![a] = FALSE]
        BY DEF Next, SenderStep, RecoveryStep, JobStep, Fault, Start, Poll, PollTimeout, PeekActive,
            ClearActive, CleanPending, BeginAssign, Assign, RefuseAssign, Send, SendLost, MarkUsed,
            SetActive, Reclaim, UnsetActive, BeginResync, Resync, BeginInit, FinishInit, VerifyActive,
            FindStuck, Cancel, CancelRejected, CancelMark, CancelActive, CancelLost, LockFails, Crash,
            ReadFails, Mine, Expire, ExpireOrphan, vars, locals, Actors
    <2>3. QED
        BY <2>1, <2>2
<1>4. todo' \subseteq todo \/ todo' \subseteq Nonces
    BY DEF Next, SenderStep, RecoveryStep, JobStep, Fault, Start, Poll, PollTimeout, PeekActive,
        ClearActive, CleanPending, BeginAssign, Assign, RefuseAssign, Send, SendRejected, SendLost, MarkUsed,
        SetActive, Reclaim, UnsetActive, BeginResync, Resync, BeginInit, FinishInit, VerifyActive,
        FindStuck, Listed, Cancel, CancelRejected, CancelMark, CancelActive, CancelLost, LockFails, Crash,
        ReadFails, Mine, Expire, ExpireOrphan, vars, locals
<1>5. requests' = requests \/ (requests < MaxRequests /\ requests' = requests + 1)
    BY DEF Next, SenderStep, RecoveryStep, JobStep, Fault, Start, Poll, PollTimeout, PeekActive,
        ClearActive, CleanPending, BeginAssign, Assign, RefuseAssign, Send, SendRejected, SendLost, MarkUsed,
        SetActive, Reclaim, UnsetActive, BeginResync, Resync, BeginInit, FinishInit, VerifyActive,
        FindStuck, Cancel, CancelRejected, CancelMark, CancelActive, CancelLost, LockFails, Crash,
        ReadFails, Mine, Expire, ExpireOrphan, vars
<1>6. faults' = faults \/ (faults < MaxFaults /\ faults' = faults + 1)
    BY DEF Next, SenderStep, RecoveryStep, JobStep, Fault, Start, Poll, PollTimeout, PeekActive,
        ClearActive, CleanPending, BeginAssign, Assign, RefuseAssign, Send, SendRejected, SendLost, MarkUsed,
        SetActive, Reclaim, UnsetActive, BeginResync, Resync, BeginInit, FinishInit, VerifyActive,
        FindStuck, Cancel, CancelRejected, CancelMark, CancelActive, CancelLost, LockFails, Crash,
        ReadFails, Mine, Expire, ExpireOrphan, vars
<1>7. resync' \in [Actors -> BOOLEAN]
    BY <1>1, <1>3
<1>8. requests' \in 0..MaxRequests /\ faults' \in 0..MaxFaults
    BY <1>1, <1>5, <1>6, BoundAssumption
<1>9. QED
    BY <1>1, <1>2, <1>4, <1>7, <1>8

---------------------------------------------------------------------------
(* The theorems *)

LEMMA NonceInit == Init => NonceInv
<1> SUFFICES ASSUME Init PROVE NonceInv
    OBVIOUS
<1>1. Empty \in NonceState /\ Unseen \in [latest: 0..(MaxNonce + 1), inFlight: BOOLEAN]
      /\ PendingCount(Unseen) = 0 /\ Sound(Empty, Unseen)
    BY EmptySound
<1>2. Chain = Unseen
    BY DEF Init, Chain, Unseen
<1>3. TypeOK
    <2>1. pc \in [Actors -> Places]
        BY DEF Init, Places
    <2>2. /\ nonce \in [Actors -> Nonces \cup {NoNonce}]
          /\ resync \in [Actors -> BOOLEAN]
        BY DEF Init
    <2>3. /\ loaded \in [Actors -> NonceState]
          /\ seen \in [Actors -> [latest: 0..(MaxNonce + 1), inFlight: BOOLEAN]]
          /\ stored \in NonceState
        BY <1>1 DEF Init
    <2>4. /\ latest \in 0..(MaxNonce + 1) /\ inFlight \in BOOLEAN
          /\ requests \in 0..MaxRequests /\ faults \in 0..MaxFaults
        <3>1. latest = 0 /\ inFlight = FALSE /\ requests = 0 /\ faults = 0
            BY DEF Init
        <3>2. 0 \in 0..(MaxNonce + 1) /\ 0 \in 0..MaxRequests /\ 0 \in 0..MaxFaults
            BY BoundAssumption
        <3>3. QED
            BY <3>1, <3>2
    <2>5. /\ active \in Nonces \cup {NoNonce}
          /\ lock \in Actors \cup {NoOne, Orphan}
          /\ todo \subseteq Nonces
        BY DEF Init
    <2>6. QED
        BY <2>1, <2>2, <2>3, <2>4, <2>5 DEF TypeOK
<1>4. ChainInv /\ active < PendingCount(Chain) /\ Sound(stored, Chain)
    BY <1>1, <1>2 DEF Init, ChainInv, NoNonce
<1>5. SeenInv
    BY <1>1, <1>2 DEF Init, SeenInv, Unseen
<1>6. HeldInv
    BY DEF Init, HeldInv, Holds, HoldsSent
<1>7. QED
    BY <1>3, <1>4, <1>5, <1>6 DEF NonceInv

LEMMA NonceStep ==
    ASSUME NonceInv, [Next]_vars
    PROVE  NonceInv'
<1>1. ChainGrows /\ ChainInv' /\ SeenInv' /\ HeldInv'
    BY ChainStep, SeenStep, HeldStep DEF ChainGrows
<1>2. TypeOK'
    BY <1>1, StoredStep, ActiveStep, SeenStep, HeldStep, CounterStep DEF TypeOK, ChainGrows
<1>3. PICK now \in Counts : now = Chain
    BY ChainNow DEF NonceInv
<1>4. PICK later \in Counts : later = Chain'
    BY <1>1 DEF ChainGrows, Chain, Counts
<1>5. Room(now) /\ Room(later) /\ PendingCount(now) <= PendingCount(later)
    <2>1. Room(Chain) /\ Room(Chain')
        BY <1>1 DEF NonceInv, ChainInv, Room, Chain
    <2>2. QED
        BY <1>1, <1>3, <1>4, <2>1 DEF ChainGrows
<1>6. PICK s \in NonceState : s = stored'
    BY StoredStep
<1>7. Sound(s, later)
    BY <1>3, <1>5, <1>6, StoredStep, SoundLater
<1>8. Sound(stored, Chain)'
    BY <1>4, <1>6, <1>7
<1>9. (active < PendingCount(Chain))'
    <2>1. active' \in Int /\ active' < PendingCount(now)
        BY <1>3, ActiveStep DEF Nonces, NoNonce
    <2>2. PendingCount(now) \in Nat /\ PendingCount(later) \in Nat
        BY <1>5, CountType, BoundAssumption
    <2>3. active' < PendingCount(later)
        BY <1>5, <2>1, <2>2
    <2>4. QED
        BY <1>4, <2>3
<1>10. QED
    BY <1>1, <1>2, <1>8, <1>9 DEF NonceInv

LEMMA NonceInvariant == Spec => []NonceInv
<1>1. QED
    BY NonceInit, NonceStep, PTL DEF Spec

\* No process of any number ever sends a nonce beyond the next of the account
\* (getNextNonce of lib/nonce-manager.ts), whatever crashes, lock expiries and
\* failed calls make the processes overwrite each other's nonce_state.
THEOREM NoNonceSkipped == Spec => []NonceNeverSkips
<1>1. NonceInv => NonceNeverSkips
    BY DEF NonceInv, HeldInv, NonceNeverSkips, Actors
<1>2. QED
    BY <1>1, NonceInvariant, PTL

\* The last confirmed nonce and active_tx only ever name transactions that were
\* sent, and all that the processes and Redis keep is well typed.
THEOREM OnlySentConfirmed == Spec => []ConfirmedWasSent
<1>1. NonceInv => ConfirmedWasSent
    BY DEF NonceInv, Sound, ConfirmedWasSent
<1>2. QED
    BY <1>1, NonceInvariant, PTL

=============================================================================
