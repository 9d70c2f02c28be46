----------------------------- MODULE Snapshots -----------------------------
(***************************************************************************)
(* The snapshots the admin's pages are answered from.  They are built from *)
(* the database, which can only be told by its version here (Accounts says *)
(* what is in them), and kept under Redis keys that expire.  All but a     *)
(* user's are rebuilt under a lock: by a job at an interval, a second      *)
(* after something has changed, and at the admin's request.  A page that   *)
(* finds a key missing has it built and written without the lock.          *)
(***************************************************************************)
EXTENDS Naturals

CONSTANTS
    MaxVersion,    \* bound on changes to the database
    MaxFaults,     \* bound on refreshes that fail or take longer than the lock, and crashes
    Missing

ASSUME SnapshotsAssumption == MaxVersion \in Nat /\ MaxFaults \in Nat

VARIABLES
    version,       \* of the database
    snapshot,      \* the snapshot under a key, by its version
    lock,          \* lock:admin:snapshots
    refresh,       \* the runs of refreshAdminSnapshots
    queuedRefresh, \* the timer of queueAdminSnapshotRefresh is set
    visit,         \* the snapshot a page has had built, or Missing
    faults

snapshotsVars == <<version, snapshot, lock, refresh, queuedRefresh, visit, faults>>

Key == {"overview", "markets", "user"}
Refresher == {"job", "queued", "manual"}
Version == 0 .. MaxVersion

Rest == [at |-> "idle", overview |-> 0, markets |-> 0]

SnapshotsInit ==
    /\ version = 0
    /\ snapshot = [k \in Key |-> 0] /\ visit = [k \in Key |-> Missing]
    /\ lock = FALSE /\ queuedRefresh = FALSE
    /\ refresh = [r \in Refresher |-> Rest]
    /\ faults = 0

Fault == faults < MaxFaults /\ faults' = faults + 1

(* A trade, a fee, a redemption, a new or drained market ... *)
DatabaseChanges ==
    /\ version < MaxVersion
    /\ version' = version + 1
    /\ queuedRefresh' = TRUE
    /\ UNCHANGED <<snapshot, lock, refresh, visit, faults>>

-----------------------------------------------------------------------------
(* refreshAdminSnapshots *)

(* Without the lock there is nothing to do; what queued it is forgotten.   *)
Start(r) ==
    /\ refresh[r] = Rest
    /\ r = "queued" => queuedRefresh
    /\ queuedRefresh' = (queuedRefresh /\ r # "queued")
    /\ lock' = TRUE
    /\ refresh' = IF lock THEN refresh ELSE [refresh EXCEPT ![r].at = "started"]
    /\ UNCHANGED <<version, snapshot, visit, faults>>

BuildOverview(r) ==
    /\ refresh[r].at = "started"
    /\ refresh' = [refresh EXCEPT ![r].at = "half", ![r].overview = version]
    /\ UNCHANGED <<version, snapshot, lock, queuedRefresh, visit, faults>>

BuildMarkets(r) ==
    /\ refresh[r].at = "half"
    /\ refresh' = [refresh EXCEPT ![r].at = "built", ![r].markets = version]
    /\ UNCHANGED <<version, snapshot, lock, queuedRefresh, visit, faults>>

WriteSnapshots(r) ==
    /\ refresh[r].at = "built"
    /\ refresh' = [refresh EXCEPT ![r] = [Rest EXCEPT !.at = "done"]]
    /\ snapshot' = [snapshot EXCEPT !["overview"] = refresh[r].overview,
                                    !["markets"] = refresh[r].markets]
    /\ UNCHANGED <<version, lock, queuedRefresh, visit, faults>>

RefreshFails(r) ==
    /\ refresh[r].at \in {"started", "half", "built"}
    /\ Fault
    /\ refresh' = [refresh EXCEPT ![r] = [Rest EXCEPT !.at = "done"]]
    /\ UNCHANGED <<version, snapshot, lock, queuedRefresh, visit>>

(* The lock may be another's by now. *)
ReleaseLock(r) ==
    /\ refresh[r].at = "done"
    /\ refresh' = [refresh EXCEPT ![r] = Rest]
    /\ lock' = FALSE
    /\ UNCHANGED <<version, snapshot, queuedRefresh, visit, faults>>

(* Before its owner is done only if the owner takes more than 90 seconds.  *)
LockExpires ==
    /\ lock
    /\ lock' = FALSE
    /\ IF \E r \in Refresher : refresh[r] # Rest THEN Fault ELSE UNCHANGED faults
    /\ UNCHANGED <<version, snapshot, refresh, queuedRefresh, visit>>

-----------------------------------------------------------------------------
(* getAdminOverviewSnapshot, getAdminMarketsSnapshot,                      *)
(* getAdminUserHoldingsSnapshot: a key that is there is the answer.        *)

BuildMissing(k) ==
    /\ snapshot[k] = Missing /\ visit[k] = Missing
    /\ visit' = [visit EXCEPT ![k] = version]
    /\ UNCHANGED <<version, snapshot, lock, refresh, queuedRefresh, faults>>

WriteMissing(k) ==
    /\ visit[k] # Missing
    /\ snapshot' = [snapshot EXCEPT ![k] = visit[k]]
    /\ visit' = [visit EXCEPT ![k] = Missing]
    /\ UNCHANGED <<version, lock, refresh, queuedRefresh, faults>>

\* Mutant of SnapshotExpires: a user's key is written without a time to live.
RefreshedExpires(k) ==
    /\ k # "user"
    /\ snapshot[k] # Missing
    /\ snapshot' = [snapshot EXCEPT ![k] = Missing]
    /\ UNCHANGED <<version, lock, refresh, queuedRefresh, visit, faults>>

SnapshotExpires(k) ==
    /\ snapshot[k] # Missing
    /\ snapshot' = [snapshot EXCEPT ![k] = Missing]
    /\ UNCHANGED <<version, lock, refresh, queuedRefresh, visit, faults>>

(* The lock and the keys stay. *)
Crash ==
    /\ Fault
    /\ refresh' = [r \in Refresher |-> Rest]
    /\ visit' = [k \in Key |-> Missing]
    /\ queuedRefresh' = FALSE
    /\ UNCHANGED <<version, snapshot, lock>>

RefreshStep(r) ==
    BuildOverview(r) \/ BuildMarkets(r) \/ WriteSnapshots(r) \/ ReleaseLock(r)

SnapshotsNext ==
    \/ DatabaseChanges
    \/ \E r \in Refresher : Start(r) \/ RefreshStep(r) \/ RefreshFails(r)
    \/ \E k \in Key : BuildMissing(k) \/ WriteMissing(k) \/ SnapshotExpires(k)
    \/ LockExpires \/ Crash

-----------------------------------------------------------------------------
(* Whoever built a snapshot, and however late it was written, in the end   *)
(* the keys hold nothing older than the database; and the lock, whoever    *)
(* left it behind, keeps nobody from having them rebuilt.                  *)
AdminSettles ==
    /\ <>[](\A k \in Key : snapshot[k] \in {Missing, version})
    /\ []<>(snapshot["overview"] = version /\ snapshot["markets"] = version)
=============================================================================
