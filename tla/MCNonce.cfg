SPECIFICATION Spec
CONSTANTS
    Procs = {p1, p2}
    Reconciler = job
    NoOne = none
    Orphan = orphan
    MaxNonce = 2
    MaxRequests = 2
    MaxFaults = 1
INVARIANTS
    NonceNeverSkips
    ConfirmedWasSent
PROPERTIES
    RequestReturns
    EventuallyInSync
CHECK_DEADLOCK FALSE
