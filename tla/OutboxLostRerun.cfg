SPECIFICATION Spec
CONSTANTS
    MaxAttempts = 2
    Leases = {l1, l2, l3}
    NoLease = NoLease
    Messages = {}
    Accounts = {k1}
    Workers = {w1, w2}
    Admins = {}
    MaxCrashes = 0
    MaxLapses = 0
SYMMETRY Symmetry
CHECK_DEADLOCK FALSE
INVARIANT SyncRequestKept
