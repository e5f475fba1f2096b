SPECIFICATION FairSpec
CONSTANTS
    MaxAttempts = 2
    Leases = {l1, l2, l3}
    NoLease = NoLease
    Messages = {}
    Accounts = {k1}
    Workers = {w1, w2}
    Admins = {}
    MaxCrashes = 1
    MaxLapses = 0
CHECK_DEADLOCK FALSE
PROPERTIES HolderKeepsTask PendingSyncFetches
