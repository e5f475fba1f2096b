SPECIFICATION Spec
CONSTANTS
    MaxAttempts = 2
    Leases = {l1, l2, l3, l4}
    NoLease = NoLease
    Messages = {m1}
    Accounts = {}
    Workers = {w1, w2}
    Admins = {}
    MaxCrashes = 0
    MaxLapses = 1
SYMMETRY Symmetry
CHECK_DEADLOCK FALSE
PROPERTY LateResultNeverOverrides
