SPECIFICATION FairSpec
CONSTANTS
    MaxAttempts = 2
    Leases = {l1, l2, l3}
    NoLease = NoLease
    Messages = {m1}
    Accounts = {}
    Workers = {w1, w2}
    Admins = {a1}
    MaxCrashes = 1
    MaxLapses = 0
CHECK_DEADLOCK FALSE
INVARIANTS TypeOK NoDoubleRun ResultUnderOwnLease DoneTaskIsSettled NoStrandedMessage DeadTogether
PROPERTIES TasksSettle QueueSpec
