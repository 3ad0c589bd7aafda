SPECIFICATION Spec
CONSTANTS
    d1 = d1
    a = a
    Deliveries = {d1}
    Workers = {a}
    MaxAttempts = 1
    Lease = 1
    LastMark = 1
    LastTime = 2
CHECK_DEADLOCK FALSE
INVARIANT NoOrphan
