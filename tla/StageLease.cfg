SPECIFICATION Spec
CONSTANTS
    d1 = d1
    d2 = d2
    a = a
    b = b
    Deliveries = {d1, d2}
    Workers = {a, b}
    MaxAttempts = 2
    Lease = 1
    LastMark = 1
    LastTime = 2
SYMMETRY Symmetry
CHECK_DEADLOCK FALSE
INVARIANTS
    TypeOK
    OneCompletion
PROPERTIES
    FencedWrites
    CheckpointKept
