SPECIFICATION Spec
CONSTANTS
    Servers = {s1}
    Parts = {1}
    MaxFaults = 1
    s1 = s1
CHECK_DEADLOCK FALSE
INVARIANT JobHasMedia
