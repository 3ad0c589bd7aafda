SPECIFICATION Spec
CONSTANTS
    clip = clip
    r1 = r1
    w1 = w1
    Job = {clip}
    S3 = {}
    Request = {r1}
    Worker = {w1}
    MaxPending = 1
    MaxRestarts = 0
CHECK_DEADLOCK FALSE
INVARIANT StopNotFailed
