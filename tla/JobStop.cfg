SPECIFICATION FairSpec
CONSTANTS
    match = match
    clip = clip
    r1 = r1
    r2 = r2
    w1 = w1
    w2 = w2
    Job = {match}
    S3 = {match}
    Request = {r1}
    Worker = {w1}
    MaxPending = 1
    MaxRestarts = 0
CHECK_DEADLOCK FALSE
PROPERTY EnteredStops
