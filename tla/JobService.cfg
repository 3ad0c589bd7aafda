SPECIFICATION Spec
CONSTANTS
    match = match
    clip = clip
    r1 = r1
    r2 = r2
    w1 = w1
    w2 = w2
    Job = {match, clip}
    S3 = {match}
    Request = {r1, r2}
    Worker = {w1, w2}
    MaxPending = 1
    MaxRestarts = 1
CHECK_DEADLOCK FALSE
SYMMETRY Symmetry
INVARIANTS
    TypeOK
    AdmissionBounds
    OneRunner
    RunningIsDriven
    StopBeatsCompletion
