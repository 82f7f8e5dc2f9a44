SPECIFICATION Spec
CONSTANTS
    Worker = {w1, w2}
    NStages = 2
    LeaseAt = {2}
    Response = {r1, r2}
    None = None
    Faults = {"owner", "lease", "store", "crash"}
    MaxCalls = 3
    MaxFaults = 1
SYMMETRY Symmetry
INVARIANTS
    CheckpointBeforeNext
    SealedIsRecorded
    RunningIsDriven
PROPERTIES
    SealIsFinal
    CompletedResponseFixed
CHECK_DEADLOCK FALSE
