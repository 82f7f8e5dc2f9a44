SPECIFICATION FairSpec
CONSTANTS
    Worker = {w1}
    NStages = 3
    LeaseAt = {2}
    Response = {r1, r2}
    None = None
    Faults = {"owner", "lease", "crash"}
    MaxCalls = 4
    MaxFaults = 3
INVARIANTS
    SealNeverRefused
    SealedIsOneRun
PROPERTIES
    RecoveryCompletes
CHECK_DEADLOCK FALSE
