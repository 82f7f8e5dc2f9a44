SPECIFICATION Spec
CONSTANTS
    Dispatches = 2
    Answers <- MixedAnswers
    Trace <- OwnTraces
    ReconcileLimit = 1
    ScanLimit = 2
    MaxAttempts = 2
    Faults = {"crash", "detach", "gateway"}
    MaxFaults = 1
    None = None
INVARIANTS
    PackageIsTrue
    HandoverOfOne
PROPERTIES
    VerifiedStays
    
CHECK_DEADLOCK FALSE
