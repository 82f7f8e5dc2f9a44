SPECIFICATION FairSpec
CONSTANTS
    r1 = r1
    r2 = r2
    p1 = p1
    Request = {r1, r2}
    Product = {p1}
    Sources = {p1}
    Contracts <- SomeContracts
    None = None
    Faults = {"unhealthy", "cancel", "crash"}
    MaxOps = 3
    MaxFaults = 1
INVARIANTS
    OutcomeHasEvidence
    ActiveIsBusy
PROPERTIES
    EveryDispatchSettles
    ProductRecovers
CHECK_DEADLOCK FALSE
