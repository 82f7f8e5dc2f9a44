SPECIFICATION Spec
CONSTANTS
    e1 = e1
    e2 = e2
    e3 = e3
    Execution = {e1, e2}
    T = 3
    None = None
    Faults = {"lost", "crash"}
    MaxCalls = 2
    MaxFaults = 1
SYMMETRY Symmetry
INVARIANTS
    Exclusive
    HeadFresh
    CheckpointHeld
CHECK_DEADLOCK FALSE
