SPECIFICATION FairSpec
CONSTANTS
    Worker = {w1, w2}
    Faults = {"lost", "late", "crash", "unfit", "store", "race"}
    MaxCalls = 3
    MaxFaults = 1
INVARIANTS
    OneStory
    EffectsAccounted
PROPERTY
    LastCallCompletes
CHECK_DEADLOCK FALSE
