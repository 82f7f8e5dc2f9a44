SPECIFICATION FairSpec
CONSTANTS
    i1 = i1
    i2 = i2
    s1 = s1
    s2 = s2
    Delivery = {d1, d2}
    Sender = {s1, s2}
    Instance = {i1, i2}
    Home <- TwoInstances
    MaxAttempts = 2
    Batch = 2
    None = None
    Faults = {"slow", "crash"}
    MaxFaults = 1
CONSTRAINT FewAttempts
INVARIANTS
    SettlingReceiptHolds
    AttemptsPaid
PROPERTIES
    SettledFinal
    Implements
    EverySettled
CHECK_DEADLOCK FALSE
