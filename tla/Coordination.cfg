SPECIFICATION Spec
CONSTANTS
    i1 = i1
    i2 = i2
    Instance = {i1, i2}
    Thread = {"t1"}
    Task = {1}
    None = None
    MaxOps = 1
PROPERTIES
    TaskSettles
    GoneIsUnlisted
    ServingIsListed
