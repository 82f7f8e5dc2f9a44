SPECIFICATION Spec
CONSTANTS
    i1 = i1
    i2 = i2
    s1 = s1
    s2 = s2
    a1 = a1
    a2 = a2
    w1 = w1
    p1 = p1
    p2 = p2
    p3 = p3
    x1 = x1
    x2 = x2
    Instance = {i1, i2}
    SessionId = {s1, s2}
    Actor = {a1, a2}
    Place = {w1}
    Product = {p1, p2, p3}
    Exchange = {x1, x2}
    None = None
    MaxLimit = 1
    MaxOps = 3
SYMMETRY Symmetry
CONSTRAINT Apart
INVARIANTS
    RevisionNamesContent
    TransferArrives
    WorkspaceIsolated
    ExchangeDelivered
CHECK_DEADLOCK FALSE
