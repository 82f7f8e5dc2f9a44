SPECIFICATION ConversationSpec
CONSTANTS
    i1 = i1
    i2 = i2
    t1 = t1
    t2 = t2
    Instance = {i1, i2}
    Thread = {}
    Task = {t1, t2}
    Candidates = 3
    None = None
    MaxOps = 1
SYMMETRY Symmetry
CONSTRAINT OneRuns
INVARIANTS
    AskedOnce
    AnswerIsTrue
    MemoryKept
CHECK_DEADLOCK FALSE
