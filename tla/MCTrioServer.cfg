\* One context, two threads; a training that synchronises first, clients that leave, stop and bring failing graphs.
SPECIFICATION Spec
CONSTANTS
    t1 = t1
    t2 = t2
    i1 = i1
    i2 = i2
    e1 = e1
    c1 = c1
    c2 = c2
    Session = {t1, i1, i2, e1}
    Kind <- MCKind
    Context = {c1}
    CtxOf <- OneContext
    Local = {t1}
    Leaving = {i1}
    Stopping = {i2}
    Faulty = {t1, i2}
    Workers = 2
    Reports = 1
    Free = Free
CHECK_DEADLOCK FALSE
INVARIANTS TypeOK MarkKept FramesKept MarkedWhileUsed
