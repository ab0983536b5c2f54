\* A training queued behind an inference of another context.
SPECIFICATION FairSpec
CONSTANTS
    t1 = t1
    t2 = t2
    i1 = i1
    i2 = i2
    e1 = e1
    c1 = c1
    c2 = c2
    Session = {t1, i2}
    Kind <- MCKind
    Context = {c1, c2}
    CtxOf <- TwoContexts
    Local = {}
    Leaving = {i2}
    Stopping = {t1}
    Faulty = {}
    Workers = 1
    Reports = 1
    Free = Free
CHECK_DEADLOCK FALSE
PROPERTIES LoopReleased
