\* A training client may leave; a second training follows.
SPECIFICATION Spec
CONSTANTS
    t1 = t1
    t2 = t2
    i1 = i1
    i2 = i2
    e1 = e1
    c1 = c1
    c2 = c2
    Session = {t1, t2}
    Kind <- MCKind
    Context = {c1}
    CtxOf <- OneContext
    Local = {}
    Leaving = {t1}
    Stopping = {}
    Faulty = {}
    Workers = 2
    Reports = 1
    Free = Free
CHECK_DEADLOCK FALSE
INVARIANTS ContextExclusive
