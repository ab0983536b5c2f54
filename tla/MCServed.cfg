\* Fair threads, clients that leave and stop, a thread for each; or one job, fairly scheduled.
SPECIFICATION ServedSpec
CONSTANTS
    t1 = t1
    t2 = t2
    i1 = i1
    i2 = i2
    e1 = e1
    c1 = c1
    c2 = c2
    Session = {t1, i1}
    Kind <- MCKind
    Context = {c1}
    CtxOf <- OneContext
    Local = {}
    Leaving = {t1, i1}
    Stopping = {t1, i1}
    Faulty = {}
    Workers = 2
    Reports = 1
    Free = Free
CHECK_DEADLOCK FALSE
PROPERTIES AllReturned EndsAndTells StopServed
