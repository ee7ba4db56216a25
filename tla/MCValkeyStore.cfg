SPECIFICATION FairSpec
CONSTANTS
    Tokens = {t1}
    Namespaces = {n1}
    Queues = {q1, q2}
    None = None
    Callers = {c1, c2}
    Orphanage = {o1}
    Ms = 2
    TTLs = {1, 3}
    ReadTimeout = 1
    WriteTimeout = 1
    MaxTime = 6
INVARIANTS TypeOK RetainedForTTL
PROPERTIES HitsAreCurrent ImplementsStore CallsReturn
