SPECIFICATION Spec
CONSTANTS
    Calls = {c1}
    Instances = {i1}
    Backend = "valkey"
    Tokens = {t1, t2, t3}
    n1 = n1
    n2 = n2
    q1 = q1
    q2 = q2
    kA = kA
    kB = kB
    kBad = kBad
    Namespaces = {n1, n2}
    Queues = {q1, q2}
    Keys = {kA, kB, kBad}
    Empty = Empty
    None = None
    Requests <- EagerTraffic
    Authenticate <- StaticKeys
    MaxDispatch = 2
    MaxActions = 1
SYMMETRY TokenSymmetry
PROPERTIES ImplementsGuard
