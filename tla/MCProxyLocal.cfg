SPECIFICATION Spec
CONSTANTS
    Calls = {c1, c2}
    Instances = {i1}
    Backend = "local"
    Tokens = {t1, t2}
    n1 = n1
    n2 = n2
    q1 = q1
    q2 = q2
    kA = kA
    kB = kB
    kBad = kBad
    Namespaces = {n1, n2}
    Queues = {q1, q2}
    Keys = {kA, kB, kBad}
    Empty = Empty
    None = None
    Requests <- TaskTraffic
    Authenticate <- StaticKeys
    MaxDispatch = 2
    MaxActions = 2
SYMMETRY CallTokenSymmetry
INVARIANTS TypeOK WorkStaysInScope LogIsLowerBound
