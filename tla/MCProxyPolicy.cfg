SPECIFICATION Spec
CONSTANTS
    Calls = {c1}
    Instances = {i1}
    Backend = "valkey"
    Tokens = {t1}
    n1 = n1
    n2 = n2
    q1 = q1
    q2 = q2
    kA = kA
    kB = kB
    kBad = kBad
    Namespaces = {n1, n2}
    Queues = {q1, q2}
    Keys = {kA, kB, kBad}
    Empty = Empty
    None = None
    Requests <- AllTraffic
    Authenticate <- BearerTokens
    MaxDispatch = 2
    MaxActions = 3
INVARIANTS NoInternalError WorkStaysInScope
PROPERTIES DenialsAreDeserved
