SPECIFICATION Spec
CONSTANTS
    Tokens = {t1, t2}
    Entries = {e1}
    None = None
    NumShards = 2
    MaxSize = 3
    TTL = 1
    MaxTime = 1
INVARIANTS RetainedUpToDocumentedCap
