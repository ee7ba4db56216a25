SPECIFICATION Spec
CONSTANTS
    Tokens = {t1, t2, t3}
    Entries = {e1}
    None = None
    NumShards = 2
    MaxSize = 5
    TTL = 1
    MaxTime = 3
SYMMETRY TokenSymmetry
INVARIANTS TypeOK ListMatchesMap LiveTokensRetained
PROPERTIES RemovalsAreJustified
