SPECIFICATION FairSpec
CONSTANTS
    Tokens = {t1, t2}
    Entries = {e1, e2}
    None = None
    NumShards = 2
    MaxSize = 2
    TTL = 1
    MaxTime = 2
PROPERTIES HitsAreCurrent ImplementsStore ExpiredAreSwept
