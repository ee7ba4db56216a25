SPECIFICATION FairSpec
CONSTANTS
    Empty = ""
    Deployments <- TwoChanges
    Authenticate <- Authenticator
INVARIANTS ForbiddenNeverScheduled ResultVouchesForIdentity ConnectsAsAsked CleansUp
PROPERTIES ClientEnds
\* The programs end.
CHECK_DEADLOCK FALSE
