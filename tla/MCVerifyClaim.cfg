SPECIFICATION Spec
CONSTANTS
    Empty = ""
    Deployments <- OnlyLocal
    Authenticate <- Authenticator
INVARIANTS ConfirmedMeansBlocked
\* The programs end.
CHECK_DEADLOCK FALSE
