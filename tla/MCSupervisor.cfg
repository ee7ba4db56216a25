SPECIFICATION FairSpec
CONSTANTS
    Children = {w1, w2, w3}
    None = None
INVARIANTS SettledAfterLastChild EveryoneTold RejectedForCause NeverSucceeds
PROPERTIES StopsInTheEnd
