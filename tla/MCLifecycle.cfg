SPECIFICATION FairSpec
CONSTANTS
    Unset = Unset
    None = None
    Envs <- AllPairs
    Disk <- SmallDisk
    Calls = {c1, c2}
INVARIANTS StartFailsForCause ServesAsConfigured FixedInTwoRounds CallsKeepTheirResources  NothingLeftOpen
PROPERTIES StartupEnds SignalEndsProcess
