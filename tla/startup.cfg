SPECIFICATION FairSpec
CONSTANTS
    NumFiles = 3
    TbUserFile = 2
    Idempotent = {3}
    Attempts = 2
    PoolSize = 2
    Requests = {r1, r2, r3}
    MaxFaults = 2
    None = None
INVARIANTS LedgerIsTrue ServesWholeSchema IInv
PROPERTIES StartsUnlessTorn EveryRequestEnds ShutdownCompletes
