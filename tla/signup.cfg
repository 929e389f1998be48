SPECIFICATION MCSpec
CONSTANTS
    Emails = {e1, e2}
    Subjects = {s1}
    Clients = {c1, c2}
    MaxAttempts = 1
    MaxRequests = 2
    MaxAccounts = 2
    None = None
INVARIANTS AttemptsPerCodeBounded AccountsConsistent SessionsOpenOwnAccount OnlyMovesWaitInCircles IInv
PROPERTIES PromotedAsSubmitted EveryRequestEnds
CHECK_DEADLOCK FALSE
