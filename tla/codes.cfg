SPECIFICATION Spec
CONSTANTS
    Emails = {e1, e2}
    Clients = {c1, c2}
    MaxAttempts = 2
    ResetLimit = 1
    ChangeLimit = 1
    MaxCodes = 3
    None = None
SYMMETRY Symmetry
INVARIANTS AttemptsBounded IssuesBounded PendingChangesBounded IInv
PROPERTIES UsedCodesAreInert
