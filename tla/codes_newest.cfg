SPECIFICATION Spec
CONSTANTS
    Emails = {e1, e2}
    Clients = {c1, c2}
    MaxAttempts = 1
    ResetLimit = 1
    ChangeLimit = 1
    MaxCodes = 2
    None = None
SYMMETRY Symmetry
PROPERTIES OnlyNewestChangeConsumed
