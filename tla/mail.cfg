SPECIFICATION FairSpec
CONSTANTS
    Publishers = {p1, p2}
    Messages = {m1, m2, m3}
    Unreadable = {m3}
    Prefetch = 2
    MaxFaults = 2
    None = None
INVARIANTS DuplicatesBounded IInv
PROPERTIES ImplementsMailChannel EverythingSettles
CHECK_DEADLOCK FALSE
