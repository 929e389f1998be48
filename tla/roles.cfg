SPECIFICATION FairSpec
CONSTANTS
    Users = {u1}
    NumRoles = 2
    AdminRoles = {1}
    Clients = {c1, c2}
    MaxSets = 3
    None = None
INVARIANTS HistoryFollowsRoles IInv
PROPERTIES ReplaceUpToOverlap EveryCallEnds
