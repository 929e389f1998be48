SPECIFICATION Spec
CONSTANTS
    Tokens = {t1, t2, t3}
    Users = {u1}
    Clients = {c1, c2}
    None = None
SYMMETRY Symmetry
PROPERTIES RevokedFamilyHasNoLiveToken
