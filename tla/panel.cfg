SPECIFICATION Spec
CONSTANTS
    Tokens = {t1, t2, t3, t4}
    User = u1
    Tabs = {b1, b2}
    Calls = {c1, c2}
    None = None
SYMMETRY Symmetry
INVARIANTS QuietPanelKeepsSession NewestTabPassesCSRF LoggedOutStaysOut
