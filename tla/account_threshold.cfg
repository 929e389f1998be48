SPECIFICATION Spec
CONSTANTS
    Passwords = {p, q}
    Clients = {c1, c2}
    Slots = {s1}
    MaxAttempts = 2
    CounterBound = 4
    None = None
SYMMETRY Symmetry
PROPERTIES ThresholdLocks
