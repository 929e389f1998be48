SPECIFICATION Spec
CONSTANTS
    Passwords = {p, q}
    Clients = {c1, c2, c3}
    Slots = {s1}
    MaxAttempts = 3
    CounterBound = 8
    None = None
SYMMETRY Symmetry
INVARIANTS GuessesBounded LockStopsGuesses NoFailureLost IInv
