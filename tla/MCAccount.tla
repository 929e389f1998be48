----------------------------- MODULE MCAccount -----------------------------
(* Instances of Account for TLC. *)
EXTENDS Account, TLC

\* Requests, passwords and session slots are interchangeable.
Symmetry == Permutations(Clients) \cup Permutations(Passwords) \cup Permutations(Slots)

============================================================================
