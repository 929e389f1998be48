------------------------------ MODULE MCPanel ------------------------------
(* Instances of Panel for TLC. *)
EXTENDS Panel, TLC

\* Hashes, tabs and calls are interchangeable.
Symmetry == Permutations(Tokens) \cup Permutations(Tabs) \cup Permutations(Calls)

============================================================================
