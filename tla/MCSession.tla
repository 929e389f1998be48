----------------------------- MODULE MCSession -----------------------------
(* Instances of Session for TLC. *)
EXTENDS Session, TLC

\* Hashes and requests are interchangeable.
Symmetry == Permutations(Tokens) \cup Permutations(Clients) \cup Permutations(Users)

============================================================================
