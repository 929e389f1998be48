------------------------------ MODULE MCCodes ------------------------------
(* Instances of Codes for TLC. *)
EXTENDS Codes, TLC

\* Requests and addresses are interchangeable.
Symmetry == Permutations(Clients) \cup Permutations(Emails)

============================================================================
