------------------------------ MODULE MCMail ------------------------------
(* Instances of Mail for TLC. *)
EXTENDS Mail

============================================================================
