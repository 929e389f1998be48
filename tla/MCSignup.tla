----------------------------- MODULE MCSignup -----------------------------
(* Instances of Signup for TLC. *)
EXTENDS Signup

\* A state that four requests reach: one checked e for the first account, the second account
\* moved to e, another request checked the first account's address for the second while it was
\* elsewhere, and it came back by another code.  The requests that moved the accounts have
\* ended.
Crossed ==
    \E c, d \in Clients, e, f \in Emails :
        /\ c # d /\ e # f
        /\ pending = [x \in Emails |-> None]
        /\ accounts = [a \in Accounts |-> IF a > 2 THEN None ELSE
                [email |-> IF a = 1 THEN e ELSE f, by |-> a, sub |-> None]]
        /\ identity = [s \in Subjects |-> None]
        /\ asked = MaxRequests
        /\ lock = [x \in Emails |-> None]
        /\ claim = [x \in Emails |-> None]
        /\ idClaim = [s \in Subjects |-> None]
        /\ accepted = Requests /\ waiting = {} /\ mailed = Requests /\ lost = {}
        /\ pc = [x \in Clients |-> IF x \in {c, d} THEN "move" ELSE "idle"]
        /\ email = [x \in Clients |-> IF x = c THEN f ELSE IF x = d THEN e ELSE None]
        /\ key = [x \in Clients |-> None]
        /\ made = [x \in Clients |-> IF x = c THEN 1 ELSE IF x = d THEN 2 ELSE None]
        /\ row = [x \in Clients |-> None]

\* Bound: of the accounts, those that signed up move; a federated account that got a password
\* by recovery moves in the same way.
SignedUpMove ==
    \A c \in Clients : pc[c] = "idle" /\ pc'[c] = "move" => accounts[made'[c]].by # None

\* Fresh tables, or the moment before two accounts swap addresses.
MCSpec ==
    /\ Init \/ Crossed
    /\ [][Next /\ SignedUpMove]_vars
    /\ \A c \in Clients : SF_vars(Proceed(c))

============================================================================
