----------------------------- MODULE TokenChain -----------------------------
(***************************************************************************)
(* What the session component promises, with no transactions, snapshots or *)
(* locks: a family of refresh tokens is a chain.  Opening it stores its    *)
(* first token, exchanging a token that is still live replaces it by a     *)
(* token never seen before, and closing families takes the live tokens of  *)
(* exactly those families away.  Each of these happens at one instant.     *)
(***************************************************************************)
CONSTANTS Tokens, Users, None

VARIABLES status, family, owner

vars == <<status, family, owner>>

Init ==
    /\ status = [t \in Tokens |-> "absent"]
    /\ family = [t \in Tokens |-> None]
    /\ owner = [t \in Tokens |-> None]

Open(u, n) ==
    /\ status[n] = "absent"
    /\ status' = [status EXCEPT ![n] = "live"]
    /\ family' = [family EXCEPT ![n] = n]
    /\ owner' = [owner EXCEPT ![n] = u]

Exchange(t, n) ==
    /\ status[t] = "live"
    /\ status[n] = "absent"
    /\ status' = [status EXCEPT ![t] = "revoked", ![n] = "live"]
    /\ family' = [family EXCEPT ![n] = family[t]]
    /\ owner' = [owner EXCEPT ![n] = owner[t]]

Close(F) ==
    /\ status' = [t \in Tokens |->
                    IF status[t] = "live" /\ family[t] \in F THEN "revoked" ELSE status[t]]
    /\ UNCHANGED <<family, owner>>

Next ==
    \/ \E u \in Users, n \in Tokens : Open(u, n)
    \/ \E t, n \in Tokens : Exchange(t, n)
    \/ \E F \in SUBSET Tokens : Close(F)

Spec == Init /\ [][Next]_vars

============================================================================
