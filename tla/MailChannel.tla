---------------------------- MODULE MailChannel ----------------------------
(***************************************************************************)
(* What the mail path promises to the code that publishes: a message that  *)
(* was accepted waits until it is given up or until it has been mailed at  *)
(* least once, it may be mailed more than once while it waits, and it is   *)
(* never mailed again afterwards.                                          *)
(***************************************************************************)
CONSTANT Messages

VARIABLES
    accepted,   \* the messages whose Publish returned without an error
    waiting,    \* accepted, neither mailed for good nor given up
    mailed,     \* handed to the SMTP server at least once
    lost        \* given up: refused by the worker or lost with a connection

vars == <<accepted, waiting, mailed, lost>>

Init ==
    /\ accepted = {}
    /\ waiting = {}
    /\ mailed = {}
    /\ lost = {}

Accept(m) ==
    /\ m \notin accepted
    /\ accepted' = accepted \cup {m}
    /\ waiting' = waiting \cup {m}
    /\ UNCHANGED <<mailed, lost>>

Send(m) ==
    /\ m \in waiting
    /\ mailed' = mailed \cup {m}
    /\ UNCHANGED <<accepted, waiting, lost>>

\* A message that was mailed leaves for good.
Settle(m) ==
    /\ m \in waiting \cap mailed
    /\ waiting' = waiting \ {m}
    /\ UNCHANGED <<accepted, mailed, lost>>

\* Several messages can be given up at once, with the connection they were on.
GiveUp(S) ==
    /\ S \subseteq waiting
    /\ waiting' = waiting \ S
    /\ lost' = lost \cup S
    /\ UNCHANGED <<accepted, mailed>>

Next ==
    \/ \E m \in Messages : Accept(m) \/ Send(m) \/ Settle(m)
    \/ \E S \in SUBSET Messages : GiveUp(S)

Spec == Init /\ [][Next]_vars

============================================================================
