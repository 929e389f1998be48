------------------------------- MODULE Roles -------------------------------
(***************************************************************************)
(* The roles of a user: SetRoles of api/internal/identity, called by the   *)
(* administration endpoint behind RequirePermission and by cmd/bootstrap,  *)
(* over seg.tb_user_role and the interval rows its trigger writes into     *)
(* seg.tb_user_role_history.                                               *)
(*                                                                         *)
(* SetRoles runs at READ COMMITTED and locks nothing but the rows it       *)
(* deletes.  DELETE sees the rows that were committed when it started and  *)
(* waits for one another transaction is deleting; INSERT waits for a       *)
(* transaction that is inserting or deleting the same key.  Neither has an *)
(* ORDER BY, so each takes its rows in any order.  now() is the start of   *)
(* the transaction, so the clock counts transactions.                      *)
(***************************************************************************)
EXTENDS Naturals

CONSTANTS
    Users,
    NumRoles,       \* the roles are numbers, in no particular order
    AdminRoles,     \* the roles with the permission to set roles
    Clients,        \* concurrent requests and bootstrap commands
    MaxSets,        \* bound: transactions of SetRoles
    None

RoleIds == 1..NumRoles

ASSUME RolesAssumption ==
    /\ NumRoles \in Nat \ {0}
    /\ MaxSets \in Nat
    /\ AdminRoles \subseteq RoleIds
    /\ None \notin Users \cup Nat

VARIABLES
    held,       \* committed seg.tb_user_role
    opened,     \* start of the open interval of each user and role, or NULL
    active,     \* the roles that are ACTIVE
    clock,      \* transactions begun
    pc,
    target,     \* the user whose roles are set
    wanted,     \* the roles of the request
    start,      \* now() of the transaction
    left,       \* rows the DELETE saw and has not reached: role and opening time
    gone,       \* roles whose row the transaction has deleted
    added,      \* roles it has inserted
    since       \* auxiliary: roles others gave the user since that DELETE started

table == <<held, opened, active>>
work  == <<left, gone, added>>
args  == <<target, wanted, start>>
vars  == <<table, clock, pc, args, work, since>>

Row == [role : RoleIds, from : 0..MaxSets]

TypeOK ==
    /\ held \in [Users -> SUBSET RoleIds]
    /\ opened \in [Users -> [RoleIds -> 0..MaxSets \cup {None}]]
    /\ active \subseteq RoleIds
    /\ clock \in 0..MaxSets
    /\ pc \in [Clients -> {"idle", "set", "clear", "delete", "insert"}]
    /\ target \in [Clients -> Users \cup {None}]
    /\ wanted \in [Clients -> SUBSET RoleIds]
    /\ start \in [Clients -> 0..MaxSets]
    /\ left \in [Clients -> SUBSET Row]
    /\ gone \in [Clients -> SUBSET RoleIds]
    /\ added \in [Clients -> SUBSET RoleIds]
    /\ since \in [Clients -> SUBSET RoleIds]
    /\ \A c \in Clients : pc[c] = "idle" => gone[c] = {} /\ added[c] = {}

\* Any assignment of roles that earlier calls have left.
Init ==
    /\ held \in [Users -> SUBSET RoleIds]
    /\ opened = [u \in Users |-> [r \in RoleIds |-> IF r \in held[u] THEN 0 ELSE None]]
    /\ active = RoleIds
    /\ clock = 0
    /\ pc = [c \in Clients |-> "idle"]
    /\ target = [c \in Clients |-> None]
    /\ wanted = [c \in Clients |-> {}]
    /\ start = [c \in Clients |-> 0]
    /\ left = [c \in Clients |-> {}]
    /\ gone = [c \in Clients |-> {}]
    /\ added = [c \in Clients |-> {}]
    /\ since = [c \in Clients |-> {}]

----------------------------------------------------------------------------
(* Helpers *)

Goto(c, stage) == pc' = [pc EXCEPT ![c] = stage]

\* The request answers; what it has not committed is rolled back.
End(c) ==
    /\ Goto(c, "idle")
    /\ target' = [target EXCEPT ![c] = None]
    /\ wanted' = [wanted EXCEPT ![c] = {}]
    /\ start' = [start EXCEPT ![c] = 0]
    /\ left' = [left EXCEPT ![c] = {}]
    /\ gone' = [gone EXCEPT ![c] = {}]
    /\ added' = [added EXCEPT ![c] = {}]

\* Only roles that are active give permissions, read afresh on every request.
Can(u) == held[u] \cap active \cap AdminRoles # {}

\* What DELETE and INSERT still have to reach, in any order.
RowsLeft(c) == IF pc[c] = "delete" THEN left[c] ELSE {}
RolesLeft(c) == IF pc[c] = "insert" THEN wanted[c] \ added[c] ELSE {}

\* The other transactions on the same user that hold the row, or the key, of a role.
Deleters(c, r) == {d \in Clients \ {c} : target[d] = target[c] /\ r \in gone[d]}
Holders(c, r) == {d \in Clients \ {c} : target[d] = target[c] /\ r \in gone[d] \cup added[d]}

\* Whom c may be waiting for, at a row or a role it has come to.
WaitsFor(c) ==
    UNION ({Deleters(c, x.role) : x \in RowsLeft(c)} \cup {Holders(c, r) : r \in RolesLeft(c)})

\* Some transactions wait for each other in a circle, c among them.
Deadlocked(c) ==
    \E S \in SUBSET Clients :
        /\ c \in S
        /\ \A d \in S : WaitsFor(d) \cap S # {} /\ \E e \in S : d \in WaitsFor(e)

----------------------------------------------------------------------------
(* Requests *)

Call(c, u, roles) ==
    /\ pc[c] = "idle"
    /\ clock < MaxSets
    /\ Goto(c, "set")
    /\ target' = [target EXCEPT ![c] = u]
    /\ wanted' = [wanted EXCEPT ![c] = roles]
    /\ UNCHANGED <<table, clock, start, work, since>>

\* PATCH /v1/admin/users/{userId}/roles: the permission is checked before anything else.
Request(c, actor, u, roles) ==
    /\ Can(actor)
    /\ Call(c, u, roles)

\* cmd/bootstrap gives one role to a user and asks nobody.
Bootstrap(c, u, r) == Call(c, u, {r})

\* The transaction begins.
Begin(c) ==
    /\ pc[c] = "set"
    /\ clock < MaxSets
    /\ clock' = clock + 1
    /\ start' = [start EXCEPT ![c] = clock + 1]
    /\ Goto(c, "clear")
    /\ UNCHANGED <<table, target, wanted, work, since>>

\* A requested role is not active (ErrUnknownRole), or a query fails.
Fail(c) ==
    /\ pc[c] # "idle"
    /\ End(c)
    /\ UNCHANGED <<table, clock, since>>

\* Mutant: the request is merged with what the user has.
MergeRoles(c) ==
    /\ pc[c] = "clear"
    /\ wanted[c] \subseteq active
    /\ wanted' = [wanted EXCEPT ![c] = @ \ held[target[c]]]
    /\ since' = [since EXCEPT ![c] = {}]
    /\ Goto(c, "insert")
    /\ UNCHANGED <<table, clock, target, start, work>>

\* The names are resolved, and DELETE takes its snapshot.
StartDelete(c) ==
    /\ pc[c] = "clear"
    /\ wanted[c] \subseteq active
    /\ left' = [left EXCEPT ![c] =
            {[role |-> r, from |-> opened[target[c]][r]] : r \in held[target[c]]}]
    /\ since' = [since EXCEPT ![c] = {}]
    /\ Goto(c, "delete")
    /\ UNCHANGED <<table, clock, args, gone, added>>

\* A row somebody else deleted meanwhile is left out.
DeleteRow(c, x) ==
    /\ x \in RowsLeft(c)
    /\ Deleters(c, x.role) = {}
    /\ left' = [left EXCEPT ![c] = @ \ {x}]
    /\ gone' = [gone EXCEPT ![c] =
            IF opened[target[c]][x.role] = x.from THEN @ \cup {x.role} ELSE @]
    /\ UNCHANGED <<table, clock, pc, args, added, since>>

\* The trigger closes the interval of a deleted row with now(), and an interval
\* must not end before it began.
Closable(c) == \A r \in gone[c] : opened[target[c]][r] <= start[c]

EndDelete(c) ==
    /\ pc[c] = "delete"
    /\ left[c] = {}
    /\ Closable(c)
    /\ Goto(c, "insert")
    /\ UNCHANGED <<table, clock, args, work, since>>

\* ck_tb_user_role_history_interval: the statement fails, and SetRoles with it.
HistoryRejects(c) ==
    /\ pc[c] = "delete"
    /\ left[c] = {}
    /\ ~Closable(c)
    /\ End(c)
    /\ UNCHANGED <<table, clock, since>>

InsertRow(c, r) ==
    /\ r \in RolesLeft(c)
    /\ Holders(c, r) = {}
    /\ r \in held[target[c]] => r \in gone[c]
    /\ added' = [added EXCEPT ![c] = @ \cup {r}]
    /\ UNCHANGED <<table, clock, pc, args, left, gone, since>>

\* Another request gave the user one of the roles meanwhile.
Taken(c) == \E r \in RolesLeft(c) : Holders(c, r) = {} /\ r \in held[target[c]] \ gone[c]

\* Mutant: a failed statement leaves the transaction open.
InsertFailsWithoutRollback(c) ==
    /\ Taken(c)
    /\ Goto(c, "idle")
    /\ UNCHANGED <<table, clock, args, work, since>>

\* pk_tb_user_role: the statement fails, and SetRoles with it.
InsertFails(c) ==
    /\ Taken(c)
    /\ End(c)
    /\ UNCHANGED <<table, clock, since>>

\* PostgreSQL ends one transaction of a circle.
DeadlockVictim(c) ==
    /\ Deadlocked(c)
    /\ End(c)
    /\ UNCHANGED <<table, clock, since>>

\* Mutant: the trigger does not close the interval of a deleted row.
CommitKeepsIntervals(c) ==
    LET u == target[c] IN
    /\ pc[c] = "insert"
    /\ wanted[c] \subseteq added[c]
    /\ held' = [held EXCEPT ![u] = (@ \ gone[c]) \cup added[c]]
    /\ opened' = [opened EXCEPT ![u] = [r \in RoleIds |->
            IF r \in added[c] THEN start[c] ELSE @[r]]]
    /\ since' = [d \in Clients |->
            IF target[d] = u THEN since[d] \cup added[c] ELSE since[d]]
    /\ End(c)
    /\ UNCHANGED <<active, clock>>

\* The rows and their intervals become visible together.
Commit(c) ==
    LET u == target[c] IN
    /\ pc[c] = "insert"
    /\ wanted[c] \subseteq added[c]
    /\ held' = [held EXCEPT ![u] = (@ \ gone[c]) \cup added[c]]
    /\ opened' = [opened EXCEPT ![u] = [r \in RoleIds |->
            CASE r \in added[c] -> start[c]
              [] r \in gone[c] \ added[c] -> None
              [] OTHER -> @[r]]]
    /\ since' = [d \in Clients |->
            IF target[d] = u THEN since[d] \cup added[c] ELSE since[d]]
    /\ End(c)
    /\ UNCHANGED <<active, clock>>

\* A role is enabled or disabled in the database; no endpoint does it.
ToggleRole(r) ==
    /\ active' = IF r \in active THEN active \ {r} ELSE active \cup {r}
    /\ UNCHANGED <<held, opened, clock, pc, args, work, since>>

Start(c) ==
    \/ \E actor, u \in Users, roles \in SUBSET RoleIds : Request(c, actor, u, roles)
    \/ \E u \in Users, r \in RoleIds : Bootstrap(c, u, r)

Proceed(c) ==
    \/ Begin(c) \/ StartDelete(c) \/ EndDelete(c) \/ HistoryRejects(c)
    \/ \E x \in left[c] : DeleteRow(c, x)
    \/ \E r \in wanted[c] : InsertRow(c, r)
    \/ InsertFails(c) \/ DeadlockVictim(c) \/ Commit(c)

Next ==
    \/ \E c \in Clients : Start(c) \/ Proceed(c) \/ Fail(c)
    \/ \E r \in RoleIds : ToggleRole(r)

Spec == Init /\ [][Next]_vars

\* A request that can go on does, one that cannot resolve its names fails, and a
\* lock is granted in turn.
FairSpec ==
    Spec /\ \A c \in Clients : SF_vars(Proceed(c)) /\ WF_vars(pc[c] \in {"set", "clear"} /\ Fail(c))

----------------------------------------------------------------------------
(* Properties *)

\* SetRoles replaces: when it commits, the user has every role of the request,
\* and another role only if a concurrent call for the user gave it after this
\* one's DELETE had started.
ReplaceUpToOverlap ==
    [][\A c \in Clients : Commit(c) =>
        /\ wanted[c] \subseteq held'[target[c]]
        /\ held'[target[c]] \subseteq wanted[c] \cup since[c]]_vars

\* The open intervals of the history are the roles users hold now: neither
\* overlapping calls nor deadlocks leave one open or close one too many.
HistoryFollowsRoles ==
    \A u \in Users : held[u] = {r \in RoleIds : opened[u][r] # None}

\* No call of SetRoles waits for ever, although two of them may come to wait for
\* each other's rows.
EveryCallEnds == \A c \in Clients : pc[c] # "idle" ~> pc[c] = "idle"

\* What the statements of SetRoles know of the table: a role of the user that the DELETE has
\* neither passed nor still to reach was given by somebody else after it had started.
StatementsCover ==
    \A c \in Clients :
        /\ pc[c] # "idle" => target[c] \in Users
        /\ added[c] \subseteq wanted[c]
        /\ pc[c] = "insert" => left[c] = {}
        /\ pc[c] \in {"delete", "insert"} =>
            \A r \in held[target[c]] :
                \/ r \in gone[c] \cup since[c]
                \/ [role |-> r, from |-> opened[target[c]][r]] \in left[c]

\* The inductive invariant.
IInv == TypeOK /\ HistoryFollowsRoles /\ StatementsCover

============================================================================
