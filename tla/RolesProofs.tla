---------------------------- MODULE RolesProofs ----------------------------
(* Theorems about Roles, for every set of users, of roles and of concurrent calls. *)
EXTENDS Roles, TLAPS

(* Steps *)

\* A call that ends without committing, or has changed nothing yet.
LEMMA EndStep ==
    ASSUME IInv, NEW c \in Clients, End(c), UNCHANGED <<table, clock, since>>
    PROVE  IInv'
<1> USE DEF IInv, End, Goto, table
<1>1. TypeOK'
    BY RolesAssumption DEF TypeOK
<1>2. HistoryFollowsRoles'
    BY DEF HistoryFollowsRoles
<1>3. StatementsCover'
    BY DEF StatementsCover, TypeOK
<1>4. QED
    BY <1>1, <1>2, <1>3

\* A call begins, and its transaction.
LEMMA CallStep ==
    ASSUME IInv, NEW c \in Clients, Start(c) \/ Begin(c)
    PROVE  IInv'
<1> USE DEF IInv, Goto, table, work
<1>1. ASSUME NEW u \in Users, NEW roles \in SUBSET RoleIds, Call(c, u, roles) PROVE IInv'
    <2>1. TypeOK'
        BY <1>1 DEF Call, TypeOK
    <2>2. HistoryFollowsRoles'
        BY <1>1 DEF Call, HistoryFollowsRoles
    <2>3. StatementsCover'
        BY <1>1 DEF Call, StatementsCover, TypeOK
    <2>4. QED
        BY <2>1, <2>2, <2>3
<1>2. ASSUME Begin(c) PROVE IInv'
    <2>1. clock + 1 \in 0..MaxSets
        BY <1>2, RolesAssumption DEF Begin, TypeOK
    <2>2. TypeOK'
        BY <1>2, <2>1 DEF Begin, TypeOK
    <2>3. HistoryFollowsRoles'
        BY <1>2 DEF Begin, HistoryFollowsRoles
    <2>4. StatementsCover'
        BY <1>2 DEF Begin, StatementsCover, TypeOK
    <2>5. QED
        BY <2>2, <2>3, <2>4
<1>3. QED
    BY <1>1, <1>2 DEF Start, Request, Bootstrap

\* DELETE: the snapshot has every role the user holds, and a row leaves it when it is deleted or
\* was deleted by somebody else, who has then opened another interval or none.
LEMMA DeleteStep ==
    ASSUME IInv, NEW c \in Clients, StartDelete(c) \/ (\E x : DeleteRow(c, x)) \/ EndDelete(c)
    PROVE  IInv'
<1> USE DEF IInv, Goto, table, work, args
<1>1. CASE StartDelete(c)
    <2>1. target[c] \in Users
        BY <1>1 DEF StartDelete, StatementsCover
    <2>2. {[role |-> r, from |-> opened[target[c]][r]] : r \in held[target[c]]} \in SUBSET Row
        BY <2>1 DEF TypeOK, HistoryFollowsRoles, Row
    <2>3. TypeOK'
        BY <1>1, <2>2 DEF StartDelete, TypeOK
    <2>4. HistoryFollowsRoles'
        BY <1>1 DEF StartDelete, HistoryFollowsRoles
    <2>5. StatementsCover'
        BY <1>1 DEF StartDelete, StatementsCover, TypeOK
    <2>6. QED
        BY <2>3, <2>4, <2>5
<1>2. ASSUME NEW x, DeleteRow(c, x) PROVE IInv'
    <2>1. x \in left[c] /\ x \in Row /\ pc[c] = "delete"
        BY <1>2 DEF DeleteRow, RowsLeft, TypeOK
    <2>2. /\ left' = [left EXCEPT ![c] = @ \ {x}]
          /\ gone' = [gone EXCEPT ![c] =
                IF opened[target[c]][x.role] = x.from THEN @ \cup {x.role} ELSE @]
          /\ UNCHANGED <<table, clock, pc, args, added, since>>
        BY <1>2 DEF DeleteRow
    <2>3. TypeOK'
        BY <2>1, <2>2 DEF TypeOK, Row
    <2>4. HistoryFollowsRoles'
        BY <2>2 DEF HistoryFollowsRoles
    <2>5. ASSUME NEW r, [role |-> r, from |-> opened[target[c]][r]] = x
          PROVE r \in gone'[c]
        <3>1. x.role = r /\ x.from = opened[target[c]][r]
            BY <2>5
        <3>2. QED
            BY <2>2, <3>1 DEF TypeOK
    <2>6. gone[c] \subseteq gone'[c] /\ left'[c] = left[c] \ {x}
        BY <2>2 DEF TypeOK
    <2>7. \A r \in held[target[c]] :
              \/ r \in gone'[c] \cup since[c]
              \/ [role |-> r, from |-> opened[target[c]][r]] \in left'[c]
        BY <2>1, <2>5, <2>6 DEF StatementsCover
    <2>8. \A d \in Clients \ {c} : gone'[d] = gone[d] /\ left'[d] = left[d]
        BY <2>2 DEF TypeOK
    <2>9. StatementsCover'
        BY <2>1, <2>2, <2>7, <2>8 DEF StatementsCover
    <2>10. QED
        BY <2>3, <2>4, <2>9
<1>3. CASE EndDelete(c)
    <2>1. TypeOK'
        BY <1>3 DEF EndDelete, TypeOK
    <2>2. HistoryFollowsRoles'
        BY <1>3 DEF EndDelete, HistoryFollowsRoles
    <2>3. StatementsCover'
        BY <1>3 DEF EndDelete, StatementsCover, TypeOK
    <2>4. QED
        BY <2>1, <2>2, <2>3
<1>4. QED
    BY <1>1, <1>2, <1>3

\* INSERT adds requested roles only.
LEMMA InsertStep ==
    ASSUME IInv, NEW c \in Clients, NEW r, InsertRow(c, r)
    PROVE  IInv'
<1> USE DEF IInv, Goto, table, args
<1>1. r \in wanted[c] /\ r \in RoleIds /\ pc[c] = "insert"
    BY DEF InsertRow, RolesLeft, TypeOK
<1>2. TypeOK'
    BY <1>1 DEF InsertRow, TypeOK
<1>3. HistoryFollowsRoles'
    BY DEF InsertRow, HistoryFollowsRoles
<1>4. StatementsCover'
    BY <1>1 DEF InsertRow, StatementsCover, TypeOK
<1>5. QED
    BY <1>2, <1>3, <1>4

\* COMMIT: rows and intervals change together, and the calls under way for the same user know
\* the roles it has given.
LEMMA CommitStep ==
    ASSUME IInv, NEW c \in Clients, Commit(c)
    PROVE  IInv'
<1> USE DEF IInv
<1> DEFINE u == target[c]
<1>1. u \in Users /\ added[c] \subseteq RoleIds /\ gone[c] \subseteq RoleIds
      /\ start[c] \in 0..MaxSets
    BY DEF Commit, StatementsCover, TypeOK
<1>2. /\ held' = [held EXCEPT ![u] = (held[u] \ gone[c]) \cup added[c]]
      /\ \A v \in Users \ {u} : opened'[v] = opened[v]
      /\ \A r \in RoleIds : r \in added[c] => opened'[u][r] = start[c]
      /\ \A r \in RoleIds : r \in gone[c] \ added[c] => opened'[u][r] = None
      /\ \A r \in RoleIds : r \notin gone[c] \cup added[c] => opened'[u][r] = opened[u][r]
      /\ opened' \in [Users -> [RoleIds -> 0..MaxSets \cup {None}]]
    <2>1. /\ held' = [held EXCEPT ![u] = (held[u] \ gone[c]) \cup added[c]]
          /\ opened' = [opened EXCEPT ![u] = [r \in RoleIds |->
                CASE r \in added[c] -> start[c]
                  [] r \in gone[c] \ added[c] -> None
                  [] OTHER -> opened[u][r]]]
        BY <1>1 DEF Commit, TypeOK
    <2> DEFINE f == [r \in RoleIds |->
                CASE r \in added[c] -> start[c]
                  [] r \in gone[c] \ added[c] -> None
                  [] OTHER -> opened[u][r]]
    <2>2. f \in [RoleIds -> 0..MaxSets \cup {None}]
        BY <1>1 DEF TypeOK
    <2>3. /\ \A r \in RoleIds : r \in added[c] => f[r] = start[c]
          /\ \A r \in RoleIds : r \in gone[c] \ added[c] => f[r] = None
          /\ \A r \in RoleIds : r \notin gone[c] \cup added[c] => f[r] = opened[u][r]
        OBVIOUS
    <2> HIDE DEF f
    <2>4. opened' = [opened EXCEPT ![u] = f]
        BY <2>1 DEF f
    <2>5. QED
        BY <1>1, <2>1, <2>2, <2>3, <2>4 DEF TypeOK
<1>3. /\ since' = [d \in Clients |-> IF target[d] = u THEN since[d] \cup added[c] ELSE since[d]]
      /\ End(c) /\ UNCHANGED <<active, clock>>
    BY DEF Commit
<1>4. TypeOK'
    <2>1. held' \in [Users -> SUBSET RoleIds] /\ since' \in [Clients -> SUBSET RoleIds]
        BY <1>1, <1>2, <1>3 DEF TypeOK
    <2>2. /\ pc' \in [Clients -> {"idle", "set", "clear", "delete", "insert"}]
          /\ target' \in [Clients -> Users \cup {None}]
          /\ wanted' \in [Clients -> SUBSET RoleIds]
          /\ left' \in [Clients -> SUBSET Row]
          /\ gone' \in [Clients -> SUBSET RoleIds]
          /\ added' \in [Clients -> SUBSET RoleIds]
        BY <1>3 DEF TypeOK, End, Goto
    <2>3. start' \in [Clients -> 0..MaxSets] /\ clock' \in 0..MaxSets
        BY <1>3, RolesAssumption DEF TypeOK, End
    <2>4. \A d \in Clients : pc'[d] = "idle" => gone'[d] = {} /\ added'[d] = {}
        BY <1>3 DEF TypeOK, End, Goto
    <2>5. QED
        BY <1>2, <1>3, <2>1, <2>2, <2>3, <2>4 DEF TypeOK
<1>5. HistoryFollowsRoles'
    <2> SUFFICES ASSUME NEW v \in Users
                 PROVE held'[v] = {r \in RoleIds : opened'[v][r] # None}
        BY DEF HistoryFollowsRoles
    <2>1. CASE v = u
        <3>1. start[c] # None
            BY <1>1, RolesAssumption
        <3>2. held'[u] = (held[u] \ gone[c]) \cup added[c]
            BY <1>1, <1>2 DEF TypeOK
        <3>3. held[u] = {r \in RoleIds : opened[u][r] # None}
            BY <1>1 DEF HistoryFollowsRoles
        <3>4. QED
            BY <1>1, <1>2, <2>1, <3>1, <3>2, <3>3
    <2>2. CASE v # u
        BY <1>1, <1>2, <2>2 DEF TypeOK, HistoryFollowsRoles
    <2>3. QED
        BY <2>1, <2>2
<1>6. StatementsCover'
    <2>1. /\ pc'[c] = "idle" /\ added'[c] = {}
          /\ \A d \in Clients \ {c} :
                /\ pc'[d] = pc[d] /\ target'[d] = target[d] /\ added'[d] = added[d]
                /\ wanted'[d] = wanted[d] /\ left'[d] = left[d] /\ gone'[d] = gone[d]
                /\ since'[d] = IF target[d] = u THEN since[d] \cup added[c] ELSE since[d]
        BY <1>3 DEF End, Goto, TypeOK
    <2>2. ASSUME NEW d \in Clients \ {c}, pc[d] \in {"delete", "insert"},
                 NEW r \in held'[target[d]]
          PROVE \/ r \in gone[d] \cup since'[d]
                \/ [role |-> r, from |-> opened'[target[d]][r]] \in left[d]
        <3>1. target[d] \in Users
            BY <2>2 DEF StatementsCover
        <3>2. CASE target[d] # u
            BY <1>1, <1>2, <2>1, <2>2, <3>1, <3>2 DEF StatementsCover, TypeOK
        <3>3. CASE target[d] = u /\ r \in added[c]
            BY <2>1, <3>3
        <3>4. CASE target[d] = u /\ r \notin added[c]
            <4>1. r \in held[u] /\ r \notin gone[c] /\ r \in RoleIds
                BY <1>1, <1>2, <2>2, <3>4 DEF TypeOK
            <4>2. opened'[u][r] = opened[u][r]
                BY <1>2, <3>4, <4>1
            <4>3. QED
                BY <2>1, <2>2, <3>4, <4>1, <4>2 DEF StatementsCover
        <3>5. QED
            BY <3>2, <3>3, <3>4
    <2>3. \A d \in Clients \ {c} :
              /\ pc'[d] # "idle" => target'[d] \in Users
              /\ added'[d] \subseteq wanted'[d]
              /\ pc'[d] = "insert" => left'[d] = {}
        <3> SUFFICES ASSUME NEW d \in Clients \ {c}
                     PROVE  /\ pc'[d] # "idle" => target'[d] \in Users
                            /\ added'[d] \subseteq wanted'[d]
                            /\ pc'[d] = "insert" => left'[d] = {}
            OBVIOUS
        <3>1. /\ pc[d] # "idle" => target[d] \in Users
              /\ added[d] \subseteq wanted[d]
              /\ pc[d] = "insert" => left[d] = {}
            BY DEF StatementsCover
        <3>2. QED
            BY <2>1, <3>1
    <2>4. \A d \in Clients \ {c} : pc'[d] \in {"delete", "insert"} =>
              \A r \in held'[target'[d]] :
                  \/ r \in gone'[d] \cup since'[d]
                  \/ [role |-> r, from |-> opened'[target'[d]][r]] \in left'[d]
        <3> SUFFICES ASSUME NEW d \in Clients \ {c}, pc'[d] \in {"delete", "insert"},
                            NEW r \in held'[target'[d]]
                     PROVE \/ r \in gone'[d] \cup since'[d]
                           \/ [role |-> r, from |-> opened'[target'[d]][r]] \in left'[d]
            OBVIOUS
        <3>1. pc[d] \in {"delete", "insert"} /\ target'[d] = target[d]
              /\ gone'[d] = gone[d] /\ left'[d] = left[d]
            BY <2>1
        <3>2. QED
            BY <2>2, <3>1
    <2>5. pc'[c] # "insert" /\ pc'[c] # "delete" /\ added'[c] \subseteq wanted'[c]
        BY <2>1
    <2>6. QED
        BY <2>1, <2>3, <2>4, <2>5 DEF StatementsCover
<1>7. QED
    BY <1>4, <1>5, <1>6

----------------------------------------------------------------------------
(* The theorems *)

\* The inductive invariant of SetRoles (identity/admin_postgres.go).
THEOREM Invariant == Spec => []IInv
<1>1. Init => IInv
    <2> SUFFICES ASSUME Init PROVE IInv
        OBVIOUS
    <2>1. TypeOK
        BY RolesAssumption DEF Init, TypeOK
    <2>2. HistoryFollowsRoles
        <3> SUFFICES ASSUME NEW u \in Users
                     PROVE held[u] = {r \in RoleIds : opened[u][r] # None}
            BY DEF HistoryFollowsRoles
        <3>1. held[u] \subseteq RoleIds
            BY DEF Init
        <3>2. \A r \in RoleIds : opened[u][r] = IF r \in held[u] THEN 0 ELSE None
            BY DEF Init
        <3>3. None # 0
            BY RolesAssumption
        <3>4. QED
            BY <3>1, <3>2, <3>3
    <2>3. StatementsCover
        BY DEF Init, StatementsCover
    <2>4. QED
        BY <2>1, <2>2, <2>3 DEF IInv
<1>2. IInv /\ [Next]_vars => IInv'
    <2> SUFFICES ASSUME IInv, [Next]_vars PROVE IInv'
        OBVIOUS
    <2>1. ASSUME NEW c \in Clients, Start(c) \/ Proceed(c) \/ Fail(c) PROVE IInv'
        BY <2>1, EndStep, CallStep, DeleteStep, InsertStep, CommitStep
        DEF Proceed, Fail, HistoryRejects, InsertFails, DeadlockVictim
    <2>2. ASSUME NEW r \in RoleIds, ToggleRole(r) PROVE IInv'
        BY <2>2 DEF ToggleRole, args, work, IInv, TypeOK, HistoryFollowsRoles, StatementsCover
    <2>3. CASE UNCHANGED vars
        BY <2>3
        DEF vars, table, args, work, IInv, TypeOK, HistoryFollowsRoles, StatementsCover
    <2>4. QED
        BY <2>1, <2>2, <2>3 DEF Next
<1>3. QED
    BY <1>1, <1>2, PTL DEF Spec

\* The variables stay in their types, and an idle request has no open transaction.
THEOREM TypeCorrect == Spec => []TypeOK
<1>1. IInv => TypeOK
    BY DEF IInv
<1>2. QED
    BY <1>1, Invariant, PTL

\* The open intervals of the history are the roles users hold.
THEOREM HistoryIsTrue == Spec => []HistoryFollowsRoles
<1>1. IInv => HistoryFollowsRoles
    BY DEF IInv
<1>2. QED
    BY <1>1, Invariant, PTL

\* SetRoles replaces the roles of a user, up to those given by calls that overlap with it.
THEOREM Replaces == Spec => ReplaceUpToOverlap
<1>1. IInv /\ [Next]_vars =>
          [\A c \in Clients : Commit(c) =>
              /\ wanted[c] \subseteq held'[target[c]]
              /\ held'[target[c]] \subseteq wanted[c] \cup since[c]]_vars
    <2> SUFFICES ASSUME IInv, NEW c \in Clients, Commit(c)
                 PROVE  /\ wanted[c] \subseteq held'[target[c]]
                        /\ held'[target[c]] \subseteq wanted[c] \cup since[c]
        OBVIOUS
    <2>1. /\ target[c] \in Users /\ added[c] \subseteq wanted[c] /\ wanted[c] \subseteq added[c]
          /\ \A r \in held[target[c]] : r \in gone[c] \cup since[c]
        BY DEF Commit, IInv, StatementsCover
    <2>2. held'[target[c]] = (held[target[c]] \ gone[c]) \cup added[c]
        BY <2>1 DEF Commit, IInv, TypeOK
    <2>3. QED
        BY <2>1, <2>2
<1>2. QED
    BY <1>1, Invariant, PTL DEF Spec, ReplaceUpToOverlap

============================================================================
