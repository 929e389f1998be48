--------------------------- MODULE SessionProofs ---------------------------
(* Theorems about Session, for every set of hashes, users and requests. *)
EXTENDS Session, TLAPS

\* Every action keeps the variables in their types, and a row has a family exactly when it
\* is stored (the NOT NULL of co_token_family).
LEMMA TypeStep == IInv /\ [Next]_vars => TypeOK'
<1> USE NoneIsNew
<1> SUFFICES ASSUME IInv, [Next]_vars PROVE TypeOK'
    OBVIOUS
<1> TypeOK /\ LocksFollowStages
    BY DEF IInv
<1>1. ASSUME NEW u \in Users, NEW n \in Tokens, Issue(u, n) PROVE TypeOK'
    BY <1>1 DEF TypeOK, Issue, locks, args
<1>2. ASSUME NEW c \in Clients, NEW t \in Tokens, NEW op \in {"refresh", "logout"},
             Present(c, t, op)
      PROVE TypeOK'
    BY <1>2 DEF TypeOK, Present, locks, rows, args, Stages
<1>3. ASSUME NEW c \in Clients, NEW u \in Users, BeginChange(c, u) PROVE TypeOK'
    BY <1>3 DEF TypeOK, BeginChange, rows, locks, args, Stages
<1>4. ASSUME NEW c \in Clients, Advance(c) PROVE TypeOK'
    <2>1. CASE NoToken(c)
        BY <2>1 DEF TypeOK, NoToken, Finish, Release, rows, args, Stages
    <2>2. CASE Accept(c)
        BY <2>2 DEF TypeOK, Accept, LockRow, rows, args, Stages
    <2>3. CASE DetectReuse(c)
        BY <2>3 DEF TypeOK, DetectReuse, LockRow, rows, args, Stages
    <2>4. CASE RejectExpired(c)
        BY <2>4 DEF TypeOK, RejectExpired, Finish, Release, rows, args, Stages
    <2>5. CASE BeginLogout(c)
        BY <2>5 DEF TypeOK, BeginLogout, LockRow, rows, args, Stages
    <2>6. ASSUME NEW n \in Tokens, Rotate(c, n) PROVE TypeOK'
        <3>1. token[c] \in Tokens /\ status[token[c]] = "live" /\ token[c] # n
            BY <2>6 DEF TypeOK, LocksFollowStages, Rotate
        <3>2. QED
            BY <2>6, <3>1 DEF TypeOK, Rotate, Finish, Release, Stages
    <2>7. CASE RevokeFamily(c)
        BY <2>7 DEF TypeOK, RevokeFamily, StartUpdate, LiveOfFamily, Live, rows, locks, args, Stages
    <2>8. CASE RevokeAllFamilies(c)
        BY <2>8 DEF TypeOK, RevokeAllFamilies, StartUpdate, LiveOfUser, Live, rows, locks, args,
            Stages
    <2>9. ASSUME NEW t \in Tokens, Visit(c, t) PROVE TypeOK'
        BY <2>9 DEF TypeOK, Visit, rows, args, Stages
    <2>10. CASE CommitRevocation(c)
        <3>1. \A t \in Updated(c) : status[t] # "absent"
            BY DEF IInv, UpdatesAccounted, Updated
        <3>2. QED
            BY <2>10, <3>1 DEF TypeOK, CommitRevocation, Finish, Release, Stages
    <2>11. CASE LockUser(c)
        BY <2>11 DEF TypeOK, LockUser, rows, args, Stages
    <2>12. QED
        BY <1>4, <2>1, <2>2, <2>3, <2>4, <2>5, <2>6, <2>7, <2>8, <2>9, <2>10, <2>11 DEF Advance
<1>5. ASSUME NEW c \in Clients, Rollback(c) PROVE TypeOK'
    BY <1>5 DEF TypeOK, Rollback, Finish, Release, rows, args, Stages
<1>6. ASSUME NEW t \in Tokens, Expire(t) PROVE TypeOK'
    BY <1>6 DEF TypeOK, Expire, rows, locks, args
<1>7. CASE UNCHANGED vars
    BY <1>7 DEF TypeOK, vars, rows, locks, args
<1>8. QED
    BY <1>1, <1>2, <1>3, <1>4, <1>5, <1>6, <1>7 DEF Next


\* At most one live token in a family after every step.  Rotate is the step that matters: it
\* holds the lock of the family's one live token, so what it inserts replaces that token.
LEMMA OneLiveStep == IInv /\ [Next]_vars => OneLivePerFamily'
<1> USE NoneIsNew
<1> SUFFICES ASSUME IInv, [Next]_vars PROVE OneLivePerFamily'
    OBVIOUS
<1> TypeOK /\ OneLivePerFamily /\ FamilyWasOpened /\ LocksFollowStages
    BY DEF IInv
<1>1. ASSUME NEW u \in Users, NEW n \in Tokens, Issue(u, n) PROVE OneLivePerFamily'
    <2>1. \A t \in Tokens : status[t] # "absent" => family[t] # n /\ t # n
        BY <1>1 DEF Issue, FamilyWasOpened, TypeOK
    <2>2. QED
        BY <1>1, <2>1 DEF Issue, OneLivePerFamily, Live, TypeOK
<1>2. ASSUME NEW c \in Clients, NEW n \in Tokens, Rotate(c, n) PROVE OneLivePerFamily'
    <2>1. token[c] \in Live /\ token[c] # n /\ n \notin Live
        BY <1>2 DEF TypeOK, LocksFollowStages, Rotate, Live
    <2>2. \A t \in Live' : t = n \/ (t \in Live /\ t # token[c] /\ family'[t] = family[t])
        BY <1>2, <2>1 DEF Rotate, Live, TypeOK
    <2>3. family'[n] = family[token[c]]
        BY <1>2 DEF Rotate, TypeOK
    <2>4. QED
        BY <2>1, <2>2, <2>3 DEF OneLivePerFamily, Live
<1>3. ASSUME NEW c \in Clients, CommitRevocation(c) PROVE OneLivePerFamily'
    <2>1. Live' \subseteq Live /\ family' = family
        BY <1>3 DEF CommitRevocation, Live, TypeOK
    <2>2. QED
        BY <2>1 DEF OneLivePerFamily
<1>4. CASE UNCHANGED <<status, family>>
    BY <1>4 DEF OneLivePerFamily, Live
<1>5. ASSUME NEW c \in Clients, Advance(c) PROVE OneLivePerFamily'
    <2>1. \/ \E n \in Tokens : Rotate(c, n)
          \/ CommitRevocation(c)
          \/ UNCHANGED <<status, family>>
        BY <1>5 DEF Advance, NoToken, Accept, DetectReuse, RejectExpired, BeginLogout, LockRow,
            RevokeFamily, LockUser, RevokeAllFamilies, StartUpdate, Visit, rows
    <2>2. QED
        BY <1>2, <1>3, <1>4, <2>1
<1>6. QED
    BY <1>1, <1>4, <1>5 DEF Next, Present, BeginChange, Rollback, Expire, rows, vars

\* The family of every stored row is the name of a stored row.
LEMMA FamilyStep == IInv /\ [Next]_vars => FamilyWasOpened'
<1> USE NoneIsNew
<1> SUFFICES ASSUME IInv, [Next]_vars PROVE FamilyWasOpened'
    OBVIOUS
<1> TypeOK /\ FamilyWasOpened /\ LocksFollowStages
    BY DEF IInv
<1>1. ASSUME NEW u \in Users, NEW n \in Tokens, Issue(u, n) PROVE FamilyWasOpened'
    BY <1>1 DEF Issue, FamilyWasOpened, TypeOK
<1>2. ASSUME NEW c \in Clients, NEW n \in Tokens, Rotate(c, n) PROVE FamilyWasOpened'
    <2>1. token[c] \in Tokens /\ status[token[c]] = "live" /\ token[c] # n
        BY <1>2 DEF TypeOK, LocksFollowStages, Rotate
    <2>2. \A t \in Tokens : status[t] # "absent" => family[t] \in Tokens
        BY DEF TypeOK
    <2>3. QED
        BY <1>2, <2>1, <2>2 DEF Rotate, FamilyWasOpened, TypeOK
<1>3. ASSUME NEW c \in Clients, CommitRevocation(c) PROVE FamilyWasOpened'
    <2>1. \A t \in Updated(c) : status[t] # "absent"
        BY DEF IInv, UpdatesAccounted, Updated
    <2>2. \A t \in Tokens : status'[t] = "absent" <=> status[t] = "absent"
        BY <1>3, <2>1 DEF CommitRevocation, TypeOK
    <2>3. \A t \in Tokens : status[t] # "absent" => family[t] \in Tokens
        BY DEF TypeOK
    <2>4. QED
        BY <1>3, <2>2, <2>3 DEF FamilyWasOpened, CommitRevocation
<1>4. CASE UNCHANGED <<status, family>>
    BY <1>4 DEF FamilyWasOpened
<1>5. ASSUME NEW c \in Clients, Advance(c) PROVE FamilyWasOpened'
    <2>1. \/ \E n \in Tokens : Rotate(c, n)
          \/ CommitRevocation(c)
          \/ UNCHANGED <<status, family>>
        BY <1>5 DEF Advance, NoToken, Accept, DetectReuse, RejectExpired, BeginLogout, LockRow,
            RevokeFamily, LockUser, RevokeAllFamilies, StartUpdate, Visit, rows
    <2>2. QED
        BY <1>2, <1>3, <1>4, <2>1
<1>6. QED
    BY <1>1, <1>4, <1>5 DEF Next, Present, BeginChange, Rollback, Expire, rows, vars

\* Locks and stages stay in step: nothing but its own request releases a row, and a row that is
\* locked for rotation is revoked by nobody else.
LEMMA LocksStep == IInv /\ [Next]_vars => LocksFollowStages'
<1> USE NoneIsNew
<1> SUFFICES ASSUME IInv, [Next]_vars PROVE LocksFollowStages'
    OBVIOUS
<1> TypeOK /\ LocksFollowStages /\ UpdatesAccounted
    BY DEF IInv
<1>1. ASSUME NEW u \in Users, NEW n \in Tokens, Issue(u, n) PROVE LocksFollowStages'
    BY <1>1 DEF TypeOK, LocksFollowStages, Issue, locks, args
<1>2. ASSUME NEW c \in Clients, NEW t \in Tokens, NEW op \in {"refresh", "logout"},
             Present(c, t, op)
      PROVE LocksFollowStages'
    BY <1>2 DEF TypeOK, LocksFollowStages, Present, locks, rows, args
<1>3. ASSUME NEW c \in Clients, NEW u \in Users, BeginChange(c, u) PROVE LocksFollowStages'
    BY <1>3 DEF TypeOK, LocksFollowStages, BeginChange, rows, locks, args
<1>4. ASSUME NEW c \in Clients, Finish(c), UNCHANGED status PROVE LocksFollowStages'
    <2>1. \A d \in Clients : d # c =>
            pc'[d] = pc[d] /\ token'[d] = token[d]
            /\ \A t \in Tokens : lock'[t] = d <=> lock[t] = d
        BY <1>4 DEF TypeOK, Finish, Release
    <2>2. pc'[c] = "idle" /\ \A t \in Tokens : lock'[t] # c
        BY <1>4 DEF TypeOK, Finish, Release
    <2>3. \A t \in Tokens : lock'[t] \in Clients \cup {None}
        BY <1>4 DEF TypeOK, Finish, Release
    <2>4. QED
        BY <1>4, <2>1, <2>2, <2>3 DEF TypeOK, LocksFollowStages
<1>5. ASSUME NEW c \in Clients, NEW stage \in {"rotate", "revoke"}, LockRow(c, stage),
             token[c] \in Tokens, status[token[c]] # "absent",
             stage = "rotate" => status[token[c]] = "live"
      PROVE LocksFollowStages'
    BY <1>5 DEF TypeOK, LocksFollowStages, LockRow, Free, rows, args
<1>6. ASSUME NEW c \in Clients, NEW n \in Tokens, Rotate(c, n) PROVE LocksFollowStages'
    <2>1. token[c] \in Tokens /\ lock[token[c]] = c
        BY <1>6 DEF TypeOK, LocksFollowStages, Rotate
    <2>2. \A d \in Clients : d # c =>
            pc'[d] = pc[d] /\ token'[d] = token[d]
            /\ \A t \in Tokens : lock'[t] = d <=> lock[t] = d
        BY <1>6 DEF TypeOK, Rotate, Finish, Release
    <2>3. pc'[c] = "idle" /\ \A t \in Tokens : lock'[t] # c
        BY <1>6 DEF TypeOK, Rotate, Finish, Release
    <2>4. \A t \in Tokens : lock'[t] \in Clients \cup {None}
        BY <1>6 DEF TypeOK, Rotate, Finish, Release
    <2>5. \A t \in Tokens : (status[t] # "absent" => status'[t] # "absent")
            /\ (t # token[c] /\ status[t] = "live" => status'[t] = "live")
        BY <1>6, <2>1 DEF TypeOK, Rotate
    <2>6. QED
        BY <2>1, <2>2, <2>3, <2>4, <2>5 DEF TypeOK, LocksFollowStages
<1>7. ASSUME NEW c \in Clients, NEW S \in SUBSET Tokens, pc[c] \in {"revoke", "all"},
             StartUpdate(c, S)
      PROVE LocksFollowStages'
    BY <1>7 DEF TypeOK, LocksFollowStages, StartUpdate, rows, locks, args
<1>8. ASSUME NEW c \in Clients, NEW t \in Tokens, Visit(c, t) PROVE LocksFollowStages'
    BY <1>8 DEF TypeOK, LocksFollowStages, Visit, Free, rows, args
<1>9. ASSUME NEW c \in Clients, CommitRevocation(c) PROVE LocksFollowStages'
    <2>1. \A d \in Clients : d # c =>
            pc'[d] = pc[d] /\ token'[d] = token[d]
            /\ \A t \in Tokens : lock'[t] = d <=> lock[t] = d
        BY <1>9 DEF TypeOK, CommitRevocation, Finish, Release
    <2>2. pc'[c] = "idle" /\ \A t \in Tokens : lock'[t] # c
        BY <1>9 DEF TypeOK, CommitRevocation, Finish, Release
    <2>3. \A t \in Tokens : lock'[t] \in Clients \cup {None}
        BY <1>9 DEF TypeOK, CommitRevocation, Finish, Release
    <2>4. \A t \in Updated(c) : lock[t] = c /\ status[t] # "absent"
        BY DEF UpdatesAccounted, Updated
    <2>5. \A t \in Tokens : (status[t] # "absent" => status'[t] # "absent")
            /\ (lock[t] # c => status'[t] = status[t])
        BY <1>9, <2>4 DEF TypeOK, CommitRevocation
    <2>6. QED
        BY <2>1, <2>2, <2>3, <2>5 DEF TypeOK, LocksFollowStages
<1>10. ASSUME NEW c \in Clients, Advance(c) PROVE LocksFollowStages'
    <2>1. CASE NoToken(c)
        BY <1>4, <2>1 DEF NoToken, rows
    <2>2. CASE Accept(c) \/ DetectReuse(c) \/ BeginLogout(c)
        <3>1. token[c] \in Tokens
            BY <2>2 DEF TypeOK, LocksFollowStages, Accept, DetectReuse, BeginLogout
        <3>2. QED
            BY <1>5, <2>2, <3>1 DEF Accept, DetectReuse, BeginLogout
    <2>3. CASE RejectExpired(c)
        BY <1>4, <2>3 DEF RejectExpired, rows
    <2>4. CASE RevokeFamily(c)
        <3>1. LiveOfFamily(token[c]) \in SUBSET Tokens
            BY DEF LiveOfFamily, Live
        <3>2. QED
            BY <1>7, <2>4, <3>1 DEF RevokeFamily
    <2>5. CASE RevokeAllFamilies(c)
        <3>1. LiveOfUser(account[c]) \in SUBSET Tokens
            BY DEF LiveOfUser, Live
        <3>2. QED
            BY <1>7, <2>5, <3>1 DEF RevokeAllFamilies
    <2>6. CASE LockUser(c)
        BY <2>6 DEF TypeOK, LocksFollowStages, LockUser, rows, args
    <2>7. QED
        BY <1>6, <1>8, <1>9, <1>10, <2>1, <2>2, <2>3, <2>4, <2>5, <2>6 DEF Advance
<1>11. ASSUME NEW c \in Clients, Rollback(c) PROVE LocksFollowStages'
    BY <1>4, <1>11 DEF Rollback, rows
<1>12. ASSUME NEW t \in Tokens, Expire(t) PROVE LocksFollowStages'
    BY <1>12 DEF TypeOK, LocksFollowStages, Expire, rows, locks, args
<1>13. CASE UNCHANGED vars
    BY <1>13 DEF LocksFollowStages, vars, rows, locks, args
<1>14. QED
    BY <1>1, <1>2, <1>3, <1>10, <1>11, <1>12, <1>13 DEF Next

\* What an UPDATE has reached stays accounted for while the other requests run: a row it holds
\* is touched by nobody else, and a row that was revoked stays revoked.
LEMMA UpdatesStep == IInv /\ [Next]_vars => UpdatesAccounted'
<1> USE NoneIsNew
<1> SUFFICES ASSUME IInv, [Next]_vars PROVE UpdatesAccounted'
    OBVIOUS
<1> TypeOK /\ LocksFollowStages /\ UpdatesAccounted
    BY DEF IInv
\* The four actions that touch nothing of an UPDATE, and the start of another.
<1>1. ASSUME NEW u \in Users, NEW n \in Tokens, Issue(u, n) PROVE UpdatesAccounted'
    <2>1. \A t \in Tokens : status[t] # "absent" => status'[t] = status[t]
        BY <1>1 DEF Issue, TypeOK
    <2>2. QED
        BY <1>1, <2>1 DEF TypeOK, UpdatesAccounted, Issue, locks, args
<1>2. ASSUME NEW c \in Clients, NEW t \in Tokens, NEW op \in {"refresh", "logout"},
             Present(c, t, op)
      PROVE UpdatesAccounted'
    BY <1>2 DEF TypeOK, UpdatesAccounted, Present, locks, rows, args
<1>3. ASSUME NEW c \in Clients, NEW u \in Users, BeginChange(c, u) PROVE UpdatesAccounted'
    BY <1>3 DEF TypeOK, UpdatesAccounted, BeginChange, rows, locks, args
\* The end of the transaction of another request.
<1>4. ASSUME NEW c \in Clients, Finish(c),
             \A t \in Tokens : \/ status'[t] = status[t]
                               \/ status'[t] = "revoked" /\ lock[t] = c
                               \/ status[t] = "absent"
      PROVE UpdatesAccounted'
    <2>1. snap'[c] = {} /\ left'[c] = {} /\ pc'[c] = "idle"
        BY <1>4 DEF TypeOK, Finish
    <2>2. \A d \in Clients : d # c =>
            pc'[d] = pc[d] /\ snap'[d] = snap[d] /\ left'[d] = left[d]
            /\ \A t \in Tokens : lock'[t] = d <=> lock[t] = d
        BY <1>4 DEF TypeOK, Finish, Release
    <2>3. \A t \in Tokens : /\ status[t] # "absent" => status'[t] # "absent"
                            /\ status[t] = "revoked" => status'[t] = "revoked"
                            /\ lock[t] # c /\ status[t] # "absent" => status'[t] = status[t]
        BY <1>4 DEF TypeOK
    <2>4. \A d \in Clients : snap[d] \subseteq Tokens
        BY DEF TypeOK
    <2>5. \A d \in Clients : d # c =>
            /\ left'[d] \subseteq snap'[d]
            /\ pc'[d] # "update" => snap'[d] = {}
            /\ \A t \in snap'[d] : status'[t] # "absent"
        BY <2>2, <2>3, <2>4 DEF UpdatesAccounted
    <2>6. ASSUME NEW d \in Clients, d # c, NEW t \in snap[d]
          PROVE /\ lock'[t] = d => status'[t] = "live"
                /\ lock'[t] # d /\ t \notin left'[d] => status'[t] = "revoked"
        BY <2>2, <2>3, <2>4, <2>6 DEF UpdatesAccounted
    <2>7. QED
        BY <2>1, <2>2, <2>5, <2>6 DEF UpdatesAccounted
<1>5. ASSUME NEW c \in Clients, NEW stage \in {"rotate", "revoke"}, LockRow(c, stage),
             token[c] \in Tokens, pc[c] \in {"refresh", "logout"}
      PROVE UpdatesAccounted'
    <2>1. snap[c] = {}
        BY <1>5 DEF UpdatesAccounted
    <2>2. \A d \in Clients : d # c => \A t \in Tokens : lock'[t] = d <=> lock[t] = d
        BY <1>5 DEF TypeOK, LockRow, Free
    <2>3. QED
        BY <1>5, <2>1, <2>2 DEF TypeOK, UpdatesAccounted, LockRow, rows, args
<1>6. ASSUME NEW c \in Clients, NEW S \in SUBSET Live, StartUpdate(c, S)
      PROVE UpdatesAccounted'
    BY <1>6 DEF TypeOK, UpdatesAccounted, StartUpdate, rows, locks, args, Live
<1>7. ASSUME NEW c \in Clients, NEW t \in Tokens, Visit(c, t) PROVE UpdatesAccounted'
    <2>1. t \in snap[c] /\ status[t] # "absent"
        BY <1>7 DEF UpdatesAccounted, Visit
    <2>2. \A d \in Clients : d # c =>
            left'[d] = left[d] /\ \A r \in Tokens : lock'[r] = d <=> lock[r] = d
        BY <1>7 DEF TypeOK, Visit, Free
    <2>3. left'[c] = left[c] \ {t} /\ \A r \in Tokens : r # t => lock'[r] = lock[r]
        BY <1>7 DEF TypeOK, Visit
    <2>4. IF status[t] = "live" THEN lock'[t] = c ELSE lock'[t] = lock[t]
        BY <1>7 DEF TypeOK, Visit
    <2>5. status' = status /\ snap' = snap /\ pc' = pc /\ pc[c] = "update"
        BY <1>7 DEF Visit, rows
    <2>6. ASSUME NEW d \in Clients, d # c, NEW r \in snap'[d]
          PROVE /\ lock'[r] = d => status'[r] = "live"
                /\ lock'[r] # d /\ r \notin left'[d] => status'[r] = "revoked"
        BY <2>2, <2>5, <2>6 DEF TypeOK, UpdatesAccounted
    <2>7. ASSUME NEW r \in snap'[c]
          PROVE /\ lock'[r] = c => status'[r] = "live"
                /\ lock'[r] # c /\ r \notin left'[c] => status'[r] = "revoked"
        <3>1. CASE r = t
            <4>1. status[t] \in {"live", "revoked"}
                BY <2>1 DEF TypeOK
            <4>2. QED
                BY <2>1, <2>4, <2>5, <3>1, <4>1 DEF UpdatesAccounted
        <3>2. CASE r # t
            BY <2>3, <2>5, <2>7, <3>2 DEF TypeOK, UpdatesAccounted
        <3>3. QED
            BY <3>1, <3>2
    <2>8. QED
        BY <2>2, <2>3, <2>5, <2>6, <2>7 DEF UpdatesAccounted
<1>8. ASSUME NEW c \in Clients, Advance(c) PROVE UpdatesAccounted'
    <2>1. CASE NoToken(c) \/ RejectExpired(c)
        BY <1>4, <2>1 DEF NoToken, RejectExpired, rows
    <2>2. CASE Accept(c) \/ DetectReuse(c) \/ BeginLogout(c)
        <3>1. token[c] \in Tokens
            BY <2>2 DEF TypeOK, LocksFollowStages, Accept, DetectReuse, BeginLogout
        <3>2. QED
            BY <1>5, <2>2, <3>1 DEF Accept, DetectReuse, BeginLogout
    <2>3. ASSUME NEW n \in Tokens, Rotate(c, n) PROVE UpdatesAccounted'
        <3>1. token[c] \in Tokens /\ lock[token[c]] = c
            BY <2>3 DEF TypeOK, LocksFollowStages, Rotate
        <3>2. QED
            BY <1>4, <2>3, <3>1 DEF Rotate, TypeOK
    <2>4. CASE RevokeFamily(c)
        <3>1. LiveOfFamily(token[c]) \in SUBSET Live
            BY DEF LiveOfFamily
        <3>2. QED
            BY <1>6, <2>4, <3>1 DEF RevokeFamily
    <2>5. CASE RevokeAllFamilies(c)
        <3>1. LiveOfUser(account[c]) \in SUBSET Live
            BY DEF LiveOfUser
        <3>2. QED
            BY <1>6, <2>5, <3>1 DEF RevokeAllFamilies
    <2>6. CASE CommitRevocation(c)
        BY <1>4, <2>6 DEF CommitRevocation, Updated, TypeOK
    <2>7. CASE LockUser(c)
        BY <2>7 DEF TypeOK, UpdatesAccounted, LockUser, rows, args
    <2>8. QED
        BY <1>7, <1>8, <2>1, <2>2, <2>3, <2>4, <2>5, <2>6, <2>7 DEF Advance
<1>9. ASSUME NEW c \in Clients, Rollback(c) PROVE UpdatesAccounted'
    BY <1>4, <1>9 DEF Rollback, rows
<1>10. ASSUME NEW t \in Tokens, Expire(t) PROVE UpdatesAccounted'
    BY <1>10 DEF TypeOK, UpdatesAccounted, Expire, rows, locks, args
<1>11. CASE UNCHANGED vars
    BY <1>11 DEF UpdatesAccounted, vars, rows, locks, args
<1>12. QED
    BY <1>1, <1>2, <1>3, <1>8, <1>9, <1>10, <1>11 DEF Next

----------------------------------------------------------------------------
(* Who holds what, and who waits for it *)

\* What holds of one request.
SubjectOf(c) ==
    /\ pc[c] \in {"idle", "change", "all"} => token[c] = None
    /\ pc[c] \notin {"change", "all", "update"} => account[c] = None
    /\ pc[c] \in {"change", "all"} => account[c] \in Users
    /\ pc[c] = "update" => (token[c] = None <=> account[c] # None)
    /\ \A u \in Users : userLock[u] = c <=> pc[c] \in {"all", "update"} /\ account[c] = u

RowsOf(c) ==
    /\ \A t \in Tokens : lock[t] = c => t = token[c] \/ t \in snap[c] \ left[c]
    /\ pc[c] = "revoke" => lock[token[c]] = c

FamilyUpdateOf(c) ==
    pc[c] = "update" /\ account[c] = None =>
        /\ token[c] \in Tokens
        /\ lock[token[c]] = c
        /\ status[token[c]] = "live" => token[c] \in snap[c]
        /\ \A s, t \in snap[c] : s = t
        /\ \A t \in snap[c] : family[t] = family[token[c]]

UserUpdateOf(c) ==
    pc[c] = "update" /\ account[c] # None =>
        /\ \A t \in snap[c] : owner[t] = account[c]
        /\ \A s, t \in snap[c] : family[s] = family[t] => s = t

HoldingsOf(c) == SubjectOf(c) /\ RowsOf(c) /\ FamilyUpdateOf(c) /\ UserUpdateOf(c)

\* The parts of the invariant about holdings, by request.
LEMMA HoldingsByRequest ==
    (\A c \in Clients : HoldingsOf(c)) <=>
        (RequestsHaveOneSubject /\ RowsAreOfTheRequest /\ FamilyUpdates /\ UserUpdates)
    BY DEF HoldingsOf, SubjectOf, RowsOf, FamilyUpdateOf, UserUpdateOf, RequestsHaveOneSubject,
        RowsAreOfTheRequest, FamilyUpdates, UserUpdates

\* The three ways the tables change; everything else leaves them alone.
LEMMA TableSteps ==
    ASSUME [Next]_vars
    PROVE  \/ \E u \in Users, n \in Tokens : Issue(u, n)
           \/ \E c \in Clients, n \in Tokens : Rotate(c, n)
           \/ \E c \in Clients : CommitRevocation(c)
           \/ UNCHANGED rows
    BY DEF Next, Advance, Present, BeginChange, LockUser, NoToken, Accept, DetectReuse,
        RejectExpired, BeginLogout, LockRow, RevokeFamily, RevokeAllFamilies, StartUpdate,
        Visit, Rollback,
        Expire, rows, vars

\* Stored rows keep their family and owner, and a revoked one is not revived.
RowsKept ==
    \A t \in Tokens : status[t] # "absent" =>
        /\ family'[t] = family[t]
        /\ owner'[t] = owner[t]
        /\ status'[t] = "live" => status[t] = "live"

\* Nothing of request d changes.
Untouched(d) ==
    /\ pc'[d] = pc[d] /\ token'[d] = token[d] /\ account'[d] = account[d]
    /\ snap'[d] = snap[d] /\ left'[d] = left[d]
    /\ \A t \in Tokens : lock'[t] = d <=> lock[t] = d
    /\ \A u \in Users : userLock'[u] = d <=> userLock[u] = d

\* Every step keeps stored rows.
LEMMA RowsAreKept == IInv /\ [Next]_vars => RowsKept
<1> SUFFICES ASSUME IInv, [Next]_vars PROVE RowsKept
    OBVIOUS
<1> TypeOK /\ LocksFollowStages
    BY DEF IInv
<1>1. CASE \E u \in Users, n \in Tokens : Issue(u, n)
    BY <1>1 DEF Issue, RowsKept, TypeOK
<1>2. CASE \E c \in Clients, n \in Tokens : Rotate(c, n)
    BY <1>2 DEF Rotate, RowsKept, TypeOK
<1>3. CASE \E c \in Clients : CommitRevocation(c)
    BY <1>3 DEF CommitRevocation, RowsKept, TypeOK
<1>4. CASE UNCHANGED rows
    BY <1>4 DEF rows, RowsKept
<1>5. QED
    BY <1>1, <1>2, <1>3, <1>4, TableSteps

\* A step that leaves a request alone leaves its holdings as they were.
LEMMA Bystander ==
    ASSUME IInv, RowsKept, NEW d \in Clients, Untouched(d)
    PROVE  HoldingsOf(d)'
<1> USE NoneIsNew
<1> TypeOK /\ LocksFollowStages /\ UpdatesAccounted /\ HoldingsOf(d)
    BY HoldingsByRequest DEF IInv
<1>1. SubjectOf(d)' /\ RowsOf(d)'
    <2>1. pc[d] = "revoke" => token[d] \in Tokens
        BY DEF TypeOK, LocksFollowStages
    <2>2. QED
        BY <2>1 DEF Untouched, HoldingsOf, SubjectOf, RowsOf
<1>2. snap[d] \subseteq Tokens /\ \A t \in snap[d] : status[t] # "absent"
    BY DEF TypeOK, UpdatesAccounted
<1>3. FamilyUpdateOf(d)'
    <2> SUFFICES ASSUME pc[d] = "update", account[d] = None PROVE FamilyUpdateOf(d)'
        BY DEF Untouched, FamilyUpdateOf
    <2>1. token[d] \in Tokens /\ lock[token[d]] = d /\ status[token[d]] # "absent"
        BY DEF HoldingsOf, FamilyUpdateOf, LocksFollowStages
    <2>2. QED
        BY <1>2, <2>1 DEF Untouched, RowsKept, HoldingsOf, FamilyUpdateOf
<1>4. UserUpdateOf(d)'
    BY <1>2 DEF Untouched, RowsKept, HoldingsOf, UserUpdateOf
<1>5. QED
    BY <1>1, <1>3, <1>4 DEF HoldingsOf

\* When one request has moved, no circle has closed unless it now waits for one that waits.
LEMMA CircleStep ==
    ASSUME IInv, NEW c \in Clients,
           \A d \in Clients \ {c} : Untouched(d),
           \A d \in Clients : FamilyWaitsFor(c, d)' => left'[d] \subseteq {t \in Tokens : lock'[t] = d}
    PROVE  NoFamilyCircle'
<1> TypeOK /\ NoFamilyCircle
    BY DEF IInv
<1>1. ASSUME NEW x \in Clients \ {c}, NEW y \in Clients \ {c}, FamilyWaitsFor(x, y)'
      PROVE  FamilyWaitsFor(x, y)
    <2>1. left[x] \subseteq Tokens
        BY DEF TypeOK
    <2>2. QED
        BY <1>1, <2>1 DEF FamilyWaitsFor, Untouched
<1>2. ASSUME NEW S \in SUBSET Clients, S # {}, \A x \in S : \E y \in S : FamilyWaitsFor(x, y)'
      PROVE  FALSE
    <2>1. CASE c \in S
        <3>1. PICK y \in S : FamilyWaitsFor(c, y)'
            BY <1>2, <2>1
        <3>2. PICK z \in S : FamilyWaitsFor(y, z)'
            BY <1>2
        <3>3. PICK t \in left'[y] : lock'[t] = z /\ z # y
            BY <3>2 DEF FamilyWaitsFor
        <3>4. QED
            BY <3>1, <3>3
    <2>2. CASE c \notin S
        <3>1. \A x, y \in S : x \in Clients \ {c} /\ y \in Clients \ {c}
            BY <2>2
        <3>2. \A x \in S : \E y \in S : FamilyWaitsFor(x, y)
            BY <1>1, <1>2, <3>1
        <3>3. QED
            BY <1>2, <3>2 DEF NoFamilyCircle
    <2>3. QED
        BY <2>1, <2>2
<1>3. QED
    BY <1>2 DEF NoFamilyCircle

\* What the steps of a request have to show: the others are left alone, its own holdings are in
\* order, and what it waits for waits for nobody.
LEMMA HoldingsStep ==
    ASSUME IInv, RowsKept, NEW c \in Clients,
           \A d \in Clients \ {c} : Untouched(d),
           HoldingsOf(c)',
           \A d \in Clients : FamilyWaitsFor(c, d)' => left'[d] \subseteq {t \in Tokens : lock'[t] = d}
    PROVE  (\A d \in Clients : HoldingsOf(d)') /\ NoFamilyCircle'
<1>1. \A d \in Clients : HoldingsOf(d)'
    BY Bystander
<1>2. QED
    BY <1>1, CircleStep

\* The parts of the invariant that HoldingsStep gives.
Holdings == (\A c \in Clients : HoldingsOf(c)) /\ NoFamilyCircle

\* A transaction that ends gives up what it held.
LEMMA EndHoldings ==
    ASSUME IInv, RowsKept, NEW c \in Clients, Finish(c)
    PROVE  Holdings'
<1> USE NoneIsNew
<1> TypeOK /\ HoldingsOf(c)
    BY HoldingsByRequest DEF IInv
<1>1. ASSUME NEW d \in Clients \ {c} PROVE Untouched(d)
    BY DEF TypeOK, Finish, Release, Untouched
<1>2. /\ pc'[c] = "idle" /\ token'[c] = None /\ account'[c] = None
      /\ \A t \in Tokens : lock'[t] # c
      /\ \A u \in Users : userLock'[u] # c
    BY DEF TypeOK, Finish, Release
<1>3. HoldingsOf(c)'
    BY <1>2 DEF HoldingsOf, SubjectOf, RowsOf, FamilyUpdateOf, UserUpdateOf
<1>4. \A d \in Clients : ~FamilyWaitsFor(c, d)'
    BY <1>2 DEF FamilyWaitsFor
<1>5. QED
    BY <1>1, <1>3, <1>4, HoldingsStep DEF Holdings

\* A request that locks the row of its token.
LEMMA LockRowHoldings ==
    ASSUME IInv, RowsKept, NEW c \in Clients, NEW stage \in {"rotate", "revoke"},
           LockRow(c, stage), pc[c] \in {"refresh", "logout"}
    PROVE  Holdings'
<1> USE NoneIsNew
<1> TypeOK /\ LocksFollowStages /\ UpdatesAccounted /\ HoldingsOf(c)
    BY HoldingsByRequest DEF IInv
<1>1. token[c] \in Tokens /\ account[c] = None
    BY DEF TypeOK, LocksFollowStages, HoldingsOf, SubjectOf
<1>2. /\ pc' = [pc EXCEPT ![c] = stage] /\ lock' = [lock EXCEPT ![token[c]] = c]
      /\ token' = token /\ account' = account /\ snap' = snap /\ left' = left
      /\ userLock' = userLock /\ lock[token[c]] \in {None, c}
    BY DEF LockRow, Free, args
<1>3. ASSUME NEW d \in Clients \ {c} PROVE Untouched(d)
    BY <1>1, <1>2 DEF TypeOK, Untouched
<1>4. SubjectOf(c)'
    BY <1>1, <1>2 DEF TypeOK, HoldingsOf, SubjectOf
<1>5. RowsOf(c)'
    BY <1>1, <1>2 DEF TypeOK, HoldingsOf, RowsOf
<1>6. pc'[c] = stage /\ stage # "update"
    BY <1>2 DEF TypeOK
<1>7. HoldingsOf(c)'
    BY <1>4, <1>5, <1>6 DEF HoldingsOf, FamilyUpdateOf, UserUpdateOf
<1>8. \A d \in Clients : ~FamilyWaitsFor(c, d)'
    BY <1>6 DEF FamilyWaitsFor
<1>9. QED
    BY <1>3, <1>7, <1>8, HoldingsStep DEF Holdings

\* What the UPDATE of a family may come to wait for is held by one that waits for nobody.
LEMMA RevokeFamilyHoldings ==
    ASSUME IInv, RowsKept, NEW c \in Clients, RevokeFamily(c)
    PROVE  Holdings'
<1> USE NoneIsNew
<1> DEFINE S == LiveOfFamily(token[c])
<1> /\ TypeOK /\ OneLivePerFamily /\ LocksFollowStages /\ UpdatesAccounted
    /\ \A d \in Clients : HoldingsOf(d)
    BY HoldingsByRequest DEF IInv
<1>1. /\ token[c] \in Tokens /\ account[c] = None /\ lock[token[c]] = c
      /\ snap[c] = {} /\ pc[c] = "revoke"
    BY DEF RevokeFamily, TypeOK, LocksFollowStages, UpdatesAccounted, HoldingsOf, SubjectOf, RowsOf
<1>2. S \subseteq Tokens /\ (\A s, t \in S : s = t) /\ \A t \in S : family[t] = family[token[c]]
    BY DEF LiveOfFamily, Live, OneLivePerFamily
<1>3. /\ pc' = [pc EXCEPT ![c] = "update"]
      /\ snap' = [snap EXCEPT ![c] = S] /\ left' = [left EXCEPT ![c] = S]
      /\ token' = token /\ account' = account /\ lock' = lock /\ userLock' = userLock
      /\ status' = status /\ family' = family
    BY DEF RevokeFamily, StartUpdate, rows, locks, args
<1>4. status[token[c]] = "live" => token[c] \in S
    BY <1>1 DEF LiveOfFamily, Live
<1>5. \A t \in S : status[t] = "live"
    BY DEF LiveOfFamily, Live
<1> HIDE DEF S
<1>6. ASSUME NEW d \in Clients \ {c} PROVE Untouched(d)
    BY <1>3 DEF TypeOK, Untouched
<1>7. pc'[c] = "update" /\ snap'[c] = S /\ left'[c] = S
    BY <1>3 DEF TypeOK
<1>8. HoldingsOf(c)'
    <2>1. SubjectOf(c)'
        BY <1>1, <1>3, <1>7 DEF HoldingsOf, SubjectOf
    <2>2. RowsOf(c)'
        BY <1>1, <1>3, <1>7 DEF HoldingsOf, RowsOf
    <2>3. FamilyUpdateOf(c)' /\ UserUpdateOf(c)'
        BY <1>1, <1>2, <1>3, <1>4, <1>7 DEF FamilyUpdateOf, UserUpdateOf
    <2>4. QED
        BY <2>1, <2>2, <2>3 DEF HoldingsOf
<1>9. ASSUME NEW d \in Clients, FamilyWaitsFor(c, d)'
      PROVE  left'[d] \subseteq {t \in Tokens : lock'[t] = d}
    <2>1. PICK r \in S : lock[r] = d /\ d # c
        BY <1>3, <1>7, <1>9 DEF FamilyWaitsFor
    <2>2. pc[d] = "update" /\ account[d] = None /\ left'[d] = left[d]
        BY <1>3, <1>9, <2>1 DEF FamilyWaitsFor, TypeOK
    <2>3. r \in Tokens /\ status[r] = "live"
        BY <1>2, <1>5
    <2>4. r \in snap[d] /\ \A t \in snap[d] : t = r
        BY <2>1, <2>2, <2>3 DEF HoldingsOf, RowsOf, FamilyUpdateOf
    <2>5. left[d] \subseteq {r}
        BY <2>4 DEF UpdatesAccounted
    <2>6. QED
        BY <1>3, <2>1, <2>2, <2>3, <2>5
<1>10. QED
    BY <1>6, <1>8, <1>9, HoldingsStep DEF Holdings

\* The UPDATE of a user's tokens sees at most one row of each family.
LEMMA RevokeAllHoldings ==
    ASSUME IInv, RowsKept, NEW c \in Clients, RevokeAllFamilies(c)
    PROVE  Holdings'
<1> USE NoneIsNew
<1> DEFINE S == LiveOfUser(account[c])
<1> /\ TypeOK /\ OneLivePerFamily /\ LocksFollowStages /\ UpdatesAccounted /\ HoldingsOf(c)
    BY HoldingsByRequest DEF IInv
<1>1. /\ pc[c] = "all" /\ token[c] = None /\ account[c] \in Users /\ snap[c] = {}
    BY DEF RevokeAllFamilies, UpdatesAccounted, HoldingsOf, SubjectOf
<1>2. \A t \in Tokens : lock[t] # c
    BY <1>1 DEF LocksFollowStages
<1>3. /\ \A t \in S : owner[t] = account[c]
      /\ \A s, t \in S : family[s] = family[t] => s = t
    BY DEF LiveOfUser, OneLivePerFamily
<1>4. /\ pc' = [pc EXCEPT ![c] = "update"]
      /\ snap' = [snap EXCEPT ![c] = S] /\ left' = [left EXCEPT ![c] = S]
      /\ token' = token /\ account' = account /\ lock' = lock /\ userLock' = userLock
      /\ owner' = owner /\ family' = family
    BY DEF RevokeAllFamilies, StartUpdate, rows, locks, args
<1> HIDE DEF S
<1>5. ASSUME NEW d \in Clients \ {c} PROVE Untouched(d)
    BY <1>4 DEF TypeOK, Untouched
<1>6. pc'[c] = "update" /\ snap'[c] = S
    BY <1>4 DEF TypeOK
<1>7. SubjectOf(c)'
    BY <1>1, <1>4, <1>6 DEF HoldingsOf, SubjectOf
<1>8. RowsOf(c)' /\ FamilyUpdateOf(c)' /\ UserUpdateOf(c)'
    BY <1>1, <1>2, <1>3, <1>4, <1>6 DEF RowsOf, FamilyUpdateOf, UserUpdateOf
<1>9. \A d \in Clients : ~FamilyWaitsFor(c, d)'
    BY <1>1, <1>4 DEF FamilyWaitsFor
<1>10. QED
    BY <1>5, <1>7, <1>8, <1>9, HoldingsStep DEF Holdings, HoldingsOf

\* A row an UPDATE comes to is its own from then on, or was revoked before.
LEMMA VisitHoldings ==
    ASSUME IInv, RowsKept, NEW c \in Clients, NEW t \in Tokens, Visit(c, t)
    PROVE  Holdings'
<1> USE NoneIsNew
<1> /\ TypeOK /\ LocksFollowStages /\ UpdatesAccounted /\ HoldingsOf(c)
    BY HoldingsByRequest DEF IInv
<1>1. /\ pc[c] = "update" /\ t \in left[c] /\ t \in snap[c]
      /\ left' = [left EXCEPT ![c] = @ \ {t}]
      /\ pc' = pc /\ token' = token /\ account' = account /\ snap' = snap
      /\ userLock' = userLock /\ status' = status /\ family' = family /\ owner' = owner
    BY DEF Visit, UpdatesAccounted, rows, args
<1>2. /\ lock[t] \in {None, c} /\ lock'[t] \in {lock[t], c}
      /\ \A r \in Tokens : r # t => lock'[r] = lock[r]
    BY DEF TypeOK, Visit, Free
<1>3. left'[c] = left[c] \ {t}
    BY <1>1 DEF TypeOK
<1>4. ASSUME NEW d \in Clients \ {c} PROVE Untouched(d)
    BY <1>1, <1>2 DEF TypeOK, Untouched
<1>5. SubjectOf(c)' /\ UserUpdateOf(c)'
    BY <1>1 DEF HoldingsOf, SubjectOf, UserUpdateOf
<1>6. RowsOf(c)'
    BY <1>1, <1>2, <1>3 DEF HoldingsOf, RowsOf
<1>7. FamilyUpdateOf(c)'
    <2> SUFFICES ASSUME account[c] = None PROVE FamilyUpdateOf(c)'
        BY <1>1 DEF FamilyUpdateOf
    <2>1. token[c] \in Tokens /\ lock[token[c]] = c
        BY <1>1 DEF HoldingsOf, FamilyUpdateOf
    <2>2. lock'[token[c]] = c
        BY <1>2, <2>1
    <2>3. QED
        BY <1>1, <2>1, <2>2 DEF HoldingsOf, FamilyUpdateOf
<1>8. \A d \in Clients : ~FamilyWaitsFor(c, d)'
    <2>1. account[c] = None => left'[c] = {}
        <3>1. account[c] = None => \A r \in snap[c] : r = t
            BY <1>1 DEF HoldingsOf, FamilyUpdateOf
        <3>2. QED
            BY <1>3, <3>1 DEF UpdatesAccounted
    <2>2. QED
        BY <1>1, <2>1 DEF FamilyWaitsFor
<1>9. QED
    BY <1>4, <1>5, <1>6, <1>7, <1>8, HoldingsStep DEF Holdings, HoldingsOf

\* Steps that change the stage and the argument of a request and no row lock.
LEMMA BeginHoldings ==
    ASSUME IInv, RowsKept, NEW c \in Clients, pc[c] \in {"idle", "change"},
           \/ \E t \in Tokens, op \in {"refresh", "logout"} : Present(c, t, op)
           \/ \E u \in Users : BeginChange(c, u)
           \/ LockUser(c)
    PROVE  Holdings'
<1> USE NoneIsNew
<1> /\ TypeOK /\ LocksFollowStages /\ HoldingsOf(c)
    BY HoldingsByRequest DEF IInv
<1>1. /\ lock' = lock /\ snap' = snap /\ left' = left
      /\ pc'[c] \in {"refresh", "logout", "change", "all"}
      /\ \A t \in Tokens : lock[t] # c
    BY DEF TypeOK, LocksFollowStages, Present, BeginChange, LockUser, locks
<1>2. ASSUME NEW d \in Clients \ {c} PROVE Untouched(d)
    BY DEF TypeOK, Untouched, Present, BeginChange, LockUser, locks, args
<1>3. SubjectOf(c)'
    BY DEF TypeOK, HoldingsOf, SubjectOf, Present, BeginChange, LockUser, locks, args
<1>4. RowsOf(c)' /\ FamilyUpdateOf(c)' /\ UserUpdateOf(c)'
    BY <1>1 DEF RowsOf, FamilyUpdateOf, UserUpdateOf
<1>5. \A d \in Clients : ~FamilyWaitsFor(c, d)'
    BY <1>1 DEF FamilyWaitsFor
<1>6. QED
    BY <1>2, <1>3, <1>4, <1>5, HoldingsStep DEF Holdings, HoldingsOf

\* Every step keeps requests to what they hold, and closes no circle of revocations.
LEMMA HoldingsKept == IInv /\ [Next]_vars => Holdings'
<1> SUFFICES ASSUME IInv, [Next]_vars PROVE Holdings'
    OBVIOUS
<1> RowsKept
    BY RowsAreKept
<1>1. ASSUME NEW c \in Clients, Advance(c) PROVE Holdings'
    <2>1. CASE NoToken(c) \/ RejectExpired(c) \/ CommitRevocation(c) \/ \E n \in Tokens : Rotate(c, n)
        BY <2>1, EndHoldings DEF NoToken, RejectExpired, CommitRevocation, Rotate
    <2>2. CASE Accept(c) \/ DetectReuse(c) \/ BeginLogout(c)
        BY <2>2, LockRowHoldings DEF Accept, DetectReuse, BeginLogout
    <2>3. CASE RevokeFamily(c)
        BY <2>3, RevokeFamilyHoldings
    <2>4. CASE LockUser(c)
        BY <2>4, BeginHoldings DEF LockUser
    <2>5. CASE RevokeAllFamilies(c)
        BY <2>5, RevokeAllHoldings
    <2>6. CASE \E t \in Tokens : Visit(c, t)
        BY <2>6, VisitHoldings
    <2>7. QED
        BY <1>1, <2>1, <2>2, <2>3, <2>4, <2>5, <2>6 DEF Advance
<1>2. CASE \E c \in Clients : Rollback(c)
    BY <1>2, EndHoldings DEF Rollback
<1>3. CASE \E c \in Clients, t \in Tokens, op \in {"refresh", "logout"} : Present(c, t, op)
    BY <1>3, BeginHoldings DEF Present
<1>4. CASE \E c \in Clients, u \in Users : BeginChange(c, u)
    BY <1>4, BeginHoldings DEF BeginChange
<1>5. ASSUME UNCHANGED <<locks, pc, args, snap, left>> PROVE Holdings'
    <2>1. \A d \in Clients : Untouched(d)
        BY <1>5 DEF Untouched, locks, args
    <2>2. \A d \in Clients : HoldingsOf(d)'
        BY <2>1, Bystander
    <2>3. NoFamilyCircle'
        BY <1>5 DEF IInv, NoFamilyCircle, FamilyWaitsFor, locks, args
    <2>4. QED
        BY <2>2, <2>3 DEF Holdings
<1>6. QED
    BY <1>1, <1>2, <1>3, <1>4, <1>5 DEF Next, Issue, Expire, vars

\* A family is opened for one user, and its tokens are exchanged for tokens of that user.
LEMMA OwnersStep == IInv /\ [Next]_vars => FamilyHasOneOwner'
<1> USE NoneIsNew
<1> SUFFICES ASSUME IInv, [Next]_vars PROVE FamilyHasOneOwner'
    OBVIOUS
<1> TypeOK /\ FamilyWasOpened /\ LocksFollowStages /\ FamilyHasOneOwner
    BY DEF IInv
<1>1. ASSUME NEW u \in Users, NEW n \in Tokens, Issue(u, n) PROVE FamilyHasOneOwner'
    <2>1. \A t \in Tokens : status[t] # "absent" => family[t] # n /\ t # n
        BY <1>1 DEF Issue, FamilyWasOpened, TypeOK
    <2>2. QED
        BY <1>1, <2>1 DEF Issue, FamilyHasOneOwner, TypeOK
<1>2. ASSUME NEW c \in Clients, NEW n \in Tokens, Rotate(c, n) PROVE FamilyHasOneOwner'
    <2>1. /\ token[c] \in Tokens /\ status[token[c]] = "live" /\ token[c] # n
          /\ family'[n] = family[token[c]] /\ owner'[n] = owner[token[c]]
        BY <1>2 DEF Rotate, TypeOK, LocksFollowStages
    <2>2. \A t \in Tokens : t # n /\ status'[t] # "absent" =>
            status[t] # "absent" /\ family'[t] = family[t] /\ owner'[t] = owner[t]
        BY <1>2, <2>1 DEF Rotate, TypeOK
    <2>3. QED
        BY <2>1, <2>2 DEF FamilyHasOneOwner
<1>3. ASSUME NEW c \in Clients, CommitRevocation(c) PROVE FamilyHasOneOwner'
    <2>1. \A t \in Updated(c) : status[t] # "absent"
        BY DEF IInv, UpdatesAccounted, Updated
    <2>2. QED
        BY <1>3, <2>1 DEF CommitRevocation, FamilyHasOneOwner, TypeOK
<1>4. CASE UNCHANGED rows
    BY <1>4 DEF rows, FamilyHasOneOwner
<1>5. QED
    BY <1>1, <1>2, <1>3, <1>4, TableSteps

----------------------------------------------------------------------------
(* The theorems *)

\* The inductive invariant holds in every reachable state.
THEOREM Invariant == Spec => []IInv
<1>1. Init => IInv
    <2> SUFFICES ASSUME Init PROVE IInv
        OBVIOUS
    <2>1. /\ TypeOK /\ OneLivePerFamily /\ FamilyWasOpened /\ LocksFollowStages
          /\ UpdatesAccounted /\ FamilyHasOneOwner
        BY NoneIsNew DEF Init, TypeOK, Stages, OneLivePerFamily, Live, FamilyWasOpened,
            LocksFollowStages, UpdatesAccounted, FamilyHasOneOwner
    <2>2. RequestsHaveOneSubject /\ RowsAreOfTheRequest /\ FamilyUpdates /\ UserUpdates
        BY NoneIsNew DEF Init, RequestsHaveOneSubject, RowsAreOfTheRequest, FamilyUpdates,
            UserUpdates
    <2>3. NoFamilyCircle
        BY DEF Init, NoFamilyCircle, FamilyWaitsFor
    <2>4. QED
        BY <2>1, <2>2, <2>3 DEF IInv
<1>2. IInv /\ [Next]_vars => IInv'
    <2> SUFFICES ASSUME IInv, [Next]_vars PROVE IInv'
        OBVIOUS
    <2>1. (RequestsHaveOneSubject /\ RowsAreOfTheRequest /\ FamilyUpdates /\ UserUpdates)'
        <3>1. \A c \in Clients : HoldingsOf(c)'
            BY HoldingsKept DEF Holdings
        <3>2. QED
            BY <3>1 DEF HoldingsOf, SubjectOf, RowsOf, FamilyUpdateOf, UserUpdateOf,
                RequestsHaveOneSubject, RowsAreOfTheRequest, FamilyUpdates, UserUpdates
    <2>2. NoFamilyCircle'
        BY HoldingsKept DEF Holdings
    <2>3. TypeOK' /\ OneLivePerFamily' /\ FamilyWasOpened' /\ LocksFollowStages'
        BY TypeStep, OneLiveStep, FamilyStep, LocksStep
    <2>4. UpdatesAccounted' /\ FamilyHasOneOwner'
        BY UpdatesStep, OwnersStep
    <2>5. QED
        BY <2>1, <2>2, <2>3, <2>4 DEF IInv
<1>3. QED
    BY <1>1, <1>2, PTL DEF Spec

\* The variables keep their types.  TypeOK is not inductive alone: that a rotation stores a
\* family at all rests on the presented row being locked and live.
THEOREM TypeCorrect == Spec => []TypeOK
<1>1. IInv => TypeOK
    BY DEF IInv
<1>2. QED
    BY <1>1, Invariant, PTL

\* However requests interleave and fail, a family has at most one live token.
THEOREM OneLive == Spec => []OneLivePerFamily
<1>1. IInv => OneLivePerFamily
    BY DEF IInv
<1>2. QED
    BY <1>1, Invariant, PTL

\* However many requests run, there is never a circle of them in which each waits for a row of
\* another.  Waiting for a row of a family leads to the UPDATEs of that family and of its user;
\* that of the user holds no other row of the family it waits for, and there is one of it.
THEOREM NobodyWaitsInACircle == Spec => []NoCircularWait
<1>1. ASSUME IInv, NEW S \in SUBSET Clients, S # {}, \A c \in S : \E d \in S : WaitsFor(c, d)
      PROVE  FALSE
    <2> USE NoneIsNew, <1>1
    <2> /\ TypeOK /\ LocksFollowStages /\ UpdatesAccounted /\ FamilyHasOneOwner /\ NoFamilyCircle
        /\ \A d \in Clients : HoldingsOf(d)
        BY HoldingsByRequest DEF IInv
    \* Whatever is held is held by an UPDATE.
    <2> DEFINE U == {c \in S : pc[c] = "update"}
    <2>1. ASSUME NEW d \in S, NEW t \in Tokens, lock[t] = d PROVE d \in U
        <3>1. d # None /\ pc[d] \in {"rotate", "revoke", "update"}
            BY <2>1 DEF LocksFollowStages
        <3>2. pc[d] \in {"refresh", "logout", "change", "update"}
            BY DEF WaitsFor
        <3>3. QED
            BY <3>1, <3>2
    <2>2. ASSUME NEW c \in U
          PROVE \E d \in U : d # c /\ \E t \in left[c] : t \in Tokens /\ lock[t] = d
        <3>1. PICK d \in S : WaitsFor(c, d)
            OBVIOUS
        <3>2. d # c /\ \E t \in left[c] : lock[t] = d
            BY <3>1 DEF WaitsFor
        <3>3. left[c] \subseteq Tokens
            BY DEF TypeOK
        <3>4. QED
            BY <2>1, <3>2, <3>3
    <2>3. U # {}
        <3>1. PICK c \in S : TRUE
            OBVIOUS
        <3>2. PICK d \in S : WaitsFor(c, d)
            OBVIOUS
        <3>3. CASE pc[c] \in {"refresh", "logout"}
            <4>1. token[c] \in Tokens /\ lock[token[c]] = d
                BY <3>2, <3>3 DEF WaitsFor, TypeOK, LocksFollowStages
            <4>2. QED
                BY <2>1, <4>1
        <3>4. CASE pc[c] = "change"
            <4>1. account[c] \in Users /\ userLock[account[c]] = d
                BY <3>2, <3>4 DEF WaitsFor, HoldingsOf, SubjectOf
            <4>2. pc[d] \in {"all", "update"}
                BY <4>1 DEF HoldingsOf, SubjectOf
            <4>3. pc[d] # "all"
                BY DEF WaitsFor
            <4>4. QED
                BY <4>2, <4>3
        <3>5. CASE pc[c] = "update"
            BY <3>5
        <3>6. QED
            BY <3>2, <3>3, <3>4, <3>5 DEF WaitsFor
    <2>4. \A t \in Tokens : \A c \in U : t \in snap[c] => status[t] # "absent"
        BY DEF UpdatesAccounted
    <2>5. \A c \in U : left[c] \subseteq snap[c] /\ snap[c] \subseteq Tokens
        BY DEF UpdatesAccounted, TypeOK
    <2>6. CASE \A c \in U : account[c] = None
        <3>1. \A c \in U : \E d \in U : FamilyWaitsFor(c, d)
            BY <2>2, <2>6 DEF FamilyWaitsFor
        <3>2. U \in SUBSET Clients
            OBVIOUS
        <3>3. QED
            BY <2>3, <3>1, <3>2 DEF NoFamilyCircle
    <2>7. CASE \E a \in U : account[a] # None
        <3>1. PICK a \in U : account[a] # None
            BY <2>7
        <3>2. PICK b \in U, r \in left[a] : b # a /\ r \in Tokens /\ lock[r] = b
            BY <2>2, <3>1
        <3> DEFINE F == {c \in U : account[c] = None /\ family[token[c]] = family[r]}
        <3>3. r \in snap[a] /\ owner[r] = account[a] /\ status[r] # "absent"
            BY <2>4, <2>5, <3>1, <3>2 DEF HoldingsOf, UserUpdateOf
        \* The tb_user row lets one UPDATE of the user run at a time.
        <3>4. ASSUME NEW d \in U, account[d] # None, account[d] = account[a] PROVE d = a
            <4>1. account[a] \in Users
                BY <3>1 DEF TypeOK
            <4>2. userLock[account[a]] = a /\ userLock[account[a]] = d
                BY <3>4, <4>1 DEF HoldingsOf, SubjectOf
            <4>3. QED
                BY <4>2
        \* Who holds a row of the family of r, other than the UPDATE of the user, is in F.
        <3>5. ASSUME NEW d \in U, NEW t \in Tokens, lock[t] = d, family[t] = family[r], d # a
              PROVE  d \in F
            <4>1. status[t] # "absent"
                BY <3>5 DEF LocksFollowStages
            <4>2. owner[t] = account[a]
                BY <3>2, <3>3, <3>5, <4>1 DEF FamilyHasOneOwner
            <4>3. CASE account[d] # None
                <5>1. token[d] = None
                    BY <4>3 DEF HoldingsOf, SubjectOf
                <5>2. t \in snap[d]
                    BY <3>5, <5>1 DEF HoldingsOf, RowsOf
                <5>3. owner[t] = account[d]
                    BY <4>3, <5>2 DEF HoldingsOf, UserUpdateOf
                <5>4. QED
                    BY <3>4, <3>5, <4>2, <4>3, <5>3
            <4>4. CASE account[d] = None
                <5>1. t = token[d] \/ t \in snap[d]
                    BY <3>5 DEF HoldingsOf, RowsOf
                <5>2. family[t] = family[token[d]]
                    BY <4>4, <5>1 DEF HoldingsOf, FamilyUpdateOf
                <5>3. QED
                    BY <3>5, <4>4, <5>2
            <4>5. QED
                BY <4>3, <4>4
        <3>6. b \in F
            BY <3>2, <3>5
        <3>7. ASSUME NEW c \in F PROVE \E d \in F : FamilyWaitsFor(c, d)
            <4>1. PICK d \in U, t \in left[c] : d # c /\ t \in Tokens /\ lock[t] = d
                BY <2>2
            <4>2. t \in snap[c] /\ family[t] = family[r]
                BY <2>5, <4>1 DEF HoldingsOf, FamilyUpdateOf
            <4>3. d # a
                <5> SUFFICES ASSUME d = a PROVE FALSE
                    OBVIOUS
                <5>1. token[a] = None
                    BY <3>1 DEF HoldingsOf, SubjectOf
                <5>2. t \in snap[a] \ left[a]
                    BY <4>1, <5>1 DEF HoldingsOf, RowsOf
                <5>3. t = r
                    BY <3>1, <3>3, <4>2, <5>2 DEF HoldingsOf, UserUpdateOf
                <5>4. QED
                    BY <3>2, <5>2, <5>3
            <4>4. d \in F
                BY <3>5, <4>1, <4>2, <4>3
            <4>5. QED
                BY <4>1, <4>4 DEF FamilyWaitsFor
        <3>8. F \in SUBSET Clients
            OBVIOUS
        <3>9. QED
            BY <3>6, <3>7, <3>8 DEF NoFamilyCircle
    <2>8. QED
        BY <2>6, <2>7
<1>2. IInv => NoCircularWait
    BY <1>1 DEF NoCircularWait
<1>3. QED
    BY <1>2, Invariant, PTL

\* A family that lost its live token never gets another one.
THEOREM DeadFamilies == Spec => DeadFamilyStaysDead
<1>1. ASSUME IInv, [Next]_vars, NEW f \in Tokens, status[f] # "absent",
             \A t \in Live : family[t] # f,
             NEW t \in Tokens, status'[t] = "live"
      PROVE family'[t] # f
    <2> TypeOK /\ LocksFollowStages /\ UpdatesAccounted
        BY <1>1 DEF IInv
    <2>1. CASE \E u \in Users, n \in Tokens : Issue(u, n)
        BY <1>1, <2>1 DEF Issue, Live, TypeOK
    <2>2. ASSUME NEW c \in Clients, NEW n \in Tokens, Rotate(c, n) PROVE family'[t] # f
        <3>1. token[c] \in Live /\ token[c] # n
            BY <2>2, NoneIsNew DEF TypeOK, LocksFollowStages, Rotate, Live
        <3>2. QED
            BY <1>1, <2>2, <3>1 DEF Rotate, Live, TypeOK
    <2>3. CASE \E c \in Clients : CommitRevocation(c)
        BY <1>1, <2>3 DEF CommitRevocation, Live, TypeOK
    <2>4. CASE UNCHANGED rows
        BY <1>1, <2>4 DEF rows, Live
    <2>5. QED
        BY <1>1, <2>1, <2>2, <2>3, <2>4, TableSteps
<1>2. IInv /\ [Next]_vars =>
        \A f \in Tokens :
            (status[f] # "absent" /\ \A t \in Live : family[t] # f)
                => (\A t \in Tokens : status'[t] = "live" => family'[t] # f)
    BY <1>1
<1>3. QED
    BY <1>2, Invariant, PTL DEF Spec, DeadFamilyStaysDead

\* A revocation covers every row its UPDATE saw when it started.
THEOREM SnapshotsCovered == Spec => RevocationCoversSnapshot
<1>1. ASSUME IInv, NEW c \in Clients, CommitRevocation(c), NEW t \in snap[c]
      PROVE status'[t] = "revoked"
    <2>1. t \in Tokens /\ t \notin left[c]
        BY <1>1 DEF IInv, TypeOK, CommitRevocation
    <2>2. CASE lock[t] = c
        BY <1>1, <2>1, <2>2 DEF CommitRevocation, Updated
    <2>3. CASE lock[t] # c
        BY <1>1, <2>1, <2>3 DEF CommitRevocation, Updated, IInv, UpdatesAccounted
    <2>4. QED
        BY <2>2, <2>3
<1>2. IInv =>
        \A c \in Clients : CommitRevocation(c) => \A t \in snap[c] : status'[t] = "revoked"
    BY <1>1
<1>3. QED
    BY <1>2, Invariant, PTL DEF Spec, RevocationCoversSnapshot

\* The component implements TokenChain: its transactions act on the tables as one step each.
\* A committed revocation is Close of the families it hit: OneLivePerFamily makes the rows it
\* updated all the live rows of those families.
THEOREM Refinement == Spec => ImplementsTokenChain
<1>1. Init => Chain!Init
    BY DEF Init, Chain!Init
<1>2. ASSUME IInv, [Next]_vars PROVE [Chain!Next]_Chain!vars
    <2> TypeOK /\ OneLivePerFamily /\ LocksFollowStages /\ UpdatesAccounted
        BY <1>2 DEF IInv
    <2>1. CASE \E u \in Users, n \in Tokens : Issue(u, n)
        BY <2>1 DEF Issue, Chain!Next, Chain!Open
    <2>2. ASSUME NEW c \in Clients, NEW n \in Tokens, Rotate(c, n) PROVE Chain!Next
        <3>1. token[c] \in Tokens /\ status[token[c]] = "live"
            BY <2>2 DEF TypeOK, LocksFollowStages, Rotate
        <3>2. Chain!Exchange(token[c], n)
            BY <2>2, <3>1 DEF Rotate, Chain!Exchange
        <3>3. QED
            BY <3>1, <3>2 DEF Chain!Next
    <2>3. ASSUME NEW c \in Clients, CommitRevocation(c) PROVE Chain!Next
        <3> DEFINE F == {f \in Tokens : \E t \in Updated(c) : family[t] = f}
        <3>1. \A t \in Updated(c) : t \in Live
            BY DEF UpdatesAccounted, Updated, TypeOK, Live
        <3>2. \A t \in Live : family[t] \in Tokens
            BY DEF TypeOK, Live
        <3>3. \A t \in Tokens : t \in Updated(c) <=> (status[t] = "live" /\ family[t] \in F)
            BY <3>1, <3>2 DEF OneLivePerFamily, Live
        <3>4. Chain!Close(F)
            BY <2>3, <3>3 DEF CommitRevocation, Chain!Close
        <3>5. F \in SUBSET Tokens
            OBVIOUS
        <3>6. QED
            BY <3>4, <3>5 DEF Chain!Next
    <2>4. CASE UNCHANGED rows
        BY <2>4 DEF rows, Chain!vars
    <2>5. QED
        BY <1>2, <2>1, <2>2, <2>3, <2>4, TableSteps
<1>3. QED
    BY <1>1, <1>2, Invariant, PTL DEF Spec, ImplementsTokenChain, Chain!Spec

============================================================================
