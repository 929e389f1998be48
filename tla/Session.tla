------------------------------ MODULE Session ------------------------------
(***************************************************************************)
(* Refresh tokens of api/internal/session over PostgreSQL.                 *)
(*                                                                         *)
(* A refresh token is a row of seg.tb_refresh_token.  Issue inserts the    *)
(* first token of a family, Refresh exchanges a token for its successor,   *)
(* Logout and the presentation of a used token revoke the family, and a    *)
(* password or e-mail change revokes every family of the user.             *)
(*                                                                         *)
(* Transactions run at READ COMMITTED.  A transaction is the sequence of   *)
(* its statements: SELECT ... FOR UPDATE waits for the row lock and reads  *)
(* the newest committed version; an UPDATE takes its snapshot when it      *)
(* starts, waits for each row of it in turn, and leaves out a row that no  *)
(* longer satisfies its WHERE.  Nothing a transaction writes is seen by    *)
(* another before COMMIT, so a transaction's writes are applied there.     *)
(***************************************************************************)
EXTENDS FiniteSets

CONSTANTS
    Tokens,     \* the token hashes that may ever be stored or presented
    Users,      \* account identifiers
    Clients,    \* concurrent requests, each on a connection of its own
    None        \* SQL NULL: no family, no owner, no lock holder

ASSUME NoneIsNew == None \notin Tokens \cup Users \cup Clients

VARIABLES
    status,     \* committed dt_revoked_at of each row: absent, live or revoked
    family,     \* co_token_family, named by the token that opened it
    owner,      \* co_user
    expired,    \* the rows whose dt_expires_at is past
    lock,       \* the request whose transaction holds the row's lock
    userLock,   \* the request whose transaction holds the lock of a tb_user row
    pc,         \* where each request stands
    token,      \* the token a request presented
    account,    \* the user whose password or e-mail a request changes
    snap,       \* rows the request's UPDATE saw live when it started
    left        \* rows of the snapshot that UPDATE has not reached yet

rows  == <<status, family, owner>>
locks == <<lock, userLock>>
args  == <<token, account>>
vars  == <<rows, expired, locks, pc, args, snap, left>>

Stages == {"idle", "refresh", "logout", "rotate", "revoke", "change", "all", "update"}

TypeOK ==
    /\ status \in [Tokens -> {"absent", "live", "revoked"}]
    /\ family \in [Tokens -> Tokens \cup {None}]
    /\ owner \in [Tokens -> Users \cup {None}]
    /\ expired \subseteq Tokens
    /\ lock \in [Tokens -> Clients \cup {None}]
    /\ userLock \in [Users -> Clients \cup {None}]
    /\ pc \in [Clients -> Stages]
    /\ token \in [Clients -> Tokens \cup {None}]
    /\ account \in [Clients -> Users \cup {None}]
    /\ snap \in [Clients -> SUBSET Tokens]
    /\ left \in [Clients -> SUBSET Tokens]
    /\ \A t \in Tokens : status[t] = "absent" <=> family[t] = None

Init ==
    /\ status = [t \in Tokens |-> "absent"]
    /\ family = [t \in Tokens |-> None]
    /\ owner = [t \in Tokens |-> None]
    /\ expired = {}
    /\ lock = [t \in Tokens |-> None]
    /\ userLock = [u \in Users |-> None]
    /\ pc = [c \in Clients |-> "idle"]
    /\ token = [c \in Clients |-> None]
    /\ account = [c \in Clients |-> None]
    /\ snap = [c \in Clients |-> {}]
    /\ left = [c \in Clients |-> {}]

----------------------------------------------------------------------------
(* Rows and locks *)

Live == {t \in Tokens : status[t] = "live"}

\* The rows UPDATE ... WHERE co_token_family = (family of t) AND dt_revoked_at IS NULL sees.
LiveOfFamily(t) == {r \in Live : family[r] = family[t]}

\* The rows UPDATE ... WHERE co_user = u AND dt_revoked_at IS NULL sees.
LiveOfUser(u) == {r \in Live : owner[r] = u}

\* Mutant: the token is read without FOR UPDATE.
FreeWithoutForUpdate(c, t) == TRUE

\* Request c need not wait for the lock of row t.
Free(c, t) == lock[t] \in {None, c}

\* Mutant: the lock on the account row outlives the transaction.
ReleaseRowsOnly(c) ==
    /\ lock' = [t \in Tokens |-> IF lock[t] = c THEN None ELSE lock[t]]
    /\ UNCHANGED userLock

\* COMMIT and ROLLBACK drop every lock of the transaction.
Release(c) ==
    /\ lock' = [t \in Tokens |-> IF lock[t] = c THEN None ELSE lock[t]]
    /\ userLock' = [u \in Users |-> IF userLock[u] = c THEN None ELSE userLock[u]]

\* The transaction ends and the request answers.
Finish(c) ==
    /\ Release(c)
    /\ pc' = [pc EXCEPT ![c] = "idle"]
    /\ token' = [token EXCEPT ![c] = None]
    /\ account' = [account EXCEPT ![c] = None]
    /\ snap' = [snap EXCEPT ![c] = {}]
    /\ left' = [left EXCEPT ![c] = {}]

----------------------------------------------------------------------------
(* Issue: a login, a verified sign-up or a social login opens a family. *)

Issue(u, n) ==
    /\ status[n] = "absent"
    /\ status' = [status EXCEPT ![n] = "live"]
    /\ family' = [family EXCEPT ![n] = n]
    /\ owner' = [owner EXCEPT ![n] = u]
    /\ UNCHANGED <<expired, locks, pc, args, snap, left>>

----------------------------------------------------------------------------
(* Refresh and Logout *)

\* The handler opens a transaction for the presented token.
Present(c, t, op) ==
    /\ pc[c] = "idle"
    /\ pc' = [pc EXCEPT ![c] = op]
    /\ token' = [token EXCEPT ![c] = t]
    /\ UNCHANGED <<rows, expired, locks, account, snap, left>>

\* No committed row has the hash: ErrNoToken, and the transaction is rolled back.
NoToken(c) ==
    /\ pc[c] \in {"refresh", "logout"}
    /\ status[token[c]] = "absent"
    /\ Finish(c)
    /\ UNCHANGED <<rows, expired>>

\* The row is locked and the request goes on to the given stage.
LockRow(c, stage) ==
    /\ Free(c, token[c])
    /\ lock' = [lock EXCEPT ![token[c]] = c]
    /\ pc' = [pc EXCEPT ![c] = stage]
    /\ UNCHANGED <<rows, expired, userLock, args, snap, left>>

\* Mutant: whether the token was used before is not looked at.
AcceptAnyRow(c) ==
    /\ pc[c] = "refresh"
    /\ status[token[c]] # "absent"
    /\ token[c] \notin expired
    /\ LockRow(c, "rotate")

\* The token is neither revoked nor expired.
Accept(c) ==
    /\ pc[c] = "refresh"
    /\ status[token[c]] = "live"
    /\ token[c] \notin expired
    /\ LockRow(c, "rotate")

\* A revoked token is the theft signal, expired or not.
DetectReuse(c) ==
    /\ pc[c] = "refresh"
    /\ status[token[c]] = "revoked"
    /\ LockRow(c, "revoke")

\* An expired token that was never used: rolled back, ErrInvalidRefresh.
RejectExpired(c) ==
    /\ pc[c] = "refresh"
    /\ status[token[c]] = "live"
    /\ token[c] \in expired
    /\ Free(c, token[c])
    /\ Finish(c)
    /\ UNCHANGED <<rows, expired>>

\* Logout revokes the family of any stored token, whatever its state.
BeginLogout(c) ==
    /\ pc[c] = "logout"
    /\ status[token[c]] # "absent"
    /\ LockRow(c, "revoke")

\* Mutant: the presented token is not revoked with the insertion of its successor.
RotateWithoutRevoke(c, n) ==
    /\ pc[c] = "rotate"
    /\ status[n] = "absent"
    /\ status' = [status EXCEPT ![n] = "live"]
    /\ family' = [family EXCEPT ![n] = family[token[c]]]
    /\ owner' = [owner EXCEPT ![n] = owner[token[c]]]
    /\ Finish(c)
    /\ UNCHANGED expired

\* Revoke, Insert and Commit of one rotation.
Rotate(c, n) ==
    /\ pc[c] = "rotate"
    /\ status[n] = "absent"
    /\ status' = [status EXCEPT ![token[c]] = "revoked", ![n] = "live"]
    /\ family' = [family EXCEPT ![n] = family[token[c]]]
    /\ owner' = [owner EXCEPT ![n] = owner[token[c]]]
    /\ Finish(c)
    /\ UNCHANGED expired

----------------------------------------------------------------------------
(* Revocation of a family, or of every family of a user *)

\* An UPDATE starts: its snapshot is what is committed now.
StartUpdate(c, S) ==
    /\ pc' = [pc EXCEPT ![c] = "update"]
    /\ snap' = [snap EXCEPT ![c] = S]
    /\ left' = [left EXCEPT ![c] = S]
    /\ UNCHANGED <<rows, expired, locks, args>>

RevokeFamily(c) ==
    /\ pc[c] = "revoke"
    /\ StartUpdate(c, LiveOfFamily(token[c]))

\* A password change, a recovery or an e-mail change begins to write.
BeginChange(c, u) ==
    /\ pc[c] = "idle"
    /\ pc' = [pc EXCEPT ![c] = "change"]
    /\ account' = [account EXCEPT ![c] = u]
    /\ UNCHANGED <<rows, expired, locks, token, snap, left>>

\* Mutant: the tokens are revoked before the account is touched.
LockNoUser(c) ==
    /\ pc[c] = "change"
    /\ pc' = [pc EXCEPT ![c] = "all"]
    /\ UNCHANGED <<rows, expired, locks, args, snap, left>>

\* It first UPDATEs the tb_user row, which waits for the row and locks it.
LockUser(c) ==
    /\ pc[c] = "change"
    /\ userLock[account[c]] = None
    /\ userLock' = [userLock EXCEPT ![account[c]] = c]
    /\ pc' = [pc EXCEPT ![c] = "all"]
    /\ UNCHANGED <<rows, expired, lock, args, snap, left>>

RevokeAllFamilies(c) ==
    /\ pc[c] = "all"
    /\ StartUpdate(c, LiveOfUser(account[c]))

\* Mutant: the UPDATE passes over a row another transaction holds.
VisitSkippingLocked(c, t) ==
    /\ pc[c] = "update"
    /\ t \in left[c]
    /\ left' = [left EXCEPT ![c] = @ \ {t}]
    /\ lock' = IF status[t] = "live" /\ Free(c, t)
               THEN [lock EXCEPT ![t] = c] ELSE lock
    /\ UNCHANGED <<rows, expired, userLock, pc, args, snap>>

\* Mutant: a row is taken as it was in the snapshot, without reading it again.
VisitWithoutRecheck(c, t) ==
    /\ pc[c] = "update"
    /\ t \in left[c]
    /\ Free(c, t)
    /\ left' = [left EXCEPT ![c] = @ \ {t}]
    /\ lock' = [lock EXCEPT ![t] = c]
    /\ UNCHANGED <<rows, expired, userLock, pc, args, snap>>

\* The UPDATE reaches a row of its snapshot: it waits for the row, reads its newest version,
\* and leaves it out when it is revoked by now.
Visit(c, t) ==
    /\ pc[c] = "update"
    /\ t \in left[c]
    /\ Free(c, t)
    /\ left' = [left EXCEPT ![c] = @ \ {t}]
    /\ lock' = IF status[t] = "live" THEN [lock EXCEPT ![t] = c] ELSE lock
    /\ UNCHANGED <<rows, expired, userLock, pc, args, snap>>

\* The rows the transaction has updated.
Updated(c) == {t \in snap[c] \ left[c] : lock[t] = c}

CommitRevocation(c) ==
    /\ pc[c] = "update"
    /\ left[c] = {}
    /\ status' = [t \in Tokens |-> IF t \in Updated(c) THEN "revoked" ELSE status[t]]
    /\ Finish(c)
    /\ UNCHANGED <<family, owner, expired>>

----------------------------------------------------------------------------
(* Failure and time *)

\* A statement fails, the client goes away or the process dies: the transaction is rolled back.
Rollback(c) ==
    /\ pc[c] # "idle"
    /\ Finish(c)
    /\ UNCHANGED <<rows, expired>>

\* dt_expires_at of a stored row passes.
Expire(t) ==
    /\ status[t] # "absent"
    /\ t \notin expired
    /\ expired' = expired \cup {t}
    /\ UNCHANGED <<rows, locks, pc, args, snap, left>>

\* The steps of a request that is under way, failures left out.
Advance(c) ==
    \/ NoToken(c)
    \/ Accept(c)
    \/ DetectReuse(c)
    \/ RejectExpired(c)
    \/ BeginLogout(c)
    \/ \E n \in Tokens : Rotate(c, n)
    \/ RevokeFamily(c)
    \/ LockUser(c)
    \/ RevokeAllFamilies(c)
    \/ \E t \in Tokens : Visit(c, t)
    \/ CommitRevocation(c)

Next ==
    \/ \E u \in Users, n \in Tokens : Issue(u, n)
    \/ \E c \in Clients, t \in Tokens, op \in {"refresh", "logout"} : Present(c, t, op)
    \/ \E c \in Clients, u \in Users : BeginChange(c, u)
    \/ \E c \in Clients : Advance(c)
    \/ \E c \in Clients : Rollback(c)
    \/ \E t \in Tokens : Expire(t)

Spec == Init /\ [][Next]_vars

----------------------------------------------------------------------------
(* Fairness, for the liveness property only.  Each statement of a request returns, and     *)
(* PostgreSQL grants a row lock in the order it was asked for, so a request whose next     *)
(* statement is possible again and again gets to run it.  Nothing is assumed of the        *)
(* clients, of failures or of the clock.                                                   *)

Fairness == \A c \in Clients : SF_vars(Advance(c))

FairSpec == Spec /\ Fairness

----------------------------------------------------------------------------
(* Properties *)

\* A family never has two live tokens (session/refresh.go, Refresh: the presented token is
\* revoked in the transaction that inserts its successor, under the lock of its row).
OneLivePerFamily ==
    \A s, t \in Live : family[s] = family[t] => s = t

\* A family is named by a token that was stored.
FamilyWasOpened ==
    \A t \in Tokens : status[t] # "absent" => status[family[t]] # "absent"

\* The stage of a request tells which locks its transaction holds.
LocksFollowStages ==
    /\ \A t \in Tokens : lock[t] # None =>
        /\ pc[lock[t]] \in {"rotate", "revoke", "update"}
        /\ status[t] # "absent"
    /\ \A c \in Clients :
        /\ pc[c] \in {"refresh", "logout", "rotate", "revoke"} => token[c] # None
        /\ pc[c] = "rotate" => lock[token[c]] = c /\ status[token[c]] = "live"

\* An UPDATE accounts for every row of its snapshot: the rows it holds are live until COMMIT,
\* and one it has reached and does not hold had been revoked by another transaction.
UpdatesAccounted ==
    \A c \in Clients :
        /\ left[c] \subseteq snap[c]
        /\ pc[c] # "update" => snap[c] = {}
        /\ \A t \in snap[c] : status[t] # "absent"
        /\ \A t \in snap[c] :
            /\ lock[t] = c => status[t] = "live"
            /\ lock[t] # c /\ t \notin left[c] => status[t] = "revoked"

\* Every token of a family is of one user.
FamilyHasOneOwner ==
    \A s, t \in Tokens :
        status[s] # "absent" /\ status[t] # "absent" /\ family[s] = family[t] => owner[s] = owner[t]

\* A request works on a token or on an account, and the stage of the latter tells whether it
\* holds the tb_user row.
RequestsHaveOneSubject ==
    /\ \A c \in Clients :
        /\ pc[c] \in {"idle", "change", "all"} => token[c] = None
        /\ pc[c] \notin {"change", "all", "update"} => account[c] = None
        /\ pc[c] \in {"change", "all"} => account[c] \in Users
        /\ pc[c] = "update" => (token[c] = None <=> account[c] # None)
    /\ \A c \in Clients, u \in Users :
        userLock[u] = c <=> pc[c] \in {"all", "update"} /\ account[c] = u

\* A transaction holds the row of its token and the rows its UPDATE has reached, no others.
RowsAreOfTheRequest ==
    \A c \in Clients :
        /\ \A t \in Tokens : lock[t] = c => t = token[c] \/ t \in snap[c] \ left[c]
        /\ pc[c] = "revoke" => lock[token[c]] = c

\* The UPDATE of a family: its own token is held, and its snapshot is at most one row of the
\* family, that token itself if it is live.
FamilyUpdates ==
    \A c \in Clients : pc[c] = "update" /\ account[c] = None =>
        /\ token[c] \in Tokens
        /\ lock[token[c]] = c
        /\ status[token[c]] = "live" => token[c] \in snap[c]
        /\ \A s, t \in snap[c] : s = t
        /\ \A t \in snap[c] : family[t] = family[token[c]]

\* The UPDATE of a user's tokens: at most one row of each family of that user.
UserUpdates ==
    \A c \in Clients : pc[c] = "update" /\ account[c] # None =>
        /\ \A t \in snap[c] : owner[t] = account[c]
        /\ \A s, t \in snap[c] : family[s] = family[t] => s = t

\* The UPDATE of a family waits for a row the UPDATE of a family holds.
FamilyWaitsFor(c, d) ==
    /\ d # c
    /\ \A e \in {c, d} : pc[e] = "update" /\ account[e] = None
    /\ \E t \in left[c] : lock[t] = d

\* Two revocations of a family may wait one for the other, but not in a circle.
NoFamilyCircle ==
    \A S \in SUBSET Clients : S # {} => \E c \in S : \A d \in S : ~FamilyWaitsFor(c, d)

\* The inductive invariant: what locks and snapshots guarantee between statements.
IInv ==
    /\ TypeOK
    /\ OneLivePerFamily
    /\ FamilyWasOpened
    /\ LocksFollowStages
    /\ UpdatesAccounted
    /\ FamilyHasOneOwner
    /\ RequestsHaveOneSubject
    /\ RowsAreOfTheRequest
    /\ FamilyUpdates
    /\ UserUpdates
    /\ NoFamilyCircle

\* The next statement of c has to wait for a row that the transaction of d holds.  An UPDATE
\* may come first to any of the rows it has left.
WaitsFor(c, d) ==
    \/ pc[c] \in {"refresh", "logout"} /\ lock[token[c]] = d
    \/ pc[c] = "change" /\ userLock[account[c]] = d
    \/ pc[c] = "update" /\ d # c /\ \E t \in left[c] : lock[t] = d

\* No requests, however many, wait for each other, in whatever order an UPDATE comes to its
\* rows (Refresh, Logout, RevokeAllFamilies): two revocations of one user take the tb_user row
\* first, and that of a family holds nothing another family's could want.
NoCircularWait ==
    \A S \in SUBSET Clients : S # {} => \E c \in S : \A d \in S : ~WaitsFor(c, d)

\* A family with no live token left never has one again: whoever holds a used token, no order
\* of refreshes, logouts, password changes and failures brings the session back.
DeadFamilyStaysDead ==
    [][\A f \in Tokens :
        (status[f] # "absent" /\ \A t \in Live : family[t] # f)
            => (\A t \in Tokens : status'[t] = "live" => family'[t] # f)]_vars

\* When a revocation commits, every token that was live when its UPDATE started is revoked,
\* whatever the other requests did to it meanwhile (RevokeFamily, RevokeAllFamilies).
RevocationCoversSnapshot ==
    [][\A c \in Clients : CommitRevocation(c) =>
        \A t \in snap[c] : status'[t] = "revoked"]_vars

\* The tables behave as if each operation happened at one instant.
Chain ==
    INSTANCE TokenChain WITH
        Tokens <- Tokens, Users <- Users, None <- None,
        status <- status, family <- family, owner <- owner

ImplementsTokenChain == Chain!Spec

\* Every request is answered: no order of row locks leaves two requests waiting for each
\* other.  (A rotation needs a hash that is not in use; the bound on Tokens is the only way
\* to run out of them.)
EveryRequestEnds ==
    \A c \in Clients :
        pc[c] # "idle" ~> (pc[c] = "idle" \/ \A n \in Tokens : status[n] # "absent")

\* What the code says of Refresh and Logout: "the entire family is revoked" (refresh.go:68),
\* "RevokeFamily marks every token of the family as revoked" (refresh.go:39).  A request that
\* revoked the family of its token leaves no live token in it.
RevokedFamilyHasNoLiveToken ==
    [][\A c \in Clients : CommitRevocation(c) /\ token[c] # None =>
        \A t \in Tokens : status'[t] = "live" => family'[t] # family[token[c]]]_vars

============================================================================
