------------------------------ MODULE Account ------------------------------
(***************************************************************************)
(* One account: its row of seg.tb_user, the login of api/internal/login,   *)
(* and the password change and recovery of api/internal/password.          *)
(*                                                                         *)
(* A login reads the row once, verifies the password against that copy and *)
(* then writes the counter and stores a session, each in a statement of    *)
(* its own.  A change or a recovery updates the row, revokes the sessions  *)
(* and commits, in one READ COMMITTED transaction: the row stays locked    *)
(* and its old version readable until COMMIT.                              *)
(*                                                                         *)
(* A session is a family of refresh tokens, here one slot that remembers   *)
(* the password it was opened with.  What happens inside a family is the   *)
(* subject of Session.                                                     *)
(***************************************************************************)
EXTENDS Integers, FiniteSets

CONSTANTS
    Passwords,      \* the passwords that may be set or typed
    Clients,        \* concurrent requests
    Slots,          \* room for live sessions
    MaxAttempts,    \* LOGIN_MAX_ATTEMPTS
    CounterBound,   \* bound of the model on nu_failed_attempts
    None            \* SQL NULL: no password, no lock holder, no session

ASSUME NoneIsNew == None \notin Passwords \cup Clients
ASSUME AttemptsArePositive == MaxAttempts \in Nat \ {0} /\ CounterBound \in Nat
ASSUME ClientsAssumption == IsFiniteSet(Clients) /\ Clients # {}

VARIABLES
    hash,       \* committed tx_password_hash; NULL for a federated account
    failed,     \* committed nu_failed_attempts
    locked,     \* dt_locked_until is in the future
    active,     \* tx_status = 'ACTIVE'
    rowLock,    \* the request whose transaction updated the row and has not committed
    session,    \* for each slot, the password its live family was opened with
    pc,         \* where each request stands
    seen,       \* the counter a login read, before it verified the password
    typed,      \* the password a login, or a change as the current one, was given
    next,       \* the password a change or a recovery sets
    doomed,     \* the sessions the revoking UPDATE saw
    guesses,    \* history: failures recorded since the account was last open to guesses
    late        \* history: failures recorded since the account was locked

row  == <<hash, failed, locked, active>>
args == <<seen, typed, next, doomed>>
vars == <<row, rowLock, session, pc, args, guesses, late>>

Stages == {"idle", "failed", "reset", "issue", "change", "revoke", "commit"}

TypeOK ==
    /\ hash \in Passwords \cup {None}
    /\ failed \in 0..CounterBound
    /\ locked \in BOOLEAN
    /\ active \in BOOLEAN
    /\ rowLock \in Clients \cup {None}
    /\ session \in [Slots -> Passwords \cup {None}]
    /\ pc \in [Clients -> Stages]
    /\ seen \in [Clients -> 0..CounterBound]
    /\ typed \in [Clients -> Passwords \cup {None}]
    /\ next \in [Clients -> Passwords \cup {None}]
    /\ doomed \in [Clients -> SUBSET Slots]
    /\ guesses \in Nat
    /\ late \in Nat
    /\ rowLock # None => pc[rowLock] \in {"revoke", "commit"}

Init ==
    /\ hash \in Passwords \cup {None}
    /\ failed = 0
    /\ locked = FALSE
    /\ active = TRUE
    /\ rowLock = None
    /\ session = [f \in Slots |-> None]
    /\ pc = [c \in Clients |-> "idle"]
    /\ seen = [c \in Clients |-> 0]
    /\ typed = [c \in Clients |-> None]
    /\ next = [c \in Clients |-> None]
    /\ doomed = [c \in Clients |-> {}]
    /\ guesses = 0
    /\ late = 0

----------------------------------------------------------------------------

Goto(c, stage) == pc' = [pc EXCEPT ![c] = stage]

\* The request answers; what it remembered is gone.
Done(c) ==
    /\ Goto(c, "idle")
    /\ seen' = [seen EXCEPT ![c] = 0]
    /\ typed' = [typed EXCEPT ![c] = None]
    /\ next' = [next EXCEPT ![c] = None]
    /\ doomed' = [doomed EXCEPT ![c] = {}]

\* The account is open to guesses again.
Reopen == guesses' = 0 /\ late' = 0

----------------------------------------------------------------------------
(* Login *)

\* Mutant: a locked account goes on to the password.
VerifyUnlessInactive(c, p) ==
    /\ pc[c] = "idle"
    /\ active
    /\ seen' = [seen EXCEPT ![c] = failed]
    /\ typed' = [typed EXCEPT ![c] = p]
    /\ Goto(c, IF p = hash THEN "reset" ELSE "failed")
    /\ UNCHANGED <<row, rowLock, session, next, doomed, guesses, late>>

\* ByEmail and VerifyPassword: an account that is neither locked nor suspended has the password
\* verified against the hash just read.  (A locked or suspended one answers without a trace.)
Verify(c, p) ==
    /\ pc[c] = "idle"
    /\ ~locked
    /\ active
    /\ seen' = [seen EXCEPT ![c] = failed]
    /\ typed' = [typed EXCEPT ![c] = p]
    /\ Goto(c, IF p = hash THEN "reset" ELSE "failed")
    /\ UNCHANGED <<row, rowLock, session, next, doomed, guesses, late>>

\* Mutant: the threshold is passed, not reached.
LocksPastThreshold(c) == seen[c] + 1 > MaxAttempts

\* failures >= maxAttempts, with the counter the login read.
Locks(c) == seen[c] + 1 >= MaxAttempts

\* Mutant: the counter is written back from the copy.
RecordFailureFromCopy(c) ==
    /\ pc[c] = "failed"
    /\ rowLock = None
    /\ failed' = seen[c] + 1
    /\ locked' = (locked \/ Locks(c))
    /\ guesses' = guesses + 1
    /\ late' = IF locked THEN late + 1 ELSE 0
    /\ Done(c)
    /\ UNCHANGED <<hash, active, rowLock, session>>

\* failAttempt: the counter is incremented in the row; the lock is set when the copy says so.
RecordFailure(c) ==
    /\ pc[c] = "failed"
    /\ rowLock = None
    /\ failed < CounterBound
    /\ failed' = failed + 1
    /\ locked' = (locked \/ Locks(c))
    /\ guesses' = guesses + 1
    /\ late' = IF locked THEN late + 1 ELSE 0
    /\ Done(c)
    /\ UNCHANGED <<hash, active, rowLock, session>>

\* A correct password clears the counter and the lock, whatever they are by now.
ResetFailures(c) ==
    /\ pc[c] = "reset"
    /\ rowLock = None
    /\ failed' = 0
    /\ locked' = FALSE
    /\ Reopen
    /\ Goto(c, "issue")
    /\ UNCHANGED <<hash, active, rowLock, session, args>>

\* Issuer.Issue stores the first token of a new family.
Issue(c, f) ==
    /\ pc[c] = "issue"
    /\ session[f] = None
    /\ session' = [session EXCEPT ![f] = typed[c]]
    /\ Done(c)
    /\ UNCHANGED <<row, rowLock, guesses, late>>

----------------------------------------------------------------------------
(* Change and Reset *)

\* Change reads the hash and verifies the current password against that copy.
VerifyCurrent(c, p, new) ==
    /\ pc[c] = "idle"
    /\ p = hash
    /\ typed' = [typed EXCEPT ![c] = p]
    /\ next' = [next EXCEPT ![c] = new]
    /\ Goto(c, "change")
    /\ UNCHANGED <<row, rowLock, session, seen, doomed, guesses, late>>

\* Reset found the code valid: no password is asked for.
AcceptCode(c, new) ==
    /\ pc[c] = "idle"
    /\ next' = [next EXCEPT ![c] = new]
    /\ Goto(c, "change")
    /\ UNCHANGED <<row, rowLock, session, seen, typed, doomed, guesses, late>>

\* UPDATE seg.tb_user: the row is locked, its new version not yet visible.
SetPassword(c) ==
    /\ pc[c] = "change"
    /\ rowLock = None
    /\ rowLock' = c
    /\ Goto(c, "revoke")
    /\ UNCHANGED <<row, session, args, guesses, late>>

\* UPDATE seg.tb_refresh_token: the live sessions of the user that are committed now.
RevokeAllFamilies(c) ==
    /\ pc[c] = "revoke"
    /\ doomed' = [doomed EXCEPT ![c] = {f \in Slots : session[f] # None}]
    /\ Goto(c, "commit")
    /\ UNCHANGED <<row, rowLock, session, seen, typed, next, guesses, late>>

\* Mutant: the transaction is left open after it has been applied.
CommitWithoutRelease(c) ==
    /\ pc[c] = "commit"
    /\ hash' = next[c]
    /\ failed' = 0
    /\ locked' = FALSE
    /\ session' = [f \in Slots |-> IF f \in doomed[c] THEN None ELSE session[f]]
    /\ Reopen
    /\ Done(c)
    /\ UNCHANGED <<active, rowLock>>

\* COMMIT: the new hash, the cleared counter and the revoked sessions become visible together.
Commit(c) ==
    /\ pc[c] = "commit"
    /\ hash' = next[c]
    /\ failed' = 0
    /\ locked' = FALSE
    /\ rowLock' = None
    /\ session' = [f \in Slots |-> IF f \in doomed[c] THEN None ELSE session[f]]
    /\ Reopen
    /\ Done(c)
    /\ UNCHANGED active

----------------------------------------------------------------------------
(* Failure, time and the administrator *)

\* A statement fails or the client goes away; a transaction under way is rolled back.
Fail(c) ==
    /\ pc[c] # "idle"
    /\ rowLock' = IF rowLock = c THEN None ELSE rowLock
    /\ Done(c)
    /\ UNCHANGED <<row, session, guesses, late>>

\* dt_locked_until passes.  The counter stays.
LockExpires ==
    /\ locked
    /\ locked' = FALSE
    /\ Reopen
    /\ UNCHANGED <<hash, failed, active, rowLock, session, pc, args>>

\* identity.UpdateUser suspends or reactivates the account.
SetStatus ==
    /\ rowLock = None
    /\ active' = ~active
    /\ UNCHANGED <<hash, failed, locked, rowLock, session, pc, args, guesses, late>>

Next ==
    \/ \E c \in Clients, p \in Passwords : Verify(c, p)
    \/ \E c \in Clients : RecordFailure(c)
    \/ \E c \in Clients : ResetFailures(c)
    \/ \E c \in Clients, f \in Slots : Issue(c, f)
    \/ \E c \in Clients, p, new \in Passwords : VerifyCurrent(c, p, new)
    \/ \E c \in Clients, new \in Passwords : AcceptCode(c, new)
    \/ \E c \in Clients : SetPassword(c)
    \/ \E c \in Clients : RevokeAllFamilies(c)
    \/ \E c \in Clients : Commit(c)
    \/ \E c \in Clients : Fail(c)
    \/ LockExpires
    \/ SetStatus

Spec == Init /\ [][Next]_vars

----------------------------------------------------------------------------
(* Properties *)

\* The price of deciding on a copy: with N requests at once, the account takes at most
\* MaxAttempts + 2N - 2 wrong passwords before it is locked, and MaxAttempts when they come
\* one at a time (login/service.go, failAttempt).
GuessesBounded == guesses <= MaxAttempts + 2 * Cardinality(Clients) - 2

\* Once locked, only the attempts that were under way are still answered: at most one for
\* each other request.
LockStopsGuesses == late <= Cardinality(Clients) - 1

\* No recorded failure is lost: concurrent failures all count (postgres.go, RecordFailure
\* increments in the row).
NoFailureLost == guesses <= failed

\* Requests about to record a wrong password, and those of them that will not lock.
Failing == {c \in Clients : pc[c] = "failed"}
Harmless == {c \in Failing : ~Locks(c)}

\* While the account is locked nobody joins those that are about to record a failure, and
\* the one that locked it is not among them.
LateCounted ==
    IF locked
    THEN late + Cardinality(Failing) <= Cardinality(Clients) - 1
    ELSE late = 0

\* Guesses and those still to come that will not lock: a copy below the threshold was read
\* when fewer guesses than that had been recorded.
GuessesCounted ==
    IF locked
    THEN guesses <= MaxAttempts + Cardinality(Clients) - 1 + late
    ELSE guesses + Cardinality(Harmless) <= MaxAttempts + Cardinality(Clients) - 2

\* The inductive invariant: what the row and the copies under way add up to.
IInv ==
    /\ TypeOK
    /\ NoFailureLost
    /\ LateCounted
    /\ GuessesCounted

\* "5 fallos consecutivos" lock the account (api/API.md:104): the failure that brings the
\* counter to the threshold leaves the account locked.
ThresholdLocks ==
    [][failed < MaxAttempts /\ failed' >= MaxAttempts => locked']_vars

\* "A stolen session must not survive the recovery that was meant to stop it" (security-api-
\* contract/spec.md, C4): every live session was opened with the password now in force.
SessionsMatchPassword ==
    \A f \in Slots : session[f] \in {None, hash}

============================================================================
