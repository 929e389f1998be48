------------------------------- MODULE Signup -------------------------------
(***************************************************************************)
(* How accounts come to be and how they compete for an address:            *)
(* api/internal/signup (a pending registration, its mailed code and its    *)
(* promotion into an account), api/internal/social (the account of a       *)
(* provider identity) and the move of an account to a new address at the   *)
(* end of api/internal/emailchange.                                        *)
(*                                                                         *)
(* Requests are numbered: number n stands for the code that was mailed for *)
(* request n and for the name and password submitted with it.              *)
(*                                                                         *)
(* PostgreSQL at READ COMMITTED: a row read FOR UPDATE is locked until the *)
(* transaction ends; an INSERT or UPDATE whose key another transaction has *)
(* inserted or removed and not committed waits for that transaction, and   *)
(* fails when the key turns out to be taken.  An UPDATE of an address      *)
(* locks the account's row and supersedes the old key before it asks for   *)
(* the new one, so it waits with both held; PostgreSQL ends one            *)
(* transaction of a circle that waits.                                     *)
(***************************************************************************)
EXTENDS Naturals, FiniteSetsExt

CONSTANTS
    Emails,
    Subjects,       \* (provider, sub) pairs
    Clients,        \* concurrent HTTP requests
    MaxAttempts,    \* signup.MaxAttempts
    MaxRequests,    \* bound: sign-up requests
    MaxAccounts,    \* bound: accounts
    None            \* SQL NULL, no row, no lock holder

ASSUME SignupAssumption ==
    /\ MaxAttempts \in Nat \ {0}
    /\ MaxRequests \in Nat \ {0}
    /\ MaxAccounts \in Nat \ {0}
    /\ None \notin Emails \cup Subjects \cup Clients \cup Nat

Requests == 1..MaxRequests
Accounts == 1..MaxAccounts
WrongCode == 0      \* any code that was not mailed

VARIABLES
    pending,    \* seg.tb_signup_request by tx_email
    accounts,   \* committed seg.tb_user
    identity,   \* committed seg.tb_user_identity: the account of a subject
    asked,      \* requests so far
    lock,       \* holder of the pending row of an address
    claim,      \* transaction that inserted an address or updates the row that has it, uncommitted
    idClaim,    \* transaction that inserted a subject, uncommitted
    accepted, waiting, mailed, lost,    \* the mail path (MailChannel)
    pc,
    email,      \* the address of the request; for social, NULL if not verified
    key,        \* request number, presented code or subject
    made,       \* the account the request is about
    row         \* the pending row the verification read

mail  == <<accepted, waiting, mailed, lost>>
rows  == <<pending, accounts, identity>>
locks == <<lock, claim, idClaim>>
args  == <<email, key, made, row>>
vars  == <<rows, asked, locks, mail, pc, args>>

Channel == INSTANCE MailChannel WITH Messages <- Requests

Pending == [by : Requests, attempts : 0..MaxAttempts, expired : BOOLEAN]
Account == [email : Emails \cup {None}, by : Requests \cup {None}, sub : Subjects \cup {None}]

\* No row is a NULL.
ASSUME NoneIsNoRow == None \notin Pending \cup Account

Stages == {"idle", "upsert", "publish", "pending", "judge", "promote", "commitVerify",
           "insert", "link", "commitSocial", "move", "enter", "commitMove", "issue"}

TypeOK ==
    /\ pending \in [Emails -> Pending \cup {None}]
    /\ accounts \in [Accounts -> Account \cup {None}]
    /\ identity \in [Subjects -> Accounts \cup {None}]
    /\ asked \in 0..MaxRequests
    /\ lock \in [Emails -> Clients \cup {None}]
    /\ claim \in [Emails -> Clients \cup {None}]
    /\ idClaim \in [Subjects -> Clients \cup {None}]
    /\ pc \in [Clients -> Stages]
    /\ email \in [Clients -> Emails \cup {None}]
    /\ key \in [Clients -> Requests \cup {WrongCode} \cup Subjects \cup {None}]
    /\ made \in [Clients -> Accounts \cup {None}]
    /\ row \in [Clients -> Pending \cup {None}]
    /\ \A e \in Emails :
        lock[e] # None => pending[e] # None /\ pc[lock[e]] \in {"judge", "promote", "commitVerify"}

Init ==
    /\ pending = [e \in Emails |-> None]
    /\ accounts = [a \in Accounts |-> None]
    /\ identity = [s \in Subjects |-> None]
    /\ asked = 0
    /\ lock = [e \in Emails |-> None]
    /\ claim = [e \in Emails |-> None]
    /\ idClaim = [s \in Subjects |-> None]
    /\ Channel!Init
    /\ pc = [c \in Clients |-> "idle"]
    /\ email = [c \in Clients |-> None]
    /\ key = [c \in Clients |-> None]
    /\ made = [c \in Clients |-> None]
    /\ row = [c \in Clients |-> None]

----------------------------------------------------------------------------
(* Helpers *)

Created == {a \in Accounts : accounts[a] # None}

\* A committed account that is not deleted owns the address.
Exists(e) == \E a \in Created : accounts[a].email = e

\* gen_random_uuid for a request that may create an account (bound: MaxAccounts).
Unused == Accounts \ (Created \cup {made[c] : c \in Clients})
FreshAccount == Min(Unused)

Goto(c, stage) == pc' = [pc EXCEPT ![c] = stage]

Drop(holder, c) == [x \in DOMAIN holder |-> IF holder[x] = c THEN None ELSE holder[x]]

\* COMMIT or ROLLBACK drops what the transaction held.
Release(c) ==
    /\ lock' = Drop(lock, c)
    /\ claim' = Drop(claim, c)
    /\ idClaim' = Drop(idClaim, c)

\* The account is committed, and what is left is to open its session.
Opens(c) ==
    /\ Release(c)
    /\ Goto(c, "issue")
    /\ email' = [email EXCEPT ![c] = None]
    /\ row' = [row EXCEPT ![c] = None]
    /\ UNCHANGED <<key, made>>

\* The request answers, whatever it was doing is rolled back.
End(c) ==
    /\ Release(c)
    /\ Goto(c, "idle")
    /\ email' = [email EXCEPT ![c] = None]
    /\ key' = [key EXCEPT ![c] = None]
    /\ made' = [made EXCEPT ![c] = None]
    /\ row' = [row EXCEPT ![c] = None]

Begin(c, stage, e, k, a) ==
    /\ pc[c] = "idle"
    /\ Goto(c, stage)
    /\ email' = [email EXCEPT ![c] = e]
    /\ key' = [key EXCEPT ![c] = k]
    /\ made' = [made EXCEPT ![c] = a]
    /\ UNCHANGED <<rows, locks, mail, row>>

\* An uncommitted change of the address by another transaction has to end first.
Unclaimed(c, e) == claim[e] \in {None, c}

\* The statement c is at has to wait for the transaction of d: for the pending row, for an
\* address, for the row of the account to be moved, or for a subject.
WaitsFor(c, d) ==
    /\ c # d
    /\ \/ pc[c] \in {"upsert", "pending"} /\ lock[email[c]] = d
       \/ pc[c] \in {"promote", "insert", "enter"} /\ email[c] # None /\ claim[email[c]] = d
       \/ pc[c] = "move" /\ claim[accounts[made[c]].email] = d
       \/ pc[c] = "link" /\ idClaim[key[c]] = d

\* c is in a circle of transactions that wait for each other; each waits for one other.
Deadlocked(c) ==
    \E S \in SUBSET Clients :
        /\ c \in S
        /\ \A x \in S : (\E d \in S : WaitsFor(x, d)) /\ (\E d \in S : WaitsFor(d, x))

----------------------------------------------------------------------------
(* POST /v1/auth/signup: Service.Request *)

\* Mutant: the address is reserved in tb_user in the transaction that writes the pending row.
RequestReserving(c, e) ==
    /\ pc[c] = "idle"
    /\ ~Exists(e)
    /\ Unclaimed(c, e)
    /\ asked < MaxRequests
    /\ asked' = asked + 1
    /\ claim' = [claim EXCEPT ![e] = c]
    /\ Goto(c, "upsert")
    /\ email' = [email EXCEPT ![c] = e]
    /\ key' = [key EXCEPT ![c] = asked + 1]
    /\ UNCHANGED <<rows, lock, idClaim, mail, made, row>>

\* For an address that has an account only a notice without a code is mailed,
\* and the answer is the same.
Request(c, e) ==
    /\ ~Exists(e)
    /\ asked < MaxRequests
    /\ asked' = asked + 1
    /\ Begin(c, "upsert", e, asked + 1, None)

\* INSERT ... ON CONFLICT DO UPDATE: one statement, which waits for the row.
Upsert(c) ==
    /\ pc[c] = "upsert"
    /\ lock[email[c]] = None
    /\ pending' = [pending EXCEPT ![email[c]] =
            [by |-> key[c], attempts |-> 0, expired |-> FALSE]]
    /\ Goto(c, "publish")
    /\ UNCHANGED <<accounts, identity, asked, locks, mail, args>>

\* The code is handed to the mail path; a failure is Fail.
Publish(c) ==
    /\ pc[c] = "publish"
    /\ Channel!Accept(key[c])
    /\ End(c)
    /\ UNCHANGED <<rows, asked>>

----------------------------------------------------------------------------
(* POST /v1/auth/signup/verify: Verifier.Verify *)

Verify(c, e, code) ==
    /\ Unused # {}
    /\ Begin(c, "pending", e, code, FreshAccount)
    /\ UNCHANGED asked

\* ErrNoPending.
NoPending(c) ==
    /\ pc[c] = "pending"
    /\ pending[email[c]] = None
    /\ End(c)
    /\ UNCHANGED <<rows, asked, mail>>

\* Mutant: the pending row is read without FOR UPDATE.
ReadPending(c) ==
    /\ pc[c] = "pending"
    /\ pending[email[c]] # None
    /\ row' = [row EXCEPT ![c] = pending[email[c]]]
    /\ Goto(c, "judge")
    /\ UNCHANGED <<rows, asked, locks, mail, email, key, made>>

\* SELECT ... FOR UPDATE reads the newest committed row once it has the lock.
LockPending(c) ==
    /\ pc[c] = "pending"
    /\ pending[email[c]] # None
    /\ lock[email[c]] = None
    /\ lock' = [lock EXCEPT ![email[c]] = c]
    /\ row' = [row EXCEPT ![c] = pending[email[c]]]
    /\ Goto(c, "judge")
    /\ UNCHANGED <<rows, asked, claim, idClaim, mail, email, key, made>>

\* Mutant: the transaction of a rejected code is never rolled back.
RejectWithoutRollback(c) ==
    /\ pc[c] = "judge"
    /\ row[c].expired \/ row[c].attempts >= MaxAttempts
    /\ Goto(c, "idle")
    /\ UNCHANGED <<rows, asked, locks, mail, args>>

\* Expired, or no attempt left.
Reject(c) ==
    /\ pc[c] = "judge"
    /\ row[c].expired \/ row[c].attempts >= MaxAttempts
    /\ End(c)
    /\ UNCHANGED <<rows, asked, mail>>

Judged(c) ==
    /\ pc[c] = "judge"
    /\ ~row[c].expired
    /\ row[c].attempts < MaxAttempts

\* The attempt is counted and committed.
CountAttempt(c) ==
    /\ Judged(c)
    /\ key[c] # row[c].by
    /\ pending' = [pending EXCEPT ![email[c]].attempts = @ + 1]
    /\ End(c)
    /\ UNCHANGED <<accounts, identity, asked, mail>>

\* The code matches.
CodeMatches(c) ==
    /\ Judged(c)
    /\ key[c] = row[c].by
    /\ Goto(c, "promote")
    /\ UNCHANGED <<rows, asked, locks, mail, args>>

\* The address belongs to another account by now: 23505, rolled back, 500.
PromoteFails(c) ==
    /\ pc[c] = "promote"
    /\ Unclaimed(c, email[c])
    /\ Exists(email[c])
    /\ End(c)
    /\ UNCHANGED <<rows, asked, mail>>

\* INSERT INTO tb_user and DELETE of the pending row.
Promote(c) ==
    /\ pc[c] = "promote"
    /\ Unclaimed(c, email[c])
    /\ ~Exists(email[c])
    /\ claim' = [claim EXCEPT ![email[c]] = c]
    /\ Goto(c, "commitVerify")
    /\ UNCHANGED <<rows, asked, lock, idClaim, mail, args>>

CommitVerify(c) ==
    /\ pc[c] = "commitVerify"
    /\ accounts' = [accounts EXCEPT ![made[c]] =
            [email |-> email[c], by |-> row[c].by, sub |-> None]]
    /\ pending' = [pending EXCEPT ![email[c]] = None]
    /\ Opens(c)
    /\ UNCHANGED <<identity, asked, mail>>

----------------------------------------------------------------------------
(* POST /v1/auth/social: Service.Authenticate *)

\* The identity is known.
Recognise(c, s) ==
    /\ identity[s] # None
    /\ Begin(c, "issue", None, s, identity[s])
    /\ UNCHANGED asked

\* First sight of the subject, with the address the provider vouches for, if any.
FirstSight(c, s, e) ==
    /\ identity[s] = None
    /\ Unused # {}
    /\ Begin(c, "insert", e, s, FreshAccount)
    /\ UNCHANGED asked

InsertUser(c) ==
    /\ pc[c] = "insert"
    /\ \/ email[c] = None /\ UNCHANGED claim
       \/ /\ email[c] # None
          /\ Unclaimed(c, email[c])
          /\ ~Exists(email[c])
          /\ claim' = [claim EXCEPT ![email[c]] = c]
    /\ Goto(c, "link")
    /\ UNCHANGED <<rows, asked, lock, idClaim, mail, args>>

\* Mutant: a taken address links the identity to the account that owns it.
LinkByEmail(c) ==
    /\ pc[c] = "insert"
    /\ email[c] # None
    /\ Unclaimed(c, email[c])
    /\ \E a \in Created :
        /\ accounts[a].email = email[c]
        /\ made' = [made EXCEPT ![c] = a]
    /\ Goto(c, "issue")
    /\ UNCHANGED <<rows, asked, locks, mail, email, key, row>>

\* The address is taken: the transaction is rolled back and the account is
\* created without an address.
WithoutAddress(c) ==
    /\ pc[c] = "insert"
    /\ email[c] # None
    /\ Unclaimed(c, email[c])
    /\ Exists(email[c])
    /\ email' = [email EXCEPT ![c] = None]
    /\ UNCHANGED <<rows, asked, locks, mail, pc, key, made, row>>

\* INSERT INTO tb_user_identity.
Link(c) ==
    /\ pc[c] = "link"
    /\ idClaim[key[c]] = None
    /\ identity[key[c]] = None
    /\ idClaim' = [idClaim EXCEPT ![key[c]] = c]
    /\ Goto(c, "commitSocial")
    /\ UNCHANGED <<rows, asked, lock, claim, mail, args>>

\* Another first sign-in of the subject was faster: rolled back, 500.
LinkFails(c) ==
    /\ pc[c] = "link"
    /\ idClaim[key[c]] = None
    /\ identity[key[c]] # None
    /\ End(c)
    /\ UNCHANGED <<rows, asked, mail>>

CommitSocial(c) ==
    /\ pc[c] = "commitSocial"
    /\ accounts' = [accounts EXCEPT ![made[c]] = [email |-> email[c], by |-> None, sub |-> key[c]]]
    /\ identity' = [identity EXCEPT ![key[c]] = made[c]]
    /\ Opens(c)
    /\ UNCHANGED <<pending, asked, mail>>

\* Tokens are issued after the commit; the session itself is that of Session.
Issue(c) ==
    /\ pc[c] = "issue"
    /\ End(c)
    /\ UNCHANGED <<rows, asked, mail>>

----------------------------------------------------------------------------
(* The last part of emailchange.Service.Verify *)

\* The code was right, its token is locked, and the address was free when the transaction
\* asked for it on a connection of its own. Two unused codes of one account are two tokens.
\* The account has a password, by sign-up or by recovery, so it has an address.
CheckAddress(c, a, e) ==
    /\ accounts[a] # None
    /\ accounts[a].email # None
    /\ ~Exists(e)
    /\ Begin(c, "move", e, None, a)
    /\ UNCHANGED asked

\* UPDATE tb_user has the account's row to itself, and supersedes the key of its address.
LockAccount(c) ==
    /\ pc[c] = "move"
    /\ claim[accounts[made[c]].email] = None
    /\ claim' = [claim EXCEPT ![accounts[made[c]].email] = c]
    /\ Goto(c, "enter")
    /\ UNCHANGED <<rows, asked, lock, idClaim, mail, args>>

\* Another account has the address; a change of the same account may have moved it there.
OwnedByOther(c) == \E a \in Created \ {made[c]} : accounts[a].email = email[c]

\* Mutant: without ux_tb_user_email_active the earlier check is all there is.
SetEmailUnguarded(c) ==
    /\ pc[c] = "enter"
    /\ claim' = claim
    /\ Goto(c, "commitMove")
    /\ UNCHANGED <<rows, asked, lock, idClaim, mail, args>>

\* The new key is inserted as soon as no other transaction has it open.
SetEmail(c) ==
    /\ pc[c] = "enter"
    /\ Unclaimed(c, email[c])
    /\ ~OwnedByOther(c)
    /\ claim' = [claim EXCEPT ![email[c]] = c]
    /\ Goto(c, "commitMove")
    /\ UNCHANGED <<rows, asked, lock, idClaim, mail, args>>

\* 23505: rolled back, 500.
SetEmailFails(c) ==
    /\ pc[c] = "enter"
    /\ Unclaimed(c, email[c])
    /\ OwnedByOther(c)
    /\ End(c)
    /\ UNCHANGED <<rows, asked, mail>>

CommitMove(c) ==
    /\ pc[c] = "commitMove"
    /\ accounts' = [accounts EXCEPT ![made[c]].email = email[c]]
    /\ End(c)
    /\ UNCHANGED <<pending, identity, asked, mail>>

----------------------------------------------------------------------------

\* PostgreSQL ends one transaction of a circle; its request answers 500.
DeadlockVictim(c) ==
    /\ Deadlocked(c)
    /\ End(c)
    /\ UNCHANGED <<rows, asked, mail>>

\* A query, a commit or the publication fails, or the client goes away.
Fail(c) ==
    /\ pc[c] # "idle"
    /\ End(c)
    /\ UNCHANGED <<rows, asked, mail>>

\* dt_expires_at passes.
Expire(e) ==
    /\ pending[e] # None
    /\ ~pending[e].expired
    /\ pending' = [pending EXCEPT ![e].expired = TRUE]
    /\ UNCHANGED <<accounts, identity, asked, locks, mail, pc, args>>

\* Mail arrives, late, or not at all: a message that is given up is one that is
\* never sent, and whether a sent one is settled is of no consequence here.
MailMoves ==
    /\ \E n \in waiting \ mailed : Channel!Send(n)
    /\ UNCHANGED <<rows, asked, locks, pc, args>>

\* The handlers pass on what is well-formed: any address, a code that was mailed
\* or another one, any subject a provider vouches for.
startSignup(c) == \E e \in Emails : Request(c, e)

verifySignup(c) == \E e \in Emails, code \in mailed \cup {WrongCode} : Verify(c, e, code)

socialLogin(c) ==
    \E s \in Subjects :
        \/ Recognise(c, s)
        \/ \E e \in Emails \cup {None} : FirstSight(c, s, e)

verifyEmailChange(c) == \E a \in Accounts, e \in Emails : CheckAddress(c, a, e)

Start(c) == startSignup(c) \/ verifySignup(c) \/ socialLogin(c) \/ verifyEmailChange(c)

Proceed(c) ==
    \/ Upsert(c) \/ Publish(c)
    \/ NoPending(c) \/ LockPending(c) \/ Reject(c) \/ CountAttempt(c) \/ CodeMatches(c)
    \/ PromoteFails(c) \/ Promote(c) \/ CommitVerify(c)
    \/ InsertUser(c) \/ WithoutAddress(c) \/ Link(c) \/ LinkFails(c) \/ CommitSocial(c)
    \/ LockAccount(c) \/ SetEmail(c) \/ SetEmailFails(c) \/ CommitMove(c)
    \/ DeadlockVictim(c)
    \/ Issue(c)

Next ==
    \/ \E c \in Clients : Start(c) \/ Proceed(c) \/ Fail(c)
    \/ \E e \in Emails : Expire(e)
    \/ MailMoves

Spec == Init /\ [][Next]_vars

\* A request is served as long as it can go on; PostgreSQL grants a lock or
\* resumes a waiting insertion in turn, so nobody waits for ever behind others.
FairSpec == Spec /\ \A c \in Clients : SF_vars(Proceed(c))

----------------------------------------------------------------------------
(* Properties *)

\* At most MaxAttempts wrong codes are tried against one pending registration,
\* however many verifications run at once.
AttemptsPerCodeBounded ==
    \A e \in Emails : pending[e] # None => pending[e].attempts <= MaxAttempts

\* The code somebody presents creates the account that was submitted with that
\* very code, for the address it was mailed to, and consumes exactly that
\* registration: a request that comes in meanwhile is not lost, and a code it
\* superseded creates nothing.
PromotedAsSubmitted ==
    [][/\ \A a \in Accounts :
            accounts[a] = None /\ accounts'[a] # None /\ accounts'[a].by # None =>
                \E c \in Clients, e \in Emails :
                    /\ accounts'[a].email = e
                    /\ pending[e] # None /\ pending[e].by = accounts'[a].by
                    /\ pending'[e] = None
                    /\ key[c] = accounts'[a].by
       /\ \A e \in Emails :
            pending[e] # None /\ pending'[e] = None =>
                \E a \in Accounts :
                    /\ accounts[a] = None
                    /\ accounts'[a] # None
                    /\ accounts'[a].by = pending[e].by]_vars

\* Whichever way accounts come to an address, no two own the same, and a
\* federated account exists exactly together with the identity that opens it.
AccountsConsistent ==
    /\ \A a, b \in Created :
        a # b /\ accounts[a].email # None => accounts[a].email # accounts[b].email
    /\ \A s \in Subjects, a \in Accounts :
        identity[s] = a <=> a \in Created /\ accounts[a].sub = s

\* A session that was opened with a provider identity or with a sign-up code is
\* one of the account that this identity or that code created.
SessionsOpenOwnAccount ==
    \A c \in Clients : pc[c] = "issue" =>
        /\ made[c] \in Created
        /\ key[c] \in {accounts[made[c]].by, accounts[made[c]].sub}

\* Requests that wait for each other in a circle, with others waiting behind them, always
\* have moves of two different accounts among them, each holding its account and asking for
\* another address.  Sign-ups, verifications, social sign-ins and the moves of one account
\* alone never make a circle, so PostgreSQL ends none of them on account of each other.
OnlyMovesWaitInCircles ==
    \A S \in SUBSET Clients :
        S # {} /\ (\A c \in S : \E d \in S : WaitsFor(c, d)) =>
            \E c, d \in S : pc[c] = "enter" /\ pc[d] = "enter" /\ made[c] # made[d]

\* No request waits for ever for a row or for another transaction's key, the circles of
\* moves included.
EveryRequestEnds == \A c \in Clients : pc[c] # "idle" ~> pc[c] = "idle"

----------------------------------------------------------------------------
(* The inductive invariant *)

\* The stages that hold the pending row, those that are to create an account, those that have
\* the new address, those that move an account, and those of them that hold its row.
Verifying == {"judge", "promote", "commitVerify"}
Linking   == {"insert", "link", "commitSocial"}
Creating  == {"pending"} \cup Verifying \cup Linking
Claiming  == {"commitVerify", "link", "commitSocial", "commitMove"}
Holding   == {"enter", "commitMove"}
Moving    == {"move"} \cup Holding

StagesHaveArguments ==
    \A c \in Clients :
        /\ pc[c] = "idle" => made[c] = None
        /\ pc[c] \in {"upsert", "publish"} => key[c] \in Requests
        /\ pc[c] \in Linking => key[c] \in Subjects
        /\ pc[c] \in {"upsert", "publish", "pending"} \cup Verifying \cup Moving =>
            email[c] \in Emails

\* What a verification judges is what it has locked.
RowsAreLocked ==
    \A c \in Clients :
        /\ \A e \in Emails : lock[e] = c <=> pc[c] \in Verifying /\ email[c] = e
        /\ pc[c] \in Verifying =>
            /\ row[c] # None
            /\ pending[email[c]] # None
            /\ row[c].by = pending[email[c]].by
            /\ row[c].attempts = pending[email[c]].attempts
        /\ pc[c] \in {"promote", "commitVerify"} => key[c] = row[c].by

\* An address that is about to be an account's is claimed, and no other account has it; so is
\* the address an account is about to leave.
AddressesAreClaimed ==
    \A c \in Clients :
        /\ pc[c] \in Claiming /\ email[c] # None =>
            claim[email[c]] = c /\ \A a \in Created : accounts[a].email = email[c] =>
                                    pc[c] = "commitMove" /\ a = made[c]
        /\ pc[c] \in Holding => claim[accounts[made[c]].email] = c

SubjectsAreClaimed ==
    \A c \in Clients :
        pc[c] = "commitSocial" => idClaim[key[c]] = c /\ identity[key[c]] = None

\* Nobody else claims anything.
ClaimsFollowStages ==
    /\ \A e \in Emails : claim[e] # None => pc[claim[e]] \in Claiming \cup Holding
    /\ \A s \in Subjects : idClaim[s] # None => pc[idClaim[s]] = "commitSocial"

\* An account that is about to be created is nobody else's.
AccountsAreNew ==
    \A c \in Clients :
        /\ pc[c] \in Creating =>
            /\ made[c] \in Accounts \ Created
            /\ \A d \in Clients \ {c} : made[d] # made[c]
        /\ pc[c] \in Moving => made[c] \in Created /\ accounts[made[c]].email \in Emails

MailIsOfRequests == waiting \cup mailed \subseteq Requests

IInv ==
    /\ TypeOK
    /\ StagesHaveArguments
    /\ RowsAreLocked
    /\ AddressesAreClaimed
    /\ SubjectsAreClaimed
    /\ ClaimsFollowStages
    /\ AccountsAreNew
    /\ MailIsOfRequests
    /\ AccountsConsistent
    /\ SessionsOpenOwnAccount

============================================================================
