# A verification project for the melia authentication backend

The repository is a Go service over PostgreSQL, with a RabbitMQ mail worker.
Its own logic is authentication: sessions made of rotating refresh tokens, a
login with a lockout, one-time codes sent by mail, roles, and the migrations
that build the schema. Almost every rule it promises is kept, or not, by the
order in which the SQL statements of concurrent requests reach the database,
which the unit tests (each service against an in-memory store) never vary.
That is what the TLA+ modules here model: requests as processes, statements and
commits as steps, PostgreSQL's READ COMMITTED rules for snapshots and row locks.

Paths below are relative to `src/`.

## The system

| Component | State | Operations | Interacts with |
|---|---|---|---|
| Session tokens `api/internal/session` | `seg.tb_refresh_token`: hash, family, owner, expiry, revocation | Issue, Refresh, Logout, RevokeFamily | called by login, sign-up, social login; its rows are revoked by password and e-mail change |
| Login `api/internal/login` | `seg.tb_user`: hash, failure counter, lock, status | Login, failAttempt | session, audit |
| Password `api/internal/password` | `tb_user`, `tb_user_token`, `tb_refresh_token` | RequestReset, Reset, Change | mail queue, audit, session rows |
| E-mail change `api/internal/emailchange` | the same three tables | Request, Verify | mail queue, audit, session rows |
| Security `api/internal/security` | none | Quota.Check, codes, Argon2id | password, e-mail change |
| Sign-up `api/internal/signup` | `tb_signup_request`, then `tb_user` | Request, Verify | mail queue, session |
| Social login `api/internal/social` | `tb_user_identity`, `tb_user` | Authenticate | the provider's keys, session |
| Identity and roles `api/internal/identity`, `api/cmd/bootstrap` | `tb_user_role`, role and permission catalogues, history tables written by triggers (`database/init/07`, `08`) | UpdateUser, SetRoles, Access | every protected request reads the roles |
| Migrations `api/internal/db` | `seg.tb_schema_migration` and the schema | Run, adoptExisting, connect with retry | start of the API |
| Process `api/cmd/api` | a pool of connections | start, serve, shut down | runs the migrations, then every service on its pool |
| Mail `api/internal/queue`, `api/cmd/worker`, `api/internal/mailer` | a durable queue | Publish, handleDelivery, shutdown | every operation that sends a code |
| Audit `api/internal/audit` | `tb_security_event` | Record (best effort) | nothing reads it back |
| HTTP `api/internal/httpapi` | none of its own; it writes the browser's cookies | routing, cookies with double submit, permission middleware | all services |

What is hard in it:

- *Interleaved statements.* A transaction's UPDATE sees what was committed when
  it started. Rows inserted by another transaction meanwhile are not in it.
- *Copies.* A login decides on the counter and the hash it read before Argon2id
  ran; a quota is read before the code is stored; a session is stored after the
  password was checked.
- *Waiting.* SELECT ... FOR UPDATE waits for a row, and what it waited for may
  have been used up when the lock is granted.
- *Crashes.* The process may die between a schema file and its ledger row, the
  worker between a mail and its acknowledgement; both are restarted.
- *Lost and late messages.* Mail, its acknowledgements and the responses a
  browser waits for get lost, arrive twice or in another order.
- *Failure.* A client that goes away cancels its context and rolls back between
  any two statements; two related statements are not always one transaction.

`PROJECT.json` lists these as hazards, each at the line where it bites, with the
properties that watch it.

## Modules

| Module | What it is |
|---|---|
| `Session` | refresh tokens, their rotation and revocation, row locks and snapshots |
| `TokenChain` | the abstract specification: families as chains that open, exchange and close atomically |
| `Account` | one account: login with lockout, password change and recovery, and the sessions they open and close |
| `Codes` | the one-time codes of one account, for recovery and e-mail change, with their quota |
| `Mail` | publishers, the durable queue and the worker, with crashes, restarts and signals |
| `MailChannel` | the abstract specification of the mail path: a message waits until it was mailed or is given up |
| `Signup` | how accounts come to be: sign-up, social sign-in, and the move of an account to another address |
| `Roles` | `SetRoles` and the interval history its trigger writes |
| `Service` | the life of the API process: start, migrations, requests over the pool, shutdown |
| `Panel` | a browser session: cookies, CSRF values and token pairs, with late and lost responses |
| `SessionProofs`, `AccountProofs`, `CodesProofs`, `MailProofs`, `SignupProofs`, `RolesProofs`, `ServiceProofs`, `PanelProofs` | the theorems about each of these, checked by TLAPS |
| `MC...` | instances for TLC: the symmetry sets the `.cfg` files name |

The modules meet at abstract specifications. `Session` implements `TokenChain`,
and `Panel` is built over it; `Mail` implements `MailChannel`, and `Signup` uses it
for its codes. `Account` and `Codes` follow one account through the same
statements that `Session` and `Signup` follow across accounts and families.

### Session

State: `status`, `family`, `owner` are the committed rows of
`seg.tb_refresh_token`; `expired` the rows whose `dt_expires_at` is past; `lock`
and `userLock` the row locks on that table and on `tb_user`; `pc`, `token`,
`account`, `snap` and `left` where each request stands and what it remembers.

A request is a sequence of statements. `Present` opens the transaction of a
refresh or a logout. `Accept`, `DetectReuse`, `RejectExpired` and `NoToken` are
the outcomes of `SELECT ... FOR UPDATE` in `Refresh`, `BeginLogout` the one in
`Logout`. `Rotate` is `Revoke`, `Insert` and `Commit` of a rotation. They are one
step because the row is locked and nothing they write is visible before COMMIT;
a failure between them is `Rollback`. A revocation is three kinds of step:
`RevokeFamily` or `RevokeAllFamilies` takes the snapshot of the UPDATE, `Visit`
waits for one of its rows and rereads it, `CommitRevocation` applies it. The
revocation of every family of a user begins with `BeginChange` and `LockUser`,
the UPDATE of the `tb_user` row that password change, recovery and e-mail change
all do first. `Issue` is a single INSERT.

`ImplementsTokenChain` says that all of this is a `TokenChain`: `CommitRevocation`
is `Close` of the families whose rows it holds, `Rotate` is `Exchange`, `Issue` is
`Open`, and every other step changes no row.

### Account

One `tb_user` row and the sessions of its owner, each a slot that remembers the
password it was opened with. `Verify` is the read and the Argon2id check of
`Login`; `RecordFailure` or `ResetFailures`, then `Issue`, are its later
statements. `VerifyCurrent` is the check of `Change`, `AcceptCode` the point where
`Reset` has found its code valid; `SetPassword`, `RevokeAllFamilies` and `Commit`
are the transaction they share. `rowLock` is the row lock from that UPDATE to
COMMIT, for which every other writer waits. `guesses` and `late` are history
variables: failures recorded since the account was last open, and since it was
locked.

### Codes

The rows of `tb_user_token` for one account, numbered by `dt_created_at`, which is
the start of the transaction that stores a row and not the order of commits: a
row in state `begun` is dated and not yet visible. `Ask` reads the quota;
`StoreReset` is the single INSERT of a recovery code; `Invalidate` and `StoreChange`
are the transaction of `CreateChangeToken`. `Present` starts the SELECT ... ORDER BY
... LIMIT 1 FOR UPDATE of `Reset` or `Verify`, `Take` gets the newest row of its
snapshot, `PassOver` goes on to the next older one when that row was used while
the request waited. `WrongCode`, `RightCode` and `Reject` are the outcomes of the
check, made on the number of attempts read with the row. `Age` moves a row through
cooldown, lifetime and window.

### Mail

`handle` is what a `queue.AMQP` knows of its connection: none, open, or one that
has died unnoticed (`stale`). `Publish` is the whole method, with `OpenChannel` for
`channel()`: it dials when there is no connection, and with no publisher confirms
it returns once the message is on the socket (`wire`). `PublishFails` is the call
that finds a dead connection and resets it. `Deliver` is the broker's prefetch;
`Take`, `Drain`, `Dial`, `SendOK`, `SendFails`, `QuitFails`, `Ack` and `DropUnreadable`
are the worker's steps through `run`, `handleDelivery` and `Send`. `ctx` says what the
context given to `Send` allows: a dial goes ahead only while it is not done.
`Crash`, `Terminate`, `GraceOver` (SIGKILL), `PublisherDisconnects` and `BrokerRestart`
are the faults; what was delivered and not acknowledged returns to the head of
the queue, what was on a socket is lost. An acknowledgement over a dead
connection fails and its error is ignored, as in the code.

`ImplementsMailChannel` maps the sockets, the queue and the unacknowledged
deliveries to `waiting`.

### Signup

Requests are numbered; number n stands for the mailed code and for the name and
password submitted with it. `pending` is `tb_signup_request` by address; `accounts`
and `identity` are the committed rows of `tb_user` and `tb_user_identity`. `lock`
is the row lock on a pending registration; `claim` and `idClaim` say which
transaction has inserted or removed a unique key and not committed, for which
another INSERT or UPDATE of that key waits. `startSignup`, `verifySignup`,
`socialLogin` and `verifyEmailChange` are the handlers. `Upsert` is the single
statement that overwrites the pending row; `LockPending` to `CommitVerify` is the
transaction of `Verify`; `InsertUser`, `WithoutAddress`, `Link` and `CommitSocial` are
`CreateUserWithIdentity`, whose second attempt has no address; `MailMoves` delivers
codes late or never.

The end of an e-mail change begins with `CheckAddress`, answered on another
connection. Its UPDATE is two steps. `LockAccount` takes the account's row and with
it the key of the old address; `SetEmail` or `SetEmailFails` enters the new one,
for which it may have to wait with the old one held. One account may have several
moves under way, since an account may have several unused codes (`codes_newest`).
`WaitsFor` says which transaction a statement waits for, and a circle of them ends
with `DeadlockVictim`.

### Roles

`held` and `opened` are the committed rows of `tb_user_role` and the start of their
open intervals in the history. A call takes the snapshot of its DELETE
(`StartDelete`), deletes row by row (`DeleteRow`), closes the intervals
(`EndDelete`, or `HistoryRejects` when one would end before it began, since `now()`
is the start of the transaction), inserts row by row (`InsertRow`, `InsertFails` on
the primary key) and commits. Neither statement has an ORDER BY, so each takes its
rows in any order. `Deleters` and `Holders` are the transactions it may have to wait
for; a circle of waits ends with `DeadlockVictim`. A row carries the time it was
opened, so that a DELETE does not take a row that was deleted and inserted again
for the one it saw.

### Service

`executed` are the schema files the database has, `recorded` the ledger. `Inspect`
is the decision to adopt, `NextFile`, `Execute` and `Record` the loop of `Run`; a file
is one transaction and its record another. `Crash` in between leaves a `Torn` file,
and `orphan` is a file whose backend goes on after the process has died. `legacy`
and `adopted` remember why the ledger may name files that were not executed.
Once it serves, requests take a connection (`Acquire`) and some take a second one
inside their transaction (`NeedSecond`): the address check of an e-mail change,
and the audit record of a rejected sign-up code. `Shutdown`, `ShutdownReturns` and
`PoolClosed` are the way out of `run`, with the timeout and the deferred
`pool.Close`, which waits for every connection without a limit and wakes nobody
who waits for one: a waiter is refused (`Refuse`) when another connection is given
back and its turn comes. The pool is a library, modelled from how it is used.

### Panel

A CSRF value is named by the refresh token of its pair. `Send` records the cookie
the browser attaches and the value the tab presents; `StorePair` and `StoreLogout`
are the responses as they arrive, `Lose` those that do not. The handlers are one
step each over `TokenChain`; `LogoutMissesSuccessor` is the one overlap that
`TokenChain` does not order as a client would expect (run `session_revocation`).
What the tabs do is the browser's and the panel's part, modelled from the
handlers and `api/API.md`.

## Runs

| Run | Expect | What it shows |
|---|---|---|
| `session` | pass | one live token in a family, dead families stay dead, revocations cover their snapshot, refinement of `TokenChain`, no circular wait, every request ends |
| `session_revocation` | violation | a rotation in flight outlives the revocation of its family |
| `account` | pass | how many wrong passwords are answered before and after the lock, no failure lost |
| `account_threshold` | violation | concurrent failures pass the threshold without locking |
| `account_recovery` | violation | a login in flight opens a session with the replaced password |
| `codes` | pass | attempts per code, codes per window, pending changes; used codes are inert |
| `codes_newest` | violation | an older e-mail change code is consumed |
| `mail` | pass | duplicates come only from faults; the queue implements `MailChannel`; every accepted message is mailed or given up |
| `signup` | pass | attempts per code, an account is what was submitted with its code, unique addresses and identities, sessions open the right account, no circle of waits without moves of two accounts, every request ends |
| `roles` | pass | a call replaces up to its overlap with others, the history follows the roles, every call ends |
| `startup` | pass | the ledger is true, only a whole schema is served, the process comes to serve unless torn, requests and shutdown end unless the pool is starved |
| `panel` | pass | an undisturbed panel keeps its session, the tab that wrote the cookies passes the double submit, a logout is not undone |

Every passing run but `panel` also checks `IInv`, the inductive invariant that
the proofs about its module rest on and of which the type invariant `TypeOK` is
the first conjunct. Every property of a passing run has a mutant in
`PROJECT.json`: a plausible bug in a modelled definition (a missing FOR UPDATE, a
read that is not repeated after a wait, a counter written back from a copy, a
transaction left open) under which TLC finds the property violated. The mutated
forms stand beside the definitions they replace.

The four violations are disagreements between the code and what it says of
itself. They all come from one pattern, a decision on something read before
other requests committed, and are listed with the quoted lines under `findings`.

### Bounds

- `session`: 3 hashes, 1 user, 2 requests, 303,392 states. Three hashes let a
  family have a used, a live and a replacing token, or two families exist side
  by side; two requests are enough for every pairwise race. Hashes are
  finitely many here, so a rotation may find none unused; that is the only way
  out `EveryRequestEnds` allows.
- `account`: 3 requests, `MaxAttempts` 3, the counter up to 8 (`CounterBound`), two
  passwords, one slot. The bound in `GuessesBounded` is 7 there and is reached, so
  a counter up to 8 lets it fail.
- `codes`: 2 requests, 3 rows (`MaxCodes`), 2 wrong codes per row, a limit of one
  code per window for either purpose. The bounds in `IssuesBounded` and
  `PendingChangesBounded` are 2 there, and a third row lets them fail.
- `mail`: 2 publishers, 3 messages of which one is unreadable, a prefetch of 2 and
  2 faults, 102,098 states. The third message makes the queue wait for the
  prefetch; two faults let a message be redelivered while another is in hand, and
  a broker restart meet a worker that was told to stop.
- `signup`: 2 addresses, 1 subject, 2 requests at once, 2 sign-up requests, 2
  accounts, 1 wrong code, 569,297 states. Two addresses are needed for a move; two
  accounts for a clash; a second sign-up request overwrites the first. Two accounts
  that swap addresses need four requests, more than TLC can follow; `Crossed` is the
  state they reach, and the run starts there as well as from fresh tables. Only
  accounts that signed up move (`SignedUpMove`). When the sign-up requests are used
  up the system may stop, hence no deadlock check.
- `roles`: 1 user, 2 roles, 2 calls at once, 3 transactions, 126,924 states. The
  third transaction finds the interval a later one opened. Deadlocks and rejected
  intervals are reached.
- `startup`: 3 files, the second with `tb_user`, the third one that can be executed
  again; 2 connection attempts, 2 connections, 3 requests, 2 faults, 5,025 states.
  Two requests starve the pool and a third waits behind them.
- `panel`: 4 tokens, 2 tabs, 2 calls in flight, 229,334 states: two sessions, or one
  that was refreshed three times. When the tokens are used up calls are still
  lost, so nothing stops.
- The violation runs use the smallest instances that show the behaviour.

Requests, hashes, passwords, slots and addresses are interchangeable, so safety
runs use them as symmetry sets; the run with liveness does not.

### Fairness

- `Session`: strong fairness of the next statement of each request. PostgreSQL
  queues waiters for a row lock and grants it to them, and a statement whose lock
  is granted runs to its end, so a request whose statement becomes possible again
  and again runs it. Weak fairness would not say so: the lock a request waits for
  may be taken and released by others forever. `Signup` and `Roles` assume the
  same, and that PostgreSQL ends one transaction of a circle (`DeadlockVictim` is a
  step its requests can go on with); `Roles` also assumes that a call whose roles
  cannot be resolved fails.
- `Mail`: weak fairness of the broker, of the worker's restart (the container has
  `restart: always`) and of its steps; for SMTP that it answers one way or the
  other. It is an assumption: `Send` bounds only the dial, and a server that
  accepts the connection and stays silent holds the worker.
- `Service`: the containers are restarted, PostgreSQL comes back, its backends
  finish their statement, and the pool serves waiters in turn (strong fairness of
  `Acquire`, and of `Answer` because an open transaction may go back and forth to
  a second connection).

Clients, failures, faults and the clock are under no obligation anywhere.

## Proofs

Every safety invariant and every action property of the passing runs is a
theorem, for every value of the constants, and so are both refinements. `TypeOK` of
every module and `NothingForgotten` of `Mail` (no accepted message is anywhere but on
its way, mailed or lost) are theorems only; TLC sees `TypeOK` in `IInv`. Each
`...Proofs` module has the same plan: `Invariant` shows `Spec => []IInv` by
`Init => IInv` and one step for each action, and each property follows from `IInv`,
or from a step taken in a state that satisfies it.

| Module | Theorems | Assumptions |
|---|---|---|
| `SessionProofs` | `TypeOK`, `OneLivePerFamily`, `NoCircularWait`, `DeadFamilyStaysDead`, `RevocationCoversSnapshot`, `ImplementsTokenChain` | NULL is no hash, user or request |
| `AccountProofs` | `TypeOK`, `NoFailureLost`, `LockStopsGuesses`, `GuessesBounded` | a positive threshold; requests are finitely many and at least one |
| `CodesProofs` | `TypeOK`, `AttemptsBounded`, `IssuesBounded`, `PendingChangesBounded`, `UsedCodesAreInert` | positive limits; finitely many requests |
| `MailProofs` | `TypeOK`, `DuplicatesBounded`, `NothingForgotten`, `ImplementsMailChannel` | a positive prefetch |
| `SignupProofs` | `TypeOK`, `AttemptsPerCodeBounded`, `AccountsConsistent`, `SessionsOpenOwnAccount`, `OnlyMovesWaitInCircles`, `PromotedAsSubmitted` | positive bounds; NULL is no address, row or number |
| `RolesProofs` | `TypeOK`, `HistoryFollowsRoles`, `ReplaceUpToOverlap` | at least one role |
| `ServiceProofs` | `TypeOK`, `LedgerIsTrue`, `ServesWholeSchema` | `tb_user` is not in the first file; a pool of at least one; finitely many requests |
| `PanelProofs` | `TypeOK`, `QuietPanelKeepsSession`, `NewestTabPassesCSRF`, `LoggedOutStaysOut` | NULL is no token, tab or call |

The assumptions are the named `ASSUME`s of the models. Bounds that only keep TLC
finite (`MaxAccounts`, `CounterBound`, `MaxFaults`, `MaxSets`) are arbitrary naturals in
the proofs. That no row equals NULL, `NoneIsNoRow` and `NoneIsNoCall`, is what the
choice of model values gives.

Why the invariants are what they are:

- **Session.** One live token in a family is not inductive alone: a rotation
  inserts a live token whatever else is live. `LocksFollowStages` says that a
  request about to rotate holds the lock of its token and that the token is live,
  so what it inserts replaces the family's one live token. `FamilyWasOpened` makes
  a family that `Issue` opens a new one. `UpdatesAccounted` says of an UPDATE under
  way that the rows it holds are live and those it passed are revoked. In
  `Refinement` the step that needs them is `CommitRevocation`: its rows are all the
  live rows of their families because a family has only one.
- **Waiting in Session.** `NoCircularWait` is about any number of requests, and an
  UPDATE may come to its rows in any order. A request that waits for its first
  lock holds nothing, so a circle consists of UPDATEs. One of a family has in its
  snapshot at most one row, and its own token is that row when it is live
  (`FamilyUpdates`); one of a user has at most one row of each family
  (`UserUpdates`), and the `tb_user` row lets one of them run at a time
  (`RequestsHaveOneSubject`). A wait of the user's UPDATE for a row of a family
  leads to UPDATEs of that family only, since the user's own holds no other row of
  it, and those do not wait in a circle by themselves (`NoFamilyCircle`). That part
  is kept inductively: an UPDATE of a family that starts can wait only for one
  that waits for nobody, because the row it saw live is all that one has.
- **Account.** The bound on guesses counts the attempts under way. `GuessesCounted`
  adds to the guesses those requests whose copy of the counter is below the
  threshold (`Harmless`): each was read when fewer had been recorded, so `NoFailureLost`
  bounds how many there can still be. `LateCounted` says that nobody joins the
  failing requests while the account is locked.
- **Codes.** `ReadingsHold`: what a request read of the row it locked is still so
  when it counts the attempt. `IssuesCounted` counts requests that passed the quota
  and have not stored their code. For the pending changes the code keeps no
  counter, so the invariant is a matching: an injection of unused codes into
  requests (`PendingHaveHolders`) in which a request that is storing another code
  has its own on the list it is about to mark. A code that becomes visible takes
  over its request, whose earlier code was marked in the same transaction.
- **Mail.** `MessagesKept` says in which places a message can be at once: only after
  its connection died both at the worker and in the queue. `Owed` is how often a
  waiting message may still be mailed before the next fault; `MailsCounted` keeps
  it and the mails sent within one plus the faults. `ImplementsMailChannel` and
  `NothingForgotten` need `MessagesKept`, for a message that leaves one place must
  not be lost with another.
- **Signup.** Uniqueness is checked when a row is inserted and used when it is
  committed. `AddressesAreClaimed` and `SubjectsAreClaimed` carry it across: who is
  about to commit an address holds the claim on it and no account has it.
  `RowsAreLocked` does the same for the pending row and the attempts read from it, `AccountsAreNew`
  for the identifiers drawn.
- **Waiting in Signup.** Requests ask for a pending row, an address and an identity
  in this order, and wait only for something later than what they hold; a move
  alone holds an address and asks for another. So a circle, followed from any of
  its members, comes to a move, and from there to the holder of the address it
  asks for. That is another move, of another account: the row of an account lets
  one of its moves hold an address at a time (`OnlyMovesWaitInCircles`).
- **Roles.** `StatementsCover`: a role of the user that the DELETE neither passed nor
  has left was given by somebody else since it started. It names a row by the role
  and the time it was opened, since a row that was deleted and inserted again is
  another one.
- **Service.** `FilesInOrder`: the files before the one at hand are recorded, also for
  a backend that a dead process left behind. `AdoptionIsDue`: a schema with an empty
  ledger is older than the ledger, since the file with `tb_user` is not the first
  and the first is recorded before the next is run.
- **Panel.** `OneCallAtATime` follows the cookie through a call: it is the live token,
  or the server has already answered with its successor. `NewestTabHasValue` ties
  the memory of a tab to the cookies it wrote. `FamiliesAreStored` makes the family
  a login opens one that no logout has closed.

Only model-checked: liveness under fairness (`EveryRequestEnds` in `session`, `signup`
and `startup`, `EverythingSettles`, `EveryCallEnds`, `StartsUnlessTorn`,
`ShutdownCompletes`), which is out of the prover's reach, and the properties of
the runs that expect a violation, which are false. `NoCircularWait` of `Session` and
`OnlyMovesWaitInCircles` of `Signup` are the parts of `EveryRequestEnds` that do not
depend on fairness.

## Disagreements without a run

Seen while modelling; the models have the behaviour, no run is spent on it.

- `SetRoles` "replaces" (`identity/admin_postgres.go:136-140`). Two calls that
  overlap can leave the union; `ReplaceUpToOverlap` states what holds. A closing
  interval that would end before it began aborts the call (`HistoryRejects`),
  where `08-history-triggers.sql:45-46` wants history never to fail an operation.
- A new recovery code does not mark the older ones as used
  (`password/postgres.go:46`; `03-seg-tables.sql:75-79` says otherwise), and the
  target of a recovery code is stored and never compared (`:86-88`).
- `adoptExisting` may adopt half a schema, as its comment admits; `ServesWholeSchema`
  excepts what was adopted. A process that dies between a file and its record
  restarts into the same error for ever when the file cannot be executed again.
- `Publish` returns nil for a message that is lost with the socket, where
  `signup/service.go:72-74` wants infrastructure failures returned. A request whose
  message is not published has already overwritten the code mailed before.
- The worker drains a channel that nobody closes, so only SIGKILL or a lost
  connection ends it, and a message in hand when SIGTERM comes is dropped if its
  dial had not finished.
- Enough requests inside a transaction that want a second connection starve the
  pool (`Starved`); only a client that leaves or a kill ends that. A shutdown does
  not: `pool.Close` (`main.go:60`) then waits for connections that are never given
  back, where `openspec/changes/go-api-skeleton/spec.md:78-79` wants requests drained
  "within a 10-second window" and the pool closed "before exit".
- Two accounts that swap addresses, each with a code checked before the other
  moved through another of its codes, wait for each other in
  `emailchange/postgres.go:205-214`; PostgreSQL ends one of them, and its client gets
  a 500. It takes codes that `emailchange/postgres.go:79-80` believes impossible, as
  in the run `codes_newest`.
- After one tab refreshed, another one gets `csrf_invalid` for refresh and for
  logout; a browser that lost the response to a refresh is taken for a thief.
- `API.md:172` says that the panel refreshes without a body; the handler decodes one
  first (`httpapi/auth.go:300`), so an empty body is answered 400 `invalid_json`. `Panel`
  leaves the body out.
- `health.go:74-77` answers 503 for a degraded report, where `probe/probe.go:56-57`
  says that a broker outage does not fail readiness.

## Plan

What is left, most important first.

1. Proofs: who waits for whom in `Service` (the pool is starved only by requests
   that hold a connection); the expected properties behind the violation runs, in
   the form that does hold, such as the bound on the failures that pass the
   threshold.
2. Composition of `Session` with `Account`: the slots of `Account` as the families
   of `Session`.
3. The two disagreements about recovery codes, as runs.

## Not modelled

Validation, CORS, JSON, configuration, probes, the read-only administration
endpoints and the text of mails hold no state that a property depends on.
Argon2id, SHA-256, random generation and JWT signing are pure functions,
abstracted to model values. Token verification of social sign-in is a library
call over the network; its cache is one mutex. `Panel` leaves out the expiry of
tokens and the client that sends its token in the body, which `Session` covers; a
response there stores the cookies and the tab's memory in one step, and a logout
does not clear the memory. With `DB_AUTO_MIGRATE=false` the process serves without
looking at the schema (`main.go:208-211`); `Service` has the default, true, and
`ServesWholeSchema` holds for it only. That the hashes of used codes fill up the
space of codes (`password/postgres.go:54`) is a matter of probabilities.
`Signup` leaves out the notice mailed to an address that has an account, which
changes nothing. The domain tables (`database/init/04`) have no code yet, and the
history triggers of other tables repeat the one in `Roles` over tables nobody
writes concurrently. `Account` leaves out unknown addresses, which leave no trace,
and the e-mail change's lock on the same row, which only delays other writers.
