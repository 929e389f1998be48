------------------------------- MODULE Codes -------------------------------
(***************************************************************************)
(* One-time codes of one account: seg.tb_user_token as it is used by the   *)
(* password recovery (api/internal/password) and by the e-mail change      *)
(* (api/internal/emailchange).                                             *)
(*                                                                         *)
(* A request for a code reads the quota, then stores the code, in separate *)
(* transactions.  Presenting a code runs in one transaction: SELECT ...    *)
(* ORDER BY dt_created_at DESC LIMIT 1 FOR UPDATE takes its snapshot when  *)
(* it starts, waits for the newest unused code of it, and goes on to the   *)
(* next older one when that code has been used meanwhile.                  *)
(*                                                                         *)
(* Rows are numbered by dt_created_at, the start of the transaction that   *)
(* stores them, which need not be the order they are committed in.  The    *)
(* code of a row is its number: hashes are unique, so presenting a code is *)
(* naming a row, or no row at all.  The tb_user row that a consumed code   *)
(* updates is locked from that UPDATE to COMMIT; both are one action here. *)
(***************************************************************************)
EXTENDS Integers, Sequences, FiniteSets

CONSTANTS
    Emails,         \* addresses
    Clients,        \* concurrent requests
    MaxAttempts,    \* wrong codes a row takes (password and emailchange MaxAttempts)
    ResetLimit,     \* security.DefaultLimit, per window
    ChangeLimit,    \* emailchange's own limit, per window
    MaxCodes,       \* bound of the model on the rows ever stored
    None            \* SQL NULL: no address, no lock holder

ASSUME LimitsArePositive ==
    /\ MaxAttempts \in Nat \ {0}
    /\ ResetLimit \in Nat \ {0}
    /\ ChangeLimit \in Nat \ {0}
    /\ MaxCodes \in Nat
ASSUME NoneIsNew == None \notin Emails \cup Clients
ASSUME ClientsAreFinite == IsFiniteSet(Clients)

VARIABLES
    email,      \* committed tx_email of the account
    codes,      \* rows of tb_user_token by dt_created_at, with those being stored
    lock,       \* for each row, the request whose transaction holds it
    pc,         \* where each request stands
    purpose,    \* what the request is about
    addr,       \* the address a request for a code was checked with
    guess,      \* the code a request presents, 0 for one no row has
    seen,       \* rows of the snapshot that the request's statement has not settled
    held,       \* the row a request was given or is storing, 0 for none
    tries       \* nu_attempts of that row when it was read

request == <<purpose, addr, guess, seen, held, tries>>
vars    == <<email, codes, lock, pc, request>>

Purposes == {"reset", "change"}
Stages   == {"idle", "store", "invalidate", "insert", "wait", "check"}

\* How old a row is: within the cooldown, within its lifetime, within the window, or older.
Ages == 0..3

Ids == 1..MaxCodes

Row == [purpose : Purposes, target : Emails, age : Ages, attempts : Nat,
        state : {"begun", "unused", "used"}]

TypeOK ==
    /\ email \in Emails
    /\ codes \in Seq(Row)
    /\ Len(codes) <= MaxCodes
    /\ lock \in [Ids -> Clients \cup {None}]
    /\ pc \in [Clients -> Stages]
    /\ purpose \in [Clients -> Purposes]
    /\ addr \in [Clients -> Emails \cup {None}]
    /\ guess \in [Clients -> {0} \cup Ids]
    /\ seen \in [Clients -> SUBSET DOMAIN codes]
    /\ held \in [Clients -> {0} \cup DOMAIN codes]
    /\ tries \in [Clients -> Nat]
    /\ \A c \in Clients : pc[c] = "check" => held[c] # 0 /\ lock[held[c]] = c

Init ==
    /\ email \in Emails
    /\ codes = <<>>
    /\ lock = [i \in Ids |-> None]
    /\ pc = [c \in Clients |-> "idle"]
    /\ purpose = [c \in Clients |-> "reset"]
    /\ addr = [c \in Clients |-> None]
    /\ guess = [c \in Clients |-> 0]
    /\ seen = [c \in Clients |-> {}]
    /\ held = [c \in Clients |-> 0]
    /\ tries = [c \in Clients |-> 0]

----------------------------------------------------------------------------

\* The committed rows of a purpose.
Stored(p) == {i \in DOMAIN codes : codes[i].purpose = p /\ codes[i].state # "begun"}

Unused(p) == {i \in Stored(p) : codes[i].state = "unused"}

InWindow(p) == {i \in Stored(p) : codes[i].age < 3}

Limit(p) == IF p = "reset" THEN ResetLimit ELSE ChangeLimit

\* Mutant: one request more than the limit.
AllowsOneMore(p) ==
    /\ \A i \in InWindow(p) : codes[i].age # 0
    /\ Cardinality(InWindow(p)) <= Limit(p)

\* Quota.Check: no request within the cooldown, fewer than the limit within the window.
Allows(p) ==
    /\ \A i \in InWindow(p) : codes[i].age # 0
    /\ Cardinality(InWindow(p)) < Limit(p)

NewRow(p, a, s) == [purpose |-> p, target |-> a, age |-> 0, attempts |-> 0, state |-> s]

Expired(i) == codes[i].age >= 2

\* Request c need not wait for row i.
Free(c, i) == lock[i] \in {None, c}

\* The request answers, and its transaction releases what it held.
Done(c) ==
    /\ pc' = [pc EXCEPT ![c] = "idle"]
    /\ lock' = [i \in Ids |-> IF lock[i] = c THEN None ELSE lock[i]]
    /\ purpose' = [purpose EXCEPT ![c] = "reset"]
    /\ addr' = [addr EXCEPT ![c] = None]
    /\ guess' = [guess EXCEPT ![c] = 0]
    /\ seen' = [seen EXCEPT ![c] = {}]
    /\ held' = [held EXCEPT ![c] = 0]
    /\ tries' = [tries EXCEPT ![c] = 0]

----------------------------------------------------------------------------
(* Asking for a code *)

\* RequestReset for the address of the account, or Request with the right password for another
\* address, with the quota not used up.  (Every other request leaves no trace.)
Ask(c, p, a) ==
    /\ pc[c] = "idle"
    /\ (p = "reset") <=> (a = email)
    /\ Allows(p)
    /\ pc' = [pc EXCEPT ![c] = IF p = "reset" THEN "store" ELSE "invalidate"]
    /\ purpose' = [purpose EXCEPT ![c] = p]
    /\ addr' = [addr EXCEPT ![c] = a]
    /\ UNCHANGED <<email, codes, lock, guess, seen, held, tries>>

\* CreateResetToken: one INSERT.
StoreReset(c) ==
    /\ pc[c] = "store"
    /\ Len(codes) < MaxCodes
    /\ codes' = Append(codes, NewRow("reset", addr[c], "unused"))
    /\ Done(c)
    /\ UNCHANGED email

\* Mutant: the codes issued before stay valid.
InvalidateNothing(c) ==
    /\ pc[c] = "invalidate"
    /\ Len(codes) < MaxCodes
    /\ codes' = Append(codes, NewRow("change", addr[c], "begun"))
    /\ held' = [held EXCEPT ![c] = Len(codes) + 1]
    /\ seen' = [seen EXCEPT ![c] = {}]
    /\ pc' = [pc EXCEPT ![c] = "insert"]
    /\ UNCHANGED <<email, lock, purpose, addr, guess, tries>>

\* CreateChangeToken: the transaction begins, which dates its row, and the UPDATE of the unused
\* codes starts, with the rows committed by now.
Invalidate(c) ==
    /\ pc[c] = "invalidate"
    /\ Len(codes) < MaxCodes
    /\ codes' = Append(codes, NewRow("change", addr[c], "begun"))
    /\ held' = [held EXCEPT ![c] = Len(codes) + 1]
    /\ seen' = [seen EXCEPT ![c] = Unused("change")]
    /\ pc' = [pc EXCEPT ![c] = "insert"]
    /\ UNCHANGED <<email, lock, purpose, addr, guess, tries>>

\* It has waited for each of them and marked them; INSERT and COMMIT follow.
StoreChange(c) ==
    /\ pc[c] = "insert"
    /\ \A i \in seen[c] : Free(c, i)
    /\ codes' = [i \in DOMAIN codes |->
                    CASE i \in seen[c] -> [codes[i] EXCEPT !.state = "used"]
                      [] i = held[c]   -> [codes[i] EXCEPT !.state = "unused"]
                      [] OTHER         -> codes[i]]
    /\ Done(c)
    /\ UNCHANGED email

----------------------------------------------------------------------------
(* Presenting a code *)

\* Reset or Verify: the SELECT starts.  The code of a used row is as good as no row's.
Present(c, p, g) ==
    /\ pc[c] = "idle"
    /\ Unused(p) # {}
    /\ pc' = [pc EXCEPT ![c] = "wait"]
    /\ purpose' = [purpose EXCEPT ![c] = p]
    /\ guess' = [guess EXCEPT ![c] = g]
    /\ seen' = [seen EXCEPT ![c] = Unused(p)]
    /\ UNCHANGED <<email, codes, lock, addr, held, tries>>

\* The row the SELECT waits for: the newest of its snapshot that it has not passed over.
Newest(c, i) == i \in seen[c] /\ \A j \in seen[c] : j <= i

\* Mutant: SELECT without FOR UPDATE.
TakeWithoutLock(c, i) ==
    /\ pc[c] = "wait"
    /\ Newest(c, i)
    /\ Free(c, i)
    /\ codes[i].state = "unused"
    /\ lock' = lock
    /\ held' = [held EXCEPT ![c] = i]
    /\ tries' = [tries EXCEPT ![c] = codes[i].attempts]
    /\ seen' = [seen EXCEPT ![c] = {}]
    /\ pc' = [pc EXCEPT ![c] = "check"]
    /\ UNCHANGED <<email, codes, purpose, addr, guess>>

\* Mutant: the row is taken as the snapshot has it, without the second look after the wait.
TakeAsSeen(c, i) ==
    /\ pc[c] = "wait"
    /\ Newest(c, i)
    /\ Free(c, i)
    /\ lock' = [lock EXCEPT ![i] = c]
    /\ held' = [held EXCEPT ![c] = i]
    /\ tries' = [tries EXCEPT ![c] = codes[i].attempts]
    /\ seen' = [seen EXCEPT ![c] = {}]
    /\ pc' = [pc EXCEPT ![c] = "check"]
    /\ UNCHANGED <<email, codes, purpose, addr, guess>>

\* The row is still unused: it is locked and read in its newest version.
Take(c, i) ==
    /\ pc[c] = "wait"
    /\ Newest(c, i)
    /\ Free(c, i)
    /\ codes[i].state = "unused"
    /\ lock' = [lock EXCEPT ![i] = c]
    /\ held' = [held EXCEPT ![c] = i]
    /\ tries' = [tries EXCEPT ![c] = codes[i].attempts]
    /\ seen' = [seen EXCEPT ![c] = {}]
    /\ pc' = [pc EXCEPT ![c] = "check"]
    /\ UNCHANGED <<email, codes, purpose, addr, guess>>

\* The row was used meanwhile: the SELECT goes on to the next older one.
PassOver(c, i) ==
    /\ pc[c] = "wait"
    /\ Newest(c, i)
    /\ Free(c, i)
    /\ codes[i].state = "used"
    /\ seen' = [seen EXCEPT ![c] = @ \ {i}]
    /\ UNCHANGED <<email, codes, lock, pc, purpose, addr, guess, held, tries>>

\* No row is left: ErrInvalidCode.
NoCode(c) ==
    /\ pc[c] = "wait"
    /\ seen[c] = {}
    /\ Done(c)
    /\ UNCHANGED <<email, codes>>

\* Too old, or too many wrong codes: rolled back.
Reject(c) ==
    /\ pc[c] = "check"
    /\ Expired(held[c]) \/ tries[c] >= MaxAttempts
    /\ Done(c)
    /\ UNCHANGED <<email, codes>>

\* The row may be tried.
Allowed(c) == ~Expired(held[c]) /\ tries[c] < MaxAttempts

WrongCode(c) ==
    /\ pc[c] = "check"
    /\ Allowed(c)
    /\ guess[c] # held[c]
    /\ codes' = [codes EXCEPT ![held[c]].attempts = @ + 1]
    /\ Done(c)
    /\ UNCHANGED email

\* The code is consumed.  An e-mail change also moves the account to the address it was sent to;
\* what a recovery does to the password and the sessions is in Account and Session.
RightCode(c) ==
    /\ pc[c] = "check"
    /\ Allowed(c)
    /\ guess[c] = held[c]
    /\ codes' = [codes EXCEPT ![held[c]].state = "used"]
    /\ email' = IF purpose[c] = "change" THEN codes[held[c]].target ELSE email
    /\ Done(c)

----------------------------------------------------------------------------
(* Failure and time *)

\* A statement fails, the address is taken by now, or the client goes away: rolled back.
Fail(c) ==
    /\ pc[c] # "idle"
    /\ Done(c)
    /\ UNCHANGED <<email, codes>>

\* Time passes the cooldown, the lifetime or the window of a row, for older rows first.
Age(i) ==
    /\ codes[i].age < 3
    /\ \A j \in DOMAIN codes : j < i => codes[j].age > codes[i].age
    /\ codes' = [codes EXCEPT ![i].age = @ + 1]
    /\ UNCHANGED <<email, lock, pc, request>>

Next ==
    \/ \E c \in Clients, p \in Purposes, a \in Emails : Ask(c, p, a)
    \/ \E c \in Clients : StoreReset(c)
    \/ \E c \in Clients : Invalidate(c)
    \/ \E c \in Clients : StoreChange(c)
    \/ \E c \in Clients, p \in Purposes : \E g \in {0} \cup Unused(p) : Present(c, p, g)
    \/ \E c \in Clients, i \in DOMAIN codes : Take(c, i)
    \/ \E c \in Clients, i \in DOMAIN codes : PassOver(c, i)
    \/ \E c \in Clients : NoCode(c)
    \/ \E c \in Clients : Reject(c)
    \/ \E c \in Clients : WrongCode(c)
    \/ \E c \in Clients : RightCode(c)
    \/ \E c \in Clients : Fail(c)
    \/ \E i \in DOMAIN codes : Age(i)

Spec == Init /\ [][Next]_vars

----------------------------------------------------------------------------
(* Properties *)

\* However many requests present codes at once, a row takes at most MaxAttempts wrong ones
\* (Reset and Verify, which read and count the attempts under the lock of the row).
AttemptsBounded == \A i \in DOMAIN codes : codes[i].attempts <= MaxAttempts

\* A used code is inert: it takes no further attempt, it takes no effect, it stays used
\* (Reset and Verify, "Vence en 10 minutos y sirve una sola vez").
UsedCodesAreInert ==
    [][\A i \in DOMAIN codes : codes[i].state = "used" =>
        /\ codes'[i].state = "used"
        /\ codes'[i].attempts = codes[i].attempts
        /\ \A c \in Clients : held[c] = i => ~RightCode(c)]_vars

\* The quota is read before the code is stored, so requests at once can exceed it, each by one
\* (security/limit.go, Check; password and emailchange, Request).
IssuesBounded ==
    \A p \in Purposes :
        Cardinality(InWindow(p)) <= Limit(p) + Cardinality(Clients) - 1

\* Unused codes for an e-mail change come from requests that were under way at once: there are
\* never more than there are requests, and with one request at a time there is one
\* (emailchange/postgres.go, CreateChangeToken).
PendingChangesBounded == Cardinality(Unused("change")) <= Cardinality(Clients)

\* A request that asks for a code remembers a purpose and an address that fit its stage, and
\* one that is storing a code is the only one to know the row.
StoringFollowsStages ==
    \A c \in Clients :
        /\ pc[c] = "store" => purpose[c] = "reset" /\ addr[c] \in Emails
        /\ pc[c] = "invalidate" => purpose[c] = "change" /\ addr[c] \in Emails
        /\ pc[c] = "insert" =>
            /\ purpose[c] = "change" /\ held[c] # 0
            /\ codes[held[c]].purpose = "change" /\ codes[held[c]].state = "begun"
            /\ \A d \in Clients \ {c} : pc[d] = "insert" => held[d] # held[c]

\* What a request has read of the row it was given is still so, and a snapshot has no rows
\* that were not committed.
ReadingsHold ==
    \A c \in Clients :
        /\ pc[c] = "check" =>
            codes[held[c]].state = "unused" /\ codes[held[c]].attempts = tries[c]
        /\ \A i \in seen[c] : codes[i].state # "begun"

\* Requests that count against the quota and whose code is not stored yet.
Asking(p) == {c \in Clients : pc[c] \in {"store", "invalidate", "insert"} /\ purpose[c] = p}

IssuesCounted ==
    \A p \in Purposes :
        Cardinality(InWindow(p)) + Cardinality(Asking(p)) <= Limit(p) + Cardinality(Clients) - 1

\* The unused codes for an e-mail change have a request each that may have stored it: a request
\* that is storing another one is about to mark its own.
PendingHaveHolders ==
    \E f \in [Unused("change") -> Clients] :
        /\ \A i, j \in Unused("change") : f[i] = f[j] => i = j
        /\ \A i \in Unused("change") : pc[f[i]] = "insert" => i \in seen[f[i]]

\* The inductive invariant: what locks and snapshots guarantee between statements.
IInv ==
    /\ TypeOK
    /\ AttemptsBounded
    /\ StoringFollowsStages
    /\ ReadingsHold
    /\ IssuesCounted
    /\ PendingHaveHolders

\* "Only the newest code can ever be consumed, so a stale one cannot move the account later"
\* (emailchange/postgres.go:79-80).
OnlyNewestChangeConsumed ==
    [][\A c \in Clients : RightCode(c) /\ purpose[c] = "change" =>
        \A j \in Stored("change") : j <= held[c]]_vars

============================================================================
