---------------------------- MODULE SignupProofs ----------------------------
(* Theorems about Signup, for every set of addresses, subjects and requests. *)
EXTENDS Signup, NaturalsInduction, WellFoundedInduction, TLAPS

----------------------------------------------------------------------------
(* A fresh account *)

\* The order of the naturals as a relation.
Below == {pair \in Nat \X Nat : pair[1] < pair[2]}

\* A set of naturals has a smallest member.
LEMMA SmallestOf ==
    ASSUME NEW S \in SUBSET Nat, S # {}
    PROVE  \E m \in S : \A k \in S : m <= k
<1>1. IsWellFoundedOn(Below, Nat)
    BY NatLessThanWellFounded DEF OpToRel, Below
<1>2. PICK m \in S : \A k \in S : <<k, m>> \notin Below
    BY <1>1, WFMin
<1>3. ASSUME NEW k \in S PROVE m <= k
    <2>1. k \in Nat /\ m \in Nat
        OBVIOUS
    <2>2. ~(k < m)
        BY <1>2, <2>1 DEF Below
    <2>3. QED
        BY <2>1, <2>2
<1>4. QED
    BY <1>2, <1>3

\* gen_random_uuid returns an account nobody has or is about to create.
LEMMA FreshIsUnused ==
    ASSUME Unused # {}
    PROVE  FreshAccount \in Accounts \ (Created \cup {made[c] : c \in Clients})
<1>1. Unused \in SUBSET Nat
    BY DEF Unused, Accounts
<1>2. \E m \in Unused : \A k \in Unused : m <= k
    BY <1>1, SmallestOf
<1>3. QED
    BY <1>2 DEF FreshAccount, Min, Unused

----------------------------------------------------------------------------
(* The invariant by client *)

Tables ==
    /\ pending \in [Emails -> Pending \cup {None}]
    /\ accounts \in [Accounts -> Account \cup {None}]
    /\ identity \in [Subjects -> Accounts \cup {None}]
    /\ asked \in 0..MaxRequests

Locks ==
    /\ lock \in [Emails -> Clients \cup {None}]
    /\ claim \in [Emails -> Clients \cup {None}]
    /\ idClaim \in [Subjects -> Clients \cup {None}]

Locals ==
    /\ pc \in [Clients -> Stages]
    /\ email \in [Clients -> Emails \cup {None}]
    /\ key \in [Clients -> Requests \cup {WrongCode} \cup Subjects \cup {None}]
    /\ made \in [Clients -> Accounts \cup {None}]
    /\ row \in [Clients -> Pending \cup {None}]

\* What holds of one client.
ArgumentsOf(c) ==
    /\ pc[c] = "idle" => made[c] = None
    /\ pc[c] \in {"upsert", "publish"} => key[c] \in Requests
    /\ pc[c] \in Linking => key[c] \in Subjects
    /\ pc[c] \in {"upsert", "publish", "pending"} \cup Verifying \cup Moving => email[c] \in Emails

LockOf(c) == \A e \in Emails : lock[e] = c <=> pc[c] \in Verifying /\ email[c] = e

RowOf(c) ==
    /\ pc[c] \in Verifying =>
        /\ row[c] # None
        /\ pending[email[c]] # None
        /\ row[c].by = pending[email[c]].by
        /\ row[c].attempts = pending[email[c]].attempts
    /\ pc[c] \in {"promote", "commitVerify"} => key[c] = row[c].by

AddressOf(c) ==
    /\ pc[c] \in Claiming /\ email[c] # None =>
        claim[email[c]] = c /\ \A a \in Created : accounts[a].email = email[c] =>
                                pc[c] = "commitMove" /\ a = made[c]
    /\ pc[c] \in Holding => claim[accounts[made[c]].email] = c

SubjectOf(c) == pc[c] = "commitSocial" => idClaim[key[c]] = c /\ identity[key[c]] = None

ClaimOf(c) ==
    /\ \A e \in Emails : claim[e] = c => pc[c] \in Claiming \cup Holding
    /\ \A s \in Subjects : idClaim[s] = c => pc[c] = "commitSocial"

AccountOf(c) ==
    /\ pc[c] \in Creating =>
        /\ made[c] \in Accounts \ Created
        /\ \A d \in Clients \ {c} : made[d] # made[c]
    /\ pc[c] \in Moving => made[c] \in Created /\ accounts[made[c]].email \in Emails

SessionOf(c) ==
    pc[c] = "issue" =>
        /\ made[c] \in Created
        /\ key[c] \in {accounts[made[c]].by, accounts[made[c]].sub}

ClientOK(c) ==
    /\ ArgumentsOf(c)
    /\ LockOf(c)
    /\ RowOf(c)
    /\ AddressOf(c)
    /\ SubjectOf(c)
    /\ ClaimOf(c)
    /\ AccountOf(c)
    /\ SessionOf(c)

\* The inductive invariant, rearranged.
Good ==
    /\ Tables /\ Locks /\ Locals
    /\ \A c \in Clients : ClientOK(c)
    /\ MailIsOfRequests
    /\ AccountsConsistent

\* The holder of a pending row is one that verifies it.
LEMMA GoodIsIInv == Good <=> IInv
<1> DEFINE Claims == \A c \in Clients : ClaimOf(c)
<1>1. (\A c \in Clients : ClientOK(c)) <=>
        /\ StagesHaveArguments /\ RowsAreLocked /\ AddressesAreClaimed
        /\ SubjectsAreClaimed /\ Claims /\ AccountsAreNew /\ SessionsOpenOwnAccount
    BY DEF ClientOK, ArgumentsOf, LockOf, RowOf, AddressOf, SubjectOf, ClaimOf, AccountOf, SessionOf,
        StagesHaveArguments, RowsAreLocked, AddressesAreClaimed, SubjectsAreClaimed, AccountsAreNew,
        SessionsOpenOwnAccount
<1>6. Locks => (Claims <=> ClaimsFollowStages)
    BY SignupAssumption DEF Locks, ClaimOf, ClaimsFollowStages
<1>2. TypeOK => Tables /\ Locks /\ Locals
    BY DEF TypeOK, Tables, Locks, Locals
<1>3. Locks /\ RowsAreLocked =>
        \A e \in Emails :
            lock[e] # None => pending[e] # None /\ pc[lock[e]] \in {"judge", "promote", "commitVerify"}
    BY DEF Locks, RowsAreLocked, Verifying
<1>4. Tables /\ Locks /\ Locals /\ RowsAreLocked => TypeOK
    BY <1>3 DEF TypeOK, Tables, Locks, Locals
<1>5. QED
    BY <1>1, <1>2, <1>4, <1>6 DEF Good, IInv

----------------------------------------------------------------------------
(* What a step leaves alone *)

LocalsKept(d) ==
    /\ pc'[d] = pc[d] /\ email'[d] = email[d] /\ key'[d] = key[d]
    /\ made'[d] = made[d] /\ row'[d] = row[d]

LocksKept(d) ==
    /\ \A e \in Emails : (lock'[e] = d <=> lock[e] = d) /\ (claim'[e] = d <=> claim[e] = d)
    /\ \A s \in Subjects : idClaim'[s] = d <=> idClaim[s] = d

\* The rows d has locked or claimed, the account it moves among them.
RowsKept(d) ==
    /\ \A e \in Emails :
        /\ lock[e] = d /\ pending[e] # None =>
            /\ pending'[e] # None
            /\ pending'[e].by = pending[e].by /\ pending'[e].attempts = pending[e].attempts
        /\ claim[e] = d =>
            \A a \in Created' : accounts'[a].email = e => a \in Created /\ accounts[a].email = e
    /\ pc[d] \in Holding => accounts'[made[d]].email = accounts[made[d]].email
    /\ \A s \in Subjects : idClaim[s] = d => identity'[s] = identity[s]

\* Accounts stay, and so does what opens them; they may move to another address.
AccountsKept ==
    \A a \in Created :
        /\ a \in Created' /\ accounts'[a].by = accounts[a].by /\ accounts'[a].sub = accounts[a].sub
        /\ accounts[a].email \in Emails => accounts'[a].email \in Emails

\* The account d is to create is still nobody else's.
MadeKept(d) ==
    pc[d] \in Creating => made[d] \notin Created' /\ \A x \in Clients \ {d} : made'[x] # made[d]

\* A client whose variables, locks and rows a step leaves alone is well after it.
LEMMA Bystander ==
    ASSUME Tables, Locks, Locals, NEW d \in Clients, ClientOK(d),
           LocalsKept(d), LocksKept(d), RowsKept(d), AccountsKept, MadeKept(d)
    PROVE  ClientOK(d)'
<1>1. ArgumentsOf(d)'
    BY DEF ClientOK, ArgumentsOf, LocalsKept
<1>2. LockOf(d)'
    BY DEF ClientOK, LockOf, LocalsKept, LocksKept
<1>3. RowOf(d)'
    <2>1. pc[d] \in Verifying => email[d] \in Emails /\ lock[email[d]] = d
        BY DEF ClientOK, LockOf, ArgumentsOf
    <2>2. QED
        BY <2>1 DEF ClientOK, RowOf, LocalsKept, RowsKept, Verifying
<1>4. AddressOf(d)'
    <2>1. email[d] # None => email[d] \in Emails
        BY DEF Locals
    <2>2. pc[d] \in Holding => accounts[made[d]].email \in Emails
        BY DEF ClientOK, AccountOf, Moving, Holding
    <2>3. ASSUME pc[d] \in Claiming, email[d] # None
          PROVE  /\ claim'[email[d]] = d
                 /\ \A a \in Created' : accounts'[a].email = email[d] => pc[d] = "commitMove" /\ a = made[d]
        BY <2>1, <2>3 DEF ClientOK, AddressOf, LocksKept, RowsKept
    <2>4. pc[d] \in Holding => claim'[accounts'[made[d]].email] = d
        BY <2>2 DEF ClientOK, AddressOf, LocksKept, RowsKept
    <2>5. QED
        BY <2>3, <2>4 DEF AddressOf, LocalsKept
<1>5. SubjectOf(d)'
    <2>1. pc[d] = "commitSocial" => key[d] \in Subjects
        BY DEF ClientOK, ArgumentsOf, Linking
    <2>2. QED
        BY <2>1 DEF ClientOK, SubjectOf, LocalsKept, LocksKept, RowsKept
<1>6. AccountOf(d)'
    BY DEF ClientOK, AccountOf, LocalsKept, AccountsKept, MadeKept
<1>7. SessionOf(d)'
    BY DEF ClientOK, SessionOf, LocalsKept, AccountsKept
<1>8. ClaimOf(d)'
    BY DEF ClientOK, ClaimOf, LocalsKept, LocksKept
<1>9. QED
    BY <1>1, <1>2, <1>3, <1>4, <1>5, <1>6, <1>7, <1>8 DEF ClientOK

\* So is every client but the one that acts.
Bystanders(c) ==
    \A d \in Clients \ {c} :
        LocalsKept(d) /\ LocksKept(d) /\ RowsKept(d) /\ MadeKept(d)

\* A step is good when it is for the client that acts and leaves the others alone.
LEMMA GoodStep ==
    ASSUME Good, NEW c \in Clients,
           Tables', Locks', Locals', MailIsOfRequests', AccountsConsistent', ClientOK(c)',
           AccountsKept, Bystanders(c)
    PROVE  Good'
<1>1. ASSUME NEW d \in Clients \ {c} PROVE ClientOK(d)'
    BY Bystander DEF Good, Bystanders
<1>2. \A d \in Clients : ClientOK(d)'
    BY <1>1
<1>3. QED
    BY <1>2 DEF Good

\* Tables that did not change.
LEMMA SameRows ==
    ASSUME Good, UNCHANGED rows
    PROVE  /\ AccountsKept /\ AccountsConsistent' /\ Created' = Created
           /\ \A e : Exists(e)' <=> Exists(e)
           /\ \A d \in Clients : RowsKept(d)
           /\ asked' \in 0..MaxRequests => Tables'
<1>1. UNCHANGED <<pending, accounts, identity>>
    BY DEF rows
<1>2. Created' = Created /\ \A e : Exists(e)' <=> Exists(e)
    BY <1>1 DEF Created, Exists
<1>3. QED
    BY <1>1, <1>2 DEF AccountsKept, AccountsConsistent, RowsKept, Tables, Good

\* The end of a request, whatever it does to the tables.
LEMMA EndFrees ==
    ASSUME Good, NEW c \in Clients, End(c)
    PROVE  /\ Locks' /\ Locals' /\ ClientOK(c)'
           /\ \A d \in Clients \ {c} :
                /\ LocalsKept(d) /\ LocksKept(d)
                /\ pc[d] \in Creating => \A x \in Clients \ {d} : made'[x] # made[d]
<1> USE SignupAssumption
<1>1. Locals
    BY DEF Good
<1>2. Locks
    BY DEF Good
<1>3. Locals'
    BY <1>1 DEF End, Goto, Locals, Stages
<1>4. /\ pc'[c] = "idle" /\ made'[c] = None
      /\ \A d \in Clients \ {c} : LocalsKept(d)
    BY <1>1 DEF End, Goto, Locals, LocalsKept
<1>5. /\ \A e \in Emails : /\ lock'[e] = IF lock[e] = c THEN None ELSE lock[e]
                           /\ claim'[e] = IF claim[e] = c THEN None ELSE claim[e]
      /\ \A s \in Subjects : idClaim'[s] = IF idClaim[s] = c THEN None ELSE idClaim[s]
      /\ DOMAIN lock = Emails /\ DOMAIN claim = Emails /\ DOMAIN idClaim = Subjects
    BY <1>2 DEF End, Release, Drop, Locks
<1>6. Locks'
    BY <1>2, <1>5 DEF Locks, End, Release, Drop
<1>7. \A d \in Clients \ {c} : LocksKept(d)
    BY <1>5 DEF LocksKept
<1>8. ASSUME NEW d \in Clients \ {c}, pc[d] \in Creating, NEW x \in Clients \ {d}
      PROVE  made'[x] # made[d]
    <2>1. made[d] \in Accounts /\ made[x] # made[d]
        BY <1>8 DEF Good, ClientOK, AccountOf
    <2>2. made'[x] = made[x] \/ made'[x] = None
        BY <1>4 DEF LocalsKept
    <2>3. QED
        BY <2>1, <2>2 DEF Accounts
<1>9. ClientOK(c)'
    <2>1. LockOf(c)'
        BY <1>4, <1>5 DEF LockOf, Verifying
    <2>2. ClaimOf(c)'
        BY <1>5 DEF ClaimOf
    <2>3. QED
        BY <1>4, <2>1, <2>2 DEF ClientOK, ArgumentsOf, RowOf, AddressOf, SubjectOf, AccountOf, SessionOf,
            Linking, Verifying, Moving, Creating, Claiming, Holding
<1>10. QED
    BY <1>3, <1>4, <1>6, <1>7, <1>8, <1>9

\* A request that ends and has changed nothing.
LEMMA EndGood ==
    ASSUME Good, NEW c \in Clients, End(c), UNCHANGED <<rows, asked>>, MailIsOfRequests'
    PROVE  Good'
<1>1. /\ Locks' /\ Locals' /\ ClientOK(c)'
      /\ \A d \in Clients \ {c} :
            /\ LocalsKept(d) /\ LocksKept(d)
            /\ pc[d] \in Creating => \A x \in Clients \ {d} : made'[x] # made[d]
    BY EndFrees
<1>2. /\ AccountsKept /\ AccountsConsistent' /\ Created' = Created /\ Tables'
      /\ \A d \in Clients : RowsKept(d)
    BY SameRows DEF Good, Tables
<1>3. Bystanders(c)
    BY <1>1, <1>2 DEF Bystanders, MadeKept, Good, ClientOK, AccountOf
<1>4. QED
    BY <1>1, <1>2, <1>3, GoodStep

\* A request that begins.
LEMMA BeginGood ==
    ASSUME Good, NEW c \in Clients,
           NEW stage \in {"upsert", "pending", "insert", "move", "issue"},
           NEW e \in Emails \cup {None},
           NEW k \in Requests \cup {WrongCode} \cup Subjects \cup {None},
           NEW a \in Accounts \cup {None},
           Begin(c, stage, e, k, a), asked' \in 0..MaxRequests,
           stage \in {"upsert", "pending", "move"} => e \in Emails,
           stage = "upsert" => k \in Requests /\ a = None,
           stage = "insert" => k \in Subjects,
           stage \in {"pending", "insert"} => a \in Accounts \ (Created \cup {made[d] : d \in Clients}),
           stage \in {"move", "issue"} => a \in Created,
           stage = "move" => accounts[a].email \in Emails,
           stage = "issue" => k \in {accounts[a].by, accounts[a].sub}
    PROVE  Good'
<1> USE SignupAssumption
<1>1. /\ Locals /\ Locks /\ pc[c] = "idle"
      /\ UNCHANGED <<rows, locks, mail, row>>
    BY DEF Good, Begin
<1>2. UNCHANGED <<lock, claim, idClaim, waiting, mailed>>
    BY <1>1 DEF locks, mail
<1>3. Locals'
    BY <1>1 DEF Begin, Goto, Locals, Stages
<1>4. Locks' /\ MailIsOfRequests'
    BY <1>1, <1>2 DEF Locks, MailIsOfRequests, Good
<1>5. /\ pc'[c] = stage /\ email'[c] = e /\ key'[c] = k /\ made'[c] = a
      /\ \A d \in Clients \ {c} : LocalsKept(d)
    BY <1>1 DEF Begin, Goto, Locals, LocalsKept
<1>6. /\ AccountsKept /\ AccountsConsistent' /\ Created' = Created /\ Tables'
      /\ \A d \in Clients : RowsKept(d)
    BY <1>1, SameRows
<1>7. \A d \in Clients : LocksKept(d)
    BY <1>2 DEF LocksKept
<1>8. \A d \in Clients \ {c} : MadeKept(d)
    <2> SUFFICES ASSUME NEW d \in Clients \ {c}, pc[d] \in Creating, NEW x \in Clients \ {d}
                 PROVE  made[d] \notin Created' /\ made'[x] # made[d]
        BY DEF MadeKept
    <2>1. made[d] \in Accounts \ Created /\ made[x] # made[d]
        BY DEF Good, ClientOK, AccountOf
    <2>2. CASE x # c
        BY <1>5, <1>6, <2>1, <2>2 DEF LocalsKept
    <2>3. CASE x = c
        BY <1>5, <1>6, <2>1, <2>3 DEF Accounts
    <2>4. QED
        BY <2>2, <2>3
<1>9. ClientOK(c)'
    <2>1. ArgumentsOf(c)'
        BY <1>5 DEF ArgumentsOf, Linking, Verifying, Moving, Holding
    <2>2. LockOf(c)'
        BY <1>1, <1>2, <1>5 DEF LockOf, Verifying, Good, ClientOK
    <2>3. RowOf(c)' /\ AddressOf(c)' /\ SubjectOf(c)'
        BY <1>5 DEF RowOf, AddressOf, SubjectOf, ClaimOf, Verifying, Claiming, Holding
    <2>4. AccountOf(c)'
        <3>1. stage \in {"pending", "insert"} => \A d \in Clients \ {c} : made'[d] # a
            BY <1>5 DEF LocalsKept
        <3>2. stage \in Creating <=> stage \in {"pending", "insert"}
            BY DEF Creating, Verifying, Linking
        <3>3. stage \in Moving <=> stage = "move"
            BY DEF Moving, Holding
        <3>4. QED
            BY <1>1, <1>5, <1>6, <3>1, <3>2, <3>3 DEF AccountOf, rows
    <2>5. SessionOf(c)'
        BY <1>1, <1>5, <1>6 DEF SessionOf, rows
    <2>6. ClaimOf(c)'
        BY <1>1, <1>2, <1>5 DEF ClaimOf, Good, ClientOK, Claiming, Holding
    <2>7. QED
        BY <2>1, <2>2, <2>3, <2>4, <2>5, <2>6 DEF ClientOK
<1>10. QED
    BY <1>3, <1>4, <1>5, <1>6, <1>7, <1>8, <1>9, GoodStep DEF Bystanders

----------------------------------------------------------------------------
(* The steps of a request *)

\* The first step of a request.
LEMMA StartStep ==
    ASSUME Good, NEW c \in Clients, Start(c)
    PROVE  Good'
<1> USE SignupAssumption
<1>1. Tables /\ mailed \subseteq Requests
    BY DEF Good, MailIsOfRequests
<1>2. ASSUME NEW e \in Emails, Request(c, e) PROVE Good'
    <2> DEFINE k == asked + 1
    <2>1. k \in Requests /\ asked' \in 0..MaxRequests
        BY <1>1, <1>2 DEF Request, Tables, Requests
    <2>2. PICK n \in Requests : n = k
        BY <2>1
    <2>3. Begin(c, "upsert", e, n, None)
        BY <1>2, <2>2 DEF Request, Begin
    <2>4. QED
        BY <2>1, <2>3, BeginGood
<1>3. ASSUME NEW e \in Emails, NEW code \in mailed \cup {WrongCode}, Verify(c, e, code) PROVE Good'
    <2>1. PICK a \in Accounts \ (Created \cup {made[d] : d \in Clients}) : a = FreshAccount
        BY <1>3, FreshIsUnused DEF Verify
    <2>2. Begin(c, "pending", e, code, a)
        BY <1>3, <2>1 DEF Verify, Begin
    <2>3. asked' \in 0..MaxRequests
        BY <1>1, <1>3 DEF Verify, Tables
    <2>4. QED
        BY <1>1, <2>2, <2>3, BeginGood
<1>4. ASSUME NEW s \in Subjects, Recognise(c, s) PROVE Good'
    <2>1. identity[s] \in Accounts
        BY <1>1, <1>4 DEF Recognise, Tables
    <2>2. PICK a \in Accounts : a = identity[s]
        BY <2>1
    <2>3. a \in Created /\ accounts[a].sub = s
        BY <2>2 DEF Good, AccountsConsistent
    <2>4. Begin(c, "issue", None, s, a)
        BY <1>4, <2>2 DEF Recognise, Begin
    <2>5. asked' \in 0..MaxRequests
        BY <1>1, <1>4 DEF Recognise, Tables
    <2>6. QED
        BY <2>3, <2>4, <2>5, BeginGood
<1>5. ASSUME NEW s \in Subjects, NEW e \in Emails \cup {None}, FirstSight(c, s, e) PROVE Good'
    <2>1. PICK a \in Accounts \ (Created \cup {made[d] : d \in Clients}) : a = FreshAccount
        BY <1>5, FreshIsUnused DEF FirstSight
    <2>2. Begin(c, "insert", e, s, a)
        BY <1>5, <2>1 DEF FirstSight, Begin
    <2>3. asked' \in 0..MaxRequests
        BY <1>1, <1>5 DEF FirstSight, Tables
    <2>4. QED
        BY <2>2, <2>3, BeginGood
<1>6. ASSUME NEW a \in Accounts, NEW e \in Emails, CheckAddress(c, a, e) PROVE Good'
    <2>1. /\ Begin(c, "move", e, None, a) /\ a \in Created /\ accounts[a].email \in Emails
          /\ asked' \in 0..MaxRequests
        BY <1>1, <1>6 DEF CheckAddress, Created, Tables, Account
    <2>2. QED
        BY <2>1, BeginGood
<1>7. QED
    BY <1>2, <1>3, <1>4, <1>5, <1>6 DEF Start, startSignup, verifySignup, socialLogin, verifyEmailChange

\* The last step of a request that changes no table.
LEMMA EndStep ==
    ASSUME Good, NEW c \in Clients,
           \/ NoPending(c) \/ Reject(c) \/ PromoteFails(c) \/ LinkFails(c) \/ SetEmailFails(c)
           \/ Issue(c) \/ DeadlockVictim(c) \/ Fail(c) \/ Publish(c)
    PROVE  Good'
<1>1. CASE Publish(c)
    <2>1. key[c] \in Requests
        BY <1>1 DEF Publish, Good, ClientOK, ArgumentsOf
    <2>2. MailIsOfRequests'
        BY <1>1, <2>1 DEF Publish, Channel!Accept, MailIsOfRequests, Good
    <2>3. QED
        BY <1>1, <2>2, EndGood DEF Publish
<1>2. CASE ~Publish(c)
    <2>1. End(c) /\ UNCHANGED <<rows, asked, mail>>
        BY <1>2 DEF NoPending, Reject, PromoteFails, LinkFails, SetEmailFails, Issue, DeadlockVictim, Fail
    <2>2. MailIsOfRequests'
        BY <2>1 DEF mail, MailIsOfRequests, Good
    <2>3. QED
        BY <2>1, <2>2, EndGood
<1>3. QED
    BY <1>1, <1>2

\* A step that only moves its client on.
LEMMA MiddleGood ==
    ASSUME Good, NEW c \in Clients, UNCHANGED <<rows, asked, mail>>,
           Locks', Locals', ClientOK(c)', made' = made,
           \A d \in Clients \ {c} : LocalsKept(d) /\ LocksKept(d)
    PROVE  Good'
<1>1. /\ AccountsKept /\ AccountsConsistent' /\ Created' = Created /\ Tables'
      /\ \A d \in Clients : RowsKept(d)
    BY SameRows DEF Good, Tables
<1>2. MailIsOfRequests'
    BY DEF mail, MailIsOfRequests, Good
<1>3. \A d \in Clients \ {c} : MadeKept(d)
    BY <1>1 DEF MadeKept, Good, ClientOK, AccountOf
<1>4. QED
    BY <1>1, <1>2, <1>3, GoodStep DEF Bystanders

\* The verification has the pending row.
LEMMA LockPendingStep ==
    ASSUME Good, NEW c \in Clients, LockPending(c)
    PROVE  Good'
<1> USE SignupAssumption
<1>1. /\ Tables /\ Locks /\ Locals /\ ClientOK(c) /\ pc[c] = "pending"
      /\ email[c] \in Emails /\ lock[email[c]] = None
      /\ pending[email[c]] # None /\ pending[email[c]] \in Pending
    BY DEF LockPending, Good, ClientOK, ArgumentsOf, Tables
<1>2. /\ UNCHANGED <<rows, asked, claim, idClaim, mail, email, key, made>>
      /\ lock' = [lock EXCEPT ![email[c]] = c]
      /\ row' = [row EXCEPT ![c] = pending[email[c]]]
      /\ pc' = [pc EXCEPT ![c] = "judge"]
    BY DEF LockPending, Goto
<1>3. Locks' /\ Locals'
    BY <1>1, <1>2 DEF Locks, Locals, Stages
<1>4. /\ pc'[c] = "judge" /\ row'[c] = pending[email[c]] /\ pending' = pending
      /\ \A d \in Clients \ {c} : LocalsKept(d)
    BY <1>1, <1>2 DEF Locals, LocalsKept, rows
<1>5. \A e \in Emails : lock'[e] = IF e = email[c] THEN c ELSE lock[e]
    BY <1>1, <1>2 DEF Locks
<1>6. \A d \in Clients \ {c} : LocksKept(d)
    BY <1>1, <1>2, <1>5 DEF LocksKept
<1>7. ClientOK(c)'
    <2>1. LockOf(c)'
        BY <1>1, <1>2, <1>4, <1>5 DEF ClientOK, LockOf, Verifying
    <2>2. AccountOf(c)'
        <3>1. Created' = Created
            BY <1>2, SameRows
        <3>2. QED
            BY <1>1, <1>2, <1>4, <3>1 DEF ClientOK, AccountOf, Creating, Verifying, Linking, Moving, Holding
    <2>3. ArgumentsOf(c)' /\ RowOf(c)' /\ AddressOf(c)' /\ SubjectOf(c)' /\ SessionOf(c)'
        BY <1>1, <1>2, <1>4 DEF ArgumentsOf, RowOf, AddressOf, SubjectOf, ClaimOf, SessionOf, Verifying, Linking,
            Moving, Claiming, Holding
    <2>4. ClaimOf(c)'
        BY <1>1, <1>2 DEF ClaimOf, ClientOK, Claiming, Holding
    <2>5. QED
        BY <2>1, <2>2, <2>3, <2>4 DEF ClientOK
<1>8. QED
    BY <1>2, <1>3, <1>4, <1>6, <1>7, MiddleGood

\* The code matches.
LEMMA CodeMatchesStep ==
    ASSUME Good, NEW c \in Clients, CodeMatches(c)
    PROVE  Good'
<1> USE SignupAssumption
<1>1. /\ Locks /\ Locals /\ ClientOK(c) /\ pc[c] = "judge" /\ key[c] = row[c].by
    BY DEF CodeMatches, Judged, Good
<1>2. /\ UNCHANGED <<rows, asked, locks, mail, args>>
      /\ pc' = [pc EXCEPT ![c] = "promote"]
    BY DEF CodeMatches, Goto
<1>3. UNCHANGED <<lock, claim, idClaim, email, key, made, row, pending>>
    BY <1>2 DEF locks, args, rows
<1>4. Locks' /\ Locals'
    BY <1>1, <1>2, <1>3 DEF Locks, Locals, Stages
<1>5. pc'[c] = "promote" /\ \A d \in Clients \ {c} : LocalsKept(d)
    BY <1>1, <1>2, <1>3 DEF Locals, LocalsKept
<1>6. \A d \in Clients \ {c} : LocksKept(d)
    BY <1>3 DEF LocksKept
<1>7. Created' = Created
    BY <1>2, SameRows
<1>8. ArgumentsOf(c)' /\ LockOf(c)' /\ RowOf(c)'
    BY <1>1, <1>3, <1>5 DEF ClientOK, ArgumentsOf, LockOf, RowOf, Verifying, Linking, Moving, Holding
<1>9. AddressOf(c)' /\ SubjectOf(c)' /\ SessionOf(c)'
    BY <1>5 DEF AddressOf, SubjectOf, ClaimOf, SessionOf, Claiming, Holding
<1>10. AccountOf(c)'
    BY <1>1, <1>3, <1>5, <1>7 DEF ClientOK, AccountOf, Creating, Verifying, Linking, Moving, Holding
<1>11. ClaimOf(c)'
    BY <1>1, <1>3 DEF ClaimOf, ClientOK, Claiming, Holding
<1>12. ClientOK(c)'
    BY <1>8, <1>9, <1>10, <1>11 DEF ClientOK
<1>13. QED
    BY <1>2, <1>3, <1>4, <1>5, <1>6, <1>12, MiddleGood

\* The new key of tb_user is the transaction's.
LEMMA PromoteStep ==
    ASSUME Good, NEW c \in Clients, Promote(c)
    PROVE  Good'
<1> USE SignupAssumption
<1>1. /\ Locks /\ Locals /\ ClientOK(c) /\ pc[c] = "promote" /\ email[c] \in Emails
      /\ claim[email[c]] \in {None, c} /\ ~Exists(email[c])
    BY DEF Promote, Unclaimed, Good, ClientOK, ArgumentsOf, Verifying
<1>2. /\ UNCHANGED <<rows, asked, lock, idClaim, mail, args>>
      /\ pc' = [pc EXCEPT ![c] = "commitVerify"]
      /\ claim' = [claim EXCEPT ![email[c]] = c]
    BY DEF Promote, Goto
<1>3. UNCHANGED <<email, key, made, row, pending, accounts>>
    BY <1>2 DEF args, rows
<1>4. Locks' /\ Locals'
    BY <1>1, <1>2, <1>3 DEF Locks, Locals, Stages
<1>5. pc'[c] = "commitVerify" /\ \A d \in Clients \ {c} : LocalsKept(d)
    BY <1>1, <1>2, <1>3 DEF Locals, LocalsKept
<1>6. \A e \in Emails : claim'[e] = IF e = email[c] THEN c ELSE claim[e]
    BY <1>1, <1>2 DEF Locks
<1>7. \A d \in Clients \ {c} : LocksKept(d)
    BY <1>1, <1>2, <1>6 DEF LocksKept
<1>8. Created' = Created /\ \A e : Exists(e)' <=> Exists(e)
    BY <1>2, SameRows
<1>9. ArgumentsOf(c)' /\ LockOf(c)' /\ RowOf(c)'
    BY <1>1, <1>2, <1>3, <1>5 DEF ClientOK, ArgumentsOf, LockOf, RowOf, Verifying, Linking, Moving, Holding
<1>10. AddressOf(c)' /\ SubjectOf(c)' /\ SessionOf(c)'
    BY <1>1, <1>3, <1>5, <1>6, <1>8 DEF AddressOf, SubjectOf, SessionOf, Holding, Exists
<1>11. AccountOf(c)'
    BY <1>1, <1>3, <1>5, <1>8 DEF ClientOK, AccountOf, Creating, Verifying, Linking, Moving, Holding
<1>12. ClaimOf(c)'
    BY <1>1, <1>2, <1>5 DEF ClaimOf, ClientOK, Claiming, Holding
<1>13. ClientOK(c)'
    BY <1>9, <1>10, <1>11, <1>12 DEF ClientOK
<1>14. QED
    BY <1>2, <1>3, <1>4, <1>5, <1>7, <1>13, MiddleGood

\* The account of a subject is inserted, with the address if that is free.
LEMMA InsertUserStep ==
    ASSUME Good, NEW c \in Clients, InsertUser(c)
    PROVE  Good'
<1> USE SignupAssumption
<1>1. Locks /\ Locals /\ ClientOK(c) /\ pc[c] = "insert"
    BY DEF InsertUser, Good
<1>2. /\ UNCHANGED <<rows, asked, lock, idClaim, mail, args>>
      /\ pc' = [pc EXCEPT ![c] = "link"]
    BY DEF InsertUser, Goto
<1>3. UNCHANGED <<email, key, made, row, pending, accounts>>
    BY <1>2 DEF args, rows
<1>4. \/ email[c] = None /\ claim' = claim
      \/ /\ email[c] \in Emails /\ claim[email[c]] \in {None, c} /\ ~Exists(email[c])
         /\ claim' = [claim EXCEPT ![email[c]] = c]
    BY <1>1 DEF InsertUser, Unclaimed, Locals
<1>5. Locks' /\ Locals'
    BY <1>1, <1>2, <1>3, <1>4 DEF Locks, Locals, Stages
<1>6. pc'[c] = "link" /\ \A d \in Clients \ {c} : LocalsKept(d)
    BY <1>1, <1>2, <1>3 DEF Locals, LocalsKept
<1>7. \A e \in Emails : claim'[e] = IF e = email[c] THEN c ELSE claim[e]
    BY <1>1, <1>4 DEF Locks
<1>8. \A d \in Clients \ {c} : LocksKept(d)
    BY <1>1, <1>2, <1>4, <1>7 DEF LocksKept
<1>9. Created' = Created /\ \A e : Exists(e)' <=> Exists(e)
    BY <1>2, SameRows
<1>10. ArgumentsOf(c)' /\ LockOf(c)' /\ RowOf(c)'
    BY <1>1, <1>2, <1>3, <1>6 DEF ClientOK, ArgumentsOf, LockOf, RowOf, Verifying, Linking, Moving, Holding
<1>11. AddressOf(c)' /\ SubjectOf(c)' /\ SessionOf(c)'
    BY <1>1, <1>3, <1>4, <1>6, <1>7, <1>9 DEF AddressOf, SubjectOf, SessionOf, Holding, Exists
<1>12. AccountOf(c)'
    BY <1>1, <1>3, <1>6, <1>9 DEF ClientOK, AccountOf, Creating, Verifying, Linking, Moving, Holding
<1>13. ClaimOf(c)'
    BY <1>1, <1>2, <1>6 DEF ClaimOf, ClientOK, Claiming, Holding
<1>14. ClientOK(c)'
    BY <1>10, <1>11, <1>12, <1>13 DEF ClientOK
<1>15. QED
    BY <1>2, <1>3, <1>5, <1>6, <1>8, <1>14, MiddleGood

\* The account is created without the address.
LEMMA WithoutAddressStep ==
    ASSUME Good, NEW c \in Clients, WithoutAddress(c)
    PROVE  Good'
<1> USE SignupAssumption
<1>1. Locks /\ Locals /\ ClientOK(c) /\ pc[c] = "insert"
    BY DEF WithoutAddress, Good
<1>2. /\ UNCHANGED <<rows, asked, locks, mail, pc, key, made, row>>
      /\ email' = [email EXCEPT ![c] = None]
    BY DEF WithoutAddress
<1>3. UNCHANGED <<lock, claim, idClaim, pending, accounts>>
    BY <1>2 DEF locks, rows
<1>4. Locks' /\ Locals'
    BY <1>1, <1>2, <1>3 DEF Locks, Locals
<1>5. \A d \in Clients \ {c} : LocalsKept(d) /\ LocksKept(d)
    BY <1>1, <1>2, <1>3 DEF Locals, LocalsKept, LocksKept
<1>6. Created' = Created
    BY <1>2, SameRows
<1>7. ArgumentsOf(c)' /\ LockOf(c)' /\ RowOf(c)' /\ AddressOf(c)' /\ SubjectOf(c)' /\ SessionOf(c)'
    BY <1>1, <1>2, <1>3 DEF ClientOK, ArgumentsOf, LockOf, RowOf, AddressOf, SubjectOf, ClaimOf, SessionOf,
        Verifying, Linking, Moving, Claiming, Holding
<1>8. AccountOf(c)'
    BY <1>1, <1>2, <1>3, <1>6 DEF ClientOK, AccountOf
<1>9. ClaimOf(c)'
    BY <1>1, <1>2, <1>3 DEF ClaimOf, ClientOK, Claiming, Holding
<1>10. ClientOK(c)'
    BY <1>7, <1>8, <1>9 DEF ClientOK
<1>11. QED
    BY <1>2, <1>4, <1>5, <1>10, MiddleGood

\* The identity is inserted.
LEMMA LinkStep ==
    ASSUME Good, NEW c \in Clients, Link(c)
    PROVE  Good'
<1> USE SignupAssumption
<1>1. /\ Locks /\ Locals /\ ClientOK(c) /\ pc[c] = "link" /\ key[c] \in Subjects
      /\ idClaim[key[c]] = None /\ identity[key[c]] = None
    BY DEF Link, Good, ClientOK, ArgumentsOf, Linking
<1>2. /\ UNCHANGED <<rows, asked, lock, claim, mail, args>>
      /\ pc' = [pc EXCEPT ![c] = "commitSocial"]
      /\ idClaim' = [idClaim EXCEPT ![key[c]] = c]
    BY DEF Link, Goto
<1>3. UNCHANGED <<email, key, made, row, pending, accounts, identity>>
    BY <1>2 DEF args, rows
<1>4. Locks' /\ Locals'
    BY <1>1, <1>2, <1>3 DEF Locks, Locals, Stages
<1>5. pc'[c] = "commitSocial" /\ \A d \in Clients \ {c} : LocalsKept(d)
    BY <1>1, <1>2, <1>3 DEF Locals, LocalsKept
<1>6. \A s \in Subjects : idClaim'[s] = IF s = key[c] THEN c ELSE idClaim[s]
    BY <1>1, <1>2 DEF Locks
<1>7. \A d \in Clients \ {c} : LocksKept(d)
    BY <1>1, <1>2, <1>6 DEF LocksKept
<1>8. Created' = Created /\ \A e : Exists(e)' <=> Exists(e)
    BY <1>2, SameRows
<1>9. ArgumentsOf(c)' /\ LockOf(c)' /\ RowOf(c)'
    BY <1>1, <1>2, <1>3, <1>5 DEF ClientOK, ArgumentsOf, LockOf, RowOf, Verifying, Linking, Moving, Holding
<1>10. AddressOf(c)'
    BY <1>1, <1>2, <1>3, <1>5, <1>8 DEF ClientOK, AddressOf, Claiming, Holding
<1>11. SubjectOf(c)' /\ SessionOf(c)'
    BY <1>1, <1>3, <1>5, <1>6 DEF SubjectOf, SessionOf
<1>12. AccountOf(c)'
    BY <1>1, <1>3, <1>5, <1>8 DEF ClientOK, AccountOf, Creating, Verifying, Linking, Moving, Holding
<1>13. ClaimOf(c)'
    BY <1>1, <1>2, <1>5 DEF ClaimOf, ClientOK, Claiming, Holding
<1>14. ClientOK(c)'
    BY <1>9, <1>10, <1>11, <1>12, <1>13 DEF ClientOK
<1>15. QED
    BY <1>2, <1>3, <1>4, <1>5, <1>7, <1>14, MiddleGood

\* The account's row and the key of its address are the transaction's.
LEMMA LockAccountStep ==
    ASSUME Good, NEW c \in Clients, LockAccount(c)
    PROVE  Good'
<1> USE SignupAssumption
<1> DEFINE old == accounts[made[c]].email
<1>1. /\ Locks /\ Locals /\ ClientOK(c) /\ pc[c] = "move" /\ email[c] \in Emails
      /\ old \in Emails /\ claim[old] = None /\ made[c] \in Created
    BY DEF LockAccount, Good, ClientOK, ArgumentsOf, AccountOf, Moving, Holding
<1>2. /\ UNCHANGED <<rows, asked, lock, idClaim, mail, args>>
      /\ pc' = [pc EXCEPT ![c] = "enter"]
      /\ claim' = [claim EXCEPT ![old] = c]
    BY DEF LockAccount, Goto
<1>3. UNCHANGED <<email, key, made, row, pending, accounts>>
    BY <1>2 DEF args, rows
<1>4. accounts'[made'[c]].email = old
    BY <1>3
<1> HIDE DEF old
<1>5. Locals' /\ Locks'
    BY <1>1, <1>2, <1>3 DEF Locals, Locks, Stages
<1>6. pc'[c] = "enter" /\ \A d \in Clients \ {c} : LocalsKept(d)
    BY <1>1, <1>2, <1>3 DEF Locals, LocalsKept
<1>7. \A e \in Emails : claim'[e] = IF e = old THEN c ELSE claim[e]
    BY <1>1, <1>2 DEF Locks
<1>8. \A d \in Clients \ {c} : LocksKept(d)
    BY <1>1, <1>2, <1>7 DEF LocksKept
<1>9. Created' = Created
    BY <1>2, SameRows
<1>10. ArgumentsOf(c)' /\ LockOf(c)' /\ RowOf(c)'
    BY <1>1, <1>2, <1>3, <1>6 DEF ClientOK, ArgumentsOf, LockOf, RowOf, Verifying, Linking, Moving, Holding
<1>11. AddressOf(c)' /\ SubjectOf(c)' /\ SessionOf(c)'
    BY <1>1, <1>4, <1>6, <1>7 DEF AddressOf, SubjectOf, SessionOf, Claiming, Holding
<1>12. AccountOf(c)'
    BY <1>1, <1>3, <1>4, <1>6, <1>9 DEF AccountOf, Creating, Verifying, Linking, Moving, Holding
<1>13. ClaimOf(c)'
    BY <1>1, <1>2, <1>6 DEF ClaimOf, ClientOK, Holding
<1>14. ClientOK(c)'
    BY <1>10, <1>11, <1>12, <1>13 DEF ClientOK
<1>15. QED
    BY <1>2, <1>3, <1>5, <1>6, <1>8, <1>14, MiddleGood

\* So is the new key.
LEMMA SetEmailStep ==
    ASSUME Good, NEW c \in Clients, SetEmail(c)
    PROVE  Good'
<1> USE SignupAssumption
<1>1. /\ Locks /\ Locals /\ ClientOK(c) /\ pc[c] = "enter" /\ email[c] \in Emails
      /\ claim[email[c]] \in {None, c}
      /\ accounts[made[c]].email \in Emails /\ claim[accounts[made[c]].email] = c
      /\ \A a \in Created : accounts[a].email = email[c] => a = made[c]
    BY DEF SetEmail, Unclaimed, OwnedByOther, Good, ClientOK, ArgumentsOf, AddressOf, AccountOf, Moving, Holding
<1>2. /\ UNCHANGED <<rows, asked, lock, idClaim, mail, args>>
      /\ pc' = [pc EXCEPT ![c] = "commitMove"]
      /\ claim' = [claim EXCEPT ![email[c]] = c]
    BY DEF SetEmail, Goto
<1>3. UNCHANGED <<email, key, made, row, pending, accounts>>
    BY <1>2 DEF args, rows
<1>4. Locals' /\ Locks'
    BY <1>1, <1>2, <1>3 DEF Locals, Locks, Stages
<1>5. pc'[c] = "commitMove" /\ \A d \in Clients \ {c} : LocalsKept(d)
    BY <1>1, <1>2, <1>3 DEF Locals, LocalsKept
<1>6. \A e \in Emails : claim'[e] = IF e = email[c] THEN c ELSE claim[e]
    BY <1>1, <1>2 DEF Locks
<1>7. \A d \in Clients \ {c} : LocksKept(d)
    BY <1>1, <1>2, <1>6 DEF LocksKept
<1>8. Created' = Created
    BY <1>2, SameRows
<1>9. ArgumentsOf(c)' /\ LockOf(c)' /\ RowOf(c)'
    BY <1>1, <1>2, <1>3, <1>5 DEF ClientOK, ArgumentsOf, LockOf, RowOf, Verifying, Linking, Moving, Holding
<1>10. AddressOf(c)' /\ SubjectOf(c)' /\ SessionOf(c)'
    BY <1>1, <1>3, <1>5, <1>6, <1>8 DEF AddressOf, SubjectOf, SessionOf
<1>11. AccountOf(c)'
    BY <1>1, <1>3, <1>5, <1>8 DEF ClientOK, AccountOf, Creating, Verifying, Linking, Moving, Holding
<1>12. ClaimOf(c)'
    BY <1>1, <1>2, <1>5 DEF ClaimOf, ClientOK, Claiming, Holding
<1>13. ClientOK(c)'
    BY <1>9, <1>10, <1>11, <1>12 DEF ClientOK
<1>14. QED
    BY <1>2, <1>3, <1>4, <1>5, <1>7, <1>13, MiddleGood

----------------------------------------------------------------------------
(* The steps that change pending registrations *)

\* Accounts that did not change.
LEMMA SameAccounts ==
    ASSUME Good, UNCHANGED <<accounts, identity, asked>>, pending' \in [Emails -> Pending \cup {None}]
    PROVE  /\ AccountsKept /\ AccountsConsistent' /\ Created' = Created /\ Tables'
           /\ \A e : Exists(e)' <=> Exists(e)
<1>1. Created' = Created /\ \A e : Exists(e)' <=> Exists(e)
    BY DEF Created, Exists
<1>2. QED
    BY <1>1 DEF AccountsKept, AccountsConsistent, Tables, Good

\* A request replaces the registration of its address, which nobody has locked.
LEMMA UpsertStep ==
    ASSUME Good, NEW c \in Clients, Upsert(c)
    PROVE  Good'
<1> USE SignupAssumption, NoneIsNoRow
<1> DEFINE new == [by |-> key[c], attempts |-> 0, expired |-> FALSE]
<1>1. /\ Tables /\ Locks /\ Locals /\ ClientOK(c) /\ pc[c] = "upsert"
      /\ email[c] \in Emails /\ key[c] \in Requests /\ lock[email[c]] = None
    BY DEF Upsert, Good, ClientOK, ArgumentsOf
<1>2. /\ UNCHANGED <<accounts, identity, asked, locks, mail, args>>
      /\ pc' = [pc EXCEPT ![c] = "publish"]
      /\ pending' = [pending EXCEPT ![email[c]] = new]
    BY DEF Upsert, Goto
<1>3. UNCHANGED <<lock, claim, idClaim, email, key, made, row, waiting, mailed>>
    BY <1>2 DEF args, locks, mail
<1>4. Locks' /\ Locals' /\ MailIsOfRequests'
    BY <1>1, <1>2, <1>3 DEF Locks, Locals, Stages, MailIsOfRequests, Good
<1>5. pc'[c] = "publish" /\ \A d \in Clients \ {c} : LocalsKept(d)
    BY <1>1, <1>2, <1>3 DEF Locals, LocalsKept
<1>6. new \in Pending
    BY <1>1 DEF Pending
<1> HIDE DEF new
<1>7. /\ pending' \in [Emails -> Pending \cup {None}]
      /\ \A e \in Emails : pending'[e] = IF e = email[c] THEN new ELSE pending[e]
    BY <1>1, <1>2, <1>6 DEF Tables
<1>8. /\ AccountsKept /\ AccountsConsistent' /\ Created' = Created /\ Tables'
      /\ \A e : Exists(e)' <=> Exists(e)
    BY <1>2, <1>7, SameAccounts
<1>9. Bystanders(c)
    <2> SUFFICES ASSUME NEW d \in Clients \ {c} PROVE LocksKept(d) /\ RowsKept(d) /\ MadeKept(d)
        BY <1>5 DEF Bystanders
    <2>1. LocksKept(d)
        BY <1>3 DEF LocksKept
    <2>2. \A e \in Emails : lock[e] = d => e # email[c]
        BY <1>1
    <2>3. RowsKept(d)
        BY <1>2, <1>7, <1>8, <2>2 DEF RowsKept
    <2>4. MadeKept(d)
        BY <1>3, <1>8 DEF MadeKept, Good, ClientOK, AccountOf
    <2>5. QED
        BY <2>1, <2>3, <2>4
<1>10. ClientOK(c)'
    <2>1. LockOf(c)'
        BY <1>1, <1>3, <1>5 DEF ClientOK, LockOf, Verifying
    <2>2. QED
        BY <1>1, <1>3, <1>5, <2>1 DEF ClientOK, ArgumentsOf, RowOf, AddressOf, SubjectOf, ClaimOf, AccountOf,
            SessionOf, Linking, Verifying, Moving, Creating, Claiming, Holding
<1>11. QED
    BY <1>4, <1>8, <1>9, <1>10, GoodStep

\* A wrong code is counted on the registration its verification has locked.
LEMMA CountAttemptStep ==
    ASSUME Good, NEW c \in Clients, CountAttempt(c)
    PROVE  Good'
<1> USE SignupAssumption, NoneIsNoRow
<1>1. /\ Tables /\ Locks /\ Locals /\ ClientOK(c) /\ pc[c] = "judge"
      /\ email[c] \in Emails /\ lock[email[c]] = c
      /\ pending[email[c]] \in Pending
      /\ row[c].attempts < MaxAttempts /\ row[c].attempts = pending[email[c]].attempts
    BY DEF CountAttempt, Judged, Good, ClientOK, ArgumentsOf, LockOf, RowOf, Verifying, Tables
<1>2. /\ UNCHANGED <<accounts, identity, asked, mail>> /\ End(c)
      /\ pending' = [pending EXCEPT ![email[c]].attempts = @ + 1]
    BY DEF CountAttempt
<1>3. [pending[email[c]] EXCEPT !.attempts = @ + 1] \in Pending
    BY <1>1 DEF Pending
<1>4. /\ pending' \in [Emails -> Pending \cup {None}]
      /\ \A e \in Emails : e # email[c] => pending'[e] = pending[e]
    BY <1>1, <1>2, <1>3 DEF Tables
<1>5. /\ AccountsKept /\ AccountsConsistent' /\ Created' = Created /\ Tables'
      /\ \A e : Exists(e)' <=> Exists(e)
    BY <1>2, <1>4, SameAccounts
<1>6. /\ Locks' /\ Locals' /\ ClientOK(c)'
      /\ \A d \in Clients \ {c} :
            /\ LocalsKept(d) /\ LocksKept(d)
            /\ pc[d] \in Creating => \A x \in Clients \ {d} : made'[x] # made[d]
    BY <1>2, EndFrees
<1>7. MailIsOfRequests'
    BY <1>2 DEF mail, MailIsOfRequests, Good
<1>8. Bystanders(c)
    <2> SUFFICES ASSUME NEW d \in Clients \ {c} PROVE RowsKept(d) /\ MadeKept(d)
        BY <1>6 DEF Bystanders
    <2>1. \A e \in Emails : lock[e] = d => e # email[c]
        BY <1>1
    <2>2. RowsKept(d)
        BY <1>2, <1>4, <1>5, <2>1 DEF RowsKept
    <2>3. MadeKept(d)
        BY <1>5, <1>6 DEF MadeKept, Good, ClientOK, AccountOf
    <2>4. QED
        BY <2>2, <2>3
<1>9. QED
    BY <1>5, <1>6, <1>7, <1>8, GoodStep

\* A registration expires, locked or not.
LEMMA ExpireStep ==
    ASSUME Good, NEW e \in Emails, Expire(e)
    PROVE  Good'
<1> USE SignupAssumption, NoneIsNoRow
<1>1. Tables /\ pending[e] \in Pending
    BY DEF Expire, Good, Tables
<1>2. /\ UNCHANGED <<accounts, identity, asked, locks, mail, pc, args>>
      /\ pending' = [pending EXCEPT ![e].expired = TRUE]
    BY DEF Expire
<1>3. UNCHANGED <<lock, claim, idClaim, pc, email, key, made, row, waiting, mailed>>
    BY <1>2 DEF args, locks, mail
<1>4. LET new == [pending[e] EXCEPT !.expired = TRUE]
      IN  new \in Pending /\ new.by = pending[e].by /\ new.attempts = pending[e].attempts
    BY <1>1 DEF Pending
<1>5. /\ pending' \in [Emails -> Pending \cup {None}]
      /\ \A f \in Emails : pending[f] # None =>
            /\ pending'[f] # None
            /\ pending'[f].by = pending[f].by /\ pending'[f].attempts = pending[f].attempts
    BY <1>1, <1>2, <1>4 DEF Tables
<1>6. /\ AccountsKept /\ AccountsConsistent' /\ Created' = Created /\ Tables'
      /\ \A f : Exists(f)' <=> Exists(f)
    BY <1>2, <1>5, SameAccounts
<1>7. Locks' /\ Locals' /\ MailIsOfRequests'
    BY <1>3 DEF Locks, Locals, MailIsOfRequests, Good
<1>8. ASSUME NEW d \in Clients PROVE ClientOK(d)'
    <2>1. LocalsKept(d) /\ LocksKept(d)
        BY <1>3 DEF LocalsKept, LocksKept
    <2>2. RowsKept(d)
        BY <1>2, <1>5, <1>6 DEF RowsKept
    <2>3. MadeKept(d)
        BY <1>3, <1>6 DEF MadeKept, Good, ClientOK, AccountOf
    <2>4. QED
        BY <1>6, <2>1, <2>2, <2>3, Bystander DEF Good
<1>9. QED
    BY <1>6, <1>7, <1>8 DEF Good

\* Mail arrives.
LEMMA MailStep ==
    ASSUME Good, MailMoves
    PROVE  Good'
<1>1. UNCHANGED <<rows, asked, locks, pc, args>> /\ \E n \in waiting : Channel!Send(n)
    BY DEF MailMoves
<1>2. UNCHANGED <<pending, accounts, identity, lock, claim, idClaim, email, key, made, row>>
    BY <1>1 DEF rows, locks, args
<1>3. MailIsOfRequests'
    BY <1>1 DEF Channel!Send, MailIsOfRequests, Good
<1>4. /\ AccountsConsistent' /\ Created' = Created /\ Tables'
      /\ \A f : Exists(f)' <=> Exists(f)
    BY <1>1, SameRows DEF Good, Tables
<1>5. Locks' /\ Locals'
    BY <1>1, <1>2 DEF Locks, Locals, Good
<1>6. ASSUME NEW d \in Clients PROVE ClientOK(d)'
    BY <1>1, <1>2, <1>4 DEF Good, ClientOK, ArgumentsOf, LockOf, RowOf, AddressOf, SubjectOf, ClaimOf, AccountOf,
        SessionOf
<1>7. QED
    BY <1>3, <1>4, <1>5, <1>6 DEF Good

----------------------------------------------------------------------------
(* The steps that change accounts *)

\* A commit or a rollback frees what the transaction held and nothing else.
LEMMA ReleaseFrees ==
    ASSUME Locks, NEW c \in Clients, Release(c)
    PROVE  /\ Locks'
           /\ \A e \in Emails : lock'[e] # c /\ claim'[e] # c
           /\ \A s \in Subjects : idClaim'[s] # c
           /\ \A d \in Clients \ {c} : LocksKept(d)
<1>1. /\ \A e \in Emails : /\ lock'[e] = IF lock[e] = c THEN None ELSE lock[e]
                           /\ claim'[e] = IF claim[e] = c THEN None ELSE claim[e]
      /\ \A s \in Subjects : idClaim'[s] = IF idClaim[s] = c THEN None ELSE idClaim[s]
      /\ DOMAIN lock = Emails /\ DOMAIN claim = Emails /\ DOMAIN idClaim = Subjects
    BY DEF Release, Drop, Locks
<1>2. Locks'
    BY <1>1 DEF Locks, Release, Drop
<1>3. \A d \in Clients \ {c} : LocksKept(d)
    BY <1>1, SignupAssumption DEF LocksKept
<1>4. QED
    BY <1>1, <1>2, <1>3, SignupAssumption

\* An account comes into being, with an address that is claimed.
LEMMA AccountIsCreated ==
    ASSUME Good, NEW c \in Clients, pc[c] \in {"commitVerify", "commitSocial"}, NEW r \in Account,
           accounts' = [accounts EXCEPT ![made[c]] = r], r.email = email[c]
    PROVE  /\ AccountsKept
           /\ made[c] \in Accounts \ Created /\ Created' = Created \cup {made[c]}
           /\ accounts'[made[c]] = r /\ \A a \in Created : accounts'[a] = accounts[a]
           /\ \A a \in Created : r.email # None => accounts[a].email # r.email
           /\ \A d \in Clients \ {c}, e \in Emails, a \in Created' :
                claim[e] = d /\ accounts'[a].email = e => a \in Created /\ accounts[a].email = e
           /\ \A d \in Clients \ {c} : pc[d] \in Creating => made[d] \notin Created'
           /\ accounts' \in [Accounts -> Account \cup {None}]
<1> USE SignupAssumption, NoneIsNoRow
<1>1. made[c] \in Accounts \ Created /\ Tables
    BY DEF Good, ClientOK, AccountOf, Creating, Verifying, Linking
<1>2. \A a \in Accounts : accounts'[a] = IF a = made[c] THEN r ELSE accounts[a]
    BY <1>1 DEF Tables
<1>3. Created' = Created \cup {made[c]}
    BY <1>1, <1>2 DEF Created
<1>4. \A a \in Created : accounts'[a] = accounts[a]
    BY <1>1, <1>2 DEF Created
<1>5. email[c] # None => claim[email[c]] = c /\ \A a \in Created : accounts[a].email # email[c]
    BY DEF Good, ClientOK, AddressOf, Claiming, Holding
<1>6. \A a \in Created : r.email # None => accounts[a].email # r.email
    BY <1>5
<1>7. ASSUME NEW d \in Clients \ {c}, NEW e \in Emails, NEW a \in Created',
             claim[e] = d, accounts'[a].email = e
      PROVE  a \in Created /\ accounts[a].email = e
    <2>1. a # made[c]
        BY <1>1, <1>2, <1>5, <1>7
    <2>2. QED
        BY <1>3, <1>4, <1>7, <2>1
<1>8. \A d \in Clients \ {c} : pc[d] \in Creating => made[d] \notin Created'
    BY <1>3 DEF Good, ClientOK, AccountOf
<1>9. AccountsKept
    BY <1>3, <1>4 DEF AccountsKept
<1>10. accounts' \in [Accounts -> Account \cup {None}]
    BY <1>1 DEF Tables
<1>11. QED
    BY <1>1, <1>2, <1>3, <1>4, <1>6, <1>7, <1>8, <1>9, <1>10

\* The pending registration becomes an account.
LEMMA CommitVerifyStep ==
    ASSUME Good, NEW c \in Clients, CommitVerify(c)
    PROVE  Good'
<1> USE SignupAssumption, NoneIsNoRow
<1> DEFINE r == [email |-> email[c], by |-> row[c].by, sub |-> None]
<1>1. /\ Tables /\ Locks /\ Locals /\ ClientOK(c) /\ pc[c] = "commitVerify"
      /\ email[c] \in Emails /\ row[c] \in Pending /\ lock[email[c]] = c /\ key[c] = row[c].by
    BY DEF CommitVerify, Good, ClientOK, ArgumentsOf, LockOf, RowOf, Verifying, Locals
<1>2. /\ UNCHANGED <<identity, asked, mail>> /\ UNCHANGED <<key, made>> /\ Release(c)
      /\ accounts' = [accounts EXCEPT ![made[c]] = r]
      /\ pending' = [pending EXCEPT ![email[c]] = None]
      /\ pc' = [pc EXCEPT ![c] = "issue"]
    BY DEF CommitVerify, Opens, Goto
<1>3. email' = [email EXCEPT ![c] = None] /\ row' = [row EXCEPT ![c] = None]
    BY DEF CommitVerify, Opens
<1>4. r \in Account /\ r.email = email[c] /\ r.by = key[c] /\ r.sub = None
    BY <1>1 DEF Account, Pending
<1> HIDE DEF r
<1>5. /\ AccountsKept
      /\ made[c] \in Accounts \ Created /\ Created' = Created \cup {made[c]}
      /\ accounts'[made[c]] = r /\ \A a \in Created : accounts'[a] = accounts[a]
      /\ \A a \in Created : r.email # None => accounts[a].email # r.email
      /\ \A d \in Clients \ {c}, e \in Emails, a \in Created' :
                claim[e] = d /\ accounts'[a].email = e => a \in Created /\ accounts[a].email = e
      /\ \A d \in Clients \ {c} : pc[d] \in Creating => made[d] \notin Created'
      /\ accounts' \in [Accounts -> Account \cup {None}]
    BY <1>1, <1>2, <1>4, AccountIsCreated
<1>6. Tables'
    BY <1>1, <1>2, <1>5 DEF Tables
<1>7. /\ Locks'
      /\ \A e \in Emails : lock'[e] # c /\ claim'[e] # c
      /\ \A s \in Subjects : idClaim'[s] # c
      /\ \A d \in Clients \ {c} : LocksKept(d)
    BY <1>1, <1>2, ReleaseFrees
<1>8. Locals'
    BY <1>1, <1>2, <1>3 DEF Locals, Stages
<1>9. /\ pc'[c] = "issue" /\ key' = key /\ made' = made /\ email'[c] = None
      /\ \A d \in Clients \ {c} : LocalsKept(d)
    BY <1>1, <1>2, <1>3 DEF Locals, LocalsKept
<1>10. MailIsOfRequests'
    BY <1>2 DEF mail, MailIsOfRequests, Good
<1>11. Bystanders(c)
    <2> SUFFICES ASSUME NEW d \in Clients \ {c} PROVE RowsKept(d) /\ MadeKept(d)
        BY <1>7, <1>9 DEF Bystanders
    <2>1. \A e \in Emails : lock[e] = d => pending'[e] = pending[e]
        BY <1>1, <1>2 DEF Tables
    <2>2. pc[d] \in Holding => made[d] \in Created
        BY DEF Good, ClientOK, AccountOf, Moving
    <2>3. RowsKept(d)
        BY <1>2, <1>5, <2>1, <2>2 DEF RowsKept
    <2>4. MadeKept(d)
        BY <1>2, <1>5 DEF MadeKept, Good, ClientOK, AccountOf
    <2>5. QED
        BY <2>3, <2>4
<1>12. AccountsConsistent'
    <2>1. ASSUME NEW a \in Created', NEW b \in Created', a # b, accounts'[a].email # None
          PROVE  accounts'[a].email # accounts'[b].email
        BY <1>5, <2>1 DEF Good, AccountsConsistent
    <2>2. ASSUME NEW s \in Subjects, NEW a \in Accounts
          PROVE  identity'[s] = a <=> a \in Created' /\ accounts'[a].sub = s
        <3>1. CASE a = made[c]
            BY <1>2, <1>4, <1>5, <3>1 DEF Good, AccountsConsistent
        <3>2. CASE a # made[c]
            BY <1>2, <1>5, <3>2 DEF Good, AccountsConsistent
        <3>3. QED
            BY <3>1, <3>2
    <2>3. QED
        BY <2>1, <2>2 DEF AccountsConsistent
<1>13. ClientOK(c)'
    <2>1. LockOf(c)'
        BY <1>7, <1>9 DEF LockOf, Verifying
    <2>2. SessionOf(c)'
        BY <1>2, <1>4, <1>5, <1>9 DEF SessionOf
    <2>3. ClaimOf(c)'
        BY <1>7 DEF ClaimOf
    <2>4. QED
        BY <1>9, <2>1, <2>2, <2>3 DEF ClientOK, ArgumentsOf, RowOf, AddressOf, SubjectOf, AccountOf, Linking,
            Verifying, Moving, Creating, Claiming, Holding
<1>14. QED
    BY <1>5, <1>6, <1>7, <1>8, <1>10, <1>11, <1>12, <1>13, GoodStep

\* The subject gets its account.
LEMMA CommitSocialStep ==
    ASSUME Good, NEW c \in Clients, CommitSocial(c)
    PROVE  Good'
<1> USE SignupAssumption, NoneIsNoRow
<1> DEFINE r == [email |-> email[c], by |-> None, sub |-> key[c]]
<1>1. /\ Tables /\ Locks /\ Locals /\ ClientOK(c) /\ pc[c] = "commitSocial"
      /\ email[c] \in Emails \cup {None} /\ key[c] \in Subjects
      /\ idClaim[key[c]] = c /\ identity[key[c]] = None
    BY DEF CommitSocial, Good, ClientOK, ArgumentsOf, SubjectOf, Linking, Locals
<1>2. /\ UNCHANGED <<pending, asked, mail>> /\ UNCHANGED <<key, made>> /\ Release(c)
      /\ accounts' = [accounts EXCEPT ![made[c]] = r]
      /\ identity' = [identity EXCEPT ![key[c]] = made[c]]
      /\ pc' = [pc EXCEPT ![c] = "issue"]
    BY DEF CommitSocial, Opens, Goto
<1>3. email' = [email EXCEPT ![c] = None] /\ row' = [row EXCEPT ![c] = None]
    BY DEF CommitSocial, Opens
<1>4. r \in Account /\ r.email = email[c] /\ r.by = None /\ r.sub = key[c]
    BY <1>1 DEF Account
<1> HIDE DEF r
<1>5. /\ AccountsKept
      /\ made[c] \in Accounts \ Created /\ Created' = Created \cup {made[c]}
      /\ accounts'[made[c]] = r /\ \A a \in Created : accounts'[a] = accounts[a]
      /\ \A a \in Created : r.email # None => accounts[a].email # r.email
      /\ \A d \in Clients \ {c}, e \in Emails, a \in Created' :
                claim[e] = d /\ accounts'[a].email = e => a \in Created /\ accounts[a].email = e
      /\ \A d \in Clients \ {c} : pc[d] \in Creating => made[d] \notin Created'
      /\ accounts' \in [Accounts -> Account \cup {None}]
    BY <1>1, <1>2, <1>4, AccountIsCreated
<1>6. Tables' /\ \A s \in Subjects : identity'[s] = IF s = key[c] THEN made[c] ELSE identity[s]
    BY <1>1, <1>2, <1>5 DEF Tables
<1>7. /\ Locks'
      /\ \A e \in Emails : lock'[e] # c /\ claim'[e] # c
      /\ \A s \in Subjects : idClaim'[s] # c
      /\ \A d \in Clients \ {c} : LocksKept(d)
    BY <1>1, <1>2, ReleaseFrees
<1>8. Locals'
    BY <1>1, <1>2, <1>3 DEF Locals, Stages
<1>9. /\ pc'[c] = "issue" /\ key' = key /\ made' = made /\ email'[c] = None
      /\ \A d \in Clients \ {c} : LocalsKept(d)
    BY <1>1, <1>2, <1>3 DEF Locals, LocalsKept
<1>10. MailIsOfRequests'
    BY <1>2 DEF mail, MailIsOfRequests, Good
<1>11. Bystanders(c)
    <2> SUFFICES ASSUME NEW d \in Clients \ {c} PROVE RowsKept(d) /\ MadeKept(d)
        BY <1>7, <1>9 DEF Bystanders
    <2>1. \A s \in Subjects : idClaim[s] = d => identity'[s] = identity[s]
        BY <1>1, <1>6
    <2>2. pc[d] \in Holding => made[d] \in Created
        BY DEF Good, ClientOK, AccountOf, Moving
    <2>3. RowsKept(d)
        BY <1>2, <1>5, <2>1, <2>2 DEF RowsKept
    <2>4. MadeKept(d)
        BY <1>2, <1>5 DEF MadeKept, Good, ClientOK, AccountOf
    <2>5. QED
        BY <2>3, <2>4
<1>12. AccountsConsistent'
    <2>1. ASSUME NEW a \in Created', NEW b \in Created', a # b, accounts'[a].email # None
          PROVE  accounts'[a].email # accounts'[b].email
        BY <1>5, <2>1 DEF Good, AccountsConsistent
    <2>2. ASSUME NEW s \in Subjects, NEW a \in Accounts
          PROVE  identity'[s] = a <=> a \in Created' /\ accounts'[a].sub = s
        <3>1. CASE a = made[c]
            BY <1>4, <1>5, <1>6, <3>1 DEF Good, AccountsConsistent
        <3>2. CASE a # made[c] /\ s = key[c]
            BY <1>1, <1>5, <1>6, <3>2 DEF Good, AccountsConsistent, Accounts
        <3>3. CASE a # made[c] /\ s # key[c]
            BY <1>5, <1>6, <3>3 DEF Good, AccountsConsistent
        <3>4. QED
            BY <3>1, <3>2, <3>3
    <2>3. QED
        BY <2>1, <2>2 DEF AccountsConsistent
<1>13. ClientOK(c)'
    <2>1. LockOf(c)'
        BY <1>7, <1>9 DEF LockOf, Verifying
    <2>2. SessionOf(c)'
        BY <1>2, <1>4, <1>5, <1>9 DEF SessionOf
    <2>3. ClaimOf(c)'
        BY <1>7 DEF ClaimOf
    <2>4. QED
        BY <1>9, <2>1, <2>2, <2>3 DEF ClientOK, ArgumentsOf, RowOf, AddressOf, SubjectOf, AccountOf, Linking,
            Verifying, Moving, Creating, Claiming, Holding
<1>14. QED
    BY <1>5, <1>6, <1>7, <1>8, <1>10, <1>11, <1>12, <1>13, GoodStep

\* The account has the new address.
LEMMA CommitMoveStep ==
    ASSUME Good, NEW c \in Clients, CommitMove(c)
    PROVE  Good'
<1> USE SignupAssumption, NoneIsNoRow
<1>1. /\ Tables /\ made[c] \in Created /\ email[c] \in Emails
      /\ claim[email[c]] = c /\ claim[accounts[made[c]].email] = c
      /\ \A a \in Created : accounts[a].email = email[c] => a = made[c]
    BY DEF CommitMove, Good, ClientOK, ArgumentsOf, AddressOf, AccountOf, Moving, Holding, Claiming
<1>2. /\ UNCHANGED <<pending, identity, asked, mail>> /\ End(c)
      /\ accounts' = [accounts EXCEPT ![made[c]].email = email[c]]
    BY DEF CommitMove
<1>3. made[c] \in Accounts /\ accounts[made[c]] \in Account
    BY <1>1 DEF Created, Tables
<1>4. LET new == [accounts[made[c]] EXCEPT !.email = email[c]]
      IN  /\ new \in Account /\ new.email = email[c]
          /\ new.by = accounts[made[c]].by /\ new.sub = accounts[made[c]].sub
    BY <1>1, <1>3 DEF Account
<1>5. /\ accounts' \in [Accounts -> Account \cup {None}]
      /\ \A a \in Accounts : a # made[c] => accounts'[a] = accounts[a]
      /\ accounts'[made[c]].email = email[c] /\ accounts'[made[c]] # None
      /\ accounts'[made[c]].by = accounts[made[c]].by
      /\ accounts'[made[c]].sub = accounts[made[c]].sub
    BY <1>1, <1>2, <1>3, <1>4 DEF Tables
<1>6. Created' = Created
    BY <1>1, <1>5 DEF Created
<1>7. AccountsKept /\ Tables'
    BY <1>1, <1>2, <1>5, <1>6 DEF AccountsKept, Tables, Created
<1>8. /\ Locks' /\ Locals' /\ ClientOK(c)'
      /\ \A d \in Clients \ {c} :
            /\ LocalsKept(d) /\ LocksKept(d)
            /\ pc[d] \in Creating => \A x \in Clients \ {d} : made'[x] # made[d]
    BY <1>2, EndFrees
<1>9. MailIsOfRequests'
    BY <1>2 DEF mail, MailIsOfRequests, Good
<1>10. Bystanders(c)
    <2> SUFFICES ASSUME NEW d \in Clients \ {c} PROVE RowsKept(d) /\ MadeKept(d)
        BY <1>8 DEF Bystanders
    <2>1. ASSUME NEW e \in Emails, claim[e] = d, NEW a \in Created', accounts'[a].email = e
          PROVE  a \in Created /\ accounts[a].email = e
        <3>1. a # made[c]
            BY <1>1, <1>5, <2>1
        <3>2. QED
            BY <1>5, <1>6, <2>1, <3>1 DEF Created
    <2>2. pc[d] \in Holding => made[d] # made[c] /\ made[d] \in Accounts
        BY <1>1 DEF Good, ClientOK, AddressOf, AccountOf, Moving, Created, Holding
    <2>3. RowsKept(d)
        BY <1>2, <1>5, <2>1, <2>2 DEF RowsKept
    <2>4. MadeKept(d)
        BY <1>6, <1>8 DEF MadeKept, Good, ClientOK, AccountOf
    <2>5. QED
        BY <2>3, <2>4
<1>11. AccountsConsistent'
    <2>1. ASSUME NEW a \in Created, NEW b \in Created, a # b, accounts'[a].email # None
          PROVE  accounts'[a].email # accounts'[b].email
        BY <1>1, <1>5, <2>1 DEF Good, AccountsConsistent, Created
    <2>2. ASSUME NEW s \in Subjects, NEW a \in Accounts
          PROVE  identity'[s] = a <=> a \in Created' /\ accounts'[a].sub = s
        BY <1>2, <1>5, <1>6 DEF Good, AccountsConsistent
    <2>3. QED
        BY <1>6, <2>1, <2>2 DEF AccountsConsistent
<1>12. QED
    BY <1>7, <1>8, <1>9, <1>10, <1>11, GoodStep

----------------------------------------------------------------------------
(* The theorems *)

\* Every step, and none, keeps the invariant.
LEMMA Step ==
    ASSUME Good, [Next]_vars
    PROVE  Good'
<1>1. ASSUME NEW c \in Clients, Start(c) \/ Proceed(c) \/ Fail(c) PROVE Good'
    BY <1>1, StartStep, EndStep, UpsertStep, LockPendingStep, CountAttemptStep, CodeMatchesStep,
        PromoteStep, CommitVerifyStep, InsertUserStep, WithoutAddressStep, LinkStep, CommitSocialStep,
        LockAccountStep, SetEmailStep, CommitMoveStep DEF Proceed
<1>2. ASSUME NEW e \in Emails, Expire(e) PROVE Good'
    BY <1>2, ExpireStep
<1>3. CASE MailMoves
    BY <1>3, MailStep
<1>4. CASE UNCHANGED vars
    <2>1. UNCHANGED <<rows, asked, pending, accounts, identity, lock, claim, idClaim, waiting, mailed,
                      pc, email, key, made, row>>
        BY <1>4 DEF vars, rows, locks, mail, args
    <2>2. /\ AccountsConsistent' /\ Created' = Created /\ Tables'
          /\ \A f : Exists(f)' <=> Exists(f)
        BY <2>1, SameRows DEF Good, Tables
    <2>3. Locks' /\ Locals' /\ MailIsOfRequests'
        BY <2>1 DEF Locks, Locals, Good, MailIsOfRequests
    <2>4. ASSUME NEW d \in Clients PROVE ClientOK(d)'
        BY <2>1, <2>2 DEF Good, ClientOK, ArgumentsOf, LockOf, RowOf, AddressOf, SubjectOf, ClaimOf, AccountOf,
            SessionOf
    <2>5. QED
        BY <2>2, <2>3, <2>4 DEF Good
<1>5. QED
    BY <1>1, <1>2, <1>3, <1>4 DEF Next

\* The inductive invariant holds.
THEOREM Invariant == Spec => []IInv
<1>1. Init => Good
    <2> SUFFICES ASSUME Init PROVE Good
        OBVIOUS
    <2>1. Tables /\ Locks /\ Locals
        BY SignupAssumption DEF Init, Tables, Locks, Locals, Stages
    <2>2. Created = {}
        BY DEF Init, Created
    <2>3. \A c \in Clients : ClientOK(c)
        BY SignupAssumption DEF Init, ClientOK, ArgumentsOf, LockOf, RowOf, AddressOf, SubjectOf, ClaimOf,
            AccountOf, SessionOf, Linking, Verifying, Moving, Creating, Claiming, Holding
    <2>4. MailIsOfRequests
        BY DEF Init, Channel!Init, MailIsOfRequests
    <2>5. AccountsConsistent
        BY <2>2, SignupAssumption DEF AccountsConsistent, Init, Accounts
    <2>6. QED
        BY <2>1, <2>3, <2>4, <2>5 DEF Good
<1>2. Good /\ [Next]_vars => Good'
    BY Step
<1>3. QED
    BY <1>1, <1>2, GoodIsIInv, PTL DEF Spec

\* The variables keep their types, and only a verification holds a pending row.
THEOREM TypeCorrect == Spec => []TypeOK
<1>1. IInv => TypeOK
    BY DEF IInv
<1>2. QED
    BY <1>1, Invariant, PTL

\* However many verifications run, at most MaxAttempts wrong codes are tried.
THEOREM AttemptsLimited == Spec => []AttemptsPerCodeBounded
<1>1. ASSUME IInv, NEW e \in Emails, pending[e] # None PROVE pending[e].attempts <= MaxAttempts
    <2>1. pending[e] \in Pending
        BY <1>1 DEF IInv, TypeOK
    <2>2. QED
        BY <2>1, SignupAssumption DEF Pending
<1>2. IInv => AttemptsPerCodeBounded
    BY <1>1 DEF AttemptsPerCodeBounded
<1>3. QED
    BY <1>2, Invariant, PTL

\* No address has two accounts, and an identity opens the account made for it.
THEOREM AddressesAreUnique == Spec => []AccountsConsistent
<1>1. IInv => AccountsConsistent
    BY DEF IInv
<1>2. QED
    BY <1>1, Invariant, PTL

\* A session is one of the account its code or identity created.
THEOREM SessionsAreOwn == Spec => []SessionsOpenOwnAccount
<1>1. IInv => SessionsOpenOwnAccount
    BY DEF IInv
<1>2. QED
    BY <1>1, Invariant, PTL

\* The two ways accounts come to be, and the other ways the tables change.
LEMMA TableSteps ==
    ASSUME [Next]_vars
    PROVE  \/ \E c \in Clients : CommitVerify(c) \/ CommitSocial(c) \/ CommitMove(c)
           \/ \E c \in Clients : Upsert(c) \/ CountAttempt(c)
           \/ \E e \in Emails : Expire(e)
           \/ UNCHANGED rows
    BY DEF Next, Start, startSignup, verifySignup, socialLogin, verifyEmailChange, Request, Verify,
        Recognise, FirstSight, CheckAddress, Begin, Proceed, Publish, NoPending, LockPending, Reject,
        CodeMatches, PromoteFails, Promote, InsertUser, WithoutAddress, Link, LinkFails, LockAccount,
        SetEmail, SetEmailFails, Issue, DeadlockVictim, Fail, MailMoves, vars

\* A code creates the account that was submitted with it and consumes that registration.
THEOREM PromotionIsFaithful == Spec => PromotedAsSubmitted
<1> DEFINE Faithful ==
        /\ \A a \in Accounts :
            accounts[a] = None /\ accounts'[a] # None /\ accounts'[a].by # None =>
                \E c \in Clients, e \in Emails :
                    /\ accounts'[a].email = e
                    /\ pending[e] # None /\ pending[e].by = accounts'[a].by
                    /\ pending'[e] = None
                    /\ key[c] = accounts'[a].by
        /\ \A e \in Emails :
            pending[e] # None /\ pending'[e] = None =>
                \E a \in Accounts :
                    /\ accounts[a] = None
                    /\ accounts'[a] # None
                    /\ accounts'[a].by = pending[e].by
<1>1. ASSUME IInv, [Next]_vars PROVE Faithful
    <2> USE SignupAssumption, NoneIsNoRow
    <2>1. Good /\ Tables
        BY <1>1, GoodIsIInv DEF Good
    <2>2. ASSUME NEW c \in Clients, CommitVerify(c) PROVE Faithful
        <3> DEFINE r == [email |-> email[c], by |-> row[c].by, sub |-> None]
        <3>1. /\ made[c] \in Accounts /\ accounts[made[c]] = None /\ email[c] \in Emails
              /\ row[c] # None /\ pending[email[c]] # None /\ row[c].by = pending[email[c]].by
              /\ key[c] = row[c].by
            BY <2>1, <2>2 DEF CommitVerify, Good, ClientOK, ArgumentsOf, RowOf, AccountOf, Verifying,
                Creating, Created
        <3>2. r \in Account /\ r.email = email[c] /\ r.by = row[c].by
            <4>1. row[c] \in Pending
                BY <2>1, <3>1 DEF Good, Locals
            <4>2. QED
                BY <3>1, <4>1 DEF Account, Pending
        <3>3. accounts' = [accounts EXCEPT ![made[c]] = r] /\ pending' = [pending EXCEPT ![email[c]] = None]
            BY <2>2 DEF CommitVerify
        <3> HIDE DEF r
        <3>4. /\ accounts'[made[c]] = r /\ r # None
              /\ \A a \in Accounts : a # made[c] => accounts'[a] = accounts[a]
              /\ pending'[email[c]] = None
              /\ \A e \in Emails : e # email[c] => pending'[e] = pending[e]
            BY <2>1, <3>1, <3>2, <3>3 DEF Tables
        <3>5. QED
            BY <3>1, <3>2, <3>4
    <2>3. ASSUME NEW c \in Clients, CommitSocial(c) PROVE Faithful
        <3> DEFINE r == [email |-> email[c], by |-> None, sub |-> key[c]]
        <3>1. accounts' = [accounts EXCEPT ![made[c]] = r] /\ pending' = pending /\ r.by = None
            BY <2>3 DEF CommitSocial
        <3> HIDE DEF r
        <3>2. \A a \in Accounts : accounts'[a] = accounts[a] \/ accounts'[a] = r
            BY <2>1, <3>1 DEF Tables
        <3>3. QED
            BY <3>1, <3>2
    <2>4. ASSUME NEW c \in Clients, CommitMove(c) PROVE Faithful
        <3>1. made[c] \in Created /\ pending' = pending
            BY <2>1, <2>4 DEF CommitMove, Good, ClientOK, AccountOf, Moving, Holding
        <3>2. \A a \in Accounts : a # made[c] => accounts'[a] = accounts[a]
            BY <2>1, <2>4 DEF CommitMove, Tables
        <3>3. QED
            BY <3>1, <3>2 DEF Created
    <2>5. ASSUME NEW c \in Clients, Upsert(c) PROVE Faithful
        <3>1. accounts' = accounts
            BY <2>5 DEF Upsert
        <3>2. [by |-> key[c], attempts |-> 0, expired |-> FALSE] \in Pending
            BY <2>1, <2>5 DEF Upsert, Good, ClientOK, ArgumentsOf, Pending
        <3>3. \A e \in Emails : pending[e] # None => pending'[e] # None
            BY <2>1, <2>5, <3>2 DEF Upsert, Tables
        <3>4. QED
            BY <3>1, <3>3
    <2>6. ASSUME NEW c \in Clients, CountAttempt(c) PROVE Faithful
        <3>1. accounts' = accounts
            BY <2>6 DEF CountAttempt
        <3>2. /\ row[c] # None /\ email[c] \in Emails /\ pending[email[c]] \in Pending
              /\ row[c].attempts < MaxAttempts /\ row[c].attempts = pending[email[c]].attempts
            BY <2>1, <2>6 DEF CountAttempt, Judged, Good, ClientOK, ArgumentsOf, RowOf, Verifying, Tables
        <3>3. [pending[email[c]] EXCEPT !.attempts = @ + 1] \in Pending
            BY <3>2 DEF Pending
        <3>4. \A e \in Emails : pending[e] # None => pending'[e] # None
            BY <2>1, <2>6, <3>2, <3>3 DEF CountAttempt, Tables
        <3>5. QED
            BY <3>1, <3>4
    <2>7. ASSUME NEW e \in Emails, Expire(e) PROVE Faithful
        <3>1. accounts' = accounts
            BY <2>7 DEF Expire
        <3>2. [pending[e] EXCEPT !.expired = TRUE] \in Pending
            BY <2>1, <2>7 DEF Expire, Tables, Pending
        <3>3. \A f \in Emails : pending[f] # None => pending'[f] # None
            BY <2>1, <2>7, <3>2 DEF Expire, Tables
        <3>4. QED
            BY <3>1, <3>3
    <2>8. CASE UNCHANGED rows
        BY <2>8 DEF rows
    <2>9. QED
        BY <1>1, <2>2, <2>3, <2>4, <2>5, <2>6, <2>7, <2>8, TableSteps
<1>2. IInv /\ [Next]_vars => Faithful
    BY <1>1
<1>3. QED
    BY <1>2, Invariant, PTL DEF Spec, PromotedAsSubmitted

----------------------------------------------------------------------------
(* Waiting *)

\* However many requests run, a circle of them in which each waits for the row or the key of
\* another has two moves of different accounts in it (SetEmail of emailchange, which holds the
\* old address while it asks for the new one). What any other request waits for is held by one
\* that is further on, or by a move.
THEOREM CirclesAreOfMoves == Spec => []OnlyMovesWaitInCircles
<1>1. ASSUME Good PROVE OnlyMovesWaitInCircles
    <2> SUFFICES ASSUME NEW S \in SUBSET Clients, S # {},
                        \A c \in S : \E d \in S : WaitsFor(c, d)
                 PROVE  \E c, d \in S : pc[c] = "enter" /\ pc[d] = "enter" /\ made[c] # made[d]
        BY DEF OnlyMovesWaitInCircles
    <2> USE <1>1
    <2>1. \A c \in S : pc[c] \in {"upsert", "pending", "promote", "insert", "move", "enter", "link"}
        BY DEF WaitsFor
    <2>2. ASSUME NEW c \in S PROVE pc[c] # "link"
        <3> SUFFICES ASSUME pc[c] = "link" PROVE FALSE
            OBVIOUS
        <3>1. PICK d \in S : WaitsFor(c, d)
            OBVIOUS
        <3>2. idClaim[key[c]] = d /\ key[c] \in Subjects
            BY <3>1 DEF WaitsFor, Good, ClientOK, ArgumentsOf, Linking
        <3>3. pc[d] = "commitSocial"
            BY <3>2 DEF Good, ClientOK, ClaimOf
        <3>4. QED
            BY <2>1, <3>3
    <2>3. ASSUME NEW c \in S, pc[c] \in {"promote", "insert", "move", "enter"}
          PROVE  \E d \in S \ {c} : pc[d] = "enter"
        <3>1. PICK d \in S : WaitsFor(c, d)
            OBVIOUS
        <3>2. d # c /\ \E e \in Emails : claim[e] = d
            BY <2>3, <3>1 DEF WaitsFor, Good, Locals, ClientOK, AccountOf, Moving, Holding
        <3>3. pc[d] \in Claiming \cup Holding
            BY <3>2 DEF Good, ClientOK, ClaimOf
        <3>4. QED
            BY <2>1, <2>2, <3>2, <3>3 DEF Claiming, Holding
    <2>4. ASSUME NEW c \in S, pc[c] \in {"upsert", "pending"}
          PROVE  \E d \in S : pc[d] = "promote"
        <3>1. PICK d \in S : WaitsFor(c, d)
            OBVIOUS
        <3>2. lock[email[c]] = d /\ email[c] \in Emails
            BY <2>4, <3>1 DEF WaitsFor, Good, ClientOK, ArgumentsOf
        <3>3. pc[d] \in Verifying
            BY <3>2 DEF Good, ClientOK, LockOf
        <3>4. QED
            BY <2>1, <3>3 DEF Verifying
    <2>5. PICK c \in S : pc[c] = "enter"
        BY <2>1, <2>2, <2>3, <2>4
    <2>6. PICK d \in S \ {c} : pc[d] = "enter"
        BY <2>3, <2>5
    <2>7. made[c] # made[d]
        BY <2>5, <2>6 DEF Good, ClientOK, AddressOf, Holding
    <2>8. QED
        BY <2>5, <2>6, <2>7
<1>2. IInv => OnlyMovesWaitInCircles
    BY <1>1, GoodIsIInv
<1>3. QED
    BY <1>2, Invariant, PTL

============================================================================
