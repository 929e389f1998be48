------------------------------- MODULE Service -------------------------------
(***************************************************************************)
(* The life of the API process (cmd/api): waiting for PostgreSQL, applying *)
(* the schema files of database/init (internal/db), serving requests over  *)
(* a pool of connections, and stopping.                                    *)
(*                                                                         *)
(* A schema file is sent as one batch, which PostgreSQL runs as a single   *)
(* transaction; the ledger row that says so is a second one.  When the     *)
(* process dies its backend goes on and may still commit the batch.        *)
(*                                                                         *)
(* The process is one container with "restart: always".  A request that    *)
(* has a transaction open may need a second connection: the verification   *)
(* of an e-mail change asks whether the address is taken, that of a        *)
(* sign-up writes an audit event before it rolls back.                     *)
(*                                                                         *)
(* DB_AUTO_MIGRATE has its default, true; with false the process would     *)
(* serve whatever schema it finds.                                         *)
(***************************************************************************)
EXTENDS Naturals, FiniteSets

CONSTANTS
    NumFiles,       \* schema files, in lexical order
    TbUserFile,     \* the file that creates seg.tb_user, not the first
    Idempotent,     \* files that can be executed again
    Attempts,       \* DefaultConnectAttempts
    PoolSize,       \* connections of the pool
    Requests,       \* concurrent requests
    MaxFaults,      \* bound: crashes, database restarts and signals
    None

Files == 1..NumFiles

ASSUME ServiceAssumption ==
    /\ NumFiles \in Nat
    /\ TbUserFile \in Files \ {1}
    /\ Idempotent \subseteq Files
    /\ Attempts \in Nat \ {0}
    /\ PoolSize \in Nat \ {0}
    /\ IsFiniteSet(Requests)
    /\ MaxFaults \in Nat
    /\ None \notin Files

VARIABLES
    dbUp,
    executed,   \* files whose batch has committed
    recorded,   \* seg.tb_schema_migration
    adopted,    \* the ledger was filled by Adopt
    legacy,     \* the volume had tb_user before there was a ledger
    orphan,     \* the file a backend of a dead process is running, if any
    proc,
    tries,      \* failed connection attempts
    file,       \* the file Run has reached
    term,       \* SIGTERM received
    req,        \* where each request stands
    faults

schema == <<executed, recorded, adopted, legacy>>
run    == <<proc, tries, file, term>>
vars   == <<dbUp, schema, orphan, run, req, faults>>

Starting == {"ledger", "adopt", "migrate", "execute", "record"}

\* Requests with a transaction open, and those of them that also have their second connection.
InTx   == {r \in Requests : req[r] \in {"tx", "acquire2", "nested"}}
Nested == {r \in Requests : req[r] = "nested"}

\* Connections in use.
InUse == Cardinality(InTx) + Cardinality(Nested)

\* seg.tb_user exists.
SchemaPresent == TbUserFile \in executed

TypeOK ==
    /\ dbUp \in BOOLEAN
    /\ executed \subseteq Files
    /\ recorded \subseteq Files
    /\ adopted \in BOOLEAN
    /\ legacy \in BOOLEAN
    /\ orphan \in Files \cup {None}
    /\ proc \in {"down", "connect", "serve", "stop", "close"} \cup Starting
    /\ tries \in 0..Attempts
    /\ file \in 1..(NumFiles + 1)
    /\ term \in BOOLEAN
    /\ req \in [Requests -> {"idle", "acquire", "tx", "acquire2", "nested"}]
    /\ faults \in 0..MaxFaults
    /\ InUse <= PoolSize
    /\ proc \notin {"serve", "stop", "close"} => req = [r \in Requests |-> "idle"]

\* A volume that earlier starts migrated up to some file, or one that the
\* PostgreSQL entrypoint initialised up to some file and that has no ledger.
Init ==
    /\ \E n \in 0..NumFiles : executed = 1..n
    /\ recorded \in {{}, executed}
    /\ legacy = (recorded = {} /\ SchemaPresent)
    /\ adopted = FALSE
    /\ orphan = None
    /\ dbUp = TRUE
    /\ proc = "down"
    /\ tries = 0
    /\ file = 1
    /\ term = FALSE
    /\ req = [r \in Requests |-> "idle"]
    /\ faults = 0

Fault == faults < MaxFaults /\ faults' = faults + 1

----------------------------------------------------------------------------
(* Process and database *)

Goto(stage) == proc' = stage

\* The process ends, and its requests and connections with it.
Exit ==
    /\ proc' = "down"
    /\ tries' = 0
    /\ file' = 1
    /\ term' = FALSE
    /\ req' = [r \in Requests |-> "idle"]

Start ==
    /\ proc = "down"
    /\ Goto("connect")
    /\ UNCHANGED <<dbUp, schema, orphan, tries, file, term, req, faults>>

\* What becomes of a batch that is on its way when the process goes.
Abandon == orphan' \in IF proc = "execute" THEN {orphan, file} ELSE {orphan}

Crash ==
    /\ proc # "down"
    /\ Fault
    /\ Abandon
    /\ Exit
    /\ UNCHANGED <<dbUp, schema>>

Terminate ==
    /\ proc # "down"
    /\ ~term
    /\ Fault
    /\ term' = TRUE
    /\ UNCHANGED <<dbUp, schema, orphan, proc, tries, file, req>>

\* Every backend is gone, and so is what it had not committed.
DbStops ==
    /\ dbUp
    /\ Fault
    /\ dbUp' = FALSE
    /\ orphan' = None
    /\ UNCHANGED <<schema, run, req>>

DbStarts ==
    /\ ~dbUp
    /\ dbUp' = TRUE
    /\ UNCHANGED <<schema, orphan, run, req, faults>>

\* The backend of a dead process finishes its batch, which fails when the file
\* cannot be executed again.
OrphanEnds ==
    /\ orphan # None
    /\ executed' \in {executed, executed \cup {orphan}}
    /\ orphan' = None
    /\ UNCHANGED <<dbUp, recorded, adopted, legacy, run, req, faults>>

----------------------------------------------------------------------------
(* Connect *)

Connected ==
    /\ proc = "connect"
    /\ dbUp
    /\ ~term
    /\ tries' = 0
    /\ Goto("ledger")
    /\ UNCHANGED <<dbUp, schema, orphan, file, term, req, faults>>

\* retry backs off and tries again, unless the attempts are used up.
PingFails ==
    /\ proc = "connect"
    /\ ~dbUp
    /\ tries < Attempts - 1
    /\ tries' = tries + 1
    /\ UNCHANGED <<dbUp, schema, orphan, proc, file, term, req, faults>>

GiveUp ==
    /\ proc = "connect"
    /\ ~dbUp
    /\ tries = Attempts - 1
    /\ Exit
    /\ UNCHANGED <<dbUp, schema, orphan, faults>>

----------------------------------------------------------------------------
(* Runner.Run *)

\* Mutant: a ledger with rows in it does not prevent the adoption.
InspectSchemaOnly ==
    /\ proc = "ledger"
    /\ dbUp
    /\ Goto(IF SchemaPresent /\ recorded # Files THEN "adopt" ELSE "migrate")
    /\ UNCHANGED <<dbUp, schema, orphan, tries, file, term, req, faults>>

\* Ensure, and the two questions of adoptExisting.
Inspect ==
    /\ proc = "ledger"
    /\ dbUp
    /\ Goto(IF recorded = {} /\ SchemaPresent THEN "adopt" ELSE "migrate")
    /\ UNCHANGED <<dbUp, schema, orphan, tries, file, term, req, faults>>

Adopt ==
    /\ proc = "adopt"
    /\ dbUp
    /\ recorded' = Files
    /\ adopted' = TRUE
    /\ Goto("serve")
    /\ UNCHANGED <<dbUp, executed, legacy, orphan, tries, file, term, req, faults>>

\* Applied says the file was run.
SkipFile ==
    /\ proc = "migrate"
    /\ dbUp
    /\ file \in recorded
    /\ file' = file + 1
    /\ UNCHANGED <<dbUp, schema, orphan, proc, tries, term, req, faults>>

\* Mutant: the ledger is not asked whether the file was run.
NextFileUnasked ==
    /\ proc = "migrate"
    /\ dbUp
    /\ file \in Files
    /\ Goto("execute")
    /\ UNCHANGED <<dbUp, schema, orphan, tries, file, term, req, faults>>

NextFile ==
    /\ proc = "migrate"
    /\ dbUp
    /\ file \in Files \ recorded
    /\ Goto("execute")
    /\ UNCHANGED <<dbUp, schema, orphan, tries, file, term, req, faults>>

Migrated ==
    /\ proc = "migrate"
    /\ file = NumFiles + 1
    /\ Goto("serve")
    /\ UNCHANGED <<dbUp, schema, orphan, tries, file, term, req, faults>>

Executable == file \notin executed \ Idempotent

\* Mutant: a file is recorded when it is sent.
ExecuteRecorded ==
    /\ proc = "execute"
    /\ dbUp
    /\ orphan = None
    /\ Executable
    /\ recorded' = recorded \cup {file}
    /\ Goto("record")
    /\ UNCHANGED <<dbUp, executed, adopted, legacy, orphan, tries, file, term, req, faults>>

\* A batch waits for the same one of a dead process: they create the same things.
Execute ==
    /\ proc = "execute"
    /\ dbUp
    /\ orphan = None
    /\ Executable
    /\ executed' = executed \cup {file}
    /\ Goto("record")
    /\ UNCHANGED <<dbUp, recorded, adopted, legacy, orphan, tries, file, term, req, faults>>

\* What the file creates is there already: Run returns the error.
ExecuteFails ==
    /\ proc = "execute"
    /\ dbUp
    /\ orphan = None
    /\ ~Executable
    /\ Exit
    /\ UNCHANGED <<dbUp, schema, orphan, faults>>

Record ==
    /\ proc = "record"
    /\ dbUp
    /\ recorded' = recorded \cup {file}
    /\ file' = file + 1
    /\ Goto("migrate")
    /\ UNCHANGED <<dbUp, executed, adopted, legacy, orphan, tries, term, req, faults>>

\* The database is gone or the signal cancelled the context: the start fails.
StartFails ==
    /\ proc \in Starting \/ (proc = "connect" /\ term)
    /\ ~dbUp \/ term
    /\ Abandon
    /\ Exit
    /\ UNCHANGED <<dbUp, schema, faults>>

----------------------------------------------------------------------------
(* Requests *)

Become(r, stage) ==
    /\ req' = [req EXCEPT ![r] = stage]
    /\ UNCHANGED <<dbUp, schema, orphan, run, faults>>

Arrive(r) ==
    /\ proc = "serve"
    /\ req[r] = "idle"
    /\ Become(r, "acquire")

\* Mutant: the pool hands out one connection more than it has.
AcquireBeyond(r) ==
    /\ req[r] \in {"acquire", "acquire2"}
    /\ proc # "close"
    /\ Become(r, IF req[r] = "acquire" THEN "tx" ELSE "nested")

\* The pool serves those who wait in turn; once it closes it hands nothing out.
Acquire(r) ==
    /\ req[r] \in {"acquire", "acquire2"}
    /\ InUse < PoolSize
    /\ proc # "close"
    /\ Become(r, IF req[r] = "acquire" THEN "tx" ELSE "nested")

\* AddressTaken, or audit.Record, inside an open transaction.
NeedSecond(r) ==
    /\ req[r] = "tx"
    /\ Become(r, "acquire2")

SecondDone(r) ==
    /\ req[r] = "nested"
    /\ Become(r, "tx")

\* Mutant: a failed acquisition leaves the transaction open.
RefuseKeepsConnection(r) ==
    /\ req[r] \in {"acquire", "acquire2"}
    /\ proc = "close"
    /\ InUse < PoolSize
    /\ Become(r, IF req[r] = "acquire" THEN "idle" ELSE "acquire2")

\* Who waits learns that the pool was closed only when it is its turn, that is when another
\* connection is given back: the request fails and its transaction is rolled back.  Closing
\* the pool wakes nobody.
Refuse(r) ==
    /\ req[r] \in {"acquire", "acquire2"}
    /\ proc = "close"
    /\ InUse < PoolSize
    /\ Become(r, "idle")

\* Committed, rolled back, failed with the database, or refused a second connection at once.
Answer(r) ==
    /\ req[r] = "tx"
    /\ Become(r, "idle")

\* The client goes away and the context of the request with it.
ClientLeaves(r) ==
    /\ req[r] # "idle"
    /\ Become(r, "idle")

----------------------------------------------------------------------------
(* Stopping *)

Move(from, to) ==
    /\ proc = from
    /\ Goto(to)
    /\ UNCHANGED <<dbUp, schema, orphan, tries, file, term, req, faults>>

\* server.Shutdown: no new requests, the ones in flight are waited for.
Shutdown == term /\ Move("serve", "stop")

\* They are all answered, or the timeout of the shutdown has passed; run
\* returns, and the deferred pool.Close waits for every connection, without a limit.
ShutdownReturns == Move("stop", "close")

\* ListenAndServe fails.
ListenFails ==
    /\ proc = "serve"
    /\ Fault
    /\ Goto("close")
    /\ UNCHANGED <<dbUp, schema, orphan, tries, file, term, req>>

PoolClosed ==
    /\ proc = "close"
    /\ InUse = 0
    /\ Exit
    /\ UNCHANGED <<dbUp, schema, orphan, faults>>

Begin ==
    \/ Start \/ Connected \/ PingFails \/ GiveUp
    \/ Inspect \/ Adopt \/ SkipFile \/ NextFile \/ Migrated
    \/ Execute \/ ExecuteFails \/ Record \/ StartFails

Stop == Shutdown \/ ShutdownReturns \/ PoolClosed

Serve(r) == Acquire(r) \/ SecondDone(r) \/ Refuse(r) \/ Answer(r)

Next ==
    \/ Crash \/ Terminate \/ DbStops \/ DbStarts \/ OrphanEnds \/ ListenFails
    \/ Begin \/ Stop
    \/ \E r \in Requests : Arrive(r) \/ Serve(r) \/ NeedSecond(r) \/ ClientLeaves(r)

Spec == Init /\ [][Next]_vars

\* The container is restarted, the database comes back, its backends finish, the
\* process goes on, statements end, and the pool is first come, first served.
FairSpec ==
    /\ Spec
    /\ WF_vars(DbStarts) /\ WF_vars(OrphanEnds) /\ WF_vars(Begin) /\ WF_vars(Stop)
    /\ \A r \in Requests :
        /\ SF_vars(Acquire(r)) /\ SF_vars(Answer(r))
        /\ WF_vars(SecondDone(r)) /\ WF_vars(Refuse(r))

----------------------------------------------------------------------------
(* Properties *)

\* The ledger does not lie: whatever it says was run has been run, unless the
\* whole schema was adopted, and only a volume that had tb_user before it had a
\* ledger is adopted; no crash between a file and its record leads to it.
LedgerIsTrue ==
    /\ recorded \subseteq executed \/ adopted
    /\ adopted => legacy

\* The process serves requests only over the whole schema, apart from what an
\* adoption takes on trust (with DB_AUTO_MIGRATE at its default).
ServesWholeSchema ==
    proc \in {"serve", "stop", "close"} => executed = Files \/ adopted

\* A file that was executed, not recorded, and cannot be executed again.
Torn == \E f \in Files : f \in executed \ (recorded \cup Idempotent) /\ 1..(f - 1) \subseteq recorded

\* However often the process or the database dies, the process comes to serve,
\* unless a crash fell between a file and its record.
StartsUnlessTorn == []<>(proc \in {"serve", "stop", "close"} \/ Torn)

\* Every connection is held by a request that waits for another one.
Starved == Cardinality({r \in Requests : req[r] = "acquire2"}) = PoolSize

\* A request waits for ever only while the whole pool is held by requests that
\* wait for a second connection.
EveryRequestEnds == \A r \in Requests : req[r] # "idle" ~> (req[r] = "idle" \/ Starved)

\* SIGTERM ends the process through requests in flight, waiting and refused, unless the pool is
\* held in that way: then pool.Close waits until a client leaves or the process is killed.
ShutdownCompletes == term ~> (proc = "down" \/ Starved)

\* How far the files and the ledger are: the files before the one at hand are recorded, be it the
\* process that is at it or a backend it left behind.
FilesInOrder ==
    /\ proc \in {"down", "connect", "ledger", "adopt"} => file = 1
    /\ proc \in {"migrate", "execute", "record"} => 1..(file - 1) \subseteq recorded
    /\ proc \in {"execute", "record"} => file \in Files
    /\ proc = "record" => file \in executed
    /\ orphan # None => 1..(orphan - 1) \subseteq recorded

\* A schema without a ledger is older than the ledger.
AdoptionIsDue ==
    /\ SchemaPresent /\ recorded = {} => legacy
    /\ proc = "adopt" => SchemaPresent /\ recorded = {}

\* The inductive invariant.
IInv == TypeOK /\ LedgerIsTrue /\ ServesWholeSchema /\ FilesInOrder /\ AdoptionIsDue

============================================================================
