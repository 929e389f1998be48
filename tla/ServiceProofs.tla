--------------------------- MODULE ServiceProofs ---------------------------
(* Theorems about Service, for every number of schema files, connections, requests and faults. *)
EXTENDS Service, FiniteSetTheorems, TLAPS

(* Connections *)

\* Sets of requests are finite, and counted as finite sets are.
LEMMA Counts ==
    ASSUME NEW S \in SUBSET Requests
    PROVE  /\ Cardinality(S) \in Nat
           /\ \A T \in SUBSET S : Cardinality(T) \in Nat /\ Cardinality(T) <= Cardinality(S)
           /\ \A r \in Requests : /\ Cardinality(S \cup {r}) \in Nat
                                 /\ Cardinality(S \cup {r}) <= Cardinality(S) + 1
<1>1. IsFiniteSet(S)
    BY ServiceAssumption, FS_Subset
<1>2. Cardinality(S) \in Nat
    BY <1>1, FS_CardinalityType
<1>3. \A T \in SUBSET S : Cardinality(T) \in Nat /\ Cardinality(T) <= Cardinality(S)
    BY <1>1, FS_Subset, FS_CardinalityType
<1>4. ASSUME NEW r \in Requests
      PROVE  /\ Cardinality(S \cup {r}) \in Nat
             /\ Cardinality(S \cup {r}) <= Cardinality(S) + 1
    <2>1. \/ Cardinality(S \cup {r}) = Cardinality(S)
          \/ Cardinality(S \cup {r}) = Cardinality(S) + 1
        BY <1>1, FS_AddElement
    <2>2. QED
        BY <1>2, <2>1
<1>5. QED
    BY <1>2, <1>3, <1>4

\* No connection is taken when nobody comes to hold one more.
LEMMA InUseShrinks ==
    ASSUME InUse <= PoolSize, InTx' \subseteq InTx, Nested' \subseteq Nested
    PROVE  InUse' <= PoolSize
<1>1. InTx \in SUBSET Requests /\ Nested \in SUBSET Requests
    BY DEF InTx, Nested
<1>2. /\ Cardinality(InTx) \in Nat /\ Cardinality(Nested) \in Nat
      /\ Cardinality(InTx') \in Nat /\ Cardinality(InTx') <= Cardinality(InTx)
      /\ Cardinality(Nested') \in Nat /\ Cardinality(Nested') <= Cardinality(Nested)
    BY <1>1, Counts
<1>3. QED
    BY <1>2, ServiceAssumption DEF InUse

\* A request takes one connection.
LEMMA AcquireStep ==
    ASSUME TypeOK, NEW r \in Requests, Acquire(r)
    PROVE  InUse' <= PoolSize
<1>1. InTx \in SUBSET Requests /\ Nested \in SUBSET Requests
    BY DEF InTx, Nested
<1>2. Cardinality(InTx) \in Nat /\ Cardinality(Nested) \in Nat
    BY <1>1, Counts
<1>3. Cardinality(InTx) + Cardinality(Nested) < PoolSize
    BY DEF Acquire, InUse
<1>4. CASE req[r] = "acquire"
    <2>1. InTx' = InTx \cup {r} /\ Nested' = Nested
        BY <1>4 DEF Acquire, Become, InTx, Nested, TypeOK
    <2>2. Cardinality(InTx') \in Nat /\ Cardinality(InTx') <= Cardinality(InTx) + 1
        BY <1>1, <2>1, Counts
    <2>3. QED
        BY <1>2, <1>3, <2>1, <2>2, ServiceAssumption DEF InUse
<1>5. CASE req[r] = "acquire2"
    <2>1. InTx' = InTx /\ Nested' = Nested \cup {r}
        BY <1>5 DEF Acquire, Become, InTx, Nested, TypeOK
    <2>2. Cardinality(Nested') \in Nat /\ Cardinality(Nested') <= Cardinality(Nested) + 1
        BY <1>1, <2>1, Counts
    <2>3. QED
        BY <1>2, <1>3, <2>1, <2>2, ServiceAssumption DEF InUse
<1>6. QED
    BY <1>4, <1>5 DEF Acquire

----------------------------------------------------------------------------
(* Steps of requests *)

Serving == {"serve", "stop", "close"}

\* A request goes on, and only its own stage changes.
LEMMA RequestStep ==
    ASSUME IInv, NEW r \in Requests, Arrive(r) \/ Serve(r) \/ NeedSecond(r) \/ ClientLeaves(r)
    PROVE  IInv'
<1> TypeOK
    BY DEF IInv
<1>1. PICK stage \in {"idle", "acquire", "tx", "acquire2", "nested"} : Become(r, stage)
    BY DEF Arrive, Serve, Acquire, SecondDone, Refuse, Answer, NeedSecond, ClientLeaves
<1>2. UNCHANGED <<dbUp, schema, orphan, run, faults>>
    BY <1>1 DEF Become
<1>3. req' \in [Requests -> {"idle", "acquire", "tx", "acquire2", "nested"}]
    BY <1>1 DEF Become, TypeOK
<1>4. InUse' <= PoolSize
    <2>1. CASE Acquire(r)
        BY <2>1, AcquireStep
    <2>2. CASE ~Acquire(r)
        <3>1. InTx' \subseteq InTx /\ Nested' \subseteq Nested
            BY <2>2 DEF Arrive, Serve, SecondDone, Refuse, Answer, NeedSecond, ClientLeaves,
                        Become, InTx, Nested, TypeOK
        <3>2. InUse <= PoolSize
            BY DEF TypeOK
        <3>3. QED
            BY <3>1, <3>2, InUseShrinks
    <2>3. QED
        BY <2>1, <2>2
<1>5. proc \in Serving
    BY DEF Arrive, Serve, Acquire, SecondDone, Refuse, Answer, NeedSecond, ClientLeaves,
           TypeOK, Serving
<1>6. /\ dbUp' = dbUp /\ executed' = executed /\ recorded' = recorded /\ adopted' = adopted
      /\ legacy' = legacy /\ orphan' = orphan /\ proc' = proc /\ tries' = tries /\ file' = file
      /\ term' = term /\ faults' = faults
    BY <1>2 DEF schema, run
<1>7. TypeOK'
    BY <1>3, <1>4, <1>5, <1>6 DEF TypeOK, Serving
<1>8. LedgerIsTrue' /\ ServesWholeSchema' /\ FilesInOrder' /\ AdoptionIsDue'
    BY <1>6 DEF IInv, LedgerIsTrue, ServesWholeSchema, FilesInOrder, AdoptionIsDue, SchemaPresent
<1>9. QED
    BY <1>7, <1>8 DEF IInv

----------------------------------------------------------------------------
(* Steps of the process *)

\* What a step that leaves the requests alone, or ends them all, has to keep of the types.
LEMMA TypeParts ==
    ASSUME TypeOK, req' = req \/ req' = [r \in Requests |-> "idle"],
           dbUp' \in BOOLEAN, adopted' \in BOOLEAN, legacy' \in BOOLEAN, term' \in BOOLEAN,
           executed' \subseteq Files, recorded' \subseteq Files, orphan' \in Files \cup {None},
           proc' \in {"down", "connect"} \cup Serving \cup Starting,
           tries' \in 0..Attempts, file' \in 1..(NumFiles + 1), faults' \in 0..MaxFaults,
           proc' \in Serving \/ proc \notin Serving \/ req' = [r \in Requests |-> "idle"]
    PROVE  TypeOK'
<1>1. InTx' \subseteq InTx /\ Nested' \subseteq Nested
    BY DEF TypeOK, InTx, Nested
<1>2. InUse <= PoolSize
    BY DEF TypeOK
<1>3. InUse' <= PoolSize
    BY <1>1, <1>2, InUseShrinks
<1>4. req' \in [Requests -> {"idle", "acquire", "tx", "acquire2", "nested"}]
    BY DEF TypeOK
<1>5. proc' \notin Serving => req' = [r \in Requests |-> "idle"]
    BY DEF TypeOK, Serving
<1>6. QED
    BY <1>3, <1>4, <1>5 DEF TypeOK, Serving

\* The process ends; the batch it had sent may go on without it.
LEMMA ExitStep ==
    ASSUME IInv, Exit, Abandon \/ orphan' = orphan, UNCHANGED <<dbUp, schema>>,
           faults' \in 0..MaxFaults
    PROVE  IInv'
<1> TypeOK
    BY DEF IInv
<1>1. /\ proc' = "down" /\ tries' = 0 /\ file' = 1 /\ req' = [r \in Requests |-> "idle"]
      /\ executed' = executed /\ recorded' = recorded
    BY DEF Exit, schema
<1>2. term' \in BOOLEAN /\ dbUp' = dbUp /\ adopted' = adopted /\ legacy' = legacy
    BY DEF Exit, schema
<1>3. orphan' \in Files \cup {None} /\ (orphan' # None => 1..(orphan' - 1) \subseteq recorded)
    BY DEF IInv, Abandon, FilesInOrder, TypeOK
<1>4. TypeOK'
    <2>1. 0 \in 0..Attempts /\ 1 \in 1..(NumFiles + 1)
        BY ServiceAssumption
    <2>2. dbUp \in BOOLEAN /\ adopted \in BOOLEAN /\ legacy \in BOOLEAN
          /\ executed \subseteq Files /\ recorded \subseteq Files
        BY DEF TypeOK
    <2>3. QED
        BY <1>1, <1>2, <1>3, <2>1, <2>2, TypeParts
<1>5. FilesInOrder'
    BY <1>1, <1>3 DEF FilesInOrder
<1>6. LedgerIsTrue' /\ ServesWholeSchema' /\ AdoptionIsDue'
    BY <1>1, <1>2 DEF IInv, LedgerIsTrue, ServesWholeSchema, AdoptionIsDue, SchemaPresent
<1>7. QED
    BY <1>4, <1>5, <1>6 DEF IInv

\* The process moves on and changes neither files nor ledger.
LEMMA MoveStep ==
    ASSUME IInv,
           \/ Start \/ Connected \/ PingFails \/ Inspect \/ SkipFile \/ NextFile \/ Migrated
           \/ Shutdown \/ ShutdownReturns \/ ListenFails \/ Terminate \/ DbStops \/ DbStarts
    PROVE  IInv'
<1> TypeOK /\ LedgerIsTrue /\ ServesWholeSchema /\ FilesInOrder /\ AdoptionIsDue
    BY DEF IInv
<1> USE ServiceAssumption
<1>1. /\ executed' = executed /\ recorded' = recorded /\ req' = req
      /\ executed \subseteq Files /\ recorded \subseteq Files
      /\ orphan' \in {orphan, None} /\ orphan \in Files \cup {None}
    BY DEF TypeOK, Start, Connected, PingFails, Inspect, SkipFile, NextFile, Migrated, Shutdown,
           ShutdownReturns, ListenFails, Terminate, DbStops, DbStarts, Move, schema, run
<1>2. adopted' = adopted /\ legacy' = legacy /\ adopted \in BOOLEAN /\ legacy \in BOOLEAN
    BY DEF TypeOK, Start, Connected, PingFails, Inspect, SkipFile, NextFile, Migrated, Shutdown,
           ShutdownReturns, ListenFails, Terminate, DbStops, DbStarts, Move, schema
<1>3. dbUp' \in BOOLEAN /\ term' \in BOOLEAN
    BY DEF TypeOK, Start, Connected, PingFails, Inspect, SkipFile, NextFile, Migrated, Shutdown,
           ShutdownReturns, ListenFails, Terminate, DbStops, DbStarts, Move, run
<1>4. tries' \in 0..Attempts
    BY DEF TypeOK, Start, Connected, PingFails, Inspect, SkipFile, NextFile, Migrated, Shutdown,
           ShutdownReturns, ListenFails, Terminate, DbStops, DbStarts, Move, run
<1>5. file' \in 1..(NumFiles + 1)
    <2>1. CASE SkipFile
        BY <2>1 DEF SkipFile, TypeOK, Files
    <2>2. CASE file' = file
        BY <2>2 DEF TypeOK
    <2>3. QED
        BY <2>1, <2>2
        DEF Start, Connected, PingFails, Inspect, NextFile, Migrated, Shutdown,
            ShutdownReturns, ListenFails, Terminate, DbStops, DbStarts, Move, run
<1>6. faults' \in 0..MaxFaults
    BY DEF TypeOK, Start, Connected, PingFails, Inspect, SkipFile, NextFile, Migrated, Shutdown,
           ShutdownReturns, ListenFails, Terminate, DbStops, DbStarts, Move, Fault
<1>7. /\ proc' \in {"down", "connect"} \cup Serving \cup Starting
      /\ proc' \in Serving \/ proc \notin Serving
    BY DEF TypeOK, Start, Connected, PingFails, Inspect, SkipFile, NextFile, Migrated, Shutdown,
           ShutdownReturns, ListenFails, Terminate, DbStops, DbStarts, Move, run, Goto,
           Serving, Starting
<1>8. TypeOK'
    BY <1>1, <1>2, <1>3, <1>4, <1>5, <1>6, <1>7, TypeParts
<1>9. LedgerIsTrue'
    BY <1>1, <1>2 DEF LedgerIsTrue
<1>10. ServesWholeSchema'
    <2>1. CASE Migrated
        <3>1. 1..NumFiles \subseteq recorded
            BY <2>1 DEF Migrated, FilesInOrder
        <3>2. recorded \subseteq executed \/ adopted
            BY DEF LedgerIsTrue
        <3>3. executed = Files \/ adopted
            BY <1>1, <3>1, <3>2 DEF Files
        <3>4. QED
            BY <1>1, <1>2, <3>3 DEF ServesWholeSchema
    <2>2. CASE ~Migrated
        <3>1. proc' \in Serving => proc \in Serving
            BY <2>2 DEF Start, Connected, PingFails, Inspect, SkipFile, NextFile, Shutdown,
                ShutdownReturns, ListenFails, Terminate, DbStops, DbStarts, Move, run, Goto, Serving
        <3>2. QED
            BY <1>1, <1>2, <3>1 DEF ServesWholeSchema, Serving
    <2>3. QED
        BY <2>1, <2>2
<1>11. FilesInOrder'
    <2>1. orphan' # None => 1..(orphan' - 1) \subseteq recorded'
        BY <1>1 DEF FilesInOrder
    <2>2. CASE SkipFile
        <3>1. /\ proc' = "migrate" /\ file' = file + 1 /\ file \in Nat
              /\ 1..(file - 1) \subseteq recorded /\ file \in recorded
            BY <2>2 DEF SkipFile, FilesInOrder, TypeOK
        <3>2. 1..(file' - 1) \subseteq recorded
            BY <3>1
        <3>3. QED
            BY <1>1, <2>1, <3>1, <3>2 DEF FilesInOrder
    <2>3. CASE NextFile
        BY <1>1, <2>1, <2>3 DEF NextFile, Goto, FilesInOrder
    <2>4. CASE Inspect
        <3>1. proc' \in {"adopt", "migrate"} /\ file' = 1
            BY <2>4 DEF Inspect, Goto, FilesInOrder
        <3>2. 1..(file' - 1) \subseteq recorded
            BY <3>1
        <3>3. QED
            BY <1>1, <2>1, <3>1, <3>2 DEF FilesInOrder
    <2>5. CASE ~(SkipFile \/ NextFile \/ Inspect)
        <3>1. file' = file
            BY <2>5 DEF Start, Connected, PingFails, Migrated, Shutdown,
                ShutdownReturns, ListenFails, Terminate, DbStops, DbStarts, Move, run
        <3>2. \/ proc' = proc \/ proc' \in Serving
              \/ proc \in {"down", "connect"} /\ proc' \in {"connect", "ledger"}
            BY <2>5 DEF Start, Connected, PingFails, Migrated, Shutdown, ShutdownReturns,
                ListenFails, Terminate, DbStops, DbStarts, Move, run, Goto, Serving
        <3>3. QED
            BY <1>1, <2>1, <3>1, <3>2 DEF FilesInOrder, Serving
    <2>6. QED
        BY <2>2, <2>3, <2>4, <2>5
<1>12. AdoptionIsDue'
    <2>1. proc' = "adopt" => SchemaPresent /\ recorded = {}
        BY DEF Start, Connected, PingFails, Inspect, SkipFile, NextFile, Migrated, Shutdown,
            ShutdownReturns, ListenFails, Terminate, DbStops, DbStarts, Move, run, Goto,
            AdoptionIsDue
    <2>2. SchemaPresent /\ recorded = {} => legacy'
        BY <1>2 DEF AdoptionIsDue
    <2>3. QED
        BY <1>1, <2>1, <2>2 DEF AdoptionIsDue, SchemaPresent
<1>13. QED
    BY <1>8, <1>9, <1>10, <1>11, <1>12 DEF IInv

\* A file is executed or recorded, by the process or by a backend it left behind, or the whole
\* schema is adopted.
LEMMA SchemaStep ==
    ASSUME IInv, Adopt \/ Execute \/ Record \/ OrphanEnds
    PROVE  IInv'
<1> TypeOK /\ LedgerIsTrue /\ ServesWholeSchema /\ FilesInOrder /\ AdoptionIsDue
    BY DEF IInv
<1> USE ServiceAssumption
<1>1. UNCHANGED <<dbUp, legacy, tries, term, req, faults>>
    BY DEF Adopt, Execute, Record, OrphanEnds, run
<1>2. dbUp' \in BOOLEAN /\ adopted' \in BOOLEAN /\ legacy' \in BOOLEAN /\ term' \in BOOLEAN
    BY DEF TypeOK, Adopt, Execute, Record, OrphanEnds, run
<1>3. tries' \in 0..Attempts /\ faults' \in 0..MaxFaults
    BY <1>1 DEF TypeOK
<1>4. CASE Adopt
    <2>1. /\ proc = "adopt" /\ proc' = "serve" /\ recorded' = Files /\ executed' = executed
          /\ file' = file /\ orphan' = orphan /\ req' = req
        BY <1>1, <1>4 DEF Adopt, Goto
    <2>2. adopted' /\ legacy' = legacy /\ legacy
        BY <1>4 DEF Adopt, AdoptionIsDue
    <2>3. executed' \subseteq Files /\ orphan' \in Files \cup {None} /\ file' \in 1..(NumFiles + 1)
        BY <2>1 DEF TypeOK
    <2>4. TypeOK'
        BY <1>2, <1>3, <2>1, <2>3, TypeParts DEF Serving
    <2>5. LedgerIsTrue' /\ ServesWholeSchema'
        BY <2>1, <2>2 DEF LedgerIsTrue, ServesWholeSchema
    <2>6. FilesInOrder'
        <3>1. orphan # None => 1..(orphan - 1) \subseteq Files
            BY DEF TypeOK, Files
        <3>2. QED
            BY <2>1, <3>1 DEF FilesInOrder
    <2>7. AdoptionIsDue'
        BY <2>1, <2>2 DEF AdoptionIsDue
    <2>8. QED
        BY <2>4, <2>5, <2>6, <2>7 DEF IInv
\* The first file is not the one that creates tb_user.
<1>5. ASSUME NEW f \in Files, 1..(f - 1) \subseteq recorded, recorded = {}
      PROVE f # TbUserFile
    <2>1. TbUserFile \in Nat /\ TbUserFile > 1
        BY DEF Files
    <2>2. f = TbUserFile => 1 \in 1..(f - 1)
        BY <2>1
    <2>3. QED
        BY <1>5, <2>2
<1>6. CASE Execute
    <2>1. /\ proc = "execute" /\ proc' = "record" /\ executed' = executed \cup {file}
          /\ file' = file /\ orphan' = orphan /\ recorded' = recorded /\ req' = req
          /\ file \in Files /\ 1..(file - 1) \subseteq recorded
        BY <1>1, <1>6 DEF Execute, Goto, FilesInOrder
    <2>2. adopted' = adopted /\ legacy' = legacy
        BY <1>6 DEF Execute
    <2>3. /\ executed' \subseteq Files /\ recorded' \subseteq Files
          /\ orphan' \in Files \cup {None} /\ file' \in 1..(NumFiles + 1)
        BY <2>1 DEF TypeOK
    <2>4. TypeOK'
        BY <1>2, <1>3, <2>1, <2>3, TypeParts DEF Serving, Starting
    <2>5. LedgerIsTrue' /\ ServesWholeSchema'
        BY <2>1, <2>2 DEF LedgerIsTrue, ServesWholeSchema
    <2>6. FilesInOrder'
        BY <2>1 DEF FilesInOrder
    <2>7. AdoptionIsDue'
        <3>1. SchemaPresent' /\ recorded' = {} => SchemaPresent /\ recorded = {}
            BY <1>5, <2>1 DEF SchemaPresent
        <3>2. QED
            BY <2>1, <2>2, <3>1 DEF AdoptionIsDue
    <2>8. QED
        BY <2>4, <2>5, <2>6, <2>7 DEF IInv
<1>7. CASE Record
    <2>1. /\ proc = "record" /\ proc' = "migrate" /\ recorded' = recorded \cup {file}
          /\ file' = file + 1 /\ orphan' = orphan /\ executed' = executed /\ req' = req
          /\ file \in Files /\ file \in executed /\ 1..(file - 1) \subseteq recorded
        BY <1>1, <1>7 DEF Record, Goto, FilesInOrder
    <2>2. adopted' = adopted /\ legacy' = legacy
        BY <1>7 DEF Record
    <2>3. /\ executed' \subseteq Files /\ recorded' \subseteq Files
          /\ orphan' \in Files \cup {None} /\ file' \in 1..(NumFiles + 1)
        BY <2>1 DEF TypeOK, Files
    <2>4. TypeOK'
        BY <1>2, <1>3, <2>1, <2>3, TypeParts DEF Serving, Starting
    <2>5. LedgerIsTrue' /\ ServesWholeSchema'
        BY <2>1, <2>2 DEF LedgerIsTrue, ServesWholeSchema
    <2>6. FilesInOrder'
        <3>1. 1..(file' - 1) \subseteq recorded'
            BY <2>1 DEF Files
        <3>2. QED
            BY <2>1, <3>1 DEF FilesInOrder
    <2>7. AdoptionIsDue'
        BY <2>1 DEF AdoptionIsDue
    <2>8. QED
        BY <2>4, <2>5, <2>6, <2>7 DEF IInv
<1>8. CASE OrphanEnds
    <2>1. /\ orphan \in Files /\ 1..(orphan - 1) \subseteq recorded /\ orphan' = None
          /\ executed' = executed \/ executed' = executed \cup {orphan}
          /\ recorded' = recorded /\ proc' = proc /\ file' = file /\ req' = req
        BY <1>8 DEF OrphanEnds, FilesInOrder, TypeOK, run
    <2>2. adopted' = adopted /\ legacy' = legacy
        BY <1>8 DEF OrphanEnds
    <2>3. /\ executed' \subseteq Files /\ recorded' \subseteq Files
          /\ orphan' \in Files \cup {None} /\ file' \in 1..(NumFiles + 1)
          /\ proc' \in {"down", "connect"} \cup Serving \cup Starting
        BY <2>1 DEF TypeOK, Serving
    <2>4. TypeOK'
        BY <1>2, <1>3, <2>1, <2>3, TypeParts
    <2>5. LedgerIsTrue'
        BY <2>1, <2>2 DEF LedgerIsTrue
    <2>6. ServesWholeSchema'
        BY <2>1, <2>2, <2>3 DEF ServesWholeSchema
    <2>7. FilesInOrder'
        BY <2>1 DEF FilesInOrder
    <2>8. AdoptionIsDue'
        <3>1. SchemaPresent' /\ recorded' = {} => SchemaPresent /\ recorded = {}
            BY <1>5, <2>1 DEF SchemaPresent
        <3>2. SchemaPresent => SchemaPresent'
            BY <2>1 DEF SchemaPresent
        <3>3. QED
            BY <2>1, <2>2, <3>1, <3>2 DEF AdoptionIsDue
    <2>9. QED
        BY <2>4, <2>5, <2>6, <2>7, <2>8 DEF IInv
<1>9. QED
    BY <1>4, <1>6, <1>7, <1>8

----------------------------------------------------------------------------
(* The theorems *)

\* The inductive invariant of the process, its schema files and its pool (cmd/api/main.go,
\* internal/db).
THEOREM Invariant == Spec => []IInv
<1>1. Init => IInv
    <2> SUFFICES ASSUME Init PROVE IInv
        OBVIOUS
    <2> USE ServiceAssumption
    <2>1. executed \subseteq Files /\ recorded \subseteq Files /\ recorded \subseteq executed
        BY DEF Init, Files
    <2>2. InUse <= PoolSize
        <3>1. InTx = {} /\ Nested = {}
            BY DEF Init, InTx, Nested
        <3>2. Cardinality(InTx) = 0 /\ Cardinality(Nested) = 0
            BY <3>1, FS_EmptySet
        <3>3. QED
            BY <3>2 DEF InUse
    <2>3. dbUp \in BOOLEAN /\ adopted \in BOOLEAN /\ legacy \in BOOLEAN /\ term \in BOOLEAN
        BY DEF Init
    <2>4. TypeOK
        <3>1. tries \in 0..Attempts /\ file \in 1..(NumFiles + 1) /\ faults \in 0..MaxFaults
            BY DEF Init
        <3>2. /\ orphan \in Files \cup {None} /\ proc = "down"
              /\ req = [r \in Requests |-> "idle"]
            BY DEF Init
        <3>3. QED
            BY <2>1, <2>2, <2>3, <3>1, <3>2 DEF TypeOK
    <2>5. LedgerIsTrue /\ ServesWholeSchema
        BY <2>1 DEF Init, LedgerIsTrue, ServesWholeSchema
    <2>6. FilesInOrder
        BY DEF Init, FilesInOrder
    <2>7. AdoptionIsDue
        BY DEF Init, AdoptionIsDue
    <2>8. QED
        BY <2>4, <2>5, <2>6, <2>7 DEF IInv
<1>2. IInv /\ [Next]_vars => IInv'
    <2> SUFFICES ASSUME IInv, [Next]_vars PROVE IInv'
        OBVIOUS
    <2>1. CASE Crash \/ GiveUp \/ ExecuteFails \/ StartFails \/ PoolClosed
        <3>1. /\ Exit /\ UNCHANGED <<dbUp, schema>> /\ (Abandon \/ orphan' = orphan)
            BY <2>1 DEF Crash, GiveUp, ExecuteFails, StartFails, PoolClosed
        <3>2. faults' \in 0..MaxFaults
            BY <2>1, ServiceAssumption
            DEF Crash, GiveUp, ExecuteFails, StartFails, PoolClosed, Fault, IInv, TypeOK
        <3>3. QED
            BY <3>1, <3>2, ExitStep
    <2>2. CASE UNCHANGED vars
        <3>1. /\ dbUp' = dbUp /\ executed' = executed /\ recorded' = recorded
              /\ adopted' = adopted /\ legacy' = legacy /\ orphan' = orphan /\ proc' = proc
              /\ tries' = tries /\ file' = file /\ term' = term /\ req' = req
              /\ faults' = faults
            BY <2>2 DEF vars, schema, run
        <3>2. TypeOK'
            BY <3>1 DEF IInv, TypeOK, InUse, InTx, Nested
        <3>3. LedgerIsTrue' /\ ServesWholeSchema' /\ FilesInOrder' /\ AdoptionIsDue'
            BY <3>1 DEF IInv, LedgerIsTrue, ServesWholeSchema, FilesInOrder, AdoptionIsDue,
                        SchemaPresent
        <3>4. QED
            BY <3>2, <3>3 DEF IInv
    <2>3. QED
        BY <2>1, <2>2, RequestStep, MoveStep, SchemaStep DEF Next, Begin, Stop
<1>3. QED
    BY <1>1, <1>2, PTL DEF Spec

\* The variables stay in their types, and the pool never hands out more than it has.
THEOREM TypeCorrect == Spec => []TypeOK
<1>1. IInv => TypeOK
    BY DEF IInv
<1>2. QED
    BY <1>1, Invariant, PTL

\* No crash makes the ledger name a file that was not run.
THEOREM LedgerStaysTrue == Spec => []LedgerIsTrue
<1>1. IInv => LedgerIsTrue
    BY DEF IInv
<1>2. QED
    BY <1>1, Invariant, PTL

\* Requests are served over the whole schema.
THEOREM SchemaIsWhole == Spec => []ServesWholeSchema
<1>1. IInv => ServesWholeSchema
    BY DEF IInv
<1>2. QED
    BY <1>1, Invariant, PTL

============================================================================
