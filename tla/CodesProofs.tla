---------------------------- MODULE CodesProofs ----------------------------
(* Theorems about Codes, for every set of addresses and requests and every limit. *)
EXTENDS Codes, SequenceTheorems, FiniteSetTheorems, TLAPS

(* The rows: how an INSERT and an UPDATE change them. *)

\* The rows are numbered from one.
LEMMA Rows ==
    ASSUME TypeOK
    PROVE  /\ Len(codes) \in Nat
           /\ DOMAIN codes = 1..Len(codes)
           /\ DOMAIN codes \subseteq Ids
           /\ codes \in [DOMAIN codes -> Row]
<1>1. Len(codes) \in Nat /\ DOMAIN codes = 1..Len(codes) /\ codes \in [1..Len(codes) -> Row]
    BY LenProperties DEF TypeOK
<1>2. QED
    BY <1>1, LimitsArePositive DEF TypeOK, Ids

\* A new row comes last.
LEMMA RowAdded ==
    ASSUME TypeOK, NEW r \in Row, Len(codes) < MaxCodes, codes' = Append(codes, r)
    PROVE  /\ codes' \in Seq(Row) /\ Len(codes') <= MaxCodes
           /\ Len(codes) + 1 \notin DOMAIN codes
           /\ DOMAIN codes' = DOMAIN codes \cup {Len(codes) + 1}
           /\ \A i \in DOMAIN codes : codes'[i] = codes[i]
           /\ codes'[Len(codes) + 1] = r
<1>1. /\ codes \in Seq(Row) /\ Len(codes) \in Nat /\ DOMAIN codes = 1..Len(codes)
    BY Rows DEF TypeOK
<1>2. /\ codes' \in Seq(Row) /\ Len(codes') = Len(codes) + 1
      /\ \A i \in 1..Len(codes) : codes'[i] = codes[i]
      /\ codes'[Len(codes) + 1] = r
    BY <1>1, AppendProperties
<1>3. DOMAIN codes' = 1..(Len(codes) + 1)
    BY <1>2, LenProperties
<1>4. QED
    BY <1>1, <1>2, <1>3, LimitsArePositive

\* The rows are updated in place.
LEMMA RowsUpdated ==
    ASSUME TypeOK, codes' \in [DOMAIN codes -> Row]
    PROVE  /\ codes' \in Seq(Row) /\ Len(codes') <= MaxCodes
           /\ DOMAIN codes' = DOMAIN codes
<1>1. codes' \in [1..Len(codes) -> Row] /\ Len(codes) \in Nat
    BY Rows
<1>2. codes' \in Seq(Row)
    BY <1>1, SeqDef
<1>3. Len(codes') \in Nat /\ DOMAIN codes' = 1..Len(codes')
    BY <1>2, LenProperties
<1>4. DOMAIN codes' = 1..Len(codes)
    BY <1>1
<1>5. Len(codes') = Len(codes)
    BY <1>1, <1>3, <1>4
<1>6. QED
    BY <1>1, <1>2, <1>4, <1>5, Rows DEF TypeOK

\* The end of a request: it holds nothing any more, the others are not touched.
LEMMA DoneStep ==
    ASSUME TypeOK, NEW c \in Clients, Done(c)
    PROVE  /\ lock' \in [Ids -> Clients \cup {None}]
           /\ pc' \in [Clients -> Stages]
           /\ purpose' \in [Clients -> Purposes]
           /\ addr' \in [Clients -> Emails \cup {None}]
           /\ guess' \in [Clients -> {0} \cup Ids]
           /\ seen' \in [Clients -> SUBSET DOMAIN codes]
           /\ held' \in [Clients -> {0} \cup DOMAIN codes]
           /\ tries' \in [Clients -> Nat]
           /\ pc'[c] = "idle" /\ seen'[c] = {} /\ held'[c] = 0
           /\ \A i \in Ids : lock'[i] # c
           /\ \A d \in Clients \ {c} :
                /\ pc'[d] = pc[d] /\ purpose'[d] = purpose[d] /\ addr'[d] = addr[d]
                /\ seen'[d] = seen[d] /\ held'[d] = held[d] /\ tries'[d] = tries[d]
                /\ \A i \in Ids : lock'[i] = d <=> lock[i] = d
<1>1. lock' \in [Ids -> Clients \cup {None}]
    BY DEF TypeOK, Done
<1>2. \A i \in Ids : lock'[i] = IF lock[i] = c THEN None ELSE lock[i]
    BY DEF Done
<1>3. QED
    BY <1>1, <1>2, NoneIsNew DEF TypeOK, Done, Stages, Purposes

----------------------------------------------------------------------------
(* Types *)

\* What the types say of requests survives when rows are added or updated.
LEMMA TypeAfterDone ==
    ASSUME TypeOK, NEW c \in Clients, Done(c), email' \in Emails,
           codes' \in Seq(Row), Len(codes') <= MaxCodes, DOMAIN codes \subseteq DOMAIN codes'
    PROVE  TypeOK'
<1>1. \A d \in Clients : pc'[d] = "check" => held'[d] # 0 /\ lock'[held'[d]] = d
    <2>1. DOMAIN codes \subseteq Ids
        BY Rows
    <2>2. \A d \in Clients : pc'[d] = "check" => d # c /\ held[d] \in Ids
        BY <2>1, DoneStep DEF TypeOK
    <2>3. QED
        BY <2>2, DoneStep DEF TypeOK
<1>2. /\ seen' \in [Clients -> SUBSET DOMAIN codes']
      /\ held' \in [Clients -> {0} \cup DOMAIN codes']
    BY DoneStep
<1>3. QED
    BY <1>1, <1>2, DoneStep DEF TypeOK

\* Every action keeps the variables in their types, and a row that is checked stays locked.
LEMMA TypeStep == TypeOK /\ StoringFollowsStages /\ [Next]_vars => TypeOK'
<1> USE NoneIsNew
<1> SUFFICES ASSUME TypeOK, StoringFollowsStages, [Next]_vars PROVE TypeOK'
    OBVIOUS
<1> DEFINE D == DOMAIN codes
<1>r. Len(codes) \in Nat /\ D = 1..Len(codes) /\ D \subseteq Ids /\ codes \in [D -> Row]
    BY Rows
<1>1. ASSUME NEW c \in Clients, NEW p \in Purposes, NEW a \in Emails, Ask(c, p, a)
      PROVE TypeOK'
    BY <1>1 DEF TypeOK, Ask, Stages
<1>2. ASSUME NEW c \in Clients, StoreReset(c) PROVE TypeOK'
    <2>1. NewRow("reset", addr[c], "unused") \in Row
        BY <1>2 DEF StoreReset, StoringFollowsStages, NewRow, Row, Purposes, Ages
    <2>2. QED
        BY <1>2, <2>1, RowAdded, TypeAfterDone DEF StoreReset, TypeOK
<1>3. ASSUME NEW c \in Clients, Invalidate(c) PROVE TypeOK'
    <2>1. NewRow("change", addr[c], "begun") \in Row
        BY <1>3 DEF Invalidate, StoringFollowsStages, NewRow, Row, Purposes, Ages
    <2>2. /\ codes' \in Seq(Row) /\ Len(codes') <= MaxCodes
          /\ DOMAIN codes' = D \cup {Len(codes) + 1}
        BY <1>3, <2>1, RowAdded DEF Invalidate
    <2>3. Unused("change") \subseteq D
        BY DEF Unused, Stored
    <2>4. QED
        BY <1>3, <2>2, <2>3 DEF TypeOK, Invalidate, Stages
<1>4. ASSUME NEW c \in Clients, StoreChange(c) PROVE TypeOK'
    <2>1. codes' \in [D -> Row]
        BY <1>4, <1>r DEF StoreChange, Row
    <2>2. QED
        BY <1>4, <2>1, RowsUpdated, TypeAfterDone DEF StoreChange, TypeOK
<1>5. ASSUME NEW c \in Clients, NEW p \in Purposes, NEW g \in {0} \cup Unused(p), Present(c, p, g)
      PROVE TypeOK'
    <2>1. Unused(p) \subseteq D
        BY DEF Unused, Stored
    <2>2. QED
        BY <1>5, <1>r, <2>1 DEF TypeOK, Present, Stages
<1>6. ASSUME NEW c \in Clients, NEW i \in D, Take(c, i) PROVE TypeOK'
    <2>1. codes[i].attempts \in Nat /\ i # 0 /\ i \in Ids
        BY <1>r DEF Row
    <2>2. QED
        BY <1>6, <1>r, <2>1 DEF TypeOK, Take, Free, Stages
<1>7. ASSUME NEW c \in Clients, NEW i \in D, PassOver(c, i) PROVE TypeOK'
    BY <1>7 DEF TypeOK, PassOver
<1>8. ASSUME NEW c \in Clients, NoCode(c) \/ Reject(c) \/ Fail(c) PROVE TypeOK'
    BY <1>8, TypeAfterDone DEF NoCode, Reject, Fail, TypeOK
<1>9. ASSUME NEW c \in Clients, WrongCode(c) PROVE TypeOK'
    <2>1. held[c] \in D
        BY <1>9 DEF TypeOK, WrongCode
    <2>2. codes' \in [D -> Row]
        BY <1>9, <1>r, <2>1 DEF WrongCode, Row
    <2>3. QED
        BY <1>9, <2>2, RowsUpdated, TypeAfterDone DEF WrongCode, TypeOK
<1>10. ASSUME NEW c \in Clients, RightCode(c) PROVE TypeOK'
    <2>1. held[c] \in D
        BY <1>10 DEF TypeOK, RightCode
    <2>2. codes' \in [D -> Row] /\ email' \in Emails
        BY <1>10, <1>r, <2>1 DEF RightCode, Row, TypeOK
    <2>3. QED
        BY <1>10, <2>2, RowsUpdated, TypeAfterDone DEF RightCode
<1>11. ASSUME NEW i \in D, Age(i) PROVE TypeOK'
    <2>1. codes' \in [D -> Row]
        BY <1>11, <1>r DEF Age, Row, Ages
    <2>2. QED
        BY <1>11, <2>1, RowsUpdated DEF Age, TypeOK, request
<1>12. CASE UNCHANGED vars
    BY <1>12 DEF TypeOK, vars, request
<1>13. QED
    BY <1>1, <1>2, <1>3, <1>4, <1>5, <1>6, <1>7, <1>8, <1>9, <1>10, <1>11, <1>12 DEF Next

----------------------------------------------------------------------------
(* Rows through a step *)

\* What a step does to row i: a stored row keeps its purpose, a used row does not change, a dated row is stored by its own
\* request only, and a row that is checked is changed by nobody else.
RowKept(i) ==
    /\ i \in DOMAIN codes'
    /\ codes'[i].purpose = codes[i].purpose
    /\ codes[i].state = "used" => codes'[i].state = "used" /\ codes'[i].attempts = codes[i].attempts
    /\ codes[i].state = "unused" => codes'[i].state # "begun"
    /\ codes[i].state = "begun" =>
        \/ codes'[i].state = "begun"
        \/ codes'[i].state = "unused" /\ \E c \in Clients : StoreChange(c) /\ held[c] = i
    /\ \A c \in Clients : lock[i] = c /\ codes[i].state = "unused" /\ pc'[c] = "check" =>
        codes'[i].state = "unused" /\ codes'[i].attempts = codes[i].attempts

\* Every step does at most that to the rows there were.
LEMMA RowStep ==
    ASSUME TypeOK, StoringFollowsStages, ReadingsHold, [Next]_vars
    PROVE  \A i \in DOMAIN codes : RowKept(i)
<1> USE NoneIsNew
<1> DEFINE D == DOMAIN codes
<1>r. D \subseteq Ids /\ codes \in [D -> Row]
    BY Rows
<1>1. CASE UNCHANGED codes
    BY <1>1 DEF RowKept
<1>2. ASSUME NEW c \in Clients, StoreReset(c) \/ Invalidate(c)
      PROVE \A i \in D : RowKept(i)
    <2>1. NewRow("reset", addr[c], "unused") \in Row \/ pc[c] # "store"
        BY <1>2 DEF StoringFollowsStages, NewRow, Row, Purposes, Ages
    <2>2. NewRow("change", addr[c], "begun") \in Row \/ pc[c] # "invalidate"
        BY <1>2 DEF StoringFollowsStages, NewRow, Row, Purposes, Ages
    <2>3. \A i \in D : i \in DOMAIN codes' /\ codes'[i] = codes[i]
        BY <1>2, <2>1, <2>2, RowAdded DEF StoreReset, Invalidate
    <2>4. QED
        BY <2>3 DEF RowKept
<1>3. ASSUME NEW c \in Clients, StoreChange(c) PROVE \A i \in D : RowKept(i)
    <2> SUFFICES ASSUME NEW i \in D PROVE RowKept(i)
        OBVIOUS
    <2>1. /\ DOMAIN codes' = D
          /\ codes'[i] = CASE i \in seen[c] -> [codes[i] EXCEPT !.state = "used"]
                           [] i = held[c]   -> [codes[i] EXCEPT !.state = "unused"]
                           [] OTHER         -> codes[i]
        BY <1>3 DEF StoreChange
    <2>2. codes[i] \in Row /\ pc'[c] = "idle"
        BY <1>3, <1>r, DoneStep DEF StoreChange
    <2>3. CASE i \in seen[c]
        <3>1. lock[i] \in {None, c} /\ codes[i].state # "begun" /\ i # held[c]
            BY <1>3, <2>3 DEF StoreChange, Free, ReadingsHold, StoringFollowsStages
        <3>2. codes'[i] = [codes[i] EXCEPT !.state = "used"]
            BY <2>1, <2>3, <3>1
        <3>3. QED
            BY <2>1, <2>2, <3>1, <3>2 DEF RowKept, Row
    <2>4. CASE i \notin seen[c] /\ i = held[c]
        <3>1. codes[i].state = "begun"
            BY <1>3, <2>4 DEF StoreChange, StoringFollowsStages
        <3>2. codes'[i] = [codes[i] EXCEPT !.state = "unused"]
            BY <2>1, <2>4
        <3>3. QED
            BY <1>3, <2>1, <2>2, <2>4, <3>1, <3>2 DEF RowKept, Row
    <2>5. CASE i \notin seen[c] /\ i # held[c]
        BY <2>1, <2>5 DEF RowKept
    <2>6. QED
        BY <2>3, <2>4, <2>5
<1>4. ASSUME NEW c \in Clients, WrongCode(c) \/ RightCode(c) PROVE \A i \in D : RowKept(i)
    <2> SUFFICES ASSUME NEW i \in D PROVE RowKept(i)
        OBVIOUS
    <2>1. /\ held[c] \in D /\ lock[held[c]] = c /\ codes[held[c]].state = "unused"
          /\ pc'[c] = "idle"
        BY <1>4, DoneStep DEF WrongCode, RightCode, TypeOK, ReadingsHold
    <2>2. CASE i # held[c]
        <3>1. DOMAIN codes' = D /\ codes'[i] = codes[i]
            BY <1>4, <2>1, <2>2 DEF WrongCode, RightCode
        <3>2. QED
            BY <3>1 DEF RowKept
    <2>3. CASE i = held[c]
        <3>1. /\ DOMAIN codes' = D
              /\ \/ codes'[i] = [codes[i] EXCEPT !.attempts = @ + 1]
                 \/ codes'[i] = [codes[i] EXCEPT !.state = "used"]
            BY <1>4, <2>1, <2>3 DEF WrongCode, RightCode
        <3>2. codes[i] \in Row
            BY <1>r
        <3>3. QED
            BY <2>1, <2>3, <3>1, <3>2 DEF RowKept, Row
    <2>4. QED
        BY <2>2, <2>3
<1>5. ASSUME NEW j \in D, Age(j) PROVE \A i \in D : RowKept(i)
    BY <1>5, <1>r DEF Age, RowKept, Row
<1>6. QED
    BY <1>1, <1>2, <1>3, <1>4, <1>5
    DEF Next, Ask, Present, Take, PassOver, NoCode, Reject, Fail, vars

\* Only the row that is checked takes another wrong code.
LEMMA AttemptsStep == IInv /\ [Next]_vars => AttemptsBounded'
<1> SUFFICES ASSUME IInv, [Next]_vars PROVE AttemptsBounded'
    OBVIOUS
<1> TypeOK /\ AttemptsBounded /\ StoringFollowsStages /\ ReadingsHold
    BY DEF IInv
<1> USE LimitsArePositive
<1> DEFINE D == DOMAIN codes
<1>r. codes \in [D -> Row]
    BY Rows
<1>1. ASSUME NEW c \in Clients, StoreReset(c) \/ Invalidate(c) PROVE AttemptsBounded'
    <2>1. \E r \in Row : r.attempts = 0 /\ codes' = Append(codes, r) /\ Len(codes) < MaxCodes
        <3>1. CASE StoreReset(c)
            <4>1. NewRow("reset", addr[c], "unused") \in Row
                BY <3>1 DEF StoreReset, StoringFollowsStages, NewRow, Row, Purposes, Ages
            <4>2. QED
                BY <3>1, <4>1 DEF StoreReset, NewRow
        <3>2. CASE Invalidate(c)
            <4>1. NewRow("change", addr[c], "begun") \in Row
                BY <3>2 DEF Invalidate, StoringFollowsStages, NewRow, Row, Purposes, Ages
            <4>2. QED
                BY <3>2, <4>1 DEF Invalidate, NewRow
        <3>3. QED
            BY <1>1, <3>1, <3>2
    <2>2. QED
        BY <2>1, RowAdded DEF AttemptsBounded
<1>2. ASSUME DOMAIN codes' = D, \A i \in D : codes'[i].attempts = codes[i].attempts
      PROVE AttemptsBounded'
    BY <1>2 DEF AttemptsBounded
<1>3. ASSUME NEW c \in Clients, StoreChange(c) \/ RightCode(c) PROVE AttemptsBounded'
    BY <1>2, <1>3, <1>r DEF StoreChange, RightCode, Row
<1>4. ASSUME NEW c \in Clients, WrongCode(c) PROVE AttemptsBounded'
    <2>1. held[c] \in D /\ codes[held[c]].attempts < MaxAttempts
        BY <1>4 DEF WrongCode, Allowed, TypeOK, ReadingsHold
    <2>2. \A i \in D : codes[i].attempts \in Nat
        BY <1>r DEF Row
    <2>3. QED
        BY <1>4, <1>r, <2>1, <2>2 DEF WrongCode, AttemptsBounded, Row
<1>5. ASSUME NEW i \in D, Age(i) PROVE AttemptsBounded'
    BY <1>2, <1>5, <1>r DEF Age, Row
<1>6. CASE UNCHANGED codes
    BY <1>6 DEF AttemptsBounded
<1>7. QED
    BY <1>1, <1>3, <1>4, <1>5, <1>6
    DEF Next, Ask, Present, Take, PassOver, NoCode, Reject, Fail, vars

\* A request that is storing a code stays the only one to know the row.
LEMMA StoringStep == IInv /\ [Next]_vars => StoringFollowsStages'
<1> USE NoneIsNew
<1> SUFFICES ASSUME IInv, [Next]_vars PROVE StoringFollowsStages'
    OBVIOUS
<1> TypeOK /\ StoringFollowsStages /\ ReadingsHold
    BY DEF IInv
<1> DEFINE D == DOMAIN codes
\* The row of a request that goes on storing is still its own.
<1>1. ASSUME NEW d \in Clients, pc[d] = "insert", pc'[d] = "insert"
      PROVE codes'[held[d]].purpose = "change" /\ codes'[held[d]].state = "begun"
    <2>1. /\ held[d] \in D /\ codes[held[d]].purpose = "change" /\ codes[held[d]].state = "begun"
        BY <1>1 DEF TypeOK, StoringFollowsStages
    <2>2. ASSUME NEW e \in Clients, StoreChange(e), held[e] = held[d] PROVE FALSE
        <3>1. pc[e] = "insert" /\ pc'[e] = "idle"
            BY <2>2, DoneStep DEF StoreChange
        <3>2. e # d
            BY <1>1, <3>1
        <3>3. QED
            BY <1>1, <2>2, <3>1, <3>2 DEF StoringFollowsStages
    <2>3. RowKept(held[d])
        BY <2>1, RowStep
    <2>4. QED
        BY <2>1, <2>2, <2>3 DEF RowKept
<1>2. ASSUME NEW c \in Clients, Done(c) PROVE StoringFollowsStages'
    BY <1>1, <1>2, DoneStep DEF StoringFollowsStages
<1>3. ASSUME NEW c \in Clients, NEW p \in Purposes, NEW a \in Emails, Ask(c, p, a)
      PROVE StoringFollowsStages'
    BY <1>3 DEF Ask, StoringFollowsStages, TypeOK, Purposes
<1>4. ASSUME NEW c \in Clients, Invalidate(c) PROVE StoringFollowsStages'
    <2> DEFINE n == Len(codes) + 1
    <2>1. NewRow("change", addr[c], "begun") \in Row
        BY <1>4 DEF Invalidate, StoringFollowsStages, NewRow, Row, Purposes, Ages
    <2>2. n \notin D /\ codes'[n] = NewRow("change", addr[c], "begun") /\ n # 0
        BY <1>4, <2>1, Rows, RowAdded DEF Invalidate
    <2>3. purpose[c] = "change"
        BY <1>4 DEF Invalidate, StoringFollowsStages
    <2>4. pc'[c] = "insert" /\ held'[c] = n /\ purpose' = purpose /\ addr' = addr
        BY <1>4 DEF Invalidate, TypeOK
    <2>5. \A d \in Clients \ {c} : pc'[d] = pc[d] /\ held'[d] = held[d] /\ held[d] # n
        BY <1>4, <2>2 DEF Invalidate, TypeOK
    <2>6. codes'[n].purpose = "change" /\ codes'[n].state = "begun"
        BY <2>2 DEF NewRow
    <2>7. QED
        BY <1>1, <2>2, <2>3, <2>4, <2>5, <2>6 DEF StoringFollowsStages
<1>5. ASSUME NEW c \in Clients,
             \/ \E p \in Purposes : \E g \in {0} \cup Unused(p) : Present(c, p, g)
             \/ \E i \in D : Take(c, i)
      PROVE StoringFollowsStages'
    <2>1. /\ pc'[c] \in {"wait", "check"} /\ UNCHANGED <<codes, addr>>
          /\ \A d \in Clients \ {c} : pc'[d] = pc[d] /\ held'[d] = held[d] /\ purpose'[d] = purpose[d]
        BY <1>5 DEF Present, Take, TypeOK
    <2>2. QED
        BY <2>1 DEF StoringFollowsStages
<1>6. ASSUME NEW c \in Clients, NEW i \in D, PassOver(c, i) PROVE StoringFollowsStages'
    BY <1>6 DEF PassOver, StoringFollowsStages
<1>7. ASSUME NEW i \in D, Age(i) PROVE StoringFollowsStages'
    BY <1>1, <1>7 DEF Age, request, StoringFollowsStages
<1>8. CASE UNCHANGED vars
    BY <1>8 DEF vars, request, StoringFollowsStages
<1>9. QED
    BY <1>2, <1>3, <1>4, <1>5, <1>6, <1>7, <1>8
    DEF Next, StoreReset, StoreChange, NoCode, Reject, WrongCode, RightCode, Fail

\* What was read under the lock of a row stays true until the request ends.
LEMMA ReadingsStep == IInv /\ [Next]_vars => ReadingsHold'
<1> USE NoneIsNew
<1> SUFFICES ASSUME IInv, [Next]_vars PROVE ReadingsHold'
    OBVIOUS
<1> TypeOK /\ StoringFollowsStages /\ ReadingsHold
    BY DEF IInv
<1> DEFINE D == DOMAIN codes
\* Requests that the step does not concern.
<1>1. ASSUME NEW d \in Clients, pc'[d] = pc[d], held'[d] = held[d], tries'[d] = tries[d],
             seen'[d] \subseteq seen[d]
      PROVE /\ pc'[d] = "check" =>
                codes'[held'[d]].state = "unused" /\ codes'[held'[d]].attempts = tries'[d]
            /\ \A i \in seen'[d] : codes'[i].state # "begun"
    <2>1. ASSUME pc'[d] = "check"
          PROVE codes'[held'[d]].state = "unused" /\ codes'[held'[d]].attempts = tries'[d]
        <3>1. held[d] \in D /\ lock[held[d]] = d
            BY <1>1, <2>1 DEF TypeOK
        <3>2. QED
            BY <1>1, <2>1, <3>1, RowStep DEF RowKept, ReadingsHold
    <2>2. ASSUME NEW i \in seen'[d] PROVE codes'[i].state # "begun"
        <3>1. i \in seen[d] /\ i \in D /\ codes[i].state # "begun"
            BY <1>1, <2>2 DEF TypeOK, ReadingsHold
        <3>2. codes[i].state \in {"begun", "unused", "used"}
            BY <3>1, Rows DEF Row
        <3>3. QED
            BY <3>1, <3>2, RowStep DEF RowKept
    <2>3. QED
        BY <2>1, <2>2
<1>2. ASSUME NEW c \in Clients, Done(c) PROVE ReadingsHold'
    BY <1>1, <1>2, DoneStep DEF ReadingsHold
<1>3. ASSUME NEW c \in Clients, NEW p \in Purposes, NEW a \in Emails, Ask(c, p, a)
      PROVE ReadingsHold'
    BY <1>3 DEF Ask, ReadingsHold, TypeOK
<1>4. ASSUME NEW c \in Clients, Invalidate(c) PROVE ReadingsHold'
    <2>1. /\ pc'[c] = "insert" /\ seen'[c] = Unused("change")
          /\ \A d \in Clients \ {c} : /\ pc'[d] = pc[d] /\ held'[d] = held[d]
                                    /\ tries'[d] = tries[d] /\ seen'[d] = seen[d]
        BY <1>4 DEF Invalidate, TypeOK
    <2>2. \A i \in Unused("change") : codes'[i].state # "begun"
        BY RowStep DEF RowKept, Unused, Stored
    <2>3. QED
        BY <1>1, <2>1, <2>2 DEF ReadingsHold
<1>5. ASSUME NEW c \in Clients, NEW p \in Purposes, NEW g \in {0} \cup Unused(p), Present(c, p, g)
      PROVE ReadingsHold'
    BY <1>5 DEF Present, ReadingsHold, TypeOK, Unused, Stored
<1>6. ASSUME NEW c \in Clients, NEW i \in D, Take(c, i) PROVE ReadingsHold'
    BY <1>6 DEF Take, ReadingsHold, TypeOK
<1>7. ASSUME NEW c \in Clients, NEW i \in D, PassOver(c, i) PROVE ReadingsHold'
    BY <1>7 DEF PassOver, ReadingsHold, TypeOK
<1>8. ASSUME NEW i \in D, Age(i) PROVE ReadingsHold'
    BY <1>1, <1>8 DEF Age, request, ReadingsHold
<1>9. CASE UNCHANGED vars
    BY <1>9 DEF vars, request, ReadingsHold
<1>10. QED
    BY <1>2, <1>3, <1>4, <1>5, <1>6, <1>7, <1>8, <1>9
    DEF Next, StoreReset, StoreChange, NoCode, Reject, WrongCode, RightCode, Fail

----------------------------------------------------------------------------
(* Counting *)

\* The sets that are counted are finite.
LEMMA FiniteParts ==
    ASSUME TypeOK, NEW p \in Purposes
    PROVE  /\ IsFiniteSet(InWindow(p)) /\ IsFiniteSet(Unused(p)) /\ IsFiniteSet(Asking(p))
           /\ Cardinality(InWindow(p)) \in Nat /\ Cardinality(Asking(p)) \in Nat
           /\ Cardinality(Clients) \in Nat
           /\ Cardinality(Asking(p)) <= Cardinality(Clients)
<1>1. IsFiniteSet(DOMAIN codes)
    BY Rows, FS_Interval
<1>2. InWindow(p) \in SUBSET DOMAIN codes /\ Unused(p) \in SUBSET DOMAIN codes
    BY DEF InWindow, Unused, Stored
<1>3. Asking(p) \in SUBSET Clients
    BY DEF Asking
<1>4. QED
    BY <1>1, <1>2, <1>3, ClientsAreFinite, FS_Subset, FS_CardinalityType

\* A row that was stored before a step and is in the window after it was in the window.
LEMMA WindowStep ==
    ASSUME TypeOK, StoringFollowsStages, ReadingsHold, [Next]_vars, NEW p \in Purposes,
           NEW i \in DOMAIN codes, i \in InWindow(p)',
           codes[i].state # "begun"
    PROVE  i \in InWindow(p)
<1> DEFINE D == DOMAIN codes
<1>r. D \subseteq Ids /\ codes \in [D -> Row]
    BY Rows
<1>1. RowKept(i)
    BY RowStep
<1>2. codes'[i].age >= codes[i].age
    <2>1. CASE \E c \in Clients : StoreReset(c) \/ Invalidate(c)
        <3>1. PICK c \in Clients : StoreReset(c) \/ Invalidate(c)
            BY <2>1
        <3>2. \E r \in Row : codes' = Append(codes, r) /\ Len(codes) < MaxCodes
            <4>1. addr[c] \in Emails
                BY <3>1 DEF StoreReset, Invalidate, StoringFollowsStages
            <4>2. /\ NewRow("reset", addr[c], "unused") \in Row
                  /\ NewRow("change", addr[c], "begun") \in Row
                BY <4>1 DEF NewRow, Row, Purposes, Ages
            <4>3. QED
                BY <3>1, <4>2 DEF StoreReset, Invalidate
        <3>3. codes'[i] = codes[i]
            BY <3>2, RowAdded
        <3>4. QED
            BY <1>r, <3>3 DEF Row, Ages
    <2>2. CASE \E c \in Clients : StoreChange(c) \/ WrongCode(c) \/ RightCode(c)
        BY <1>r, <2>2 DEF StoreChange, WrongCode, RightCode, Row, Ages
    <2>3. CASE \E j \in D : Age(j)
        BY <1>r, <2>3 DEF Age, Row, Ages
    <2>4. CASE UNCHANGED codes
        BY <1>r, <2>4 DEF Row, Ages
    <2>5. QED
        BY <2>1, <2>2, <2>3, <2>4
        DEF Next, Ask, Present, Take, PassOver, NoCode, Reject, Fail, vars
<1>4. /\ codes[i].age \in 0..3 /\ codes'[i].age \in 0..3 /\ codes'[i].age < 3
      /\ codes'[i].purpose = p
    <2>1. codes' \in Seq(Row) /\ i \in DOMAIN codes'
        BY TypeStep DEF TypeOK, InWindow, Stored
    <2>2. codes'[i] \in Row
        BY <2>1, LenProperties
    <2>3. QED
        BY <1>r, <2>2 DEF InWindow, Stored, Row, Ages
<1>5. codes[i].age < 3
    <2>1. CASE codes[i].age = 3
        BY <1>2, <1>4, <2>1
    <2>2. QED
        BY <1>4, <2>1
<1>6. QED
    BY <1>1, <1>4, <1>5 DEF RowKept, InWindow, Stored

\* The bound survives a step that counts nothing new.
LEMMA CountKept ==
    ASSUME TypeOK, TypeOK', IssuesCounted, NEW p \in Purposes,
           InWindow(p)' \subseteq InWindow(p), Asking(p)' \subseteq Asking(p)
    PROVE  Cardinality(InWindow(p)') + Cardinality(Asking(p)')
               <= Limit(p) + Cardinality(Clients) - 1
<1>1. /\ Cardinality(InWindow(p)') \in Nat /\ Cardinality(InWindow(p)') <= Cardinality(InWindow(p))
      /\ Cardinality(Asking(p)') \in Nat /\ Cardinality(Asking(p)') <= Cardinality(Asking(p))
    BY FiniteParts, FS_Subset, FS_CardinalityType
<1>2. /\ Cardinality(InWindow(p)) \in Nat /\ Cardinality(Asking(p)) \in Nat
      /\ Cardinality(Clients) \in Nat /\ Limit(p) \in Nat
    BY FiniteParts, LimitsArePositive DEF Limit
<1>3. Cardinality(InWindow(p)) + Cardinality(Asking(p)) <= Limit(p) + Cardinality(Clients) - 1
    BY DEF IssuesCounted
<1>4. QED
    BY <1>1, <1>2, <1>3

\* It survives a request's code taking the place of the request.
LEMMA CountMoved ==
    ASSUME TypeOK, TypeOK', IssuesCounted, NEW p \in Purposes, NEW n, NEW c \in Asking(p),
           InWindow(p)' \subseteq InWindow(p) \cup {n}, Asking(p)' \subseteq Asking(p) \ {c}
    PROVE  Cardinality(InWindow(p)') + Cardinality(Asking(p)')
               <= Limit(p) + Cardinality(Clients) - 1
<1>1. /\ IsFiniteSet(InWindow(p)) /\ IsFiniteSet(Asking(p))
      /\ Cardinality(InWindow(p)) \in Nat /\ Cardinality(Asking(p)) \in Nat
      /\ Cardinality(Clients) \in Nat /\ Limit(p) \in Nat
    BY FiniteParts, LimitsArePositive DEF Limit
<1>2. /\ IsFiniteSet(InWindow(p) \cup {n})
      /\ Cardinality(InWindow(p) \cup {n}) \in Nat
      /\ Cardinality(InWindow(p) \cup {n}) <= Cardinality(InWindow(p)) + 1
    <2>1. IsFiniteSet(InWindow(p) \cup {n})
        BY <1>1, FS_AddElement
    <2>2. \/ Cardinality(InWindow(p) \cup {n}) = Cardinality(InWindow(p))
          \/ Cardinality(InWindow(p) \cup {n}) = Cardinality(InWindow(p)) + 1
        BY <1>1, FS_AddElement
    <2>3. QED
        BY <1>1, <2>1, <2>2
<1>3. /\ IsFiniteSet(Asking(p) \ {c})
      /\ Cardinality(Asking(p) \ {c}) = Cardinality(Asking(p)) - 1
    BY <1>1, FS_RemoveElement
<1>4. /\ Cardinality(InWindow(p)') \in Nat
      /\ Cardinality(InWindow(p)') <= Cardinality(InWindow(p) \cup {n})
      /\ Cardinality(Asking(p)') \in Nat
      /\ Cardinality(Asking(p)') <= Cardinality(Asking(p) \ {c})
    BY <1>2, <1>3, FS_Subset, FS_CardinalityType
<1>5. Cardinality(InWindow(p)) + Cardinality(Asking(p)) <= Limit(p) + Cardinality(Clients) - 1
    BY DEF IssuesCounted
<1>6. QED
    BY <1>1, <1>2, <1>3, <1>4, <1>5

\* A request enters the count only when the quota lets it, with at most the others before it.
LEMMA IssuesStep == IInv /\ [Next]_vars => IssuesCounted'
<1> SUFFICES ASSUME IInv, [Next]_vars, NEW p \in Purposes
             PROVE Cardinality(InWindow(p)') + Cardinality(Asking(p)')
                       <= Limit(p) + Cardinality(Clients) - 1
    BY DEF IssuesCounted, Limit
<1> TypeOK /\ StoringFollowsStages /\ ReadingsHold /\ IssuesCounted
    BY DEF IInv
<1> TypeOK'
    BY TypeStep
<1> DEFINE D == DOMAIN codes
           Bounded == Cardinality(InWindow(p)') + Cardinality(Asking(p)')
                          <= Limit(p) + Cardinality(Clients) - 1
<1>r. codes \in [D -> Row] /\ InWindow(p) \subseteq D
    BY Rows DEF InWindow, Stored
<1>1. ASSUME NEW c \in Clients, NEW q \in Purposes, NEW a \in Emails, Ask(c, q, a)
      PROVE Bounded
    <2>1. InWindow(p)' = InWindow(p)
        BY <1>1 DEF Ask, InWindow, Stored
    <2>2. CASE q = p
        <3>1. Cardinality(InWindow(p)) < Limit(p)
            BY <1>1, <2>2 DEF Ask, Allows
        <3>2. Asking(p)' \in SUBSET Clients
            BY DEF Asking
        <3>3. /\ Cardinality(Asking(p)') \in Nat
              /\ Cardinality(Asking(p)') <= Cardinality(Clients)
            BY <3>2, ClientsAreFinite, FS_Subset, FS_CardinalityType
        <3>4. /\ Cardinality(InWindow(p)) \in Nat /\ Cardinality(Clients) \in Nat
              /\ Limit(p) \in Nat
            BY FiniteParts, LimitsArePositive DEF Limit
        <3>5. QED
            BY <2>1, <3>1, <3>3, <3>4
    <2>3. CASE q # p
        <3>1. Asking(p)' \subseteq Asking(p)
            BY <1>1, <2>3 DEF Ask, Asking, TypeOK
        <3>2. QED
            BY <2>1, <3>1, CountKept
    <2>4. QED
        BY <2>2, <2>3
<1>2. ASSUME NEW c \in Clients, StoreReset(c) PROVE Bounded
    <2> DEFINE n == Len(codes) + 1
    <2>1. NewRow("reset", addr[c], "unused") \in Row
        BY <1>2 DEF StoreReset, StoringFollowsStages, NewRow, Row, Purposes, Ages
    <2>2. /\ DOMAIN codes' = D \cup {n} /\ \A i \in D : codes'[i] = codes[i]
          /\ codes'[n].purpose = "reset"
        BY <1>2, <2>1, RowAdded DEF StoreReset, NewRow
    <2>3. InWindow(p)' \subseteq InWindow(p) \cup {n}
        BY <2>2 DEF InWindow, Stored
    <2>4. Asking(p)' \subseteq Asking(p) \ {c}
        BY <1>2, DoneStep DEF StoreReset, Asking
    <2>5. CASE p = "reset"
        <3>1. c \in Asking(p)
            BY <1>2, <2>5 DEF StoreReset, StoringFollowsStages, Asking
        <3>2. QED
            BY <2>3, <2>4, <3>1, CountMoved
    <2>6. CASE p # "reset"
        BY <2>2, <2>3, <2>4, <2>6, CountKept DEF InWindow, Stored
    <2>7. QED
        BY <2>5, <2>6
<1>3. ASSUME NEW c \in Clients, Invalidate(c) PROVE Bounded
    <2> DEFINE n == Len(codes) + 1
    <2>1. NewRow("change", addr[c], "begun") \in Row
        BY <1>3 DEF Invalidate, StoringFollowsStages, NewRow, Row, Purposes, Ages
    <2>2. /\ DOMAIN codes' = D \cup {n} /\ \A i \in D : codes'[i] = codes[i]
          /\ codes'[n].state = "begun"
        BY <1>3, <2>1, RowAdded DEF Invalidate, NewRow
    <2>3. InWindow(p)' \subseteq InWindow(p)
        BY <2>2 DEF InWindow, Stored
    <2>4. Asking(p)' \subseteq Asking(p)
        BY <1>3 DEF Invalidate, Asking, TypeOK
    <2>5. QED
        BY <2>3, <2>4, CountKept
<1>4. ASSUME NEW c \in Clients, StoreChange(c) PROVE Bounded
    <2> DEFINE n == held[c]
    <2>1. DOMAIN codes' = D /\ n \in D /\ codes[n].purpose = "change" /\ purpose[c] = "change"
        BY <1>4 DEF StoreChange, StoringFollowsStages, TypeOK
    <2>2. \A i \in D \ {n} : codes'[i].state # "begun" => codes[i].state # "begun"
        BY <1>4 DEF StoreChange, ReadingsHold
    <2>3. InWindow(p)' \subseteq InWindow(p) \cup {n}
        <3> SUFFICES ASSUME NEW i \in InWindow(p)', i # n PROVE i \in InWindow(p)
            OBVIOUS
        <3>1. i \in D /\ codes'[i].state # "begun"
            BY <2>1 DEF InWindow, Stored
        <3>2. QED
            BY <2>2, <3>1, WindowStep
    <2>4. Asking(p)' \subseteq Asking(p) \ {c}
        BY <1>4, DoneStep DEF StoreChange, Asking
    <2>5. CASE p = "change"
        <3>1. c \in Asking(p)
            BY <1>4, <2>1, <2>5 DEF StoreChange, Asking
        <3>2. QED
            BY <2>3, <2>4, <3>1, CountMoved
    <2>6. CASE p # "change"
        <3>1. codes'[n].purpose # p
            BY <2>1, <2>6, RowStep DEF RowKept
        <3>2. QED
            BY <2>3, <2>4, <3>1, CountKept DEF InWindow, Stored
    <2>7. QED
        BY <2>5, <2>6
\* Every other step stores nothing and asks for nothing.
<1>5. ASSUME DOMAIN codes' = D, Asking(p)' \subseteq Asking(p),
             \A i \in D : codes[i].state = "begun" => codes'[i].state = "begun"
      PROVE Bounded
    <2>1. InWindow(p)' \subseteq InWindow(p)
        <3> SUFFICES ASSUME NEW i \in InWindow(p)' PROVE i \in InWindow(p)
            OBVIOUS
        <3>1. i \in D /\ codes[i].state # "begun"
            BY <1>5 DEF InWindow, Stored
        <3>2. QED
            BY <3>1, WindowStep
    <2>2. QED
        BY <1>5, <2>1, CountKept
<1>6. ASSUME NEW c \in Clients, Done(c) PROVE Asking(p)' \subseteq Asking(p)
    BY <1>6, DoneStep DEF Asking
<1>7. ASSUME NEW c \in Clients, NoCode(c) \/ Reject(c) \/ Fail(c) PROVE Bounded
    BY <1>5, <1>6, <1>7 DEF NoCode, Reject, Fail
<1>8. ASSUME NEW c \in Clients, WrongCode(c) \/ RightCode(c) PROVE Bounded
    <2>1. held[c] \in D /\ codes[held[c]].state = "unused"
        BY <1>8 DEF WrongCode, RightCode, TypeOK, ReadingsHold
    <2>2. DOMAIN codes' = D /\ \A i \in D : codes[i].state = "begun" => codes'[i].state = "begun"
        BY <1>8, <2>1 DEF WrongCode, RightCode
    <2>3. QED
        BY <1>5, <1>6, <1>8, <2>2 DEF WrongCode, RightCode
<1>9. ASSUME NEW c \in Clients,
             \/ \E q \in Purposes : \E g \in {0} \cup Unused(q) : Present(c, q, g)
             \/ \E i \in D : Take(c, i) \/ PassOver(c, i)
      PROVE Bounded
    BY <1>5, <1>9 DEF Present, Take, PassOver, Asking, TypeOK
<1>10. ASSUME NEW i \in D, Age(i) PROVE Bounded
    BY <1>5, <1>10, <1>r DEF Age, Row, Asking, request
<1>11. CASE UNCHANGED vars
    BY <1>5, <1>11 DEF Asking, vars, request
<1>12. QED
    BY <1>1, <1>2, <1>3, <1>4, <1>7, <1>8, <1>9, <1>10, <1>11 DEF Next

\* Whoever stores a code for an e-mail change has waited for the codes it saw and marks them: the
\* code of another request that is still unused after it is that request's alone.
LEMMA PendingStep == IInv /\ [Next]_vars => PendingHaveHolders'
<1> SUFFICES ASSUME IInv, [Next]_vars PROVE PendingHaveHolders'
    OBVIOUS
<1> TypeOK /\ StoringFollowsStages /\ ReadingsHold
    BY DEF IInv
<1> TypeOK'
    BY TypeStep
<1> DEFINE D == DOMAIN codes
           U == Unused("change")
<1>r. D \subseteq Ids /\ codes \in [D -> Row] /\ U \subseteq D
    BY Rows DEF Unused, Stored
<1>f. PICK f \in [U -> Clients] :
          /\ \A i, j \in U : f[i] = f[j] => i = j
          /\ \A i \in U : pc[f[i]] = "insert" => i \in seen[f[i]]
    BY DEF IInv, PendingHaveHolders
\* A code that was stored and is unused after a step was so before it.
<1>u. ASSUME NEW i \in U', i \in D, codes[i].state # "begun" PROVE i \in U
    BY <1>r, <1>u, RowStep DEF RowKept, Unused, Stored, Row
\* No request begins to store a code, and no code is stored: the holders are those of before.
<1>1. ASSUME U' \subseteq U,
             \A c \in Clients : pc'[c] = "insert" => \A i \in U' :
                 i \in seen'[c] \/ (pc[c] = "insert" /\ seen'[c] = seen[c])
      PROVE PendingHaveHolders'
    <2> DEFINE g == [i \in U' |-> f[i]]
    <2>1. g \in [U' -> Clients]
        BY <1>1, <1>f
    <2>2. \A i, j \in U' : g[i] = g[j] => i = j
        BY <1>1, <1>f
    <2>3. \A i \in U' : pc'[g[i]] = "insert" => i \in seen'[g[i]]
        BY <1>1, <1>f
    <2>4. QED
        BY <2>1, <2>2, <2>3 DEF PendingHaveHolders
<1>2. ASSUME NEW c \in Clients, Done(c), U' \subseteq U PROVE PendingHaveHolders'
    BY <1>1, <1>2, DoneStep
<1>3. ASSUME NEW c \in Clients, StoreReset(c) \/ Invalidate(c) PROVE U' \subseteq U
    <2> DEFINE n == Len(codes) + 1
    <2>1. \E r \in Row : /\ codes' = Append(codes, r) /\ Len(codes) < MaxCodes
                         /\ r.purpose = "reset" \/ r.state = "begun"
        <3>1. addr[c] \in Emails
            BY <1>3 DEF StoreReset, Invalidate, StoringFollowsStages
        <3>2. /\ NewRow("reset", addr[c], "unused") \in Row
              /\ NewRow("change", addr[c], "begun") \in Row
            BY <3>1 DEF NewRow, Row, Purposes, Ages
        <3>3. QED
            BY <1>3, <3>2 DEF StoreReset, Invalidate, NewRow
    <2>2. /\ DOMAIN codes' = D \cup {n} /\ \A i \in D : codes'[i] = codes[i]
          /\ codes'[n].purpose = "reset" \/ codes'[n].state = "begun"
        BY <2>1, RowAdded
    <2>3. QED
        BY <2>2 DEF Unused, Stored
<1>4. ASSUME NEW c \in Clients, StoreReset(c) PROVE PendingHaveHolders'
    BY <1>2, <1>3, <1>4 DEF StoreReset
<1>5. ASSUME NEW c \in Clients, Invalidate(c) PROVE PendingHaveHolders'
    <2>1. seen'[c] = U /\ \A d \in Clients \ {c} : pc'[d] = pc[d] /\ seen'[d] = seen[d]
        BY <1>5 DEF Invalidate, TypeOK
    <2>2. QED
        BY <1>1, <1>3, <1>5, <2>1
<1>6. ASSUME NEW c \in Clients, StoreChange(c) PROVE PendingHaveHolders'
    <2> DEFINE n == held[c]
               g == [i \in U' |-> IF i = n THEN c ELSE f[i]]
    <2>1. /\ n \in D /\ codes[n].state = "begun" /\ pc[c] = "insert"
          /\ DOMAIN codes' = D
          /\ \A i \in seen[c] : codes[i].state # "begun"
        BY <1>6 DEF StoreChange, StoringFollowsStages, ReadingsHold, TypeOK
    <2>2. \A i \in U' \ {n} : i \in U /\ i \notin seen[c]
        <3> SUFFICES ASSUME NEW i \in U', i # n PROVE i \in U /\ i \notin seen[c]
            OBVIOUS
        <3>1. i \in D /\ codes'[i].state = "unused"
            BY <2>1 DEF Unused, Stored
        <3>2. codes[i] \in Row
            BY <1>r, <3>1
        <3>3. codes'[i] = CASE i \in seen[c] -> [codes[i] EXCEPT !.state = "used"]
                            [] i = n         -> [codes[i] EXCEPT !.state = "unused"]
                            [] OTHER         -> codes[i]
            BY <1>6, <3>1 DEF StoreChange
        <3>4. i \notin seen[c]
            <4>1. CASE i \in seen[c]
                <5>1. codes'[i] = [codes[i] EXCEPT !.state = "used"]
                    BY <2>1, <3>3, <4>1
                <5>2. QED
                    BY <3>1, <3>2, <5>1 DEF Row
            <4>2. QED
                BY <4>1
        <3>5. codes'[i] = codes[i]
            BY <3>3, <3>4
        <3>6. QED
            BY <1>u, <3>1, <3>4, <3>5
    <2>3. \A i \in U' \ {n} : f[i] \in Clients \ {c}
        BY <1>f, <2>1, <2>2
    <2>4. g \in [U' -> Clients]
        BY <2>3
    <2>5. \A i, j \in U' : g[i] = g[j] => i = j
        BY <1>f, <2>2, <2>3
    <2>6. /\ pc'[c] = "idle"
          /\ \A d \in Clients \ {c} : pc'[d] = pc[d] /\ seen'[d] = seen[d]
        BY <1>6, DoneStep DEF StoreChange
    <2>7. \A i \in U' : pc'[g[i]] = "insert" => i \in seen'[g[i]]
        BY <1>f, <2>2, <2>3, <2>6
    <2>8. QED
        BY <2>4, <2>5, <2>7 DEF PendingHaveHolders
\* The other steps change no row, or a stored one.
<1>7. ASSUME DOMAIN codes' = D, \A i \in D : codes[i].state = "begun" => codes'[i].state = "begun"
      PROVE U' \subseteq U
    <2> SUFFICES ASSUME NEW i \in U' PROVE i \in U
        OBVIOUS
    <2>1. i \in D /\ codes[i].state # "begun"
        BY <1>7 DEF Unused, Stored
    <2>2. QED
        BY <1>u, <2>1
<1>8. ASSUME NEW c \in Clients, NoCode(c) \/ Reject(c) \/ Fail(c) PROVE PendingHaveHolders'
    BY <1>2, <1>7, <1>8 DEF NoCode, Reject, Fail
<1>9. ASSUME NEW c \in Clients, WrongCode(c) \/ RightCode(c) PROVE PendingHaveHolders'
    <2>1. held[c] \in D /\ codes[held[c]].state = "unused"
        BY <1>9 DEF WrongCode, RightCode, TypeOK, ReadingsHold
    <2>2. DOMAIN codes' = D /\ \A i \in D : codes[i].state = "begun" => codes'[i].state = "begun"
        BY <1>9, <2>1 DEF WrongCode, RightCode
    <2>3. QED
        BY <1>2, <1>7, <1>9, <2>2 DEF WrongCode, RightCode
<1>10. ASSUME NEW c \in Clients,
              \/ \E p \in Purposes, a \in Emails : Ask(c, p, a)
              \/ \E p \in Purposes : \E g \in {0} \cup Unused(p) : Present(c, p, g)
              \/ \E i \in D : Take(c, i)
       PROVE PendingHaveHolders'
    <2>1. /\ pc'[c] # "insert" /\ codes' = codes
          /\ \A d \in Clients \ {c} : pc'[d] = pc[d] /\ seen'[d] = seen[d]
        BY <1>10 DEF Ask, Present, Take, TypeOK
    <2>2. QED
        BY <1>1, <1>7, <2>1
<1>11. ASSUME NEW c \in Clients, NEW i \in D, PassOver(c, i) PROVE PendingHaveHolders'
    <2>1. /\ pc' = pc /\ pc[c] = "wait" /\ codes' = codes
          /\ \A d \in Clients \ {c} : seen'[d] = seen[d]
        BY <1>11 DEF PassOver, TypeOK
    <2>2. QED
        BY <1>1, <1>7, <2>1
<1>12. ASSUME NEW i \in D, Age(i) PROVE PendingHaveHolders'
    <2>1. pc' = pc /\ seen' = seen
        BY <1>12 DEF Age, request
    <2>2. DOMAIN codes' = D /\ \A j \in D : codes'[j].state = codes[j].state
        BY <1>12, <1>r DEF Age, Row
    <2>3. QED
        BY <1>1, <1>7, <2>1, <2>2
<1>13. CASE UNCHANGED vars
    BY <1>1, <1>7, <1>13 DEF vars, request
<1>14. QED
    BY <1>4, <1>5, <1>6, <1>8, <1>9, <1>10, <1>11, <1>12, <1>13 DEF Next

----------------------------------------------------------------------------
(* The theorems *)

\* The inductive invariant: what requests have read of rows they have locked or seen stays true
\* (the transactions of password/postgres.go and emailchange/postgres.go).
THEOREM Invariant == Spec => []IInv
<1>1. Init => IInv
    <2> SUFFICES ASSUME Init PROVE IInv
        OBVIOUS
    <2>1. codes \in Seq(Row) /\ Len(codes) = 0 /\ DOMAIN codes = {}
        <3>1. codes = <<>> /\ codes \in Seq(Row)
            BY EmptySeq DEF Init
        <3>2. Len(codes) = 0
            BY <3>1, EmptySeq
        <3>3. QED
            BY <3>1, <3>2
    <2>2. TypeOK
        BY <2>1, LimitsArePositive DEF Init, TypeOK, Stages, Purposes
    <2>3. AttemptsBounded
        BY <2>1 DEF AttemptsBounded
    <2>4. StoringFollowsStages /\ ReadingsHold
        BY DEF Init, StoringFollowsStages, ReadingsHold
    <2>5. IssuesCounted
        <3> SUFFICES ASSUME NEW p \in Purposes
                     PROVE Cardinality(InWindow(p)) + Cardinality(Asking(p))
                               <= Limit(p) + Cardinality(Clients) - 1
            BY DEF IssuesCounted
        <3>1. InWindow(p) = {} /\ Asking(p) = {}
            BY <2>1 DEF Init, InWindow, Stored, Asking
        <3>2. Cardinality(InWindow(p)) = 0 /\ Cardinality(Asking(p)) = 0
            BY <3>1, FS_EmptySet
        <3>3. Cardinality(Clients) \in Nat
            BY ClientsAreFinite, FS_CardinalityType
        <3>4. Limit(p) \in Nat \ {0}
            BY LimitsArePositive DEF Limit
        <3>5. QED
            BY <3>2, <3>3, <3>4
    <2>6. PendingHaveHolders
        <3>1. Unused("change") = {}
            BY <2>1 DEF Unused, Stored
        <3>2. [i \in {} |-> {}] \in [Unused("change") -> Clients]
            BY <3>1
        <3>3. QED
            BY <3>1, <3>2 DEF PendingHaveHolders
    <2>7. QED
        BY <2>2, <2>3, <2>4, <2>5, <2>6 DEF IInv
<1>2. IInv /\ [Next]_vars => IInv'
    <2>1. IInv /\ [Next]_vars => TypeOK'
        BY TypeStep DEF IInv
    <2>2. QED
        BY <2>1, AttemptsStep, StoringStep, ReadingsStep, IssuesStep, PendingStep DEF IInv
<1>3. QED
    BY <1>1, <1>2, PTL DEF Spec

\* The variables stay in their types, and a row that is checked is locked by its request.
THEOREM TypeCorrect == Spec => []TypeOK
<1>1. IInv => TypeOK
    BY DEF IInv
<1>2. QED
    BY <1>1, Invariant, PTL

\* A code never counts more wrong tries than it allows, however many are presented at once.
THEOREM AttemptsLimited == Spec => []AttemptsBounded
<1>1. IInv => AttemptsBounded
    BY DEF IInv
<1>2. QED
    BY <1>1, Invariant, PTL

\* Requests at once exceed the quota by one each at most.
THEOREM IssuesLimited == Spec => []IssuesBounded
<1>1. IInv => IssuesBounded
    <2> SUFFICES ASSUME IInv, NEW p \in Purposes
                 PROVE Cardinality(InWindow(p)) <= Limit(p) + Cardinality(Clients) - 1
        BY DEF IssuesBounded
    <2>1. TypeOK
        BY DEF IInv
    <2>2. /\ Cardinality(InWindow(p)) \in Nat /\ Cardinality(Asking(p)) \in Nat
          /\ Cardinality(Clients) \in Nat /\ Limit(p) \in Nat
        BY <2>1, FiniteParts, LimitsArePositive DEF Limit
    <2>3. Cardinality(InWindow(p)) + Cardinality(Asking(p)) <= Limit(p) + Cardinality(Clients) - 1
        BY DEF IInv, IssuesCounted
    <2>4. QED
        BY <2>2, <2>3
<1>2. QED
    BY <1>1, Invariant, PTL

\* There are no more unused codes for an e-mail change than requests.
THEOREM PendingChangesLimited == Spec => []PendingChangesBounded
<1>1. IInv => PendingChangesBounded
    <2> SUFFICES ASSUME IInv PROVE PendingChangesBounded
        OBVIOUS
    <2>1. PICK f \in [Unused("change") -> Clients] :
              \A i, j \in Unused("change") : f[i] = f[j] => i = j
        BY DEF IInv, PendingHaveHolders
    <2>2. IsInjective(f)
        BY <2>1 DEF IsInjective
    <2>3. QED
        BY <2>1, <2>2, ClientsAreFinite, FS_Injection DEF PendingChangesBounded, Injection
<1>2. QED
    BY <1>1, Invariant, PTL

\* A used code takes no more tries and no more effect.
THEOREM UsedStaysUsed == Spec => UsedCodesAreInert
<1>1. IInv /\ [Next]_vars =>
          [\A i \in DOMAIN codes : codes[i].state = "used" =>
              /\ codes'[i].state = "used"
              /\ codes'[i].attempts = codes[i].attempts
              /\ \A c \in Clients : held[c] = i => ~RightCode(c)]_vars
    <2> SUFFICES ASSUME IInv, [Next]_vars, NEW i \in DOMAIN codes, codes[i].state = "used"
                 PROVE  /\ codes'[i].state = "used"
                        /\ codes'[i].attempts = codes[i].attempts
                        /\ \A c \in Clients : held[c] = i => ~RightCode(c)
        OBVIOUS
    <2>1. TypeOK /\ StoringFollowsStages /\ ReadingsHold
        BY DEF IInv
    <2>2. codes'[i].state = "used" /\ codes'[i].attempts = codes[i].attempts
        BY <2>1, RowStep DEF RowKept
    <2>3. \A c \in Clients : held[c] = i => ~RightCode(c)
        BY <2>1 DEF RightCode, ReadingsHold
    <2>4. QED
        BY <2>2, <2>3
<1>2. QED
    BY <1>1, Invariant, PTL DEF Spec, UsedCodesAreInert

============================================================================
