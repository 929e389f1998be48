--------------------------- MODULE AccountProofs ---------------------------
(* Theorems about Account, for every set of passwords, requests and session slots. *)
EXTENDS Account, FiniteSetTheorems, TLAPS

\* Every action keeps the variables in their types, and the row stays locked only by a
\* request whose transaction is under way.
LEMMA TypeStep == TypeOK /\ [Next]_vars => TypeOK'
<1> USE NoneIsNew, AttemptsArePositive
<1> SUFFICES ASSUME TypeOK, [Next]_vars PROVE TypeOK'
    OBVIOUS
<1>1. ASSUME NEW c \in Clients, NEW p \in Passwords, Verify(c, p) PROVE TypeOK'
    BY <1>1 DEF TypeOK, Verify, Goto, row, Stages
<1>2. ASSUME NEW c \in Clients, RecordFailure(c) PROVE TypeOK'
    BY <1>2 DEF TypeOK, RecordFailure, Done, Goto, Stages
<1>3. ASSUME NEW c \in Clients, ResetFailures(c) PROVE TypeOK'
    <2>1. failed' \in 0..CounterBound /\ guesses' \in Nat /\ late' \in Nat
        BY <1>3 DEF ResetFailures, Reopen
    <2>2. locked' \in BOOLEAN
        BY <1>3 DEF ResetFailures
    <2>3. QED
        BY <1>3, <2>1, <2>2 DEF TypeOK, ResetFailures, Goto, args, Stages
<1>4. ASSUME NEW c \in Clients, NEW f \in Slots, Issue(c, f) PROVE TypeOK'
    BY <1>4 DEF TypeOK, Issue, Done, Goto, row, Stages
<1>5. ASSUME NEW c \in Clients, NEW p \in Passwords, NEW new \in Passwords,
             VerifyCurrent(c, p, new)
      PROVE TypeOK'
    BY <1>5 DEF TypeOK, VerifyCurrent, Goto, row, Stages
<1>6. ASSUME NEW c \in Clients, NEW new \in Passwords, AcceptCode(c, new) PROVE TypeOK'
    BY <1>6 DEF TypeOK, AcceptCode, Goto, row, Stages
<1>7. ASSUME NEW c \in Clients, SetPassword(c) PROVE TypeOK'
    BY <1>7 DEF TypeOK, SetPassword, Goto, row, args, Stages
<1>8. ASSUME NEW c \in Clients, RevokeAllFamilies(c) PROVE TypeOK'
    BY <1>8 DEF TypeOK, RevokeAllFamilies, Goto, row, Stages
<1>9. ASSUME NEW c \in Clients, Commit(c) PROVE TypeOK'
    <2>1. failed' \in 0..CounterBound /\ guesses' \in Nat /\ late' \in Nat
        BY <1>9 DEF Commit, Reopen
    <2>2. locked' \in BOOLEAN
        BY <1>9 DEF Commit
    <2>3. QED
        BY <1>9, <2>1, <2>2 DEF TypeOK, Commit, Done, Goto, Stages
<1>10. ASSUME NEW c \in Clients, Fail(c) PROVE TypeOK'
    BY <1>10 DEF TypeOK, Fail, Done, Goto, row, Stages
<1>11. CASE LockExpires
    BY <1>11 DEF TypeOK, LockExpires, Reopen, args
<1>12. CASE SetStatus
    BY <1>12 DEF TypeOK, SetStatus, args
<1>13. CASE UNCHANGED vars
    BY <1>13 DEF TypeOK, vars, row, args
<1>14. QED
    BY <1>1, <1>2, <1>3, <1>4, <1>5, <1>6, <1>7, <1>8, <1>9, <1>10, <1>11, <1>12, <1>13 DEF Next

----------------------------------------------------------------------------
(* What a step does to the counters and to the requests about to record a failure. *)

\* The sizes of sets of requests.
LEMMA Sizes ==
    ASSUME NEW S \in SUBSET Clients, NEW T \in SUBSET S
    PROVE  /\ Cardinality(S) \in Nat
           /\ Cardinality(T) \in Nat
           /\ Cardinality(T) <= Cardinality(S)
           /\ Cardinality(S) <= Cardinality(Clients)
           /\ Cardinality(Clients) \in Nat \ {0}
<1>1. IsFiniteSet(Clients) /\ IsFiniteSet(S) /\ IsFiniteSet(T)
    BY ClientsAssumption, FS_Subset
<1>2. Cardinality(Clients) # 0
    BY <1>1, ClientsAssumption, FS_EmptySet
<1>3. QED
    BY <1>1, <1>2, FS_Subset, FS_CardinalityType

\* Taking one request out of a set.
LEMMA OneLess ==
    ASSUME NEW S \in SUBSET Clients, NEW c \in S
    PROVE  Cardinality(S \ {c}) = Cardinality(S) - 1
<1>1. IsFiniteSet(S)
    BY ClientsAssumption, FS_Subset
<1>2. QED
    BY <1>1, FS_RemoveElement

\* Apart from the login's own two outcomes a step either leaves the counters and the lock as
\* they are, or opens the account to guesses again; and nobody new is about to record a failure.
LEMMA CounterSteps ==
    ASSUME TypeOK, [Next]_vars
    PROVE  \/ \E c \in Clients, p \in Passwords : Verify(c, p)
           \/ \E c \in Clients : RecordFailure(c)
           \/ /\ Failing' \subseteq Failing
              /\ Harmless' \subseteq Harmless
              /\ \/ UNCHANGED <<failed, locked, guesses, late>>
                 \/ Reopen /\ ~locked' /\ failed' \in Nat
<1> DEFINE Quiet == Failing' \subseteq Failing /\ Harmless' \subseteq Harmless
<1>1. ASSUME NEW c \in Clients, pc'[c] # "failed",
             \A d \in Clients \ {c} : pc'[d] = pc[d] /\ seen'[d] = seen[d]
      PROVE Quiet
    BY <1>1 DEF Failing, Harmless, Locks
<1>2. CASE UNCHANGED <<pc, seen>>
    <2>1. Quiet
        BY <1>2 DEF Failing, Harmless, Locks
    <2>2. LockExpires \/ SetStatus \/ UNCHANGED vars \/
          \E c \in Clients : \/ \E p \in Passwords : Verify(c, p)
                             \/ RecordFailure(c) 
        BY <1>2 DEF TypeOK, Next, ResetFailures, Issue, VerifyCurrent, AcceptCode, SetPassword,
            RevokeAllFamilies, Commit, Fail, Done, Goto
    <2>3. QED
        BY <2>1, <2>2 DEF TypeOK, LockExpires, SetStatus, vars, row, Reopen
<1>3. ASSUME NEW c \in Clients,
             \/ ResetFailures(c) \/ \E f \in Slots : Issue(c, f)
             \/ \E p, new \in Passwords : VerifyCurrent(c, p, new)
             \/ \E new \in Passwords : AcceptCode(c, new)
             \/ SetPassword(c) \/ RevokeAllFamilies(c) \/ Commit(c) \/ Fail(c)
      PROVE /\ Quiet
            /\ \/ UNCHANGED <<failed, locked, guesses, late>>
               \/ Reopen /\ ~locked' /\ failed' \in Nat
    <2>1. /\ pc'[c] # "failed"
          /\ \A d \in Clients \ {c} : pc'[d] = pc[d] /\ seen'[d] = seen[d]
        BY <1>3 DEF TypeOK, ResetFailures, Issue, VerifyCurrent, AcceptCode, SetPassword,
            RevokeAllFamilies, Commit, Fail, Done, Goto, args
    <2>2. \/ UNCHANGED <<failed, locked, guesses, late>>
          \/ Reopen /\ ~locked' /\ failed' \in Nat
        BY <1>3 DEF TypeOK, ResetFailures, Issue, VerifyCurrent, AcceptCode, SetPassword,
            RevokeAllFamilies, Commit, Fail, Done, Goto, row, Reopen
    <2>3. QED
        BY <1>1, <2>1, <2>2
<1>4. CASE LockExpires \/ SetStatus \/ UNCHANGED vars
    BY <1>2, <1>4 DEF LockExpires, SetStatus, vars, args
<1>5. QED
    BY <1>3, <1>4 DEF Next

\* Recording a failure: one request less, one guess more.
LEMMA RecordStep ==
    ASSUME TypeOK, NEW c \in Clients, RecordFailure(c)
    PROVE  /\ c \in Failing
           /\ Failing' = Failing \ {c}
           /\ Harmless' = Harmless \ {c}
           /\ failed' = failed + 1 /\ guesses' = guesses + 1
           /\ locked \/ c \notin Harmless => locked'
           /\ ~locked /\ c \in Harmless => ~locked'
           /\ late' = IF locked THEN late + 1 ELSE 0
    BY DEF TypeOK, RecordFailure, Done, Goto, Failing, Harmless, Locks

\* Verifying a password: the account is not locked, and one request may be about to fail.
LEMMA VerifyStep ==
    ASSUME TypeOK, NEW c \in Clients, NEW p \in Passwords, Verify(c, p)
    PROVE  /\ ~locked
           /\ UNCHANGED <<failed, locked, guesses, late>>
           /\ Failing' \subseteq Failing \cup {c}
           /\ failed + 1 >= MaxAttempts => Harmless' \subseteq Harmless
    BY DEF TypeOK, Verify, Goto, row, Failing, Harmless, Locks

----------------------------------------------------------------------------

\* The counter of the row counts every guess: the two go up together, and whatever opens the
\* account again clears the guesses.
LEMMA NoFailureLostStep == IInv /\ [Next]_vars => NoFailureLost'
<1> SUFFICES ASSUME IInv, [Next]_vars PROVE NoFailureLost'
    OBVIOUS
<1> TypeOK /\ NoFailureLost
    BY DEF IInv
<1> USE DEF NoFailureLost
<1>1. ASSUME NEW c \in Clients, NEW p \in Passwords, Verify(c, p) PROVE NoFailureLost'
    BY <1>1, VerifyStep
<1>2. ASSUME NEW c \in Clients, RecordFailure(c) PROVE NoFailureLost'
    BY <1>2, RecordStep DEF TypeOK
<1>3. CASE UNCHANGED <<failed, locked, guesses, late>> \/ (Reopen /\ failed' \in Nat)
    BY <1>3 DEF Reopen
<1>4. QED
    BY <1>1, <1>2, <1>3, CounterSteps

\* The attempts that are answered under a lock were under way when it was set.
LEMMA LateStep == IInv /\ [Next]_vars => LateCounted'
<1> SUFFICES ASSUME IInv, [Next]_vars PROVE LateCounted'
    OBVIOUS
<1> TypeOK /\ LateCounted /\ TypeOK'
    BY TypeStep DEF IInv
<1> DEFINE N == Cardinality(Clients)
<1>1. /\ Failing \in SUBSET Clients /\ Failing' \in SUBSET Clients
      /\ N \in Nat \ {0} /\ Cardinality(Failing) \in Nat /\ Cardinality(Failing') \in Nat
    <2>1. Failing \in SUBSET Clients /\ Failing' \in SUBSET Clients
        BY DEF Failing
    <2>2. QED
        BY <2>1, Sizes
<1>2. ASSUME NEW c \in Clients, NEW p \in Passwords, Verify(c, p) PROVE LateCounted'
    BY <1>2, VerifyStep DEF LateCounted
<1>3. ASSUME NEW c \in Clients, RecordFailure(c) PROVE LateCounted'
    <2>1. Cardinality(Failing') = Cardinality(Failing) - 1 /\ Cardinality(Failing) <= N
        BY <1>1, <1>3, RecordStep, OneLess, Sizes
    <2>2. late \in Nat /\ late' = IF locked THEN late + 1 ELSE 0
        BY <1>3, RecordStep DEF TypeOK
    <2>3. CASE locked
        BY <1>1, <1>3, <2>1, <2>2, <2>3, RecordStep DEF LateCounted
    <2>4. CASE ~locked
        BY <1>1, <2>1, <2>2, <2>4 DEF LateCounted
    <2>5. QED
        BY <2>3, <2>4
<1>4. CASE UNCHANGED <<failed, locked, guesses, late>> /\ Failing' \subseteq Failing
    <2>1. Cardinality(Failing') <= Cardinality(Failing)
        BY <1>1, <1>4, Sizes
    <2>2. QED
        BY <1>1, <1>4, <2>1 DEF LateCounted, TypeOK
<1>5. CASE Reopen /\ ~locked'
    BY <1>5 DEF LateCounted, Reopen
<1>6. QED
    BY <1>2, <1>3, <1>4, <1>5, CounterSteps

\* Where the guesses come from.  Below the threshold they are counted by the row, and every
\* request may be about to add one; from the threshold on no harmless copy is read any more.
LEMMA GuessStep == IInv /\ [Next]_vars => GuessesCounted'
<1> USE AttemptsArePositive
<1> SUFFICES ASSUME IInv, [Next]_vars PROVE GuessesCounted'
    OBVIOUS
<1> TypeOK /\ TypeOK' /\ NoFailureLost /\ LateCounted /\ GuessesCounted
    BY TypeStep DEF IInv
<1> DEFINE N == Cardinality(Clients)
           H == Cardinality(Harmless)
<1>1. /\ Harmless \in SUBSET Clients /\ Harmless' \in SUBSET Clients
      /\ N \in Nat \ {0} /\ H \in Nat /\ H' \in Nat
      /\ H <= N /\ H' <= N
    <2>1. Harmless \in SUBSET Clients /\ Harmless' \in SUBSET Clients
        BY DEF Harmless, Failing
    <2>2. QED
        BY <2>1, Sizes
<1>2. MaxAttempts = 1 => H' = 0
    <2>1. MaxAttempts = 1 => Harmless' = {}
        BY DEF Harmless, Failing, Locks, TypeOK
    <2>2. QED
        BY <2>1, FS_EmptySet
\* An account that is open: no guess yet, or one request is not about to fail.
<1>3. ASSUME guesses' = 0, ~locked' PROVE GuessesCounted'
    <2>1. H' <= MaxAttempts + N - 2
        BY <1>1, <1>2
    <2>2. QED
        BY <1>1, <1>3, <2>1 DEF GuessesCounted
<1>4. ASSUME NEW c \in Clients, NEW p \in Passwords, Verify(c, p) PROVE GuessesCounted'
    <2>1. CASE failed + 1 >= MaxAttempts
        <3>1. H' <= H
            BY <1>1, <1>4, <2>1, VerifyStep, Sizes
        <3>2. QED
            BY <1>1, <1>4, <3>1, VerifyStep DEF GuessesCounted, TypeOK
    <2>2. CASE failed + 1 < MaxAttempts
        <3>1. guesses <= MaxAttempts - 2
            BY <2>2 DEF NoFailureLost, TypeOK
        <3>2. QED
            BY <1>1, <1>4, <3>1, VerifyStep DEF GuessesCounted, TypeOK
    <2>3. QED
        BY <2>1, <2>2 DEF TypeOK
<1>5. ASSUME NEW c \in Clients, RecordFailure(c) PROVE GuessesCounted'
    <2>1. /\ guesses \in Nat /\ guesses' = guesses + 1
          /\ late \in Nat /\ late' = IF locked THEN late + 1 ELSE 0
          /\ locked \/ c \notin Harmless => locked'
          /\ ~locked /\ c \in Harmless => ~locked'
        BY <1>5, RecordStep DEF TypeOK
    <2>2. CASE locked
        BY <1>1, <2>1, <2>2 DEF GuessesCounted
    <2>3. CASE ~locked /\ c \notin Harmless
        BY <1>1, <2>1, <2>3 DEF GuessesCounted
    <2>4. CASE ~locked /\ c \in Harmless
        <3>1. H' = H - 1
            BY <1>1, <1>5, <2>4, RecordStep, OneLess
        <3>2. QED
            BY <1>1, <2>1, <2>4, <3>1 DEF GuessesCounted
    <2>5. QED
        BY <2>2, <2>3, <2>4
<1>6. CASE UNCHANGED <<failed, locked, guesses, late>> /\ Harmless' \subseteq Harmless
    <2>1. H' <= H
        BY <1>1, <1>6, Sizes
    <2>2. QED
        BY <1>1, <1>6, <2>1 DEF GuessesCounted, TypeOK
<1>7. CASE Reopen /\ ~locked'
    BY <1>3, <1>7 DEF Reopen
<1>8. QED
    BY <1>4, <1>5, <1>6, <1>7, CounterSteps

----------------------------------------------------------------------------
(* The theorems *)

\* The inductive invariant holds in every reachable state.
THEOREM Invariant == Spec => []IInv
<1>1. Init => IInv
    <2> SUFFICES ASSUME Init PROVE IInv
        OBVIOUS
    <2>1. TypeOK
        <3>1. locked \in BOOLEAN /\ active \in BOOLEAN
            BY DEF Init
        <3>2. QED
            BY <3>1, NoneIsNew, AttemptsArePositive DEF Init, TypeOK, Stages
    <2>2. Failing = {} /\ Harmless = {}
        BY DEF Init, Failing, Harmless
    <2>3. Cardinality(Clients) \in Nat \ {0}
        BY Sizes
    <2>4. Cardinality(Harmless) = 0
        BY <2>2, FS_EmptySet
    <2>5. NoFailureLost /\ LateCounted /\ GuessesCounted
        BY <2>3, <2>4, AttemptsArePositive DEF Init, NoFailureLost, LateCounted, GuessesCounted
    <2>6. QED
        BY <2>1, <2>5 DEF IInv
<1>2. IInv /\ [Next]_vars => IInv'
    BY TypeStep, NoFailureLostStep, LateStep, GuessStep DEF IInv
<1>3. QED
    BY <1>1, <1>2, PTL DEF Spec

\* The variables keep their types, and only a transaction under way holds the row.
THEOREM TypeCorrect == Spec => []TypeOK
<1>1. IInv => TypeOK
    BY DEF IInv
<1>2. QED
    BY <1>1, Invariant, PTL

\* Concurrent failures all count: the row never shows fewer than were recorded.
THEOREM FailuresCount == Spec => []NoFailureLost
<1>1. IInv => NoFailureLost
    BY DEF IInv
<1>2. QED
    BY <1>1, Invariant, PTL

\* With any number of requests at once, a lock lets at most the others finish.
THEOREM LockStops == Spec => []LockStopsGuesses
<1>1. IInv => LockStopsGuesses
    <2> SUFFICES ASSUME IInv PROVE LockStopsGuesses
        OBVIOUS
    <2>1. Failing \in SUBSET Clients
        BY DEF Failing
    <2>2. Cardinality(Failing) \in Nat /\ Cardinality(Clients) \in Nat \ {0}
        BY <2>1, Sizes
    <2>3. QED
        BY <2>2 DEF IInv, TypeOK, LateCounted, LockStopsGuesses
<1>2. QED
    BY <1>1, Invariant, PTL

\* The price of deciding on a copy, for every threshold and every number of requests.
THEOREM GuessBound == Spec => []GuessesBounded
<1>1. IInv => GuessesBounded
    <2> SUFFICES ASSUME IInv PROVE GuessesBounded
        OBVIOUS
    <2>1. Failing \in SUBSET Clients /\ Harmless \in SUBSET Clients
        BY DEF Failing, Harmless
    <2>2. /\ Cardinality(Failing) \in Nat /\ Cardinality(Harmless) \in Nat
          /\ Cardinality(Clients) \in Nat \ {0}
        BY <2>1, Sizes
    <2>3. QED
        BY <2>2, AttemptsArePositive DEF IInv, TypeOK, LateCounted, GuessesCounted, GuessesBounded
<1>2. QED
    BY <1>1, Invariant, PTL

============================================================================
