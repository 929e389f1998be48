---------------------------- MODULE PanelProofs ----------------------------
(* Theorems about Panel, for every set of tokens, tabs and calls. *)
EXTENDS Panel, TLAPS

(* The server's tokens *)

\* What the handlers do to the tokens.
TokenStep ==
    \/ UNCHANGED tokens
    \/ \E n \in Tokens : Chain!Open(User, n)
    \/ \E t, n \in Tokens : Chain!Exchange(t, n)
    \/ \E F \in SUBSET Tokens : Chain!Close(F)

\* A stored token stays stored, in its family, and every family was opened.
LEMMA TokensGrow ==
    ASSUME TypeOK, FamiliesAreStored, TokenStep
    PROVE  /\ status' \in [Tokens -> {"absent", "live", "revoked"}]
           /\ family' \in [Tokens -> Tokens \cup {None}]
           /\ owner' \in [Tokens -> {User, None}]
           /\ Stored \subseteq Stored'
           /\ \A t \in Stored : family'[t] = family[t]
           /\ \A t \in Stored' : family'[t] \in Stored'
<1>1. ASSUME NEW n \in Tokens, Chain!Open(User, n) PROVE
           /\ status' \in [Tokens -> {"absent", "live", "revoked"}]
           /\ family' \in [Tokens -> Tokens \cup {None}]
           /\ owner' \in [Tokens -> {User, None}]
           /\ Stored \subseteq Stored'
           /\ \A t \in Stored : family'[t] = family[t]
           /\ \A t \in Stored' : family'[t] \in Stored'
    BY <1>1 DEF Chain!Open, TypeOK, FamiliesAreStored, Stored
<1>2. ASSUME NEW t \in Tokens, NEW n \in Tokens, Chain!Exchange(t, n) PROVE
           /\ status' \in [Tokens -> {"absent", "live", "revoked"}]
           /\ family' \in [Tokens -> Tokens \cup {None}]
           /\ owner' \in [Tokens -> {User, None}]
           /\ Stored \subseteq Stored'
           /\ \A s \in Stored : family'[s] = family[s]
           /\ \A s \in Stored' : family'[s] \in Stored'
    BY <1>2 DEF Chain!Exchange, TypeOK, FamiliesAreStored, Stored
<1>3. ASSUME NEW F \in SUBSET Tokens, Chain!Close(F) PROVE
           /\ status' \in [Tokens -> {"absent", "live", "revoked"}]
           /\ family' \in [Tokens -> Tokens \cup {None}]
           /\ owner' \in [Tokens -> {User, None}]
           /\ Stored \subseteq Stored'
           /\ \A t \in Stored : family'[t] = family[t]
           /\ \A t \in Stored' : family'[t] \in Stored'
    BY <1>3 DEF Chain!Close, TypeOK, FamiliesAreStored, Stored
<1>4. CASE UNCHANGED tokens
    BY <1>4 DEF tokens, TypeOK, FamiliesAreStored, Stored
<1>5. QED
    BY <1>1, <1>2, <1>3, <1>4 DEF TokenStep

\* A token is live after a step if it was, or if it is the new one.
LEMMA LiveAfter ==
    /\ \A n \in Tokens : TypeOK /\ Chain!Open(User, n) =>
        /\ status[n] = "absent" /\ status'[n] = "live" /\ family'[n] = n
        /\ \A t \in Tokens \ {n} : status'[t] = status[t]
    /\ \A t, n \in Tokens : TypeOK /\ Chain!Exchange(t, n) =>
        /\ status[t] = "live" /\ status[n] = "absent"
        /\ status'[n] = "live" /\ family'[n] = family[t]
        /\ \A s \in Tokens \ {n} : status'[s] = "live" => status[s] = "live"
    /\ \A F \in SUBSET Tokens : TypeOK /\ Chain!Close(F) =>
        /\ family' = family
        /\ \A t \in Tokens : status'[t] = "live" => status[t] = "live" /\ family[t] \notin F
<1>1. ASSUME NEW n \in Tokens, TypeOK, Chain!Open(User, n)
      PROVE  /\ status[n] = "absent" /\ status'[n] = "live" /\ family'[n] = n
             /\ \A t \in Tokens \ {n} : status'[t] = status[t]
    BY <1>1 DEF Chain!Open, TypeOK
<1>2. ASSUME NEW t \in Tokens, NEW n \in Tokens, TypeOK, Chain!Exchange(t, n)
      PROVE  /\ status[t] = "live" /\ status[n] = "absent"
             /\ status'[n] = "live" /\ family'[n] = family[t]
             /\ \A s \in Tokens \ {n} : status'[s] = "live" => status[s] = "live"
    BY <1>2 DEF Chain!Exchange, TypeOK
<1>3. ASSUME NEW F \in SUBSET Tokens, TypeOK, Chain!Close(F)
      PROVE  /\ family' = family
             /\ \A t \in Tokens : status'[t] = "live" => status[t] = "live" /\ family[t] \notin F
    BY <1>3 DEF Chain!Close, TypeOK
<1>4. QED
    BY <1>1, <1>2, <1>3

\* No token of a family that was logged out is live after a step that opens or exchanges one.
LEMMA LoggedOutStep ==
    ASSUME TypeOK, FamiliesAreStored, LoggedOutStaysOut, TokenStep, ended' = ended
    PROVE  LoggedOutStaysOut'
<1> SUFFICES ASSUME NEW t \in Tokens, status'[t] = "live" PROVE family'[t] \notin ended
    BY DEF LoggedOutStaysOut
<1>1. CASE status[t] = "live"
    <2>1. t \in Stored
        BY <1>1 DEF Stored
    <2>2. family'[t] = family[t]
        BY <2>1, TokensGrow
    <2>3. QED
        BY <1>1, <2>2 DEF LoggedOutStaysOut
<1>2. CASE status[t] # "live"
    <2>1. CASE Chain!Open(User, t)
        BY <2>1, LiveAfter DEF FamiliesAreStored, Stored
    <2>2. ASSUME NEW s \in Tokens, Chain!Exchange(s, t) PROVE family'[t] \notin ended
        BY <2>2, LiveAfter DEF LoggedOutStaysOut
    <2>3. \/ Chain!Open(User, t)
          \/ \E s \in Tokens : Chain!Exchange(s, t)
        BY <1>2, LiveAfter DEF TokenStep, tokens
    <2>4. QED
        BY <2>1, <2>2, <2>3
<1>3. QED
    BY <1>1, <1>2

----------------------------------------------------------------------------
(* Calls *)

\* A call is answered: the other calls are not touched, and it keeps what it was sent with.
LEMMA AnswerStep ==
    ASSUME TypeOK, NEW c \in Calls, call[c] # None, NEW result \in Results,
           NEW n \in Tokens \cup {None}, Answer(c, result, n)
    PROVE  /\ call' \in [Calls -> Call \cup {None}]
           /\ InFlight' = InFlight
           /\ call'[c].result = result /\ call'[c].pair = n /\ call'[c].cookie = call[c].cookie
           /\ Matches(c)' <=> Matches(c)
           /\ call'[c].newest = call[c].newest
           /\ \A d \in Calls \ {c} : call'[d] = call[d]
<1>1. call[c] \in Call
    BY DEF TypeOK
<1>2. /\ call' = [call EXCEPT ![c] = [call[c] EXCEPT !.result = result, !.pair = n]]
      /\ [call[c] EXCEPT !.result = result, !.pair = n] \in Call
    BY <1>1 DEF Answer, Call
<1>3. call'[c] \in Call /\ call'[c] # None /\ \A d \in Calls \ {c} : call'[d] = call[d]
    BY <1>2, NoneIsNoCall DEF TypeOK
<1>4. call'[c] = [call[c] EXCEPT !.result = result, !.pair = n]
    BY <1>2 DEF TypeOK
<1>5. call' \in [Calls -> Call \cup {None}] /\ InFlight' = InFlight
    BY <1>2, <1>3 DEF TypeOK, InFlight
<1>6. /\ call'[c].result = result /\ call'[c].pair = n /\ call'[c].cookie = call[c].cookie
      /\ call'[c].header = call[c].header /\ call'[c].newest = call[c].newest
    BY <1>1, <1>4 DEF Call
<1>7. QED
    BY <1>3, <1>5, <1>6 DEF Matches

\* What answering a call keeps, whatever the answer, when it carries a stored token or none.
LEMMA AnswerKeeps ==
    ASSUME IInv, NEW c \in Calls, call[c] # None, NEW result \in Results,
           NEW n \in Tokens \cup {None}, Answer(c, result, n),
           result = "ok" <=> n # None, n # None => n \in Stored',
           result = "csrf_invalid" => ~Matches(c),
           TokenStep, ended' \subseteq Stored', UNCHANGED <<browser, disturbed>>
    PROVE  /\ TypeOK' /\ FamiliesAreStored' /\ CookiesAreStored'
           /\ NewestTabHasValue' /\ NewestTabPassesCSRF'
<1> TypeOK /\ FamiliesAreStored /\ CookiesAreStored /\ NewestTabHasValue /\ NewestTabPassesCSRF
    BY DEF IInv
<1>1. jar' = jar /\ writer' = writer /\ memory' = memory /\ disturbed' = disturbed
    BY DEF browser
<1>2. /\ Stored \subseteq Stored' /\ ended' \subseteq Tokens
      /\ jar' # None => status'[jar'] # "absent"
    BY <1>1, TokensGrow DEF TypeOK, Stored
<1>3. /\ call' \in [Calls -> Call \cup {None}]
      /\ \A d \in Calls : call'[d] # None => (call'[d].result = "ok" <=> call'[d].pair # None)
    <2>1. \A d \in Calls \ {c} : call'[d] # None =>
              (call'[d].result = "ok" <=> call'[d].pair # None)
        BY AnswerStep DEF TypeOK
    <2>2. QED
        BY <2>1, AnswerStep
<1>4. TypeOK'
    <2>1. disturbed' \in BOOLEAN
        BY <1>1 DEF TypeOK
    <2>2. /\ jar' \in Tokens \cup {None} /\ writer' \in Tabs \cup {None}
          /\ memory' \in [Tabs -> Tokens \cup {None}]
        BY <1>1 DEF TypeOK
    <2>3. QED
        BY <1>2, <1>3, <2>1, <2>2, TokensGrow DEF TypeOK
<1>5. FamiliesAreStored'
    BY TokensGrow DEF FamiliesAreStored
<1>6. CookiesAreStored'
    BY <1>2, AnswerStep DEF CookiesAreStored, InFlight
<1>7. NewestTabHasValue'
    <2>1. \A d \in InFlight' : call'[d].newest => Matches(d)'
        <3>1. c \in InFlight
            BY DEF InFlight
        <3>2. call'[c].newest => Matches(c)'
            BY <3>1, AnswerStep DEF NewestTabHasValue
        <3>3. \A d \in InFlight \ {c} : call'[d].newest => Matches(d)'
            BY AnswerStep DEF NewestTabHasValue, InFlight, Matches
        <3>4. QED
            BY <3>2, <3>3, AnswerStep
    <2>2. QED
        BY <1>1, <2>1 DEF NewestTabHasValue
<1>8. NewestTabPassesCSRF'
    <2>1. call'[c].newest => call'[c].result # "csrf_invalid"
        BY AnswerStep DEF NewestTabHasValue, InFlight
    <2>2. \A d \in InFlight \ {c} : call'[d].newest => call'[d].result # "csrf_invalid"
        BY AnswerStep DEF NewestTabPassesCSRF, InFlight
    <2>3. QED
        BY <2>1, <2>2, AnswerStep DEF NewestTabPassesCSRF
<1>9. QED
    BY <1>4, <1>5, <1>6, <1>7, <1>8

\* A panel that is quiet has the one call that is answered.
LEMMA QuietAnswer ==
    ASSUME IInv, NEW c \in Calls, call[c] # None, NEW result \in Results,
           NEW n \in Tokens \cup {None}, Answer(c, result, n), UNCHANGED <<browser, disturbed>>,
           ~disturbed =>
               /\ result # "refresh_reused"
               /\ result = "ok" => status'[n] = "live"
               /\ result \notin {"ok", "out"} /\ jar # None => status'[jar] = "live"
    PROVE  OneCallAtATime'
<1> SUFFICES ASSUME ~disturbed'
             PROVE  /\ \A d, e \in InFlight' : d = e
                    /\ InFlight' = {} /\ jar' # None => status'[jar'] = "live"
                    /\ \A d \in InFlight' :
                        /\ call'[d].cookie = jar'
                        /\ call'[d].result # "refresh_reused"
                        /\ call'[d].result = "ok" => status'[call'[d].pair] = "live"
                        /\ call'[d].result \notin {"ok", "out"} /\ jar' # None =>
                               status'[jar'] = "live"
    BY DEF OneCallAtATime
<1>1. ~disturbed /\ jar' = jar
    BY DEF browser
<1>2. InFlight' = InFlight /\ c \in InFlight
    BY AnswerStep DEF IInv, InFlight
<1>3. \A d \in InFlight : d = c
    BY <1>1, <1>2 DEF IInv, OneCallAtATime
<1>4. call[c].cookie = jar
    BY <1>1, <1>2 DEF IInv, OneCallAtATime
<1>5. call'[c].result = result /\ call'[c].pair = n /\ call'[c].cookie = call[c].cookie
    BY AnswerStep DEF IInv
<1>6. QED
    BY <1>1, <1>2, <1>3, <1>4, <1>5

\* The answers that change no token.
LEMMA PlainAnswers ==
    ASSUME IInv, NEW c \in Calls, WithoutCookie(c) \/ RejectCSRF(c)
    PROVE  IInv'
<1> TypeOK /\ FamiliesAreStored /\ LoggedOutStaysOut /\ OneCallAtATime
    BY DEF IInv
<1>1. PICK result \in Results \ {"ok", "pending", "refresh_reused"} :
          /\ Answer(c, result, None) /\ call[c] # None /\ call[c].result = "pending"
          /\ result = "csrf_invalid" => ~Matches(c)
          /\ UNCHANGED <<tokens, browser, ended, disturbed>>
    <2>1. CASE WithoutCookie(c)
        BY <2>1 DEF WithoutCookie, Pending, Results
    <2>2. CASE RejectCSRF(c)
        BY <2>2 DEF RejectCSRF, Pending, Results
    <2>3. QED
        BY <2>1, <2>2
<1>2. TokenStep /\ Stored' = Stored /\ status' = status /\ ended' \subseteq Stored'
    BY <1>1 DEF TokenStep, tokens, Stored, FamiliesAreStored
<1>3. /\ TypeOK' /\ FamiliesAreStored' /\ CookiesAreStored'
      /\ NewestTabHasValue' /\ NewestTabPassesCSRF'
    BY <1>1, <1>2, AnswerKeeps
<1>4. OneCallAtATime'
    <2>1. ~disturbed /\ jar # None => status'[jar] = "live"
        BY <1>1, <1>2 DEF OneCallAtATime, InFlight
    <2>2. QED
        BY <1>1, <2>1, QuietAnswer
<1>5. LoggedOutStaysOut'
    BY <1>1, <1>2, LoggedOutStep
<1>6. QED
    BY <1>3, <1>4, <1>5 DEF IInv

\* A login or a refresh answers with a new token, which is live.
LEMMA NewPair ==
    ASSUME IInv, NEW c \in Calls, NEW n \in Tokens, LoginUser(c, n) \/ RefreshSession(c, n)
    PROVE  IInv'
<1> TypeOK /\ FamiliesAreStored /\ LoggedOutStaysOut
    BY DEF IInv
<1>1. /\ Answer(c, "ok", n) /\ call[c] # None /\ UNCHANGED <<browser, ended, disturbed>>
      /\ \/ Chain!Open(User, n)
         \/ call[c].cookie \in Tokens /\ Chain!Exchange(call[c].cookie, n)
    BY DEF LoginUser, RefreshSession, Pending, Matches, TypeOK, Call
<1>2. TokenStep /\ status'[n] = "live" /\ "ok" \in Results /\ n # None
    BY <1>1, LiveAfter, PanelAssumption DEF TokenStep, Results
<1>3. n \in Stored' /\ ended' \subseteq Stored'
    BY <1>1, <1>2, TokensGrow DEF Stored, FamiliesAreStored
<1>4. /\ TypeOK' /\ FamiliesAreStored' /\ CookiesAreStored'
      /\ NewestTabHasValue' /\ NewestTabPassesCSRF'
    BY <1>1, <1>2, <1>3, AnswerKeeps
<1>5. OneCallAtATime'
    BY <1>1, <1>2, QuietAnswer
<1>6. LoggedOutStaysOut'
    BY <1>1, <1>2, LoggedOutStep
<1>7. QED
    BY <1>4, <1>5, <1>6 DEF IInv

\* A refresh with a token that is not live: not in a quiet panel.
LEMMA ReuseStep ==
    ASSUME IInv, NEW c \in Calls, RefreshReused(c)
    PROVE  IInv'
<1> TypeOK /\ FamiliesAreStored /\ LoggedOutStaysOut /\ OneCallAtATime
    BY DEF IInv
<1>1. /\ Answer(c, "refresh_reused", None) /\ call[c] # None /\ call[c].result = "pending"
      /\ UNCHANGED <<browser, ended, disturbed>>
      /\ call[c].cookie \in Tokens /\ status[call[c].cookie] = "revoked"
    BY DEF RefreshReused, Pending, Matches, TypeOK, Call
<1>2. family[call[c].cookie] \in Tokens /\ "refresh_reused" \in Results
    BY <1>1 DEF FamiliesAreStored, Stored, Results
<1>3. TokenStep
    BY <1>2 DEF RefreshReused, TokenStep
<1>4. ended' \subseteq Stored'
    BY <1>1, <1>3, TokensGrow DEF FamiliesAreStored
<1>5. /\ TypeOK' /\ FamiliesAreStored' /\ CookiesAreStored'
      /\ NewestTabHasValue' /\ NewestTabPassesCSRF'
    BY <1>1, <1>2, <1>3, <1>4, AnswerKeeps
<1>6. OneCallAtATime'
    <2>1. disturbed
        BY <1>1, PanelAssumption DEF OneCallAtATime, InFlight
    <2>2. QED
        BY <1>1, <1>2, <2>1, QuietAnswer
<1>7. LoggedOutStaysOut'
    BY <1>1, <1>3, LoggedOutStep
<1>8. QED
    BY <1>5, <1>6, <1>7 DEF IInv

\* A logout takes every live token of the family away.
LEMMA LogoutStep ==
    ASSUME IInv, NEW c \in Calls, LogoutSession(c)
    PROVE  IInv'
<1> TypeOK /\ FamiliesAreStored /\ LoggedOutStaysOut /\ CookiesAreStored
    BY DEF IInv
<1> DEFINE f == family[call[c].cookie]
<1>1. /\ Answer(c, "out", None) /\ call[c] # None /\ UNCHANGED <<browser, disturbed>>
      /\ ended' = ended \cup {f} /\ Chain!Close({f})
      /\ call[c].cookie \in Tokens
    BY DEF LogoutSession, Pending, Matches, TypeOK, Call
<1>2. call[c].cookie \in Stored /\ f \in Stored /\ "out" \in Results
    BY <1>1, PanelAssumption DEF CookiesAreStored, InFlight, FamiliesAreStored, Results
<1>3. TokenStep /\ f \in Tokens
    BY <1>1, <1>2 DEF TokenStep, Stored
<1>4. ended' \subseteq Stored'
    BY <1>1, <1>2, <1>3, TokensGrow DEF FamiliesAreStored
<1>5. /\ TypeOK' /\ FamiliesAreStored' /\ CookiesAreStored'
      /\ NewestTabHasValue' /\ NewestTabPassesCSRF'
    BY <1>1, <1>2, <1>3, <1>4, AnswerKeeps
<1>6. OneCallAtATime'
    BY <1>1, <1>2, QuietAnswer
<1>7. LoggedOutStaysOut'
    BY <1>1, <1>3, LiveAfter DEF LoggedOutStaysOut
<1>8. QED
    BY <1>5, <1>6, <1>7 DEF IInv

\* A logout that overlaps the exchange of a newer token answers two calls.
LEMMA MissStep ==
    ASSUME IInv, NEW c \in Calls, NEW d \in Calls, NEW n \in Tokens, LogoutMissesSuccessor(c, d, n)
    PROVE  IInv'
<1> TypeOK /\ FamiliesAreStored /\ LoggedOutStaysOut /\ CookiesAreStored /\ OneCallAtATime
    /\ NewestTabHasValue /\ NewestTabPassesCSRF
    BY DEF IInv
<1>1. /\ call[c] # None /\ call[d] # None /\ c # d /\ call[c] \in Call /\ call[d] \in Call
      /\ call[c].result = "pending"
      /\ call[d].cookie \in Tokens /\ Chain!Exchange(call[d].cookie, n)
      /\ UNCHANGED <<browser, ended, disturbed>>
    BY DEF LogoutMissesSuccessor, Pending, Matches, TypeOK, Call
<1>2. call' = [call EXCEPT ![c] = [call[c] EXCEPT !.result = "out"],
                           ![d] = [call[d] EXCEPT !.result = "ok", !.pair = n]]
    BY <1>1 DEF LogoutMissesSuccessor, TypeOK
<1>3. /\ call'[c] = [call[c] EXCEPT !.result = "out"] /\ call'[c] \in Call
      /\ call'[d] = [call[d] EXCEPT !.result = "ok", !.pair = n] /\ call'[d] \in Call
      /\ \A e \in Calls \ {c, d} : call'[e] = call[e]
      /\ call' \in [Calls -> Call \cup {None}]
    BY <1>1, <1>2 DEF TypeOK, Call, Results
<1>4. InFlight' = InFlight /\ c \in InFlight /\ d \in InFlight
    BY <1>1, <1>3, NoneIsNoCall DEF InFlight
<1>5. /\ call'[c].result = "out" /\ call'[c].pair = call[c].pair
      /\ call'[c].cookie = call[c].cookie /\ call'[c].header = call[c].header
      /\ call'[d].result = "ok" /\ call'[d].pair = n
      /\ call'[d].cookie = call[d].cookie /\ call'[d].header = call[d].header
    BY <1>1, <1>3 DEF Call
<1>6. call'[c].newest = call[c].newest /\ call'[d].newest = call[d].newest
    BY <1>1, <1>3 DEF Call
<1>7. TokenStep /\ status'[n] = "live" /\ n # None
    BY <1>1, LiveAfter, PanelAssumption DEF TokenStep
<1>8. jar' = jar /\ writer' = writer /\ memory' = memory /\ ended' = ended
    BY <1>1 DEF browser
<1>9. Stored \subseteq Stored' /\ n \in Stored'
    BY <1>7, TokensGrow DEF Stored
<1>10. TypeOK'
    <2>1. \A e \in Calls : call'[e] # None => (call'[e].result = "ok" <=> call'[e].pair # None)
        <3>1. call[c].pair = None
            BY <1>1 DEF TypeOK
        <3>2. call'[c].result # "ok" /\ call'[c].pair = None
            BY <1>5, <3>1
        <3>3. call'[d].result = "ok" /\ call'[d].pair # None
            BY <1>5, <1>7
        <3>4. \A e \in Calls \ {c, d} : call'[e] # None =>
                  (call'[e].result = "ok" <=> call'[e].pair # None)
            BY <1>3 DEF TypeOK
        <3>5. QED
            BY <3>2, <3>3, <3>4
    <2>2. disturbed' \in BOOLEAN
        BY <1>1 DEF TypeOK
    <2>3. jar' # None => status'[jar'] # "absent"
        BY <1>8, <1>9 DEF TypeOK, Stored
    <2>4. /\ jar' \in Tokens \cup {None} /\ writer' \in Tabs \cup {None}
          /\ memory' \in [Tabs -> Tokens \cup {None}] /\ ended' \subseteq Tokens
        BY <1>8 DEF TypeOK
    <2>5. QED
        BY <1>3, <1>7, <2>1, <2>2, <2>3, <2>4, TokensGrow DEF TypeOK
<1>11. FamiliesAreStored'
    BY <1>7, <1>8, <1>9, TokensGrow DEF FamiliesAreStored
<1>12. CookiesAreStored'
    <2>1. {call'[c].cookie, call'[c].pair} \subseteq Stored' \cup {None}
        BY <1>4, <1>5, <1>9 DEF CookiesAreStored
    <2>2. {call'[d].cookie, call'[d].pair} \subseteq Stored' \cup {None}
        BY <1>4, <1>5, <1>9 DEF CookiesAreStored
    <2>3. \A e \in InFlight \ {c, d} :
              {call'[e].cookie, call'[e].pair} \subseteq Stored' \cup {None}
        BY <1>3, <1>9 DEF CookiesAreStored, InFlight
    <2>4. QED
        BY <1>4, <2>1, <2>2, <2>3 DEF CookiesAreStored
<1>13. NewestTabHasValue'
    <2>1. Matches(c) => Matches(c)'
        BY <1>5 DEF Matches
    <2>2. Matches(d) => Matches(d)'
        BY <1>5 DEF Matches
    <2>3. (call'[c].newest => Matches(c)') /\ (call'[d].newest => Matches(d)')
        BY <1>4, <1>6, <2>1, <2>2 DEF NewestTabHasValue
    <2>4. \A e \in InFlight \ {c, d} : call'[e].newest => Matches(e)'
        BY <1>3 DEF NewestTabHasValue, Matches, InFlight
    <2>5. \A e \in InFlight : call'[e].newest => Matches(e)'
        BY <2>3, <2>4
    <2>6. QED
        BY <1>4, <1>8, <2>5 DEF NewestTabHasValue
<1>14. NewestTabPassesCSRF'
    <2>1. \A e \in InFlight \ {c, d} : call'[e].newest => call'[e].result # "csrf_invalid"
        BY <1>3 DEF NewestTabPassesCSRF, InFlight
    <2>2. QED
        BY <1>4, <1>5, <2>1 DEF NewestTabPassesCSRF
<1>15. OneCallAtATime'
    <2>1. disturbed
        BY <1>1, <1>4 DEF OneCallAtATime
    <2>2. QED
        BY <1>1, <2>1 DEF OneCallAtATime
<1>16. LoggedOutStaysOut'
    BY <1>7, <1>8, LoggedOutStep
<1>17. QED
    BY <1>10, <1>11, <1>12, <1>13, <1>14, <1>15, <1>16 DEF IInv

----------------------------------------------------------------------------
(* The browser *)

\* A call leaves the browser: its cookies and the value of its tab go with it.
LEMMA SendStep ==
    ASSUME IInv, NEW c \in Calls, NEW tab \in Tabs, NEW op \in {"login", "refresh", "logout"},
           Send(c, tab, op)
    PROVE  IInv'
<1> TypeOK /\ FamiliesAreStored /\ LoggedOutStaysOut /\ CookiesAreStored /\ OneCallAtATime
    /\ NewestTabHasValue /\ NewestTabPassesCSRF
    BY DEF IInv
<1> DEFINE new == [tab |-> tab, op |-> op, cookie |-> jar, header |-> memory[tab],
                   newest |-> writer = tab, result |-> "pending", pair |-> None]
<1>1. (writer = tab) \in BOOLEAN
    OBVIOUS
<1>2. new \in Call
    BY <1>1 DEF TypeOK, Call, Results
<1>3. /\ new.cookie = jar /\ new.header = memory[tab] /\ new.result = "pending"
      /\ new.pair = None
    OBVIOUS
<1>4. new.newest => writer = tab
    OBVIOUS
<1> HIDE DEF new
<1>5. /\ call' = [call EXCEPT ![c] = new] /\ UNCHANGED <<tokens, browser, ended>>
      /\ call[c] = None
    BY DEF Send, new
<1>6. /\ status' = status /\ family' = family /\ owner' = owner /\ jar' = jar
      /\ writer' = writer /\ memory' = memory /\ ended' = ended /\ Stored' = Stored
    BY <1>5 DEF tokens, browser, Stored
<1>7. /\ call'[c] = new /\ \A d \in Calls \ {c} : call'[d] = call[d]
      /\ call' \in [Calls -> Call \cup {None}]
      /\ InFlight' = InFlight \cup {c} /\ c \notin InFlight
    BY <1>2, <1>5, NoneIsNoCall DEF TypeOK, InFlight
<1>8. disturbed' \in BOOLEAN /\ (~disturbed' => ~disturbed /\ InFlight = {})
    BY DEF Send, TypeOK
<1>9. TypeOK'
    <2>1. \A e \in Calls : call'[e] # None => (call'[e].result = "ok" <=> call'[e].pair # None)
        BY <1>3, <1>7 DEF TypeOK
    <2>2. QED
        BY <1>6, <1>7, <1>8, <2>1 DEF TypeOK
<1>10. FamiliesAreStored'
    BY <1>6 DEF FamiliesAreStored
<1>11. CookiesAreStored'
    BY <1>3, <1>6, <1>7 DEF CookiesAreStored, TypeOK, Stored, InFlight
<1>12. NewestTabHasValue'
    <2>1. new.newest => new.cookie # None /\ new.header = new.cookie
        BY <1>3, <1>4, PanelAssumption DEF NewestTabHasValue
    <2>2. \A d \in InFlight : call'[d].newest => Matches(d)'
        BY <1>7 DEF NewestTabHasValue, Matches, InFlight
    <2>3. QED
        BY <1>6, <1>7, <2>1, <2>2 DEF NewestTabHasValue, Matches
<1>13. NewestTabPassesCSRF'
    BY <1>3, <1>7 DEF NewestTabPassesCSRF, InFlight
<1>14. OneCallAtATime'
    <2> SUFFICES ASSUME ~disturbed' PROVE OneCallAtATime'
        BY DEF OneCallAtATime
    <2>1. InFlight' = {c} /\ (jar # None => status[jar] = "live")
        BY <1>7, <1>8 DEF OneCallAtATime
    <2>2. QED
        BY <1>3, <1>6, <1>7, <2>1 DEF OneCallAtATime
<1>15. LoggedOutStaysOut'
    BY <1>6 DEF LoggedOutStaysOut
<1>16. QED
    BY <1>9, <1>10, <1>11, <1>12, <1>13, <1>14, <1>15 DEF IInv

\* A call is over: its response has arrived or will not.
LEMMA ReceiptStep ==
    ASSUME IInv, NEW c \in Calls, StorePair(c) \/ StoreLogout(c) \/ ReceiveError(c) \/ Lose(c)
    PROVE  IInv'
<1> TypeOK /\ FamiliesAreStored /\ LoggedOutStaysOut /\ CookiesAreStored /\ OneCallAtATime
    /\ NewestTabHasValue /\ NewestTabPassesCSRF
    BY DEF IInv
<1>1. /\ call[c] \in Call /\ c \in InFlight /\ call' = [call EXCEPT ![c] = None]
      /\ UNCHANGED <<tokens, ended>>
    BY DEF StorePair, StoreLogout, ReceiveError, Lose, TypeOK, InFlight
<1>2. /\ call'[c] = None /\ \A d \in Calls \ {c} : call'[d] = call[d]
      /\ call' \in [Calls -> Call \cup {None}] /\ InFlight' = InFlight \ {c}
    BY <1>1 DEF TypeOK, InFlight
<1>3. /\ status' = status /\ family' = family /\ owner' = owner
      /\ ended' = ended /\ Stored' = Stored
    BY <1>1 DEF tokens, Stored
<1>4. disturbed' \in BOOLEAN
    BY DEF StorePair, StoreLogout, ReceiveError, Lose, TypeOK
\* The cookies after the step.
<1>5. /\ jar' \in Stored \cup {None} /\ writer' \in Tabs \cup {None}
      /\ memory' \in [Tabs -> Tokens \cup {None}]
      /\ writer' # None => jar' # None /\ memory'[writer'] = jar'
    <2>1. CASE StorePair(c)
        <3>1. /\ jar' = call[c].pair /\ call[c].pair # None /\ call[c].pair \in Stored \cup {None}
              /\ writer' = call[c].tab /\ call[c].tab \in Tabs
              /\ memory' = [memory EXCEPT ![call[c].tab] = call[c].pair]
            BY <1>1, <2>1 DEF StorePair, TypeOK, Call, CookiesAreStored, InFlight
        <3>2. QED
            BY <3>1 DEF TypeOK, Stored
    <2>2. CASE StoreLogout(c)
        BY <2>2 DEF StoreLogout, TypeOK, NewestTabHasValue, Stored
    <2>3. CASE ReceiveError(c) \/ Lose(c)
        BY <2>3 DEF ReceiveError, Lose, browser, TypeOK, NewestTabHasValue, Stored
    <2>4. QED
        BY <2>1, <2>2, <2>3
<1>6. TypeOK'
    BY <1>2, <1>3, <1>4, <1>5, PanelAssumption DEF TypeOK, Stored
<1>7. FamiliesAreStored'
    BY <1>3 DEF FamiliesAreStored
<1>8. CookiesAreStored'
    BY <1>2, <1>3 DEF CookiesAreStored, InFlight
<1>9. NewestTabHasValue' /\ NewestTabPassesCSRF'
    BY <1>2, <1>5 DEF NewestTabHasValue, NewestTabPassesCSRF, Matches, InFlight
<1>10. OneCallAtATime'
    <2> SUFFICES ASSUME ~disturbed' PROVE OneCallAtATime'
        BY DEF OneCallAtATime
    <2>1. ~disturbed /\ ~Lose(c)
        BY DEF StorePair, StoreLogout, ReceiveError, Lose
    <2>2. InFlight' = {}
        BY <1>1, <1>2, <2>1 DEF OneCallAtATime
    <2>3. jar' # None => status[jar'] = "live"
        <3>1. CASE StorePair(c)
            BY <1>1, <2>1, <3>1 DEF StorePair, OneCallAtATime
        <3>2. CASE StoreLogout(c)
            BY <1>1, <2>1, <3>2 DEF StoreLogout, OneCallAtATime
        <3>3. CASE ReceiveError(c)
            BY <1>1, <2>1, <3>3 DEF ReceiveError, OneCallAtATime, browser
        <3>4. QED
            BY <2>1, <3>1, <3>2, <3>3
    <2>4. QED
        BY <1>3, <2>2, <2>3 DEF OneCallAtATime
<1>11. LoggedOutStaysOut'
    BY <1>3 DEF LoggedOutStaysOut
<1>12. QED
    BY <1>6, <1>7, <1>8, <1>9, <1>10, <1>11 DEF IInv

----------------------------------------------------------------------------
(* The theorems *)

\* The inductive invariant of the cookies (httpapi/cookies.go, httpapi/auth.go).
THEOREM Invariant == Spec => []IInv
<1>1. Init => IInv
    <2> SUFFICES ASSUME Init PROVE IInv
        OBVIOUS
    <2>1. TypeOK
        <3>1. /\ status \in [Tokens -> {"absent", "live", "revoked"}]
              /\ family \in [Tokens -> Tokens \cup {None}] /\ owner \in [Tokens -> {User, None}]
            BY DEF Init, Chain!Init
        <3>2. disturbed \in BOOLEAN
            BY DEF Init
        <3>3. QED
            BY <3>1, <3>2 DEF Init, TypeOK
    <2>2. InFlight = {} /\ Stored = {}
        BY DEF Init, Chain!Init, InFlight, Stored
    <2>3. FamiliesAreStored /\ CookiesAreStored /\ NewestTabHasValue /\ NewestTabPassesCSRF
        BY <2>2 DEF Init, FamiliesAreStored, CookiesAreStored, NewestTabHasValue,
                    NewestTabPassesCSRF
    <2>4. OneCallAtATime /\ LoggedOutStaysOut
        BY <2>2 DEF Init, OneCallAtATime, LoggedOutStaysOut
    <2>5. QED
        BY <2>1, <2>3, <2>4 DEF IInv
<1>2. IInv /\ [Next]_vars => IInv'
    <2> SUFFICES ASSUME IInv, [Next]_vars PROVE IInv'
        OBVIOUS
    <2>1. CASE UNCHANGED vars
        <3>1. /\ status' = status /\ family' = family /\ owner' = owner /\ jar' = jar
              /\ writer' = writer /\ memory' = memory /\ call' = call /\ ended' = ended
              /\ disturbed' = disturbed
            BY <2>1 DEF vars, tokens, browser
        <3>2. TypeOK'
            BY <3>1 DEF IInv, TypeOK
        <3>3. FamiliesAreStored' /\ CookiesAreStored' /\ NewestTabHasValue'
              /\ NewestTabPassesCSRF'
            BY <3>1 DEF IInv, FamiliesAreStored, CookiesAreStored, NewestTabHasValue,
                        NewestTabPassesCSRF, Stored, InFlight, Matches
        <3>4. OneCallAtATime' /\ LoggedOutStaysOut'
            BY <3>1 DEF IInv, OneCallAtATime, LoggedOutStaysOut, InFlight
        <3>5. QED
            BY <3>2, <3>3, <3>4 DEF IInv
    <2>2. QED
        BY <2>1, SendStep, ReceiptStep, PlainAnswers, NewPair, ReuseStep, LogoutStep, MissStep
        DEF Next
<1>3. QED
    BY <1>1, <1>2, PTL DEF Spec

\* The variables stay in their types, and the cookie is a token the server has stored.
THEOREM TypeCorrect == Spec => []TypeOK
<1>1. IInv => TypeOK
    BY DEF IInv
<1>2. QED
    BY <1>1, Invariant, PTL

\* A panel that makes one call at a time and gets every answer keeps its session.
THEOREM QuietPanelIsSafe == Spec => []QuietPanelKeepsSession
<1>1. IInv => QuietPanelKeepsSession
    BY DEF IInv, OneCallAtATime, QuietPanelKeepsSession
<1>2. QED
    BY <1>1, Invariant, PTL

\* The tab whose response wrote the cookies last passes the double submit.
THEOREM NewestTabIsHeard == Spec => []NewestTabPassesCSRF
<1>1. IInv => NewestTabPassesCSRF
    BY DEF IInv
<1>2. QED
    BY <1>1, Invariant, PTL

\* No call brings back a family that a logout has revoked.
THEOREM LogoutIsFinal == Spec => []LoggedOutStaysOut
<1>1. IInv => LoggedOutStaysOut
    BY DEF IInv
<1>2. QED
    BY <1>1, Invariant, PTL

============================================================================
