------------------------------- MODULE Panel -------------------------------
(***************************************************************************)
(* A browser session as api/internal/httpapi keeps it: the refresh token   *)
(* in an httpOnly cookie, a CSRF value in a second cookie and, since the   *)
(* panel cannot read that one, in the body of the response.  The server's  *)
(* tokens are TokenChain.                                                  *)
(*                                                                         *)
(* A CSRF value is generated with each token pair and is named by the      *)
(* refresh token of the pair.  The browser attaches the cookies it has     *)
(* when a call is sent and stores those of a response when it arrives,     *)
(* which may be late or never.  Tabs share the cookies; the CSRF value is  *)
(* in the memory of the tab that got the response.                         *)
(***************************************************************************)
EXTENDS Naturals, FiniteSets

CONSTANTS
    Tokens,
    User,       \* the account that logs in
    Tabs,
    Calls,      \* calls in flight at once
    None        \* no cookie, no value in memory

ASSUME PanelAssumption == None \notin Tokens \cup Tabs \cup Calls \cup {User}

VARIABLES
    status, family, owner,  \* seg.tb_refresh_token, as in TokenChain
    jar,        \* the token of the cookies
    writer,     \* the tab whose response wrote the cookies last
    memory,     \* the CSRF value each tab has stored
    call,       \* the calls in flight
    ended,      \* auxiliary: families a logout has revoked
    disturbed   \* auxiliary: a response was lost or two calls were in flight at once

tokens  == <<status, family, owner>>
browser == <<jar, writer, memory>>
vars    == <<tokens, browser, call, ended, disturbed>>

Chain ==
    INSTANCE TokenChain WITH
        Tokens <- Tokens, Users <- {User}, None <- None,
        status <- status, family <- family, owner <- owner

Results == {"pending", "ok", "out", "refresh_invalid", "refresh_reused", "csrf_invalid"}

Call == [tab : Tabs, op : {"login", "refresh", "logout"}, cookie : Tokens \cup {None},
         header : Tokens \cup {None}, newest : BOOLEAN,
         result : Results, pair : Tokens \cup {None}]

ASSUME NoneIsNoCall == None \notin Call

TypeOK ==
    /\ status \in [Tokens -> {"absent", "live", "revoked"}]
    /\ family \in [Tokens -> Tokens \cup {None}]
    /\ owner \in [Tokens -> {User, None}]
    /\ jar \in Tokens \cup {None}
    /\ writer \in Tabs \cup {None}
    /\ memory \in [Tabs -> Tokens \cup {None}]
    /\ call \in [Calls -> Call \cup {None}]
    /\ ended \subseteq Tokens
    /\ disturbed \in BOOLEAN
    /\ \A c \in Calls : call[c] # None => (call[c].result = "ok" <=> call[c].pair # None)
    /\ jar # None => status[jar] # "absent"

Init ==
    /\ Chain!Init
    /\ jar = None
    /\ writer = None
    /\ memory = [b \in Tabs |-> None]
    /\ call = [c \in Calls |-> None]
    /\ ended = {}
    /\ disturbed = FALSE

----------------------------------------------------------------------------
(* The browser *)

InFlight == {c \in Calls : call[c] # None}

Send(c, tab, op) ==
    /\ call[c] = None
    /\ call' = [call EXCEPT ![c] =
            [tab |-> tab, op |-> op, cookie |-> jar, header |-> memory[tab],
             newest |-> writer = tab, result |-> "pending", pair |-> None]]
    /\ disturbed' = (disturbed \/ InFlight # {})
    /\ UNCHANGED <<tokens, browser, ended>>

\* Mutant: the CSRF value is left to the cookie, which the panel cannot read.
StorePairInCookies(c) ==
    /\ call[c] # None
    /\ call[c].result = "ok"
    /\ jar' = call[c].pair
    /\ writer' = call[c].tab
    /\ call' = [call EXCEPT ![c] = None]
    /\ UNCHANGED <<tokens, memory, ended, disturbed>>

\* A token pair: setSession's cookies, and csrf_token in the body.
StorePair(c) ==
    /\ call[c] # None
    /\ call[c].result = "ok"
    /\ jar' = call[c].pair
    /\ writer' = call[c].tab
    /\ memory' = [memory EXCEPT ![call[c].tab] = call[c].pair]
    /\ call' = [call EXCEPT ![c] = None]
    /\ UNCHANGED <<tokens, ended, disturbed>>

\* The answer to a logout: clearSession when the token came from the cookie.
StoreLogout(c) ==
    /\ call[c] # None
    /\ call[c].result = "out"
    /\ jar' = IF call[c].cookie # None THEN None ELSE jar
    /\ writer' = IF call[c].cookie # None THEN None ELSE writer
    /\ call' = [call EXCEPT ![c] = None]
    /\ UNCHANGED <<tokens, memory, ended, disturbed>>

\* An error leaves the cookies as they are.
ReceiveError(c) ==
    /\ call[c] # None
    /\ call[c].result \in {"refresh_invalid", "refresh_reused", "csrf_invalid"}
    /\ call' = [call EXCEPT ![c] = None]
    /\ UNCHANGED <<tokens, browser, ended, disturbed>>

\* The call or its response is lost.
Lose(c) ==
    /\ call[c] # None
    /\ call' = [call EXCEPT ![c] = None]
    /\ disturbed' = TRUE
    /\ UNCHANGED <<tokens, browser, ended>>

----------------------------------------------------------------------------
(* The handlers *)

Pending(c, op) == call[c] # None /\ call[c].result = "pending" /\ call[c].op = op

Answer(c, result, n) == call' = [call EXCEPT ![c].result = result, ![c].pair = n]

\* loginUser: a session of its own, whatever the cookies say.
LoginUser(c, n) ==
    /\ Pending(c, "login")
    /\ Chain!Open(User, n)
    /\ Answer(c, "ok", n)
    /\ UNCHANGED <<browser, ended, disturbed>>

\* The double submit of cookieSettings.presented.
Matches(c) == call[c].cookie # None /\ call[c].header = call[c].cookie

\* No cookie, no token: Refresh knows none such, Logout has nothing to do.
WithoutCookie(c) ==
    /\ Pending(c, "refresh") \/ Pending(c, "logout")
    /\ call[c].cookie = None
    /\ Answer(c, IF call[c].op = "refresh" THEN "refresh_invalid" ELSE "out", None)
    /\ UNCHANGED <<tokens, browser, ended, disturbed>>

RejectCSRF(c) ==
    /\ Pending(c, "refresh") \/ Pending(c, "logout")
    /\ call[c].cookie # None
    /\ ~Matches(c)
    /\ Answer(c, "csrf_invalid", None)
    /\ UNCHANGED <<tokens, browser, ended, disturbed>>

\* Mutant: a refresh answers with the token that was presented.
RefreshReturnsOld(c, n) ==
    /\ Pending(c, "refresh")
    /\ Matches(c)
    /\ Chain!Exchange(call[c].cookie, n)
    /\ Answer(c, "ok", call[c].cookie)
    /\ UNCHANGED <<browser, ended, disturbed>>

\* refreshSession with a token that is live.
RefreshSession(c, n) ==
    /\ Pending(c, "refresh")
    /\ Matches(c)
    /\ Chain!Exchange(call[c].cookie, n)
    /\ Answer(c, "ok", n)
    /\ UNCHANGED <<browser, ended, disturbed>>

\* refreshSession with a token that is not.
RefreshReused(c) ==
    /\ Pending(c, "refresh")
    /\ Matches(c)
    /\ status[call[c].cookie] = "revoked"
    /\ Chain!Close({family[call[c].cookie]})
    /\ Answer(c, "refresh_reused", None)
    /\ UNCHANGED <<browser, ended, disturbed>>

\* Mutant: a logout revokes the presented token only.
LogoutTokenOnly(c) ==
    /\ Pending(c, "logout")
    /\ Matches(c)
    /\ status' = [status EXCEPT ![call[c].cookie] = "revoked"]
    /\ ended' = ended \cup {family[call[c].cookie]}
    /\ Answer(c, "out", None)
    /\ UNCHANGED <<family, owner, browser, disturbed>>

LogoutSession(c) ==
    /\ Pending(c, "logout")
    /\ Matches(c)
    /\ Chain!Close({family[call[c].cookie]})
    /\ ended' = ended \cup {family[call[c].cookie]}
    /\ Answer(c, "out", None)
    /\ UNCHANGED <<browser, disturbed>>

\* A logout with an older token of the family runs while the newest one is
\* exchanged: its UPDATE does not see the successor (run session_revocation).
LogoutMissesSuccessor(c, d, n) ==
    /\ Pending(c, "logout") /\ Matches(c)
    /\ Pending(d, "refresh") /\ Matches(d)
    /\ call[c].cookie # call[d].cookie
    /\ family[call[c].cookie] = family[call[d].cookie]
    /\ Chain!Exchange(call[d].cookie, n)
    /\ call' = [call EXCEPT ![c].result = "out", ![d].result = "ok", ![d].pair = n]
    /\ UNCHANGED <<browser, ended, disturbed>>

Next ==
    \/ \E c \in Calls, tab \in Tabs, op \in {"login", "refresh", "logout"} : Send(c, tab, op)
    \/ \E c \in Calls :
        \/ StorePair(c) \/ StoreLogout(c) \/ ReceiveError(c) \/ Lose(c)
        \/ WithoutCookie(c) \/ RejectCSRF(c) \/ RefreshReused(c) \/ LogoutSession(c)
    \/ \E c \in Calls, n \in Tokens : LoginUser(c, n) \/ RefreshSession(c, n)
    \/ \E c, d \in Calls, n \in Tokens : LogoutMissesSuccessor(c, d, n)

Spec == Init /\ [][Next]_vars

----------------------------------------------------------------------------
(* Properties *)

\* A panel that makes one call at a time and gets every answer keeps its
\* session: the cookie is the live token of its family, and refresh_reused, which
\* would be taken for a theft, is not among the answers.
QuietPanelKeepsSession ==
    ~disturbed =>
        /\ InFlight = {} /\ jar # None => status[jar] = "live"
        /\ \A c \in InFlight : call[c].result # "refresh_reused"

\* The tab whose response wrote the cookies last passes the double submit, even
\* with calls lost or overlapping; any other tab has a value that was rotated away.
NewestTabPassesCSRF ==
    \A c \in InFlight : call[c].newest => call[c].result # "csrf_invalid"

\* Once a logout has revoked a family, no late or repeated call brings it back,
\* except when the logout overlapped the exchange of a newer token.
LoggedOutStaysOut == \A t \in Tokens : status[t] = "live" => family[t] \notin ended

\* Tokens that have been stored, whose families were opened by a stored token.
Stored == {t \in Tokens : status[t] # "absent"}

FamiliesAreStored ==
    /\ ended \subseteq Stored
    /\ \A t \in Stored : family[t] \in Stored

\* What the cookies and the calls carry was given out by the server.
CookiesAreStored ==
    \A c \in InFlight : {call[c].cookie, call[c].pair} \subseteq Stored \cup {None}

\* The tab that wrote the cookies has their CSRF value, and so does a call it has sent.
NewestTabHasValue ==
    /\ writer # None => jar # None /\ memory[writer] = jar
    /\ \A c \in InFlight : call[c].newest => Matches(c)

\* With one call at a time and no answer lost the cookie is the live token, until the server has
\* answered with its successor or has closed the session.
OneCallAtATime ==
    ~disturbed =>
        /\ \A c, d \in InFlight : c = d
        /\ InFlight = {} /\ jar # None => status[jar] = "live"
        /\ \A c \in InFlight :
            /\ call[c].cookie = jar
            /\ call[c].result # "refresh_reused"
            /\ call[c].result = "ok" => status[call[c].pair] = "live"
            /\ call[c].result \notin {"ok", "out"} /\ jar # None => status[jar] = "live"

\* The inductive invariant.
IInv ==
    /\ TypeOK
    /\ FamiliesAreStored
    /\ CookiesAreStored
    /\ NewestTabHasValue
    /\ NewestTabPassesCSRF
    /\ OneCallAtATime
    /\ LoggedOutStaysOut

============================================================================
