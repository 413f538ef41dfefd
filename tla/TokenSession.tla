---------------------------- MODULE TokenSession ----------------------------
(***************************************************************************)
(* A user's login: the browser with its refresh cookie, the auth routes     *)
(* (features/auth/router.py, core/auth/cookies.py), the Keycloak client     *)
(* (adapters/keycloak/client.py), and Keycloak.  The tabs of the browser    *)
(* send requests that run concurrently, and answers may come in any order,  *)
(* late, or never.                                                         *)
(*                                                                         *)
(* What Keycloak gives out in one login is numbered: 0 is the authorization *)
(* code, and 1, 2, ... are the refresh tokens.                              *)
(***************************************************************************)
EXTENDS Integers, FiniteSets

CONSTANTS
    Requests,  \* requests the browser can have open at once
    Logins,    \* the user's logins at Keycloak
    NoToken,   \* no cookie
    Keep,      \* a response without a Set-Cookie
    MaxToken,  \* bound: refresh tokens that Keycloak gives out in one login
    MaxLate    \* bound: calls given up and still on their way to Keycloak

Kinds == {"exchange", "refresh", "logout"}

Tokens == [login: Logins, number: 0..MaxToken]

ASSUME TokenAssumption ==
    /\ MaxToken \in Nat /\ MaxLate \in Nat
    /\ NoToken \notin Tokens /\ Keep \notin Tokens /\ Keep # NoToken

VARIABLES
    singleUse,  \* Keycloak: the option Revoke Refresh Token of the realm
    issued,     \* Keycloak: the last number given out in each login, or NotYet
    alive,      \* Keycloak: the logins whose session is alive
    cookie,     \* browser: the refresh token in the cookie
    pc,         \* where each request is
    kind,       \* what it asks for
    carried,    \* the code, or the cookie, that came with it
    reply,      \* what Keycloak answered to it
    response,   \* what the route answers: a status and a cookie
    late,       \* calls given up by the client that Keycloak may still serve
    asked,      \* history: what the user last had done, "login" or "logout"
    crossing,   \* history: the requests that were open then, and still are
    undone,     \* history: the refresh of one of them has set the cookie since
    mishap      \* history: an answer, a response or a session has been lost

keycloakVars == <<singleUse, issued, alive>>
requestVars  == <<pc, kind, carried, reply, response>>
historyVars  == <<asked, crossing, undone, mishap>>
vars         == <<keycloakVars, cookie, requestVars, late, historyVars>>

NotYet == -1

Points   == {"idle", "calling", "called", "responding"}
Statuses == {"none", "ok", "unauthorized", "forbidden", "invalid", "bad_gateway", "unavailable"}
NoResponse == [status |-> "none", cookie |-> Keep]

Replies ==
    [status: {"none", "refused", "unusable", "done"}, token: {NoToken}]
        \cup [status: {"tokens"}, token: Tokens]
NoReply == [status |-> "none", token |-> NoToken]

TypeOK ==
    /\ singleUse \in BOOLEAN
    /\ issued \in [Logins -> 0..MaxToken \cup {NotYet}]
    /\ alive \subseteq Logins
    /\ cookie \in Tokens \cup {NoToken}
    /\ pc \in [Requests -> Points]
    /\ kind \in [Requests -> Kinds]
    /\ carried \in [Requests -> Tokens \cup {NoToken}]
    /\ reply \in [Requests -> Replies]
    /\ response \in [Requests -> [status: Statuses, cookie: Tokens \cup {NoToken, Keep}]]
    /\ late \subseteq [kind: Kinds, token: Tokens]
    /\ asked \in {"login", "logout"}
    /\ crossing \subseteq Requests
    /\ undone \in BOOLEAN
    /\ mishap \in BOOLEAN

Init ==
    /\ singleUse \in BOOLEAN
    /\ issued = [l \in Logins |-> NotYet]
    /\ alive = {}
    /\ cookie = NoToken
    /\ pc = [r \in Requests |-> "idle"]
    /\ kind = [r \in Requests |-> "refresh"]
    /\ carried = [r \in Requests |-> NoToken]
    /\ reply = [r \in Requests |-> NoReply]
    /\ response = [r \in Requests |-> NoResponse]
    /\ late = {}
    /\ asked = "logout"
    /\ crossing = {}
    /\ undone = FALSE
    /\ mishap = FALSE

----------------------------------------------------------------------------
(* Keycloak                                                                *)

\* A code works once.  So does a refresh token, if the realm says so.
Accepts(token) ==
    /\ token.login \in alive
    /\ \/ token.number = issued[token.login]
       \/ ~singleUse /\ token.number \in 1..issued[token.login]

\* The user logs in on Keycloak's page, and the browser has a code.
LoginAtKeycloak(l) ==
    /\ issued[l] = NotYet
    /\ issued' = [issued EXCEPT ![l] = 0]
    /\ alive' = alive \cup {l}
    /\ UNCHANGED <<singleUse, cookie, requestVars, late, historyVars>>

\* The session times out, or is ended by an administrator.
SessionEnds(l) ==
    /\ l \in alive
    /\ alive' = alive \ {l}
    /\ mishap' = TRUE
    /\ UNCHANGED <<singleUse, issued, cookie, requestVars, late, asked, crossing, undone>>

\* The token endpoint and the logout endpoint.  A logout with a token that has
\* been replaced may end the session or be refused.
Serves(what, token, answer) ==
    \/ /\ what # "logout" /\ Accepts(token)
       /\ issued[token.login] < MaxToken
       /\ issued' = [issued EXCEPT ![token.login] = @ + 1]
       /\ answer = [status |-> "tokens",
                    token  |-> [token EXCEPT !.number = issued[token.login] + 1]]
       /\ UNCHANGED alive
    \/ /\ what = "logout" /\ token.login \in alive
       /\ alive' = alive \ {token.login}
       /\ answer = [status |-> "done", token |-> NoToken]
       /\ UNCHANGED issued
    \/ /\ ~Accepts(token)
       /\ answer = [status |-> "refused", token |-> NoToken]
       /\ UNCHANGED <<issued, alive>>

----------------------------------------------------------------------------
(* The browser sends a request, and its route runs up to the call.         *)

\* Mutant: a missing cookie is a KeyError, a 500.
MutRefuse(r, status) ==
    /\ pc' = [pc EXCEPT ![r] = "responding"]
    /\ response' = [response EXCEPT ![r] =
          [status |-> IF status = "unauthorized" THEN "error" ELSE status,
           cookie |-> Keep]]

\* The route raises before it calls Keycloak: the response sets no cookie.
Refuse(r, status) ==
    /\ pc' = [pc EXCEPT ![r] = "responding"]
    /\ response' = [response EXCEPT ![r] = [status |-> status, cookie |-> Keep]]

Call(r) ==
    /\ pc' = [pc EXCEPT ![r] = "calling"]
    /\ UNCHANGED response

Send(r, what, token) ==
    /\ pc[r] = "idle"
    /\ kind' = [kind EXCEPT ![r] = what]
    /\ carried' = [carried EXCEPT ![r] = token]
    /\ UNCHANGED <<keycloakVars, cookie, reply, late, historyVars>>

\* POST /auth/token: check_redirect_uri() may refuse it with a 422.  A frontend
\* may send a code again.
Exchange(r, l) ==
    /\ issued[l] # NotYet
    /\ Send(r, "exchange", [login |-> l, number |-> 0])
    /\ Refuse(r, "invalid") \/ Call(r)

\* POST /auth/refresh and /auth/logout: require_allowed_origin(), then
\* read_refresh_cookie().
UseCookie(r, what) ==
    /\ Send(r, what, cookie)
    /\ \/ Refuse(r, "forbidden")
       \/ cookie = NoToken /\ Refuse(r, "unauthorized")
       \/ cookie # NoToken /\ Call(r)

----------------------------------------------------------------------------
(* The call to Keycloak, in KeycloakClient, and the rest of the route.     *)

KeycloakServes(r) ==
    /\ pc[r] = "calling"
    /\ \E answer \in Replies :
          /\ Serves(kind[r], carried[r], answer)
          /\ reply' = [reply EXCEPT ![r] = answer]
    /\ pc' = [pc EXCEPT ![r] = "called"]
    /\ UNCHANGED <<singleUse, cookie, kind, carried, response, late, historyVars>>

\* A 401 to the API's own client, or another status.
KeycloakFails(r) ==
    /\ pc[r] = "calling"
    /\ reply' = [reply EXCEPT ![r] = [status |-> "unusable", token |-> NoToken]]
    /\ pc' = [pc EXCEPT ![r] = "called"]
    /\ UNCHANGED <<keycloakVars, cookie, kind, carried, response, late, historyVars>>

Respond(r, status, set) ==
    /\ pc' = [pc EXCEPT ![r] = "responding"]
    /\ response' = [response EXCEPT ![r] = [status |-> status, cookie |-> set]]
    /\ reply' = [reply EXCEPT ![r] = NoReply]
    /\ UNCHANGED <<singleUse, cookie, kind, carried, asked, crossing, undone>>

\* Mutant: the 401 to the API's own client is passed on as a 401.
MutClientRejected(r) ==
    /\ pc[r] = "called"
    /\ kind[r] # "logout"
    /\ \/ reply[r].status = "tokens" /\ Respond(r, "ok", reply[r].token)
       \/ reply[r].status \in {"refused", "unusable"} /\ Respond(r, "unauthorized", Keep)
    /\ UNCHANGED <<issued, alive, late, mishap>>

\* Mutant: a refresh does not set the new cookie.
MutNoRotation(r) ==
    /\ pc[r] = "called"
    /\ kind[r] # "logout"
    /\ \/ /\ reply[r].status = "tokens"
          /\ Respond(r, "ok", IF kind[r] = "refresh" THEN Keep ELSE reply[r].token)
       \/ reply[r].status = "refused" /\ Respond(r, "unauthorized", Keep)
       \/ reply[r].status = "unusable" /\ Respond(r, "bad_gateway", Keep)
    /\ UNCHANGED <<issued, alive, late, mishap>>

\* exchange_token() and refresh_token(), with _token_request().
TokensAnswered(r) ==
    /\ pc[r] = "called"
    /\ kind[r] # "logout"
    /\ \/ reply[r].status = "tokens" /\ Respond(r, "ok", reply[r].token)
       \/ reply[r].status = "refused" /\ Respond(r, "unauthorized", Keep)
       \/ reply[r].status = "unusable" /\ Respond(r, "bad_gateway", Keep)
    /\ UNCHANGED <<issued, alive, late, mishap>>

\* Mutant: an error of Keycloak leaves logout() before the cookie is cleared.
MutLogoutAnswered(r) ==
    /\ pc[r] = "called"
    /\ kind[r] = "logout"
    /\ IF reply[r].status = "unusable" THEN Respond(r, "bad_gateway", Keep)
                                       ELSE Respond(r, "ok", NoToken)
    /\ UNCHANGED <<issued, alive, late, mishap>>

\* logout(): 204, 400 and the errors all end in clear_refresh_cookie().
LogoutAnswered(r) ==
    /\ pc[r] = "called"
    /\ kind[r] = "logout"
    /\ Respond(r, "ok", NoToken)
    /\ UNCHANGED <<issued, alive, late, mishap>>

\* The call fails on the way there: nothing has happened, or nothing yet.
NotReached(r) ==
    /\ pc[r] = "calling"
    /\ IF kind[r] = "logout" THEN Respond(r, "ok", NoToken)
                             ELSE Respond(r, "unavailable", Keep)
    /\ \/ UNCHANGED <<late, mishap>>
       \/ /\ Cardinality(late) < MaxLate
          /\ late' = late \cup {[kind |-> kind[r], token |-> carried[r]]}
          /\ mishap' = TRUE
    /\ UNCHANGED <<issued, alive>>

\* The call fails on the way back, after Keycloak has acted: there is no answer
\* in time (503), or it cannot be read (502).
AnswerLost(r, status) ==
    /\ pc[r] = "called"
    /\ IF kind[r] = "logout" THEN Respond(r, "ok", NoToken) ELSE Respond(r, status, Keep)
    /\ mishap' = TRUE
    /\ UNCHANGED <<issued, alive, late>>

\* Keycloak serves a call whose client has given up.
ServesLate(call) ==
    /\ late' = late \ {call}
    /\ \E answer \in Replies : Serves(call.kind, call.token, answer)
    /\ UNCHANGED <<singleUse, cookie, requestVars, historyVars>>

----------------------------------------------------------------------------
(* The response reaches the browser, or does not.                          *)

Close(r) ==
    /\ pc[r] = "responding"
    /\ pc' = [pc EXCEPT ![r] = "idle"]
    /\ carried' = [carried EXCEPT ![r] = NoToken]
    /\ kind' = [kind EXCEPT ![r] = "refresh"]
    /\ response' = [response EXCEPT ![r] = NoResponse]
    /\ UNCHANGED <<keycloakVars, reply, late>>

\* What a response tells the user.
Told(r) ==
    IF kind[r] = "exchange" /\ response[r].status = "ok" THEN "login"
    ELSE IF kind[r] = "logout" /\ response[r].status \notin {"unauthorized", "forbidden"}
         THEN "logout" ELSE "neither"

Deliver(r) ==
    /\ Close(r)
    /\ cookie' = IF response[r].cookie = Keep THEN cookie ELSE response[r].cookie
    /\ IF Told(r) = "neither"
       THEN /\ crossing' = crossing \ {r}
            /\ undone' = (undone \/ (r \in crossing /\ response[r].cookie # Keep))
            /\ UNCHANGED asked
       ELSE /\ asked' = Told(r)
            /\ crossing' = {s \in Requests \ {r} : pc[s] # "idle"}
            /\ undone' = FALSE
    /\ UNCHANGED mishap

ResponseLost(r) ==
    /\ Close(r)
    /\ mishap' = TRUE
    /\ crossing' = crossing \ {r}
    /\ UNCHANGED <<cookie, asked, undone>>

\* The cookie lives as long as its token (max_age).
CookieExpires ==
    /\ cookie # NoToken
    /\ cookie.login \notin alive
    /\ cookie' = NoToken
    /\ UNCHANGED <<keycloakVars, requestVars, late, historyVars>>

----------------------------------------------------------------------------

CallStep(r) ==
    \/ KeycloakServes(r) \/ KeycloakFails(r)
    \/ TokensAnswered(r) \/ LogoutAnswered(r)
    \/ NotReached(r)
    \/ \E status \in {"unavailable", "bad_gateway"} : AnswerLost(r, status)

Next ==
    \/ \E l \in Logins : LoginAtKeycloak(l) \/ SessionEnds(l)
    \/ \E r \in Requests :
          \/ \E l \in Logins : Exchange(r, l)
          \/ UseCookie(r, "refresh") \/ UseCookie(r, "logout")
          \/ CallStep(r)
          \/ Deliver(r) \/ ResponseLost(r)
    \/ \E call \in late : ServesLate(call)
    \/ CookieExpires

Spec == Init /\ [][Next]_vars

----------------------------------------------------------------------------
(* Properties                                                              *)

\* The frontend logs the user out on a 401 (docs/frontend.md, section 4).  It
\* gets one only for a token or a code that Keycloak does not accept any more,
\* or without a cookie, and never because Keycloak was out of reach.
UnauthorizedIsFinal ==
    \A r \in Requests : response[r].status = "unauthorized" =>
        carried[r] = NoToken \/ ~Accepts(carried[r])

Quiet == \A r \in Requests : pc[r] = "idle"

\* A user who logged in stays logged in: with no request open, the cookie holds
\* a token that Keycloak accepts, also after refreshes that raced each other and
\* after calls that failed.  There are two exceptions: something was lost on the
\* way, or a refresh of an earlier login, still open when this one was answered,
\* has put the earlier cookie back.
LoginLasts ==
    Quiet /\ asked = "login" /\ ~mishap /\ ~undone =>
        cookie # NoToken /\ Accepts(cookie)

\* A user who logged out is out: the cookie stays away until the next login,
\* whatever became of the call to Keycloak (logout, l. 229-260).  The one
\* exception is a refresh that was still open when the logout was answered: its
\* answer sets the cookie again.
LogoutLasts == asked = "logout" /\ ~undone => cookie = NoToken

\* logout() says more: "the client must always end up in a clean state", and "the
\* session is already inaccessible to the client once the cookie is gone" (l.
\* 231-244).  The refresh that crosses the logout is what contradicts it.
LogoutIsClean == asked = "logout" => cookie = NoToken \/ ~Accepts(cookie)
=============================================================================
