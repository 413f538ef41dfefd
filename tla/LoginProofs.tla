---------------------------- MODULE LoginProofs ----------------------------
(***************************************************************************)
(* The proof that a login lasts (TokenSession), for any number of open       *)
(* requests, logins and tokens.                                            *)
(***************************************************************************)
EXTENDS TokenSessionProofs

\* What Keycloak accepts now.
Accepted == {token \in Tokens : Accepts(token)}

\* The token that a request has got and the browser has not.
Held(r) == IF pc[r] = "called" THEN reply[r].token ELSE response[r].cookie

Holds(r) ==
    \/ pc[r] = "called" /\ reply[r].status = "tokens"
    \/ pc[r] = "responding" /\ response[r].cookie \in Tokens

\* A refresh that was sent after the last login or logout.
Refreshing(r) == kind[r] = "refresh" /\ pc[r] # "idle" /\ r \notin crossing

\* A logout has come far enough to clear the cookie.
LogsOut(r) ==
    /\ kind[r] = "logout"
    /\ \/ pc[r] = "called"
       \/ pc[r] = "responding" /\ response[r].cookie = NoToken

LoggedIn == asked = "login" /\ ~undone /\ \A r \in Requests : ~LogsOut(r)

\* A request came with the cookie.
CameWith(r) == kind[r] # "exchange" /\ carried[r] # NoToken

\* An exchange carries a code, and every other call a refresh token; only a logout
\* clears the cookie.
Belongs ==
    /\ late = {}
    /\ cookie # NoToken => cookie.number >= 1
    /\ \A r \in crossing : pc[r] # "idle"
    /\ \A r \in Requests :
          /\ pc[r] = "responding" /\ response[r].cookie = NoToken =>
                 kind[r] = "logout" /\ response[r].status = "ok"
          /\ pc[r] = "responding" /\ response[r].status = "ok" => response[r].cookie # Keep
          /\ kind[r] = "exchange" => carried[r].number = 0
          /\ CameWith(r) => carried[r].number >= 1
          /\ Holds(r) => /\ kind[r] # "logout" /\ carried[r] \in Tokens
                         /\ Held(r).login = carried[r].login /\ Held(r).number >= 1

\* What an exchange has got is accepted, and nobody else has anything of its login.
Fresh ==
    \A r \in Requests : Holds(r) /\ kind[r] = "exchange" =>
        /\ Held(r) \in Accepted
        /\ cookie # NoToken => cookie.login # Held(r).login
        /\ \A s \in Requests \ {r} :
              /\ CameWith(s) => carried[s].login # Held(r).login
              /\ Holds(s) => Held(s).login # Held(r).login

\* Refreshes belong to the login of the cookie, and the requests that were open when
\* it came do not.
OneLogin ==
    LoggedIn =>
        /\ cookie # NoToken
        /\ \A r \in Requests : Refreshing(r) /\ carried[r] # NoToken =>
              carried[r].login = cookie.login
        /\ \A r \in crossing : CameWith(r) => carried[r].login # cookie.login

\* What a refresh has got is accepted.  If tokens work once, it is the only one on
\* its way, and nobody else has one that is accepted.
OnlyOne ==
    LoggedIn => \A r \in Requests : Refreshing(r) /\ Holds(r) =>
        /\ Held(r) \in Accepted
        /\ singleUse =>
              /\ cookie \notin Accepted
              /\ \A s \in Requests \ {r} : Refreshing(s) =>
                    ~Holds(s) /\ (pc[s] = "calling" => carried[s] \notin Accepted)

\* The browser has the token that is accepted, or will have.
HasToken ==
    LoggedIn => \/ cookie \in Accepted
                \/ \E r \in Requests : Refreshing(r) /\ Holds(r)

LoginParts == Belongs /\ Fresh /\ OneLogin /\ OnlyOne /\ HasToken

LoginInv == ~mishap => LoginParts

----------------------------------------------------------------------------
(* What Keycloak accepts after each of its steps.                          *)

\* Steps outside Keycloak change no token that it accepts.
LEMMA SameAccepted ==
  ASSUME UNCHANGED keycloakVars
  PROVE  Accepted' = Accepted
BY DEF Accepted, Accepts, keycloakVars

\* An accepted token is a real one, of a session that is alive.
LEMMA AcceptedParts ==
  ASSUME TypeOK, NEW token \in Accepted
  PROVE  token \in Tokens /\ token.login \in alive /\ token # NoToken
BY TokenAssumption DEF Accepted, Accepts

\* A login takes nothing away from the tokens of other logins.
LEMMA NewLogin ==
  ASSUME TypeOK, NEW l \in Logins, LoginAtKeycloak(l)
  PROVE  /\ alive \subseteq alive' /\ singleUse' = singleUse
         /\ \A token : Known(token) => (token \in Accepted' <=> token \in Accepted)
<1>1. /\ issued[l] = NotYet /\ issued' = [issued EXCEPT ![l] = 0]
      /\ alive' = alive \cup {l} /\ singleUse' = singleUse
  BY DEF LoginAtKeycloak
<1>2. ASSUME NEW token, Known(token)
      PROVE  token \in Accepted' <=> token \in Accepted
  <2>1. token \in Tokens /\ token.login \in Logins /\ token.login # l
    BY <1>1, <1>2 DEF Known, Tokens
  <2>2. issued'[token.login] = issued[token.login]
          /\ (token.login \in alive' <=> token.login \in alive)
    BY <1>1, <2>1 DEF TypeOK
  <2> QED
    BY <1>1, <2>1, <2>2 DEF Accepted, Accepts
<1> QED
  BY <1>1, <1>2

\* Who gets tokens had one that was accepted and has a new one; with Revoke Refresh
\* Token all others of the login are used up, and without it none is.
LEMMA KeycloakGives ==
  ASSUME TypeOK, Numbers, NEW what \in Kinds, NEW token \in Tokens, Known(token),
         NEW answer \in Replies, Serves(what, token, answer), singleUse' = singleUse,
         answer.status = "tokens"
  PROVE  /\ token \in Accepted /\ alive' = alive /\ what # "logout"
         /\ answer.token \in Accepted'
         /\ answer.token.login = token.login /\ answer.token.number >= 1
         /\ token.number = 0 => issued[token.login] = 0
         /\ \A t : Known(t) /\ t.login # token.login => (t \in Accepted' <=> t \in Accepted)
         /\ singleUse => \A t : Known(t) /\ t.login = token.login => t \notin Accepted'
         /\ ~singleUse => \A t \in Accepted : t.number >= 1 => t \in Accepted'
<1> USE TokenAssumption DEF TypeOK, NotYet
<1>1. /\ what # "logout" /\ Accepts(token) /\ issued[token.login] < MaxToken
      /\ issued' = [issued EXCEPT ![token.login] = @ + 1]
      /\ answer = [status |-> "tokens",
                   token  |-> [token EXCEPT !.number = issued[token.login] + 1]]
      /\ alive' = alive
  BY DEF Serves
<1>2. token.login \in Logins /\ token.number \in 0..MaxToken /\ token.login \in alive
  BY <1>1 DEF Tokens, Accepts
<1>3. issued[token.login] \in 0..MaxToken
  BY <1>2 DEF Known
<1>4. issued'[token.login] = issued[token.login] + 1
  BY <1>1, <1>2
<1>5. /\ answer.token \in Tokens /\ answer.token.login = token.login
      /\ answer.token.number = issued[token.login] + 1
  BY <1>1, <1>2, <1>3 DEF Tokens
<1>6. answer.token \in Accepted'
  BY <1>1, <1>2, <1>4, <1>5 DEF Accepted, Accepts
<1>7. token.number = 0 => issued[token.login] = 0
  BY <1>1, <1>3 DEF Accepts
<1>8. ASSUME NEW t, Known(t), t.login # token.login
      PROVE  t \in Accepted' <=> t \in Accepted
  <2>1. t \in Tokens /\ t.login \in Logins
    BY <1>8 DEF Known, Tokens
  <2>2. issued'[t.login] = issued[t.login]
    BY <1>1, <1>2, <1>8, <2>1
  <2> QED
    BY <1>1, <2>1, <2>2 DEF Accepted, Accepts
<1>9. ASSUME singleUse, NEW t, Known(t), t.login = token.login
      PROVE  t \notin Accepted'
  <2>1. t \in Tokens /\ t.number \in 0..MaxToken /\ t.number <= issued[token.login]
    BY <1>9 DEF Known, Tokens
  <2> QED
    BY <1>3, <1>4, <1>9, <2>1 DEF Accepted, Accepts
<1>10. ASSUME ~singleUse, NEW t \in Accepted, t.number >= 1
       PROVE  t \in Accepted'
  <2>1. /\ t \in Tokens /\ t.login \in Logins /\ t.number \in 0..MaxToken
        /\ t.login \in alive /\ Accepts(t)
    BY DEF Accepted, Accepts, Tokens
  <2>2. issued[t.login] \in 0..MaxToken
    BY <2>1 DEF Numbers
  <2>3. t.number <= issued[t.login]
    BY <1>10, <2>1, <2>2 DEF Accepts
  <2>4. issued'[t.login] \in Nat /\ issued[t.login] <= issued'[t.login]
    BY <1>1, <1>2, <1>4, <2>1, <2>2
  <2> QED
    BY <1>1, <1>10, <2>1, <2>2, <2>3, <2>4 DEF Accepted, Accepts
<1>11. token \in Accepted
  BY <1>1 DEF Accepted
<1>12. answer.token.number >= 1
  BY <1>3, <1>5
<1> QED
  BY <1>1, <1>5, <1>6, <1>7, <1>8, <1>9, <1>10, <1>11, <1>12

\* A refusal changes nothing at Keycloak.
LEMMA KeycloakRefuses ==
  ASSUME NEW what \in Kinds \ {"logout"}, NEW token, NEW answer \in Replies,
         Serves(what, token, answer), singleUse' = singleUse, answer.status # "tokens"
  PROVE  Accepted' = Accepted /\ alive' = alive
<1>1. UNCHANGED <<issued, alive>>
  BY DEF Serves
<1> QED
  BY <1>1, SameAccepted DEF keycloakVars

\* A logout takes nothing away from the tokens of other logins, and gives nothing.
LEMMA KeycloakRevokes ==
  ASSUME TypeOK, NEW token \in Tokens, NEW answer \in Replies,
         Serves("logout", token, answer), singleUse' = singleUse
  PROVE  /\ answer.status # "tokens"
         /\ \A t \in Tokens : t.login # token.login =>
               (t \in Accepted' <=> t \in Accepted)
<1>1. /\ issued' = issued /\ answer.status # "tokens"
      /\ alive' = alive \/ alive' = alive \ {token.login}
  BY DEF Serves
<1>2. ASSUME NEW t \in Tokens, t.login # token.login
      PROVE  t \in Accepted' <=> t \in Accepted
  BY <1>1, <1>2 DEF Accepted, Accepts
<1> QED
  BY <1>1, <1>2

\* What a request has got has been given out.
LEMMA HeldKnown ==
  ASSUME TypeOK, Numbers, NEW r \in Requests, Holds(r)
  PROVE  Held(r) \in Tokens /\ Known(Held(r))
BY TokenAssumption DEF Holds, Held, Numbers, Known

\* A call that Keycloak accepts does not belong to the login of an exchange that has
\* got its token.
LEMMA NotFresh ==
  ASSUME TypeOK, Shape, Numbers, Belongs, Fresh, NEW r \in Requests, pc[r] = "calling",
         carried[r] \in Accepted, NEW s \in Requests \ {r}, Holds(s), kind[s] = "exchange"
  PROVE  Held(s).login # carried[r].login
<1>1. carried[r] \in Tokens /\ carried[r] # NoToken
  BY AcceptedParts
<1>2. CASE kind[r] # "exchange"
  BY <1>1, <1>2 DEF Fresh, CameWith
<1>3. CASE kind[r] = "exchange"
  <2>1. carried[r].number = 0
    BY <1>3 DEF Belongs
  <2>2. issued[carried[r].login] = 0
    BY <1>1, <2>1 DEF Accepted, Accepts
  <2>3. /\ Held(s) \in Tokens /\ Known(Held(s)) /\ Held(s).number >= 1
        /\ Held(s).number <= issued[Held(s).login]
    BY HeldKnown DEF Belongs, Known
  <2>4. Held(s).number \in Nat
    BY <2>3 DEF Tokens
  <2> QED
    BY <2>2, <2>3, <2>4
<1> QED
  BY <1>2, <1>3

----------------------------------------------------------------------------
(* The steps.                                                              *)

\* A step that requests do not see.
LEMMA Unseen ==
  ASSUME TypeOK, Shape, Numbers, LoginParts,
         UNCHANGED <<requestVars, cookie, asked, crossing, undone, late, singleUse>>,
         \A token : Known(token) => (token \in Accepted' <=> token \in Accepted)
  PROVE  LoginParts'
<1> USE DEF LoginParts
<1>1. \A r \in Requests : /\ Holds(r)' = Holds(r) /\ Held(r)' = Held(r)
                          /\ LogsOut(r)' = LogsOut(r) /\ Refreshing(r)' = Refreshing(r)
                          /\ CameWith(r)' = CameWith(r)
  BY DEF Holds, Held, LogsOut, Refreshing, CameWith, requestVars
<1>2. LoggedIn' = LoggedIn
  BY <1>1 DEF LoggedIn
<1>3. UNCHANGED <<pc, kind, carried, reply, response, cookie, crossing, late, singleUse>>
  BY DEF requestVars
<1>4. Belongs'
  BY <1>1, <1>3 DEF Belongs
<1>5. \A r \in Requests : Holds(r) => (Held(r) \in Accepted' <=> Held(r) \in Accepted)
  BY HeldKnown
<1>6. Fresh'
  BY <1>1, <1>3, <1>5 DEF Fresh
<1>7. OneLogin'
  BY <1>1, <1>2, <1>3 DEF OneLogin, TypeOK
<1>8. \A s \in Requests : pc[s] = "calling" =>
         (carried[s] \in Accepted' <=> carried[s] \in Accepted)
  BY TokenAssumption DEF Shape, Numbers
<1>9. cookie \in Accepted' <=> cookie \in Accepted
  <2>1. CASE cookie = NoToken
    BY <2>1, TokenAssumption DEF Accepted
  <2>2. CASE cookie # NoToken
    BY <2>2 DEF Numbers
  <2> QED
    BY <2>1, <2>2
<1>10. OnlyOne'
  BY <1>1, <1>2, <1>3, <1>5, <1>8, <1>9 DEF OnlyOne
<1>11. HasToken'
  BY <1>1, <1>2, <1>3, <1>9 DEF HasToken
<1> QED
  BY <1>4, <1>6, <1>7, <1>10, <1>11

\* The login of the cookie is alive.
LEMMA CookieAlive ==
  ASSUME TypeOK, LoginParts, LoggedIn
  PROVE  cookie # NoToken /\ cookie.login \in alive
<1> USE DEF LoginParts
<1>1. CASE cookie \in Accepted
  BY <1>1, AcceptedParts DEF OneLogin
<1>2. ASSUME NEW r \in Requests, Refreshing(r), Holds(r)
      PROVE  cookie # NoToken /\ cookie.login \in alive
  <2>1. Held(r).login \in alive /\ Held(r).login = carried[r].login /\ carried[r] \in Tokens
    BY <1>2, AcceptedParts DEF OnlyOne, Belongs
  <2> QED
    BY <1>2, <2>1, TokenAssumption DEF OneLogin
<1> QED
  BY <1>1, <1>2 DEF HasToken

\* The cookie of a dead login expires: the login has been logged out.
LEMMA ExpiryStep ==
  ASSUME TypeOK, LoginParts, CookieExpires
  PROVE  LoginParts'
<1> USE DEF LoginParts
<1>1. /\ cookie # NoToken /\ cookie.login \notin alive /\ cookie' = NoToken
      /\ UNCHANGED <<singleUse, issued, alive, pc, kind, carried, reply, response, late,
                     asked, crossing, undone>>
  BY DEF CookieExpires, keycloakVars, requestVars, historyVars
<1>2. /\ \A q \in Requests : /\ Holds(q)' = Holds(q) /\ Held(q)' = Held(q)
                             /\ LogsOut(q)' = LogsOut(q) /\ CameWith(q)' = CameWith(q)
      /\ Accepted' = Accepted
  BY <1>1, SameAccepted DEF Holds, Held, LogsOut, CameWith, keycloakVars
<1>3. ~LoggedIn'
  BY <1>1, <1>2, CookieAlive DEF LoggedIn
<1>4. Belongs'
  BY <1>1, <1>2 DEF Belongs
<1>5. Fresh'
  BY <1>1, <1>2 DEF Fresh
<1> QED
  BY <1>3, <1>4, <1>5 DEF OneLogin, OnlyOne, HasToken

\* The others, while one request is sent, called, answered, or closed.
LEMMA Others ==
  ASSUME TypeOK, NEW r \in Requests,
         pc' = [pc EXCEPT ![r] = pc'[r]], kind' = [kind EXCEPT ![r] = kind'[r]],
         carried' = [carried EXCEPT ![r] = carried'[r]],
         reply' = [reply EXCEPT ![r] = reply'[r]],
         response' = [response EXCEPT ![r] = response'[r]]
  PROVE  \A s \in Requests \ {r} :
            /\ Holds(s)' = Holds(s) /\ Held(s)' = Held(s)
            /\ LogsOut(s)' = LogsOut(s) /\ CameWith(s)' = CameWith(s)
            /\ (s \in crossing' <=> s \in crossing) => Refreshing(s)' = Refreshing(s)
            /\ pc'[s] = pc[s] /\ kind'[s] = kind[s]
            /\ carried'[s] = carried[s] /\ response'[s] = response[s]
<1> SUFFICES ASSUME NEW s \in Requests \ {r}
             PROVE  /\ Holds(s)' = Holds(s) /\ Held(s)' = Held(s)
                    /\ LogsOut(s)' = LogsOut(s) /\ CameWith(s)' = CameWith(s)
                    /\ (s \in crossing' <=> s \in crossing) => Refreshing(s)' = Refreshing(s)
                    /\ pc'[s] = pc[s] /\ kind'[s] = kind[s]
                    /\ carried'[s] = carried[s] /\ response'[s] = response[s]
  OBVIOUS
<1>1. /\ pc'[s] = pc[s] /\ kind'[s] = kind[s] /\ carried'[s] = carried[s]
      /\ reply'[s] = reply[s] /\ response'[s] = response[s]
  BY DEF TypeOK
<1> QED
  BY <1>1 DEF Holds, Held, LogsOut, Refreshing, CameWith

\* A request is sent, and refused or on its way to Keycloak.
LEMMA SendStep ==
  ASSUME TypeOK, Shape, LoginParts, NEW r \in Requests,
         NEW what \in Kinds, NEW token \in Tokens \cup {NoToken}, Send(r, what, token),
         IF what = "exchange" THEN token \in Tokens /\ token.number = 0 ELSE token = cookie,
         \/ \E status \in {"forbidden", "unauthorized", "invalid"} : Refuse(r, status)
         \/ token \in Tokens /\ Call(r)
  PROVE  LoginParts'
<1> USE TokenAssumption DEF LoginParts
<1>1. /\ pc[r] = "idle" /\ kind' = [kind EXCEPT ![r] = what]
      /\ carried' = [carried EXCEPT ![r] = token]
      /\ UNCHANGED <<singleUse, issued, alive, cookie, reply, late, asked, crossing, undone>>
  BY DEF Send, keycloakVars, historyVars
<1>2. /\ pc' = [pc EXCEPT ![r] = pc'[r]] /\ response' = [response EXCEPT ![r] = response'[r]]
      /\ \/ pc'[r] = "responding" /\ response'[r].cookie = Keep /\ response'[r].status # "ok"
         \/ pc'[r] = "calling" /\ response' = response
  BY DEF Refuse, Call, TypeOK
<1>3. Accepted' = Accepted
  BY <1>1, SameAccepted DEF keycloakVars
<1>4. \A s \in Requests \ {r} :
          /\ Holds(s)' = Holds(s) /\ Held(s)' = Held(s)
          /\ LogsOut(s)' = LogsOut(s) /\ CameWith(s)' = CameWith(s)
          /\ Refreshing(s)' = Refreshing(s)
          /\ pc'[s] = pc[s] /\ kind'[s] = kind[s]
          /\ carried'[s] = carried[s] /\ response'[s] = response[s]
  <2>1. /\ kind' = [kind EXCEPT ![r] = kind'[r]]
        /\ carried' = [carried EXCEPT ![r] = carried'[r]]
        /\ reply' = [reply EXCEPT ![r] = reply'[r]]
    BY <1>1 DEF TypeOK
  <2> QED
    BY <1>1, <1>2, <2>1, Others
<1>5. ~Holds(r)' /\ ~LogsOut(r)' /\ ~Holds(r) /\ ~LogsOut(r) /\ ~Refreshing(r)
  BY <1>1, <1>2 DEF Holds, LogsOut, Refreshing, TypeOK
<1>6. /\ kind'[r] = what /\ carried'[r] = token /\ r \notin crossing'
      /\ CameWith(r)' => token = cookie /\ cookie # NoToken
      /\ Refreshing(r)' => token = cookie
  BY <1>1 DEF CameWith, Refreshing, Belongs, TypeOK
<1>7. LoggedIn' = LoggedIn
  BY <1>1, <1>4, <1>5 DEF LoggedIn
<1>8. Belongs'
  <2>1. crossing' = crossing /\ crossing \subseteq Requests /\ r \notin crossing
    BY <1>1, <1>6 DEF TypeOK
  <2>2. \A s \in crossing' : pc'[s] # "idle"
    BY <1>4, <2>1 DEF Belongs
  <2> QED
    BY <1>1, <1>2, <1>4, <1>5, <1>6, <2>2 DEF Belongs
<1>9. Fresh'
  BY <1>1, <1>3, <1>4, <1>5, <1>6 DEF Fresh
<1>10. OneLogin'
  <2>1. crossing' = crossing /\ crossing \subseteq Requests /\ cookie' = cookie /\ r \notin crossing
    BY <1>1, <1>6 DEF TypeOK
  <2> QED
    BY <1>4, <1>5, <1>6, <1>7, <2>1 DEF OneLogin
<1>11. OnlyOne'
  BY <1>1, <1>3, <1>4, <1>5, <1>6, <1>7 DEF OnlyOne
<1>12. HasToken'
  BY <1>1, <1>3, <1>4, <1>5, <1>7 DEF HasToken
<1> QED
  BY <1>8, <1>9, <1>10, <1>11, <1>12

\* The others, while Keycloak serves one call.
LEMMA OthersCalled ==
  ASSUME TypeOK, NEW r \in Requests, pc' = [pc EXCEPT ![r] = "called"], NEW answer,
         reply' = [reply EXCEPT ![r] = answer],
         UNCHANGED <<kind, carried, response, crossing>>
  PROVE  \A s \in Requests \ {r} :
            /\ Holds(s)' = Holds(s) /\ Held(s)' = Held(s)
            /\ LogsOut(s)' = LogsOut(s) /\ CameWith(s)' = CameWith(s)
            /\ Refreshing(s)' = Refreshing(s) /\ pc'[s] = pc[s]
<1>1. /\ pc' = [pc EXCEPT ![r] = pc'[r]] /\ kind' = [kind EXCEPT ![r] = kind'[r]]
      /\ carried' = [carried EXCEPT ![r] = carried'[r]]
  BY DEF TypeOK
<1>2. /\ reply' = [reply EXCEPT ![r] = reply'[r]]
      /\ response' = [response EXCEPT ![r] = response'[r]]
  BY DEF TypeOK
<1> QED
  BY <1>1, <1>2, Others

\* Keycloak has served, or failed, the call of a logout.
LEMMA LogoutCalled ==
  ASSUME TypeOK, Shape, Numbers, LoginParts, NEW r \in Requests,
         kind[r] = "logout", pc[r] = "calling", pc' = [pc EXCEPT ![r] = "called"],
         NEW answer \in Replies, answer.status # "tokens",
         \A t \in Tokens : t.login # carried[r].login => (t \in Accepted' <=> t \in Accepted),
         reply' = [reply EXCEPT ![r] = answer],
         UNCHANGED <<singleUse, cookie, kind, carried, response, late, asked, crossing, undone>>
  PROVE  LoginParts'
<1> USE DEF LoginParts
<1>1. \A s \in Requests \ {r} :
          /\ Holds(s)' = Holds(s) /\ Held(s)' = Held(s) /\ CameWith(s)' = CameWith(s)
          /\ pc'[s] = pc[s]
  BY OthersCalled
<1>2. /\ ~Holds(r)' /\ LogsOut(r)' /\ CameWith(r)' = CameWith(r) /\ CameWith(r)
      /\ pc'[r] = "called"
  BY TokenAssumption DEF Holds, LogsOut, CameWith, TypeOK, Shape
<1>3. ~LoggedIn'
  BY <1>2 DEF LoggedIn
<1>4. Belongs'
  BY <1>1, <1>2 DEF Belongs
<1>5. Fresh'
  <2>1. ASSUME NEW s \in Requests \ {r}, Holds(s), kind[s] = "exchange"
        PROVE  Held(s) \in Accepted'
    BY <1>2, <2>1, HeldKnown DEF Fresh
  <2> QED
    BY <1>1, <1>2, <2>1 DEF Fresh
<1> QED
  BY <1>3, <1>4, <1>5 DEF OneLogin, OnlyOne, HasToken

\* Keycloak gives out a token.
LEMMA TokensGiven ==
  ASSUME TypeOK, Shape, Numbers, LoginParts, NEW r \in Requests,
         pc[r] = "calling", NEW answer \in Replies, answer.status = "tokens",
         Serves(kind[r], carried[r], answer),
         pc' = [pc EXCEPT ![r] = "called"], reply' = [reply EXCEPT ![r] = answer],
         UNCHANGED <<singleUse, cookie, kind, carried, response, late, asked, crossing, undone>>
  PROVE  LoginParts'
<1> USE TokenAssumption DEF LoginParts
<1>1. carried[r] \in Tokens /\ carried[r] # NoToken /\ Known(carried[r]) /\ kind[r] \in Kinds
  BY DEF Shape, Numbers, TypeOK
<1>2. /\ carried[r] \in Accepted /\ kind[r] # "logout"
      /\ answer.token \in Accepted'
      /\ answer.token.login = carried[r].login /\ answer.token.number >= 1
      /\ carried[r].number = 0 => issued[carried[r].login] = 0
      /\ \A t : Known(t) /\ t.login # carried[r].login => (t \in Accepted' <=> t \in Accepted)
      /\ singleUse => \A t : Known(t) /\ t.login = carried[r].login => t \notin Accepted'
      /\ ~singleUse => \A t \in Accepted : t.number >= 1 => t \in Accepted'
  BY <1>1, KeycloakGives
<1>3. \A s \in Requests \ {r} :
          /\ Holds(s)' = Holds(s) /\ Held(s)' = Held(s)
          /\ LogsOut(s)' = LogsOut(s) /\ CameWith(s)' = CameWith(s)
          /\ Refreshing(s)' = Refreshing(s) /\ pc'[s] = pc[s]
  BY OthersCalled
<1>4. /\ Holds(r)' /\ Held(r)' = answer.token /\ ~LogsOut(r)' /\ ~Holds(r) /\ ~LogsOut(r)
      /\ Refreshing(r)' = Refreshing(r) /\ CameWith(r)' = CameWith(r) /\ pc'[r] = "called"
  BY <1>2 DEF Holds, Held, LogsOut, Refreshing, CameWith, TypeOK
<1>5. LoggedIn' = LoggedIn
  BY <1>3, <1>4 DEF LoggedIn
<1>6. Belongs'
  <2>1. crossing' = crossing /\ crossing \subseteq Requests
    BY DEF TypeOK
  <2>2. \A s \in crossing' : pc'[s] # "idle"
    BY <1>3, <1>4, <2>1 DEF Belongs
  <2> QED
    BY <1>1, <1>2, <1>3, <1>4, <2>2 DEF Belongs
<1>7. ASSUME NEW s \in Requests \ {r}, Holds(s), kind[s] = "exchange"
      PROVE  Held(s).login # carried[r].login /\ Held(s) \in Accepted'
  <2>1. Held(s).login # carried[r].login /\ Held(s) \in Accepted
    BY <1>2, <1>7, NotFresh DEF Fresh
  <2> QED
    BY <1>2, <1>7, <2>1, HeldKnown
<1>8. ASSUME kind[r] = "exchange", NEW token, token \in Tokens, Known(token), token.number >= 1
      PROVE  token.login # carried[r].login
  <2>1. issued[carried[r].login] = 0
    BY <1>2, <1>8 DEF Belongs
  <2>2. token.number <= issued[token.login] /\ token.number \in Nat
    BY <1>8 DEF Known, Tokens
  <2> QED
    BY <1>8, <2>1, <2>2
<1>9. Fresh'
  <2>1. ASSUME kind[r] = "exchange"
        PROVE  /\ cookie # NoToken => cookie.login # carried[r].login
               /\ \A s \in Requests \ {r} :
                     /\ CameWith(s) => carried[s].login # carried[r].login
                     /\ Holds(s) => Held(s).login # carried[r].login
    <3>1. cookie # NoToken => cookie.login # carried[r].login
      BY <1>8, <2>1 DEF Belongs, Numbers, TypeOK
    <3>2. ASSUME NEW s \in Requests, CameWith(s) PROVE carried[s].login # carried[r].login
      BY <1>8, <2>1, <3>2 DEF CameWith, Belongs, Numbers, TypeOK
    <3>3. ASSUME NEW s \in Requests, Holds(s) PROVE Held(s).login # carried[r].login
      BY <1>8, <2>1, <3>3, HeldKnown DEF Belongs
    <3> QED
      BY <3>1, <3>2, <3>3
  <2> QED
    BY <1>2, <1>3, <1>4, <1>7, <2>1 DEF Fresh
<1>10. OneLogin'
  <2>1. crossing' = crossing /\ crossing \subseteq Requests
    BY DEF TypeOK
  <2> QED
    BY <1>3, <1>4, <1>5, <2>1 DEF OneLogin
<1>11. CASE ~LoggedIn
  BY <1>5, <1>6, <1>9, <1>10, <1>11 DEF OnlyOne, HasToken
<1>12. CASE LoggedIn /\ ~Refreshing(r)
  <2>1. cookie # NoToken /\ Known(cookie) /\ cookie \in Tokens
    BY <1>12 DEF OneLogin, Numbers, TypeOK
  <2>2. cookie.login # carried[r].login
    <3>1. CASE kind[r] = "exchange"
      BY <1>8, <2>1, <3>1 DEF Belongs
    <3>2. CASE kind[r] = "refresh"
      BY <1>1, <1>12, <3>2 DEF OneLogin, Refreshing, CameWith
    <3> QED
      BY <1>1, <1>2, <3>1, <3>2 DEF Kinds
  <2>3. cookie \in Accepted' <=> cookie \in Accepted
    BY <1>2, <2>1, <2>2
  <2>4. ASSUME NEW s \in Requests \ {r}, Refreshing(s), pc[s] = "calling"
        PROVE  carried[s] \in Accepted' <=> carried[s] \in Accepted
    <3>1. carried[s] # NoToken /\ Known(carried[s]) /\ carried[s].login = cookie.login
      BY <1>12, <2>4 DEF Shape, Numbers, OneLogin
    <3> QED
      BY <1>2, <2>2, <3>1
  <2>5. ASSUME NEW s \in Requests \ {r}, Refreshing(s), Holds(s)
        PROVE  Held(s) \in Accepted' <=> Held(s) \in Accepted
    <3>1. Held(s).login = carried[s].login /\ carried[s] \in Tokens /\ Known(Held(s))
      BY <2>5, HeldKnown DEF Belongs
    <3>2. carried[s].login = cookie.login
      BY <1>12, <2>5, <3>1 DEF OneLogin
    <3> QED
      BY <1>2, <2>2, <3>1, <3>2
  <2>6. OnlyOne'
    BY <1>3, <1>4, <1>12, <2>3, <2>4, <2>5 DEF OnlyOne
  <2>7. HasToken'
    BY <1>3, <1>4, <1>12, <2>3 DEF HasToken
  <2> QED
    BY <1>6, <1>9, <1>10, <2>6, <2>7
<1>13. CASE LoggedIn /\ Refreshing(r)
  <2>1. cookie # NoToken /\ carried[r].login = cookie.login /\ Known(cookie)
    BY <1>1, <1>13 DEF OneLogin, Numbers
  <2>2. ASSUME singleUse PROVE cookie \notin Accepted'
    BY <1>2, <2>1, <2>2
  <2>3. ASSUME singleUse, NEW s \in Requests \ {r}, Refreshing(s) PROVE ~Holds(s)
    BY <1>2, <1>4, <1>13, <2>3 DEF OnlyOne
  <2>4. ASSUME singleUse, NEW s \in Requests \ {r}, Refreshing(s), pc[s] = "calling"
        PROVE  carried[s] \notin Accepted'
    <3>1. carried[s] # NoToken /\ Known(carried[s])
      BY <2>4 DEF Shape, Numbers
    <3>2. carried[s].login = carried[r].login
      BY <1>13, <2>1, <2>4, <3>1 DEF OneLogin
    <3> QED
      BY <1>2, <2>4, <3>1, <3>2
  <2>5. ASSUME NEW s \in Requests \ {r}, Refreshing(s), Holds(s) PROVE Held(s) \in Accepted'
    BY <1>2, <1>13, <2>3, <2>5 DEF OnlyOne, Belongs
  <2>6. OnlyOne'
    BY <1>2, <1>3, <1>4, <2>2, <2>3, <2>4, <2>5 DEF OnlyOne
  <2>7. HasToken'
    BY <1>4, <1>13 DEF HasToken
  <2> QED
    BY <1>6, <1>9, <1>10, <2>6, <2>7
<1> QED
  BY <1>11, <1>12, <1>13

\* Keycloak refuses, or fails, a call that is not a logout.
LEMMA NothingGiven ==
  ASSUME TypeOK, Shape, LoginParts, NEW r \in Requests,
         pc[r] = "calling", kind[r] # "logout", NEW answer \in Replies,
         answer.status # "tokens", Accepted' = Accepted,
         pc' = [pc EXCEPT ![r] = "called"], reply' = [reply EXCEPT ![r] = answer],
         UNCHANGED <<singleUse, cookie, kind, carried, response, late, asked, crossing, undone>>
  PROVE  LoginParts'
<1> USE DEF LoginParts
<1>1. \A s \in Requests \ {r} :
          /\ Holds(s)' = Holds(s) /\ Held(s)' = Held(s)
          /\ LogsOut(s)' = LogsOut(s) /\ CameWith(s)' = CameWith(s)
          /\ Refreshing(s)' = Refreshing(s) /\ pc'[s] = pc[s]
  BY OthersCalled
<1>2. /\ ~Holds(r)' /\ ~LogsOut(r)' /\ ~Holds(r) /\ ~LogsOut(r)
      /\ Refreshing(r)' = Refreshing(r) /\ CameWith(r)' = CameWith(r) /\ pc'[r] = "called"
  BY DEF Holds, LogsOut, Refreshing, CameWith, TypeOK
<1>3. LoggedIn' = LoggedIn
  BY <1>1, <1>2 DEF LoggedIn
<1>4. crossing' = crossing /\ crossing \subseteq Requests
  BY DEF TypeOK
<1>5. Belongs'
  <2>1. \A s \in crossing' : pc'[s] # "idle"
    BY <1>1, <1>2, <1>4 DEF Belongs
  <2> QED
    BY <1>1, <1>2, <2>1 DEF Belongs
<1>6. Fresh'
  BY <1>1, <1>2 DEF Fresh
<1>7. OneLogin'
  BY <1>1, <1>2, <1>3, <1>4 DEF OneLogin
<1>8. OnlyOne'
  BY <1>1, <1>2, <1>3 DEF OnlyOne
<1>9. HasToken'
  BY <1>1, <1>2, <1>3 DEF HasToken
<1> QED
  BY <1>5, <1>6, <1>7, <1>8, <1>9

\* A route answers: it clears the cookie, sets it, or leaves it.
LEMMA RespondStep ==
  ASSUME TypeOK, LoginParts, NEW r \in Requests,
         pc[r] \in {"calling", "called"}, NEW status, NEW set,
         Respond(r, status, set), UNCHANGED <<issued, alive, late>>,
         \/ set = Keep /\ status # "ok" /\ kind[r] # "logout" /\ ~Holds(r)
         \/ set = NoToken /\ status = "ok" /\ kind[r] = "logout"
         \/ set = reply[r].token /\ status = "ok" /\ Holds(r) /\ pc[r] = "called"
  PROVE  LoginParts'
<1> USE TokenAssumption DEF LoginParts
<1>1. /\ pc' = [pc EXCEPT ![r] = "responding"]
      /\ response' = [response EXCEPT ![r] = [status |-> status, cookie |-> set]]
      /\ reply' = [reply EXCEPT ![r] = NoReply]
      /\ UNCHANGED <<singleUse, cookie, kind, carried, asked, crossing, undone>>
      /\ crossing \subseteq Requests
  BY DEF Respond, TypeOK
<1>2. \A s \in Requests \ {r} :
          /\ Holds(s)' = Holds(s) /\ Held(s)' = Held(s)
          /\ LogsOut(s)' = LogsOut(s) /\ CameWith(s)' = CameWith(s)
          /\ Refreshing(s)' = Refreshing(s)
          /\ pc'[s] = pc[s] /\ response'[s] = response[s]
  <2>1. pc' = [pc EXCEPT ![r] = pc'[r]] /\ reply' = [reply EXCEPT ![r] = reply'[r]]
        /\ response' = [response EXCEPT ![r] = response'[r]]
    BY <1>1 DEF TypeOK
  <2>2. kind' = [kind EXCEPT ![r] = kind'[r]] /\ carried' = [carried EXCEPT ![r] = carried'[r]]
    BY <1>1 DEF TypeOK
  <2> QED
    BY <1>1, <2>1, <2>2, Others
<1>3. /\ pc'[r] = "responding" /\ Refreshing(r)' = Refreshing(r)
      /\ CameWith(r)' = CameWith(r)
      /\ response'[r].cookie = set /\ response'[r].status = status
  BY <1>1 DEF Refreshing, CameWith, TypeOK
<1>4. Accepted' = Accepted
  BY <1>1, SameAccepted DEF keycloakVars
<1>5. \A s \in crossing' : pc'[s] # "idle"
  BY <1>1, <1>2, <1>3 DEF Belongs
<1>6. CASE set = Keep /\ status # "ok" /\ kind[r] # "logout" /\ ~Holds(r)
  <2>1. ~Holds(r)' /\ ~LogsOut(r)' /\ ~LogsOut(r)
    BY <1>1, <1>3, <1>6 DEF Holds, LogsOut
  <2>2. LoggedIn' = LoggedIn
    BY <1>1, <1>2, <2>1 DEF LoggedIn
  <2>3. Belongs'
    BY <1>1, <1>2, <1>3, <1>5, <1>6, <2>1 DEF Belongs
  <2>4. Fresh'
    BY <1>1, <1>2, <1>3, <1>4, <1>6, <2>1 DEF Fresh
  <2>5. OneLogin'
    BY <1>1, <1>2, <1>3, <2>2 DEF OneLogin
  <2>6. OnlyOne'
    BY <1>1, <1>2, <1>3, <1>4, <2>1, <2>2 DEF OnlyOne
  <2>7. HasToken'
    BY <1>1, <1>2, <1>3, <1>4, <1>6, <2>2 DEF HasToken
  <2> QED
    BY <2>3, <2>4, <2>5, <2>6, <2>7
<1>7. CASE set = NoToken /\ status = "ok" /\ kind[r] = "logout"
  <2>1. ~Holds(r)' /\ LogsOut(r)' /\ ~LoggedIn'
    BY <1>1, <1>3, <1>7 DEF Holds, LogsOut, LoggedIn
  <2>2. Belongs'
    BY <1>1, <1>2, <1>3, <1>5, <1>7, <2>1 DEF Belongs
  <2>3. Fresh'
    BY <1>1, <1>2, <1>3, <1>4, <1>7, <2>1 DEF Fresh
  <2> QED
    BY <2>1, <2>2, <2>3 DEF OneLogin, OnlyOne, HasToken
<1>8. CASE set = reply[r].token /\ status = "ok" /\ Holds(r) /\ pc[r] = "called"
  <2>1. set = Held(r) /\ reply[r].status = "tokens" /\ set \in Tokens /\ set # Keep
          /\ set # NoToken /\ kind[r] # "logout"
    BY <1>8 DEF Holds, Held, Belongs, TypeOK, Replies
  <2>2. Holds(r)' /\ Held(r)' = Held(r) /\ ~LogsOut(r)' /\ ~LogsOut(r)
    BY <1>1, <1>3, <2>1 DEF Holds, Held, LogsOut
  <2>3. LoggedIn' = LoggedIn
    BY <1>1, <1>2, <2>2 DEF LoggedIn
  <2>4. Belongs'
    BY <1>1, <1>2, <1>3, <1>5, <1>8, <2>1, <2>2 DEF Belongs
  <2>5. Fresh'
    BY <1>1, <1>2, <1>3, <1>4, <1>8, <2>2 DEF Fresh
  <2>6. OneLogin'
    BY <1>1, <1>2, <1>3, <2>3 DEF OneLogin
  <2>7. OnlyOne'
    BY <1>1, <1>2, <1>3, <1>4, <1>8, <2>2, <2>3 DEF OnlyOne
  <2>8. HasToken'
    BY <1>1, <1>2, <1>3, <1>4, <1>8, <2>2, <2>3 DEF HasToken
  <2> QED
    BY <2>4, <2>5, <2>6, <2>7, <2>8
<1> QED
  BY <1>6, <1>7, <1>8

\* The browser takes a response.
LEMMA DeliverStep ==
  ASSUME TypeOK, Answers, LoginParts, NEW r \in Requests, Deliver(r)
  PROVE  LoginParts'
<1> USE TokenAssumption DEF LoginParts
<1>1. /\ pc[r] = "responding" /\ pc' = [pc EXCEPT ![r] = "idle"]
      /\ carried' = [carried EXCEPT ![r] = NoToken]
      /\ kind' = [kind EXCEPT ![r] = "refresh"]
      /\ response' = [response EXCEPT ![r] = NoResponse]
      /\ UNCHANGED <<singleUse, issued, alive, reply, late>>
      /\ cookie' = IF response[r].cookie = Keep THEN cookie ELSE response[r].cookie
      /\ crossing \subseteq Requests
  BY DEF Deliver, Close, keycloakVars, TypeOK
<1>2. \A s \in Requests \ {r} :
          /\ Holds(s)' = Holds(s) /\ Held(s)' = Held(s)
          /\ LogsOut(s)' = LogsOut(s) /\ CameWith(s)' = CameWith(s)
          /\ (s \in crossing' <=> s \in crossing) => Refreshing(s)' = Refreshing(s)
          /\ pc'[s] = pc[s] /\ kind'[s] = kind[s]
          /\ carried'[s] = carried[s] /\ response'[s] = response[s]
  <2>1. pc' = [pc EXCEPT ![r] = pc'[r]] /\ kind' = [kind EXCEPT ![r] = kind'[r]]
        /\ carried' = [carried EXCEPT ![r] = carried'[r]]
        /\ response' = [response EXCEPT ![r] = response'[r]]
    BY <1>1 DEF TypeOK
  <2>2. reply' = [reply EXCEPT ![r] = reply'[r]]
    BY <1>1 DEF TypeOK
  <2> QED
    BY <2>1, <2>2, Others
<1>3. /\ pc'[r] = "idle" /\ kind'[r] = "refresh" /\ carried'[r] = NoToken
      /\ ~Holds(r)' /\ ~LogsOut(r)' /\ ~Refreshing(r)' /\ ~CameWith(r)'
  BY <1>1 DEF Holds, LogsOut, Refreshing, CameWith, TypeOK
<1>4. Accepted' = Accepted
  BY <1>1, SameAccepted DEF keycloakVars
<1>5. CASE response[r].cookie = Keep
  <2>1. ~Holds(r) /\ ~LogsOut(r) /\ response[r].status # "ok" /\ cookie' = cookie
    BY <1>1, <1>5 DEF Holds, LogsOut, Belongs
  <2>2. Told(r) = "neither"
    BY <1>1, <1>5, <2>1 DEF Told, Answers
  <2>3. asked' = asked /\ undone' = undone /\ crossing' = crossing \ {r}
    BY <1>5, <2>2 DEF Deliver, TypeOK
  <2>4. \A s \in Requests \ {r} : Refreshing(s)' = Refreshing(s)
    BY <1>2, <2>3
  <2>5. LoggedIn' = LoggedIn
    BY <1>2, <1>3, <2>1, <2>3 DEF LoggedIn
  <2>6. Belongs'
    <3>1. \A s \in crossing' : pc'[s] # "idle"
      BY <1>1, <1>2, <2>3 DEF Belongs
    <3> QED
      BY <1>1, <1>2, <1>3, <2>1, <3>1 DEF Belongs
  <2>7. Fresh'
    BY <1>2, <1>3, <1>4, <2>1 DEF Fresh
  <2>8. OneLogin'
    BY <1>1, <1>2, <1>3, <2>1, <2>3, <2>4, <2>5 DEF OneLogin
  <2>9. OnlyOne'
    BY <1>1, <1>2, <1>3, <1>4, <2>1, <2>4, <2>5 DEF OnlyOne
  <2>10. HasToken'
    BY <1>2, <1>4, <2>1, <2>4, <2>5 DEF HasToken
  <2> QED
    BY <2>6, <2>7, <2>8, <2>9, <2>10
<1>6. CASE response[r].cookie = NoToken
  <2>1. kind[r] = "logout" /\ response[r].status = "ok" /\ cookie' = NoToken
    BY <1>1, <1>6 DEF Belongs
  <2>2. Told(r) = "logout"
    BY <2>1 DEF Told
  <2>3. /\ ~LoggedIn' /\ crossing' = {s \in Requests \ {r} : pc[s] # "idle"}
    BY <2>2 DEF Deliver, LoggedIn
  <2>4. Belongs'
    BY <1>1, <1>2, <1>3, <2>1, <2>3 DEF Belongs
  <2>5. Fresh'
    BY <1>2, <1>3, <1>4, <2>1 DEF Fresh
  <2> QED
    BY <2>3, <2>4, <2>5 DEF OneLogin, OnlyOne, HasToken
<1>7. CASE response[r].cookie \in Tokens
  <2>1. /\ Holds(r) /\ Held(r) = response[r].cookie /\ cookie' = Held(r)
        /\ cookie' \in Tokens /\ cookie' # NoToken
    BY <1>1, <1>7 DEF Holds, Held
  <2>2. /\ kind[r] # "logout" /\ carried[r] \in Tokens /\ response[r].status = "ok"
        /\ cookie'.login = carried[r].login /\ cookie'.number >= 1
    BY <1>1, <1>7, <2>1 DEF Belongs, Answers
  <2>3. Fresh'
    <3> SUFFICES ASSUME NEW s \in Requests \ {r}, Holds(s), kind[s] = "exchange"
                 PROVE  Held(s).login # cookie'.login
      BY <1>2, <1>3, <1>4 DEF Fresh
    <3> QED
      BY <2>1 DEF Fresh
  <2>4. CASE kind[r] = "exchange"
    <3>1. Told(r) = "login"
      BY <2>2, <2>4 DEF Told
    <3>2. crossing' = {s \in Requests \ {r} : pc[s] # "idle"}
      BY <3>1 DEF Deliver
    <3>3. \A s \in Requests : ~Refreshing(s)'
      BY <1>2, <1>3, <3>2 DEF Refreshing
    <3>4. cookie' \in Accepted'
      BY <1>4, <2>1, <2>4 DEF Fresh
    <3>5. Belongs'
      BY <1>1, <1>2, <1>3, <2>2, <3>2 DEF Belongs
    <3>6. OneLogin'
      BY <1>2, <2>1, <2>4, <3>2, <3>3 DEF Fresh, OneLogin
    <3> QED
      BY <2>3, <3>3, <3>4, <3>5, <3>6 DEF OnlyOne, HasToken
  <2>5. CASE kind[r] = "refresh"
    <3>1. Told(r) = "neither"
      BY <2>5 DEF Told
    <3>2. /\ crossing' = crossing \ {r} /\ asked' = asked
          /\ undone' = (undone \/ (r \in crossing /\ response[r].cookie # Keep))
      BY <3>1 DEF Deliver
    <3>3. \A s \in Requests \ {r} : Refreshing(s)' = Refreshing(s)
      BY <1>2, <3>2
    <3>4. Belongs'
      <4>1. \A s \in crossing' : pc'[s] # "idle"
        BY <1>1, <1>2, <3>2 DEF Belongs
      <4> QED
        BY <1>1, <1>2, <1>3, <2>2, <4>1 DEF Belongs
    <3>5. CASE r \in crossing \/ ~LoggedIn
      <4>1. ~LoggedIn'
        <5>1. CASE r \in crossing
          BY <1>7, <3>2, <5>1 DEF LoggedIn
        <5>2. CASE ~LoggedIn
          <6>1. ~LogsOut(r)
            BY <2>5 DEF LogsOut
          <6> QED
            BY <1>2, <3>2, <5>2, <6>1 DEF LoggedIn
        <5> QED
          BY <3>5, <5>1, <5>2
      <4> QED
        BY <2>3, <3>4, <4>1 DEF OneLogin, OnlyOne, HasToken
    <3>6. CASE LoggedIn /\ r \notin crossing
      <4>1. Refreshing(r)
        BY <1>1, <2>5, <3>6 DEF Refreshing
      <4>2. cookie' \in Accepted' /\ cookie'.login = cookie.login
        BY <1>4, <2>1, <2>2, <3>6, <4>1 DEF OnlyOne, OneLogin
      <4>3. OneLogin'
        BY <1>2, <1>3, <2>1, <3>2, <3>3, <3>6, <4>2, <1>1 DEF OneLogin
      <4>4. singleUse => \A s \in Requests \ {r} : Refreshing(s) => ~Holds(s)
        BY <2>1, <3>6, <4>1 DEF OnlyOne
      <4>5. OnlyOne'
        BY <1>1, <1>2, <1>3, <1>4, <3>3, <3>6, <4>4 DEF OnlyOne
      <4> QED
        BY <2>3, <3>4, <4>2, <4>3, <4>5 DEF HasToken
    <3> QED
      BY <3>5, <3>6
  <2> QED
    BY <2>2, <2>4, <2>5 DEF Kinds, TypeOK
<1> QED
  BY <1>5, <1>6, <1>7 DEF TypeOK

----------------------------------------------------------------------------

\* As long as nothing is lost, a step keeps the login.
LEMMA LoginStep ==
  ASSUME TypeOK, Shape, Numbers, LogoutInv, LoginInv, [Next]_vars
  PROVE  LoginInv'
<1> SUFFICES ASSUME ~mishap' PROVE LoginParts'
  BY DEF LoginInv
<1>1. ~mishap
  BY DEF Next, LoginAtKeycloak, SessionEnds, Exchange, UseCookie, Send, CallStep,
     KeycloakServes, KeycloakFails, TokensAnswered, LogoutAnswered, NotReached, AnswerLost,
     Deliver, ResponseLost, ServesLate, CookieExpires, historyVars, vars
<1>2. LoginParts
  BY <1>1 DEF LoginInv
<1>3. ASSUME NEW l \in Logins, LoginAtKeycloak(l) PROVE LoginParts'
  <2>1. UNCHANGED <<requestVars, cookie, asked, crossing, undone, late, singleUse>>
    BY <1>3 DEF LoginAtKeycloak, historyVars
  <2> QED
    BY <1>2, <1>3, <2>1, NewLogin, Unseen
<1>4. ASSUME NEW l \in Logins, SessionEnds(l) PROVE FALSE
  BY <1>4 DEF SessionEnds
<1>5. ASSUME NEW r \in Requests, NEW l \in Logins, Exchange(r, l) PROVE LoginParts'
  <2>1. [login |-> l, number |-> 0] \in Tokens
    BY TokenAssumption DEF Tokens
  <2> QED
    BY <1>2, <1>5, <2>1, SendStep DEF Exchange, Kinds
<1>6. ASSUME NEW r \in Requests, NEW what \in {"refresh", "logout"}, UseCookie(r, what)
      PROVE  LoginParts'
  <2>1. /\ what \in Kinds /\ Send(r, what, cookie) /\ cookie \in Tokens \cup {NoToken}
        /\ \/ \E status \in {"forbidden", "unauthorized", "invalid"} : Refuse(r, status)
           \/ cookie \in Tokens /\ Call(r)
    BY <1>6 DEF UseCookie, Kinds, TypeOK
  <2> QED
    BY <1>2, <1>6, <2>1, SendStep
<1>7. ASSUME NEW r \in Requests, KeycloakServes(r) PROVE LoginParts'
  <2>1. PICK answer \in Replies : /\ Serves(kind[r], carried[r], answer)
                                  /\ reply' = [reply EXCEPT ![r] = answer]
    BY <1>7 DEF KeycloakServes
  <2>2. /\ pc[r] = "calling" /\ pc' = [pc EXCEPT ![r] = "called"]
        /\ UNCHANGED <<singleUse, cookie, kind, carried, response, late, asked, crossing,
                       undone>>
    BY <1>7 DEF KeycloakServes, historyVars
  <2>3. kind[r] \in Kinds /\ carried[r] \in Tokens
    BY <2>2 DEF TypeOK, Shape
  <2>4. CASE answer.status = "tokens"
    BY <1>2, <2>1, <2>2, <2>4, TokensGiven
  <2>5. CASE kind[r] = "logout"
    <3>1. /\ answer.status # "tokens"
          /\ \A t \in Tokens : t.login # carried[r].login =>
                (t \in Accepted' <=> t \in Accepted)
      BY <2>1, <2>2, <2>3, <2>5, KeycloakRevokes
    <3> QED
      BY <1>2, <2>1, <2>2, <2>5, <3>1, LogoutCalled
  <2>6. CASE answer.status # "tokens" /\ kind[r] # "logout"
    BY <1>2, <2>1, <2>2, <2>3, <2>6, KeycloakRefuses, NothingGiven
  <2> QED
    BY <2>4, <2>5, <2>6
<1>8. ASSUME NEW r \in Requests, KeycloakFails(r) PROVE LoginParts'
  <2> DEFINE answer == [status |-> "unusable", token |-> NoToken]
  <2>1. /\ pc[r] = "calling" /\ pc' = [pc EXCEPT ![r] = "called"]
        /\ reply' = [reply EXCEPT ![r] = answer]
        /\ UNCHANGED <<singleUse, cookie, kind, carried, response, late, asked, crossing,
                       undone>>
    BY <1>8 DEF KeycloakFails, historyVars, keycloakVars
  <2>2. answer \in Replies /\ answer.status # "tokens"
    BY DEF Replies
  <2>3. Accepted' = Accepted
    BY <1>8, SameAccepted DEF KeycloakFails
  <2> HIDE DEF answer
  <2> QED
    BY <1>2, <2>1, <2>2, <2>3, LogoutCalled, NothingGiven
<1>9. ASSUME NEW r \in Requests, TokensAnswered(r) PROVE LoginParts'
  <2>1. pc[r] = "called" /\ kind[r] # "logout" /\ UNCHANGED <<issued, alive, late>>
    BY <1>9 DEF TokensAnswered
  <2>2. CASE reply[r].status = "tokens" /\ Respond(r, "ok", reply[r].token)
    BY <1>2, <2>1, <2>2, RespondStep DEF Holds
  <2>3. ASSUME NEW status \in {"unauthorized", "bad_gateway"}, Respond(r, status, Keep),
               reply[r].status # "tokens"
        PROVE  LoginParts'
    BY <1>2, <2>1, <2>3, RespondStep DEF Holds
  <2> QED
    BY <1>9, <2>2, <2>3 DEF TokensAnswered
<1>10. ASSUME NEW r \in Requests, LogoutAnswered(r) PROVE LoginParts'
  BY <1>2, <1>10, RespondStep DEF LogoutAnswered
<1>11. ASSUME NEW r \in Requests, NotReached(r) PROVE LoginParts'
  <2>1. /\ pc[r] = "calling" /\ UNCHANGED <<issued, alive, late>> /\ ~Holds(r)
        /\ IF kind[r] = "logout" THEN Respond(r, "ok", NoToken)
                                 ELSE Respond(r, "unavailable", Keep)
    BY <1>11 DEF NotReached, Holds
  <2> QED
    BY <1>2, <2>1, RespondStep
<1>12. ASSUME NEW r \in Requests, NEW status, AnswerLost(r, status) PROVE FALSE
  BY <1>12 DEF AnswerLost
<1>13. ASSUME NEW r \in Requests, Deliver(r) PROVE LoginParts'
  BY <1>2, <1>13, DeliverStep DEF LogoutInv
<1>14. ASSUME NEW r \in Requests, ResponseLost(r) PROVE FALSE
  BY <1>14 DEF ResponseLost
<1>15. ASSUME NEW call \in late, ServesLate(call) PROVE FALSE
  BY <1>2, <1>15 DEF LoginParts, Belongs
<1>16. CASE CookieExpires
  BY <1>2, <1>16, ExpiryStep
<1>17. CASE UNCHANGED vars
  <2>1. /\ UNCHANGED <<requestVars, cookie, asked, crossing, undone, late, singleUse>>
        /\ Accepted' = Accepted
    BY <1>17, SameAccepted DEF vars, keycloakVars, historyVars
  <2> QED
    BY <1>2, <2>1, Unseen
<1> QED
  BY <1>3, <1>4, <1>5, <1>6, <1>7, <1>8, <1>9, <1>10, <1>11, <1>12, <1>13, <1>14, <1>15,
     <1>16, <1>17 DEF Next, CallStep

\* If nothing is lost, a user who logged in stays logged in, however many refreshes,
\* logins and logouts cross each other and fail, but for the refresh of an earlier
\* login that was open when this one was answered (refresh_token and
\* exchange_token, router.py).
THEOREM LoginStays == Spec => []LoginLasts
<1>1. Init => Numbers /\ Refusals /\ LogoutInv /\ LoginInv
  <2> SUFFICES ASSUME Init PROVE Numbers /\ Refusals /\ LogoutInv /\ LoginInv
    OBVIOUS
  <2>1. Numbers /\ Refusals /\ LogoutInv
    BY DEF Init, Numbers, Refusals, NoReply, NoResponse, LogoutInv, Answers, LoggedOut
  <2>2. \A r \in Requests : ~Holds(r) /\ ~Refreshing(r) /\ ~CameWith(r)
    BY DEF Init, Holds, Refreshing, CameWith
  <2> QED
    BY <2>1, <2>2 DEF Init, LoginInv, LoginParts, Belongs, Fresh, OneLogin, OnlyOne,
       HasToken, LoggedIn
<1>2. /\ TypeOK /\ Shape /\ Numbers /\ Refusals /\ LogoutInv /\ LoginInv /\ [Next]_vars
      /\ (TypeOK /\ Shape)'
      => (Numbers /\ Refusals /\ LogoutInv /\ LoginInv)'
  BY RefusalStep, LogoutStep, LoginStep
<1>3. LoginInv => LoginLasts
  <2> SUFFICES ASSUME LoginInv, Quiet, asked = "login", ~mishap, ~undone
               PROVE  cookie # NoToken /\ Accepts(cookie)
    BY DEF LoginLasts
  <2>1. \A r \in Requests : ~Holds(r) /\ ~LogsOut(r)
    BY DEF Quiet, Holds, LogsOut
  <2>2. LoggedIn
    BY <2>1 DEF LoggedIn
  <2> QED
    BY <2>1, <2>2 DEF LoginInv, LoginParts, OneLogin, HasToken, Accepted
<1> QED
  BY <1>1, <1>2, <1>3, ShapeInvariant, PTL DEF Spec
=============================================================================
