------------------------- MODULE TokenSessionProofs -------------------------
(***************************************************************************)
(* Proofs about TokenSession, for any number of open requests, of logins    *)
(* and of tokens.                                                          *)
(***************************************************************************)
EXTENDS TokenSession, TLAPS

\* The token has been given out.
Known(token) ==
    token \in Tokens /\ issued[token.login] # NotYet /\ token.number <= issued[token.login]

\* Keycloak never takes back a number, and a login comes alive once.
Forward ==
    /\ singleUse' = singleUse
    /\ \A l \in Logins : issued[l] <= issued'[l]
    /\ \A l \in alive' \ alive : issued[l] = NotYet

\* A token that is not accepted is never accepted again.
LEMMA StaysRefused ==
  ASSUME TypeOK, TypeOK', Forward, NEW token, Known(token)
  PROVE  Known(token)' /\ (~Accepts(token) => ~Accepts(token)')
<1> USE DEF TypeOK, Forward, Known, Tokens, NotYet
<1>1. /\ token.login \in Logins /\ token.number \in Nat
      /\ issued[token.login] \in Nat /\ issued'[token.login] \in Nat
      /\ token.number <= issued[token.login] /\ issued[token.login] <= issued'[token.login]
  BY TokenAssumption
<1>2. Known(token)'
  BY <1>1
<1>3. ASSUME ~Accepts(token) PROVE ~Accepts(token)'
  <2>1. CASE token.login \notin alive
    BY <1>1, <2>1 DEF Accepts
  <2>2. CASE token.login \in alive
    BY <1>1, <1>3, <2>2 DEF Accepts
  <2> QED
    BY <2>1, <2>2
<1> QED
  BY <1>2, <1>3

----------------------------------------------------------------------------

\* What a request has at each of its points.
Shape ==
    \A r \in Requests :
        /\ pc[r] \in {"calling", "called"} => carried[r] \in Tokens
        /\ pc[r] # "called" => reply[r] = NoReply
        /\ pc[r] # "responding" => response[r] = NoResponse

\* What Keycloak does with a call keeps its own types.
LEMMA ServesType ==
  ASSUME TypeOK, NEW what \in Kinds, NEW token, NEW answer \in Replies,
         Serves(what, token, answer)
  PROVE  issued' \in [Logins -> 0..MaxToken \cup {NotYet}] /\ alive' \subseteq Logins
BY TokenAssumption DEF TypeOK, Serves, Accepts, NotYet

\* So does a request that is sent ...
LEMMA SendShape ==
  ASSUME TypeOK, Shape, NEW r \in Requests, NEW what \in Kinds,
         NEW token \in Tokens \cup {NoToken}, Send(r, what, token),
         \/ \E status \in {"forbidden", "invalid", "unauthorized"} : Refuse(r, status)
         \/ token \in Tokens /\ Call(r)
  PROVE  TypeOK' /\ Shape'
<1> USE DEF TypeOK, keycloakVars, historyVars
<1>1. /\ pc[r] = "idle"
      /\ kind' = [kind EXCEPT ![r] = what] /\ carried' = [carried EXCEPT ![r] = token]
      /\ UNCHANGED <<singleUse, issued, alive, cookie, reply, late>> /\ UNCHANGED historyVars
  BY DEF Send
<1>2. CASE \E status \in {"forbidden", "invalid", "unauthorized"} : Refuse(r, status)
  <2>1. PICK status \in {"forbidden", "invalid", "unauthorized"} : Refuse(r, status)
    BY <1>2
  <2>2. [status |-> status, cookie |-> Keep]
           \in [status: Statuses, cookie: Tokens \cup {NoToken, Keep}]
    BY DEF Statuses
  <2>3. /\ pc' = [pc EXCEPT ![r] = "responding"] /\ pc' \in [Requests -> Points]
        /\ response' = [response EXCEPT ![r] = [status |-> status, cookie |-> Keep]]
    BY <2>1 DEF Refuse, Points
  <2>4. TypeOK'
    BY <1>1, <2>2, <2>3
  <2> QED
    BY <1>1, <2>3, <2>4 DEF Shape
<1>3. CASE token \in Tokens /\ Call(r)
  <2>1. pc' = [pc EXCEPT ![r] = "calling"] /\ response' = response
    BY <1>3 DEF Call
  <2>2. TypeOK'
    BY <1>1, <2>1 DEF Points
  <2> QED
    BY <1>1, <1>3, <2>1, <2>2 DEF Shape
<1> QED
  BY <1>2, <1>3

\* ... and a route that ends.
LEMMA RespondShape ==
  ASSUME TypeOK, Shape, NEW r \in Requests, NEW status \in Statuses,
         NEW set \in Tokens \cup {NoToken, Keep}, Respond(r, status, set),
         UNCHANGED <<issued, alive>>, late' \subseteq [kind: Kinds, token: Tokens],
         mishap' \in BOOLEAN
  PROVE  TypeOK' /\ Shape'
<1> USE DEF TypeOK
<1>1. /\ pc' = [pc EXCEPT ![r] = "responding"]
      /\ response' = [response EXCEPT ![r] = [status |-> status, cookie |-> set]]
      /\ reply' = [reply EXCEPT ![r] = NoReply]
      /\ UNCHANGED <<singleUse, cookie, kind, carried, asked, crossing, undone>>
  BY DEF Respond
<1>2. [status |-> status, cookie |-> set]
         \in [status: Statuses, cookie: Tokens \cup {NoToken, Keep}]
  OBVIOUS
<1>3. NoReply \in Replies
  BY DEF NoReply, Replies
<1>4. TypeOK'
  BY <1>1, <1>2, <1>3 DEF Points
<1> QED
  BY <1>1, <1>4 DEF Shape

\* Every variable has its type; that every call carries something is part of it.
LEMMA ShapeInvariant == Spec => [](TypeOK /\ Shape)
<1> USE TokenAssumption
<1>1. Init => TypeOK /\ Shape
  <2>1. NoReply \in Replies
    BY DEF NoReply, Replies
  <2>2. NoResponse \in [status: Statuses, cookie: Tokens \cup {NoToken, Keep}]
    BY DEF NoResponse, Statuses
  <2>3. Init => singleUse \in BOOLEAN /\ undone \in BOOLEAN /\ mishap \in BOOLEAN
    BY Zenon DEF Init
  <2>4. Init => Shape
    BY DEF Init, Shape
  <2> QED
    BY <2>1, <2>2, <2>3, <2>4 DEF Init, TypeOK, Kinds, Points, NotYet
<1>2. TypeOK /\ Shape /\ [Next]_vars => TypeOK' /\ Shape'
  <2> SUFFICES ASSUME TypeOK, Shape, [Next]_vars PROVE TypeOK' /\ Shape'
    OBVIOUS
  <2> DEFINE Goal == TypeOK' /\ Shape'
  <2> USE DEF TypeOK, Shape, keycloakVars, requestVars, historyVars
  <2>1. ASSUME NEW l \in Logins, LoginAtKeycloak(l) PROVE Goal
    BY <2>1 DEF LoginAtKeycloak
  <2>2. ASSUME NEW l \in Logins, SessionEnds(l) PROVE Goal
    BY <2>2 DEF SessionEnds
  <2>3. ASSUME NEW r \in Requests, NEW l \in Logins, Exchange(r, l) PROVE Goal
    <3>1. [login |-> l, number |-> 0] \in Tokens
      BY DEF Tokens
    <3> QED
      BY <2>3, <3>1, SendShape DEF Exchange, Kinds
  <2>4. ASSUME NEW r \in Requests, NEW what \in {"refresh", "logout"}, UseCookie(r, what)
        PROVE  Goal
    <3>1. what \in Kinds /\ Send(r, what, cookie)
      BY <2>4 DEF UseCookie, Kinds
    <3>2. \/ \E status \in {"forbidden", "unauthorized"} : Refuse(r, status)
          \/ cookie \in Tokens /\ Call(r)
      BY <2>4 DEF UseCookie
    <3> QED
      BY <3>1, <3>2, SendShape
  <2>5. ASSUME NEW r \in Requests, KeycloakServes(r) PROVE Goal
    <3>1. PICK answer \in Replies :
             /\ Serves(kind[r], carried[r], answer)
             /\ reply' = [reply EXCEPT ![r] = answer]
      BY <2>5 DEF KeycloakServes
    <3>2. issued' \in [Logins -> 0..MaxToken \cup {NotYet}] /\ alive' \subseteq Logins
      BY <3>1, ServesType
    <3> QED
      BY <2>5, <3>1, <3>2 DEF KeycloakServes, Points
  <2>6. ASSUME NEW r \in Requests, KeycloakFails(r) PROVE Goal
    BY <2>6 DEF KeycloakFails, Points, Replies
  <2>7. ASSUME NEW r \in Requests, TokensAnswered(r) PROVE Goal
    <3>1. reply[r].status = "tokens" => reply[r].token \in Tokens
      BY DEF Replies
    <3>2. /\ UNCHANGED <<issued, alive>> /\ late' \subseteq [kind: Kinds, token: Tokens]
          /\ mishap' \in BOOLEAN
      BY <2>7 DEF TokensAnswered
    <3>3. \E status \in Statuses, set \in Tokens \cup {NoToken, Keep} :
             Respond(r, status, set)
      BY <2>7, <3>1 DEF TokensAnswered, Statuses
    <3> QED
      BY <3>2, <3>3, RespondShape
  <2>8. ASSUME NEW r \in Requests, LogoutAnswered(r) PROVE Goal
    BY <2>8, RespondShape DEF LogoutAnswered, Statuses
  <2>9. ASSUME NEW r \in Requests, NotReached(r) PROVE Goal
    <3>1. late' \subseteq [kind: Kinds, token: Tokens] /\ mishap' \in BOOLEAN
      <4>1. [kind |-> kind[r], token |-> carried[r]] \in [kind: Kinds, token: Tokens]
        BY <2>9 DEF NotReached
      <4> QED
        BY <2>9, <4>1 DEF NotReached
    <3> QED
      <4>1. CASE kind[r] = "logout"
        BY <2>9, <3>1, <4>1, RespondShape DEF NotReached, Statuses
      <4>2. CASE kind[r] # "logout"
        BY <2>9, <3>1, <4>2, RespondShape DEF NotReached, Statuses
      <4> QED
        BY <4>1, <4>2
  <2>10. ASSUME NEW r \in Requests, NEW status \in {"unavailable", "bad_gateway"},
                AnswerLost(r, status)
         PROVE  Goal
    <3>1. mishap' \in BOOLEAN
      BY <2>10 DEF AnswerLost
    <3> QED
      <4>1. CASE kind[r] = "logout"
        BY <2>10, <3>1, <4>1, RespondShape DEF AnswerLost, Statuses
      <4>2. CASE kind[r] # "logout"
        BY <2>10, <3>1, <4>2, RespondShape DEF AnswerLost, Statuses
      <4> QED
        BY <4>1, <4>2
  <2>11. ASSUME NEW r \in Requests, Deliver(r) PROVE Goal
    <3>1. Shape' /\ Close(r) /\ mishap' = mishap
      BY <2>11 DEF Deliver, Close, Points
    <3>2. cookie' \in Tokens \cup {NoToken}
      BY <2>11 DEF Deliver
    <3>3. asked' \in {"login", "logout"} /\ crossing' \subseteq Requests /\ undone' \in BOOLEAN
      BY <2>11 DEF Deliver, Told
    <3> QED
      BY <3>1, <3>2, <3>3 DEF Close, Points, Kinds, Statuses, NoResponse
  <2>12. ASSUME NEW r \in Requests, ResponseLost(r) PROVE Goal
    BY <2>12 DEF ResponseLost, Close, Points, Kinds, Statuses, NoResponse
  <2>13. ASSUME NEW call \in late, ServesLate(call) PROVE Goal
    BY <2>13, ServesType DEF ServesLate
  <2>14. CASE CookieExpires
    BY <2>14 DEF CookieExpires
  <2>15. CASE UNCHANGED vars
    BY <2>15 DEF vars
  <2> QED
    BY <2>1, <2>2, <2>3, <2>4, <2>5, <2>6, <2>7, <2>8, <2>9, <2>10, <2>11, <2>12,
       <2>13, <2>14, <2>15 DEF Next, CallStep
<1> QED
  BY <1>1, <1>2, PTL DEF Spec

\* Every variable of the login has its type.
THEOREM TypeCorrect == Spec => []TypeOK
BY ShapeInvariant, PTL
----------------------------------------------------------------------------

\* Whatever anybody holds has been given out.
Numbers ==
    /\ \A l \in alive : issued[l] # NotYet
    /\ cookie # NoToken => Known(cookie)
    /\ \A r \in Requests :
          /\ carried[r] # NoToken => Known(carried[r])
          /\ reply[r].status = "tokens" => Known(reply[r].token)
          /\ response[r].cookie \notin {NoToken, Keep} => Known(response[r].cookie)
    /\ \A call \in late : Known(call.token)

\* What has been refused is not accepted.
Refusals ==
    \A r \in Requests :
        reply[r].status = "refused" \/ response[r].status = "unauthorized" =>
            carried[r] = NoToken \/ ~Accepts(carried[r])

\* Keycloak serves a call: its numbers go up, what it gives out is new, and what
\* it refuses it does not accept.
LEMMA ServesForward ==
  ASSUME TypeOK, Numbers, NEW what \in Kinds, NEW token \in Tokens,
         NEW answer \in Replies, Serves(what, token, answer), singleUse' = singleUse
  PROVE  /\ Forward
         /\ \A l \in alive' : issued'[l] # NotYet
         /\ answer.status = "tokens" => Known(answer.token)'
         /\ answer.status = "refused" => ~Accepts(token)
<1> USE TokenAssumption DEF TypeOK, NotYet
<1>1. token.login \in Logins /\ token.number \in 0..MaxToken
  BY DEF Tokens
<1>2. CASE /\ Accepts(token) /\ issued[token.login] < MaxToken /\ UNCHANGED alive
           /\ issued' = [issued EXCEPT ![token.login] = @ + 1]
           /\ answer = [status |-> "tokens",
                        token  |-> [token EXCEPT !.number = issued[token.login] + 1]]
  <2>1. token.login \in alive /\ issued[token.login] \in 0..MaxToken
    BY <1>1, <1>2 DEF Accepts, Numbers
  <2>2. Forward /\ \A l \in alive' : issued'[l] # NotYet
    BY <1>1, <1>2, <2>1 DEF Forward, Numbers
  <2>3. /\ answer.token.login = token.login
        /\ answer.token.number = issued[token.login] + 1
        /\ answer.token \in Tokens
    BY <1>1, <1>2, <2>1 DEF Tokens
  <2>4. issued'[token.login] = issued[token.login] + 1
    BY <1>1, <1>2
  <2>5. Known(answer.token)'
    BY <2>1, <2>3, <2>4 DEF Known
  <2> QED
    BY <1>2, <2>2, <2>5
<1>3. CASE alive' \subseteq alive /\ issued' = issued /\ answer.status # "tokens"
  BY <1>3 DEF Serves, Forward, Numbers
<1> QED
  BY <1>2, <1>3 DEF Serves

\* Keycloak never takes a refusal back, and sessions that are alive have tokens.
LEMMA KeycloakForward ==
  ASSUME TypeOK, Shape, Numbers, [Next]_vars
  PROVE  Forward /\ \A l \in alive' : issued'[l] # NotYet
<1> DEFINE Goal == Forward /\ \A l \in alive' : issued'[l] # NotYet
<1>1. UNCHANGED <<singleUse, issued, alive>> => Goal
  BY DEF Forward, Numbers, TypeOK, NotYet
<1>2. ASSUME NEW l \in Logins, LoginAtKeycloak(l) PROVE Goal
  BY <1>2, TokenAssumption DEF LoginAtKeycloak, Forward, Numbers, TypeOK, NotYet
<1>3. ASSUME NEW l \in Logins, SessionEnds(l) PROVE Goal
  BY <1>3, TokenAssumption DEF SessionEnds, Forward, Numbers, TypeOK, NotYet
<1>4. ASSUME NEW r \in Requests, KeycloakServes(r) PROVE Goal
  BY <1>4, ServesForward DEF KeycloakServes, Shape, TypeOK
<1>5. ASSUME NEW call \in late, ServesLate(call) PROVE Goal
  BY <1>5, ServesForward DEF ServesLate, TypeOK
<1> QED
  BY <1>1, <1>2, <1>3, <1>4, <1>5 DEF Next, CallStep, Exchange, UseCookie, Send,
     KeycloakFails, TokensAnswered, LogoutAnswered, Respond, NotReached, AnswerLost,
     Deliver, ResponseLost, Close, CookieExpires, keycloakVars, vars

\* A refusal on its way stays true with every step.
LEMMA RefusalStep ==
  ASSUME TypeOK, TypeOK', Shape, Numbers, Refusals, [Next]_vars
  PROVE  Numbers' /\ Refusals'
<1> DEFINE Goal == Numbers' /\ Refusals'
<1>1. Forward /\ \A l \in alive' : issued'[l] # NotYet
  BY KeycloakForward
<1>2. \A t : Known(t) => Known(t)' /\ (~Accepts(t) => ~Accepts(t)')
  BY <1>1, StaysRefused
<1>3. ASSUME UNCHANGED <<cookie, requestVars>>, late' \subseteq late PROVE Goal
  BY <1>1, <1>2, <1>3 DEF Numbers, Refusals, requestVars
<1>4. ASSUME NEW r \in Requests, NEW l \in Logins, Exchange(r, l) PROVE Goal
  <2>1. Known([login |-> l, number |-> 0])'
    BY <1>4, TokenAssumption DEF Exchange, Send, Known, Tokens, TypeOK, NotYet, keycloakVars
  <2> QED
    BY <1>1, <1>2, <1>4, <2>1 DEF Exchange, Send, Refuse, Call, Numbers, Refusals, Shape,
       NoReply, NoResponse, TypeOK, keycloakVars
<1>5. ASSUME NEW r \in Requests, NEW what \in {"refresh", "logout"}, UseCookie(r, what)
      PROVE  Goal
  BY <1>1, <1>2, <1>5 DEF UseCookie, Send, Refuse, Call, Numbers, Refusals, Shape,
     NoReply, NoResponse, TypeOK, keycloakVars
<1>6. ASSUME NEW r \in Requests, KeycloakServes(r) PROVE Goal
  <2>1. PICK answer \in Replies :
           /\ Serves(kind[r], carried[r], answer)
           /\ reply' = [reply EXCEPT ![r] = answer]
    BY <1>6 DEF KeycloakServes
  <2>2. /\ answer.status = "tokens" => Known(answer.token)'
        /\ answer.status = "refused" => ~Accepts(carried[r])
    BY <1>6, <2>1, ServesForward DEF KeycloakServes, Shape, TypeOK
  <2>3. carried[r] # NoToken => Known(carried[r])
    BY DEF Numbers
  <2>4. UNCHANGED <<cookie, carried, response, late>>
    BY <1>6 DEF KeycloakServes
  <2>5. carried[r] # NoToken /\ answer.status = "refused" => ~Accepts(carried[r])'
    <3> SUFFICES ASSUME NEW token, token = carried[r], token # NoToken,
                        answer.status = "refused"
                 PROVE  ~Accepts(token)'
      BY <2>4
    <3> QED
      BY <1>2, <2>2, <2>3
  <2>6. Numbers'
    BY <1>1, <1>2, <2>1, <2>2, <2>4 DEF Numbers, TypeOK
  <2>7. Refusals'
    BY <1>2, <2>1, <2>4, <2>5 DEF Numbers, Refusals, TypeOK
  <2> QED
    BY <2>6, <2>7
<1>7. ASSUME NEW r \in Requests, KeycloakFails(r) PROVE Goal
  BY <1>1, <1>2, <1>7 DEF KeycloakFails, Numbers, Refusals, TypeOK, keycloakVars
<1>8. ASSUME NEW r \in Requests, TokensAnswered(r) PROVE Goal
  <2>1. PICK status \in Statuses, set \in Tokens \cup {NoToken, Keep} :
           /\ Respond(r, status, set)
           /\ set # Keep => reply[r].status = "tokens" /\ set = reply[r].token
           /\ status = "unauthorized" => reply[r].status = "refused"
    <3>1. reply[r].status = "tokens" => Known(reply[r].token)
      BY DEF Numbers
    <3> QED
      BY <1>8, <3>1 DEF TokensAnswered, Known, Statuses
  <2>2. UNCHANGED <<cookie, carried, late>>
    BY <1>8, <2>1 DEF TokensAnswered, Respond
  <2>3. set # Keep => Known(set)'
    <3>1. set # Keep => Known(set)
      BY <2>1 DEF Numbers
    <3> QED
      BY <1>2, <3>1
  <2>4. Numbers'
    BY <1>1, <1>2, <2>1, <2>2, <2>3 DEF Respond, NoReply, Numbers, TypeOK
  <2>5. Refusals'
    BY <1>1, <1>2, <2>1, <2>2 DEF Respond, NoReply, Numbers, Refusals, TypeOK
  <2> QED
    BY <2>4, <2>5
<1>9. ASSUME NEW r \in Requests, LogoutAnswered(r) PROVE Goal
  BY <1>1, <1>2, <1>9 DEF LogoutAnswered, Respond, NoReply, Numbers, Refusals, TypeOK
<1>10. ASSUME NEW r \in Requests, NotReached(r) PROVE Goal
  <2>1. Known(carried[r])
    BY <1>10, TokenAssumption DEF NotReached, Shape, Numbers
  <2>2. \A call \in late' : Known(call.token)'
    BY <1>2, <1>10, <2>1 DEF NotReached, Numbers
  <2>3. PICK status \in {"ok", "unavailable"}, set \in {NoToken, Keep} :
           Respond(r, status, set)
    BY <1>10 DEF NotReached
  <2> QED
    BY <1>1, <1>2, <2>2, <2>3 DEF Respond, NoReply, Numbers, Refusals, TypeOK
<1>11. ASSUME NEW r \in Requests, NEW status \in {"unavailable", "bad_gateway"},
              AnswerLost(r, status)
       PROVE  Goal
  <2>1. PICK result \in {"ok", "unavailable", "bad_gateway"}, set \in {NoToken, Keep} :
           Respond(r, result, set)
    BY <1>11 DEF AnswerLost
  <2> QED
    BY <1>1, <1>2, <1>11, <2>1 DEF AnswerLost, Respond, NoReply, Numbers, Refusals, TypeOK
<1>12. ASSUME NEW r \in Requests, Deliver(r) PROVE Goal
  BY <1>1, <1>2, <1>12 DEF Deliver, Close, NoResponse, Numbers, Refusals, TypeOK, Shape,
     NoReply, keycloakVars
<1>13. ASSUME NEW r \in Requests, ResponseLost(r) PROVE Goal
  BY <1>1, <1>2, <1>13 DEF ResponseLost, Close, NoResponse, Numbers, Refusals, TypeOK,
     Shape, NoReply, keycloakVars
<1>14. CASE CookieExpires
  BY <1>1, <1>2, <1>14 DEF CookieExpires, Numbers, Refusals, requestVars, keycloakVars
<1> QED
  BY <1>3, <1>4, <1>5, <1>6, <1>7, <1>8, <1>9, <1>10, <1>11, <1>12, <1>13, <1>14
  DEF Next, CallStep, LoginAtKeycloak, SessionEnds, ServesLate, vars, requestVars

\* A 401 means that the code or the token is not accepted any more, or that there
\* was none, whatever failed and in whatever order: nobody is sent to the login
\* page because Keycloak is out of reach.
THEOREM UnauthorizedIsTrue == Spec => []UnauthorizedIsFinal
<1>1. Init => Numbers /\ Refusals
  BY DEF Init, Numbers, Refusals, NoReply, NoResponse
<1>2. /\ TypeOK /\ Shape /\ Numbers /\ Refusals /\ [Next]_vars
      /\ (TypeOK /\ Shape)'
      => (Numbers /\ Refusals)'
  BY RefusalStep
<1>3. Refusals => UnauthorizedIsFinal
  BY DEF Refusals, UnauthorizedIsFinal
<1> QED
  BY <1>1, <1>2, <1>3, ShapeInvariant, PTL DEF Spec
----------------------------------------------------------------------------

\* Which responses touch the cookie.
Answers ==
    \A r \in Requests : pc[r] = "responding" =>
        /\ response[r].cookie \in Tokens => kind[r] # "logout" /\ response[r].status = "ok"
        /\ kind[r] = "logout" /\ response[r].status \notin {"unauthorized", "forbidden"}
              => response[r].cookie = NoToken

\* After a logout, refreshes are refused for want of a cookie, unless they were open
\* when it was answered or one of those has set the cookie again.
LoggedOut ==
    asked = "logout" /\ ~undone =>
        /\ cookie = NoToken
        /\ \A r \in Requests \ crossing : pc[r] # "idle" /\ kind[r] = "refresh" =>
              pc[r] = "responding" /\ response[r].cookie = Keep

LogoutInv == Answers /\ LoggedOut

\* No step breaks what a logout leaves behind.
LEMMA LogoutStep ==
  ASSUME TypeOK, LogoutInv, [Next]_vars
  PROVE  LogoutInv'
<1> USE TokenAssumption DEF TypeOK, LogoutInv, Answers, LoggedOut, keycloakVars
<1>1. ASSUME UNCHANGED <<requestVars, asked, crossing, undone>>, cookie' \in {cookie, NoToken}
      PROVE  LogoutInv'
  BY <1>1 DEF requestVars
<1>2. ASSUME NEW r \in Requests, NEW what \in Kinds, NEW token, Send(r, what, token),
             \/ \E status \in {"forbidden", "unauthorized"} : Refuse(r, status)
             \/ what = "exchange" /\ Refuse(r, "invalid")
             \/ ~(what = "refresh" /\ asked = "logout" /\ ~undone) /\ Call(r)
      PROVE  LogoutInv'
  BY <1>2 DEF Send, Refuse, Call, Kinds, historyVars
<1>3. ASSUME NEW r \in Requests, NEW l \in Logins, Exchange(r, l) PROVE LogoutInv'
  BY <1>2, <1>3 DEF Exchange, Kinds
<1>4. ASSUME NEW r \in Requests, NEW what \in {"refresh", "logout"}, UseCookie(r, what)
      PROVE  LogoutInv'
  BY <1>2, <1>4 DEF UseCookie, Kinds
<1>5. ASSUME NEW r \in Requests, pc[r] \in {"calling", "called"},
             pc' = [pc EXCEPT ![r] = "called"],
             UNCHANGED <<cookie, kind, response, asked, crossing, undone>>
      PROVE  LogoutInv'
  BY <1>5 DEF Points
<1>6. ASSUME NEW r \in Requests, pc[r] \in {"calling", "called"}, NEW status \in Statuses,
             NEW set \in Tokens \cup {NoToken, Keep}, Respond(r, status, set),
             IF kind[r] = "logout" THEN set = NoToken ELSE set # Keep => status = "ok"
      PROVE  LogoutInv'
  BY <1>6 DEF Respond, Points
<1>7. ASSUME NEW r \in Requests, Close(r), cookie' = cookie, asked' = asked,
             crossing' = crossing \ {r}, undone' = undone
      PROVE  LogoutInv'
  BY <1>7 DEF Close, NoResponse
<1>8. ASSUME NEW r \in Requests, Deliver(r) PROVE LogoutInv'
  <2>1. CASE Told(r) = "login"
    BY <1>8, <2>1 DEF Deliver, Close, NoResponse
  <2>2. CASE Told(r) = "logout"
    BY <1>8, <2>2 DEF Deliver, Close, NoResponse, Told
  <2>3. CASE Told(r) = "neither"
    <3>1. /\ Close(r) /\ asked' = asked /\ crossing' = crossing \ {r}
          /\ undone' = (undone \/ (r \in crossing /\ response[r].cookie # Keep))
          /\ cookie' = IF response[r].cookie = Keep THEN cookie ELSE response[r].cookie
      BY <1>8, <2>3 DEF Deliver
    <3>2. CASE response[r].cookie = Keep
      <4>1. cookie' = cookie /\ undone' = undone
        BY <3>1, <3>2
      <4> QED
        BY <1>7, <3>1, <4>1
    <3>3. CASE response[r].cookie # Keep
      <4>1. pc[r] = "responding" /\ response[r].cookie \in Tokens \cup {NoToken}
        BY <3>1, <3>3 DEF Close
      <4>2. kind[r] = "refresh" \/ response[r].cookie = NoToken
        BY <2>3, <4>1 DEF Told, Kinds
      <4> QED
        BY <3>1, <3>3, <4>1, <4>2 DEF Close, NoResponse
    <3> QED
      BY <3>2, <3>3
  <2> QED
    BY <2>1, <2>2, <2>3 DEF Told
<1>9. ASSUME NEW r \in Requests, CallStep(r) PROVE LogoutInv'
  <2>1. CASE KeycloakServes(r) \/ KeycloakFails(r)
    BY <1>5, <2>1 DEF KeycloakServes, KeycloakFails, historyVars
  <2>2. CASE TokensAnswered(r)
    <3>1. reply[r].status = "tokens" => reply[r].token \in Tokens
      BY DEF Replies
    <3> QED
      BY <1>6, <2>2, <3>1 DEF TokensAnswered, Statuses
  <2>3. CASE LogoutAnswered(r)
    BY <1>6, <2>3 DEF LogoutAnswered, Statuses
  <2>4. CASE NotReached(r)
    BY <1>6, <2>4 DEF NotReached, Statuses
  <2>5. ASSUME NEW status \in {"unavailable", "bad_gateway"}, AnswerLost(r, status)
        PROVE  LogoutInv'
    BY <1>6, <2>5 DEF AnswerLost, Statuses
  <2> QED
    BY <1>9, <2>1, <2>2, <2>3, <2>4, <2>5 DEF CallStep
<1>10. ASSUME NEW r \in Requests, ResponseLost(r) PROVE LogoutInv'
  BY <1>7, <1>10 DEF ResponseLost
<1> QED
  BY <1>1, <1>3, <1>4, <1>8, <1>9, <1>10 DEF Next, LoginAtKeycloak, SessionEnds,
     ServesLate, CookieExpires, historyVars, vars

\* A logout that was answered lasts until the next login, whatever Keycloak did and
\* whatever else was open, but for a refresh that was open when it was answered.
THEOREM LogoutIsFinal == Spec => []LogoutLasts
<1>1. Init => LogoutInv
  BY DEF Init, LogoutInv, Answers, LoggedOut
<1>2. TypeOK /\ LogoutInv /\ [Next]_vars => LogoutInv'
  BY LogoutStep
<1>3. LogoutInv => LogoutLasts
  BY DEF LogoutInv, LoggedOut, LogoutLasts
<1> QED
  BY <1>1, <1>2, <1>3, TypeCorrect, PTL DEF Spec
=============================================================================
