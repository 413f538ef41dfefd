-------------------------- MODULE RequestPipeline --------------------------
(***************************************************************************)
(* One request on its way through the middleware to a route and back:       *)
(* register_middleware() (bootstrap.py), the middleware of core/, the       *)
(* exception handlers, and the dependencies of the route.  Every layer may  *)
(* refuse the request, answer it, or raise; an exception goes outwards      *)
(* until a layer turns it into a response, if none has started.             *)
(***************************************************************************)
EXTENDS TokenValidation

CONSTANTS
    MaxBodySize,  \* max_body_size
    MaxSize,      \* bound: the largest body a client sends
    NoLength,     \* a body without Content-Length: chunked
    NoRequest,    \* nothing to do
    NoResponse,   \* no response has started
    NoException   \* no exception is in flight

\* Mutant: the 500 is answered outside every middleware, as Starlette does.
MutOrder == <<"server_error", "unhandled", "logging", "trusted_host",
              "secure_headers", "cors", "body_limit", "handlers", "route">>

\* From the server inwards.  Starlette puts the first and the one before last.
Order == <<"server_error", "logging", "trusted_host", "secure_headers", "cors",
           "body_limit", "unhandled", "handlers", "route">>

Layers == {Order[i] : i \in DOMAIN Order}

Depth(layer)   == CHOOSE i \in DOMAIN Order : Order[i] = layer
Inner(layer)   == Order[Depth(layer) + 1]
Outer(layer)   == Order[Depth(layer) - 1]
Outside(layer) == {Order[i] : i \in 1..(Depth(layer) - 1)}

\* What Keycloak does with a call of the auth routes: it refuses the code or the
\* token (400), or the API's own client (401), cannot be reached, or does
\* anything else.
KeycloakFailures == {"refused", "client_rejected", "unreachable", "odd"}

\* The endpoints, by what they can meet after the body and the token.  "page" is
\* a route of any feature, with any guard.
Obstacles ==
    [page    |-> {"no_row", "conflict"},
     notes   |-> {"no_row", "database_down"},
     login   |-> {"other_uri"},
     token   |-> {"other_uri"} \cup KeycloakFailures,
     refresh |-> {"no_cookie"} \cup KeycloakFailures,
     logout  |-> {"no_cookie"} \cup KeycloakFailures,
     ready   |-> {"unhealthy"}]

Endpoints == DOMAIN Obstacles

\* What an endpoint raises an exception for.  logout() only warns of what Keycloak
\* does, and readiness() reports what is unhealthy.
Raising(endpoint) ==
    CASE endpoint = "logout" -> {"no_cookie"}
      [] endpoint = "ready"  -> {}
      [] OTHER               -> Obstacles[endpoint]

Failure(obstacle) ==
    CASE obstacle = "no_row"                          -> "NotFoundError"
      [] obstacle = "conflict"                        -> "ConflictError"
      [] obstacle = "other_uri"                       -> "ValidationError"
      [] obstacle \in {"database_down", "unreachable"} -> "ServiceUnavailableError"
      [] obstacle \in {"no_cookie", "refused"}         -> "UnauthorizedError"
      [] obstacle \in {"client_rejected", "odd"}       -> "ExternalServiceError"

\* A request as far as the layers look at it.  With a Content-Length the server
\* sees to it that the body has that length.
RequestsSent ==
    {q \in [host: {"trusted", "other"}, preflight: {"no", "allowed", "refused"},
            length: {NoLength} \cup 0..MaxSize, size: 0..MaxSize,
            endpoint: Endpoints, guard: Guards, token: Tokens \cup {NoToken}] :
        /\ q.length # NoLength => q.size = q.length
        /\ q.preflight # "no" \/ q.host = "other" =>
               q.size = 0 /\ q.endpoint = "page" /\ q.guard = "open"
        /\ q.endpoint # "page" =>
               q.guard = IF q.endpoint = "notes" THEN "CurrentUser" ELSE "open"
        /\ q.guard = "open" => q.token = NoToken}

VARIABLES
    request,    \* the request
    layer,      \* the layer that has the control
    mode,       \* what happens there, see Modes
    received,   \* body bytes that BodySizeLimitMiddleware has counted
    key,        \* history: what the key cache answered, or "none"
    exception,  \* the exception in flight
    response,   \* the response that has started
    starts,     \* history: how many have started
    logged,     \* the status in request_completed, or 0
    served,     \* history: who the endpoint was told it serves
    met,        \* history: the obstacle that the endpoint met, or "none"
    bugs        \* history: the parts that have raised of their own

vars == <<request, layer, mode, received, exception, response, starts, logged,
          key, served, met, bugs>>

Modes == {"idle", "in", "reading", "authorizing", "endpoint", "sending",
          "raising", "done"}

Headers == {"request_id", "security", "cors"}

Statuses == {200, 400, 401, 403, 404, 409, 413, 422, 500, 502, 503}

Exceptions ==
    {"UnauthorizedError", "ForbiddenError", "NotFoundError", "ConflictError",
     "ValidationError", "ExternalServiceError", "ServiceUnavailableError",
     "HTTPException_413", "HTTPException_404", "HTTPException_400",
     "RequestValidationError", "TypeError", "Exception"}

\* A problem document or another body, with what the layers added.
Responses == [status: Statuses, problem: BOOLEAN, headers: SUBSET Headers]

ASSUME PipelineAssumption ==
    /\ MaxBodySize \in Nat /\ MaxSize \in Nat
    /\ NoLength \notin Int
    /\ NoResponse \notin Responses
    /\ NoException \notin Exceptions

TypeOK ==
    /\ request \in RequestsSent \cup {NoRequest}
    /\ layer \in Layers
    /\ mode \in Modes
    /\ received \in 0..MaxSize
    /\ exception \in Exceptions \cup {NoException}
    /\ response \in Responses \cup {NoResponse}
    /\ starts \in 0..2
    /\ logged \in Statuses \cup {0}
    /\ key \in KeyAnswers \cup {"none"}
    /\ served \in {"none", "nobody", "user"}
    /\ met \in {"none", "other_origin"} \cup UNION {Obstacles[e] : e \in Endpoints}
    /\ bugs \subseteq {"middleware", "handler", "endpoint"}

Init ==
    /\ request = NoRequest
    /\ layer = "server_error"
    /\ mode = "idle"
    /\ received = 0
    /\ exception = NoException
    /\ response = NoResponse
    /\ starts = 0
    /\ logged = 0
    /\ key = "none"
    /\ served = "none"
    /\ met = "none"
    /\ bugs = {}

\* A request comes, and is over.
Arrive(q) ==
    /\ mode = "idle"
    /\ mode' = "in"
    /\ request' = q
    /\ UNCHANGED <<layer, received, exception, response, starts, logged, key, served, met, bugs>>

Over ==
    /\ mode = "done"
    /\ request' = NoRequest /\ layer' = "server_error" /\ mode' = "idle"
    /\ received' = 0 /\ exception' = NoException
    /\ response' = NoResponse /\ starts' = 0 /\ logged' = 0
    /\ key' = "none" /\ served' = "none" /\ met' = "none" /\ bugs' = {}

----------------------------------------------------------------------------
(* A response starts: its first message goes through every layer outside.   *)

\* What the layers add to a response on its way out.
Added(outer) ==
    CASE outer = "logging"        -> {"request_id"}
      [] outer = "secure_headers" -> {"security"}
      [] outer = "cors"           -> {"cors"}
      [] OTHER                    -> {}

Start(from, status, problem) ==
    /\ response' = [status |-> status, problem |-> problem,
                    headers |-> UNION {Added(outer) : outer \in Outside(from)}]
    /\ starts' = starts + 1
    /\ logged' = IF "logging" \in Outside(from) THEN status ELSE logged

\* A layer answers instead of those inside it.
Answer(status, problem) ==
    /\ Start(layer, status, problem)
    /\ mode' = "done"
    /\ exception' = NoException
    /\ UNCHANGED <<request, layer, received, key, served, met>>

----------------------------------------------------------------------------
(* The way in.                                                             *)

Entering(at) == mode = "in" /\ layer = at

Continue(point) ==
    /\ mode' = point
    /\ UNCHANGED <<request, exception, response, starts, logged, bugs>>

HostRefused == Entering("trusted_host") /\ request.host = "other"

Preflight == Entering("cors") /\ request.preflight # "no"

\* Mutant: off by one.
MutTooLong ==
    /\ Entering("body_limit")
    /\ request.length # NoLength /\ request.length >= MaxBodySize

\* _declared_size()
TooLong ==
    /\ Entering("body_limit")
    /\ request.length # NoLength /\ request.length > MaxBodySize

Enter ==
    /\ mode = "in" /\ layer # "route"
    /\ ~HostRefused /\ ~Preflight /\ ~TooLong
    /\ layer' = Inner(layer)
    /\ Continue("in")
    /\ UNCHANGED <<received, key, served, met>>

RefuseHost == HostRefused /\ Answer(400, FALSE) /\ UNCHANGED bugs

\* CORSMiddleware answers, with its own headers.
AnswerPreflight ==
    /\ Preflight
    /\ Start(Inner(layer), IF request.preflight = "allowed" THEN 200 ELSE 400, FALSE)
    /\ mode' = "done"
    /\ UNCHANGED <<request, layer, received, exception, key, served, met, bugs>>

RefuseLength == TooLong /\ Answer(413, TRUE) /\ UNCHANGED bugs

Raise(e) ==
    /\ mode' = "raising"
    /\ exception' = e
    /\ UNCHANGED <<request, response, starts, logged>>

\* A bug in a middleware inside the access log.
MiddlewareRaises ==
    /\ mode = "in"
    /\ layer \in {"trusted_host", "secure_headers", "cors", "body_limit"}
    /\ Raise("Exception")
    /\ layer' = Outer(layer)
    /\ bugs' = bugs \cup {"middleware"}
    /\ UNCHANGED <<received, key, served, met>>

----------------------------------------------------------------------------
(* The route: FastAPI reads the body first, if the route has one, then it   *)
(* solves the dependencies, and then it calls the endpoint.                 *)

AtRoute(point) == layer = "route" /\ mode = point

RaiseInRoute(e) == Raise(e) /\ UNCHANGED <<layer, received>>

NoRoute ==
    /\ AtRoute("in")
    /\ RaiseInRoute("HTTPException_404")
    /\ UNCHANGED <<key, served, met, bugs>>

ReadBody ==
    /\ AtRoute("in")
    /\ \E point \in {"reading", "authorizing"} : Continue(point)
    /\ UNCHANGED <<layer, received, key, served, met>>

\* Mutant: looks at each chunk alone.
MutReceiveWithinLimit(bytes) ==
    /\ AtRoute("reading")
    /\ received + bytes <= request.size
    /\ \/ /\ bytes > MaxBodySize
          /\ RaiseInRoute("HTTPException_413") /\ UNCHANGED bugs
       \/ /\ bytes <= MaxBodySize
          /\ received' = received + bytes
          /\ Continue(IF received' = request.size THEN "authorizing" ELSE "reading")
          /\ UNCHANGED layer
    /\ UNCHANGED <<key, served, met>>

\* receive_within_limit()
ReceiveWithinLimit(bytes) ==
    /\ AtRoute("reading")
    /\ received + bytes <= request.size
    /\ \/ /\ received + bytes > MaxBodySize
          /\ RaiseInRoute("HTTPException_413") /\ UNCHANGED bugs
       \/ /\ received + bytes <= MaxBodySize
          /\ received' = received + bytes
          /\ Continue(IF received' = request.size THEN "authorizing" ELSE "reading")
          /\ UNCHANGED layer
    /\ UNCHANGED <<key, served, met>>

\* The client goes away, or the body is not JSON.
BodyRefused ==
    /\ AtRoute("reading")
    /\ \E e \in {"HTTPException_400", "RequestValidationError"} : RaiseInRoute(e)
    /\ UNCHANGED <<key, served, met, bugs>>

\* require_allowed_origin(): the endpoints that the cookie authenticates.
OriginRefused ==
    /\ AtRoute("authorizing")
    /\ request.endpoint \in {"refresh", "logout"}
    /\ met' = "other_origin"
    /\ RaiseInRoute("ForbiddenError")
    /\ UNCHANGED <<key, served, bugs>>

\* Who it is, and after that whether the values are valid.
Dependencies(keyAnswer) ==
    /\ AtRoute("authorizing")
    /\ key' = IF LooksUpKey(request.token) THEN keyAnswer ELSE "none"
    /\ UNCHANGED met
    /\ LET user == Authorize(request.guard, request.token, keyAnswer)
       IN  \/ /\ user \in {"user", "nobody"}
              /\ Continue("endpoint")
              /\ served' = user
              /\ UNCHANGED <<layer, received>>
           \/ /\ RaiseInRoute(IF user \in {"user", "nobody"}
                              THEN "RequestValidationError" ELSE user)
              /\ UNCHANGED <<served, bugs>>

\* An exception of the application, or one that nobody translates.
EndpointRaises ==
    /\ AtRoute("endpoint") \/ AtRoute("sending")
    /\ \/ \E obstacle \in Raising(request.endpoint) :
             /\ met' = obstacle
             /\ RaiseInRoute(Failure(obstacle))
             /\ UNCHANGED bugs
       \/ /\ bugs' = bugs \cup {"endpoint"}
          /\ RaiseInRoute("Exception")
          /\ UNCHANGED met
    /\ UNCHANGED <<key, served>>

\* The result, whatever the endpoint does not raise for; the readiness report is
\* no problem document.
EndpointAnswers ==
    /\ AtRoute("endpoint")
    /\ met' \in {"none"} \cup (Obstacles[request.endpoint] \ Raising(request.endpoint))
    /\ Start("route", IF met' = "unhealthy" THEN 503 ELSE 200, FALSE)
    /\ mode' = "sending"
    /\ UNCHANGED <<request, layer, received, exception, key, served, bugs>>

ResponseSent ==
    /\ AtRoute("sending")
    /\ Continue("done")
    /\ UNCHANGED <<layer, received, key, served, met>>

----------------------------------------------------------------------------
(* The way out of an exception.                                            *)

\* The handlers of exception_handlers.py, but the one for Exception.
HandledStatus(e) ==
    CASE e = "UnauthorizedError"       -> 401
      [] e = "ForbiddenError"          -> 403
      [] e = "NotFoundError"           -> 404
      [] e = "ConflictError"           -> 409
      [] e = "ValidationError"         -> 422
      [] e = "ExternalServiceError"    -> 502
      [] e = "ServiceUnavailableError" -> 503
      [] e = "HTTPException_413"       -> 413
      [] e = "HTTPException_404"       -> 404
      [] e = "HTTPException_400"       -> 400
      [] e = "RequestValidationError"  -> 422

Handled == Exceptions \ {"TypeError", "Exception"}

Outwards ==
    /\ layer' = Outer(layer)
    /\ UNCHANGED <<request, mode, received, response, starts, key, served, met>>

HandlerAnswers ==
    /\ layer = "handlers" /\ mode = "raising"
    /\ exception \in Handled /\ response = NoResponse
    /\ Answer(HandledStatus(exception), TRUE)
    /\ UNCHANGED bugs

\* A handler raises, or comes too late: Starlette raises a RuntimeError.
HandlerRaises ==
    /\ layer = "handlers" /\ mode = "raising"
    /\ exception \in Handled
    /\ exception' = "Exception"
    /\ bugs' = IF response = NoResponse THEN bugs \cup {"handler"} ELSE bugs
    /\ Outwards
    /\ UNCHANGED logged

\* Mutant: answers even if a response has started.
MutUnhandledAnswers ==
    /\ layer = "unhandled" /\ mode = "raising"
    /\ Answer(500, TRUE)
    /\ UNCHANGED bugs

\* UnhandledExceptionMiddleware
UnhandledAnswers ==
    /\ layer = "unhandled" /\ mode = "raising"
    /\ response = NoResponse
    /\ Answer(500, TRUE)
    /\ UNCHANGED bugs

\* The exception passes the layers that do not take it ...
Passes ==
    /\ mode = "raising"
    /\ layer \notin {"server_error", "logging"}
    /\ layer = "handlers" => exception \notin Handled
    /\ layer = "unhandled" => response # NoResponse
    /\ Outwards
    /\ UNCHANGED <<exception, logged, bugs>>

\* ... and the access log, which notes a 500 if call_next() has not returned.
PassesLogging ==
    /\ mode = "raising"
    /\ layer = "logging"
    /\ logged' = IF response = NoResponse THEN 500 ELSE logged
    /\ Outwards
    /\ UNCHANGED <<exception, bugs>>

\* The handler for Exception answers outside every middleware; if a response has
\* started, the server closes the connection.
LastResort ==
    /\ layer = "server_error" /\ mode = "raising"
    /\ \/ response = NoResponse /\ Answer(500, TRUE)
       \/ /\ response # NoResponse
          /\ mode' = "done" /\ exception' = NoException
          /\ UNCHANGED <<request, layer, received, response, starts, logged, key, served, met>>
    /\ UNCHANGED bugs

----------------------------------------------------------------------------

Inwards ==
    \/ Enter \/ RefuseHost \/ AnswerPreflight \/ RefuseLength
    \/ MiddlewareRaises

Route ==
    \/ NoRoute
    \/ ReadBody
    \/ \E bytes \in 0..MaxSize : ReceiveWithinLimit(bytes)
    \/ BodyRefused
    \/ OriginRefused
    \/ \E keyAnswer \in KeyAnswers : Dependencies(keyAnswer)
    \/ EndpointRaises \/ EndpointAnswers \/ ResponseSent

Unwinding ==
    \/ HandlerAnswers \/ HandlerRaises \/ UnhandledAnswers
    \/ Passes \/ PassesLogging \/ LastResort

Next ==
    \/ \E q \in RequestsSent : Arrive(q)
    \/ Inwards \/ Route \/ Unwinding
    \/ Over

Spec == Init /\ [][Next]_vars

----------------------------------------------------------------------------
(* Properties                                                              *)

\* One response for each request (UnhandledExceptionMiddleware, l. 46-50), and
\* the access log has its status, whichever layer answered and whatever was
\* raised before or after.
OneAnswer ==
    /\ starts <= 1
    /\ mode = "done" => response # NoResponse /\ logged = response.status

Started(status) == response # NoResponse /\ response.status = status

\* Every error can be read and traced (ADR 0006): it is a problem document with
\* all the headers, but for the report of a readiness check that failed, the two
\* answers in plain text of middleware the app does not write, and the headers of
\* a 500 for a bug in a middleware.
ErrorsAreUniform ==
    response # NoResponse /\ response.status >= 400 =>
        \/ response.problem /\ response.headers = Headers
        \/ /\ response.status = 503 /\ response.headers = Headers
           /\ request.endpoint = "ready" /\ met = "unhealthy"
        \/ response.problem /\ response.status = 500 /\ "middleware" \in bugs
        \/ /\ response.status = 400 /\ "request_id" \in response.headers
           /\ request.host = "other" \/ request.preflight = "refused"

\* The limit is the limit (body_limit.py): no endpoint gets a larger body, or a
\* part of one, and no body within it is refused for its size, in whatever
\* chunks it comes.
LimitHolds ==
    /\ mode = "endpoint" => received <= MaxBodySize /\ received \in {0, request.size}
    /\ Started(413) => request.size > MaxBodySize

\* An endpoint is told of a user only for a token that passes every check.
OnlyGoodTokens ==
    served = "user" =>
        /\ key = "key"
        /\ request.token # NoToken
        /\ request.token.flaws = {}

\* superadmin > admin > collaborator (dependencies.py, l. 112-114): a route asks
\* for its role or any above it.
Rank(role) ==
    CASE role = "superadmin" -> 3 [] role = "admin" -> 2
      [] role = "collaborator" -> 1 [] role = "user" -> 0

NeededRank ==
    [CollabUser |-> 1, AdminUser |-> 2, SuperAdminUser |-> 3]

HasRank(token, rank) == \E role \in token.roles : Rank(role) >= rank

\* Keycloak's part in a refusal.  A logout is never refused for it.
KeycloakFailed(how) == met \in how /\ request.endpoint # "logout"

\* "Log in again": the route is not for everybody, and the token is missing, bad or
\* signed with a key that Keycloak does not have; or there is no session to refresh
\* or to end.  A fetch that ends with an exception nobody expects ("error") is the
\* case of JWKSManager.
LoginNeeded ==
    \/ /\ request.guard \notin {"open", "OptionalUser"}
       /\ \/ request.token = NoToken
          \/ request.token.flaws # {}
          \/ key \in {"unknown", "error"}
    \/ met = "no_cookie"
    \/ KeycloakFailed({"refused"})

NotAllowed ==
    \/ met = "other_origin"
    \/ /\ request.guard \in DOMAIN NeededRank
       /\ ~HasRank(request.token, NeededRank[request.guard])

TryLater ==
    \/ key = "unavailable"
    \/ met \in {"database_down", "unhealthy"}
    \/ KeycloakFailed({"unreachable"})

ProviderFails == KeycloakFailed({"client_rejected", "odd"})

\* A bug, or roles that extract_user() cannot read: a TypeError nobody catches.
OurFault ==
    \/ bugs # {}
    \/ request.token # NoToken /\ "odd_roles" \in request.token.flaws

\* Each refusal has its cause, and no other (ADR 0006): Keycloak or the database
\* being out of reach is never a 401, which would log the user out, no role of a
\* higher rank is refused, and a logout never fails for what Keycloak does.
RefusalsHaveTheirCause ==
    /\ Started(401) => LoginNeeded
    /\ Started(403) => NotAllowed
    /\ Started(500) => OurFault
    /\ Started(502) => ProviderFails
    /\ Started(503) => TryLater
    /\ served # "none" /\ request.guard \in DOMAIN NeededRank
          => HasRank(request.token, NeededRank[request.guard])
=============================================================================
