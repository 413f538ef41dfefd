----------------------- MODULE RequestPipelineProofs -----------------------
(***************************************************************************)
(* Proofs about RequestPipeline and the token validation under it, for any  *)
(* limit, any body, and tokens with any flaws.                             *)
(***************************************************************************)
EXTENDS RequestPipeline, TLAPS

----------------------------------------------------------------------------
(* Where the layers are.                                                   *)

\* The layers in their order, from the server inwards.
LEMMA Layering ==
    /\ DOMAIN Order = 1..9
    /\ Order[1] = "server_error" /\ Order[2] = "logging" /\ Order[3] = "trusted_host"
    /\ Order[4] = "secure_headers" /\ Order[5] = "cors" /\ Order[6] = "body_limit"
    /\ Order[7] = "unhandled" /\ Order[8] = "handlers" /\ Order[9] = "route"
BY DEF Order

\* There are no other layers.
LEMMA AllLayers ==
    Layers = {"server_error", "logging", "trusted_host", "secure_headers", "cors",
              "body_limit", "unhandled", "handlers", "route"}
<1>1. 1..9 = {1, 2, 3, 4, 5, 6, 7, 8, 9}
  OBVIOUS
<1> QED
  BY <1>1, Layering DEF Layers

\* How far inside each layer is.
LEMMA Depths ==
    /\ Depth("server_error") = 1 /\ Depth("logging") = 2 /\ Depth("trusted_host") = 3
    /\ Depth("secure_headers") = 4 /\ Depth("cors") = 5 /\ Depth("body_limit") = 6
    /\ Depth("unhandled") = 7 /\ Depth("handlers") = 8 /\ Depth("route") = 9
<1>1. \A i \in 1..9 : i \in {1, 2, 3, 4, 5, 6, 7, 8, 9}
  OBVIOUS
<1>2. \A i, j \in 1..9 : Order[i] = Order[j] => i = j
  BY <1>1, Layering
<1>3. ASSUME NEW i \in 1..9 PROVE Depth(Order[i]) = i
  BY <1>2, Layering DEF Depth
<1> QED
  BY <1>3, Layering

\* The layers next to each layer.
LEMMA Neighbours ==
    /\ Inner("server_error") = "logging" /\ Inner("logging") = "trusted_host"
    /\ Inner("trusted_host") = "secure_headers" /\ Inner("secure_headers") = "cors"
    /\ Inner("cors") = "body_limit" /\ Inner("body_limit") = "unhandled"
    /\ Inner("unhandled") = "handlers" /\ Inner("handlers") = "route"
    /\ Outer("logging") = "server_error" /\ Outer("trusted_host") = "logging"
    /\ Outer("secure_headers") = "trusted_host" /\ Outer("cors") = "secure_headers"
    /\ Outer("body_limit") = "cors" /\ Outer("unhandled") = "body_limit"
    /\ Outer("handlers") = "unhandled" /\ Outer("route") = "handlers"
BY Layering, Depths DEF Inner, Outer

\* What a response carries that starts in each layer.
Carried(from) == UNION {Added(outer) : outer \in Outside(from)}

\* A response from the body limit or from further inside has all the headers, one from
\* the check of the host the request id, and the access log sees all but its own.
LEMMA HeadersCarried ==
    /\ \A from \in Layers : Carried(from) \subseteq Headers
    /\ "request_id" \in Carried("trusted_host")
    /\ \A from \in {"body_limit", "unhandled", "handlers", "route"} : Carried(from) = Headers
    /\ "request_id" \in Carried("body_limit")
    /\ \A from \in Layers : "logging" \in Outside(from) <=> from \notin {"server_error", "logging"}
<1>1. \A i \in 1..9 : i \in {1, 2, 3, 4, 5, 6, 7, 8, 9}
  OBVIOUS
<1>2. \A outer \in Layers : Added(outer) \subseteq Headers
  BY DEF Added, Headers
<1>3. \A from \in Layers : Outside(from) \subseteq Layers
  BY AllLayers, Depths, Layering DEF Outside, Layers
<1>4. \A from \in Layers : Carried(from) \subseteq Headers
  BY <1>2, <1>3 DEF Carried
<1>5. Outside("trusted_host") = {"server_error", "logging"}
  <2>1. 1..2 = {1, 2}
    OBVIOUS
  <2> QED
    BY <2>1, Depths, Layering DEF Outside
<1>6. \A from \in {"body_limit", "unhandled", "handlers", "route"} :
        {"logging", "secure_headers", "cors"} \subseteq Outside(from)
  BY Depths, Layering DEF Outside
<1>7. Added("logging") = {"request_id"} /\ Added("secure_headers") = {"security"}
        /\ Added("cors") = {"cors"}
  BY DEF Added
<1>8. \A from \in Layers : "logging" \in Outside(from) <=> from \notin {"server_error", "logging"}
  <2>1. \A from \in Layers : Depth(from) > 2 <=> from \notin {"server_error", "logging"}
    BY AllLayers, Depths
  <2>2. \A from \in Layers : Depth(from) \in 1..9
    BY AllLayers, Depths
  <2>3. \A i \in 1..9 : Order[i] = "logging" <=> i = 2
    BY <1>1, Layering
  <2>4. \A from \in Layers : "logging" \in Outside(from) <=> 2 \in 1..(Depth(from) - 1)
    BY <2>2, <2>3, Layering DEF Outside
  <2> QED
    BY <2>1, <2>2, <2>4
<1>9. "request_id" \in Carried("trusted_host")
  BY <1>5, <1>7 DEF Carried
<1>10. \A from \in {"body_limit", "unhandled", "handlers", "route"} : Carried(from) = Headers
  <2> SUFFICES ASSUME NEW from \in {"body_limit", "unhandled", "handlers", "route"}
               PROVE  Carried(from) = Headers
    OBVIOUS
  <2>1. {"request_id", "security", "cors"} \subseteq Carried(from)
    BY <1>6, <1>7 DEF Carried
  <2> QED
    BY <2>1, <1>4, AllLayers DEF Headers
<1> QED
  BY <1>4, <1>8, <1>9, <1>10 DEF Headers

----------------------------------------------------------------------------
(* What the checks of a token come to.                                     *)

\* The checks of a token in their order.
LEMMA CheckNames ==
    /\ DOMAIN Checks = 1..15
    /\ Checks[1] = "not_a_jwt" /\ Checks[2] = "no_kid" /\ Checks[3] = "unknown"
    /\ Checks[4] = "unavailable" /\ Checks[5] = "error" /\ Checks[6] = "bad_signature"
    /\ Checks[7] = "claim_missing" /\ Checks[8] = "expired" /\ Checks[9] = "other_issuer"
    /\ Checks[10] = "other_audience" /\ Checks[11] = "other_type"
    /\ Checks[12] = "other_client" /\ Checks[13] = "odd_payload"
    /\ Checks[14] = "odd_roles" /\ Checks[15] = "odd_user"
BY DEF Checks

AllChecks == {Checks[i] : i \in DOMAIN Checks}

\* There are no other checks.
LEMMA CheckSet ==
    AllChecks = {"not_a_jwt", "no_kid", "unknown", "unavailable", "error", "bad_signature",
                 "claim_missing", "expired", "other_issuer", "other_audience", "other_type",
                 "other_client", "odd_payload", "odd_roles", "odd_user"}
<1>1. 1..15 = {1, 2, 3, 4, 5, 6, 7, 8, 9, 10, 11, 12, 13, 14, 15}
  OBVIOUS
<1> QED
  BY <1>1, CheckNames DEF AllChecks

\* There is a first fault if there is any.
LEMMA FirstFaultExists ==
    ASSUME NEW faults, faults \cap AllChecks # {}
    PROVE  /\ FirstFault(faults) \in faults \cap AllChecks
           /\ {"not_a_jwt", "no_kid"} \cap faults # {} =>
                  FirstFault(faults) \in {"not_a_jwt", "no_kid"}
<1> DEFINE IsFirst(i) == /\ Checks[i] \in faults
                         /\ \A j \in DOMAIN Checks : j < i => Checks[j] \notin faults
<1>1. PICK n \in 1..15 : Checks[n] \in faults
  BY CheckNames DEF AllChecks
<1>2. \E i \in DOMAIN Checks : IsFirst(i)
  <2> SUFFICES ASSUME \A i \in 1..15 : ~IsFirst(i)
               PROVE  FALSE
    BY CheckNames
  <2>1. \A i \in 1..15 : Checks[i] \in faults =>
            \E j \in 1..15 : j < i /\ Checks[j] \in faults
    BY CheckNames
  <2> HIDE DEF IsFirst
  <2>2. \A i \in 1..5 : Checks[i] \notin faults
    BY <2>1
  <2>3. \A i \in 1..10 : Checks[i] \notin faults
    BY <2>1, <2>2
  <2>4. \A i \in 1..15 : Checks[i] \notin faults
    BY <2>1, <2>3
  <2> QED
    BY <2>4, <1>1
<1>3. PICK i \in DOMAIN Checks : /\ FirstFault(faults) = Checks[i]
                                 /\ IsFirst(i)
  BY <1>2 DEF FirstFault
<1>4. FirstFault(faults) \in faults \cap AllChecks
  BY <1>3 DEF AllChecks
<1>5. ASSUME {"not_a_jwt", "no_kid"} \cap faults # {}
      PROVE  FirstFault(faults) \in {"not_a_jwt", "no_kid"}
  <2>1. Checks[1] \in faults \/ Checks[2] \in faults
    BY <1>5, CheckNames
  <2>2. ~(1 < i /\ 2 < i)
    BY <2>1, <1>3, CheckNames
  <2>3. i = 1 \/ i = 2
    BY <2>2, CheckNames
  <2> QED
    BY <2>3, <1>3, CheckNames
<1> QED
  BY <1>4, <1>5

\* validate_token(): what it returns or raises has its cause.
LEMMA Validation ==
    ASSUME NEW token \in Tokens, NEW answer \in KeyAnswers
    PROVE  LET user == ValidateToken(token, answer)
           IN  /\ user \in {"user", "UnauthorizedError", "ServiceUnavailableError", "TypeError"}
               /\ user = "user" => token.flaws = {} /\ answer = "key"
               /\ user = "UnauthorizedError" =>
                      token.flaws # {} \/ answer \in {"unknown", "error"}
               /\ user = "ServiceUnavailableError" =>
                      /\ answer = "unavailable"
                      /\ {"not_a_jwt", "no_kid"} \cap token.flaws = {}
               /\ user = "TypeError" => "odd_roles" \in token.flaws
<1> DEFINE faults == Faults(token, answer)
           fault  == FirstFault(faults)
           user   == ValidateToken(token, answer)
<1>1. token.flaws \subseteq AllChecks \ KeyAnswers
  BY DEF Tokens, Flaws, AllChecks
<1>2. faults \subseteq AllChecks
  BY <1>1, CheckSet DEF Faults, KeyAnswers
<1>3. CASE faults = {}
  <2>1. user = "user"
    BY <1>3 DEF ValidateToken
  <2>2. token.flaws = {} /\ answer = "key"
    BY <1>3 DEF Faults
  <2> QED
    BY <2>1, <2>2
<1>4. CASE faults # {}
  <2>1. fault \in faults \cap AllChecks
    BY <1>2, <1>4, FirstFaultExists
  <2>2. user = Translated(Raises(fault), fault \in Extracting)
    BY <1>4 DEF ValidateToken
  <2> HIDE DEF user, fault
  <2>3. fault = "unavailable" => user = "ServiceUnavailableError"
    BY <2>2 DEF Raises, Translated
  <2>4. fault = "odd_roles" => user = "TypeError"
    BY <2>2 DEF Raises, Translated, Extracting
  <2>5. fault \notin {"unavailable", "odd_roles"} => user = "UnauthorizedError"
    BY <2>1, <2>2, CheckSet DEF Raises, Translated, Extracting
  <2>6. fault \in token.flaws \/ fault = answer
    BY <2>1 DEF Faults
  <2>7. fault = "unavailable" => answer = "unavailable"
    BY <2>6, <1>1 DEF KeyAnswers
  <2>9. fault = "odd_roles" => "odd_roles" \in token.flaws
    BY <2>6 DEF KeyAnswers
  <2>10. fault = "unavailable" => {"not_a_jwt", "no_kid"} \cap token.flaws = {}
    <3>1. {"not_a_jwt", "no_kid"} \cap faults # {} => fault \in {"not_a_jwt", "no_kid"}
      BY <1>2, <1>4, FirstFaultExists DEF fault
    <3>2. token.flaws \subseteq faults
      BY DEF Faults
    <3> QED
      BY <3>1, <3>2
  <2>8. fault \notin {"unavailable", "odd_roles"} =>
            token.flaws # {} \/ answer \in {"unknown", "error"}
    <3>1. fault # "key"
      BY <2>1, CheckSet
    <3> QED
      BY <2>6, <3>1 DEF KeyAnswers
  <2> HIDE DEF faults
  <2> QED
    BY <2>3, <2>4, <2>5, <2>7, <2>8, <2>9, <2>10 DEF user
<1> QED
  BY <1>3, <1>4

\* A role of Allowed() is the role asked for or one above it.
LEMMA RolesRanked ==
    \A guard \in DOMAIN NeededRank : \A role \in Roles :
        role \in Allowed(guard) <=> Rank(role) >= NeededRank[guard]
BY DEF NeededRank, Roles, Allowed, Rank

Ranked(guard) == guard \in DOMAIN NeededRank

\* The dependencies of a route: what they return or raise has its cause.
LEMMA Authorization ==
    ASSUME NEW guard \in Guards, NEW token \in Tokens \cup {NoToken},
           NEW answer \in KeyAnswers
    PROVE  LET user == Authorize(guard, token, answer)
           IN  /\ user \in {"user", "nobody", "UnauthorizedError", "ForbiddenError",
                            "ServiceUnavailableError", "TypeError"}
               /\ user = "user" => /\ token # NoToken /\ token.flaws = {}
                                   /\ answer = "key"
               /\ user = "UnauthorizedError" =>
                      /\ guard \notin {"open", "OptionalUser"}
                      /\ token = NoToken \/ token.flaws # {} \/ answer \in {"unknown", "error"}
               /\ user = "ServiceUnavailableError" =>
                      answer = "unavailable" /\ LooksUpKey(token)
               /\ user = "TypeError" => token # NoToken /\ "odd_roles" \in token.flaws
               /\ user = "ForbiddenError" =>
                      Ranked(guard) /\ ~HasRank(token, NeededRank[guard])
               /\ Ranked(guard) /\ user \in {"user", "nobody"} =>
                      HasRank(token, NeededRank[guard])
<1> DEFINE known == GetCurrentUser(token, answer)
           user  == Authorize(guard, token, answer)
<1>1. /\ known \in {"user", "UnauthorizedError", "ServiceUnavailableError", "TypeError"}
      /\ known = "user" => token # NoToken /\ token.flaws = {} /\ answer = "key"
      /\ known = "UnauthorizedError" =>
             token = NoToken \/ token.flaws # {} \/ answer \in {"unknown", "error"}
      /\ known = "ServiceUnavailableError" => answer = "unavailable" /\ LooksUpKey(token)
      /\ known = "TypeError" => token # NoToken /\ "odd_roles" \in token.flaws
  <2>1. CASE token = NoToken
    BY <2>1 DEF GetCurrentUser
  <2>2. CASE token # NoToken
    BY <2>2, Validation DEF GetCurrentUser, LooksUpKey
  <2> QED
    BY <2>1, <2>2
<1>2. /\ guard = "open" => user = "nobody"
      /\ guard = "OptionalUser" =>
             user = IF known = "UnauthorizedError" THEN "nobody" ELSE known
      /\ guard = "CurrentUser" => user = known
      /\ Ranked(guard) =>
             user = IF known = "user" /\ token.roles \cap Allowed(guard) = {}
                    THEN "ForbiddenError" ELSE known
  BY DEF Authorize, Ranked, NeededRank
<1>3. guard \in {"open", "OptionalUser", "CurrentUser"} \/ Ranked(guard)
  BY DEF Guards, Ranked, NeededRank
<1>4. ~(Ranked(guard) /\ guard \in {"open", "OptionalUser", "CurrentUser"})
  BY DEF Ranked, NeededRank
<1>5. known = "user" => token.roles \subseteq Roles
  BY <1>1 DEF Tokens
<1>6. ASSUME Ranked(guard), known = "user"
      PROVE  HasRank(token, NeededRank[guard]) <=> token.roles \cap Allowed(guard) # {}
  BY <1>5, <1>6, RolesRanked DEF HasRank, Ranked
<1> HIDE DEF known, user
<1>7. user \in {"user", "nobody", "UnauthorizedError", "ForbiddenError",
                "ServiceUnavailableError", "TypeError"}
  BY <1>1, <1>2, <1>3
<1>8. /\ user = "user" => known = "user"
      /\ user = "UnauthorizedError" =>
             known = "UnauthorizedError" /\ guard \notin {"open", "OptionalUser"}
      /\ user = "ServiceUnavailableError" => known = "ServiceUnavailableError"
      /\ user = "TypeError" => known = "TypeError"
      /\ user = "ForbiddenError" =>
             /\ Ranked(guard) /\ known = "user"
             /\ token.roles \cap Allowed(guard) = {}
      /\ Ranked(guard) /\ user \in {"user", "nobody"} =>
             known = "user" /\ token.roles \cap Allowed(guard) # {}
  BY <1>1, <1>2, <1>3, <1>4
<1> QED
  BY <1>1, <1>6, <1>7, <1>8 DEF user

----------------------------------------------------------------------------
(* The inductive invariant.                                                *)

\* A request has the control of one layer: the route has it while it reads,
\* authorizes and runs, and an exception is on its way or not.
Control ==
    /\ mode # "idle" => request \in RequestsSent
    /\ mode \in {"reading", "authorizing", "endpoint", "sending"} => layer = "route"
    /\ mode = "raising" <=> exception # NoException
    /\ mode = "idle" => layer = "server_error"

\* A response has started if one was sent, and then the log has its status.
Answering ==
    /\ starts = IF response = NoResponse THEN 0 ELSE 1
    /\ mode \in {"sending", "done"} => response # NoResponse
    /\ mode \in {"idle", "in", "reading", "authorizing", "endpoint"} => response = NoResponse
    /\ response # NoResponse => logged = response.status
    /\ response = NoResponse =>
           logged = IF mode = "raising" /\ layer = "server_error" THEN 500 ELSE 0
    /\ mode = "sending" => \/ response.status = 200
                           \/ response.status = 503 /\ request.endpoint = "ready"

\* An exception that a handler takes goes no further, and one that is not
\* answered by the layer for the unhandled ones was raised outside it.
Escaping ==
    /\ mode = "raising" /\ exception \in Handled => layer \in {"route", "handlers"}
    /\ mode = "raising" /\ response = NoResponse =>
           layer \in {"route", "handlers", "unhandled"} \/ "middleware" \in bugs

Counting ==
    /\ mode \in {"idle", "in"} => received = 0
    /\ mode = "reading" => received <= request.size /\ received <= MaxBodySize
    /\ mode \in {"authorizing", "endpoint"} =>
           received \in {0, request.size} /\ received <= MaxBodySize
    /\ exception = "HTTPException_413" => request.size > MaxBodySize

\* A refusal on its way has its cause already.
Causes ==
    /\ mode \in {"idle", "in", "reading", "authorizing"} =>
           key = "none" /\ served = "none" /\ met = "none"
    /\ exception = "UnauthorizedError" => LoginNeeded
    /\ exception = "ForbiddenError" => NotAllowed
    /\ exception = "ExternalServiceError" => ProviderFails
    /\ exception = "ServiceUnavailableError" => TryLater
    /\ exception \in {"TypeError", "Exception"} => OurFault \/ response # NoResponse

IndInv == /\ TypeOK /\ Control /\ Answering /\ Escaping /\ Counting /\ Causes
          /\ ErrorsAreUniform /\ LimitHolds /\ OnlyGoodTokens /\ RefusalsHaveTheirCause

----------------------------------------------------------------------------
(* Each step keeps it.                                                     *)

\* A response that starts in a layer has the headers of those outside it, and
\* the log has its status.
LEMMA Starting ==
    ASSUME NEW from \in Layers, NEW status \in Statuses, NEW problem \in BOOLEAN,
           Start(from, status, problem)
    PROVE  /\ response' = [status |-> status, problem |-> problem, headers |-> Carried(from)]
           /\ response' \in Responses
           /\ response' # NoResponse
           /\ starts' = starts + 1
           /\ logged' = IF from \in {"server_error", "logging"} THEN logged ELSE status
<1>1. response' = [status |-> status, problem |-> problem, headers |-> Carried(from)]
  BY DEF Start, Carried
<1>2. response' \in Responses
  BY <1>1, HeadersCarried DEF Responses
<1>3. logged' = IF from \in {"server_error", "logging"} THEN logged ELSE status
  BY HeadersCarried DEF Start
<1> QED
  BY <1>1, <1>2, <1>3, PipelineAssumption DEF Start

\* What each handler answers.
LEMMA StatusOfHandled ==
    ASSUME NEW e \in Handled
    PROVE  /\ HandledStatus(e) \in Statuses \ {200}
           /\ HandledStatus(e) = 401 => e = "UnauthorizedError"
           /\ HandledStatus(e) = 403 => e = "ForbiddenError"
           /\ HandledStatus(e) = 413 => e = "HTTPException_413"
           /\ HandledStatus(e) = 502 => e = "ExternalServiceError"
           /\ HandledStatus(e) = 503 => e = "ServiceUnavailableError"
           /\ HandledStatus(e) # 500
<1>1. e = "UnauthorizedError" => HandledStatus(e) = 401
  BY DEF HandledStatus
<1>2. e = "ForbiddenError" => HandledStatus(e) = 403
  BY DEF HandledStatus
<1>3. e = "NotFoundError" => HandledStatus(e) = 404
  BY DEF HandledStatus
<1>4. e = "ServiceUnavailableError" => HandledStatus(e) = 503
  BY DEF HandledStatus
<1>5. e = "HTTPException_413" => HandledStatus(e) = 413
  BY DEF HandledStatus
<1>6. e = "HTTPException_404" => HandledStatus(e) = 404
  BY DEF HandledStatus
<1>7. e = "HTTPException_400" => HandledStatus(e) = 400
  BY DEF HandledStatus
<1>8. e = "RequestValidationError" => HandledStatus(e) = 422
  BY DEF HandledStatus
<1>9. e = "ConflictError" => HandledStatus(e) = 409
  BY DEF HandledStatus
<1>10. e = "ValidationError" => HandledStatus(e) = 422
  BY DEF HandledStatus
<1>11. e = "ExternalServiceError" => HandledStatus(e) = 502
  BY DEF HandledStatus
<1>12. e \in {"UnauthorizedError", "ForbiddenError", "NotFoundError", "ConflictError",
              "ValidationError", "ExternalServiceError", "ServiceUnavailableError",
              "HTTPException_413", "HTTPException_404", "HTTPException_400",
              "RequestValidationError"}
  BY DEF Handled, Exceptions
<1> QED
  BY <1>1, <1>2, <1>3, <1>4, <1>5, <1>6, <1>7, <1>8, <1>9, <1>10, <1>11, <1>12
     DEF Statuses

\* The members of a request that the layers look at.
LEMMA RequestParts ==
    ASSUME NEW q \in RequestsSent
    PROVE  /\ q.size \in 0..MaxSize
           /\ q.size \in Nat
           /\ q.guard \in Guards
           /\ q.endpoint \in Endpoints
           /\ q.token \in Tokens \cup {NoToken}
           /\ q.preflight \in {"no", "allowed", "refused"}
           /\ q.host \in {"trusted", "other"}
           /\ q.length # NoLength => q.length \in Nat /\ q.size = q.length
BY PipelineAssumption DEF RequestsSent

\* The dependencies of a route serve somebody or raise, for a reason.
LEMMA Depending ==
    ASSUME TypeOK, Control, NEW keyAnswer \in KeyAnswers, Dependencies(keyAnswer)
    PROVE  /\ mode = "authorizing" /\ layer = "route"
           /\ key' \in KeyAnswers \cup {"none"}
           /\ UNCHANGED <<request, layer, received, response, starts, logged, met, bugs>>
           /\ \/ /\ mode' = "endpoint" /\ exception' = exception
                 /\ served' \in {"user", "nobody"}
                 /\ served' = "user" => /\ request.token # NoToken
                                        /\ request.token.flaws = {}
                                        /\ key' = "key"
                 /\ Ranked(request.guard) =>
                        HasRank(request.token, NeededRank[request.guard])
              \/ /\ mode' = "raising" /\ served' = served
                 /\ exception' \in {"RequestValidationError", "UnauthorizedError",
                                    "ForbiddenError", "ServiceUnavailableError", "TypeError"}
                 /\ exception' = "UnauthorizedError" =>
                        /\ request.guard \notin {"open", "OptionalUser"}
                        /\ \/ request.token = NoToken
                           \/ request.token.flaws # {}
                           \/ key' \in {"unknown", "error"}
                 /\ exception' = "ServiceUnavailableError" => key' = "unavailable"
                 /\ exception' = "TypeError" =>
                        request.token # NoToken /\ "odd_roles" \in request.token.flaws
                 /\ exception' = "ForbiddenError" =>
                        /\ request.guard \in DOMAIN NeededRank
                        /\ ~HasRank(request.token, NeededRank[request.guard])
<1> DEFINE user == Authorize(request.guard, request.token, keyAnswer)
<1>1. /\ mode = "authorizing" /\ layer = "route"
      /\ key' = IF LooksUpKey(request.token) THEN keyAnswer ELSE "none"
      /\ UNCHANGED <<request, layer, received, response, starts, logged, met, bugs>>
      /\ \/ /\ user \in {"user", "nobody"}
            /\ mode' = "endpoint" /\ exception' = exception /\ served' = user
         \/ /\ mode' = "raising" /\ served' = served
            /\ exception' = IF user \in {"user", "nobody"} THEN "RequestValidationError"
                                                          ELSE user
  BY DEF Dependencies, AtRoute, Continue, RaiseInRoute, Raise
<1>2. request.guard \in Guards /\ request.token \in Tokens \cup {NoToken}
  BY <1>1, RequestParts DEF Control
<1>3. /\ user \in {"user", "nobody", "UnauthorizedError", "ForbiddenError",
                   "ServiceUnavailableError", "TypeError"}
      /\ user = "user" => /\ request.token # NoToken /\ request.token.flaws = {}
                          /\ keyAnswer = "key"
      /\ user = "UnauthorizedError" =>
             /\ request.guard \notin {"open", "OptionalUser"}
             /\ \/ request.token = NoToken
                \/ request.token.flaws # {}
                \/ keyAnswer \in {"unknown", "error"}
      /\ user = "ServiceUnavailableError" =>
             keyAnswer = "unavailable" /\ LooksUpKey(request.token)
      /\ user = "TypeError" =>
             request.token # NoToken /\ "odd_roles" \in request.token.flaws
      /\ user = "ForbiddenError" =>
             /\ Ranked(request.guard)
             /\ ~HasRank(request.token, NeededRank[request.guard])
      /\ Ranked(request.guard) /\ user \in {"user", "nobody"} =>
             HasRank(request.token, NeededRank[request.guard])
  BY <1>2, Authorization
<1>4. ~LooksUpKey(request.token) => request.token = NoToken \/ request.token.flaws # {}
  BY DEF LooksUpKey
<1> HIDE DEF user
<1>5. key' \in KeyAnswers \cup {"none"}
  BY <1>1
<1>6. CASE user \in {"user", "nobody"}
  BY <1>1, <1>3, <1>4, <1>5, <1>6
<1>7. CASE user \notin {"user", "nobody"}
  BY <1>1, <1>3, <1>4, <1>5, <1>7 DEF Ranked
<1> QED
  BY <1>6, <1>7

\* A response begins in a layer.
Begins(from, status, problem) ==
    /\ response' = [status |-> status, problem |-> problem, headers |-> Carried(from)]
    /\ response' \in Responses /\ response' # NoResponse
    /\ starts' = starts + 1
    /\ logged' = IF from = "server_error" THEN logged ELSE status

\* What each layer that answers begins with.
LEMMA Beginnings ==
    /\ RefuseHost => Begins("trusted_host", 400, FALSE)
    /\ AnswerPreflight =>
           Begins("body_limit", IF request.preflight = "allowed" THEN 200 ELSE 400, FALSE)
    /\ RefuseLength => Begins("body_limit", 413, TRUE)
    /\ EndpointAnswers =>
           Begins("route", IF met' = "unhealthy" THEN 503 ELSE 200, FALSE)
    /\ HandlerAnswers => Begins("handlers", HandledStatus(exception), TRUE)
    /\ UnhandledAnswers => Begins("unhandled", 500, TRUE)
    /\ LastResort /\ response = NoResponse => Begins("server_error", 500, TRUE)
<1>1. ASSUME NEW from \in Layers \ {"logging"}, NEW status \in Statuses,
             NEW problem \in BOOLEAN, Start(from, status, problem)
      PROVE  Begins(from, status, problem)
  BY <1>1, Starting DEF Begins
<1>2. /\ 200 \in Statuses /\ 400 \in Statuses /\ 413 \in Statuses /\ 500 \in Statuses
      /\ TRUE \in BOOLEAN /\ FALSE \in BOOLEAN
  BY DEF Statuses
<1>3. \A from \in {"trusted_host", "body_limit", "route", "handlers", "unhandled",
                   "server_error"} : from \in Layers \ {"logging"}
  BY AllLayers
<1>4. ASSUME RefuseHost PROVE Begins("trusted_host", 400, FALSE)
  <2>1. layer = "trusted_host" /\ Start(layer, 400, FALSE)
    BY <1>4 DEF RefuseHost, HostRefused, Entering, Answer
  <2> QED
    BY <2>1, <1>1, <1>2, <1>3
<1>5. ASSUME AnswerPreflight
      PROVE  Begins("body_limit", IF request.preflight = "allowed" THEN 200 ELSE 400, FALSE)
  <2>1. Start("body_limit", IF request.preflight = "allowed" THEN 200 ELSE 400, FALSE)
    BY <1>5, Neighbours DEF AnswerPreflight, Preflight, Entering
  <2> QED
    BY <2>1, <1>1, <1>2, <1>3
<1>6. ASSUME RefuseLength PROVE Begins("body_limit", 413, TRUE)
  <2>1. layer = "body_limit" /\ Start(layer, 413, TRUE)
    BY <1>6 DEF RefuseLength, TooLong, Entering, Answer
  <2> QED
    BY <2>1, <1>1, <1>2, <1>3
<1>7. ASSUME EndpointAnswers
      PROVE  Begins("route", IF met' = "unhealthy" THEN 503 ELSE 200, FALSE)
  <2>1. Start("route", IF met' = "unhealthy" THEN 503 ELSE 200, FALSE)
    BY <1>7 DEF EndpointAnswers
  <2>2. (IF met' = "unhealthy" THEN 503 ELSE 200) \in Statuses
    BY DEF Statuses
  <2> QED
    BY <2>1, <2>2, <1>1, <1>2, <1>3
<1>8. ASSUME HandlerAnswers PROVE Begins("handlers", HandledStatus(exception), TRUE)
  <2>1. /\ layer = "handlers" /\ exception \in Handled
        /\ Start(layer, HandledStatus(exception), TRUE)
    BY <1>8 DEF HandlerAnswers, Answer
  <2>2. HandledStatus(exception) \in Statuses
    BY <2>1, StatusOfHandled
  <2> QED
    BY <2>1, <2>2, <1>1, <1>2, <1>3
<1>9. ASSUME UnhandledAnswers PROVE Begins("unhandled", 500, TRUE)
  <2>1. layer = "unhandled" /\ Start(layer, 500, TRUE)
    BY <1>9 DEF UnhandledAnswers, Answer
  <2> QED
    BY <2>1, <1>1, <1>2, <1>3
<1>10. ASSUME LastResort, response = NoResponse PROVE Begins("server_error", 500, TRUE)
  <2>1. layer = "server_error" /\ Start(layer, 500, TRUE)
    BY <1>10 DEF LastResort, Answer
  <2> QED
    BY <2>1, <1>1, <1>2, <1>3
<1> QED
  BY <1>4, <1>5, <1>6, <1>7, <1>8, <1>9, <1>10

\* The two answers that come from outside the handlers.
LEMMA TooLongAnswered ==
    ASSUME RefuseLength
    PROVE  /\ mode = "in" /\ mode' = "done" /\ exception' = NoException
           /\ request.length # NoLength /\ request.length > MaxBodySize
           /\ UNCHANGED <<request, layer, received, key, served, met, bugs>>
           /\ Begins("body_limit", 413, TRUE)
BY Beginnings DEF RefuseLength, TooLong, Entering, Answer

\* Starlette's outermost layer answers 500 to an exception if no response has started.
LEMMA ServerAnswers ==
    ASSUME LastResort, response = NoResponse
    PROVE  /\ mode = "raising" /\ layer = "server_error"
           /\ mode' = "done" /\ exception' = NoException
           /\ UNCHANGED <<request, layer, received, key, served, met, bugs>>
           /\ Begins("server_error", 500, TRUE)
<1>1. Begins("server_error", 500, TRUE)
  BY Beginnings
<1> QED
  BY <1>1 DEF LastResort, Answer

\* An exception that reaches the server after the start changes nothing else.
LEMMA AfterTheStart ==
    ASSUME LastResort, response # NoResponse
    PROVE  /\ mode' = "done" /\ exception' = NoException
           /\ UNCHANGED <<request, layer, received, response, starts, logged, key, served,
                          met, bugs>>
BY DEF LastResort

\* What each endpoint meets.
LEMMA ObstaclesMet ==
    ASSUME NEW endpoint \in Endpoints
    PROVE  /\ Raising(endpoint) \subseteq Obstacles[endpoint]
           /\ \A obstacle \in Obstacles[endpoint] :
                 obstacle \in {"no_row", "conflict", "database_down", "other_uri", "no_cookie",
                              "unhealthy"} \cup KeycloakFailures
           /\ "unhealthy" \in Obstacles[endpoint] => endpoint = "ready"
           /\ "unhealthy" \notin Raising(endpoint)
           /\ Raising("ready") = {}
           /\ Raising("logout") \cap KeycloakFailures = {}
<1> USE DEF Obstacles, KeycloakFailures
<1>1. endpoint \in {"page", "notes", "login", "token", "refresh", "logout", "ready"}
  BY DEF Endpoints
<1>2. /\ Raising("ready") = {} /\ Raising("logout") = {"no_cookie"}
      /\ endpoint \notin {"logout", "ready"} => Raising(endpoint) = Obstacles[endpoint]
  BY DEF Raising
<1> QED
  BY <1>1, <1>2

\* What an endpoint raises, and what for.
LEMMA RaisedInEndpoint ==
    ASSUME TypeOK, Control, EndpointRaises
    PROVE  /\ mode \in {"endpoint", "sending"} /\ mode' = "raising"
           /\ UNCHANGED <<request, layer, received, key, response, starts, logged, served>>
           /\ \/ /\ exception' \in {"UnauthorizedError", "NotFoundError", "ConflictError",
                       "ValidationError", "ExternalServiceError", "ServiceUnavailableError"}
                 /\ request.endpoint # "ready" /\ bugs' = bugs
                 /\ met' \in Obstacles[request.endpoint]
                 /\ exception' = "UnauthorizedError" => LoginNeeded'
                 /\ exception' = "ExternalServiceError" => ProviderFails'
                 /\ exception' = "ServiceUnavailableError" => TryLater'
              \/ /\ exception' = "Exception" /\ met' = met
                 /\ bugs' = bugs \cup {"endpoint"}
<1>1. /\ mode \in {"endpoint", "sending"} /\ mode' = "raising"
      /\ UNCHANGED <<request, layer, received, key, response, starts, logged, served>>
  BY DEF EndpointRaises, AtRoute, RaiseInRoute, Raise
<1>2. request.endpoint \in Endpoints
  BY <1>1, RequestParts DEF Control
<1>3. ASSUME NEW obstacle \in Raising(request.endpoint), met' = obstacle,
             exception' = Failure(obstacle), bugs' = bugs
      PROVE  /\ exception' \in {"UnauthorizedError", "NotFoundError", "ConflictError",
                    "ValidationError", "ExternalServiceError", "ServiceUnavailableError"}
             /\ request.endpoint # "ready"
             /\ met' \in Obstacles[request.endpoint]
             /\ exception' = "UnauthorizedError" => LoginNeeded'
             /\ exception' = "ExternalServiceError" => ProviderFails'
             /\ exception' = "ServiceUnavailableError" => TryLater'
  <2>1. /\ obstacle \in Obstacles[request.endpoint] /\ obstacle # "unhealthy"
        /\ obstacle \in {"no_row", "conflict", "database_down", "other_uri", "no_cookie",
                         "unhealthy"} \cup KeycloakFailures
        /\ request.endpoint # "ready"
        /\ request.endpoint = "logout" => obstacle \notin KeycloakFailures
    BY <1>2, <1>3, ObstaclesMet
  <2>2. /\ obstacle = "no_row" => exception' = "NotFoundError"
        /\ obstacle = "conflict" => exception' = "ConflictError"
        /\ obstacle = "other_uri" => exception' = "ValidationError"
        /\ obstacle \in {"database_down", "unreachable"} =>
               exception' = "ServiceUnavailableError"
        /\ obstacle \in {"no_cookie", "refused"} => exception' = "UnauthorizedError"
        /\ obstacle \in {"client_rejected", "odd"} => exception' = "ExternalServiceError"
    BY <1>3 DEF Failure
  <2>3. request'.endpoint = request.endpoint
    BY <1>1
  <2> QED
    BY <1>3, <2>1, <2>2, <2>3
       DEF LoginNeeded, ProviderFails, TryLater, KeycloakFailed, KeycloakFailures
<1>4. \/ \E obstacle \in Raising(request.endpoint) :
            met' = obstacle /\ exception' = Failure(obstacle) /\ bugs' = bugs
      \/ exception' = "Exception" /\ met' = met /\ bugs' = bugs \cup {"endpoint"}
  BY DEF EndpointRaises, RaiseInRoute, Raise
<1> QED
  BY <1>1, <1>3, <1>4

\* What an endpoint answers, and what it has met.
LEMMA AnsweredByEndpoint ==
    ASSUME TypeOK, Control, EndpointAnswers
    PROVE  /\ mode = "endpoint" /\ mode' = "sending" /\ layer = "route"
           /\ UNCHANGED <<request, layer, received, exception, key, served, bugs>>
           /\ met' \in {"none"} \cup Obstacles[request.endpoint]
           /\ met' = "unhealthy" => request.endpoint = "ready"
           /\ Begins("route", IF met' = "unhealthy" THEN 503 ELSE 200, FALSE)
<1>1. mode = "endpoint" /\ layer = "route"
  BY DEF EndpointAnswers, AtRoute
<1>2. request.endpoint \in Endpoints
  BY <1>1, RequestParts DEF Control
<1>3. met' \in {"none"} \cup Obstacles[request.endpoint]
  BY DEF EndpointAnswers
<1>4. met' = "unhealthy" => request.endpoint = "ready"
  BY <1>2, <1>3, ObstaclesMet
<1> QED
  BY <1>1, <1>3, <1>4, Beginnings DEF EndpointAnswers

\* Who has the control, and whether it is an exception.
LEMMA ControlKept ==
    ASSUME IndInv, [Next]_vars
    PROVE  Control'
<1> USE PipelineAssumption DEF IndInv, TypeOK, Control, Exceptions
<1>1. CASE \E q \in RequestsSent : Arrive(q)
  BY <1>1 DEF Arrive
<1>2. CASE Enter
  BY <1>2 DEF Enter, Continue
<1>3. CASE RefuseHost
  BY <1>3 DEF RefuseHost, HostRefused, Entering, Answer
<1>4. CASE AnswerPreflight
  BY <1>4 DEF AnswerPreflight, Preflight, Entering
<1>5. CASE RefuseLength
  BY <1>5 DEF RefuseLength, TooLong, Entering, Answer
<1>6. CASE MiddlewareRaises
  BY <1>6 DEF MiddlewareRaises, Raise
<1>7. CASE NoRoute
  BY <1>7 DEF NoRoute, AtRoute, RaiseInRoute, Raise
<1>8. CASE ReadBody
  BY <1>8 DEF ReadBody, AtRoute, Continue
<1>9. CASE \E bytes \in 0..MaxSize : ReceiveWithinLimit(bytes)
  BY <1>9 DEF ReceiveWithinLimit, AtRoute, RaiseInRoute, Raise, Continue
<1>10. CASE BodyRefused
  BY <1>10 DEF BodyRefused, AtRoute, RaiseInRoute, Raise
<1>11. CASE \E keyAnswer \in KeyAnswers : Dependencies(keyAnswer)
  BY <1>11, Depending
<1>12. CASE EndpointRaises
  BY <1>12, RaisedInEndpoint
<1>13. CASE EndpointAnswers
  BY <1>13, AnsweredByEndpoint, HeadersCarried DEF Begins
<1>14. CASE ResponseSent
  BY <1>14 DEF ResponseSent, AtRoute, Continue
<1>15. CASE HandlerAnswers
  BY <1>15 DEF HandlerAnswers, Answer
<1>16. CASE HandlerRaises
  BY <1>16 DEF HandlerRaises, Outwards
<1>17. CASE UnhandledAnswers
  BY <1>17 DEF UnhandledAnswers, Answer
<1>18. CASE Passes
  BY <1>18 DEF Passes, Outwards
<1>19. CASE PassesLogging
  BY <1>19 DEF PassesLogging, Outwards
<1>20. CASE LastResort
  BY <1>20 DEF LastResort, Answer
<1>21. CASE Over
  BY <1>21 DEF Over
<1>22. CASE UNCHANGED vars
  BY <1>22 DEF vars
<1>23. CASE OriginRefused
  BY <1>23 DEF OriginRefused, AtRoute, RaiseInRoute, Raise
<1> QED
  BY <1>1, <1>2, <1>3, <1>4, <1>5, <1>6, <1>7, <1>8, <1>9, <1>10, <1>11, <1>12,
     <1>13, <1>14, <1>15, <1>16, <1>17, <1>18, <1>19, <1>20, <1>21, <1>22, <1>23
     DEF Next, Inwards, Route, Unwinding

\* One response, and its status in the log.
LEMMA AnsweringKept ==
    ASSUME IndInv, [Next]_vars
    PROVE  Answering'
<1> USE PipelineAssumption, AllLayers DEF IndInv, TypeOK, Control, Answering
<1>1. CASE \E q \in RequestsSent : Arrive(q)
  BY <1>1 DEF Arrive
<1>2. CASE Enter
  BY <1>2, Neighbours DEF Enter, Continue
<1>3. CASE RefuseHost
  BY <1>3, Beginnings DEF RefuseHost, HostRefused, Entering, Answer, Begins
<1>4. CASE AnswerPreflight
  BY <1>4, Beginnings DEF AnswerPreflight, Preflight, Entering, Begins
<1>5. CASE RefuseLength
  <2>1. /\ mode = "in" /\ mode' = "done" /\ exception' = NoException
        /\ request.length # NoLength /\ request.length > MaxBodySize
        /\ UNCHANGED <<request, layer, received, key, served, met, bugs>>
        /\ Begins("body_limit", 413, TRUE)
    BY <1>5, TooLongAnswered
  <2> QED
    BY <2>1 DEF Begins
<1>6. CASE MiddlewareRaises
  BY <1>6, Neighbours DEF MiddlewareRaises, Raise
<1>7. CASE NoRoute
  BY <1>7 DEF NoRoute, AtRoute, RaiseInRoute, Raise
<1>8. CASE ReadBody
  BY <1>8 DEF ReadBody, AtRoute, Continue
<1>9. CASE \E bytes \in 0..MaxSize : ReceiveWithinLimit(bytes)
  BY <1>9 DEF ReceiveWithinLimit, AtRoute, RaiseInRoute, Raise, Continue
<1>10. CASE BodyRefused
  BY <1>10 DEF BodyRefused, AtRoute, RaiseInRoute, Raise
<1>11. CASE \E keyAnswer \in KeyAnswers : Dependencies(keyAnswer)
  BY <1>11, Depending
<1>12. CASE EndpointRaises
  BY <1>12, RaisedInEndpoint
<1>13. CASE EndpointAnswers
  BY <1>13, AnsweredByEndpoint, HeadersCarried DEF Begins
<1>14. CASE ResponseSent
  BY <1>14 DEF ResponseSent, AtRoute, Continue
<1>15. CASE HandlerAnswers
  BY <1>15, Beginnings, StatusOfHandled DEF HandlerAnswers, Answer, Begins
<1>16. CASE HandlerRaises
  BY <1>16, Neighbours DEF HandlerRaises, Outwards
<1>17. CASE UnhandledAnswers
  BY <1>17, Beginnings DEF UnhandledAnswers, Answer, Begins
<1>18. CASE Passes
  BY <1>18, Neighbours DEF Passes, Outwards
<1>19. CASE PassesLogging
  BY <1>19, Neighbours DEF PassesLogging, Outwards
<1>20. CASE LastResort
  <2>1. CASE response = NoResponse
    <3>1. /\ mode = "raising" /\ layer = "server_error"
          /\ mode' = "done" /\ exception' = NoException
          /\ UNCHANGED <<request, layer, received, key, served, met, bugs>>
          /\ Begins("server_error", 500, TRUE)
      BY <1>20, <2>1, ServerAnswers
    <3> QED
      BY <2>1, <3>1 DEF Begins
  <2>2. CASE response # NoResponse
    <3>1. /\ mode' = "done" /\ exception' = NoException
          /\ UNCHANGED <<request, layer, received, response, starts, logged, key, served,
                         met, bugs>>
      BY <1>20, <2>2, AfterTheStart
    <3> QED
      BY <2>2, <3>1
  <2> QED
    BY <2>1, <2>2
<1>21. CASE Over
  BY <1>21 DEF Over
<1>22. CASE UNCHANGED vars
  BY <1>22 DEF vars
<1>23. CASE OriginRefused
  BY <1>23 DEF OriginRefused, AtRoute, RaiseInRoute, Raise
<1> QED
  BY <1>1, <1>2, <1>3, <1>4, <1>5, <1>6, <1>7, <1>8, <1>9, <1>10, <1>11, <1>12,
     <1>13, <1>14, <1>15, <1>16, <1>17, <1>18, <1>19, <1>20, <1>21, <1>22, <1>23
     DEF Next, Inwards, Route, Unwinding

\* Where an exception can be.
LEMMA EscapingKept ==
    ASSUME IndInv, [Next]_vars
    PROVE  Escaping'
<1> USE PipelineAssumption, AllLayers DEF IndInv, TypeOK, Control, Answering, Escaping, Handled
<1>1. CASE \E q \in RequestsSent : Arrive(q)
  BY <1>1 DEF Arrive
<1>2. CASE Enter
  BY <1>2, Neighbours DEF Enter, Continue
<1>3. CASE RefuseHost
  BY <1>3, Beginnings DEF RefuseHost, HostRefused, Entering, Answer, Begins
<1>4. CASE AnswerPreflight
  BY <1>4, Beginnings DEF AnswerPreflight, Preflight, Entering, Begins
<1>5. CASE RefuseLength
  BY <1>5, Beginnings DEF RefuseLength, TooLong, Entering, Answer, Begins
<1>6. CASE MiddlewareRaises
  BY <1>6, Neighbours DEF MiddlewareRaises, Raise
<1>7. CASE NoRoute
  BY <1>7 DEF NoRoute, AtRoute, RaiseInRoute, Raise
<1>8. CASE ReadBody
  BY <1>8 DEF ReadBody, AtRoute, Continue
<1>9. CASE \E bytes \in 0..MaxSize : ReceiveWithinLimit(bytes)
  BY <1>9 DEF ReceiveWithinLimit, AtRoute, RaiseInRoute, Raise, Continue
<1>10. CASE BodyRefused
  BY <1>10 DEF BodyRefused, AtRoute, RaiseInRoute, Raise
<1>11. CASE \E keyAnswer \in KeyAnswers : Dependencies(keyAnswer)
  BY <1>11, Depending
<1>12. CASE EndpointRaises
  BY <1>12, RaisedInEndpoint
<1>13. CASE EndpointAnswers
  BY <1>13, AnsweredByEndpoint, HeadersCarried DEF Begins
<1>14. CASE ResponseSent
  BY <1>14 DEF ResponseSent, AtRoute, Continue
<1>15. CASE HandlerAnswers
  BY <1>15, Beginnings, StatusOfHandled DEF HandlerAnswers, Answer, Begins
<1>16. CASE HandlerRaises
  BY <1>16, Neighbours DEF HandlerRaises, Outwards
<1>17. CASE UnhandledAnswers
  BY <1>17, Beginnings DEF UnhandledAnswers, Answer, Begins
<1>18. CASE Passes
  BY <1>18, Neighbours DEF Passes, Outwards
<1>19. CASE PassesLogging
  BY <1>19, Neighbours DEF PassesLogging, Outwards
<1>20. CASE LastResort
  BY <1>20, Beginnings DEF LastResort, Answer, Begins
<1>21. CASE Over
  BY <1>21 DEF Over
<1>22. CASE UNCHANGED vars
  BY <1>22 DEF vars
<1>23. CASE OriginRefused
  BY <1>23 DEF OriginRefused, AtRoute, RaiseInRoute, Raise
<1> QED
  BY <1>1, <1>2, <1>3, <1>4, <1>5, <1>6, <1>7, <1>8, <1>9, <1>10, <1>11, <1>12,
     <1>13, <1>14, <1>15, <1>16, <1>17, <1>18, <1>19, <1>20, <1>21, <1>22, <1>23
     DEF Next, Inwards, Route, Unwinding

\* The body bytes.
LEMMA CountingKept ==
    ASSUME IndInv, [Next]_vars
    PROVE  Counting'
<1> USE PipelineAssumption, RequestParts DEF IndInv, TypeOK, Control, Counting, Exceptions
<1>1. CASE \E q \in RequestsSent : Arrive(q)
  BY <1>1 DEF Arrive
<1>2. CASE Enter
  BY <1>2 DEF Enter, Continue
<1>3. CASE RefuseHost
  BY <1>3 DEF RefuseHost, HostRefused, Entering, Answer
<1>4. CASE AnswerPreflight
  BY <1>4 DEF AnswerPreflight, Preflight, Entering
<1>5. CASE RefuseLength
  BY <1>5 DEF RefuseLength, TooLong, Entering, Answer
<1>6. CASE MiddlewareRaises
  BY <1>6 DEF MiddlewareRaises, Raise
<1>7. CASE NoRoute
  BY <1>7 DEF NoRoute, AtRoute, RaiseInRoute, Raise
<1>8. CASE ReadBody
  BY <1>8 DEF ReadBody, AtRoute, Continue
<1>9. CASE \E bytes \in 0..MaxSize : ReceiveWithinLimit(bytes)
  BY <1>9 DEF ReceiveWithinLimit, AtRoute, RaiseInRoute, Raise, Continue
<1>10. CASE BodyRefused
  BY <1>10 DEF BodyRefused, AtRoute, RaiseInRoute, Raise
<1>11. CASE \E keyAnswer \in KeyAnswers : Dependencies(keyAnswer)
  BY <1>11, Depending
<1>12. CASE EndpointRaises
  BY <1>12, RaisedInEndpoint
<1>13. CASE EndpointAnswers
  BY <1>13, AnsweredByEndpoint, HeadersCarried DEF Begins
<1>14. CASE ResponseSent
  BY <1>14 DEF ResponseSent, AtRoute, Continue
<1>15. CASE HandlerAnswers
  BY <1>15 DEF HandlerAnswers, Answer
<1>16. CASE HandlerRaises
  BY <1>16 DEF HandlerRaises, Outwards
<1>17. CASE UnhandledAnswers
  BY <1>17 DEF UnhandledAnswers, Answer
<1>18. CASE Passes
  BY <1>18 DEF Passes, Outwards
<1>19. CASE PassesLogging
  BY <1>19 DEF PassesLogging, Outwards
<1>20. CASE LastResort
  BY <1>20 DEF LastResort, Answer
<1>21. CASE Over
  BY <1>21 DEF Over
<1>22. CASE UNCHANGED vars
  BY <1>22 DEF vars
<1>23. CASE OriginRefused
  BY <1>23 DEF OriginRefused, AtRoute, RaiseInRoute, Raise
<1> QED
  BY <1>1, <1>2, <1>3, <1>4, <1>5, <1>6, <1>7, <1>8, <1>9, <1>10, <1>11, <1>12,
     <1>13, <1>14, <1>15, <1>16, <1>17, <1>18, <1>19, <1>20, <1>21, <1>22, <1>23
     DEF Next, Inwards, Route, Unwinding

\* A refusal on its way keeps its cause.
LEMMA CausesKept ==
    ASSUME IndInv, [Next]_vars
    PROVE  Causes'
<1> USE PipelineAssumption
    DEF IndInv, TypeOK, Control, Answering, Causes, Exceptions, LoginNeeded, NotAllowed,
        OurFault, ProviderFails, TryLater, KeycloakFailed
<1>1. CASE \E q \in RequestsSent : Arrive(q)
  BY <1>1 DEF Arrive
<1>2. CASE Enter
  BY <1>2 DEF Enter, Continue
<1>3. CASE RefuseHost
  BY <1>3 DEF RefuseHost, HostRefused, Entering, Answer
<1>4. CASE AnswerPreflight
  BY <1>4 DEF AnswerPreflight, Preflight, Entering
<1>5. CASE RefuseLength
  BY <1>5 DEF RefuseLength, TooLong, Entering, Answer
<1>6. CASE MiddlewareRaises
  BY <1>6 DEF MiddlewareRaises, Raise
<1>7. CASE NoRoute
  BY <1>7 DEF NoRoute, AtRoute, RaiseInRoute, Raise
<1>8. CASE ReadBody
  BY <1>8 DEF ReadBody, AtRoute, Continue
<1>9. CASE \E bytes \in 0..MaxSize : ReceiveWithinLimit(bytes)
  BY <1>9 DEF ReceiveWithinLimit, AtRoute, RaiseInRoute, Raise, Continue
<1>10. CASE BodyRefused
  BY <1>10 DEF BodyRefused, AtRoute, RaiseInRoute, Raise
<1>11. CASE \E keyAnswer \in KeyAnswers : Dependencies(keyAnswer)
  BY <1>11, Depending
<1>12. CASE EndpointRaises
  BY <1>12, RaisedInEndpoint
<1>13. CASE EndpointAnswers
  BY <1>13, AnsweredByEndpoint, HeadersCarried DEF Begins
<1>14. CASE ResponseSent
  BY <1>14 DEF ResponseSent, AtRoute, Continue
<1>15. CASE HandlerAnswers
  BY <1>15 DEF HandlerAnswers, Answer
<1>16. CASE HandlerRaises
  BY <1>16 DEF HandlerRaises, Outwards
<1>17. CASE UnhandledAnswers
  BY <1>17 DEF UnhandledAnswers, Answer
<1>18. CASE Passes
  BY <1>18 DEF Passes, Outwards
<1>19. CASE PassesLogging
  BY <1>19 DEF PassesLogging, Outwards
<1>20. CASE LastResort
  <2>1. mode' = "done" /\ exception' = NoException
    BY <1>20, ServerAnswers, AfterTheStart
  <2> QED
    BY <2>1
<1>21. CASE Over
  BY <1>21 DEF Over
<1>22. CASE UNCHANGED vars
  BY <1>22 DEF vars
<1>23. CASE OriginRefused
  BY <1>23 DEF OriginRefused, AtRoute, RaiseInRoute, Raise
<1> QED
  BY <1>1, <1>2, <1>3, <1>4, <1>5, <1>6, <1>7, <1>8, <1>9, <1>10, <1>11, <1>12,
     <1>13, <1>14, <1>15, <1>16, <1>17, <1>18, <1>19, <1>20, <1>21, <1>22, <1>23
     DEF Next, Inwards, Route, Unwinding

\* Every error has the headers, or one of the excuses.
LEMMA ErrorsKept ==
    ASSUME IndInv, [Next]_vars
    PROVE  ErrorsAreUniform'
<1> USE PipelineAssumption DEF IndInv, TypeOK, Control, Answering, Escaping, ErrorsAreUniform
<1>1. CASE \E q \in RequestsSent : Arrive(q)
  BY <1>1 DEF Arrive
<1>2. CASE Enter
  BY <1>2 DEF Enter, Continue
<1>3. CASE RefuseHost
  BY <1>3, Beginnings, HeadersCarried DEF RefuseHost, HostRefused, Entering, Answer, Begins
<1>4. CASE AnswerPreflight
  BY <1>4, Beginnings, HeadersCarried, RequestParts
     DEF AnswerPreflight, Preflight, Entering, Begins
<1>5. CASE RefuseLength
  <2>1. /\ mode = "in" /\ mode' = "done" /\ exception' = NoException
        /\ request.length # NoLength /\ request.length > MaxBodySize
        /\ UNCHANGED <<request, layer, received, key, served, met, bugs>>
        /\ Begins("body_limit", 413, TRUE)
    BY <1>5, TooLongAnswered
  <2> QED
    BY <2>1, HeadersCarried DEF Begins
<1>6. CASE MiddlewareRaises
  BY <1>6 DEF MiddlewareRaises, Raise
<1>7. CASE NoRoute
  BY <1>7 DEF NoRoute, AtRoute, RaiseInRoute, Raise
<1>8. CASE ReadBody
  BY <1>8 DEF ReadBody, AtRoute, Continue
<1>9. CASE \E bytes \in 0..MaxSize : ReceiveWithinLimit(bytes)
  BY <1>9 DEF ReceiveWithinLimit, AtRoute, RaiseInRoute, Raise, Continue
<1>10. CASE BodyRefused
  BY <1>10 DEF BodyRefused, AtRoute, RaiseInRoute, Raise
<1>11. CASE \E keyAnswer \in KeyAnswers : Dependencies(keyAnswer)
  BY <1>11, Depending
<1>12. CASE EndpointRaises
  BY <1>12, RaisedInEndpoint
<1>13. CASE EndpointAnswers
  BY <1>13, AnsweredByEndpoint, HeadersCarried DEF Begins
<1>14. CASE ResponseSent
  BY <1>14 DEF ResponseSent, AtRoute, Continue
<1>15. CASE HandlerAnswers
  <2>1. /\ mode = "raising" /\ layer = "handlers" /\ exception \in Handled
        /\ mode' = "done" /\ exception' = NoException
        /\ UNCHANGED <<request, layer, received, key, served, met, bugs>>
        /\ Begins("handlers", HandledStatus(exception), TRUE)
    BY <1>15, Beginnings DEF HandlerAnswers, Answer
  <2> QED
    BY <2>1, StatusOfHandled, HeadersCarried DEF Begins
<1>16. CASE HandlerRaises
  BY <1>16 DEF HandlerRaises, Outwards
<1>17. CASE UnhandledAnswers
  BY <1>17, Beginnings, HeadersCarried DEF UnhandledAnswers, Answer, Begins
<1>18. CASE Passes
  BY <1>18 DEF Passes, Outwards
<1>19. CASE PassesLogging
  BY <1>19 DEF PassesLogging, Outwards
<1>20. CASE LastResort
  <2>1. CASE response = NoResponse
    <3>1. /\ mode = "raising" /\ layer = "server_error"
          /\ mode' = "done" /\ exception' = NoException
          /\ UNCHANGED <<request, layer, received, key, served, met, bugs>>
          /\ Begins("server_error", 500, TRUE)
      BY <1>20, <2>1, ServerAnswers
    <3> QED
      BY <2>1, <3>1 DEF Begins
  <2>2. CASE response # NoResponse
    <3>1. /\ mode' = "done" /\ exception' = NoException
          /\ UNCHANGED <<request, layer, received, response, starts, logged, key, served,
                         met, bugs>>
      BY <1>20, <2>2, AfterTheStart
    <3> QED
      BY <2>2, <3>1
  <2> QED
    BY <2>1, <2>2
<1>21. CASE Over
  BY <1>21 DEF Over
<1>22. CASE UNCHANGED vars
  BY <1>22 DEF vars
<1>23. CASE OriginRefused
  BY <1>23 DEF OriginRefused, AtRoute, RaiseInRoute, Raise
<1> QED
  BY <1>1, <1>2, <1>3, <1>4, <1>5, <1>6, <1>7, <1>8, <1>9, <1>10, <1>11, <1>12,
     <1>13, <1>14, <1>15, <1>16, <1>17, <1>18, <1>19, <1>20, <1>21, <1>22, <1>23
     DEF Next, Inwards, Route, Unwinding

\* The limit is exact.
LEMMA LimitKept ==
    ASSUME IndInv, [Next]_vars
    PROVE  LimitHolds'
<1> USE PipelineAssumption DEF IndInv, TypeOK, Control, Answering, Counting, LimitHolds, Started
<1>1. CASE \E q \in RequestsSent : Arrive(q)
  BY <1>1 DEF Arrive
<1>2. CASE Enter
  BY <1>2 DEF Enter, Continue
<1>3. CASE RefuseHost
  BY <1>3, Beginnings DEF RefuseHost, HostRefused, Entering, Answer, Begins
<1>4. CASE AnswerPreflight
  BY <1>4, Beginnings DEF AnswerPreflight, Preflight, Entering, Begins
<1>5. CASE RefuseLength
  <2>1. /\ mode = "in" /\ mode' = "done" /\ exception' = NoException
        /\ request.length # NoLength /\ request.length > MaxBodySize
        /\ UNCHANGED <<request, layer, received, key, served, met, bugs>>
        /\ Begins("body_limit", 413, TRUE)
    BY <1>5, TooLongAnswered
  <2> QED
    BY <2>1, RequestParts DEF Begins
<1>6. CASE MiddlewareRaises
  BY <1>6 DEF MiddlewareRaises, Raise
<1>7. CASE NoRoute
  BY <1>7 DEF NoRoute, AtRoute, RaiseInRoute, Raise
<1>8. CASE ReadBody
  BY <1>8 DEF ReadBody, AtRoute, Continue
<1>9. CASE \E bytes \in 0..MaxSize : ReceiveWithinLimit(bytes)
  BY <1>9 DEF ReceiveWithinLimit, AtRoute, RaiseInRoute, Raise, Continue
<1>10. CASE BodyRefused
  BY <1>10 DEF BodyRefused, AtRoute, RaiseInRoute, Raise
<1>11. CASE \E keyAnswer \in KeyAnswers : Dependencies(keyAnswer)
  BY <1>11, Depending
<1>12. CASE EndpointRaises
  BY <1>12, RaisedInEndpoint
<1>13. CASE EndpointAnswers
  BY <1>13, AnsweredByEndpoint, HeadersCarried DEF Begins
<1>14. CASE ResponseSent
  BY <1>14 DEF ResponseSent, AtRoute, Continue
<1>15. CASE HandlerAnswers
  <2>1. /\ mode = "raising" /\ layer = "handlers" /\ exception \in Handled
        /\ mode' = "done" /\ exception' = NoException
        /\ UNCHANGED <<request, layer, received, key, served, met, bugs>>
        /\ Begins("handlers", HandledStatus(exception), TRUE)
    BY <1>15, Beginnings DEF HandlerAnswers, Answer
  <2> QED
    BY <2>1, StatusOfHandled, HeadersCarried DEF Begins
<1>16. CASE HandlerRaises
  BY <1>16 DEF HandlerRaises, Outwards
<1>17. CASE UnhandledAnswers
  BY <1>17, Beginnings DEF UnhandledAnswers, Answer, Begins
<1>18. CASE Passes
  BY <1>18 DEF Passes, Outwards
<1>19. CASE PassesLogging
  BY <1>19 DEF PassesLogging, Outwards
<1>20. CASE LastResort
  <2>1. CASE response = NoResponse
    <3>1. /\ mode = "raising" /\ layer = "server_error"
          /\ mode' = "done" /\ exception' = NoException
          /\ UNCHANGED <<request, layer, received, key, served, met, bugs>>
          /\ Begins("server_error", 500, TRUE)
      BY <1>20, <2>1, ServerAnswers
    <3> QED
      BY <2>1, <3>1 DEF Begins
  <2>2. CASE response # NoResponse
    <3>1. /\ mode' = "done" /\ exception' = NoException
          /\ UNCHANGED <<request, layer, received, response, starts, logged, key, served,
                         met, bugs>>
      BY <1>20, <2>2, AfterTheStart
    <3> QED
      BY <2>2, <3>1
  <2> QED
    BY <2>1, <2>2
<1>21. CASE Over
  BY <1>21 DEF Over
<1>22. CASE UNCHANGED vars
  BY <1>22 DEF vars
<1>23. CASE OriginRefused
  BY <1>23 DEF OriginRefused, AtRoute, RaiseInRoute, Raise
<1> QED
  BY <1>1, <1>2, <1>3, <1>4, <1>5, <1>6, <1>7, <1>8, <1>9, <1>10, <1>11, <1>12,
     <1>13, <1>14, <1>15, <1>16, <1>17, <1>18, <1>19, <1>20, <1>21, <1>22, <1>23
     DEF Next, Inwards, Route, Unwinding

\* A user is served for a good token.
LEMMA TokensKept ==
    ASSUME IndInv, [Next]_vars
    PROVE  OnlyGoodTokens'
<1> USE DEF IndInv, TypeOK, Control, Causes, OnlyGoodTokens
<1>1. CASE \E q \in RequestsSent : Arrive(q)
  BY <1>1 DEF Arrive
<1>2. CASE Enter
  BY <1>2 DEF Enter, Continue
<1>3. CASE RefuseHost
  BY <1>3 DEF RefuseHost, HostRefused, Entering, Answer, Begins
<1>4. CASE AnswerPreflight
  BY <1>4 DEF AnswerPreflight, Preflight, Entering, Begins
<1>5. CASE RefuseLength
  BY <1>5 DEF RefuseLength, TooLong, Entering, Answer, Begins
<1>6. CASE MiddlewareRaises
  BY <1>6 DEF MiddlewareRaises, Raise
<1>7. CASE NoRoute
  BY <1>7 DEF NoRoute, AtRoute, RaiseInRoute, Raise
<1>8. CASE ReadBody
  BY <1>8 DEF ReadBody, AtRoute, Continue
<1>9. CASE \E bytes \in 0..MaxSize : ReceiveWithinLimit(bytes)
  BY <1>9 DEF ReceiveWithinLimit, AtRoute, RaiseInRoute, Raise, Continue
<1>10. CASE BodyRefused
  BY <1>10 DEF BodyRefused, AtRoute, RaiseInRoute, Raise
<1>11. CASE \E keyAnswer \in KeyAnswers : Dependencies(keyAnswer)
  BY <1>11, Depending
<1>12. CASE EndpointRaises
  BY <1>12, RaisedInEndpoint
<1>13. CASE EndpointAnswers
  BY <1>13, AnsweredByEndpoint, HeadersCarried DEF Begins
<1>14. CASE ResponseSent
  BY <1>14 DEF ResponseSent, AtRoute, Continue
<1>15. CASE HandlerAnswers
  BY <1>15 DEF HandlerAnswers, Answer, Begins
<1>16. CASE HandlerRaises
  BY <1>16 DEF HandlerRaises, Outwards
<1>17. CASE UnhandledAnswers
  BY <1>17 DEF UnhandledAnswers, Answer, Begins
<1>18. CASE Passes
  BY <1>18 DEF Passes, Outwards
<1>19. CASE PassesLogging
  BY <1>19 DEF PassesLogging, Outwards
<1>20. CASE LastResort
  BY <1>20 DEF LastResort, Answer, Begins
<1>21. CASE Over
  BY <1>21 DEF Over
<1>22. CASE UNCHANGED vars
  BY <1>22 DEF vars
<1>23. CASE OriginRefused
  BY <1>23 DEF OriginRefused, AtRoute, RaiseInRoute, Raise
<1> QED
  BY <1>1, <1>2, <1>3, <1>4, <1>5, <1>6, <1>7, <1>8, <1>9, <1>10, <1>11, <1>12,
     <1>13, <1>14, <1>15, <1>16, <1>17, <1>18, <1>19, <1>20, <1>21, <1>22, <1>23
     DEF Next, Inwards, Route, Unwinding

\* A refusal that is answered has its cause.
LEMMA CausesShown ==
    ASSUME IndInv, [Next]_vars
    PROVE  RefusalsHaveTheirCause'
<1> USE PipelineAssumption
    DEF IndInv, TypeOK, Control, Answering, Causes, RefusalsHaveTheirCause, Started, Ranked,
        LoginNeeded, NotAllowed, OurFault, ProviderFails, TryLater, KeycloakFailed
<1>0. mode = "raising" /\ response = NoResponse
        /\ layer \notin {"route", "handlers"} => OurFault
  BY DEF Escaping, Handled, Exceptions
<1>1. CASE \E q \in RequestsSent : Arrive(q)
  BY <1>1 DEF Arrive
<1>2. CASE Enter
  BY <1>2 DEF Enter, Continue
<1>3. CASE RefuseHost
  BY <1>3, Beginnings DEF RefuseHost, HostRefused, Entering, Answer, Begins
<1>4. CASE AnswerPreflight
  BY <1>4, Beginnings DEF AnswerPreflight, Preflight, Entering, Begins
<1>5. CASE RefuseLength
  <2>1. /\ mode = "in" /\ mode' = "done" /\ exception' = NoException
        /\ request.length # NoLength /\ request.length > MaxBodySize
        /\ UNCHANGED <<request, layer, received, key, served, met, bugs>>
        /\ Begins("body_limit", 413, TRUE)
    BY <1>5, TooLongAnswered
  <2> QED
    BY <2>1 DEF Begins
<1>6. CASE MiddlewareRaises
  BY <1>6 DEF MiddlewareRaises, Raise
<1>7. CASE NoRoute
  BY <1>7 DEF NoRoute, AtRoute, RaiseInRoute, Raise
<1>8. CASE ReadBody
  BY <1>8 DEF ReadBody, AtRoute, Continue
<1>9. CASE \E bytes \in 0..MaxSize : ReceiveWithinLimit(bytes)
  BY <1>9 DEF ReceiveWithinLimit, AtRoute, RaiseInRoute, Raise, Continue
<1>10. CASE BodyRefused
  BY <1>10 DEF BodyRefused, AtRoute, RaiseInRoute, Raise
<1>11. CASE \E keyAnswer \in KeyAnswers : Dependencies(keyAnswer)
  BY <1>11, Depending
<1>12. CASE EndpointRaises
  BY <1>12, RaisedInEndpoint
<1>13. CASE EndpointAnswers
  BY <1>13, AnsweredByEndpoint, HeadersCarried DEF Begins
<1>14. CASE ResponseSent
  BY <1>14 DEF ResponseSent, AtRoute, Continue
<1>15. CASE HandlerAnswers
  <2>1. /\ mode = "raising" /\ layer = "handlers" /\ exception \in Handled
        /\ mode' = "done" /\ exception' = NoException
        /\ UNCHANGED <<request, layer, received, key, served, met, bugs>>
        /\ Begins("handlers", HandledStatus(exception), TRUE)
    BY <1>15, Beginnings DEF HandlerAnswers, Answer
  <2> QED
    BY <2>1, StatusOfHandled, HeadersCarried DEF Begins
<1>16. CASE HandlerRaises
  BY <1>16 DEF HandlerRaises, Outwards
<1>17. CASE UnhandledAnswers
  <2>1. /\ mode = "raising" /\ layer = "unhandled" /\ response = NoResponse
        /\ UNCHANGED <<request, layer, received, key, served, met, bugs>>
        /\ Begins("unhandled", 500, TRUE)
    BY <1>17, Beginnings DEF UnhandledAnswers, Answer
  <2> QED
    BY <1>0, <2>1 DEF Begins
<1>18. CASE Passes
  BY <1>18 DEF Passes, Outwards
<1>19. CASE PassesLogging
  BY <1>19 DEF PassesLogging, Outwards
<1>20. CASE LastResort
  <2>1. CASE response = NoResponse
    <3>1. /\ mode = "raising" /\ layer = "server_error"
          /\ mode' = "done" /\ exception' = NoException
          /\ UNCHANGED <<request, layer, received, key, served, met, bugs>>
          /\ Begins("server_error", 500, TRUE)
      BY <1>20, <2>1, ServerAnswers
    <3> QED
      BY <1>0, <2>1, <3>1 DEF Begins
  <2>2. CASE response # NoResponse
    <3>1. /\ mode' = "done" /\ exception' = NoException
          /\ UNCHANGED <<request, layer, received, response, starts, logged, key, served,
                         met, bugs>>
      BY <1>20, <2>2, AfterTheStart
    <3> QED
      BY <2>2, <3>1
  <2> QED
    BY <2>1, <2>2
<1>21. CASE Over
  BY <1>21 DEF Over
<1>22. CASE UNCHANGED vars
  BY <1>22 DEF vars
<1>23. CASE OriginRefused
  BY <1>23 DEF OriginRefused, AtRoute, RaiseInRoute, Raise
<1> QED
  BY <1>1, <1>2, <1>3, <1>4, <1>5, <1>6, <1>7, <1>8, <1>9, <1>10, <1>11, <1>12,
     <1>13, <1>14, <1>15, <1>16, <1>17, <1>18, <1>19, <1>20, <1>21, <1>22, <1>23
     DEF Next, Inwards, Route, Unwinding

\* The types after an answer from outside the handlers.
LEMMA TypesOfAnswers ==
    ASSUME TypeOK, Answering, RefuseLength \/ LastResort
    PROVE  TypeOK'
<1>1. CASE RefuseLength
  <2>1. /\ mode' = "done" /\ exception' = NoException
        /\ UNCHANGED <<request, layer, received, key, served, met, bugs>>
        /\ Begins("body_limit", 413, TRUE)
    BY <1>1, TooLongAnswered
  <2> QED
    BY <2>1 DEF Begins, TypeOK, Answering, Modes, Statuses
<1>2. CASE LastResort /\ response = NoResponse
  <2>1. /\ mode' = "done" /\ exception' = NoException
        /\ UNCHANGED <<request, layer, received, key, served, met, bugs>>
        /\ Begins("server_error", 500, TRUE)
    BY <1>2, ServerAnswers
  <2> QED
    BY <2>1 DEF Begins, TypeOK, Answering, Modes
<1>3. CASE LastResort /\ response # NoResponse
  <2>1. /\ mode' = "done" /\ exception' = NoException
        /\ UNCHANGED <<request, layer, received, response, starts, logged, key, served,
                       met, bugs>>
    BY <1>3, AfterTheStart
  <2> QED
    BY <2>1 DEF TypeOK, Modes
<1> QED
  BY <1>1, <1>2, <1>3

\* The type invariant.
LEMMA TypesKept ==
    ASSUME IndInv, [Next]_vars
    PROVE  TypeOK'
<1> USE PipelineAssumption, AllLayers
    DEF IndInv, TypeOK, Control, Answering, Modes, Statuses, Exceptions, KeyAnswers
<1>1. CASE \E q \in RequestsSent : Arrive(q)
  BY <1>1 DEF Arrive
<1>2. CASE Enter
  BY <1>2, Neighbours DEF Enter, Continue
<1>3. CASE RefuseHost
  BY <1>3, Beginnings DEF RefuseHost, HostRefused, Entering, Answer, Begins
<1>4. CASE AnswerPreflight
  BY <1>4, Beginnings DEF AnswerPreflight, Preflight, Entering, Begins
<1>5. CASE RefuseLength
  BY <1>5, TypesOfAnswers
<1>6. CASE MiddlewareRaises
  BY <1>6, Neighbours DEF MiddlewareRaises, Raise
<1>7. CASE NoRoute
  BY <1>7 DEF NoRoute, AtRoute, RaiseInRoute, Raise
<1>8. CASE ReadBody
  BY <1>8 DEF ReadBody, AtRoute, Continue
<1>9. CASE \E bytes \in 0..MaxSize : ReceiveWithinLimit(bytes)
  <2>1. PICK bytes \in 0..MaxSize : ReceiveWithinLimit(bytes)
    BY <1>9
  <2>2. received + bytes \in 0..MaxSize
    BY <2>1, RequestParts DEF ReceiveWithinLimit, AtRoute
  <2>3. UNCHANGED <<request, layer, key, served, met, response, starts, logged, bugs>>
    BY <2>1 DEF ReceiveWithinLimit, RaiseInRoute, Raise, Continue
  <2>4. /\ received' \in 0..MaxSize /\ mode' \in Modes
        /\ exception' \in Exceptions \cup {NoException}
    BY <2>1, <2>2 DEF ReceiveWithinLimit, RaiseInRoute, Raise, Continue
  <2> QED
    BY <2>3, <2>4
<1>10. CASE BodyRefused
  BY <1>10 DEF BodyRefused, AtRoute, RaiseInRoute, Raise
<1>11. CASE \E keyAnswer \in KeyAnswers : Dependencies(keyAnswer)
  <2>1. PICK keyAnswer \in KeyAnswers : Dependencies(keyAnswer)
    BY <1>11
  <2>2. /\ key' \in KeyAnswers \cup {"none"}
        /\ UNCHANGED <<request, layer, received, response, starts, logged, met, bugs>>
        /\ mode' \in Modes /\ served' \in {"none", "nobody", "user"}
        /\ exception' \in Exceptions \cup {NoException}
    BY <2>1, Depending
  <2> QED
    BY <2>2
<1>12. CASE EndpointRaises
  <2>1. bugs' \subseteq {"middleware", "handler", "endpoint"}
    BY <1>12, RaisedInEndpoint
  <2>2. met' = met \/ met' \in Obstacles[request.endpoint]
    BY <1>12, RaisedInEndpoint
  <2>3. met' \in {"none", "other_origin"} \cup UNION {Obstacles[e] : e \in Endpoints}
    BY <2>2, <1>12, RaisedInEndpoint, RequestParts
  <2> QED
    BY <2>1, <2>3, <1>12, RaisedInEndpoint
<1>13. CASE EndpointAnswers
  <2>1. /\ mode = "endpoint" /\ mode' = "sending"
        /\ UNCHANGED <<request, layer, received, exception, key, served, bugs>>
        /\ met' \in {"none"} \cup Obstacles[request.endpoint]
        /\ response' \in Responses /\ starts' = starts + 1
        /\ logged' \in {200, 503}
    BY <1>13, AnsweredByEndpoint DEF Begins
  <2>2. request.endpoint \in Endpoints
    BY <2>1, RequestParts
  <2>3. met' \in {"none", "other_origin"} \cup UNION {Obstacles[e] : e \in Endpoints}
    BY <2>1, <2>2
  <2>4. starts = 0
    BY <2>1
  <2> QED
    BY <2>1, <2>3, <2>4
<1>14. CASE ResponseSent
  BY <1>14 DEF ResponseSent, AtRoute, Continue
<1>15. CASE HandlerAnswers
  BY <1>15, Beginnings, StatusOfHandled DEF HandlerAnswers, Answer, Begins
<1>16. CASE HandlerRaises
  BY <1>16, Neighbours DEF HandlerRaises, Outwards
<1>17. CASE UnhandledAnswers
  BY <1>17, Beginnings DEF UnhandledAnswers, Answer, Begins
<1>18. CASE Passes
  BY <1>18, Neighbours DEF Passes, Outwards
<1>19. CASE PassesLogging
  BY <1>19, Neighbours DEF PassesLogging, Outwards
<1>20. CASE LastResort
  BY <1>20, TypesOfAnswers
<1>21. CASE Over
  BY <1>21 DEF Over
<1>22. CASE UNCHANGED vars
  BY <1>22 DEF vars
<1>23. CASE OriginRefused
  BY <1>23 DEF OriginRefused, AtRoute, RaiseInRoute, Raise
<1> QED
  BY <1>1, <1>2, <1>3, <1>4, <1>5, <1>6, <1>7, <1>8, <1>9, <1>10, <1>11, <1>12,
     <1>13, <1>14, <1>15, <1>16, <1>17, <1>18, <1>19, <1>20, <1>21, <1>22, <1>23
     DEF Next, Inwards, Route, Unwinding

----------------------------------------------------------------------------
(* The theorems.                                                           *)

\* The invariant holds before the first request.
THEOREM IndInvInit == Init => IndInv
<1> SUFFICES ASSUME Init PROVE IndInv
  OBVIOUS
<1>1. TypeOK /\ Control /\ Answering /\ Escaping /\ Counting /\ Causes
  BY AllLayers, PipelineAssumption
     DEF Init, TypeOK, Control, Answering, Escaping, Counting, Causes, Modes, Exceptions
<1>2. ErrorsAreUniform /\ LimitHolds /\ OnlyGoodTokens /\ RefusalsHaveTheirCause
  BY DEF Init, ErrorsAreUniform, LimitHolds, OnlyGoodTokens, RefusalsHaveTheirCause, Started
<1> QED
  BY <1>1, <1>2 DEF IndInv

\* Every layer keeps it, on the way in, on the way out and when it raises.
THEOREM IndInvStep == IndInv /\ [Next]_vars => IndInv'
<1> SUFFICES ASSUME IndInv, [Next]_vars PROVE IndInv'
  OBVIOUS
<1> QED
  BY TypesKept, ControlKept, AnsweringKept, EscapingKept, CountingKept, CausesKept,
     ErrorsKept, LimitKept, TokensKept, CausesShown DEF IndInv

\* It holds for every request, whatever it carries.
THEOREM Inductive == Spec => []IndInv
BY IndInvInit, IndInvStep, PTL DEF Spec

\* Every variable keeps its type, for any limit, body, and number of flaws.
THEOREM TypeCorrect == Spec => []TypeOK
BY Inductive, PTL DEF IndInv

\* One response for each request, and its status in the access log: no layer
\* answers once another has (UnhandledExceptionMiddleware, error_middleware.py).
THEOREM AnsweredOnce == Spec => []OneAnswer
<1>1. IndInv => OneAnswer
  BY DEF IndInv, TypeOK, Answering, OneAnswer
<1> QED
  BY <1>1, Inductive, PTL

\* Every error is a problem document with all the headers, but for the four
\* cases named there (register_middleware(), bootstrap.py).
THEOREM ErrorsUniform == Spec => []ErrorsAreUniform
BY Inductive, PTL DEF IndInv

\* The body limit is exact for every limit, body and way to cut it into chunks
\* (BodySizeLimitMiddleware, body_limit.py).
THEOREM LimitIsExact == Spec => []LimitHolds
BY Inductive, PTL DEF IndInv

\* No endpoint is told of a user for a token with any flaw, however many it has
\* (JWKSTokenDecoder.decode(), jwks.py).
THEOREM TokensAreGood == Spec => []OnlyGoodTokens
BY Inductive, PTL DEF IndInv

\* A 401, 403, 500, 502 and 503 have their own causes, whatever is wrong with the
\* token, the database or Keycloak (_verify(), jwks.py; require_roles(),
\* dependencies.py; _token_request(), client.py; connect_or_unavailable()).
THEOREM CausesAreTrue == Spec => []RefusalsHaveTheirCause
BY Inductive, PTL DEF IndInv
=============================================================================
