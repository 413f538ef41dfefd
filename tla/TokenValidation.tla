-------------------------- MODULE TokenValidation --------------------------
(***************************************************************************)
(* From an access token to a user, or to the exception that refuses it:     *)
(* JWKSTokenDecoder (adapters/keycloak/jwks.py), KeycloakClaimExtractor     *)
(* (extractors.py), AuthService, and the dependencies of core/auth.  No     *)
(* state: after the key cache has answered (JWKSManager) nothing is awaited. *)
(***************************************************************************)
EXTENDS Integers, Sequences, FiniteSets

CONSTANTS
    NoToken,  \* a request without credentials
    MaxFlaws  \* bound: what is wrong with one token

\* Everything that is looked at, in this order: get_signing_key_from_token(),
\* the key cache (its answer, if it is not a key), jwt.decode(), decode(), and
\* extract_user().
Checks == <<"not_a_jwt", "no_kid",
            "unknown", "unavailable", "error",
            "bad_signature", "claim_missing", "expired",
            "other_issuer", "other_audience",
            "other_type", "other_client",
            "odd_payload", "odd_roles", "odd_user">>

\* What get_key() returns or raises: JWKSManager's answers.
KeyAnswers == {"key", "unknown", "unavailable", "error"}

Flaws == {Checks[i] : i \in DOMAIN Checks} \ KeyAnswers

\* RoleEnum
Roles == {"superadmin", "admin", "collaborator", "user"}

\* A token has flaws, or else roles: at most one here.
Tokens ==
    [flaws: {f \in SUBSET Flaws : Cardinality(f) \in 1..MaxFlaws}, roles: {{}}]
        \cup [flaws: {{}}, roles: {{}} \cup {{role} : role \in Roles}]

\* The key cache is asked for the kid in the header of a JWT.
LooksUpKey(token) == token # NoToken /\ {"not_a_jwt", "no_kid"} \cap token.flaws = {}

\* What the checks find, given the answer of the key cache.
Faults(token, key) == token.flaws \cup ({key} \ {"key"})

FirstFault(faults) ==
    Checks[CHOOSE i \in DOMAIN Checks :
              /\ Checks[i] \in faults
              /\ \A j \in DOMAIN Checks : j < i => Checks[j] \notin faults]

Raises(check) ==
    CASE check \in {"not_a_jwt", "no_kid", "unknown"} -> "ValueError"
      [] check = "unavailable"                        -> "ServiceUnavailableError"
      [] check = "error"                              -> "AttributeError"
      [] check = "expired"                            -> "ExpiredSignatureError"
      [] check \in {"bad_signature", "claim_missing",
                    "other_issuer", "other_audience"} -> "InvalidTokenError"
      [] check \in {"other_type", "other_client"}     -> "UnauthorizedError"
      [] check \in {"odd_payload", "odd_user"}        -> "ValidationError"
      [] check = "odd_roles"                          -> "TypeError"

\* Mutant: without the clause that lets AppExceptionError through.
MutTranslated(exception, extracting) ==
    IF extracting /\ exception # "ValidationError" THEN exception
                                                   ELSE "UnauthorizedError"

\* Mutant: exceptions of PyJWT leave as they are.
MutLeaked(exception, extracting) == exception

\* The except clauses of _verify() make every exception a 401 that is not an
\* AppExceptionError; those of extract_user() only pydantic's ValidationError.
Translated(exception, extracting) ==
    IF \/ exception = "ServiceUnavailableError"
       \/ extracting /\ exception # "ValidationError"
    THEN exception ELSE "UnauthorizedError"

Extracting == {"odd_payload", "odd_roles", "odd_user"}

\* Mutant: any token signed with the realm's keys will do.
MutValidateToken(token, key) ==
    LET faults == Faults(token, key) \ {"other_type"}
        fault  == FirstFault(faults)
    IN  IF faults = {} THEN "user"
        ELSE Translated(Raises(fault), fault \in Extracting)

\* validate_token(): a user, or the exception that leaves it.
ValidateToken(token, key) ==
    LET faults == Faults(token, key)
        fault  == FirstFault(faults)
    IN  IF faults = {} THEN "user"
        ELSE Translated(Raises(fault), fault \in Extracting)

----------------------------------------------------------------------------
(* The dependencies that routes use.                                       *)

Guards == {"open", "OptionalUser", "CurrentUser",
           "CollabUser", "AdminUser", "SuperAdminUser"}

\* The aliases of require_roles()
Allowed(guard) ==
    CASE guard = "SuperAdminUser" -> {"superadmin"}
      [] guard = "AdminUser"      -> {"superadmin", "admin"}
      [] guard = "CollabUser"     -> {"superadmin", "admin", "collaborator"}

\* get_current_user()
GetCurrentUser(token, key) ==
    IF token = NoToken THEN "UnauthorizedError" ELSE ValidateToken(token, key)

\* Who the route is told it serves, or the exception that refuses the request.
Authorize(guard, token, key) ==
    LET user == GetCurrentUser(token, key)
    IN  CASE guard = "open"         -> "nobody"
          [] guard = "OptionalUser" -> IF user = "UnauthorizedError" THEN "nobody"
                                                                     ELSE user
          [] guard = "CurrentUser"  -> user
          [] OTHER -> IF user = "user" /\ token.roles \cap Allowed(guard) = {}
                      THEN "ForbiddenError" ELSE user
=============================================================================
