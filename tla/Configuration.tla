--------------------------- MODULE Configuration ---------------------------
(***************************************************************************)
(* The settings of a server process and what Settings() refuses:            *)
(* core/config/*.py, with the Host header of healthcheck.py.                *)
(*                                                                         *)
(* A configuration has one value for each setting that a check looks at.    *)
(* Parsing is pydantic's; a value that a field's own bounds refuse is        *)
(* "invalid".                                                              *)
(***************************************************************************)
EXTENDS Naturals, Sequences, SequencesExt

LocalHosts == {"localhost", "127.0.0.1"}

\* The trusted hosts worth telling apart; "api:8443" is "api" with a port.
Hosts == LocalHosts \cup {"api", "api:8443", "*.api", "*"}

\* The values worth telling apart.  "old" are the names of the cookie settings
\* before 0.8.0; a list keeps its order only where the code depends on it.
Values == [
    environment  |-> {"development", "staging", "production", "invalid"},
    debug        |-> {"true", "false"},
    cookie_name  |-> {"__Host-rt", "rt"},
    secure       |-> {"true", "false"},
    samesite     |-> {"lax", "none"},
    path         |-> {"/", "/auth"},
    old_name     |-> {"unset", "__Host-rt"},
    old_secure   |-> {"unset", "false"},
    old_samesite |-> {"unset", "none"},
    old_path     |-> {"unset", "/auth"},
    password     |-> {"own", "example"},
    pool_size    |-> {"valid", "invalid"},
    echo         |-> {"true", "false"},
    scheme       |-> {"http", "https"},
    public_url   |-> {"", "http", "https", "invalid"},
    client_secret |-> {"own", "example"},
    redirect_uris |-> {{}, {"callback"}},
    max_body_size |-> {"valid", "invalid"},
    cors_origins  |-> {{"frontend"}, {"*"}, {"localhost"}, {"*", "localhost"}},
    trusted_hosts |-> {<<>>, <<"localhost">>, <<"127.0.0.1", "localhost">>,
                       <<"api">>, <<"*.api">>, <<"localhost", "api">>,
                       <<"*">>, <<"localhost", "*">>,
                       <<"api:8443">>, <<"api:8443", "api">>},
    forwarded_allow_ips |-> {{"proxy"}, {"*"}}]

\* A production that starts: its Keycloak is behind a proxy with https.
Good == [
    environment |-> "production", debug |-> "false",
    cookie_name |-> "__Host-rt", secure |-> "true", samesite |-> "lax",
    path |-> "/",
    old_name |-> "unset", old_secure |-> "unset", old_samesite |-> "unset",
    old_path |-> "unset",
    password |-> "own", pool_size |-> "valid", echo |-> "false",
    scheme |-> "http", public_url |-> "https", client_secret |-> "own",
    redirect_uris |-> {"callback"}, max_body_size |-> "valid",
    cors_origins |-> {"frontend"}, trusted_hosts |-> <<"api">>,
    forwarded_allow_ips |-> {"proxy"}]

\* The old names and the settings they are the names of.
Renamed == [old_name |-> "cookie_name", old_secure |-> "secure",
            old_samesite |-> "samesite", old_path |-> "path"]

----------------------------------------------------------------------------
(* What each part of the settings refuses alone, as the settings it names.  *)

Invalid(c, settings) == {s \in settings : c[s] = "invalid"}

\* AuthCookieSettings: each validator raises before the next one runs.
Old(c) == {s \in DOMAIN Renamed : c[s] # "unset"}

HasHostPrefix(c) == c.cookie_name = "__Host-rt"

\* Mutant: the rule on the path is forgotten.
MutFollowTheHostPrefix(c) ==
    IF HasHostPrefix(c) /\ c.secure = "false" THEN {"secure"} ELSE {}

\* Mutant: the two variables are swapped in the messages.
MutSwappedNames(c) ==
    IF ~HasHostPrefix(c) THEN {}
    ELSE IF c.path # "/" THEN {"secure"} ELSE {s \in {"path"} : c.secure = "false"}

FollowTheHostPrefix(c) ==
    IF ~HasHostPrefix(c) THEN {}
    ELSE IF c.path # "/" THEN {"path"} ELSE {s \in {"secure"} : c[s] = "false"}

AuthCookieErrors(c) == IF Old(c) # {} THEN Old(c) ELSE FollowTheHostPrefix(c)

\* The parts in the order of the fields of Settings: the first one that raises
\* ends Settings(), and the parts after it are never built.
PartErrors(c) ==
    << Invalid(c, {"environment"}), AuthCookieErrors(c),
       Invalid(c, {"pool_size"}), Invalid(c, {"public_url"}),
       Invalid(c, {"max_body_size"}) >>

FirstErrors(parts) ==
    LET raising == {i \in DOMAIN parts : parts[i] # {}}
    IN  IF raising = {} THEN {}
        ELSE parts[CHOOSE i \in raising : \A j \in raising : i <= j]

----------------------------------------------------------------------------
(* production_problems()                                                   *)

PublicServerUrl(c) == IF c.public_url = "" THEN c.scheme ELSE c.public_url

\* Each problem has the name of the setting to change, but for those that one
\* setting has in two ways.
TwoWays == [any_origin |-> "cors_origins", local_origin |-> "cors_origins",
            any_host |-> "trusted_hosts", local_hosts |-> "trusted_hosts"]

SettingOf(problem) == IF problem \in DOMAIN TwoWays THEN TwoWays[problem] ELSE problem

\* The problems of one setting: two of the origins can be there together.  Hosts
\* that are all local but for a "*" are one problem as long as the "*" is there.
ProductionProblems(c) ==
    {s \in {"debug", "echo"} : c[s] = "true"}
    \cup {s \in {"secure"} : c[s] = "false"}
    \cup {s \in {"public_url"} : PublicServerUrl(c) # "https"}
    \cup {s \in {"client_secret", "password"} : c[s] = "example"}
    \cup {s \in {"redirect_uris"} : c[s] = {}}
    \cup {p \in {"any_origin"} : "*" \in c.cors_origins}
    \cup {p \in {"local_origin"} : c.cors_origins \cap LocalHosts # {}}
    \cup {p \in {"any_host"} : "*" \in ToSet(c.trusted_hosts)}
    \cup {p \in {"local_hosts"} : ToSet(c.trusted_hosts) \subseteq LocalHosts}
    \cup {s \in {"forwarded_allow_ips"} : "*" \in c[s]}

IsDevelopment(c) == c.environment = "development"

\* Mutant: the error stops at the first problem.
MutRefuseDevelopmentValues(c) ==
    IF IsDevelopment(c) \/ ProductionProblems(c) = {} THEN {}
    ELSE {CHOOSE s \in ProductionProblems(c) : TRUE}

\* Settings.refuse_development_values_outside_development()
RefuseDevelopmentValues(c) ==
    IF IsDevelopment(c) THEN {} ELSE ProductionProblems(c)

\* Settings(): the settings or the problems that the error names, or nothing.
Errors(c) == IF FirstErrors(PartErrors(c)) # {} THEN FirstErrors(PartErrors(c))
                                               ELSE RefuseDevelopmentValues(c)

----------------------------------------------------------------------------
(* What the running process does with its settings.                        *)

\* Mutant: the probe asks for localhost, as the port is on 127.0.0.1.
MutHostHeader(hosts) == "localhost"

\* host_header(): the wildcard of the first host is made concrete.
HostHeader(hosts) ==
    IF hosts = <<>> THEN "localhost"
    ELSE CASE Head(hosts) = "*"     -> "healthcheck"
           [] Head(hosts) = "*.api" -> "healthcheck.api"
           [] OTHER                 -> Head(hosts)

\* What TrustedHostMiddleware compares with the trusted hosts: Host up to a ":".
WithoutPort(host) == IF host = "api:8443" THEN "api" ELSE host

\* TrustedHostMiddleware: a wildcard is a pattern for the end of the host.
Trusted(hosts, host) ==
    \/ ToSet(hosts) \cap {"*", WithoutPort(host)} # {}
    \/ WithoutPort(host) = "healthcheck.api" /\ "*.api" \in ToSet(hosts)

\* The browser drops a __Host- cookie without Secure or with another path, and
\* one with SameSite=None without Secure.
KeepsHostPrefix(c) == HasHostPrefix(c) => c.secure = "true" /\ c.path = "/"
KeepsSameSite(c)   == c.samesite = "none" => c.secure = "true"
=============================================================================
