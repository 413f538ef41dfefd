---------------------------- MODULE MCDeployment ----------------------------
(* Configurations with a few mistakes, in every environment.                 *)
EXTENDS Deployment, TLC

CONSTANTS r1, r2

SomeRequests == {r1, r2}

Environments == {[Good EXCEPT !.environment = e] : e \in {"development", "production"}}

\* One setting more, of these, may differ from a good one.
Spoiled(settings, configurations) ==
    UNION {UNION {{[c EXCEPT ![s] = v] : v \in Values[s]} : s \in settings}
             : c \in configurations}

\* The settings that a check looks at together with another one.
Together == {"cookie_name", "secure", "samesite", "path", "old_name", "old_secure",
             "old_samesite", "old_path", "scheme", "public_url", "cors_origins",
             "trusted_hosts"}

ThreeMistakes ==
    Spoiled(Together, Spoiled(Together, Spoiled(DOMAIN Good, Environments)))

\* Every list that a correction can ask for, the new domain first or last.
WrittenLists ==
    Values.trusted_hosts \cup {<<"api", "localhost">>, <<"127.0.0.1", "localhost", "api">>}
=============================================================================
