---------------------------- MODULE KeyFetching ----------------------------
(***************************************************************************)
(* What the key cache promises, seen from outside (class docstring of       *)
(* JWKSManager, l. 20-25): calls to Keycloak do not overlap, two calls      *)
(* begin at least MinInterval apart, the keys change only when a call ends, *)
(* a call that ends without keys changes nothing, and every call ends.      *)
(***************************************************************************)
EXTENDS Integers

CONSTANTS Kids, MinInterval, Never

VARIABLES now, keys, calling, lastCall

fetchVars == <<now, keys, calling, lastCall>>

FetchInit ==
    /\ now = 0
    /\ keys = {}
    /\ calling = FALSE
    /\ lastCall = Never

BeginCall ==
    /\ ~calling
    /\ lastCall = Never \/ now - lastCall >= MinInterval
    /\ calling' = TRUE
    /\ lastCall' = now
    /\ UNCHANGED <<now, keys>>

EndCall ==
    /\ calling
    /\ calling' = FALSE
    /\ keys' = keys \/ keys' \in (SUBSET Kids) \ {{}}
    /\ UNCHANGED <<now, lastCall>>

TimePasses ==
    /\ now' = now + 1
    /\ UNCHANGED <<keys, calling, lastCall>>

FetchNext == BeginCall \/ EndCall \/ TimePasses

FetchSpec == FetchInit /\ [][FetchNext]_fetchVars
FairFetchSpec == FetchSpec /\ WF_fetchVars(EndCall)
=============================================================================
