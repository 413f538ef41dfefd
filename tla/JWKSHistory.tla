---------------------------- MODULE JWKSHistory ----------------------------
(***************************************************************************)
(* The key cache with what its callers see over time: when each lookup in   *)
(* progress began, when its client was last told to retry, and how the last *)
(* fetch ended.  It serves to say how old a key may be that a caller gets,  *)
(* what a Retry-After is worth, and whether an unknown key is unknown.      *)
(***************************************************************************)
EXTENDS JWKSManager

VARIABLES
    startedAt,  \* when the lookup in progress began
    toldAt,     \* when the client got the 503 it now retries after, or Never
    uncaught    \* the last fetch ended with an exception _fetch() does not catch

historyVars == <<vars, startedAt, toldAt, uncaught>>

Starts(t) == pc[t] = "idle" /\ pc[t]' # "idle"
Ends(t)   == pc[t] # "idle" /\ pc[t]' = "idle"

\* The client has waited for as long as the 503 told it to: _unavailable() puts
\* the interval into Retry-After.
Patient(t) == toldAt[t] # Never /\ now - toldAt[t] >= MinRefreshInterval

HistoryInit ==
    /\ Init
    /\ startedAt = [t \in Lookups |-> 0]
    /\ toldAt = [t \in Lookups |-> Never]
    /\ uncaught = FALSE

HistoryNext ==
    /\ Next
    /\ startedAt' = [t \in Lookups |-> IF Starts(t) THEN now
                                       ELSE IF Ends(t) THEN 0 ELSE startedAt[t]]
    /\ toldAt' = [t \in Lookups |->
          IF Starts(t) THEN IF Patient(t) THEN toldAt[t] ELSE Never
          ELSE IF Ends(t) THEN IF answer[t]' = "unavailable" THEN now ELSE Never
          ELSE toldAt[t]]
    /\ uncaught' = IF reply # NoCall /\ reply' = NoCall THEN reply.status = "raises"
                                                     ELSE uncaught

HistorySpec == HistoryInit /\ [][HistoryNext]_historyVars

\* "Unknown key" (a 401, the client logs out) is only wrong about a key that
\* Keycloak published after the last fetch began: a key that was there before
\* is found, or the answer is "unavailable" (l. 186-192).  The exception is the
\* interval after a fetch that ended with an exception _fetch() does not catch:
\* it is counted as an attempt, and not as one that failed.
UnknownKeysAreNew ==
    [][\A t \in Lookups :
          Refused(t) /\ answer[t]' = "unknown" /\ kid[t] \in PublishedKids
             => \/ published[kid[t]] >= attemptedAt
                \/ uncaught /\ FetchedRecently]_historyVars

\* A short outage does not log users out, but keys do not outlive it either: a
\* key comes from an expired cache only while a refresh is in flight, or when
\* one was attempted since the lookup began or less than the interval before
\* (get_key and _refresh_expired_cache, l. 146-166).
StaleKeysOnlyUnderRefresh ==
    [][\A t \in Lookups : Ends(t) /\ answer[t]' = "key" =>
          \/ startedAt[t] - fetchedAt < CacheTTL
          \/ startedAt[t] - attemptedAt < MinRefreshInterval
          \/ reply # NoCall]_historyVars

\* A client that retries after its Retry-After never gets the same 503 again
\* (_unavailable, l. 112-119): a second one tells of a fetch that began after
\* the first, although the interval is counted from the start of a fetch and
\* the Retry-After from the end of a lookup.
RetriesAskAgain ==
    [][\A t \in Lookups :
          Ends(t) /\ toldAt[t] # Never /\ answer[t]' = "unavailable"
             => attemptedAt > toldAt[t]]_historyVars
=============================================================================
