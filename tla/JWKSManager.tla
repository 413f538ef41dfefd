---------------------------- MODULE JWKSManager ----------------------------
(***************************************************************************)
(* The cache of Keycloak's signing keys, adapters/keycloak/jwks_manager.py. *)
(*                                                                         *)
(* Every request that carries a token runs get_key() in an asyncio task.    *)
(* Tasks are scheduled on one event loop: between two awaits a task runs    *)
(* alone, and no time passes.  `running' is the task that has the loop, and *)
(* a task gives it up where the code suspends: in the GET to Keycloak, in   *)
(* the wait for the lock, and when the lookup is answered.                  *)
(***************************************************************************)
EXTENDS Integers, Sequences, FiniteSets

CONSTANTS
    Lookups,             \* tasks that look a key up, one request each at a time
    Startup,             \* the task of the lifespan, which calls refresh_keys()
    NoTask,              \* the event loop is idle
    Kids,                \* key IDs
    CacheTTL,            \* jwks_cache_ttl
    MinRefreshInterval,  \* jwks_min_refresh_interval
    Prefetch,            \* TRUE: the application, which fetches before it serves
                         \* FALSE: the class alone, which fetches on demand
    ReplyKinds,          \* how a GET can end, see KeycloakReplies
    MaxClock             \* bound: the clock stops there

ASSUME JWKSAssumption ==
    /\ Startup \notin Lookups
    /\ NoTask \notin Lookups \cup {Startup}
    /\ CacheTTL \in Nat \ {0}
    /\ MinRefreshInterval \in Nat \ {0}
    /\ Prefetch \in BOOLEAN
    /\ ReplyKinds \subseteq {"ok", "failed", "raises"}
    /\ MaxClock \in Nat

VARIABLES
    now,              \* the monotonic clock, in seconds
    published,        \* Keycloak: when each key of its key set appeared, or Never
    reply,            \* the GET in flight, if any, and its answer
    jwks,             \* _jwks: the kids in the cache, {} for None
    fetchedAt,        \* _fetched_at
    attemptedAt,      \* _attempted_at
    lastFetchFailed,  \* _last_fetch_failed
    locked,           \* asyncio.Lock: is it taken
    waiters,          \* asyncio.Lock: who waits for it, in order of arrival
    pc,               \* where each task is in the code
    kid,              \* the key each lookup is after
    answer,           \* what each lookup returned or raised
    running           \* the task that has the event loop

envVars   == <<now, published, reply>>
cacheVars == <<jwks, fetchedAt, attemptedAt, lastFetchFailed>>
lockVars  == <<locked, waiters>>
taskVars  == <<pc, kid, answer, running>>
vars      == <<envVars, cacheVars, lockVars, taskVars>>

Never == -1
Time  == 0..MaxClock

Tasks == Lookups \cup {Startup}

\* Where a task holds the lock while it waits for the answer of the GET ...
Fetching == {"startup_fetch", "refresh_fetch", "refetch_fetch"}
\* ... where it holds the lock and runs ...
Checking == {"refresh_locked", "refetch_locked"}
\* ... and where it waits for the lock.
Waiting  == {"refresh_wait", "refetch_wait"}

LookupPoints ==
    {"idle", "find", "refresh", "verdict", "refresh_fetch", "refetch_fetch"}
        \cup Checking \cup Waiting
StartupPoints == {"refresh_keys", "startup_fetch", "serving", "stopped"}

Outcomes == {"none", "key", "unknown", "unavailable", "error"}

NoCall  == [status |-> "none", keys |-> {}]
Pending == [status |-> "pending", keys |-> {}]

TypeOK ==
    /\ now \in Time
    /\ published \in [Kids -> Time \cup {Never}]
    /\ reply \in [status: {"none", "pending"} \cup ReplyKinds, keys: SUBSET Kids]
    /\ jwks \in SUBSET Kids
    /\ fetchedAt \in Time \cup {Never}
    /\ attemptedAt \in Time \cup {Never}
    /\ lastFetchFailed \in BOOLEAN
    /\ locked \in BOOLEAN
    /\ waiters \in Seq(Lookups)
    /\ pc \in [Tasks -> LookupPoints \cup StartupPoints]
    /\ \A t \in Lookups : pc[t] \in LookupPoints
    /\ pc[Startup] \in StartupPoints
    /\ kid \in [Lookups -> Kids]
    /\ answer \in [Lookups -> Outcomes]
    /\ running \in Lookups \cup {NoTask}

PublishedKids == {k \in Kids : published[k] # Never}

IsCacheValid ==
    jwks # {} /\ fetchedAt # Never /\ now - fetchedAt < CacheTTL

\* Mutant: only fetches that succeeded count.
MutFetchedRecently ==
    fetchedAt # Never /\ now - fetchedAt < MinRefreshInterval

\* Mutant: the interval is one second longer than the Retry-After.
MutInclusiveInterval ==
    attemptedAt # Never /\ now - attemptedAt <= MinRefreshInterval

FetchedRecently ==
    attemptedAt # Never /\ now - attemptedAt < MinRefreshInterval

Serving == pc[Startup] = "serving"

Init ==
    /\ now = 0
    /\ published \in [Kids -> {0, Never}]
    /\ PublishedKids # {}
    /\ reply = NoCall
    /\ jwks = {}
    /\ fetchedAt = Never
    /\ attemptedAt = Never
    /\ lastFetchFailed = FALSE
    /\ locked = FALSE
    /\ waiters = <<>>
    /\ pc = [t \in Tasks |-> IF t # Startup THEN "idle"
                             ELSE IF Prefetch THEN "refresh_keys" ELSE "serving"]
    /\ kid \in [Lookups -> Kids]
    /\ answer = [t \in Lookups |-> "none"]
    /\ running = NoTask

----------------------------------------------------------------------------
(* asyncio.Lock                                                            *)

\* acquire() takes the lock at once only when nobody is queued for it: right
\* after release() the lock is free and belongs to the first waiter, who has
\* not run yet.
LockIsFree == ~locked /\ waiters = <<>>

Acquire(t, held, queued) ==
    \/ /\ LockIsFree
       /\ locked' = TRUE
       /\ pc' = [pc EXCEPT ![t] = held]
       /\ UNCHANGED <<waiters, running>>
    \/ /\ ~LockIsFree
       /\ waiters' = Append(waiters, t)
       /\ pc' = [pc EXCEPT ![t] = queued]
       /\ running' = NoTask
       /\ UNCHANGED locked

Release == locked' = FALSE /\ UNCHANGED waiters

\* The waiter that release() woke gets the loop and takes the lock.
TakeLock(t) ==
    /\ running = NoTask
    /\ ~locked
    /\ waiters # <<>>
    /\ Head(waiters) = t
    /\ waiters' = Tail(waiters)
    /\ locked' = TRUE
    /\ running' = t
    /\ pc' = [pc EXCEPT ![t] = IF @ = "refresh_wait" THEN "refresh_locked"
                                                     ELSE "refetch_locked"]
    /\ UNCHANGED <<envVars, cacheVars, kid, answer>>

----------------------------------------------------------------------------
(* _fetch(): the part before the GET, and its three ways to end.           *)

\* Mutant: stores when the next attempt may be made, not when this one is.
MutBeginFetch(t, point) ==
    /\ attemptedAt' = now + MinRefreshInterval
    /\ reply' = Pending
    /\ pc' = [pc EXCEPT ![t] = point]
    /\ running' = NoTask
    /\ UNCHANGED <<now, published, jwks, fetchedAt, lastFetchFailed,
                   lockVars, kid, answer>>

BeginFetch(t, point) ==
    /\ attemptedAt' = now
    /\ reply' = Pending
    /\ pc' = [pc EXCEPT ![t] = point]
    /\ running' = NoTask
    /\ UNCHANGED <<now, published, jwks, fetchedAt, lastFetchFailed,
                   lockVars, kid, answer>>

\* The GET has ended for the task that made it, and the task can go on.
FetchEnded(t) ==
    /\ running = NoTask
    /\ pc[t] \in Fetching
    /\ reply.status \in ReplyKinds

\* Mutant: a failed fetch drops the keys it could not refresh.
MutStoreReply ==
    \/ /\ reply.status = "ok"
       /\ jwks' = reply.keys
       /\ fetchedAt' = now
       /\ lastFetchFailed' = FALSE
    \/ /\ reply.status = "failed"
       /\ lastFetchFailed' = TRUE
       /\ jwks' = {}
       /\ UNCHANGED fetchedAt

\* _fetch() stores the new keys, or notes the failure and leaves the old ones.
StoreReply ==
    \/ /\ reply.status = "ok"
       /\ jwks' = reply.keys
       /\ fetchedAt' = now
       /\ lastFetchFailed' = FALSE
    \/ /\ reply.status = "failed"
       /\ lastFetchFailed' = TRUE
       /\ UNCHANGED <<jwks, fetchedAt>>

\* _fetch() returned: release the lock and go on with the lookup.
FetchReturns(t) ==
    /\ FetchEnded(t)
    /\ t \in Lookups
    /\ StoreReply
    /\ reply' = NoCall
    /\ Release
    /\ running' = t
    /\ pc' = [pc EXCEPT ![t] = IF @ = "refresh_fetch" THEN "find" ELSE "verdict"]
    /\ UNCHANGED <<now, published, attemptedAt, kid, answer>>

\* Mutant: the lock is not released when _fetch() raises.
MutFetchRaises(t) ==
    /\ FetchEnded(t)
    /\ t \in Lookups
    /\ reply.status = "raises"
    /\ reply' = NoCall
    /\ pc' = [pc EXCEPT ![t] = "idle"]
    /\ answer' = [answer EXCEPT ![t] = "error"]
    /\ UNCHANGED <<now, published, cacheVars, lockVars, kid, running>>

\* An exception that _fetch() does not catch leaves get_key() as it is: the
\* token decoder answers 401 for it (jwks.py).
FetchRaises(t) ==
    /\ FetchEnded(t)
    /\ t \in Lookups
    /\ reply.status = "raises"
    /\ reply' = NoCall
    /\ Release
    /\ pc' = [pc EXCEPT ![t] = "idle"]
    /\ answer' = [answer EXCEPT ![t] = "error"]
    /\ UNCHANGED <<now, published, cacheVars, kid, running>>

----------------------------------------------------------------------------
(* Startup: refresh_keys(), awaited by start_services() before any request. *)

RefreshKeys ==
    /\ pc[Startup] = "refresh_keys"
    /\ running = NoTask
    /\ LockIsFree
    /\ locked' = TRUE
    /\ attemptedAt' = now
    /\ reply' = Pending
    /\ pc' = [pc EXCEPT ![Startup] = "startup_fetch"]
    /\ UNCHANGED <<now, published, jwks, fetchedAt, lastFetchFailed, waiters,
                   kid, answer, running>>

RefreshKeysReturns ==
    /\ FetchEnded(Startup)
    /\ \/ StoreReply
       \/ reply.status = "raises" /\ UNCHANGED <<jwks, fetchedAt, lastFetchFailed>>
    /\ reply' = NoCall
    /\ Release
    /\ pc' = [pc EXCEPT ![Startup] = IF reply.status = "ok" THEN "serving"
                                                            ELSE "stopped"]
    /\ UNCHANGED <<now, published, attemptedAt, kid, answer, running>>

----------------------------------------------------------------------------
(* get_key()                                                               *)

Reply(t, outcome) ==
    /\ answer' = [answer EXCEPT ![t] = outcome]
    /\ pc' = [pc EXCEPT ![t] = "idle"]
    /\ running' = NoTask

GetKey(t, k) ==
    /\ Serving
    /\ running = NoTask
    /\ pc[t] = "idle"
    /\ kid' = [kid EXCEPT ![t] = k]
    /\ answer' = [answer EXCEPT ![t] = "none"]
    /\ running' = t
    /\ pc' = [pc EXCEPT ![t] = IF IsCacheValid THEN "find" ELSE "refresh"]
    /\ UNCHANGED <<envVars, cacheVars, lockVars>>

At(t, point) == running = t /\ pc[t] = point

Goto(t, point) ==
    /\ pc' = [pc EXCEPT ![t] = point]
    /\ UNCHANGED <<kid, answer, running>>

\* Mutant: old keys are good enough even when nobody fetches.
MutRefreshLeftToOther(t) ==
    /\ At(t, "refresh")
    /\ jwks # {}
    /\ Goto(t, "find")
    /\ UNCHANGED <<envVars, cacheVars, lockVars>>

\* _refresh_expired_cache(): somebody is fetching and there are old keys.
RefreshLeftToOther(t) ==
    /\ At(t, "refresh")
    /\ jwks # {} /\ locked
    /\ Goto(t, "find")
    /\ UNCHANGED <<envVars, cacheVars, lockVars>>

\* Mutant: goes on without the lock.
MutRefreshAcquire(t) ==
    /\ At(t, "refresh")
    /\ jwks = {} \/ ~locked
    /\ Goto(t, "refresh_locked")
    /\ UNCHANGED <<envVars, cacheVars, lockVars>>

RefreshAcquire(t) ==
    /\ At(t, "refresh")
    /\ jwks = {} \/ ~locked
    /\ Acquire(t, "refresh_locked", "refresh_wait")
    /\ UNCHANGED <<envVars, cacheVars, kid, answer>>

RefreshNotNeeded(t) ==
    /\ At(t, "refresh_locked")
    /\ IsCacheValid \/ FetchedRecently
    /\ Release
    /\ Goto(t, "find")
    /\ UNCHANGED <<envVars, cacheVars>>

RefreshFetch(t) ==
    /\ At(t, "refresh_locked")
    /\ ~IsCacheValid /\ ~FetchedRecently
    /\ BeginFetch(t, "refresh_fetch")

\* _find_key() in get_key()
KeyFound(t) ==
    /\ At(t, "find")
    /\ kid[t] \in jwks
    /\ Reply(t, "key")
    /\ UNCHANGED <<envVars, cacheVars, lockVars, kid>>

\* _find_after_refetch()
KeyMissing(t) ==
    /\ At(t, "find")
    /\ kid[t] \notin jwks
    /\ Acquire(t, "refetch_locked", "refetch_wait")
    /\ UNCHANGED <<envVars, cacheVars, kid, answer>>

RefetchNotNeeded(t) ==
    /\ At(t, "refetch_locked")
    /\ kid[t] \in jwks \/ FetchedRecently
    /\ Release
    /\ Goto(t, "verdict")
    /\ UNCHANGED <<envVars, cacheVars>>

RefetchFetch(t) ==
    /\ At(t, "refetch_locked")
    /\ kid[t] \notin jwks /\ ~FetchedRecently
    /\ BeginFetch(t, "refetch_fetch")

\* Mutant: the key is missing, whether the last fetch failed or not.
MutVerdict(t) ==
    /\ At(t, "verdict")
    /\ Reply(t, IF kid[t] \in jwks THEN "key" ELSE "unknown")
    /\ UNCHANGED <<envVars, cacheVars, lockVars, kid>>

Verdict(t) ==
    /\ At(t, "verdict")
    /\ Reply(t, IF kid[t] \in jwks THEN "key"
                ELSE IF lastFetchFailed THEN "unavailable" ELSE "unknown")
    /\ UNCHANGED <<envVars, cacheVars, lockVars, kid>>

----------------------------------------------------------------------------
(* The world outside: time, and Keycloak.  It moves while the loop is idle. *)

Tick ==
    /\ running = NoTask
    /\ now < MaxClock
    /\ now' = now + 1
    /\ UNCHANGED <<published, reply, cacheVars, lockVars, taskVars>>

\* Keycloak answers with the key set it has now ("ok"), the call fails in a
\* way _fetch() expects ("failed": the network, a timeout, an error status, a
\* body that is not JSON or has no usable key), or in another way ("raises":
\* JSON that is not an object).
KeycloakReplies(kind) ==
    /\ running = NoTask
    /\ reply = Pending
    /\ reply' = [status |-> kind,
                 keys   |-> IF kind = "ok" THEN PublishedKids ELSE {}]
    /\ UNCHANGED <<now, published, cacheVars, lockVars, taskVars>>

\* Keycloak rotates its keys, one at a time: its key set is never empty.
Publish(k) ==
    /\ running = NoTask
    /\ published[k] = Never
    /\ published' = [published EXCEPT ![k] = now]
    /\ UNCHANGED <<now, reply, cacheVars, lockVars, taskVars>>

Withdraw(k) ==
    /\ running = NoTask
    /\ published[k] # Never
    /\ PublishedKids # {k}
    /\ published' = [published EXCEPT ![k] = Never]
    /\ UNCHANGED <<now, reply, cacheVars, lockVars, taskVars>>

----------------------------------------------------------------------------

\* What a task does with the event loop once it has it ...
Step(t) ==
    \/ RefreshLeftToOther(t)
    \/ RefreshAcquire(t)
    \/ RefreshNotNeeded(t)
    \/ RefreshFetch(t)
    \/ KeyFound(t)
    \/ KeyMissing(t)
    \/ RefetchNotNeeded(t)
    \/ RefetchFetch(t)
    \/ Verdict(t)

\* ... and how it gets the loop back after an await.
Resume(t) == TakeLock(t) \/ FetchReturns(t) \/ FetchRaises(t)

Environment ==
    \/ Tick
    \/ \E kind \in ReplyKinds : KeycloakReplies(kind)
    \/ \E k \in Kids : Publish(k) \/ Withdraw(k)

Next ==
    \/ RefreshKeys \/ RefreshKeysReturns
    \/ \E t \in Lookups : \/ \E k \in Kids : GetKey(t, k)
                          \/ Step(t)
                          \/ Resume(t)
    \/ Environment

Spec == Init /\ [][Next]_vars

\* The event loop runs a task that has it (WF), and runs ready tasks in the
\* order they became ready, so a task that is ready again and again gets its
\* turn (SF).  httpx bounds every step of the GET (request_timeout), so it ends.
Fairness ==
    /\ WF_vars(RefreshKeys)
    /\ SF_vars(RefreshKeysReturns)
    /\ SF_vars(\E kind \in ReplyKinds : KeycloakReplies(kind))
    /\ \A t \in Lookups : WF_vars(Step(t)) /\ SF_vars(Resume(t))

FairSpec == Spec /\ Fairness
----------------------------------------------------------------------------
(* Properties                                                              *)

\* One fetch at a time (class docstring, l. 22): no two tasks are between the
\* start of a fetch and the release of the lock, and the lock is taken exactly
\* then.
OneFetchAtATime ==
    /\ \A s, t \in Tasks :
          pc[s] \in Fetching \cup Checking /\ pc[t] \in Fetching \cup Checking => s = t
    /\ locked <=> \E t \in Tasks : pc[t] \in Fetching \cup Checking

\* A call to Keycloak is in flight.
Calling == \E t \in Tasks : pc[t] \in Fetching

\* At most one fetch every MinRefreshInterval, whatever the reason (l. 23): two
\* attempts are never closer than that, however the lookups that want one
\* queue for the lock.
FetchesSpaced ==
    [][~Calling /\ Calling'
         => attemptedAt = Never \/ attemptedAt' - attemptedAt >= MinRefreshInterval]_vars

Refused(t) == pc[t] # "idle" /\ pc[t]' = "idle" /\ answer[t]' # "key"

\* When a fetch fails, the keys already in the cache keep working (l. 25): only
\* a complete answer of Keycloak changes the cache, and no lookup ends without
\* its key while the key is in the cache, but the one whose own fetch ends with
\* an exception that _fetch() does not catch.
CachedKeysWork ==
    [][/\ jwks' # jwks => reply.status = "ok" /\ jwks' = reply.keys
       /\ \A t \in Lookups :
             Refused(t) /\ kid[t] \in jwks' => FetchRaises(t)]_vars

\* The class docstring without that exception: "when a fetch fails, the keys
\* already in the cache keep working" (l. 25), for every lookup.
FailedFetchesAreHarmless ==
    [][\A t \in Lookups : Refused(t) => kid[t] \notin jwks']_vars

\* Every lookup is answered: nobody is left in the queue of the lock, whatever
\* happens to the fetch that holds it.
LookupsAnswered ==
    \A t \in Lookups : pc[t] # "idle" ~> pc[t] = "idle"

Policy == INSTANCE KeyFetching
    WITH MinInterval <- MinRefreshInterval, keys <- jwks, calling <- Calling,
         lastCall <- attemptedAt

\* The cache keeps the promise of KeyFetching: calls to Keycloak one at a time
\* and spaced, keys that only a finished call changes, and every call ends.
KeepsPolicy == Policy!FairFetchSpec
=============================================================================
