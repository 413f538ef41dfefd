------------------------- MODULE JWKSManagerProofs -------------------------
(* What holds of the key cache for any number of lookups, keys and seconds.  *)
EXTENDS JWKSHistory, TLAPS

Holding(t) == pc[t] \in Fetching \cup Checking

\* The actions of a lookup, as Next offers them.
LookupNext(t) == (\E k \in Kids : GetKey(t, k)) \/ Step(t) \/ Resume(t)

\* Asking for the lock, granted or queued for, keeps the types.
LEMMA AcquireType ==
  ASSUME TypeOK, NEW t \in Lookups, NEW held \in LookupPoints,
         NEW queued \in LookupPoints, Acquire(t, held, queued)
  PROVE  /\ locked' \in BOOLEAN
         /\ waiters' \in Seq(Lookups)
         /\ running' \in Lookups \cup {NoTask}
         /\ pc' \in [Tasks -> LookupPoints \cup StartupPoints]
         /\ \A s \in Lookups : pc'[s] \in LookupPoints
         /\ pc'[Startup] \in StartupPoints
<1> USE JWKSAssumption DEF TypeOK, Tasks
<1>1. Append(waiters, t) \in Seq(Lookups)
  OBVIOUS
<1>2. CASE LockIsFree
  BY <1>2 DEF Acquire
<1>3. CASE ~LockIsFree
  <2>1. /\ waiters' = Append(waiters, t)
        /\ pc' = [pc EXCEPT ![t] = queued]
        /\ running' = NoTask
        /\ locked' = locked
    BY <1>3 DEF Acquire
  <2>2. waiters' \in Seq(Lookups)
    BY <1>1, <2>1
  <2> QED
    BY <2>1, <2>2
<1> QED
  BY <1>2, <1>3

\* Every variable of the key cache has its type.
THEOREM TypeCorrect == Spec => []TypeOK
<1> USE JWKSAssumption DEF Tasks, Time, Never, Fetching, Checking, Waiting,
        LookupPoints, StartupPoints, Outcomes, NoCall, Pending
<1>1. Init => TypeOK
  <2> SUFFICES ASSUME Init PROVE TypeOK
    OBVIOUS
  <2>1. pc \in [Tasks -> LookupPoints \cup StartupPoints]
    BY DEF Init
  <2>2. /\ \A t \in Lookups : pc[t] \in LookupPoints
        /\ pc[Startup] \in StartupPoints
    BY DEF Init
  <2>3. now \in Time /\ published \in [Kids -> Time \cup {Never}]
    BY DEF Init
  <2>4. waiters \in Seq(Lookups) /\ reply.status = "none" /\ reply.keys = {}
    BY DEF Init
  <2> QED
    BY <2>1, <2>2, <2>3, <2>4 DEF Init, TypeOK
<1>2. TypeOK /\ [Next]_vars => TypeOK'
  <2> SUFFICES ASSUME TypeOK, [Next]_vars PROVE TypeOK'
    OBVIOUS
  <2> USE DEF TypeOK
  <2>1. CASE RefreshKeys
    BY <2>1 DEF RefreshKeys, LockIsFree
  <2>2. CASE RefreshKeysReturns
    BY <2>2 DEF RefreshKeysReturns, FetchEnded, StoreReply, Release
  <2>3. ASSUME NEW t \in Lookups, NEW k \in Kids, GetKey(t, k) PROVE TypeOK'
    BY <2>3 DEF GetKey, envVars, cacheVars, lockVars
  <2>4. ASSUME NEW t \in Lookups, Step(t) PROVE TypeOK'
    <3> USE DEF At, Goto, Reply, Release, envVars, cacheVars, lockVars
    <3>1. CASE RefreshLeftToOther(t)
      BY <3>1 DEF RefreshLeftToOther
    <3>2. CASE RefreshAcquire(t)
      BY <3>2, AcquireType DEF RefreshAcquire
    <3>3. CASE RefreshNotNeeded(t)
      BY <3>3 DEF RefreshNotNeeded
    <3>4. CASE RefreshFetch(t)
      BY <3>4 DEF RefreshFetch, BeginFetch
    <3>5. CASE KeyFound(t)
      BY <3>5 DEF KeyFound
    <3>6. CASE KeyMissing(t)
      BY <3>6, AcquireType DEF KeyMissing
    <3>7. CASE RefetchNotNeeded(t)
      BY <3>7 DEF RefetchNotNeeded
    <3>8. CASE RefetchFetch(t)
      BY <3>8 DEF RefetchFetch, BeginFetch
    <3>9. CASE Verdict(t)
      BY <3>9 DEF Verdict
    <3> QED
      BY <2>4, <3>1, <3>2, <3>3, <3>4, <3>5, <3>6, <3>7, <3>8, <3>9 DEF Step
  <2>5. ASSUME NEW t \in Lookups, Resume(t) PROVE TypeOK'
    <3>1. CASE TakeLock(t)
      BY <3>1 DEF TakeLock, envVars, cacheVars
    <3>2. CASE FetchReturns(t)
      BY <3>2 DEF FetchReturns, FetchEnded, StoreReply, Release
    <3>3. CASE FetchRaises(t)
      BY <3>3 DEF FetchRaises, FetchEnded, Release, cacheVars
    <3> QED
      BY <2>5, <3>1, <3>2, <3>3 DEF Resume
  <2>6. CASE Environment
    <3> USE DEF cacheVars, lockVars, taskVars
    <3>1. CASE Tick
      BY <3>1 DEF Tick
    <3>2. ASSUME NEW kind \in ReplyKinds, KeycloakReplies(kind) PROVE TypeOK'
      BY <3>2 DEF KeycloakReplies, PublishedKids
    <3>3. ASSUME NEW k \in Kids, Publish(k) PROVE TypeOK'
      BY <3>3 DEF Publish
    <3>4. ASSUME NEW k \in Kids, Withdraw(k) PROVE TypeOK'
      BY <3>4 DEF Withdraw
    <3> QED
      BY <2>6, <3>1, <3>2, <3>3, <3>4 DEF Environment
  <2>7. CASE UNCHANGED vars
    BY <2>7 DEF vars, envVars, cacheVars, lockVars, taskVars
  <2> QED
    BY <2>1, <2>2, <2>3, <2>4, <2>5, <2>6, <2>7 DEF Next
<1>3. QED
  BY <1>1, <1>2, PTL DEF Spec

----------------------------------------------------------------------------
(* One fetch at a time, and the facts it is inductive with.                 *)

\* A GET is only in flight for a task that waits for it.
CallHasOwner == reply.status # "none" => \E t \in Tasks : pc[t] \in Fetching

\* No request comes before the startup has ended.
NoLookupBeforeServing ==
    ~Serving => waiters = <<>> /\ \A t \in Lookups : pc[t] = "idle"

\* refresh_keys() makes the first attempt, and no attempt is in the future.
AttemptsInPast ==
    /\ pc[Startup] = "refresh_keys" => attemptedAt = Never
    /\ attemptedAt <= now

\* Keycloak's key set, and a complete answer with it, has a key.
KeySetsHaveKeys ==
    /\ PublishedKids # {}
    /\ reply.status = "ok" => reply.keys # {}

\* A lookup that gives its verdict has the loop, and has released the lock.
VerdictUnlocked ==
    \A t \in Lookups : pc[t] = "verdict" => running = t /\ ~locked

IndInv ==
    /\ OneFetchAtATime
    /\ CallHasOwner
    /\ NoLookupBeforeServing
    /\ AttemptsInPast
    /\ KeySetsHaveKeys
    /\ VerdictUnlocked

\* A cache that has just been made satisfies the invariant.
LEMMA IndInvInit == Init => IndInv
<1> USE JWKSAssumption
    DEF Init, Tasks, Time, Never, Fetching, Checking, NoCall
<1> SUFFICES ASSUME Init PROVE IndInv
  OBVIOUS
<1>1. \A t \in Tasks : pc[t] \notin Fetching \cup Checking /\ pc[t] # "verdict"
  OBVIOUS
<1>2. OneFetchAtATime
  BY <1>1 DEF OneFetchAtATime
<1>3. CallHasOwner /\ AttemptsInPast /\ KeySetsHaveKeys
  BY DEF CallHasOwner, AttemptsInPast, KeySetsHaveKeys
<1>4. VerdictUnlocked
  BY <1>1 DEF VerdictUnlocked
<1>5. NoLookupBeforeServing
  BY DEF NoLookupBeforeServing
<1> QED
  BY <1>2, <1>3, <1>4, <1>5 DEF IndInv

\* Starting a fetch keeps the inductive invariant.
LEMMA BeginFetchKeepsIndInv ==
  ASSUME TypeOK, IndInv, NEW t \in Lookups, pc[t] \in Checking,
         NEW point \in {"refresh_fetch", "refetch_fetch"}, BeginFetch(t, point)
  PROVE  IndInv'
<1> USE JWKSAssumption DEF TypeOK, Tasks, Fetching, Checking, IndInv,
        LookupPoints, StartupPoints, Pending, Time, Never
<1>1. /\ pc' = [pc EXCEPT ![t] = point] /\ locked' = locked
      /\ waiters' = waiters /\ attemptedAt' = now /\ now' = now
      /\ reply' = Pending /\ published' = published
  BY DEF BeginFetch, lockVars
<1>2. pc'[t] = point /\ \A s \in Tasks : s # t => pc'[s] = pc[s]
  BY <1>1
<1>3. OneFetchAtATime'
  BY <1>1, <1>2 DEF OneFetchAtATime
<1>4. CallHasOwner'
  BY <1>2 DEF CallHasOwner
<1>5. AttemptsInPast'
  <2>1. pc[Startup] = "serving"
    BY DEF NoLookupBeforeServing, Serving
  <2> QED
    BY <1>1, <1>2, <2>1 DEF AttemptsInPast
<1>6. KeySetsHaveKeys'
  BY <1>1 DEF KeySetsHaveKeys, PublishedKids
<1>7. VerdictUnlocked'
  BY <1>1, <1>2 DEF VerdictUnlocked, OneFetchAtATime
<1>8. NoLookupBeforeServing'
  BY <1>1, <1>2 DEF NoLookupBeforeServing, Serving
<1> QED
  BY <1>3, <1>4, <1>5, <1>6, <1>7, <1>8

\* No step of a lookup, of Keycloak or of the clock breaks the invariant.
LEMMA IndInvStep == TypeOK /\ IndInv /\ [Next]_vars => IndInv'
<1> SUFFICES ASSUME TypeOK, IndInv, [Next]_vars PROVE IndInv'
  OBVIOUS
<1> USE JWKSAssumption DEF TypeOK, Tasks, Time, Never, Fetching, Checking, Waiting,
        LookupPoints, StartupPoints, NoCall, Pending,
        IndInv, OneFetchAtATime, CallHasOwner, AttemptsInPast, KeySetsHaveKeys,
        VerdictUnlocked, NoLookupBeforeServing, Serving, PublishedKids
<1>1. CASE RefreshKeys
  BY <1>1 DEF RefreshKeys, LockIsFree
<1>2. CASE RefreshKeysReturns
  BY <1>2 DEF RefreshKeysReturns, FetchEnded, StoreReply, Release
<1>3. ASSUME NEW t \in Lookups, NEW k \in Kids, GetKey(t, k) PROVE IndInv'
  BY <1>3 DEF GetKey, envVars, cacheVars, lockVars
<1>4. ASSUME NEW t \in Lookups, Step(t) PROVE IndInv'
  <2> USE DEF At, Goto, Reply, Release, envVars, cacheVars, lockVars
  <2>1. CASE RefreshLeftToOther(t)
    BY <2>1 DEF RefreshLeftToOther
  <2>2. CASE RefreshAcquire(t)
    BY <2>2 DEF RefreshAcquire, Acquire, LockIsFree
  <2>3. CASE RefreshNotNeeded(t)
    BY <2>3 DEF RefreshNotNeeded
  <2>4. CASE RefreshFetch(t)
    BY <2>4, BeginFetchKeepsIndInv DEF RefreshFetch
  <2>5. CASE KeyFound(t)
    BY <2>5 DEF KeyFound
  <2>6. CASE KeyMissing(t)
    BY <2>6 DEF KeyMissing, Acquire, LockIsFree
  <2>7. CASE RefetchNotNeeded(t)
    BY <2>7 DEF RefetchNotNeeded
  <2>8. CASE RefetchFetch(t)
    BY <2>8, BeginFetchKeepsIndInv DEF RefetchFetch
  <2>9. CASE Verdict(t)
    BY <2>9 DEF Verdict
  <2> QED
    BY <1>4, <2>1, <2>2, <2>3, <2>4, <2>5, <2>6, <2>7, <2>8, <2>9 DEF Step
<1>5. ASSUME NEW t \in Lookups, Resume(t) PROVE IndInv'
  <2>1. CASE TakeLock(t)
    BY <2>1 DEF TakeLock, envVars, cacheVars
  <2>2. CASE FetchReturns(t)
    BY <2>2 DEF FetchReturns, FetchEnded, StoreReply, Release
  <2>3. CASE FetchRaises(t)
    BY <2>3 DEF FetchRaises, FetchEnded, Release, cacheVars
  <2> QED
    BY <1>5, <2>1, <2>2, <2>3 DEF Resume
<1>6. CASE Environment
  <2> USE DEF cacheVars, lockVars, taskVars
  <2>1. CASE Tick
    BY <2>1 DEF Tick
  <2>2. ASSUME NEW kind \in ReplyKinds, KeycloakReplies(kind) PROVE IndInv'
    BY <2>2 DEF KeycloakReplies
  <2>3. ASSUME NEW k \in Kids, Publish(k) PROVE IndInv'
    BY <2>3 DEF Publish
  <2>4. ASSUME NEW k \in Kids, Withdraw(k) PROVE IndInv'
    BY <2>4 DEF Withdraw
  <2> QED
    BY <1>6, <2>1, <2>2, <2>3, <2>4 DEF Environment
<1>7. CASE UNCHANGED vars
  BY <1>7 DEF vars, envVars, cacheVars, lockVars, taskVars
<1> QED
  BY <1>1, <1>2, <1>3, <1>4, <1>5, <1>6, <1>7 DEF Next

\* The invariant holds in every state of the key cache.
LEMMA Inductive == Spec => [](TypeOK /\ IndInv)
BY TypeCorrect, IndInvInit, IndInvStep, PTL DEF Spec

\* However many lookups there are, no two of them fetch at the same time.
THEOREM MutualExclusion == Spec => []OneFetchAtATime
<1>1. IndInv => OneFetchAtATime
  BY DEF IndInv
<1> QED
  BY <1>1, Inductive, PTL

----------------------------------------------------------------------------
(* Every step of the cache is a step of KeyFetching, or none.               *)

\* What a finished fetch leaves in the cache.
LEMMA StoredKeys ==
  ASSUME TypeOK, IndInv, StoreReply
  PROVE  jwks' = jwks \/ jwks' \in (SUBSET Kids) \ {{}}
<1>1. CASE reply.status = "ok"
  <2>1. jwks' = reply.keys
    BY <1>1 DEF StoreReply
  <2>2. reply.keys \in SUBSET Kids /\ reply.keys # {}
    BY <1>1 DEF TypeOK, IndInv, KeySetsHaveKeys
  <2>3. reply.keys \in (SUBSET Kids) \ {{}}
    BY <2>2
  <2> QED
    BY <2>1, <2>3
<1>2. CASE reply.status # "ok"
  BY <1>2 DEF StoreReply
<1> QED
  BY <1>1, <1>2

\* One step: who begins a fetch is alone with Keycloak and late enough, and who
\* ends one leaves the keys alone or has a whole key set.
LEMMA StepKeepsPolicy ==
  ASSUME TypeOK, IndInv, [Next]_vars
  PROVE  [Policy!FetchNext]_(Policy!fetchVars)
<1> USE JWKSAssumption DEF TypeOK, Tasks, Fetching, Checking, Waiting, Calling,
        LookupPoints, StartupPoints, IndInv, OneFetchAtATime,
        Policy!fetchVars, Policy!FetchNext
<1>1. CASE RefreshKeys
  <2>1. Policy!BeginCall
    BY <1>1 DEF RefreshKeys, LockIsFree, AttemptsInPast, Policy!BeginCall
  <2> QED
    BY <2>1
<1>2. CASE RefreshKeysReturns
  <2>1. Calling /\ ~Calling'
    BY <1>2 DEF RefreshKeysReturns, FetchEnded
  <2>2. jwks' = jwks \/ jwks' \in (SUBSET Kids) \ {{}}
    BY <1>2, StoredKeys DEF RefreshKeysReturns
  <2>3. Policy!EndCall
    BY <1>2, <2>1, <2>2 DEF RefreshKeysReturns, Policy!EndCall
  <2> QED
    BY <2>3
<1>3. ASSUME NEW t \in Lookups, NEW k \in Kids, GetKey(t, k)
      PROVE  UNCHANGED Policy!fetchVars
  BY <1>3 DEF GetKey, envVars, cacheVars, lockVars
<1>4. ASSUME NEW t \in Lookups, Step(t)
      PROVE  [Policy!FetchNext]_(Policy!fetchVars)
  <2> USE DEF At, Goto, Reply, Release, envVars, cacheVars, lockVars
  <2>1. CASE RefreshLeftToOther(t)
    BY <2>1 DEF RefreshLeftToOther
  <2>2. CASE RefreshAcquire(t)
    BY <2>2 DEF RefreshAcquire, Acquire
  <2>3. CASE RefreshNotNeeded(t)
    BY <2>3 DEF RefreshNotNeeded
  <2>4. CASE RefreshFetch(t)
    <3>1. Policy!BeginCall
      BY <2>4 DEF RefreshFetch, BeginFetch, FetchedRecently, Policy!BeginCall,
                  Time, Never
    <3> QED
      BY <3>1
  <2>5. CASE KeyFound(t)
    BY <2>5 DEF KeyFound
  <2>6. CASE KeyMissing(t)
    BY <2>6 DEF KeyMissing, Acquire
  <2>7. CASE RefetchNotNeeded(t)
    BY <2>7 DEF RefetchNotNeeded
  <2>8. CASE RefetchFetch(t)
    <3>1. Policy!BeginCall
      BY <2>8 DEF RefetchFetch, BeginFetch, FetchedRecently, Policy!BeginCall,
                  Time, Never
    <3> QED
      BY <3>1
  <2>9. CASE Verdict(t)
    BY <2>9 DEF Verdict
  <2> QED
    BY <1>4, <2>1, <2>2, <2>3, <2>4, <2>5, <2>6, <2>7, <2>8, <2>9 DEF Step
<1>5. ASSUME NEW t \in Lookups, Resume(t)
      PROVE  [Policy!FetchNext]_(Policy!fetchVars)
  <2>1. CASE TakeLock(t)
    BY <2>1 DEF TakeLock, envVars, cacheVars
  <2>2. CASE FetchReturns(t)
    <3>1. Calling /\ ~Calling'
      BY <2>2 DEF FetchReturns, FetchEnded
    <3>2. jwks' = jwks \/ jwks' \in (SUBSET Kids) \ {{}}
      BY <2>2, StoredKeys DEF FetchReturns
    <3>3. Policy!EndCall
      BY <2>2, <3>1, <3>2 DEF FetchReturns, Policy!EndCall
    <3> QED
      BY <3>3
  <2>3. CASE FetchRaises(t)
    <3>1. Calling /\ ~Calling'
      BY <2>3 DEF FetchRaises, FetchEnded
    <3>2. Policy!EndCall
      BY <2>3, <3>1 DEF FetchRaises, cacheVars, Policy!EndCall
    <3> QED
      BY <3>2
  <2> QED
    BY <1>5, <2>1, <2>2, <2>3 DEF Resume
<1>6. CASE Environment
  <2> USE DEF cacheVars, lockVars, taskVars
  <2>1. CASE Tick
    <3>1. Policy!TimePasses
      BY <2>1 DEF Tick, Policy!TimePasses
    <3> QED
      BY <3>1
  <2>2. ASSUME NEW kind \in ReplyKinds, KeycloakReplies(kind)
        PROVE  UNCHANGED Policy!fetchVars
    BY <2>2 DEF KeycloakReplies
  <2>3. ASSUME NEW k \in Kids, Publish(k) \/ Withdraw(k)
        PROVE  UNCHANGED Policy!fetchVars
    BY <2>3 DEF Publish, Withdraw
  <2> QED
    BY <1>6, <2>1, <2>2, <2>3 DEF Environment
<1>7. CASE UNCHANGED vars
  BY <1>7 DEF vars, envVars, cacheVars, lockVars, taskVars
<1> QED
  BY <1>1, <1>2, <1>3, <1>4, <1>5, <1>6, <1>7 DEF Next

\* The key cache implements the safety part of KeyFetching: calls to Keycloak do
\* not overlap and are spaced, and only a finished call changes the keys.
THEOREM ImplementsPolicy == Spec => Policy!FetchSpec
<1>1. Init => Policy!FetchInit
  BY JWKSAssumption DEF Init, Policy!FetchInit, Calling, Tasks, Fetching
<1>2. TypeOK /\ IndInv /\ [Next]_vars => [Policy!FetchNext]_(Policy!fetchVars)
  BY StepKeepsPolicy
<1> QED
  BY <1>1, <1>2, Inductive, PTL DEF Spec, Policy!FetchSpec

\* No two attempts are closer than the interval, whatever the reason for them.
THEOREM AttemptsSpaced == Spec => FetchesSpaced
<1> DEFINE Spaced ==
      ~Calling /\ Calling'
        => attemptedAt = Never \/ attemptedAt' - attemptedAt >= MinRefreshInterval
<1>1. TypeOK /\ IndInv /\ [Next]_vars => [Spaced]_vars
  BY StepKeepsPolicy
     DEF Policy!FetchNext, Policy!fetchVars, Policy!BeginCall, Policy!EndCall,
         Policy!TimePasses
<1> QED
  BY <1>1, Inductive, PTL DEF Spec, FetchesSpaced

----------------------------------------------------------------------------
(* What a refused lookup says of the cache.                                 *)

\* The two ways a lookup ends without its key: the verdict, on a cache that lacks
\* the key, or its own fetch ends with an exception nobody catches.
LEMMA RefusalStep ==
  ASSUME TypeOK, IndInv, [Next]_vars, NEW t \in Lookups, Refused(t)
  PROVE  \/ FetchRaises(t)
         \/ /\ Verdict(t) /\ kid[t] \notin jwks /\ UNCHANGED <<envVars, cacheVars>>
            /\ reply.status = "none"
            /\ answer'[t] = "unknown" => ~lastFetchFailed
<1> USE JWKSAssumption DEF TypeOK, Tasks, Fetching, Checking, Waiting, Refused,
        LookupPoints, StartupPoints
<1>1. Verdict(t) \/ FetchRaises(t)
  <2>1. ~(RefreshKeys \/ RefreshKeysReturns)
    BY DEF RefreshKeys, RefreshKeysReturns
  <2>2. ASSUME NEW s \in Lookups, NEW k \in Kids, GetKey(s, k) PROVE FALSE
    BY <2>2 DEF GetKey
  <2>3. ASSUME NEW s \in Lookups, Step(s) PROVE Verdict(t)
    BY <2>3 DEF Step, At, Goto, Reply, BeginFetch, Acquire, Verdict,
                RefreshLeftToOther, RefreshAcquire, RefreshNotNeeded, RefreshFetch,
                KeyFound, KeyMissing, RefetchNotNeeded, RefetchFetch
  <2>4. ASSUME NEW s \in Lookups, Resume(s) PROVE FetchRaises(t)
    <3>1. ~TakeLock(s) /\ ~FetchReturns(s)
      BY DEF TakeLock, FetchReturns, FetchEnded
    <3>2. FetchRaises(s) /\ s = t
      BY <2>4, <3>1 DEF Resume, FetchRaises
    <3> QED
      BY <3>2
  <2>5. ~Environment
    BY DEF Environment, Tick, KeycloakReplies, Publish, Withdraw, taskVars
  <2>6. ~UNCHANGED vars
    BY DEF vars, taskVars
  <2> QED
    BY <2>1, <2>2, <2>3, <2>4, <2>5, <2>6 DEF Next
<1>2. CASE Verdict(t)
  <2>1. reply.status = "none"
    BY <1>2 DEF Verdict, At, IndInv, VerdictUnlocked, OneFetchAtATime, CallHasOwner
  <2>2. answer'[t] = IF kid[t] \in jwks THEN "key"
                     ELSE IF lastFetchFailed THEN "unavailable" ELSE "unknown"
    BY <1>2 DEF Verdict, Reply
  <2> QED
    BY <1>2, <2>1, <2>2 DEF Verdict
<1> QED
  BY <1>1, <1>2

\* The keys in the cache keep working when a fetch fails: no failure removes one,
\* and no lookup is refused a key that is there, but the one whose own fetch ends
\* with an exception that _fetch() does not catch.
THEOREM CacheSurvives == Spec => CachedKeysWork
<1> DEFINE Works ==
      /\ jwks' # jwks => reply.status = "ok" /\ jwks' = reply.keys
      /\ \A t \in Lookups :
            Refused(t) /\ kid[t] \in jwks' => FetchRaises(t)
<1>1. ASSUME TypeOK, IndInv, [Next]_vars, jwks' # jwks
      PROVE  reply.status = "ok" /\ jwks' = reply.keys
  BY <1>1 DEF Next, vars, envVars, cacheVars, RefreshKeys, RefreshKeysReturns,
              StoreReply, GetKey, Step, Resume, RefreshLeftToOther, RefreshAcquire,
              RefreshNotNeeded, RefreshFetch, KeyFound, KeyMissing,
              RefetchNotNeeded, RefetchFetch, Verdict, BeginFetch, TakeLock,
              FetchReturns, FetchRaises, Environment, Tick, KeycloakReplies,
              Publish, Withdraw
<1>2. TypeOK /\ IndInv /\ [Next]_vars => [Works]_vars
  BY <1>1, RefusalStep DEF cacheVars
<1> QED
  BY <1>2, Inductive, PTL DEF Spec, CachedKeysWork

----------------------------------------------------------------------------
(* What callers see over time: JWKSHistory.                                 *)

\* The history is only watched: a behaviour with it is one of the key cache.
THEOREM HistoryAddsNothing == HistorySpec => Spec
<1>1. HistoryInit => Init
  BY DEF HistoryInit
<1>2. [HistoryNext]_historyVars => [Next]_vars
  BY DEF HistoryNext, historyVars
<1> QED
  BY <1>1, <1>2, PTL DEF HistorySpec, Spec

\* A lookup between two awaits has the loop.
RunsAlone ==
    \A t \in Lookups :
        pc[t] \in {"find", "refresh", "verdict"} \cup Checking => running = t

\* Who waits for a GET has one in flight.
CallInFlight == Calling => reply.status # "none"

LoopInv == RunsAlone /\ CallInFlight

\* The event loop runs one task at a time, and no step changes that.
LEMMA LoopInvStep == TypeOK /\ IndInv /\ LoopInv /\ [Next]_vars => LoopInv'
<1> SUFFICES ASSUME TypeOK, IndInv, LoopInv, [Next]_vars PROVE LoopInv'
  OBVIOUS
<1> USE JWKSAssumption DEF TypeOK, Tasks, Fetching, Checking, Waiting,
        LookupPoints, StartupPoints, NoCall, Pending, IndInv, OneFetchAtATime,
        LoopInv, RunsAlone, CallInFlight, Calling
<1>1. CASE RefreshKeys
  BY <1>1 DEF RefreshKeys
<1>2. CASE RefreshKeysReturns
  BY <1>2 DEF RefreshKeysReturns, FetchEnded
<1>3. ASSUME NEW t \in Lookups, NEW k \in Kids, GetKey(t, k) PROVE LoopInv'
  BY <1>3 DEF GetKey, envVars, cacheVars, lockVars
<1>4. ASSUME NEW t \in Lookups, Step(t) PROVE LoopInv'
  <2> USE DEF At, Goto, Reply, Release, envVars, cacheVars, lockVars
  <2>1. CASE RefreshLeftToOther(t)
    BY <2>1 DEF RefreshLeftToOther
  <2>2. CASE RefreshAcquire(t)
    BY <2>2 DEF RefreshAcquire, Acquire
  <2>3. CASE RefreshNotNeeded(t)
    BY <2>3 DEF RefreshNotNeeded
  <2>4. CASE RefreshFetch(t)
    BY <2>4 DEF RefreshFetch, BeginFetch
  <2>5. CASE KeyFound(t)
    BY <2>5 DEF KeyFound
  <2>6. CASE KeyMissing(t)
    BY <2>6 DEF KeyMissing, Acquire
  <2>7. CASE RefetchNotNeeded(t)
    BY <2>7 DEF RefetchNotNeeded
  <2>8. CASE RefetchFetch(t)
    BY <2>8 DEF RefetchFetch, BeginFetch
  <2>9. CASE Verdict(t)
    BY <2>9 DEF Verdict
  <2> QED
    BY <1>4, <2>1, <2>2, <2>3, <2>4, <2>5, <2>6, <2>7, <2>8, <2>9 DEF Step
<1>5. ASSUME NEW t \in Lookups, Resume(t) PROVE LoopInv'
  <2>1. CASE TakeLock(t)
    BY <2>1 DEF TakeLock, envVars, cacheVars
  <2>2. CASE FetchReturns(t)
    BY <2>2 DEF FetchReturns, FetchEnded
  <2>3. CASE FetchRaises(t)
    BY <2>3 DEF FetchRaises, FetchEnded
  <2> QED
    BY <1>5, <2>1, <2>2, <2>3 DEF Resume
<1>6. CASE Environment
  <2> USE DEF taskVars
  <2>1. CASE Tick
    BY <2>1 DEF Tick
  <2>2. ASSUME NEW kind \in ReplyKinds, KeycloakReplies(kind) PROVE LoopInv'
    BY <2>2 DEF KeycloakReplies
  <2>3. ASSUME NEW k \in Kids, Publish(k) \/ Withdraw(k) PROVE LoopInv'
    BY <2>3 DEF Publish, Withdraw
  <2> QED
    BY <1>6, <2>1, <2>2, <2>3 DEF Environment
<1>7. CASE UNCHANGED vars
  BY <1>7 DEF vars, envVars, taskVars
<1> QED
  BY <1>1, <1>2, <1>3, <1>4, <1>5, <1>6, <1>7 DEF Next

\* Who is in the queue of the lock waits for it, and is there once.
Queued ==
    /\ \A i \in 1..Len(waiters) : pc[waiters[i]] \in Waiting
    /\ \A i, j \in 1..Len(waiters) : waiters[i] = waiters[j] => i = j

\* Asking for the lock, at once or at the end of the queue.
LEMMA AcquireQueued ==
  ASSUME TypeOK, Queued, NEW t \in Lookups, pc[t] \notin Waiting,
         NEW held \in LookupPoints, NEW queued \in Waiting, Acquire(t, held, queued)
  PROVE  Queued'
<1> USE DEF TypeOK, Tasks
<1>1. CASE LockIsFree
  BY <1>1 DEF Acquire, LockIsFree, Queued
<1>2. CASE ~LockIsFree
  <2>1. waiters' = Append(waiters, t) /\ pc' = [pc EXCEPT ![t] = queued]
    BY <1>2 DEF Acquire
  <2>2. Len(waiters') = Len(waiters) + 1
    BY <2>1
  <2>3. \A i \in 1..Len(waiters) : waiters'[i] = waiters[i] /\ waiters[i] \in Lookups
    BY <2>1
  <2>4. waiters'[Len(waiters) + 1] = t
    BY <2>1
  <2>5. \A i \in 1..Len(waiters) : waiters[i] # t
    BY DEF Queued
  <2>6. \A i \in 1..Len(waiters') : i \in 1..Len(waiters) \/ i = Len(waiters) + 1
    BY <2>2
  <2>7. \A i \in 1..Len(waiters') : pc'[waiters'[i]] \in Waiting
    BY <2>1, <2>3, <2>4, <2>5, <2>6 DEF Queued
  <2>8. \A i, j \in 1..Len(waiters') : waiters'[i] = waiters'[j] => i = j
    BY <2>3, <2>4, <2>5, <2>6 DEF Queued
  <2> QED
    BY <2>7, <2>8 DEF Queued
<1> QED
  BY <1>1, <1>2

\* The first waiter leaves the queue when it takes the lock.
LEMMA TakeLockQueued ==
  ASSUME TypeOK, Queued, NEW t \in Lookups, TakeLock(t)
  PROVE  Queued'
<1> USE DEF TypeOK, Tasks
<1>1. /\ waiters # <<>> /\ Head(waiters) = t /\ waiters' = Tail(waiters)
      /\ \A s \in Lookups : s # t => pc'[s] = pc[s]
  BY DEF TakeLock
<1>2. Len(waiters') = Len(waiters) - 1 /\ Len(waiters) \in Nat /\ t = waiters[1]
  BY <1>1
<1>3. \A i \in 1..Len(waiters') :
         /\ waiters'[i] = waiters[i + 1] /\ i + 1 \in 1..Len(waiters)
         /\ waiters[i + 1] \in Lookups /\ waiters[i + 1] # t
  BY <1>1, <1>2 DEF Queued
<1>4. \A i \in 1..Len(waiters') : pc'[waiters'[i]] \in Waiting
  BY <1>1, <1>3 DEF Queued
<1>5. ASSUME NEW i \in 1..Len(waiters'), NEW j \in 1..Len(waiters'),
             waiters'[i] = waiters'[j]
      PROVE  i = j
  <2>1. i + 1 = j + 1
    BY <1>3, <1>5 DEF Queued
  <2> QED
    BY <2>1
<1> QED
  BY <1>4, <1>5 DEF Queued

\* Tasks queue for the lock once each, whatever step is taken.
LEMMA QueuedStep == TypeOK /\ Queued /\ [Next]_vars => Queued'
<1> SUFFICES ASSUME TypeOK, Queued, [Next]_vars PROVE Queued'
  OBVIOUS
\* Any other step of a task that is not waiting leaves the queue as it is.
<1>1. ASSUME NEW t \in Tasks, pc[t] \notin Waiting, waiters' = waiters,
             \A s \in Tasks : s # t => pc'[s] = pc[s]
      PROVE  Queued'
  BY <1>1 DEF Queued, TypeOK, Tasks
<1>2. pc' = pc /\ waiters' = waiters => Queued'
  BY DEF Queued
<1> USE DEF Fetching, Checking, Waiting, Tasks
<1>3. CASE RefreshKeys \/ RefreshKeysReturns
  BY <1>1, <1>3 DEF RefreshKeys, RefreshKeysReturns, FetchEnded, Release, TypeOK,
                    StartupPoints
<1>4. ASSUME NEW t \in Lookups, NEW k \in Kids, GetKey(t, k) PROVE Queued'
  BY <1>1, <1>4 DEF GetKey, lockVars, TypeOK
<1>5. ASSUME NEW t \in Lookups, Step(t) PROVE Queued'
  <2> USE DEF At, Goto, Reply, Release, lockVars
  <2>1. CASE RefreshAcquire(t)
    BY <2>1, AcquireQueued DEF RefreshAcquire, LookupPoints
  <2>2. CASE KeyMissing(t)
    BY <2>2, AcquireQueued DEF KeyMissing, LookupPoints
  <2>3. CASE ~RefreshAcquire(t) /\ ~KeyMissing(t)
    <3>1. pc[t] \notin Waiting /\ waiters' = waiters
      BY <1>5, <2>3 DEF Step, RefreshLeftToOther, RefreshNotNeeded, RefreshFetch,
                 KeyFound, RefetchNotNeeded, RefetchFetch, Verdict, BeginFetch
    <3>2. \A s \in Tasks : s # t => pc'[s] = pc[s]
      BY <1>5, <2>3 DEF Step, RefreshLeftToOther, RefreshNotNeeded, RefreshFetch,
                 KeyFound, RefetchNotNeeded, RefetchFetch, Verdict, BeginFetch, TypeOK
    <3> QED
      BY <1>1, <3>1, <3>2
  <2> QED
    BY <2>1, <2>2, <2>3
<1>6. ASSUME NEW t \in Lookups, Resume(t) PROVE Queued'
  <2>1. CASE TakeLock(t)
    BY <2>1, TakeLockQueued
  <2>2. CASE FetchReturns(t) \/ FetchRaises(t)
    BY <1>1, <2>2 DEF FetchReturns, FetchRaises, FetchEnded, Release, TypeOK
  <2> QED
    BY <1>6, <2>1, <2>2 DEF Resume
<1>7. CASE Environment
  BY <1>2, <1>7 DEF Environment, Tick, KeycloakReplies, Publish, Withdraw,
                    lockVars, taskVars
<1>8. CASE UNCHANGED vars
  BY <1>2, <1>8 DEF vars, lockVars, taskVars
<1> QED
  BY <1>3, <1>4, <1>5, <1>6, <1>7, <1>8 DEF Next

\* The keys a lookup would get now are not too old, or a refresh of them is in
\* flight, or was attempted late enough.
Fresh(t) ==
    \/ startedAt[t] - fetchedAt < CacheTTL
    \/ startedAt[t] - attemptedAt < MinRefreshInterval
    \/ reply # NoCall

\* A lookup began in the past, and not before its client was allowed to retry.
Began(t) ==
    pc[t] # "idle" =>
        /\ startedAt[t] <= now
        /\ toldAt[t] # Never => startedAt[t] - toldAt[t] >= MinRefreshInterval

\* What a lookup knows of the last attempt and of the keys, point by point.
Progress(t) ==
    /\ pc[t] \in {"refresh_fetch", "refetch_fetch"} => attemptedAt >= startedAt[t]
    /\ pc[t] \in {"refetch_wait", "refetch_locked"} /\ kid[t] \in jwks
          => fetchedAt >= startedAt[t]
    /\ pc[t] = "find" => Fresh(t)
    /\ pc[t] = "verdict" =>
          /\ kid[t] \in jwks => Fresh(t)
          /\ kid[t] \notin jwks => startedAt[t] - attemptedAt < MinRefreshInterval

HistoryTypeOK ==
    /\ startedAt \in [Lookups -> Time]
    /\ toldAt \in [Lookups -> Time \cup {Never}]
    /\ uncaught \in BOOLEAN
    /\ fetchedAt <= now

HistInv == HistoryTypeOK /\ \A t \in Lookups : Began(t) /\ Progress(t)

\* The clock and the attempts only go forward, and keys change by a fetch that
\* ends now.
LEMMA TimeGoesOn ==
  ASSUME TypeOK, IndInv, HistoryTypeOK, [Next]_vars
  PROVE  /\ now <= now'
         /\ attemptedAt <= attemptedAt'
         /\ fetchedAt' <= now'
         /\ UNCHANGED <<jwks, fetchedAt>> \/ fetchedAt' = now'
<1> USE DEF TypeOK, HistoryTypeOK, Time, Never, IndInv, AttemptsInPast
<1>1. now' \in Int /\ now' >= now
  BY DEF Next, vars, envVars, RefreshKeys, RefreshKeysReturns, GetKey, Step, Resume,
         RefreshLeftToOther, RefreshAcquire, RefreshNotNeeded, RefreshFetch,
         KeyFound, KeyMissing, RefetchNotNeeded, RefetchFetch, Verdict, BeginFetch,
         TakeLock, FetchReturns, FetchRaises, Environment, Tick, KeycloakReplies,
         Publish, Withdraw
<1>2. attemptedAt' = attemptedAt \/ attemptedAt' = now
  BY DEF Next, vars, cacheVars, RefreshKeys, RefreshKeysReturns, GetKey, Step,
         Resume, RefreshLeftToOther, RefreshAcquire, RefreshNotNeeded, RefreshFetch,
         KeyFound, KeyMissing, RefetchNotNeeded, RefetchFetch, Verdict, BeginFetch,
         TakeLock, FetchReturns, FetchRaises, Environment, Tick, KeycloakReplies,
         Publish, Withdraw
<1>3. UNCHANGED <<jwks, fetchedAt>> \/ (fetchedAt' = now /\ now' = now)
  BY DEF Next, vars, cacheVars, RefreshKeys, RefreshKeysReturns, GetKey, Step,
         Resume, RefreshLeftToOther, RefreshAcquire, RefreshNotNeeded, RefreshFetch,
         KeyFound, KeyMissing, RefetchNotNeeded, RefetchFetch, Verdict, BeginFetch,
         TakeLock, FetchReturns, FetchRaises, Environment, Tick, KeycloakReplies,
         Publish, Withdraw, StoreReply
<1> QED
  BY <1>1, <1>2, <1>3

\* The history variables keep their types.
LEMMA HistoryTypeStep ==
  TypeOK /\ IndInv /\ HistoryTypeOK /\ [HistoryNext]_historyVars => HistoryTypeOK'
<1> SUFFICES ASSUME TypeOK, IndInv, HistoryTypeOK, [HistoryNext]_historyVars
             PROVE  HistoryTypeOK'
  OBVIOUS
<1>1. [Next]_vars
  BY DEF HistoryNext, historyVars
<1>2. fetchedAt' <= now'
  BY <1>1, TimeGoesOn
<1>3. startedAt' \in [Lookups -> Time] /\ toldAt' \in [Lookups -> Time \cup {Never}]
  <2>1. CASE UNCHANGED historyVars
    BY <2>1 DEF historyVars, HistoryTypeOK
  <2>2. CASE HistoryNext
    <3>1. now \in Time /\ 0 \in Time
      BY JWKSAssumption DEF TypeOK, Time
    <3>2. startedAt' \in [Lookups -> Time]
      BY <2>2, <3>1 DEF HistoryNext, HistoryTypeOK
    <3>3. toldAt' \in [Lookups -> Time \cup {Never}]
      BY <2>2, <3>1 DEF HistoryNext, HistoryTypeOK
    <3> QED
      BY <3>2, <3>3
  <2> QED
    BY <2>1, <2>2
<1>4. uncaught' \in BOOLEAN
  BY DEF HistoryNext, historyVars, HistoryTypeOK
<1> QED
  BY <1>2, <1>3, <1>4 DEF HistoryTypeOK

\* A step that leaves a lookup where it is, and not at the point of an answer,
\* keeps what the lookup knows.
LEMMA Bystander ==
  ASSUME TypeOK, TypeOK', IndInv, HistInv, HistoryNext, NEW t \in Lookups,
         pc'[t] = pc[t], kid'[t] = kid[t], pc[t] \notin {"find", "verdict"}
  PROVE  (Began(t) /\ Progress(t))'
<1> USE DEF HistInv, HistoryTypeOK, TypeOK, Time, Never
<1>1. startedAt'[t] = startedAt[t] /\ toldAt'[t] = toldAt[t]
  BY DEF HistoryNext, Starts, Ends
<1>2. /\ now <= now' /\ attemptedAt <= attemptedAt'
      /\ UNCHANGED <<jwks, fetchedAt>> \/ fetchedAt' = now'
  BY TimeGoesOn DEF HistoryNext
<1>3. Began(t) /\ Progress(t)
  OBVIOUS
<1>4. Began(t)'
  BY <1>1, <1>2, <1>3 DEF Began
<1>5. Progress(t)'
  BY <1>1, <1>2, <1>3, <1>4 DEF Progress, Began
<1> QED
  BY <1>4, <1>5

\* The step in which a lookup begins.
LEMMA GetKeyProgress ==
  ASSUME TypeOK, TypeOK', HistInv, HistoryNext, NEW t \in Lookups, NEW k \in Kids,
         GetKey(t, k)
  PROVE  (Began(t) /\ Progress(t))'
<1> USE DEF HistInv, HistoryTypeOK, TypeOK, Time, Never, Tasks
<1>1. /\ pc[t] = "idle" /\ pc'[t] \in {"find", "refresh"}
      /\ pc'[t] = "find" => IsCacheValid
      /\ UNCHANGED <<envVars, cacheVars>>
  BY DEF GetKey
<1>2. startedAt'[t] = now /\ toldAt'[t] = IF Patient(t) THEN toldAt[t] ELSE Never
  BY <1>1 DEF HistoryNext, Starts
<1>3. Began(t)'
  BY <1>1, <1>2 DEF Began, Patient, envVars
<1>4. Progress(t)'
  BY <1>1, <1>2 DEF Progress, Fresh, IsCacheValid, envVars, cacheVars
<1> QED
  BY <1>3, <1>4

\* A lookup that goes on keeps its beginning.
LEMMA KeepsBeginning ==
  ASSUME TypeOK, TypeOK', IndInv, HistInv, HistoryNext, NEW t \in Lookups,
         pc[t] # "idle"
  PROVE  /\ Began(t)'
         /\ pc'[t] # "idle" => startedAt'[t] = startedAt[t]
<1>1. pc'[t] # "idle" => startedAt'[t] = startedAt[t] /\ toldAt'[t] = toldAt[t]
  BY DEF HistoryNext, Starts, Ends
<1>2. now <= now'
  BY TimeGoesOn DEF HistoryNext, HistInv
<1> QED
  BY <1>1, <1>2 DEF Began, HistInv, HistoryTypeOK, TypeOK, Time, Never

\* The steps of a lookup that has the loop.
LEMMA StepProgress ==
  ASSUME TypeOK, TypeOK', IndInv, LoopInv, HistInv, HistoryNext,
         NEW t \in Lookups, Step(t)
  PROVE  Progress(t)'
<1> USE JWKSAssumption DEF HistInv, HistoryTypeOK, TypeOK, Time, Never, Tasks,
        At, Goto, Reply, Release, envVars, cacheVars, lockVars, Progress
<1>1. Began(t) /\ Progress(t)
  OBVIOUS
<1>2. pc[t] # "idle" => (pc'[t] # "idle" => startedAt'[t] = startedAt[t])
  BY KeepsBeginning
<1>3. pc[t] # "idle" => startedAt[t] <= now
  BY <1>1 DEF Began
<1>4. CASE RefreshLeftToOther(t)
  <2>1. reply.status # "none"
    BY <1>4 DEF RefreshLeftToOther, IndInv, OneFetchAtATime, LoopInv, RunsAlone,
                CallInFlight, Calling, Fetching, Checking, StartupPoints
  <2> QED
    BY <1>2, <1>4, <2>1 DEF RefreshLeftToOther, Fresh, NoCall
<1>5. CASE RefreshAcquire(t)
  BY <1>5 DEF RefreshAcquire, Acquire
<1>6. CASE RefreshNotNeeded(t)
  <2>1. /\ pc[t] = "refresh_locked" /\ pc'[t] = "find"
        /\ UNCHANGED <<now, reply, jwks, fetchedAt, attemptedAt>>
    BY <1>6 DEF RefreshNotNeeded
  <2>2. Fresh(t)
    BY <1>3, <1>6, <2>1 DEF RefreshNotNeeded, Fresh, IsCacheValid, FetchedRecently
  <2> QED
    BY <1>2, <2>1, <2>2 DEF Fresh
<1>7. CASE RefreshFetch(t)
  BY <1>2, <1>3, <1>7 DEF RefreshFetch, BeginFetch
<1>8. CASE KeyFound(t)
  BY <1>8 DEF KeyFound
<1>9. CASE KeyMissing(t)
  BY <1>9 DEF KeyMissing, Acquire
<1>10. CASE RefetchNotNeeded(t)
  <2>1. /\ pc[t] = "refetch_locked" /\ pc'[t] = "verdict"
        /\ UNCHANGED <<now, reply, jwks, fetchedAt, attemptedAt, kid>>
    BY <1>10 DEF RefetchNotNeeded
  <2>2. kid[t] \in jwks => startedAt[t] - fetchedAt < CacheTTL
    BY <1>1, <1>3, <2>1
  <2>3. kid[t] \notin jwks => startedAt[t] - attemptedAt < MinRefreshInterval
    BY <1>3, <1>10, <2>1 DEF RefetchNotNeeded, FetchedRecently
  <2> QED
    BY <1>2, <2>1, <2>2, <2>3 DEF Fresh
<1>11. CASE RefetchFetch(t)
  BY <1>2, <1>3, <1>11 DEF RefetchFetch, BeginFetch
<1>12. CASE Verdict(t)
  BY <1>12 DEF Verdict
<1> QED
  BY <1>4, <1>5, <1>6, <1>7, <1>8, <1>9, <1>10, <1>11, <1>12 DEF Step

\* The steps that give a lookup the loop.
LEMMA ResumeProgress ==
  ASSUME TypeOK, TypeOK', IndInv, Queued, HistInv, HistoryNext,
         NEW t \in Lookups, Resume(t), pc[t] # "idle"
  PROVE  Progress(t)'
<1> USE JWKSAssumption DEF HistInv, HistoryTypeOK, TypeOK, Time, Never, Tasks,
        Release, envVars, cacheVars, Progress
<1>1. Began(t) /\ Progress(t)
  OBVIOUS
<1>2. pc'[t] # "idle" => startedAt'[t] = startedAt[t]
  BY KeepsBeginning
<1>3. startedAt[t] <= now
  BY <1>1 DEF Began
<1>4. CASE TakeLock(t)
  <2>1. pc[t] \in Waiting
    BY <1>4 DEF TakeLock, Queued
  <2> QED
    BY <1>1, <1>2, <1>4, <2>1 DEF TakeLock, Waiting
<1>5. CASE FetchReturns(t)
  <2>1. pc[t] \in {"refresh_fetch", "refetch_fetch"}
    BY <1>5 DEF FetchReturns, FetchEnded, Fetching, LookupPoints, Checking, Waiting
  <2>2. startedAt[t] - attemptedAt < MinRefreshInterval
    BY <1>1, <2>1
  <2> QED
    BY <1>2, <1>5, <2>1, <2>2 DEF FetchReturns, Fresh
<1>6. CASE FetchRaises(t)
  BY <1>6 DEF FetchRaises, FetchEnded
<1> QED
  BY <1>4, <1>5, <1>6 DEF Resume

\* What the history says of each lookup stays true with every step.
LEMMA HistInvStep ==
  /\ TypeOK /\ TypeOK' /\ IndInv /\ LoopInv /\ Queued /\ HistInv
  /\ [HistoryNext]_historyVars
  => HistInv'
<1> SUFFICES ASSUME TypeOK, TypeOK', IndInv, LoopInv, Queued, HistInv,
                    [HistoryNext]_historyVars
             PROVE  HistInv'
  OBVIOUS
<1>1. HistoryTypeOK'
  BY HistoryTypeStep DEF HistInv
<1>2. CASE UNCHANGED historyVars
  BY <1>1, <1>2 DEF historyVars, vars, envVars, cacheVars, taskVars, HistInv,
                    Began, Progress, Fresh
<1>3. ASSUME HistoryNext, NEW s \in Lookups PROVE (Began(s) /\ Progress(s))'
  <2> USE <1>3 DEF TypeOK, Tasks
  <2>1. ASSUME pc'[s] = pc[s], kid'[s] = kid[s], running # s
        PROVE  (Began(s) /\ Progress(s))'
    <3>1. pc[s] \notin {"find", "verdict"}
      BY <2>1 DEF LoopInv, RunsAlone
    <3> QED
      BY <2>1, <3>1, Bystander
  <2>2. CASE RefreshKeys \/ RefreshKeysReturns
    BY <2>1, <2>2, JWKSAssumption DEF RefreshKeys, RefreshKeysReturns, FetchEnded
  <2>3. ASSUME NEW t \in Lookups, NEW k \in Kids, GetKey(t, k)
        PROVE  (Began(s) /\ Progress(s))'
    <3>1. CASE s = t
      BY <2>3, <3>1, GetKeyProgress
    <3>2. CASE s # t
      BY <2>1, <2>3, <3>2, JWKSAssumption DEF GetKey
    <3> QED
      BY <3>1, <3>2
  <2>4. ASSUME NEW t \in Lookups, Step(t) PROVE (Began(s) /\ Progress(s))'
    <3>1. pc[t] # "idle" /\ running = t
      BY <2>4 DEF Step, At, RefreshLeftToOther, RefreshAcquire, RefreshNotNeeded,
                  RefreshFetch, KeyFound, KeyMissing, RefetchNotNeeded,
                  RefetchFetch, Verdict
    <3>2. CASE s = t
      BY <2>4, <3>1, <3>2, KeepsBeginning, StepProgress
    <3>3. CASE s # t
      <4>1. pc'[s] = pc[s] /\ kid'[s] = kid[s]
        BY <2>4, <3>3 DEF Step, At, Goto, Reply, Acquire, BeginFetch,
                  RefreshLeftToOther, RefreshAcquire, RefreshNotNeeded,
                  RefreshFetch, KeyFound, KeyMissing, RefetchNotNeeded,
                  RefetchFetch, Verdict
      <4> QED
        BY <2>1, <3>1, <3>3, <4>1
    <3> QED
      BY <3>2, <3>3
  <2>5. ASSUME NEW t \in Lookups, Resume(t) PROVE (Began(s) /\ Progress(s))'
    <3>1. pc[t] # "idle" /\ running = NoTask
      BY <2>5 DEF Resume, TakeLock, FetchReturns, FetchRaises, FetchEnded,
                  Fetching, Waiting, Queued
    <3>2. CASE s = t
      BY <2>5, <3>1, <3>2, KeepsBeginning, ResumeProgress
    <3>3. CASE s # t
      BY <2>1, <2>5, <3>1, <3>3, JWKSAssumption
         DEF Resume, TakeLock, FetchReturns, FetchRaises
    <3> QED
      BY <3>2, <3>3
  <2>6. CASE Environment
    BY <2>1, <2>6, JWKSAssumption
       DEF Environment, Tick, KeycloakReplies, Publish, Withdraw, taskVars
  <2> QED
    BY <2>2, <2>3, <2>4, <2>5, <2>6 DEF HistoryNext, Next
<1> QED
  BY <1>1, <1>2, <1>3 DEF HistInv

\* The invariants hold in every state of the key cache with its history.
LEMMA HistoryInductive ==
  HistorySpec => [](TypeOK /\ IndInv /\ LoopInv /\ Queued /\ HistInv)
<1>1. HistoryInit => LoopInv /\ Queued /\ HistInv
  <2> SUFFICES ASSUME HistoryInit PROVE LoopInv /\ Queued /\ HistInv
    OBVIOUS
  <2> USE JWKSAssumption DEF HistoryInit, Init, Tasks, Time, Never
  <2>1. \A t \in Tasks : pc[t] \notin Fetching
    BY DEF Fetching
  <2>2. \A t \in Lookups : pc[t] = "idle"
    OBVIOUS
  <2>3. LoopInv
    BY <2>1, <2>2 DEF LoopInv, RunsAlone, CallInFlight, Calling, Checking
  <2>4. Queued
    BY DEF Queued
  <2>5. HistInv
    <3>1. uncaught = FALSE /\ fetchedAt <= now
      OBVIOUS
    <3>2. startedAt \in [Lookups -> Time] /\ toldAt \in [Lookups -> Time \cup {Never}]
      OBVIOUS
    <3>3. HistoryTypeOK
      BY <3>1, <3>2 DEF HistoryTypeOK
    <3>4. \A t \in Lookups : Began(t) /\ Progress(t)
      BY <2>2 DEF Began, Progress
    <3> QED
      BY <3>3, <3>4 DEF HistInv
  <2> QED
    BY <2>3, <2>4, <2>5
<1>2. [HistoryNext]_historyVars => [Next]_vars
  BY DEF HistoryNext, historyVars
<1>3. HistorySpec => [](TypeOK /\ IndInv)
  BY HistoryAddsNothing, Inductive
<1>4. TypeOK /\ IndInv /\ LoopInv /\ [Next]_vars => LoopInv'
  BY LoopInvStep
<1>5. TypeOK /\ Queued /\ [Next]_vars => Queued'
  BY QueuedStep
<1>6. /\ TypeOK /\ TypeOK' /\ IndInv /\ LoopInv /\ Queued /\ HistInv
      /\ [HistoryNext]_historyVars
      => HistInv'
  BY HistInvStep
<1> QED
  BY <1>1, <1>2, <1>3, <1>4, <1>5, <1>6, PTL DEF HistorySpec

\* The step with which a lookup gets an answer, other than a failed fetch.
LEMMA AnswerStep ==
  ASSUME TypeOK, [Next]_vars, NEW t \in Lookups, Ends(t), answer'[t] # "error"
  PROVE  /\ UNCHANGED <<envVars, cacheVars>>
         /\ \/ pc[t] = "find" /\ answer'[t] = "key"
            \/ /\ pc[t] = "verdict"
               /\ (answer'[t] = "key") <=> (kid[t] \in jwks)
<1> USE JWKSAssumption DEF TypeOK, Tasks, Fetching, Checking, Waiting, Ends,
        LookupPoints, StartupPoints
<1>1. KeyFound(t) \/ Verdict(t)
  <2>1. ~(RefreshKeys \/ RefreshKeysReturns)
    BY DEF RefreshKeys, RefreshKeysReturns
  <2>2. ASSUME NEW s \in Lookups, NEW k \in Kids, GetKey(s, k) PROVE FALSE
    BY <2>2 DEF GetKey
  <2>3. ASSUME NEW s \in Lookups, Step(s) PROVE KeyFound(t) \/ Verdict(t)
    BY <2>3 DEF Step, At, Goto, Reply, BeginFetch, Acquire, Verdict,
                RefreshLeftToOther, RefreshAcquire, RefreshNotNeeded, RefreshFetch,
                KeyFound, KeyMissing, RefetchNotNeeded, RefetchFetch
  <2>4. ASSUME NEW s \in Lookups, Resume(s) PROVE FALSE
    BY <2>4 DEF Resume, TakeLock, FetchReturns, FetchRaises, FetchEnded
  <2>5. ~Environment
    BY DEF Environment, Tick, KeycloakReplies, Publish, Withdraw, taskVars
  <2>6. ~UNCHANGED vars
    BY DEF vars, taskVars
  <2> QED
    BY <2>1, <2>2, <2>3, <2>4, <2>5, <2>6 DEF Next
<1> QED
  BY <1>1 DEF KeyFound, Verdict, At, Reply

\* A key from an expired cache is only ever handed out under a refresh, however
\* lookups, fetches and the clock interleave.
THEOREM StaleOnlyUnderRefresh == HistorySpec => StaleKeysOnlyUnderRefresh
<1> DEFINE FreshEnough == \A t \in Lookups : Ends(t) /\ answer[t]' = "key" =>
          \/ startedAt[t] - fetchedAt < CacheTTL
          \/ startedAt[t] - attemptedAt < MinRefreshInterval
          \/ reply # NoCall
<1>1. ASSUME TypeOK, HistInv, [HistoryNext]_historyVars PROVE FreshEnough
  <2> SUFFICES ASSUME NEW t \in Lookups, Ends(t), answer[t]' = "key"
               PROVE  Fresh(t)
    BY DEF Fresh
  <2>1. [Next]_vars
    BY <1>1 DEF HistoryNext, historyVars
  <2>2. pc[t] = "find" \/ (pc[t] = "verdict" /\ kid[t] \in jwks)
    BY <1>1, <2>1, AnswerStep
  <2>3. Progress(t)
    BY <1>1 DEF HistInv
  <2> QED
    BY <2>2, <2>3 DEF Progress
<1>2. TypeOK /\ HistInv /\ [HistoryNext]_historyVars => [FreshEnough]_historyVars
  BY <1>1
<1> QED
  BY <1>2, HistoryInductive, PTL DEF HistorySpec, StaleKeysOnlyUnderRefresh

\* A client that waits as long as it was told to never gets its second 503 for
\* the attempt that it got the first one for.
THEOREM RetriesAreWorthwhile == HistorySpec => RetriesAskAgain
<1> DEFINE AsksAgain == \A t \in Lookups :
          Ends(t) /\ toldAt[t] # Never /\ answer[t]' = "unavailable"
             => attemptedAt > toldAt[t]
<1>1. ASSUME TypeOK, HistInv, [HistoryNext]_historyVars PROVE AsksAgain
  <2> SUFFICES ASSUME NEW t \in Lookups, Ends(t), toldAt[t] # Never,
                      answer[t]' = "unavailable"
               PROVE  attemptedAt > toldAt[t]
    OBVIOUS
  <2>1. [Next]_vars
    BY <1>1 DEF HistoryNext, historyVars
  <2>2. pc[t] = "verdict" /\ kid[t] \notin jwks
    BY <1>1, <2>1, AnswerStep
  <2>3. /\ startedAt[t] - toldAt[t] >= MinRefreshInterval
        /\ startedAt[t] - attemptedAt < MinRefreshInterval
    BY <1>1, <2>2 DEF HistInv, Began, Progress
  <2> QED
    BY <1>1, <2>3, JWKSAssumption DEF HistInv, HistoryTypeOK, TypeOK, Time, Never
<1>2. TypeOK /\ HistInv /\ [HistoryNext]_historyVars => [AsksAgain]_historyVars
  BY <1>1
<1> QED
  BY <1>2, HistoryInductive, PTL DEF HistorySpec, RetriesAskAgain

----------------------------------------------------------------------------
(* Whether an unknown key is unknown.                                       *)

\* A key of Keycloak that a complete answer lacks, or that the cache lacks after
\* a fetch that succeeded, was published after that fetch began.
MissingKeysAreNew ==
    /\ reply.status = "ok" =>
          \A k \in PublishedKids : k \in reply.keys \/ published[k] >= attemptedAt
    /\ reply.status = "none" /\ ~lastFetchFailed /\ ~uncaught =>
          \A k \in PublishedKids : k \in jwks \/ published[k] >= attemptedAt

\* Who gives its verdict without a key after a fetch that raised came within the
\* interval after it.
VerdictIsRecent ==
    \A t \in Lookups :
        pc[t] = "verdict" /\ kid[t] \notin jwks /\ uncaught => FetchedRecently

\* A key that is missing after a fetch that succeeded stays newer than the fetch.
LEMMA MissingKeysAreNewStep ==
  ASSUME TypeOK, IndInv, MissingKeysAreNew, HistoryNext
  PROVE  MissingKeysAreNew'
<1> USE JWKSAssumption DEF TypeOK, Tasks, Time, Never, NoCall, Pending,
        MissingKeysAreNew, PublishedKids
<1>0. uncaught' = IF reply # NoCall /\ reply' = NoCall THEN reply.status = "raises"
                                                     ELSE uncaught
  BY DEF HistoryNext
<1>1. CASE RefreshKeys
  BY <1>1 DEF RefreshKeys
<1>2. CASE RefreshKeysReturns
  BY <1>0, <1>2 DEF RefreshKeysReturns, FetchEnded, StoreReply
<1>3. ASSUME NEW t \in Lookups, NEW k \in Kids, GetKey(t, k)
      PROVE  MissingKeysAreNew'
  BY <1>0, <1>3 DEF GetKey, envVars, cacheVars
<1>4. ASSUME NEW t \in Lookups, Step(t) PROVE MissingKeysAreNew'
  <2>1. CASE RefreshFetch(t) \/ RefetchFetch(t)
    BY <2>1 DEF RefreshFetch, RefetchFetch, BeginFetch
  <2>2. CASE UNCHANGED <<envVars, cacheVars>>
    BY <1>0, <2>2 DEF envVars, cacheVars
  <2> QED
    BY <1>4, <2>1, <2>2
       DEF Step, RefreshLeftToOther, RefreshAcquire, RefreshNotNeeded, KeyFound,
           KeyMissing, RefetchNotNeeded, Verdict
<1>5. ASSUME NEW t \in Lookups, Resume(t) PROVE MissingKeysAreNew'
  <2>1. CASE TakeLock(t)
    BY <1>0, <2>1 DEF TakeLock, envVars, cacheVars
  <2>2. CASE FetchReturns(t)
    BY <1>0, <2>2 DEF FetchReturns, FetchEnded, StoreReply
  <2>3. CASE FetchRaises(t)
    BY <1>0, <2>3 DEF FetchRaises, FetchEnded
  <2> QED
    BY <1>5, <2>1, <2>2, <2>3 DEF Resume
<1>6. CASE Environment
  <2> USE DEF cacheVars
  <2>1. CASE Tick
    BY <1>0, <2>1 DEF Tick
  <2>2. ASSUME NEW kind \in ReplyKinds, KeycloakReplies(kind)
        PROVE  MissingKeysAreNew'
    BY <1>0, <2>2 DEF KeycloakReplies
  <2>3. ASSUME NEW k \in Kids, Publish(k) PROVE MissingKeysAreNew'
    BY <1>0, <2>3 DEF Publish, IndInv, AttemptsInPast
  <2>4. ASSUME NEW k \in Kids, Withdraw(k) PROVE MissingKeysAreNew'
    BY <1>0, <2>4 DEF Withdraw
  <2> QED
    BY <1>6, <2>1, <2>2, <2>3, <2>4 DEF Environment
<1> QED
  BY <1>1, <1>2, <1>3, <1>4, <1>5, <1>6 DEF HistoryNext, Next

\* A lookup reaches its verdict from its own fetch, which has not raised then, or
\* within the interval, and keeps the loop until it has given it.
LEMMA VerdictIsRecentStep ==
  ASSUME TypeOK, IndInv, LoopInv, VerdictIsRecent, HistoryNext
  PROVE  VerdictIsRecent'
<1> SUFFICES ASSUME NEW t \in Lookups, pc'[t] = "verdict", kid'[t] \notin jwks',
                    uncaught'
             PROVE  FetchedRecently'
  BY DEF VerdictIsRecent
<1> USE JWKSAssumption DEF TypeOK, Tasks, FetchedRecently, NoCall,
        Fetching, Checking, Waiting, LookupPoints, StartupPoints
<1>1. CASE pc[t] = "verdict"
  <2>1. running = t
    BY <1>1 DEF LoopInv, RunsAlone
  <2>2. running # NoTask
    BY <2>1
  <2>3. UNCHANGED <<envVars, cacheVars, kid>>
    <3>1. ~Environment /\ ~(RefreshKeys \/ RefreshKeysReturns)
      BY <2>2 DEF Environment, Tick, KeycloakReplies, Publish, Withdraw,
                  RefreshKeys, RefreshKeysReturns, FetchEnded
    <3>2. ASSUME NEW s \in Lookups, (\E k \in Kids : GetKey(s, k)) \/ Resume(s)
          PROVE  FALSE
      BY <2>2, <3>2 DEF GetKey, Resume, TakeLock, FetchReturns, FetchRaises,
                  FetchEnded
    <3>3. ASSUME NEW s \in Lookups, Step(s)
          PROVE  UNCHANGED <<envVars, cacheVars, kid>>
      <4>1. s = t /\ pc[s] = "verdict"
        BY <1>1, <2>1, <3>3 DEF Step, At, RefreshLeftToOther, RefreshAcquire,
             RefreshNotNeeded, RefreshFetch, KeyFound, KeyMissing,
             RefetchNotNeeded, RefetchFetch, Verdict
      <4> QED
        BY <3>3, <4>1 DEF Step, At, RefreshLeftToOther, RefreshAcquire,
             RefreshNotNeeded, RefreshFetch, KeyFound, KeyMissing,
             RefetchNotNeeded, RefetchFetch, Verdict
    <3> QED
      BY <3>1, <3>2, <3>3 DEF HistoryNext, Next
  <2>4. uncaught
    BY <2>3 DEF HistoryNext, envVars
  <2> QED
    BY <1>1, <2>3, <2>4 DEF VerdictIsRecent, envVars, cacheVars
<1>2. CASE pc[t] # "verdict"
  <2>1. RefetchNotNeeded(t) \/ FetchReturns(t)
    <3>1. ~Environment /\ ~(RefreshKeys \/ RefreshKeysReturns)
      BY <1>2 DEF Environment, Tick, KeycloakReplies, Publish, Withdraw, taskVars,
                  RefreshKeys, RefreshKeysReturns
    <3>2. ASSUME NEW s \in Lookups, \E k \in Kids : GetKey(s, k) PROVE FALSE
      BY <1>2, <3>2 DEF GetKey
    <3>3. ASSUME NEW s \in Lookups, Resume(s) PROVE FetchReturns(t)
      <4>1. ~TakeLock(s) /\ ~FetchRaises(s)
        BY <1>2 DEF TakeLock, FetchRaises
      <4>2. FetchReturns(s) /\ s = t
        BY <1>2, <3>3, <4>1 DEF Resume, FetchReturns
      <4> QED
        BY <4>2
    <3>4. ASSUME NEW s \in Lookups, Step(s) PROVE RefetchNotNeeded(t)
      BY <1>2, <3>4 DEF Step, At, Goto, Reply, BeginFetch, Acquire, Verdict,
                RefreshLeftToOther, RefreshAcquire, RefreshNotNeeded, RefreshFetch,
                KeyFound, KeyMissing, RefetchNotNeeded, RefetchFetch
    <3> QED
      BY <3>1, <3>2, <3>3, <3>4 DEF HistoryNext, Next
  <2>2. CASE RefetchNotNeeded(t)
    BY <2>2 DEF RefetchNotNeeded, Goto, envVars, cacheVars
  <2>3. CASE FetchReturns(t)
    <3>1. reply # NoCall /\ reply' = NoCall /\ reply.status # "raises"
      BY <2>3 DEF FetchReturns, FetchEnded, StoreReply
    <3>2. ~uncaught'
      BY <3>1 DEF HistoryNext
    <3> QED
      BY <3>2
  <2> QED
    BY <2>1, <2>2, <2>3
<1> QED
  BY <1>1, <1>2

\* "Unknown key" is never said of a key that Keycloak had when the last fetch
\* began, but within the interval after a fetch that raised.
THEOREM UnknownIsTrue == HistorySpec => UnknownKeysAreNew
<1> DEFINE New == \A t \in Lookups :
              Refused(t) /\ answer[t]' = "unknown" /\ kid[t] \in PublishedKids
                => \/ published[kid[t]] >= attemptedAt
                   \/ uncaught /\ FetchedRecently
<1>1. HistoryInit => MissingKeysAreNew /\ VerdictIsRecent
  BY JWKSAssumption DEF HistoryInit, Init, MissingKeysAreNew, VerdictIsRecent,
     PublishedKids, Never, NoCall, Tasks
<1>2. TypeOK /\ IndInv /\ MissingKeysAreNew /\ [HistoryNext]_historyVars
        => MissingKeysAreNew'
  BY MissingKeysAreNewStep
     DEF historyVars, vars, envVars, cacheVars, MissingKeysAreNew, PublishedKids
<1>3. TypeOK /\ IndInv /\ LoopInv /\ VerdictIsRecent /\ [HistoryNext]_historyVars
        => VerdictIsRecent'
  BY VerdictIsRecentStep
     DEF historyVars, vars, envVars, cacheVars, taskVars, VerdictIsRecent,
         FetchedRecently
<1>4. ASSUME TypeOK, IndInv, MissingKeysAreNew, VerdictIsRecent,
             [HistoryNext]_historyVars, NEW t \in Lookups,
             Refused(t), answer[t]' = "unknown", kid[t] \in PublishedKids
      PROVE  published[kid[t]] >= attemptedAt \/ (uncaught /\ FetchedRecently)
  <2>1. [Next]_vars
    BY <1>4 DEF HistoryNext, historyVars
  <2>2. ~FetchRaises(t)
    BY <1>4 DEF FetchRaises, TypeOK
  <2>3. /\ pc[t] = "verdict" /\ kid[t] \notin jwks
        /\ reply.status = "none" /\ ~lastFetchFailed
    BY <1>4, <2>1, <2>2, RefusalStep DEF Verdict, At
  <2> QED
    BY <1>4, <2>3 DEF MissingKeysAreNew, VerdictIsRecent
<1>5. TypeOK /\ IndInv /\ MissingKeysAreNew /\ VerdictIsRecent
        /\ [HistoryNext]_historyVars => [New]_historyVars
  BY <1>4
<1> QED
  BY <1>1, <1>2, <1>3, <1>5, HistoryInductive, PTL DEF HistorySpec, UnknownKeysAreNew
=============================================================================
