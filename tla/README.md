# A TLA+ verification of fastapi_starter

`fastapi_starter` is the backend of a web application: FastAPI routes for a
login against Keycloak and for the notes of a user, on Postgres, with health
probes. It runs as one asyncio process per server. Nearly everything that can
go wrong in it happens *between* two awaits: lookups that race for a cache,
requests that race for a row, a startup that is cancelled, a response that
overtakes another. This directory holds TLA+ modules that model those parts,
the TLC configurations that check them, and proofs for any size of the model.

All paths below are relative to `src/src/fastapi_starter`.

## 1. The system

| Component | State | Operations | Hard because of |
|---|---|---|---|
| Signing key cache, `adapters/keycloak/jwks_manager.py` | keys, time of the last success, time of the last attempt, did it fail, an `asyncio.Lock` | `refresh_keys`, `get_key` (two refresh paths), `_fetch` | every request runs it; tasks interleave at the lock and at the GET; Keycloak rotates keys and fails |
| Lifespan, `main.py`, `bootstrap.py` | the list of open services, `app.state` | startup, failure of a step, shutdown, cancellation | a failure or a cancellation between opening a service and registering it |
| Database, `core/database/manager.py`, `dependencies.py` | the pool, a session per request | connect, session with commit or rollback, health check | pool limit, error paths, commit before response |
| Notes, `features/notes` | the table `notes` | list, get, create, update (read, then write), delete | requests that race for a row; commits that are not confirmed |
| Auth routes and cookie, `features/auth`, `core/auth/cookies.py` | the refresh cookie of the browser | login, exchange, refresh, logout | rotation of the refresh token; two tabs; responses out of order |
| Keycloak client, `adapters/keycloak/client.py` | none | token and logout calls, mapped to results | an answer that is lost after Keycloak has acted |
| Token validation, `adapters/keycloak/jwks.py`, `extractors.py`, `core/auth` | none | decode, claims to user, required roles | which failure is a 401 and which a 503 |
| Health, `features/health`, `healthcheck.py` | none | liveness, readiness with a timeout per check | the check takes a connection from the pool of the requests |
| Middleware and exception handlers, `core/body_limit.py`, `core/error_middleware.py`, `core/logging/middleware.py`, `exception_handlers.py` | has the response started, bytes so far | limit the body, answer exceptions, log | an exception after the response has started; chunks |
| Paging, `core/database/repository.py`, the list of notes | none | a page by limit and offset | the table changes between two pages |
| Configuration, `core/config`, `create_app()` | the settings, in the environment and in `.env` | parts that raise one by one, then the production checks | which errors hide which; checks in several files that only hold together; what the browser and the healthcheck make of the values |
| Logging, `serve.py`, migrations, state keys | none | set-up, option passing | none |

How they interact: uvicorn runs the lifespan, which opens the database and the
HTTP client and fetches the keys, and only then serves. A request with a token
goes through the middleware, asks the token validation for the user, which asks
the key cache, which may ask Keycloak; then the route opens a session, which
takes a connection of the pool, and commits before the response leaves. The
auth routes call Keycloak through its client and set or clear the cookie.
Shared state is the key cache, the pool, the table, `app.state`, and, outside,
the browser's cookie and Keycloak's session.

What makes each part correct:

- *Key cache*: one fetch at a time; fetches spaced; a failed fetch takes no key
  away; "unknown key" is never said of a key that was there when the last fetch
  began; old keys are used only under a refresh; every lookup is answered.
- *Lifespan*: everything opened is closed, in reverse order; requests never run
  without their services; the lifespan always reaches its yield or its end.
- *Database and notes*: no session leaks; a success is only told of what is
  committed, a 404 or a 503 only of what changed nothing, a 500 never of a
  commit that was confirmed; users reach their own notes only, alone or in a
  list; a deleted note does not come back; every request ends.
- *Sessions*: a 401 is only told of a token that is really used up; a login
  lasts through racing refreshes and failing calls; a logout lasts until the
  next login, but for the refresh that crosses it (section 5).
- *Validation*: a user is only made of a token that passes every check; a token
  is refused with 401 for what it is and never for the state of Keycloak.
- *Readiness*: a probe ends by its own timeout, whatever the pool and Postgres
  do, and leaves no connection taken.
- *Pipeline*: exactly one layer answers each request, and the access log has
  that answer; every error carries the headers that make it readable and
  traceable, and has its own cause: a database or a Keycloak that is down is
  never a 401; the body limit is the limit for any chunking.
- *Paging*: a client that reads to the end misses a row only for a row deleted
  from an earlier page, and gets one twice only for a row inserted there.
- *Configuration*: a process that starts outside development has a cookie the
  browser keeps and passes its own healthcheck; the production checks name
  everything at once, but for one problem behind a `*`; correcting what the
  errors name leads to a start.

## 2. The plan

| | Module | Models | Abstract specification or proofs | State |
|---|---|---|---|---|
| 1 | `JWKSManager`, `JWKSHistory` | the key cache, and what its clients see over time | `KeyFetching`, `JWKSManagerProofs` | done |
| 2 | `Lifespan` | startup and shutdown | `LifespanProofs` | done |
| 3 | `DbSession`, `Notes` | pool, sessions, the five routes, the readiness probe | `NoteStore`, `NotesProofs` | done |
| 4 | `TokenSession` | browser, auth routes, Keycloak client, Keycloak's session | `TokenSessionProofs`, `LoginProofs` | done |
| 5 | `TokenValidation` | decoder, extractor, auth dependencies, on `JWKSManager`'s outcomes | operators, checked and proved through `RequestPipeline` | done |
| 6 | `RequestPipeline` | middleware, body limit, route, exception handlers, access log | `RequestPipelineProofs` | done |
| 7 | `Paging` | offset pages of a table that changes | `PagingProofs` | done |
| 8 | `Configuration`, `Deployment` | the checks of the settings; from a configuration with mistakes to a process that serves and ends | `DeploymentProofs` | done |

`Notes` EXTENDS `DbSession`, `RequestPipeline` EXTENDS `TokenValidation`,
`JWKSHistory` EXTENDS `JWKSManager`, and `Deployment` composes `Configuration`
with `Lifespan`; the modules named `MC...` fix the sets of a run and nothing
else. Modules that hold proofs, and those under them, have no RECURSIVE
operator; each operation of the code is one action or a few actions cut at its
awaits. `DeploymentProofs` builds on `LifespanProofs`, and `LoginProofs` on
`TokenSessionProofs`.

## 3. The modules and the code

### JWKSManager, JWKSHistory, KeyFetching

Each request is a task in `Lookups`, and `Startup` is the lifespan calling
`refresh_keys()`. `running` is the task that has the event loop. asyncio runs a
task alone until it awaits something that is not ready; so time and Keycloak
move only while nobody runs, and a task gives the loop up in exactly three
places: when it queues for the lock, in the GET, and when it has its answer.

| Variable | Code |
|---|---|
| `jwks`, `fetchedAt`, `attemptedAt`, `lastFetchFailed` | `_jwks` (the set of its key IDs), `_fetched_at`, `_attempted_at`, `_last_fetch_failed` |
| `locked`, `waiters` | `_lock`. As in CPython, `acquire()` is immediate only if the lock is free and nobody queues, and `release()` frees the lock *before* the woken waiter runs: a newcomer can see a free lock with a queue |
| `reply` | the GET in flight; "ok", "failed" (what `_fetch` catches) or "raises" (what it does not: a JSON body that is not an object makes `PyJWKSet.from_dict` raise `AttributeError`) |
| `pc`, `kid`, `answer` | the point, the argument and the result of each `get_key()` |
| `now`, `published` | the monotonic clock in seconds, and Keycloak's key set with the time each key appeared |

The actions follow `get_key()`: `GetKey`, then `RefreshLeftToOther`,
`RefreshAcquire`, `RefreshNotNeeded`, `RefreshFetch` for
`_refresh_expired_cache()`, `KeyFound`, then `KeyMissing`, `RefetchNotNeeded`,
`RefetchFetch`, `Verdict` for `_find_after_refetch()`; `FetchReturns` and
`FetchRaises` resume after the GET, `TakeLock` after the wait for the lock.
`KeyFetching` is the promise of the class docstring, seen from outside: calls
that do not overlap and are spaced, keys that only a finished call changes.
`JWKSHistory` adds when each lookup began, for the property about the age of
the keys it gets, and when its client was last answered 503. `Patient` is a
client that waits for as long as `Retry-After` says; then a second 503 tells of
a newer fetch (`RetriesAskAgain`). The docstring of `_unavailable()`, "No new
fetch happens sooner", is a little stricter than the code: the interval counts
from the start of the fetch and the client's wait from the end of its lookup,
so a fetch may well happen sooner. Waiting is still never in vain.
`uncaught` says that the last fetch ended with an exception `_fetch()` does not
catch. Such a fetch counts as an attempt and not as a failed one, so in the
interval after it a key that Keycloak has may be called unknown: the exception
that `UnknownKeysAreNew` names.

### Lifespan

`pc` is the await the lifespan task is suspended in. `resources` says of each
service whether it is open, `services` is the list of `lifespan()`, and
`CancelPoints` are the awaits in which somebody may cancel the task.
`CancelledError` is not an `Exception`, so `CancelStartup`, `CancelUndo` and
`CancelShutdown` skip the except blocks and run only `finally`. In the runs every await is a cancel
point. `ClosedUnlessCut` names the two cases in which a service may stay open,
a cut database check and a cut close, and that it can only be the database, the
last to be closed; `EverythingIsClosed` is the promise of
the docstring, without them. uvicorn is the
external part: it accepts requests while the lifespan is at its yield, and when
it stops it cancels those that are still open after
`timeout_graceful_shutdown` before it resumes the lifespan.

### DbSession, Notes

`DbSession` is a session per request on a pool of `PoolSize` connections over
Postgres in READ COMMITTED: a statement sees what is committed when it runs, a
row that is written and not committed is locked, `Commit` publishes and
`EndSession` gives the connection back. `Notes` adds the routes. A request is
suspended at the pool ("connect"), at its first statement, at the UPDATE of a
PATCH ("save"), at the commit and at the response; any of these may fail, and
`CancelRequest` is the server's stop. `Edited` writes the note as it was read
with the fields of the PATCH in it, which is what `save()` sends. The text of a
note is the request it came from: enough to see whose text survives. `copy` is
the note that a request has read, and `listed` the rows that `page()` gave it,
filtered by their owner; a user of the runs has fewer notes than a page holds.

The readiness probe is a sixth kind of request, "ready": it waits for the pool
and for `SELECT 1` like the others, answers 503 for every failure
(`run_check()`), and `CheckTimesOut` cancels it in either wait.

`NoteStore` is what the feature promises, with no sessions, locks or statements
in it: an id is reserved for its owner, the note is created or the id is given
up, and a note is edited and deleted as a whole. `Notes` implements it: `rows`
are its notes, and its reservations are the INSERTs that no session has
committed yet (`Reserved`). It says that an id is never used twice and that an
owner never changes; it does not say that an edit keeps the fields it does not
name, as the code does not (run `concurrent_patches`).

### Paging

`page()` of the notes and `get_page()` of the generic repository, `query` says
which, read by a client that asks for one page after another until one is not
full. `row` is the state of each key: a row is written, and then committed or
rolled back, by a request; `created` and `updated` are the times of
`Note.create()` and `Note.edit()`, taken before the commit. `OrderBy` is the
ORDER BY of the query, `Page` its LIMIT and OFFSET. `deletions` and
`insertions` count the rows that left, or came into, pages the client had
already read. The statement of the code is exact about rows that are skipped
(`SkipsAreDeletions`). Its docstring, "only a row deleted from an earlier page
shifts the next ones", leaves out that an insertion shifts them too, the other
way: in `get_page()` a new row may have any UUID, and in `page()` a commit may
come after that of a note with a later `created_at`. `RepeatsAreInsertions`
says that this is all.

### TokenSession

The browser has one cookie and sends requests from several tabs; each runs one
of three routes. What Keycloak gives out in a login is numbered: 0 is the
authorization code, 1, 2, ... are the refresh tokens, each replacing the last.

| Variable | Code |
|---|---|
| `cookie` | the refresh cookie, as `set_refresh_cookie()` and `clear_refresh_cookie()` leave it; `Keep` is a response without either |
| `kind`, `carried`, `pc` | the route of a request, the code or the cookie it came with, and where it is: the call under way, answered, the response under way |
| `reply` | what `KeycloakClient` gets: tokens, done, a refusal (400 `invalid_grant`), or something unusable |
| `response` | status and cookie of the response; `unauthorized`, `forbidden`, `unavailable`, `bad_gateway` are 401, 403, 503 and 502 |
| `late` | calls the client has given up (timeout) and Keycloak may serve still |
| `singleUse`, `issued`, `alive` | Keycloak, external: the realm's option Revoke Refresh Token, the last token of each login, the sessions |
| `asked`, `crossing`, `undone`, `mishap` | history: whether the user last logged in or out; the requests that were open when that was answered, and still are; whether a refresh of one of them has set the cookie since; whether anything was lost that no server can make good (an answer, a response, a session) |

`Exchange` and `UseCookie` are the part of a route before the call (the
redirect URI; origin check, cookie), `TokensAnswered` and `LogoutAnswered` the part after it,
`NotReached` and `AnswerLost` the two places where a call can fail: before and
after Keycloak has acted. `Deliver` and `ResponseLost` end the exchange, in any
order between requests. Nothing is assumed of the order in which the frontend
sends: docs/frontend.md asks it to send one refresh at a time, for the sake of
the rotation, and not to wait for one before a logout, and two tabs would not
know of each other. So a response can cross a logout or a login, and
`LoginLasts` and `LogoutLasts` name that as their exception (`undone`).
`LogoutIsClean` is what the comments of `logout()` say, without the exception.

`_token_request()` makes any 400 of Keycloak a 401. The model has the 400s
that are about the code or the token (`invalid_grant`). A 400 for a malformed
request or for the wrong kind of client would be a misconfiguration, and would
log users out for it.

### TokenValidation, RequestPipeline

`Checks` is everything that is looked at between the header of a token and its
user, in the order of the code. A token is the set of its flaws, or else a role;
the answer of the key cache is an input, with the four outcomes of `JWKSManager`.
`LooksUpKey` are the tokens for which it is asked. `FirstFault` finds the check
that fails first, `Raises` the exception it raises, and `Translated` is what the except clauses of `_verify()` and `extract_user()`
make of it. `Authorize` is the dependency of a route.

`RequestPipeline` takes one request after another through `Order`, the layers
from the server inwards. `layer` has the control, and `mode` says what happens
there: the request goes in, the route reads the body, solves its dependencies,
runs the endpoint and sends, or an exception goes out. `Start` is the first
message of a response; the layers outside the one that sends it add their
headers and the access log notes the status. FastAPI reads a body before it
solves the dependencies, so a body can be refused before the token is looked
at. Requests share nothing in these layers, so one at a time is enough.
`Endpoints` are the kinds of endpoint there are, and `Obstacles` what
each can meet once the body and the user are there: no row, a conflict,
Postgres out of reach (`connect_or_unavailable()`), a redirect URI that is not
allowed, no cookie, and what the Keycloak client makes of its calls; the origin
check is the dependency `OriginRefused`. `Raising` leaves out what an endpoint
does not raise for: `logout()` answers 200 whatever Keycloak does, and
`readiness()` answers 503 itself, with its report. `met` notes the obstacle, so
that the properties can tell its cause from the status. The
order in which FastAPI works, `CORSMiddleware`, `TrustedHostMiddleware` and
Starlette's outermost layer are external, modelled from how `bootstrap.py` and
`exception_handlers.py` use them. `bugs` notes which part raised of its own, so
that the properties can tell the application's faults from the caller's.

### Configuration, Deployment

A configuration is a record with one value for each setting that a check looks
at. `PartErrors` are the parts in the order in which `Settings` builds them:
the first that raises hides the ones after it and the production checks.
`ProductionProblems` is `production_problems()`, as the set of its problems; a
problem has the name of its setting, and `TwoWays` names the four that are two
and two of one setting: `any_host`, a `*`, hides `local_hosts`, as the code asks
for the second only in an `elif`. `"api:8443"` stands for a host that is written
with a port, which Starlette takes off the Host before it compares
(`WithoutPort`) and not off the list. `HostHeader` is what the container's healthcheck sends,
`Trusted` what Starlette's middleware makes of it, `KeepsHostPrefix` and
`KeepsSameSite` what browsers ask of a cookie.

In `Deployment` the operator starts the process, `LaunchRefused` shows an
error, `Correct` changes what the error names (an old name keeps its value
under the new one; the trusted hosts are replaced, or become any list that does
just what the message asks for, in any order, as `AskedHosts` says), and starts
again. `Configurations` and `HostLists` are what the operator may begin with
and write. After `Launch` the process is a `Lifespan`.
`AllAtOnce` and `HealthcheckAgrees` each name the case in which the code does
less than it says; section 5 has both. "All problems in one error" is about the
production checks, and not about all errors: with `AUTH_COOKIE_SECURE=false` and
the default name of the cookie, `follow_the_host_prefix()` raises first and
hides everything else.
`CookieIsKept` and `HealthcheckAgrees` are limited to where the code means
them: in development `SERVER_TRUSTED_HOSTS=[]` makes the healthcheck's
`localhost` a stranger (no list of `SERVER_TRUSTED_HOSTS` is checked there), and SameSite=None without Secure is let through.

## 4. The runs

| Run | Question and result |
|---|---|
| `key_cache` | Two lookups, two keys, an empty cache, fetches that fail or raise, rotation: `TypeOK`, `OneFetchAtATime`, `FetchesSpaced`; `CachedKeysWork`: a fetch that does not succeed takes no key away, and no lookup ends without a key that is cached, but the one whose own fetch raised; `UnknownKeysAreNew`: "unknown" is only wrong about a key newer than the last attempt, or in the interval after a fetch that raised; `StaleKeysOnlyUnderRefresh`: a key comes from an expired cache only while a refresh is in flight or was just tried; `RetriesAskAgain`: who waits as long as a 503 says is not told of the same failed fetch again. |
| `key_cache_fair` | `LookupsAnswered` and `KeepsPolicy` (the refinement of `KeyFetching` with its fairness), also when a fetch raises. |
| `deployment` | Configurations up to three settings away from a good one, corrected until the process starts: `CookieIsKept`, `HealthcheckAgrees`, `AllAtOnce`, and `CorrectionsHelp` (it starts in the end). Then its lifespan, with a failure of every step and a cancellation in every await: `TypeOK`, `ClosedUnlessCut`, `RequestsFindServices`, `ClosedInReverse`, `LifespanSettles`. |
| `notes` | Two requests, two users, two notes, two connections, all five routes, the readiness probe and all troubles: `TypeOK`, `NothingLeaks`, `AnswersTellTheTruth`, `OwnNotesOnly`, `DeletedStaysDeleted`, and `KeepsStore`, the refinement of `NoteStore`. |
| `notes_fair` | Three requests, deletes of one note or probes, with two connections: `RequestsEnd`, waiting for the pool and waiting for a row never wait for each other, and a probe ends by its timeout alone. |
| `token_session` | Two requests open at once, two logins, both settings of Revoke Refresh Token, calls that fail, come late or lose their answer, no order assumed: `TypeOK`, `UnauthorizedIsFinal`, `LoginLasts`, `LogoutLasts`. |
| `paging` | A client reads to the end with either query while rows come, change and go: `TypeOK`, `SkipsAreDeletions`, `RepeatsAreInsertions`. |
| `requests` | Every kind of endpoint with what it can meet, every guard, tokens with up to two flaws, every answer of the key cache, bodies around the limit in any chunks, bugs in a middleware, a handler or an endpoint: `TypeOK`, `OneAnswer`, `ErrorsAreUniform`, `LimitHolds`, `OnlyGoodTokens`, `RefusalsHaveTheirCause`. |

Four more runs each check one statement of the code about itself, and TLC finds
the behaviour that breaks it (`uncaught_fetch_error`, `lifespan_leak`,
`concurrent_patches`, `logout_undone`): section 5.

### Bounds

- Two lookups in `key_cache`: a lookup that releases the lock can come back as
  the newcomer while the other one is the woken waiter, so two tasks make every
  handover. A fetch may succeed, fail or raise; the TTL is 3, the interval 2 and
  the clock goes to 4 (`MaxClock`). `key_cache_fair` has two and the prefetch of the startup, and a
  fetch that raises. Two keys: one cached and one new. In `key_cache` the clock
  runs past the TTL and the interval, so the cache expires, is refreshed and
  fails within the run. The fair run has a short clock: liveness is about the lock and the
  GET; a stopped clock keeps a cache as it is and never makes a lookup wait.
- Two requests in `deployment`, three in `lifespan_leak`; requests only matter by
  being there. Three settings may differ from a good configuration, in
  production and in development, two of them among the settings that a check
  looks at together with another one (`Together`): enough for a part that raises, one behind it
  and a problem of production behind both, and for the three values a rule about
  the cookie depends on. Staging is one of the values and is treated as
  production. `WrittenLists` has every list of hosts that a correction can ask
  for, with the new domain first or last: the healthcheck depends on the first.
  A list can have a host with a port, alone or before the same host without it.
- Four keys in `paging`, three of them the reader's, pages of two: a client reads
  two or three pages, a row can go from one and another come into it. The clock
  goes to 2, so that a note can be created before, with and after another, and
  committed after both. The times of the servers agree: the property counts
  a commit against the reader's clock.
- Two requests suffice for each race of `Notes`, as a race is between the two
  statements of one request and the transaction of another; there are two users
  so that another's note exists, and two keys so that a created note meets a
  present one. `notes_fair` has more requests than connections.
- Two requests and two logins in `TokenSession`: a race is between two requests
  of one login, a crossing between the request that ends a login and one more,
  and a second login shows what an old token does to a new one. Both logins
  together give out up to three numbers after their codes, counting a call that
  is still on its way (`MaxIssued` = 3, a constraint; `MaxToken` = 3 for each):
  an exchange and two refreshes of one login, of which one may be late, or an
  exchange of each and a refresh of either. `MaxLate` = 1 call may be on its way
  after it was given up.
- The limit of a body is 2 in `requests` and the largest body 3, so that there
  is one below, at and above it and each can come in several chunks. Two flaws
  (`MaxFlaws`) show the order of any two checks. A token has at most one role,
  as `require_roles()` looks for one of several. The endpoints of a feature have
  any guard, as "page"; the others have the guard of their route. A request for
  another host and a preflight carry nothing else, as they are answered before it is read.
- Lookups, keys, requests, users and row ids are symmetric and symmetry is used
  only in runs without liveness.

### Fairness

- A task that has the event loop takes its step: WF.
- asyncio's ready queue is FIFO and its lock wakes waiters in order: a task that
  becomes ready again and again runs: SF on `Resume`.
- Every step of the GET has a timeout (`request_timeout`): Keycloak's reply or
  its failure comes: SF on `KeycloakReplies`.
- The steps of the startup and of a close end by `connect_timeout`,
  `command_timeout` and `request_timeout`: WF. Nothing says that the server is
  ever stopped, and no fairness is assumed of that.
- The pool and Postgres' row locks serve in order of arrival: SF on the
  progress of each request. A probe has its own timeout, and that is all that
  is assumed of it: WF on `CheckTimesOut`. The rest of `Trouble` has no
  fairness: it may never come.
- The operator goes on correcting and starting: WF on `Deploy`. This is an
  assumption about people, and `CorrectionsHelp` is about what the errors tell
  them.
- `RequestPipeline` has none and states no liveness: nothing in this code or in
  uvicorn ends the wait for a client that sends its body slowly.

## 5. Where the code and its words disagree

Four runs check a statement as it is written, and TLC finds the behaviour that
breaks it.

| Run | Statement | What the code does |
|---|---|---|
| `uncaught_fetch_error` | "when a fetch fails, the keys already in the cache keep working" (`jwks_manager.py`, l. 25) | a JSON body that is not an object raises `AttributeError`, which `_fetch()` does not catch: the lookup that fetched is refused, although its key is cached. The same exception leaves `_last_fetch_failed` as it was, and for the rest of the interval a key that Keycloak has is reported as unknown, a 401, where l. 187-188 promises a 503 |
| `lifespan_leak` | everything is closed "whatever ends the lifespan ... or a cancellation" (`main.py`, l. 28-30) | a cancellation in the database check leaves the engine open |
| `concurrent_patches` | "the others stay as they are" (`request.py`, l. 27) | of two PATCHes of different fields, the later puts the other field back |
| `logout_undone` | "the client must always end up in a clean state regardless of provider availability", "the session is already inaccessible to the client once the cookie is gone" (`router.py`, l. 233, 243) | a refresh that is open when the logout is answered sets the cookie again; if the logout did not reach Keycloak, the token in it is accepted. The trace: log in; a refresh is served and its response is on the way; a logout fails at Keycloak and clears the cookie; then the response of the refresh arrives |

Other statements are a little more than the code keeps. For the first four the
property of a passing run has the exact exception, so that the run, and the
proof, show that there is no other.

- "A token we cannot read is an authentication failure (401), never a fault of
  the server." (`extractors.py`, l. 87-88): with `roles: null` in a correctly
  signed token, a list of objects as roles, or a client entry that is not an
  object, `_collect_roles()` raises a `TypeError` or `AttributeError` inside a
  `try` that catches pydantic's errors only, and the answer is a 500
  (`odd_roles` in `OurFault`, `RefusalsHaveTheirCause`).
- "Every error the API sends has the same members" (`problem_details.py`, l. 3;
  "Body of every error response", l. 33): the 503 of `/health/ready` is a status
  report and no problem document, as docs/operations.md says of it, and so are
  the two plain-text answers it lists (`ErrorsAreUniform`).
- "so the two cannot disagree" (`healthcheck.py`, l. 6): the probe sends the
  first trusted host as it is written, and Starlette compares a Host without its
  port with the list. With `SERVER_TRUSTED_HOSTS=["api.example.com:8443"]`, which
  no check refuses, every probe is a 400 (`HealthcheckAgrees`).
- "All problems in one error: a deploy should not need one restart per mistake"
  (`core/config/__init__.py`, l. 35-36), "The error lists every variable to change
  at once" (docs/operations.md): with `["localhost", "*"]` the error asks for `*`
  to go, and the next start is refused for a list of local hosts. It is the only
  problem that another one hides, and it costs one restart (`AllAtOnce`).
- "only a row deleted from an earlier page shifts the next ones by one"
  (`get_page()`, `core/database/repository.py`, l. 47-48): an insertion shifts
  them too, the other way, and the client gets a row twice
  (`RepeatsAreInsertions`; deletions alone explain what it misses,
  `SkipsAreDeletions`).
- "No new fetch happens sooner, so an earlier retry gets the same 503."
  (`jwks_manager.py`, l. 115): section 3 says why a fetch may happen sooner.
- "The same call can succeed once it is back." (`client.py`, of the failures
  that become a 503): a call that times out after Keycloak has served it has
  used up its code, or with Revoke Refresh Token its refresh token, so the next
  answer is a 401. That 401 is true (`UnauthorizedIsFinal`), and `LoginLasts`
  excludes the loss (`mishap`).

## 6. What is proved

All theorems hold for any value of the constants that satisfies the assumptions
stated in the modules.

`JWKSManagerProofs` (assumption `JWKSAssumption`: the tasks are different, the
TTL and the interval are positive). `TypeCorrect` is inductive alone. Mutual
exclusion is not: `IndInv` adds that the lock is held by exactly the task that
checks or fetches, that a call is in flight exactly while a task waits for it,
that the queue has each waiter once and only waiters, that no time stamp is in
the future, and that keys come with the time they were stored. From it follow
`MutualExclusion`, `AttemptsSpaced` (a task that begins a fetch holds the lock
and has looked at the interval since it got it), and `ImplementsPolicy`: each
step is a step of `KeyFetching` or none. `CacheSurvives`
names the one lookup that may be refused a cached key, the one whose own fetch
raises, and needs no assumption on how fetches end.

What callers see over time is proved of `JWKSHistory`. `HistoryAddsNothing`: a
behaviour with the history is one of the key cache, so the theorems above hold
of it. Three more invariants lead to the age of the keys. `LoopInv`: a lookup
between two awaits has the event loop, so nobody fetches and no time passes
between its check and its answer. `Queued`: who is in the queue of the lock
waits for it and is there once, so that a wake-up cannot move a lookup that is
somewhere else in its code. `HistInv`: a lookup began after its client was
allowed to retry, and for each point of `get_key()` what the lookup may rely on
there (`Progress`): after its own fetch an attempt since it began; a key that
came while it waited for the lock is from a fetch that ended meanwhile; at the
two points where a key is handed out, `Fresh`; and where it is missing, an
attempt less than the interval before it began, or later. From these follow
`StaleOnlyUnderRefresh` and `RetriesAreWorthwhile`. `UnknownIsTrue` needs two
facts more: a key that the cache has not got was published after the last fetch
began, or that fetch did not succeed (`MissingKeysAreNew`); and a lookup at its
verdict relies on an attempt that is recent (`VerdictIsRecent`). So a key that is
wrongly called unknown is a new one, or the last fetch raised, less than the
interval ago. None of these assumes anything of how fetches end.

`LifespanProofs` (assumption: `CancelPoints` are awaits). `IndInv` says, for
each await, what is open, registered and left to close. It gives `TypeCorrect`,
`NothingStaysOpen`, `ServicesFound` and `ReverseOrder`.

`NotesProofs` (the assumptions of `DbSession` and `Notes`). `Sessions` ties the
point of a request to what it holds: a connection only between its checkout and
the end of its session, a write exactly at the commit of a writing request, a
copy only of its own note. `Locks` says that what a session has written is the
caller's, that an id that was given out is used, and that no two sessions have
written to one row. From it follow `TypeCorrect`, `SessionsEnd`,
`AnswersAreTrue`, `NoNoteComesBack`, `OwnersOnly`, and `ImplementsStore`: each
step is a step of `NoteStore` or none, and in particular a commit changes one
note as a whole.

`TokenSessionProofs` (assumption `TokenAssumption`: the special values are no
tokens). `TypeCorrect` is inductive alone. `UnauthorizedIsTrue` needs three more
parts: a cookie or a reply has the shape its place asks for, no number is
larger than the last one issued (`Numbers`), and each refusal in flight is about
a token that is not accepted (`Refusals`); the last is preserved because a token
that is once refused stays refused. `LogoutIsFinal` follows from two parts about what
is on its way (`LogoutInv`): only a success sets a cookie, and a logout only
clears it (`Answers`); and after a logout, as long as no crossing refresh has set
the cookie, there is none, and no request that began later can bring one
(`LoggedOut`).

`LoginProofs` adds `LoginStays`, for logins in which nothing is lost. Neither
theorem assumes anything of the order in which requests are sent. The invariant
`LoginInv` has five parts: what a call carries and gets belongs to the login of
its cookie or its code (`Belongs`); what an exchange has got is accepted, and
nobody else has anything of that login (`Fresh`); after a login and until
something of an earlier one is delivered, refreshes are of the login of the
cookie, and those that were open before are not (`OneLogin`); what such a
refresh has got is accepted, and, if tokens work once, it is the only one on its
way and no call still out carries one that is accepted (`OnlyOne`); and the
browser has the token that is accepted, or will have it (`HasToken`). `OnlyOne`
is why `HasToken` is inductive: of refreshes that race with one token, the one
that Keycloak serves takes it from the others.

`RequestPipelineProofs` (assumption `PipelineAssumption`: the special values are
no responses, exceptions or lengths). The properties are about the end of a
request; `IndInv` adds what leads there: where control is (`Control`), that a
response has started exactly if one was sent and the log has its status
(`Answering`), how far an exception can have come without an answer
(`Escaping`), how much of the body has been counted (`Counting`), and that an
exception on its way has its cause already (`Causes`). The theorems
are `TypeCorrect`, `AnsweredOnce`, `ErrorsUniform`, `LimitIsExact`,
`TokensAreGood` and `CausesAreTrue`.

`PagingProofs` (assumption `PagingAssumption`: finitely many keys, and a page
size the code lets through). The properties count rows, and the position of a
row is itself a count: `Rank` is how many rows come before it. So the proofs
rest on lemmas about ranks in a strict order: a row before another has a
smaller one, two rows have different ones, every number up to the largest is
one (`RanksAreDense`, which is why a short page is the last), and a commit or a
deletion moves each row by at most one place, and only the rows behind it.
`SkipsAreDeletions` speaks of the end of a reading; while it lasts, what counts
is `Missed`, the rows on pages already read that the client has not got, and
`SkipInv` says that deletions have paid for each. `RepeatsAreInsertions` has
the same trouble the other way: an insertion pushes a row back over the edge
of the next page before the client gets it again. So `RepeatInv` counts the
repeats there were together with those still to come (`Again`). For the notes of an owner
it also needs that the client has got no note created after its last page: the
commit of such a note is not counted, and comes behind every row the client has
got, so that it moves none of them. The theorems are
`TypeCorrect`, `NothingElseIsSkipped` and `NothingElseIsRepeated`.

`DeploymentProofs` (assumption `DeploymentAssumption`: the configurations have
the settings of a good one, their trusted hosts are any lists of the hosts worth
telling apart). `DeploymentRunsLifespan` says that a deployment takes no step
that the lifespan alone would not take, and so `ServicesOfDeployment` has the
theorems of `LifespanProofs`. `DeploymentInv` keeps the settings well-formed
through all corrections and says that only settings without an error are
launched; the rest is about the checks themselves. `CookieSurvives`: settings
that pass `follow_the_host_prefix()` and the check of production have a cookie
that the browser keeps. `HealthcheckAnswered`: for any
list that passes the check of production, the Host that `host_header()` makes
is trusted exactly if the first host is in the list without its port.
`OneErrorOfProduction` needs `AllTold`: once production's checks have refused a
start, no part of the settings raises any more and what is still wrong was
named, or was hidden by a `*` that was; correcting it breaks no part and makes no
new problem, but can show the hidden one (`CorrectionsOfProduction`).

All invariants and all action properties of the runs are proved. Only
model-checked are the liveness properties (`LookupsAnswered`, the fairness of
`KeepsPolicy`, `LifespanSettles`, `RequestsEnd`, `CorrectionsHelp`), as the
prover does not handle fairness and ENABLED.

## 7. What is not modelled, and why

- Cancelling a lookup in the key cache: only a stopping server does it, and
  then nobody asks again.
- Access tokens and ID tokens in `TokenSession`: they go to the frontend and
  come back only to the token validation.
- In `RequestPipeline`: the value of the request id, the quiet paths of the
  access log and the members of a problem document, which no decision depends
  on. In the token validation: the set of reported roles, which only the log
  gets.
- Parsing of the settings, which is pydantic's: one value that a part refuses
  stands for all of them. A process reads its settings once (`get_settings()`),
  so changes while it runs have no effect.
- The liveness route, which answers a constant, and the steps of the container's
  healthcheck, which is one request: only its Host is modelled.
- The time of a note outside `Paging`, and the fields a list returns.
- Logging, the server command, the database URL and the migrations: no state
  that spans two steps. Two migrations at once would be Alembic's and Postgres'
  affair; nothing in this code handles them.
