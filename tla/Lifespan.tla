------------------------------ MODULE Lifespan ------------------------------
(***************************************************************************)
(* The startup and the shutdown of one server process: lifespan() in        *)
(* main.py, start_services(), init_database(), init_auth_service() and      *)
(* shutdown_services() in bootstrap.py, DatabaseManager's connect() and     *)
(* disconnect().                                                           *)
(*                                                                         *)
(* `pc' is the await the lifespan task is suspended in.  Between two awaits *)
(* it runs alone, and a cancellation reaches it only in an await.           *)
(***************************************************************************)
EXTENDS Integers, Sequences, FiniteSets

CONSTANTS
    Requests,     \* the requests the server may have open
    CancelPoints  \* the awaits in which somebody may cancel the lifespan

Awaits == {"db_check", "db_undo", "fetch_keys", "serving", "closing"}

ASSUME LifespanAssumption == CancelPoints \subseteq Awaits

VARIABLES
    pc,         \* one of Awaits, or "start", or "ended"
    resources,  \* what exists of each service: is it open
    services,   \* the list the lifespan closes, in order of opening
    toClose,    \* shutdown_services(): the services it has not come to yet
    appState,   \* app.state: what the routes find
    requests,   \* uvicorn: the open requests
    cutIn       \* the awaits in which the lifespan has been cancelled

vars == <<pc, resources, services, toClose, appState, requests, cutIn>>

Database   == "database"
HttpClient == "keycloak_http_client"
Services   == {Database, HttpClient}

\* A service that close() could not close, because it raised or was cancelled,
\* is "broken": somebody tried.
Conditions == {"absent", "open", "closed", "broken"}

AppStateKeys == {"db_manager", "auth_service", "oauth_provider"}

TypeOK ==
    /\ pc \in Awaits \cup {"start", "ended"}
    /\ resources \in [Services -> Conditions]
    /\ services \in Seq(Services)
    /\ toClose \in Seq(Services)
    /\ appState \subseteq AppStateKeys
    /\ requests \in [Requests -> {"none", "running", "cancelled"}]
    /\ cutIn \subseteq CancelPoints

Init ==
    /\ pc = "start"
    /\ resources = [s \in Services |-> "absent"]
    /\ services = <<>>
    /\ toClose = <<>>
    /\ appState = {}
    /\ requests = [r \in Requests |-> "none"]
    /\ cutIn = {}

----------------------------------------------------------------------------
(* start_services()                                                        *)

\* The finally block of lifespan(), up to its first await.
Finally(list) ==
    /\ toClose' = list
    /\ pc' = IF list = <<>> THEN "ended" ELSE "closing"

\* DatabaseManager.connect() opens nothing yet but makes the pool, and
\* init_database() goes on with the health check.
ConnectDatabase ==
    /\ pc = "start"
    /\ resources' = [resources EXCEPT ![Database] = "open"]
    /\ pc' = "db_check"
    /\ UNCHANGED <<services, toClose, appState, requests, cutIn>>

\* Mutant: app.state gets the manager under the name of the service.
MutDatabaseState ==
    /\ pc = "db_check"
    /\ appState' = appState \cup {Database}
    /\ resources' = [resources EXCEPT ![HttpClient] = "open"]
    /\ services' = <<Database, HttpClient>>
    /\ pc' = "fetch_keys"
    /\ UNCHANGED <<toClose, requests, cutIn>>

\* Mutant: the HTTP client is registered after the adapters that use it start.
MutLateRegistration ==
    /\ pc = "db_check"
    /\ appState' = appState \cup {"db_manager"}
    /\ resources' = [resources EXCEPT ![HttpClient] = "open"]
    /\ services' = <<Database>>
    /\ pc' = "fetch_keys"
    /\ UNCHANGED <<toClose, requests, cutIn>>

\* The database answers: it is registered, then the HTTP client is created and
\* registered, and init_auth_service() fetches the signing keys.
DatabaseChecked ==
    /\ pc = "db_check"
    /\ appState' = appState \cup {"db_manager"}
    /\ resources' = [resources EXCEPT ![HttpClient] = "open"]
    /\ services' = <<Database, HttpClient>>
    /\ pc' = "fetch_keys"
    /\ UNCHANGED <<toClose, requests, cutIn>>

\* The check raises: init_database() undoes the connection itself.
DatabaseCheckFails ==
    /\ pc = "db_check"
    /\ pc' = "db_undo"
    /\ UNCHANGED <<resources, services, toClose, appState, requests, cutIn>>

\* disconnect() in that except block; it may raise in turn.
DatabaseUndone(condition) ==
    /\ pc = "db_undo"
    /\ resources' = [resources EXCEPT ![Database] = condition]
    /\ Finally(services)
    /\ UNCHANGED <<services, appState, requests, cutIn>>

\* Mutant: init_oauth_provider() is forgotten.
MutKeysFetched ==
    /\ pc = "fetch_keys"
    /\ appState' = appState \cup {"auth_service"}
    /\ pc' = "serving"
    /\ UNCHANGED <<resources, services, toClose, requests, cutIn>>

KeysFetched ==
    /\ pc = "fetch_keys"
    /\ appState' = appState \cup {"auth_service", "oauth_provider"}
    /\ pc' = "serving"
    /\ UNCHANGED <<resources, services, toClose, requests, cutIn>>

KeysFetchFails ==
    /\ pc = "fetch_keys"
    /\ Finally(services)
    /\ UNCHANGED <<resources, services, appState, requests, cutIn>>

----------------------------------------------------------------------------
(* uvicorn: requests come while the lifespan is at its yield.  To stop, it   *)
(* waits for them, cancels those still open after                           *)
(* timeout_graceful_shutdown, and then resumes the lifespan.                *)

RequestStarts(r) ==
    /\ pc = "serving"
    /\ requests[r] = "none"
    /\ requests' = [requests EXCEPT ![r] = "running"]
    /\ UNCHANGED <<pc, resources, services, toClose, appState, cutIn>>

RequestEnds(r) ==
    /\ requests[r] # "none"
    /\ requests' = [requests EXCEPT ![r] = "none"]
    /\ UNCHANGED <<pc, resources, services, toClose, appState, cutIn>>

Cancelled == [r \in Requests |-> IF requests[r] = "running" THEN "cancelled"
                                                            ELSE requests[r]]

Stop ==
    /\ pc = "serving"
    /\ requests' = Cancelled
    /\ Finally(services)
    /\ UNCHANGED <<resources, services, appState, cutIn>>

----------------------------------------------------------------------------
(* shutdown_services(): the last service opened is closed first.           *)

\* Mutant: services are closed in the order they were opened.
MutOpeningOrder(condition) ==
    /\ pc = "closing"
    /\ resources' = [resources EXCEPT ![Head(toClose)] = condition]
    /\ Finally(Tail(toClose))
    /\ UNCHANGED <<services, appState, requests, cutIn>>

\* Mutant: closing waits for the requests that were cancelled.
MutWaitForRequests(condition) ==
    /\ pc = "closing"
    /\ \A r \in Requests : requests[r] = "none"
    /\ resources' = [resources EXCEPT ![toClose[Len(toClose)]] = condition]
    /\ Finally(SubSeq(toClose, 1, Len(toClose) - 1))
    /\ UNCHANGED <<services, appState, requests, cutIn>>

\* close() returns, or raises an Exception that is logged.
ServiceCloses(condition) ==
    /\ pc = "closing"
    /\ resources' = [resources EXCEPT ![toClose[Len(toClose)]] = condition]
    /\ Finally(SubSeq(toClose, 1, Len(toClose) - 1))
    /\ UNCHANGED <<services, appState, requests, cutIn>>

----------------------------------------------------------------------------
(* Cancellation.  CancelledError is not an Exception: no except block of the *)
(* startup or the shutdown catches it, and only the finally block runs.      *)

CancelStartup ==
    /\ pc \in CancelPoints \cap {"db_check", "fetch_keys", "serving"}
    /\ cutIn' = cutIn \cup {pc}
    /\ requests' = Cancelled
    /\ Finally(services)
    /\ UNCHANGED <<resources, services, appState>>

CancelUndo ==
    /\ pc \in CancelPoints \cap {"db_undo"}
    /\ cutIn' = cutIn \cup {pc}
    /\ resources' = [resources EXCEPT ![Database] = "broken"]
    /\ Finally(services)
    /\ UNCHANGED <<services, appState, requests>>

\* The close() in progress is abandoned, and those after it do not run.
CancelShutdown ==
    /\ pc \in CancelPoints \cap {"closing"}
    /\ cutIn' = cutIn \cup {pc}
    /\ resources' = [resources EXCEPT ![toClose[Len(toClose)]] = "broken"]
    /\ Finally(<<>>)
    /\ UNCHANGED <<services, appState, requests>>

----------------------------------------------------------------------------

Ended == pc = "ended" /\ UNCHANGED vars

Startup  == ConnectDatabase \/ DatabaseChecked \/ KeysFetched
Failure  == DatabaseCheckFails \/ KeysFetchFails
Closing  == \E c \in {"closed", "broken"} : DatabaseUndone(c) \/ ServiceCloses(c)
Cancel   == CancelStartup \/ CancelUndo \/ CancelShutdown

Next ==
    \/ Startup \/ Failure \/ Closing \/ Stop \/ Cancel
    \/ \E r \in Requests : RequestStarts(r) \/ RequestEnds(r)
    \/ Ended

Spec == Init /\ [][Next]_vars

\* The awaits of the startup end: the database check within asyncpg's
\* connect_timeout and command_timeout, the fetch within request_timeout.  So do
\* dispose() and aclose().  Nothing says that the server is ever stopped.
Fairness == WF_vars(Startup \/ Failure) /\ WF_vars(Closing)

FairSpec == Spec /\ Fairness

----------------------------------------------------------------------------
(* Properties                                                              *)

\* Whatever ends the lifespan, each service that was opened has had its close()
\* called when it is over (main.py l. 28-33).
EverythingIsClosed == pc = "ended" => \A s \in Services : resources[s] # "open"

\* The awaits in which a cancellation leaves a service open.
Leaks == {"db_check", "closing"}

\* The same, unless a cancellation hits the database check or a close(): a
\* failure of any step, a shutdown, and a cancellation anywhere else close
\* everything.  And a cut close() abandons only what was opened before the
\* service it was closing, which leaves at most the database (shutdown_services,
\* l. 157-165).
ClosedUnlessCut ==
    pc = "ended" => \A s \in Services : resources[s] = "open"
                       => s = Database /\ cutIn \cap Leaks # {}

\* Services end in reverse order of their start: the HTTP client, which others
\* use, is never still open when the closing of the database ends, and no
\* service is closed twice (shutdown_services, l. 157-165).
ClosedInReverse ==
    [][\A s \in Services : resources[s] # resources[s]' /\ resources[s]' # "open"
          => /\ resources[s] = "open"
             /\ s = Database => resources[HttpClient] # "open"]_vars

\* Requests are served by a whole application: every service is open and every
\* adapter is in app state, from the first request until the last one has ended
\* or has been cancelled.
RequestsFindServices ==
    \A r \in Requests : requests[r] = "running" =>
        /\ \A s \in Services : resources[s] = "open"
        /\ appState = AppStateKeys

\* The lifespan never hangs half open: it gets to its yield or to its end, and
\* once its services are being closed it ends, even if closing one raises.
LifespanSettles ==
    /\ pc = "start" ~> pc \in {"serving", "ended"}
    /\ pc = "closing" ~> pc = "ended"
=============================================================================
