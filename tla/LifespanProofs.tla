--------------------------- MODULE LifespanProofs ---------------------------
(***************************************************************************)
(* Proofs about Lifespan, for any number of requests and for any set of     *)
(* awaits in which the lifespan may be cancelled.                          *)
(***************************************************************************)
EXTENDS Lifespan, SequenceTheorems, TLAPS

Both == <<Database, HttpClient>>

\* What is open, registered and left to close is a function of the await the
\* lifespan is in.
Stages ==
    /\ pc \in {"start", "db_check", "db_undo"} =>
          services = <<>> /\ resources[HttpClient] = "absent"
    /\ pc = "start" => resources[Database] = "absent" /\ appState = {}
    /\ pc \in {"db_check", "db_undo"} => appState = {} /\ resources[Database] = "open"
    /\ pc \in {"fetch_keys", "serving", "closing"} => services = Both
    /\ pc \in {"fetch_keys", "serving"} => \A s \in Services : resources[s] = "open"
    /\ pc = "fetch_keys" => appState = {"db_manager"}
    /\ pc = "serving" => appState = AppStateKeys
    /\ pc = "closing" =>
          \/ toClose = Both /\ \A s \in Services : resources[s] = "open"
          \/ toClose = <<Database>> /\ resources[HttpClient] # "open"
                                    /\ resources[Database] = "open"

\* A request runs only while the lifespan is at its yield.
RunningMeansServing == \A r \in Requests : requests[r] = "running" => pc = "serving"

IndInv == TypeOK /\ Stages /\ RunningMeansServing /\ ClosedUnlessCut

\* What is left of the list of services when its last one has been closed.
LEMMA Lists ==
    /\ Both \in Seq(Services) /\ <<Database>> \in Seq(Services) /\ <<>> \in Seq(Services)
    /\ Both # <<>> /\ <<Database>> # <<>> /\ Both # <<Database>>
    /\ Both[Len(Both)] = HttpClient /\ SubSeq(Both, 1, Len(Both) - 1) = <<Database>>
    /\ <<Database>>[Len(<<Database>>)] = Database
    /\ SubSeq(<<Database>>, 1, Len(<<Database>>) - 1) = <<>>
<1> USE DEF Services
<1>1. Both \in Seq(Services) /\ <<Database>> \in Seq(Services) /\ <<>> \in Seq(Services)
  BY DEF Both
<1>2. Len(Both) = 2 /\ Len(<<Database>>) = 1
  BY DEF Both
<1>3. Both # <<>> /\ <<Database>> # <<>> /\ Both # <<Database>>
  BY <1>2
<1>4. Both[2] = HttpClient /\ <<Database>>[1] = Database
  BY DEF Both
<1>5. SubSeq(Both, 1, 1) = <<Database>>
  <2>1. \A i \in 1..1 : Both[i] \in Services
    BY DEF Both
  <2>2. /\ SubSeq(Both, 1, 1) \in Seq(Services)
        /\ Len(SubSeq(Both, 1, 1)) = 1
        /\ SubSeq(Both, 1, 1)[1] = Both[1]
    BY <2>1, SubSeqProperties
  <2>3. Both[1] = Database /\ <<Database>>[1] = Database
    BY DEF Both
  <2>4. \A i \in 1..Len(SubSeq(Both, 1, 1)) : SubSeq(Both, 1, 1)[i] = <<Database>>[i]
    BY <2>2, <2>3
  <2> DEFINE one == <<Database>>
             front == SubSeq(Both, 1, 1)
  <2>5. /\ one \in Seq(Services) /\ front \in Seq(Services)
        /\ Len(front) = Len(one) /\ \A i \in 1..Len(front) : front[i] = one[i]
    BY <1>1, <1>2, <2>2, <2>4
  <2>6. front = one
    <3> HIDE DEF one, front, Services
    <3> QED
      BY <2>5, SeqEqual
  <2> QED
    BY <2>6
<1>6. SubSeq(<<Database>>, 1, 0) = <<>>
  OBVIOUS
<1> QED
  BY <1>1, <1>2, <1>3, <1>4, <1>5, <1>6

\* The lifespan starts with nothing opened and nothing registered.
THEOREM IndInvInit == Init => IndInv
<1> SUFFICES ASSUME Init PROVE IndInv
  OBVIOUS
<1> QED
  BY Lists DEF Init, IndInv, TypeOK, Stages, RunningMeansServing, ClosedUnlessCut,
     EverythingIsClosed, Services, Conditions, Awaits, AppStateKeys, Database, HttpClient

\* Every step of the lifespan, and every way it may fail or be cancelled, keeps
\* what is opened, registered and left to close as Stages says.
THEOREM IndInvStep == IndInv /\ [Next]_vars => IndInv'
<1> SUFFICES ASSUME IndInv, [Next]_vars PROVE IndInv'
  OBVIOUS
<1> USE LifespanAssumption, Lists DEF IndInv, TypeOK, Stages, RunningMeansServing,
        ClosedUnlessCut, EverythingIsClosed, Conditions, Awaits, AppStateKeys, Leaks
<1>0. Database # HttpClient /\ Services = {Database, HttpClient}
  BY DEF Database, HttpClient, Services
<1>1. CASE ConnectDatabase
  BY <1>0, <1>1 DEF ConnectDatabase
<1>2. CASE DatabaseChecked
  BY <1>0, <1>2 DEF DatabaseChecked, Both
<1>3. CASE DatabaseCheckFails
  BY <1>0, <1>3 DEF DatabaseCheckFails
<1>4. ASSUME NEW c \in {"closed", "broken"}, DatabaseUndone(c) PROVE IndInv'
  BY <1>0, <1>4 DEF DatabaseUndone, Finally
<1>5. CASE KeysFetched
  BY <1>0, <1>5 DEF KeysFetched
<1>6. CASE KeysFetchFails
  BY <1>0, <1>6 DEF KeysFetchFails, Finally
<1>7. ASSUME NEW r \in Requests, RequestStarts(r) PROVE IndInv'
  BY <1>0, <1>7 DEF RequestStarts
<1>8. ASSUME NEW r \in Requests, RequestEnds(r) PROVE IndInv'
  BY <1>0, <1>8 DEF RequestEnds
<1>9. CASE Stop
  BY <1>0, <1>9 DEF Stop, Finally, Cancelled
<1>10. ASSUME NEW c \in {"closed", "broken"}, ServiceCloses(c) PROVE IndInv'
  <2>0. pc = "closing" /\ resources' = [resources EXCEPT ![toClose[Len(toClose)]] = c]
    BY <1>10 DEF ServiceCloses
  <2>1. CASE toClose = Both /\ \A s \in Services : resources[s] = "open"
    <3>1. resources' = [resources EXCEPT ![HttpClient] = c]
      BY <2>0, <2>1
    <3>2. toClose' = <<Database>> /\ pc' = "closing"
      BY <1>10, <2>1 DEF ServiceCloses, Finally
    <3> QED
      BY <1>0, <1>10, <2>0, <2>1, <3>1, <3>2 DEF ServiceCloses
  <2>2. CASE toClose = <<Database>> /\ resources[HttpClient] # "open"
    <3>1. resources' = [resources EXCEPT ![Database] = c]
      BY <2>0, <2>2
    <3>2. toClose' = <<>> /\ pc' = "ended"
      BY <1>10, <2>2 DEF ServiceCloses, Finally
    <3> QED
      BY <1>0, <1>10, <2>0, <2>2, <3>1, <3>2 DEF ServiceCloses
  <2> QED
    BY <2>0, <2>1, <2>2
<1>11. CASE CancelStartup
  BY <1>0, <1>11 DEF CancelStartup, Finally, Cancelled
<1>12. CASE CancelUndo
  BY <1>0, <1>12 DEF CancelUndo, Finally
<1>13. CASE CancelShutdown
  BY <1>0, <1>13 DEF CancelShutdown, Finally
<1>14. CASE UNCHANGED vars
  BY <1>14 DEF vars
<1> QED
  BY <1>1, <1>2, <1>3, <1>4, <1>5, <1>6, <1>7, <1>8, <1>9, <1>10, <1>11, <1>12,
     <1>13, <1>14 DEF Next, Startup, Failure, Closing, Cancel, Ended

\* At each await, what is opened, registered and left to close is known.
THEOREM Inductive == Spec => []IndInv
BY IndInvInit, IndInvStep, PTL DEF Spec

\* Every variable of the lifespan has its type.
THEOREM TypeCorrect == Spec => []TypeOK
BY Inductive, PTL DEF IndInv

\* However many requests there are, and wherever the lifespan may be cancelled:
\* unless it is cancelled in the database check or in a close(), no service is
\* left open when it is over, and then only the database (shutdown_services()).
THEOREM NothingStaysOpen == Spec => []ClosedUnlessCut
BY Inductive, PTL DEF IndInv

\* A request that runs finds every service open and every adapter in app.state.
THEOREM ServicesFound == Spec => []RequestsFindServices
<1>1. IndInv => RequestsFindServices
  BY DEF IndInv, RunningMeansServing, Stages, RequestsFindServices
<1> QED
  BY <1>1, Inductive, PTL

\* Services are closed once, the HTTP client before the database.
THEOREM ReverseOrder == Spec => ClosedInReverse
<1> DEFINE InOrder ==
      \A s \in Services : resources[s] # resources[s]' /\ resources[s]' # "open"
          => /\ resources[s] = "open"
             /\ s = Database => resources[HttpClient] # "open"
<1>1. IndInv /\ [Next]_vars => [InOrder]_vars
  <2> SUFFICES ASSUME IndInv, Next PROVE InOrder
    BY DEF vars
  <2> USE Lists DEF IndInv, TypeOK, Stages
  <2>0. Database # HttpClient /\ Services = {Database, HttpClient}
    BY DEF Database, HttpClient, Services
  <2>1. ASSUME resources # resources' PROVE InOrder
    <3>1. CASE ConnectDatabase
      BY <2>0, <3>1 DEF ConnectDatabase
    <3>2. CASE DatabaseChecked
      BY <2>0, <3>2 DEF DatabaseChecked
    <3>3. ASSUME NEW c \in {"closed", "broken"}, DatabaseUndone(c) PROVE InOrder
      BY <2>0, <3>3 DEF DatabaseUndone
    <3>4. ASSUME NEW c \in {"closed", "broken"}, ServiceCloses(c) PROVE InOrder
      BY <2>0, <3>4 DEF ServiceCloses
    <3>5. CASE CancelUndo
      BY <2>0, <3>5 DEF CancelUndo
    <3>6. CASE CancelShutdown
      BY <2>0, <3>6 DEF CancelShutdown
    <3> QED
      BY <2>1, <3>1, <3>2, <3>3, <3>4, <3>5, <3>6 DEF Next, Startup, Failure, Closing,
         Cancel, Ended, vars, DatabaseCheckFails, KeysFetched, KeysFetchFails, Stop,
         CancelStartup, RequestStarts, RequestEnds
  <2> QED
    BY <2>1
<1> QED
  BY <1>1, Inductive, PTL DEF Spec, ClosedInReverse
=============================================================================
