------------------------------- MODULE Notes -------------------------------
(***************************************************************************)
(* The notes feature: the five routes of features/notes/api/router.py on    *)
(* NoteService and SqlNoteRepository, each request with a database session  *)
(* of its own (DbSession), and the readiness probe (features/health), which *)
(* takes a connection of the same pool.  Requests run concurrently: every   *)
(* statement and the commit are awaits.                                     *)
(*                                                                         *)
(* The text of a title or a body is the request that gave it.               *)
(***************************************************************************)
EXTENDS DbSession

CONSTANTS
    Users,  \* the sub claims of the callers
    Seed,   \* the text of the notes that are there at the beginning
    NoOp,   \* no request is being served
    Kinds   \* the routes that the requests call

AllKinds == {"list", "get", "create", "update", "delete", "ready"}

Fields == {"title", "body"}
Texts  == Requests \cup {Seed}
Rows   == [owner: Users, title: Texts, body: Texts]

\* What a request asks for.  `id' is the note of the path, and `fields' are
\* those a PATCH gives: not none, see UpdateNoteRequest.
Operations ==
    [kind: Kinds \cap {"list", "create"}, user: Users]
        \cup [kind: Kinds \cap {"get", "delete"}, user: Users, id: RowIds]
        \cup [kind: Kinds \cap {"update"}, user: Users, id: RowIds,
              fields: (SUBSET Fields) \ {{}}]
        \cup [kind: Kinds \cap {"ready"}]

ASSUME NotesAssumption ==
    /\ Kinds \subseteq AllKinds
    /\ NoOp \notin Operations
    /\ NoRow \notin Rows
    /\ \A id \in RowIds, row \in Rows \cup {NoRow} : NoWrite # [id |-> id, row |-> row]

VARIABLES
    pc,       \* the await each request is in
    op,       \* what it asks for
    copy,     \* the Note it has read or made
    listed,   \* the rows that page() gave it
    usedIds,  \* the ids uuid4() has given: it gives none twice
    answer,   \* the status of its last response
    applied   \* history: has this request changed the table

noteVars == <<pc, op, copy, listed, usedIds, answer, applied>>
vars     == <<dbVars, noteVars>>

Points  == {"idle", "connect", "statement", "save", "commit", "respond"}
Answers == {"none", "ok", "not_found", "failed", "unavailable"}

TypeOK ==
    /\ rows \in [RowIds -> Rows \cup {NoRow}]
    /\ written \in [Requests ->
          [id: RowIds, row: Rows \cup {NoRow}] \cup {NoWrite}]
    /\ connections \subseteq Requests
    /\ pc \in [Requests -> Points]
    /\ op \in [Requests -> Operations \cup {NoOp}]
    /\ copy \in [Requests -> Rows \cup {NoRow}]
    /\ listed \in [Requests -> SUBSET Rows]
    /\ usedIds \subseteq RowIds
    /\ answer \in [Requests -> Answers]
    /\ applied \in [Requests -> BOOLEAN]

\* The table may hold one note of each user, or none.
InitialRows ==
    {t \in [RowIds -> [owner: Users, title: {Seed}, body: {Seed}] \cup {NoRow}] :
        \A i, j \in RowIds : t[i] # NoRow /\ t[j] # NoRow /\ t[i].owner = t[j].owner
                                => i = j}

Init ==
    /\ \E t \in InitialRows :
          /\ DbInit(t)
          /\ usedIds = {id \in RowIds : t[id] # NoRow}
    /\ pc = [r \in Requests |-> "idle"]
    /\ op = [r \in Requests |-> NoOp]
    /\ copy = [r \in Requests |-> NoRow]
    /\ listed = [r \in Requests |-> {}]
    /\ answer = [r \in Requests |-> "none"]
    /\ applied = [r \in Requests |-> FALSE]

----------------------------------------------------------------------------
(* A request comes, opens its session, and ends.                           *)

Receive(r, o) ==
    /\ pc[r] = "idle"
    /\ pc' = [pc EXCEPT ![r] = "connect"]
    /\ op' = [op EXCEPT ![r] = o]
    /\ answer' = [answer EXCEPT ![r] = "none"]
    /\ UNCHANGED <<dbVars, copy, listed, usedIds, applied>>

Goto(r, point) ==
    /\ pc' = [pc EXCEPT ![r] = point]
    /\ UNCHANGED <<op, answer, applied>>

\* The response leaves, and what the request has in memory is gone.
Respond(r, status) ==
    /\ pc' = [pc EXCEPT ![r] = "idle"]
    /\ answer' = [answer EXCEPT ![r] = status]
    /\ op' = [op EXCEPT ![r] = NoOp]
    /\ copy' = [copy EXCEPT ![r] = NoRow]
    /\ listed' = [listed EXCEPT ![r] = {}]
    /\ applied' = [applied EXCEPT ![r] = FALSE]
    /\ UNCHANGED usedIds

Connect(r) ==
    /\ pc[r] = "connect"
    /\ CheckOut(r)
    /\ Goto(r, "statement")
    /\ UNCHANGED <<copy, listed, usedIds>>

\* Postgres does not answer: connect_or_unavailable() makes it a 503.
Unreachable(r) ==
    /\ pc[r] = "connect"
    /\ ~PoolIsEmpty
    /\ Respond(r, "unavailable")
    /\ UNCHANGED dbVars

\* An exception no one expects is a 500; run_check() answers a 503 for all.
Failure(r) == IF op[r].kind = "ready" THEN "unavailable" ELSE "failed"

\* pool_timeout passes without a free connection.
PoolTimeout(r) ==
    /\ pc[r] = "connect"
    /\ PoolIsEmpty
    /\ Respond(r, Failure(r))
    /\ UNCHANGED dbVars

\* Mutant: an exception leaves the session as it is.
MutRaise(r, status) == Respond(r, status) /\ UNCHANGED dbVars

\* An exception leaves the endpoint, and get_db_session() rolls back.
Raise(r, status) == Rollback(r) /\ Respond(r, status)

\* A statement or the commit fails (the connection, command_timeout).
Fails(r) ==
    /\ pc[r] \in {"statement", "save", "commit"}
    /\ Raise(r, Failure(r))

\* Mutant: the response leaves first (scope="request").
MutCommitSession(r) ==
    /\ pc[r] = "commit"
    /\ pc' = [pc EXCEPT ![r] = "respond"]
    /\ UNCHANGED <<dbVars, op, copy, listed, usedIds, answer, applied>>

\* The endpoint has returned.  get_db_session() commits, and only then is the
\* response sent (DbSession, scope="function").
CommitSession(r) ==
    /\ pc[r] = "commit"
    /\ Commit(r)
    /\ applied' = [applied EXCEPT ![r] = written[r] # NoWrite]
    /\ pc' = [pc EXCEPT ![r] = "respond"]
    /\ UNCHANGED <<op, copy, listed, usedIds, answer>>

\* Postgres commits, and the connection is lost before it says so.
CommitUnconfirmed(r) ==
    /\ pc[r] = "commit"
    /\ Commit(r)
    /\ Respond(r, "failed")

SendResponse(r) ==
    /\ pc[r] = "respond"
    /\ Respond(r, "ok")
    /\ UNCHANGED dbVars

\* The server stops and cancels the request: the session is closed, and what it
\* had not committed is gone.
CancelRequest(r) ==
    /\ pc[r] # "idle"
    /\ Raise(r, "none")

----------------------------------------------------------------------------
(* The statements.  Each query filters by owner.                           *)

\* The row with this id, if it is the caller's.
Own(r, id) == IF rows[id] # NoRow /\ rows[id].owner = op[r].user THEN rows[id]
                                                                  ELSE NoRow

At(r, kind) == pc[r] = "statement" /\ op[r].kind = kind

\* Mutant: the query of the list does not filter by owner.
MutListNotes(r) ==
    /\ At(r, "list")
    /\ listed' = [listed EXCEPT ![r] = {rows[id] : id \in RowIds} \ {NoRow}]
    /\ Goto(r, "commit")
    /\ UNCHANGED <<dbVars, copy, usedIds>>

\* page(), with a limit that no user reaches (Paging has the limit).
ListNotes(r) ==
    /\ At(r, "list")
    /\ listed' = [listed EXCEPT ![r] =
          {row \in {rows[id] : id \in RowIds} : row # NoRow /\ row.owner = op[r].user}]
    /\ Goto(r, "commit")
    /\ UNCHANGED <<dbVars, copy, usedIds>>

\* Mutant: the note takes any id that no note has.
MutCreateNote(r, id) ==
    /\ At(r, "create")
    /\ rows[id] = NoRow
    /\ usedIds' = usedIds \cup {id}
    /\ LET note == [owner |-> op[r].user, title |-> r, body |-> r]
       IN  /\ copy' = [copy EXCEPT ![r] = note]
           /\ Write(r, id, note)
    /\ Goto(r, "commit")
    /\ UNCHANGED listed

\* Note.create() and add(): the INSERT is sent by the flush.
CreateNote(r, id) ==
    /\ At(r, "create")
    /\ id \notin usedIds
    /\ usedIds' = usedIds \cup {id}
    /\ LET note == [owner |-> op[r].user, title |-> r, body |-> r]
       IN  /\ copy' = [copy EXCEPT ![r] = note]
           /\ Write(r, id, note)
    /\ Goto(r, "commit")
    /\ UNCHANGED listed

\* get_note(), which update_note() calls too: NotFoundError if there is no row.
ReadNote(r) ==
    /\ At(r, "get") \/ At(r, "update")
    /\ Own(r, op[r].id) # NoRow
    /\ copy' = [copy EXCEPT ![r] = Own(r, op[r].id)]
    /\ Goto(r, IF op[r].kind = "get" THEN "commit" ELSE "save")
    /\ UNCHANGED <<dbVars, listed, usedIds>>

ReadNothing(r) ==
    /\ At(r, "get") \/ At(r, "update")
    /\ Own(r, op[r].id) = NoRow
    /\ Raise(r, "not_found")

\* Mutant: a field that is not given is set to None.
MutEdited(r) ==
    [copy[r] EXCEPT !.title = IF "title" \in op[r].fields THEN r ELSE NoRow,
                    !.body  = IF "body" \in op[r].fields THEN r ELSE NoRow]

\* Note.edit(): the fields given, on the note as it was read.
Edited(r) ==
    [copy[r] EXCEPT !.title = IF "title" \in op[r].fields THEN r ELSE @,
                    !.body  = IF "body" \in op[r].fields THEN r ELSE @]

\* Mutant: save() inserts the note if it is not there.
MutSaveNote(r) ==
    /\ pc[r] = "save"
    /\ RowIsFree(r, op[r].id)
    /\ Write(r, op[r].id, Edited(r))
    /\ Goto(r, "commit")
    /\ UNCHANGED <<copy, listed, usedIds>>

\* save(): one UPDATE with the whole note.
SaveNote(r) ==
    /\ pc[r] = "save"
    /\ RowIsFree(r, op[r].id)
    /\ Own(r, op[r].id) # NoRow
    /\ Write(r, op[r].id, Edited(r))
    /\ Goto(r, "commit")
    /\ UNCHANGED <<copy, listed, usedIds>>

\* Deleted by another request between the read and the write.
SaveNothing(r) ==
    /\ pc[r] = "save"
    /\ Own(r, op[r].id) = NoRow
    /\ Raise(r, "not_found")

DeleteNote(r) ==
    /\ At(r, "delete")
    /\ RowIsFree(r, op[r].id)
    /\ Own(r, op[r].id) # NoRow
    /\ Write(r, op[r].id, NoRow)
    /\ Goto(r, "commit")
    /\ UNCHANGED <<copy, listed, usedIds>>

DeleteNothing(r) ==
    /\ At(r, "delete")
    /\ Own(r, op[r].id) = NoRow
    /\ Raise(r, "not_found")

----------------------------------------------------------------------------
(* GET /health/ready: run_check() of DatabaseManager.health_check().  The   *)
(* other check, of the keys, awaits nothing: they are there after startup.  *)

\* SELECT 1 answers, and the session of health_check() is closed.
CheckAnswers(r) ==
    /\ At(r, "ready")
    /\ Rollback(r)
    /\ Goto(r, "respond")
    /\ UNCHANGED <<copy, listed, usedIds>>

\* CHECK_TIMEOUT_SECONDS: the check is cancelled wherever it is.
CheckTimesOut(r) ==
    /\ pc[r] \in {"connect", "statement"}
    /\ op[r].kind = "ready"
    /\ Raise(r, "unavailable")

----------------------------------------------------------------------------

Statement(r) ==
    \/ ListNotes(r)
    \/ \E id \in RowIds : CreateNote(r, id)
    \/ ReadNote(r)
    \/ ReadNothing(r)
    \/ SaveNote(r)
    \/ SaveNothing(r)
    \/ DeleteNote(r)
    \/ DeleteNothing(r)

\* What moves a request on when nothing goes wrong.
Progress(r) == Connect(r) \/ Statement(r) \/ CommitSession(r) \/ SendResponse(r)

Trouble(r) ==
    \/ Unreachable(r)
    \/ PoolTimeout(r)
    \/ Fails(r)
    \/ CommitUnconfirmed(r)
    \/ CancelRequest(r)
    \/ CheckTimesOut(r)

Next ==
    \E r \in Requests :
        \/ \E o \in Operations : Receive(r, o)
        \/ Progress(r)
        \/ CheckAnswers(r)
        \/ Trouble(r)

Spec == Init /\ [][Next]_vars

\* Postgres answers each statement of a route, and gives a row lock and the pool
\* gives a connection in the order they were asked for.  The probe asks nothing
\* of Postgres: its timeout comes.
FairSpec ==
    /\ Spec
    /\ \A r \in Requests : SF_vars(Progress(r)) /\ WF_vars(CheckTimesOut(r))

----------------------------------------------------------------------------
(* Properties                                                              *)

WritingKinds == {"create", "update", "delete"}

\* A success is only told of what is in the database, and a refusal (404, 503)
\* only of a request that has changed nothing (DbSession, l. 46-49).  A 500 is
\* never told of a commit that was confirmed; what it tells of is in the table
\* as a whole or not at all, since Postgres may have committed it unheard.
AnswersTellTheTruth ==
    [][\A r \in Requests : pc[r] # "idle" /\ pc'[r] = "idle" =>
          /\ answer'[r] = "ok" /\ op[r].kind \in WritingKinds => applied[r]
          /\ answer'[r] \in {"not_found", "unavailable"} => ~applied[r] /\ rows' = rows
          /\ answer'[r] = "failed" =>
                /\ ~applied[r]
                /\ \/ rows' = rows
                   \/ rows' = [rows EXCEPT ![written[r].id] = written[r].row]]_vars

\* Each user reaches only their own notes (NoteService, l. 9): a note that a
\* request reads, alone or in a list, is the caller's, only a request of the
\* owner changes a note, and the owner of a note never changes.
OwnNotesOnly ==
    [][/\ \A r \in Requests : copy'[r] # NoRow => copy'[r].owner = op'[r].user
       /\ \A r \in Requests : \A row \in listed'[r] : row.owner = op'[r].user
       /\ \A id \in RowIds : rows'[id] # rows[id] =>
             \E r \in Requests :
                /\ written[r] # NoWrite /\ written[r].id = id
                /\ rows[id] # NoRow => rows[id].owner = op[r].user
                /\ rows'[id] # NoRow => rows'[id].owner = op[r].user]_vars

\* A note comes into the table once, with the request that created it: a PATCH
\* that races a DELETE does not bring the note back (update_note, l. 42-44).
DeletedStaysDeleted ==
    [][\A id \in RowIds : rows[id] = NoRow /\ rows'[id] # NoRow =>
          \E r \in Requests : /\ written[r] # NoWrite /\ written[r].id = id
                              /\ op[r].kind = "create"]_vars

\* What UpdateNoteRequest says of a PATCH: the fields it does not give stay as
\* they are (request.py l. 27).
OtherFieldsStay ==
    [][\A r \in Requests :
          /\ pc[r] = "commit" /\ op[r].kind = "update"
          /\ written[r] # NoWrite /\ written'[r] = NoWrite
          /\ rows[op[r].id] # NoRow /\ rows'[op[r].id] # rows[op[r].id]
          => \A f \in Fields \ op[r].fields :
                 rows'[op[r].id][f] = rows[op[r].id][f]]_vars

\* Between requests no connection stays out of the pool, and no row locked.
NothingLeaks ==
    \A r \in Requests : pc[r] \in {"idle", "connect"} =>
        r \notin connections /\ written[r] = NoWrite

\* The ids that a session has given to a note it has not committed yet.
Reserved ==
    {[id |-> written[r].id, owner |-> op[r].user] :
        r \in {q \in Requests : written[q] # NoWrite /\ op[q].kind = "create"}}

Store == INSTANCE NoteStore
    WITH Ids <- RowIds, NoNote <- NoRow, notes <- rows, used <- usedIds,
         reserved <- Reserved

\* The table behaves as NoteStore promises: whatever requests race, fail or are
\* cancelled, a note is created, edited by its owner's requests and deleted as
\* a whole, and an id is the id of one note for ever.
KeepsStore == Store!Spec

\* Every request ends: waiting for a connection or for a row never becomes
\* waiting for each other, however small the pool.
RequestsEnd == \A r \in Requests : pc[r] # "idle" ~> pc[r] = "idle"
=============================================================================
