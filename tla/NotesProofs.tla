----------------------------- MODULE NotesProofs -----------------------------
(***************************************************************************)
(* Proofs about Notes, for any number of users, notes, requests and         *)
(* connections.                                                            *)
(***************************************************************************)
EXTENDS Notes, TLAPS

Holds(r) == written[r] # NoWrite

\* Where a request is, and what its session and its memory hold there.
Sessions ==
    \A r \in Requests :
        /\ pc[r] = "idle" => op[r] = NoOp /\ copy[r] = NoRow /\ listed[r] = {}
        /\ pc[r] # "idle" => op[r] \in Operations
        /\ r \in connections => pc[r] \in {"statement", "save", "commit"}
        /\ Holds(r) => pc[r] = "commit" /\ op[r].kind \in WritingKinds
        /\ pc[r] = "commit" /\ op[r].kind \in WritingKinds => Holds(r)
        /\ pc[r] = "save" => op[r].kind = "update" /\ copy[r] # NoRow
        /\ copy[r] # NoRow => copy[r].owner = op[r].user
        /\ \A row \in listed[r] : row.owner = op[r].user
        /\ applied[r] => pc[r] = "respond"
        /\ pc[r] = "respond" /\ op[r].kind \in WritingKinds => applied[r]

\* What a session has written is the caller's, and nobody else writes the row.
Locks ==
    /\ \A id \in RowIds : rows[id] # NoRow => id \in usedIds
    /\ \A r \in Requests : Holds(r) =>
          LET id == written[r].id  row == written[r].row
          IN  /\ id \in usedIds
              /\ op[r].kind = "create" => rows[id] = NoRow
              /\ op[r].kind # "create" => rows[id] # NoRow /\ rows[id].owner = op[r].user
              /\ op[r].kind # "delete" => row # NoRow /\ row.owner = op[r].user
              /\ op[r].kind = "delete" => row = NoRow
    /\ \A r, s \in Requests : Holds(r) /\ Holds(s) /\ written[r].id = written[s].id
          => r = s

IndInv == TypeOK /\ Sessions /\ Locks

----------------------------------------------------------------------------
(* What requests ask for, and what the steps of a session do.              *)

\* What a route is called with.
LEMMA Asked ==
    ASSUME NEW o \in Operations
    PROVE  /\ o.kind \in AllKinds
           /\ o.kind # "ready" => o.user \in Users
           /\ o.kind \in {"get", "update", "delete"} => o.id \in RowIds
BY NotesAssumption DEF Operations, AllKinds

\* A note that is edited stays a note of its owner.
LEMMA EditKeepsOwner ==
    ASSUME TypeOK, NEW r \in Requests, copy[r] # NoRow
    PROVE  Edited(r) \in Rows /\ Edited(r).owner = copy[r].owner
BY DEF TypeOK, Edited, Rows, Texts

\* The invariant holds while no request has come.
THEOREM IndInvInit == Init => IndInv
<1> SUFFICES ASSUME Init PROVE IndInv
  OBVIOUS
<1>1. PICK t \in InitialRows : DbInit(t) /\ usedIds = {id \in RowIds : t[id] # NoRow}
  BY DEF Init
<1>2. t \in [RowIds -> Rows \cup {NoRow}]
  BY DEF InitialRows, Rows, Texts
<1>3. /\ rows \in [RowIds -> Rows \cup {NoRow}]
      /\ written = [r \in Requests |-> NoWrite] /\ connections = {}
      /\ usedIds = {id \in RowIds : rows[id] # NoRow}
  BY <1>1, <1>2 DEF DbInit
<1> QED
  BY <1>3 DEF Init, IndInv, TypeOK, Sessions, Locks, Holds, Points, Answers

----------------------------------------------------------------------------
(* The actions, by what they do to the session.                            *)

\* A request ends with its session: nothing of it is left.
LEMMA Ends ==
    ASSUME IndInv, NEW r \in Requests, NEW status \in Answers,
           Rollback(r), Respond(r, status)
    PROVE  IndInv'
BY DEF IndInv, TypeOK, Sessions, Locks, Holds, Points, Answers, Rollback, EndSession, Respond

\* What a request has written becomes the table's.
LEMMA Commits ==
    ASSUME IndInv, NEW r \in Requests, pc[r] = "commit", Commit(r)
    PROVE  /\ rows' \in [RowIds -> Rows \cup {NoRow}]
           /\ written' = [written EXCEPT ![r] = NoWrite]
           /\ connections' = connections \ {r}
           /\ \A id \in RowIds : rows'[id] # rows[id] => Holds(r) /\ id = written[r].id
           /\ \A id \in RowIds : rows'[id] # NoRow => id \in usedIds
<1>1. CASE ~Holds(r)
  BY <1>1 DEF IndInv, TypeOK, Locks, Holds, Commit, EndSession
<1>2. CASE Holds(r)
  BY <1>2 DEF IndInv, TypeOK, Locks, Holds, Commit, EndSession
<1> QED
  BY <1>1, <1>2

\* A commit leaves the rows alone that another session has written to.
LEMMA OthersKeep ==
    ASSUME IndInv, NEW r \in Requests, pc[r] = "commit", Commit(r),
           NEW s \in Requests, s # r, Holds(s)
    PROVE  rows'[written[s].id] = rows[written[s].id]
<1>1. written[s].id \in RowIds
  BY DEF IndInv, TypeOK, Holds
<1>2. rows'[written[s].id] # rows[written[s].id] => Holds(r) /\ written[s].id = written[r].id
  BY <1>1, Commits
<1> QED
  BY <1>2 DEF IndInv, Locks

\* Every step of a request, of the database and of a failure keeps it.
THEOREM IndInvStep == IndInv /\ [Next]_vars => IndInv'
<1> SUFFICES ASSUME IndInv, [Next]_vars PROVE IndInv'
  OBVIOUS
<1>0. CASE UNCHANGED vars
  BY <1>0 DEF vars, dbVars, noteVars, IndInv, TypeOK, Sessions, Locks, Holds
<1> SUFFICES ASSUME NEW r \in Requests,
                    \/ \E o \in Operations : Receive(r, o)
                    \/ Progress(r) \/ CheckAnswers(r) \/ Trouble(r)
             PROVE  IndInv'
  BY <1>0 DEF Next
<1>1. ASSUME NEW o \in Operations, Receive(r, o) PROVE IndInv'
  BY <1>1, NotesAssumption DEF Receive, dbVars, IndInv, TypeOK, Sessions, Locks, Holds, Points, Answers
<1>2. CASE Connect(r)
  BY <1>2 DEF Connect, CheckOut, Goto, IndInv, TypeOK, Sessions, Locks, Holds, Points
<1>3. CASE ListNotes(r)
  BY <1>3 DEF ListNotes, At, Goto, dbVars, WritingKinds, IndInv, TypeOK, Sessions, Locks, Holds, Points
<1>4. ASSUME NEW id \in RowIds, CreateNote(r, id) PROVE IndInv'
  <2> DEFINE note == [owner |-> op[r].user, title |-> r, body |-> r]
  <2>1. op[r] \in Operations /\ op[r].kind = "create" /\ pc[r] = "statement"
    BY <1>4 DEF CreateNote, At, IndInv, Sessions
  <2>2. note \in Rows /\ note.owner = op[r].user /\ note # NoRow
    BY <2>1, Asked, NotesAssumption DEF Rows, Texts
  <2>3. /\ id \notin usedIds /\ usedIds' = usedIds \cup {id}
        /\ copy' = [copy EXCEPT ![r] = note]
        /\ written' = [written EXCEPT ![r] = [id |-> id, row |-> note]]
        /\ pc' = [pc EXCEPT ![r] = "commit"]
        /\ UNCHANGED <<rows, connections, op, listed, answer, applied>>
    BY <1>4 DEF CreateNote, Write, Goto
  <2>4. [id |-> id, row |-> note] # NoWrite
    BY <2>2, NotesAssumption
  <2> HIDE DEF note
  <2>5. TypeOK'
    BY <2>2, <2>3 DEF IndInv, TypeOK, Points
  <2>6. Sessions'
    BY <2>1, <2>2, <2>3, <2>4 DEF IndInv, TypeOK, Sessions, Holds, WritingKinds
  <2>7. Locks'
    BY <2>1, <2>2, <2>3, <2>4 DEF IndInv, TypeOK, Locks, Holds
  <2> QED
    BY <2>5, <2>6, <2>7 DEF IndInv
<1>5. CASE ReadNote(r)
  BY <1>5, Asked DEF ReadNote, At, Own, Goto, dbVars, WritingKinds, IndInv, TypeOK, Sessions, Locks, Holds, Points
<1>6. ASSUME NEW row \in Rows \cup {NoRow}, pc[r] \in {"statement", "save"},
             op[r].kind \in {"update", "delete"}, RowIsFree(r, op[r].id),
             Own(r, op[r].id) # NoRow, Write(r, op[r].id, row), Goto(r, "commit"),
             op[r].kind = "update" => row # NoRow /\ row.owner = op[r].user,
             op[r].kind = "delete" => row = NoRow,
             UNCHANGED <<copy, listed, usedIds>>
      PROVE  IndInv'
  <2>1. op[r] \in Operations
    BY <1>6 DEF IndInv, Sessions
  <2>2. op[r].id \in RowIds
    BY <1>6, <2>1, Asked
  <2>3. rows[op[r].id] # NoRow /\ rows[op[r].id].owner = op[r].user
    BY <1>6 DEF Own
  <2>4. [id |-> op[r].id, row |-> row] # NoWrite
    BY <1>6, <2>2, NotesAssumption
  <2>5. /\ written' = [written EXCEPT ![r] = [id |-> op[r].id, row |-> row]]
        /\ pc' = [pc EXCEPT ![r] = "commit"]
        /\ UNCHANGED <<rows, connections, op, answer, applied, copy, listed, usedIds>>
    BY <1>6 DEF Write, Goto
  <2>6. TypeOK'
    BY <1>6, <2>2, <2>5 DEF IndInv, TypeOK, Points
  <2>7. Sessions'
    BY <1>6, <2>1, <2>4, <2>5 DEF IndInv, TypeOK, Sessions, Holds, WritingKinds
  <2>8. Locks'
    BY <1>6, <2>2, <2>3, <2>4, <2>5 DEF IndInv, TypeOK, Locks, Holds, RowIsFree
  <2> QED
    BY <2>6, <2>7, <2>8 DEF IndInv
<1>7. CASE SaveNote(r)
  <2>1. copy[r] # NoRow /\ op[r].kind = "update" /\ copy[r].owner = op[r].user
    BY <1>7 DEF SaveNote, IndInv, Sessions
  <2>2. Edited(r) \in Rows /\ Edited(r).owner = op[r].user /\ Edited(r) # NoRow
    BY <2>1, EditKeepsOwner, NotesAssumption DEF IndInv
  <2> QED
    BY <1>6, <1>7, <2>1, <2>2 DEF SaveNote
<1>8. CASE DeleteNote(r)
  BY <1>6, <1>8 DEF DeleteNote, At
<1>9. CASE CommitSession(r)
  <2>1. /\ pc[r] = "commit" /\ Commit(r)
        /\ applied' = [applied EXCEPT ![r] = Holds(r)]
        /\ pc' = [pc EXCEPT ![r] = "respond"]
        /\ UNCHANGED <<op, copy, listed, usedIds, answer>>
    BY <1>9 DEF CommitSession, Holds
  <2>2. TypeOK'
    BY <2>1, Commits DEF IndInv, TypeOK, Points, Holds
  <2>3. Sessions'
    <3>1. applied'[r] = Holds(r) /\ \A s \in Requests \ {r} : applied'[s] = applied[s]
      BY <2>1 DEF IndInv, TypeOK
    <3>2. op[r].kind \in WritingKinds => Holds(r)
      BY <2>1 DEF IndInv, Sessions
    <3>3. written' = [written EXCEPT ![r] = NoWrite] /\ connections' = connections \ {r}
      BY <2>1 DEF Commit, EndSession
    <3>4. pc'[r] = "respond" /\ \A s \in Requests \ {r} : pc'[s] = pc[s]
      BY <2>1 DEF IndInv, TypeOK
    <3>5. ~Holds(r)' /\ \A s \in Requests \ {r} : Holds(s)' <=> Holds(s)
      BY <3>3 DEF IndInv, TypeOK, Holds
    <3>6. op' = op /\ copy' = copy /\ listed' = listed
      BY <2>1
    <3> HIDE DEF Holds
    <3>7. applied'[r] <=> Holds(r)
      BY <3>1
    <3> QED
      BY <2>1, <3>1, <3>2, <3>3, <3>4, <3>5, <3>6, <3>7 DEF IndInv, Sessions
  <2>4. Locks'
    BY <2>1, Commits, OthersKeep DEF IndInv, TypeOK, Locks, Holds
  <2> QED
    BY <2>2, <2>3, <2>4 DEF IndInv
<1>10. CASE CommitUnconfirmed(r)
  <2>1. /\ pc[r] = "commit" /\ Commit(r) /\ Respond(r, "failed")
    BY <1>10 DEF CommitUnconfirmed
  <2>2. TypeOK'
    BY <2>1, Commits DEF IndInv, TypeOK, Points, Answers, Respond
  <2>3. Sessions'
    BY <2>1, Commits DEF IndInv, TypeOK, Sessions, Holds, Respond
  <2>4. Locks'
    BY <2>1, Commits, OthersKeep DEF IndInv, TypeOK, Locks, Holds, Respond
  <2> QED
    BY <2>2, <2>3, <2>4 DEF IndInv
<1>11. CASE SendResponse(r)
  BY <1>11 DEF SendResponse, Respond, dbVars, IndInv, TypeOK, Sessions, Locks, Holds, Points, Answers
<1>12. CASE CheckAnswers(r)
  <2>1. op[r].kind \notin WritingKinds
    BY <1>12 DEF CheckAnswers, At, WritingKinds
  <2>2. /\ pc[r] = "statement" /\ pc' = [pc EXCEPT ![r] = "respond"]
        /\ written' = [written EXCEPT ![r] = NoWrite]
        /\ connections' = connections \ {r}
        /\ UNCHANGED <<rows, op, answer, applied, copy, listed, usedIds>>
    BY <1>12 DEF CheckAnswers, At, Rollback, EndSession, Goto
  <2>3. TypeOK' /\ Locks'
    BY <2>2 DEF IndInv, TypeOK, Locks, Holds, Points
  <2>4. Sessions'
    BY <2>1, <2>2 DEF IndInv, TypeOK, Sessions, Holds
  <2> QED
    BY <2>3, <2>4 DEF IndInv
<1>13. CASE Unreachable(r) \/ PoolTimeout(r)
  <2>1. PICK status \in Answers : Respond(r, status) /\ UNCHANGED dbVars /\ pc[r] = "connect"
    BY <1>13 DEF Unreachable, PoolTimeout, Failure, Answers
  <2>2. Rollback(r)
    BY <2>1 DEF Rollback, EndSession, dbVars, IndInv, TypeOK, Sessions, Holds
  <2> QED
    BY <2>1, <2>2, Ends
<1>14. CASE ReadNothing(r) \/ SaveNothing(r) \/ DeleteNothing(r) \/ Fails(r)
            \/ CancelRequest(r) \/ CheckTimesOut(r)
  <2>1. \E status \in Answers : Rollback(r) /\ Respond(r, status)
    BY <1>14 DEF ReadNothing, SaveNothing, DeleteNothing, Fails, CancelRequest,
       CheckTimesOut, Raise, Failure, Answers
  <2> QED
    BY <2>1, Ends
<1> QED
  BY <1>1, <1>2, <1>3, <1>4, <1>5, <1>7, <1>8, <1>9, <1>10, <1>11, <1>12, <1>13, <1>14
     DEF Progress, Statement, Trouble

\* It holds whatever requests race, fail or are cancelled.
THEOREM Inductive == Spec => []IndInv
BY IndInvInit, IndInvStep, PTL DEF Spec

\* Every variable of the database and of the requests has its type.
THEOREM TypeCorrect == Spec => []TypeOK
BY Inductive, PTL DEF IndInv

\* A request that is over, or still waits for the pool, holds nothing.
THEOREM SessionsEnd == Spec => []NothingLeaks
<1>1. IndInv => NothingLeaks
  BY DEF IndInv, Sessions, Holds, NothingLeaks
<1> QED
  BY <1>1, Inductive, PTL

----------------------------------------------------------------------------
(* The action properties: what a single step may do.                       *)

\* The last step of each request, by the answer it gives.
LEMMA LastStep ==
    ASSUME IndInv, Next, NEW r \in Requests, pc[r] # "idle", pc'[r] = "idle"
    PROVE  \/ answer'[r] = "ok" /\ pc[r] = "respond"
           \/ answer'[r] \in {"not_found", "unavailable"} /\ pc[r] # "respond" /\ rows' = rows
           \/ /\ answer'[r] = "failed" /\ pc[r] # "respond"
              /\ rows' = rows \/ rows' = [rows EXCEPT ![written[r].id] = written[r].row]
           \/ answer'[r] = "none"
<1>1. PICK s \in Requests : \/ \E o \in Operations : Receive(s, o)
                            \/ Progress(s) \/ CheckAnswers(s) \/ Trouble(s)
  BY DEF Next
<1>2. ASSUME NEW q \in Requests, NEW point \in Points \ {"idle"},
             pc' = [pc EXCEPT ![q] = point]
      PROVE  FALSE
  BY <1>2 DEF IndInv, TypeOK, Points
<1>3. ASSUME NEW status \in Answers, Respond(s, status) PROVE s = r /\ answer'[r] = status
  BY <1>3 DEF Respond, IndInv, TypeOK
<1>4. CASE \E o \in Operations : Receive(s, o)
  BY <1>2, <1>4 DEF Receive, Points
<1>5. CASE Connect(s) \/ CheckAnswers(s) \/ CommitSession(s)
  BY <1>2, <1>5 DEF Connect, CheckAnswers, CommitSession, Goto, Points
<1>6. CASE ListNotes(s) \/ ReadNote(s) \/ SaveNote(s) \/ DeleteNote(s)
           \/ \E id \in RowIds : CreateNote(s, id)
  BY <1>2, <1>6 DEF ListNotes, ReadNote, SaveNote, DeleteNote, CreateNote, Goto, Points
<1>7. CASE SendResponse(s)
  BY <1>3, <1>7 DEF SendResponse, Answers
<1>8. CASE Unreachable(s) \/ PoolTimeout(s)
  BY <1>3, <1>8 DEF Unreachable, PoolTimeout, Failure, Answers, dbVars
<1>9. CASE ReadNothing(s) \/ SaveNothing(s) \/ DeleteNothing(s) \/ Fails(s) \/ CheckTimesOut(s)
  BY <1>3, <1>9 DEF ReadNothing, SaveNothing, DeleteNothing, Fails, CheckTimesOut,
     At, Raise, Rollback, Failure, Answers
<1>10. CASE CommitUnconfirmed(s)
  BY <1>3, <1>10 DEF CommitUnconfirmed, Commit, Answers
<1>11. CASE CancelRequest(s)
  BY <1>3, <1>11 DEF CancelRequest, Raise, Answers
<1> QED
  BY <1>1, <1>4, <1>5, <1>6, <1>7, <1>8, <1>9, <1>10, <1>11 DEF Progress, Statement, Trouble

\* A success is told of what is committed, a refusal of what is not, and a 500
\* never of a commit that was confirmed.
THEOREM AnswersAreTrue == Spec => AnswersTellTheTruth
<1> DEFINE Truth ==
      \A r \in Requests : pc[r] # "idle" /\ pc'[r] = "idle" =>
          /\ answer'[r] = "ok" /\ op[r].kind \in WritingKinds => applied[r]
          /\ answer'[r] \in {"not_found", "unavailable"} => ~applied[r] /\ rows' = rows
          /\ answer'[r] = "failed" =>
                /\ ~applied[r]
                /\ \/ rows' = rows
                   \/ rows' = [rows EXCEPT ![written[r].id] = written[r].row]
<1>1. IndInv /\ [Next]_vars => [Truth]_vars
  <2> SUFFICES ASSUME IndInv, Next, NEW r \in Requests, pc[r] # "idle", pc'[r] = "idle"
               PROVE  /\ answer'[r] = "ok" /\ op[r].kind \in WritingKinds => applied[r]
                      /\ answer'[r] \in {"not_found", "unavailable"}
                            => ~applied[r] /\ rows' = rows
                      /\ answer'[r] = "failed" =>
                            /\ ~applied[r]
                            /\ \/ rows' = rows
                               \/ rows' = [rows EXCEPT ![written[r].id] = written[r].row]
    OBVIOUS
  <2> QED
    BY LastStep DEF IndInv, Sessions
<1> QED
  BY <1>1, Inductive, PTL DEF Spec, AnswersTellTheTruth

\* The table changes only by the commit of what one request has written.
LEMMA TableStep ==
    ASSUME IndInv, [Next]_vars, rows' # rows
    PROVE  \E r \in Requests : pc[r] = "commit" /\ Commit(r) /\ UNCHANGED usedIds
                               /\ \A s \in Requests \ {r} : op'[s] = op[s]
<1>1. PICK s \in Requests : \/ \E o \in Operations : Receive(s, o)
                            \/ Progress(s) \/ CheckAnswers(s) \/ Trouble(s)
  BY DEF Next, vars, dbVars
<1>2. CASE CommitSession(s) \/ CommitUnconfirmed(s)
  BY <1>2 DEF CommitSession, CommitUnconfirmed, Respond, IndInv, TypeOK
<1> QED
  BY <1>1, <1>2 DEF Progress, Statement, Trouble, Receive, Connect, CheckOut, ListNotes,
     CreateNote, ReadNote, ReadNothing, SaveNote, SaveNothing, DeleteNote, DeleteNothing,
     Write, SendResponse, CheckAnswers, Unreachable, PoolTimeout, Fails, CancelRequest,
     CheckTimesOut, Raise, Rollback, dbVars

\* A note comes into the table only with the request that created it.
THEOREM NoNoteComesBack == Spec => DeletedStaysDeleted
<1> DEFINE ByItsCreator ==
      \A id \in RowIds : rows[id] = NoRow /\ rows'[id] # NoRow =>
          \E r \in Requests : /\ written[r] # NoWrite /\ written[r].id = id
                              /\ op[r].kind = "create"
<1>1. IndInv /\ [Next]_vars => [ByItsCreator]_vars
  <2> SUFFICES ASSUME IndInv, [Next]_vars, NEW id \in RowIds,
                      rows[id] = NoRow, rows'[id] # NoRow
               PROVE  \E r \in Requests : /\ written[r] # NoWrite /\ written[r].id = id
                                          /\ op[r].kind = "create"
    OBVIOUS
  <2>1. PICK r \in Requests : pc[r] = "commit" /\ Commit(r)
    BY TableStep
  <2>2. Holds(r) /\ id = written[r].id
    BY <2>1, Commits
  <2> QED
    BY <2>2 DEF IndInv, Locks, Holds
<1> QED
  BY <1>1, Inductive, PTL DEF Spec, DeletedStaysDeleted

\* Each user reads and changes only their own notes.
THEOREM OwnersOnly == Spec => OwnNotesOnly
<1> DEFINE Reads == /\ \A r \in Requests : copy'[r] # NoRow => copy'[r].owner = op'[r].user
                    /\ \A r \in Requests : \A row \in listed'[r] : row.owner = op'[r].user
           Changes == \A id \in RowIds : rows'[id] # rows[id] =>
             \E r \in Requests :
                /\ written[r] # NoWrite /\ written[r].id = id
                /\ rows[id] # NoRow => rows[id].owner = op[r].user
                /\ rows'[id] # NoRow => rows'[id].owner = op[r].user
<1>1. IndInv' => Reads
  BY DEF IndInv, Sessions
<1>2. IndInv /\ [Next]_vars => Changes
  <2> SUFFICES ASSUME IndInv, [Next]_vars, NEW id \in RowIds, rows'[id] # rows[id]
               PROVE  \E r \in Requests :
                         /\ written[r] # NoWrite /\ written[r].id = id
                         /\ rows[id] # NoRow => rows[id].owner = op[r].user
                         /\ rows'[id] # NoRow => rows'[id].owner = op[r].user
    OBVIOUS
  <2>1. PICK r \in Requests : pc[r] = "commit" /\ Commit(r)
    BY TableStep
  <2>2. Holds(r) /\ id = written[r].id
    BY <2>1, Commits
  <2>3. rows'[id] = written[r].row
    BY <2>1, <2>2 DEF Commit, Holds, IndInv, TypeOK
  <2>4. rows[id] # NoRow => rows[id].owner = op[r].user
    BY <2>2 DEF IndInv, Locks
  <2>5. rows'[id] # NoRow => rows'[id].owner = op[r].user
    BY <2>2, <2>3 DEF IndInv, Locks
  <2> QED
    BY <2>2, <2>4, <2>5 DEF Holds
<1>3. IndInv /\ [Next]_vars => [Reads /\ Changes]_vars
  BY <1>1, <1>2, IndInvStep
<1> QED
  BY <1>3, Inductive, PTL DEF Spec, OwnNotesOnly

----------------------------------------------------------------------------
(* The table implements NoteStore.                                         *)

Creates(r) == Holds(r) /\ op[r].kind = "create"
Entry(r)   == [id |-> written[r].id, owner |-> op[r].user]

Others(s) == \A r \in Requests \ {s} : written'[r] = written[r] /\ op'[r] = op[r]

\* What a step of request s does to its session.
Nothing(s) == UNCHANGED <<rows, usedIds>> /\ written'[s] = NoWrite
Writes(s)  == /\ UNCHANGED <<rows, usedIds>> /\ op'[s] = op[s]
              /\ ~Holds(s) /\ op[s].kind # "create"
Begins(s)  == /\ pc[s] = "statement" /\ op[s].kind = "create" /\ ~Holds(s)
              /\ UNCHANGED rows /\ op'[s] = op[s]
              /\ written'[s] # NoWrite /\ written'[s].id \in RowIds \ usedIds
              /\ usedIds' = usedIds \cup {written'[s].id}
Publishes(s) == pc[s] = "commit" /\ Commit(s) /\ UNCHANGED usedIds

\* To the table, each step is one of four things: nothing, a statement that writes, the
\* INSERT that takes an id, or a commit.
LEMMA StepKinds ==
    ASSUME IndInv, Next
    PROVE  \E s \in Requests :
              Others(s) /\ (Nothing(s) \/ Writes(s) \/ Begins(s) \/ Publishes(s))
<1>1. PICK s \in Requests : \/ \E o \in Operations : Receive(s, o)
                            \/ Progress(s) \/ CheckAnswers(s) \/ Trouble(s)
  BY DEF Next
<1>2. CASE \E o \in Operations : Receive(s, o)
  BY <1>2 DEF Receive, dbVars, Others, Nothing, IndInv, TypeOK, Sessions, Holds
<1>3. CASE Connect(s) \/ ListNotes(s) \/ ReadNote(s)
  BY <1>3 DEF Connect, CheckOut, ListNotes, ReadNote, At, Goto, dbVars, Others, Nothing,
     IndInv, TypeOK, Sessions, Holds
<1>4. ASSUME NEW id \in RowIds, CreateNote(s, id) PROVE Others(s) /\ Begins(s)
  <2>1. /\ id \notin usedIds /\ usedIds' = usedIds \cup {id} /\ op' = op /\ rows' = rows
        /\ pc[s] = "statement" /\ op[s].kind = "create"
    BY <1>4 DEF CreateNote, At, Goto, Write
  <2>2. PICK row : row = [owner |-> op[s].user, title |-> s, body |-> s]
    OBVIOUS
  <2>3. written' = [written EXCEPT ![s] = [id |-> id, row |-> row]]
    BY <1>4, <2>2 DEF CreateNote, Write
  <2>4. op[s] \in Operations /\ op[s].user \in Users
    BY <2>1, Asked DEF IndInv, Sessions
  <2>5. row \in Rows
    BY <2>2, <2>4 DEF Rows, Texts
  <2>6. written'[s] = [id |-> id, row |-> row] /\ written'[s] # NoWrite
    BY <2>3, <2>5, NotesAssumption DEF IndInv, TypeOK
  <2>7. Others(s)
    BY <2>1, <2>3 DEF Others, IndInv, TypeOK
  <2>8. ~Holds(s)
    BY <2>1 DEF IndInv, Sessions
  <2> QED
    BY <2>1, <2>6, <2>7, <2>8 DEF Begins
<1>5. CASE SaveNote(s) \/ DeleteNote(s)
  <2>1. ~Holds(s) /\ op[s].kind # "create"
    BY <1>5 DEF SaveNote, DeleteNote, At, IndInv, Sessions
  <2>2. \E row : Write(s, op[s].id, row)
    BY <1>5 DEF SaveNote, DeleteNote
  <2> QED
    BY <1>5, <2>1, <2>2 DEF SaveNote, DeleteNote, Write, Goto, Others, Writes, IndInv, TypeOK
<1>6. CASE CommitSession(s) \/ CommitUnconfirmed(s)
  BY <1>6 DEF CommitSession, CommitUnconfirmed, Commit, EndSession, Respond, Others, Publishes,
     IndInv, TypeOK
<1>7. CASE SendResponse(s) \/ Unreachable(s) \/ PoolTimeout(s)
  BY <1>7 DEF SendResponse, Unreachable, PoolTimeout, Respond, dbVars, Others, Nothing,
     IndInv, TypeOK, Sessions, Holds
<1>8. CASE ReadNothing(s) \/ SaveNothing(s) \/ DeleteNothing(s) \/ Fails(s)
           \/ CancelRequest(s) \/ CheckTimesOut(s) \/ CheckAnswers(s)
  BY <1>8 DEF ReadNothing, SaveNothing, DeleteNothing, Fails, CancelRequest, CheckTimesOut,
     CheckAnswers, Goto, Raise, Rollback, EndSession, Respond, Others, Nothing, IndInv, TypeOK
<1> QED
  BY <1>1, <1>2, <1>3, <1>4, <1>5, <1>6, <1>7, <1>8 DEF Progress, Statement, Trouble

\* The notes under creation, when request s alone has moved.
LEMMA ReservedAfter ==
    ASSUME IndInv, NEW s \in Requests, Others(s)
    PROVE  /\ ~Creates(s) /\ ~Creates(s)' => Reserved' = Reserved
           /\ Creates(s) /\ ~Creates(s)' => Reserved' = Reserved \ {Entry(s)}
           /\ ~Creates(s) /\ Creates(s)' => Reserved' = Reserved \cup {Entry(s)'}
<1>1. \A r \in Requests \ {s} : (Creates(r)' <=> Creates(r)) /\ Entry(r)' = Entry(r)
  BY DEF Others, Creates, Holds, Entry
<1>2. /\ Reserved = {Entry(r) : r \in {q \in Requests : Creates(q)}}
      /\ Reserved' = {Entry(r)' : r \in {q \in Requests : Creates(q)'}}
  BY DEF Reserved, Creates, Holds, Entry
<1>3. Creates(s) => \A r \in Requests \ {s} : Creates(r) => Entry(r) # Entry(s)
  BY DEF IndInv, Locks, Creates, Entry
<1> HIDE DEF Creates, Entry
<1> QED
  BY <1>1, <1>2, <1>3

\* For any number of users, notes and requests: the routes implement NoteStore.
THEOREM ImplementsStore == Spec => KeepsStore
<1> USE DEF Store!Notes
<1>1. Init => Store!Init
  <2> SUFFICES ASSUME Init PROVE Store!Init
    OBVIOUS
  <2>1. TypeOK /\ written = [r \in Requests |-> NoWrite] /\ usedIds = {id \in RowIds : rows[id] # NoRow}
    BY IndInvInit DEF Init, IndInv, DbInit
  <2>2. Reserved = {}
    BY <2>1 DEF Reserved
  <2> QED
    BY <2>1, <2>2 DEF Store!Init, TypeOK, Rows
<1>2. IndInv /\ [Next]_vars => [Store!Next]_Store!storeVars
  <2> SUFFICES ASSUME IndInv, [Next]_vars PROVE [Store!Next]_Store!storeVars
    OBVIOUS
  <2> USE DEF Store!storeVars
  <2>1. CASE UNCHANGED vars
    BY <2>1 DEF vars, dbVars, noteVars, Reserved
  <2>2. CASE Next
    <3>1. PICK s \in Requests :
              Others(s) /\ (Nothing(s) \/ Writes(s) \/ Begins(s) \/ Publishes(s))
      BY <2>2, StepKinds
    <3>2. Creates(s) => /\ Entry(s) \in Reserved
                        /\ written[s].id \in RowIds /\ op[s].user \in Users
      <4>1. Creates(s) => op[s] \in Operations /\ op[s].kind # "ready"
        BY DEF IndInv, Sessions, Creates
      <4> QED
        BY <4>1, Asked DEF IndInv, TypeOK, Creates, Holds, Entry, Reserved
    <3>3. CASE Nothing(s)
      <4>1. ~Creates(s)'
        BY <3>3 DEF Nothing, Creates, Holds
      <4>2. CASE Creates(s)
        BY <3>1, <3>2, <3>3, <4>1, <4>2, ReservedAfter DEF Nothing, Store!Next, Store!Abandon
      <4>3. CASE ~Creates(s)
        BY <3>1, <3>3, <4>1, <4>3, ReservedAfter DEF Nothing
      <4> QED
        BY <4>2, <4>3
    <3>4. CASE Writes(s)
      <4>1. ~Creates(s) /\ ~Creates(s)'
        BY <3>4 DEF Writes, Creates
      <4> QED
        BY <3>1, <3>4, <4>1, ReservedAfter DEF Writes
    <3>5. CASE Begins(s)
      <4>1. ~Creates(s) /\ Creates(s)'
        BY <3>5 DEF Begins, Creates, Holds
      <4>2. Reserved' = Reserved \cup {[id |-> written'[s].id, owner |-> op[s].user]}
        BY <3>1, <3>5, <4>1, ReservedAfter DEF Begins, Entry
      <4>3. op[s] \in Operations
        BY <3>5 DEF Begins, IndInv, Sessions
      <4>4. op[s].user \in Users
        BY <3>5, <4>3, Asked DEF Begins
      <4>5. Store!Reserve(written'[s].id, op[s].user)
        BY <3>5, <4>2 DEF Begins, Store!Reserve
      <4> QED
        BY <3>5, <4>4, <4>5 DEF Begins, Store!Next
    <3>6. CASE Publishes(s)
      <4>1. ~Creates(s)' /\ usedIds' = usedIds /\ Commit(s)
        BY <3>6 DEF Publishes, Commit, EndSession, Creates, Holds, IndInv, TypeOK
      <4>2. CASE ~Holds(s)
        <5>1. rows' = rows /\ ~Creates(s)
          BY <4>1, <4>2 DEF Commit, Holds, Creates
        <5> QED
          BY <3>1, <4>1, <5>1, ReservedAfter
      <4>3. CASE Holds(s)
        <5> DEFINE id == written[s].id  row == written[s].row
        <5>1. rows' = [rows EXCEPT ![id] = row] /\ id \in RowIds /\ row \in Rows \cup {NoRow}
          BY <4>1, <4>3 DEF Commit, Holds, IndInv, TypeOK
        <5>2. CASE op[s].kind = "create"
          <6>1. rows[id] = NoRow /\ row \in Rows /\ row.owner = op[s].user
            BY <4>3, <5>1, <5>2 DEF IndInv, Locks
          <6>2. Creates(s) /\ Entry(s).id = id /\ Entry(s).owner = op[s].user
            BY <4>3, <5>2 DEF Creates, Entry
          <6>3. Reserved' = Reserved \ {Entry(s)}
            BY <3>1, <4>1, <6>2, ReservedAfter
          <6>4. Store!Create(Entry(s))
            BY <4>1, <5>1, <6>1, <6>2, <6>3 DEF Store!Create, Rows
          <6> QED
            BY <3>2, <6>2, <6>4 DEF Store!Next
        <5>3. CASE op[s].kind # "create"
          <6>1. rows[id] # NoRow /\ rows[id].owner = op[s].user
            BY <4>3, <5>3 DEF IndInv, Locks
          <6>2. Reserved' = Reserved
            BY <3>1, <4>1, <5>3, ReservedAfter DEF Creates
          <6>3. CASE op[s].kind = "delete"
            <7>1. row = NoRow
              BY <4>3, <6>3 DEF IndInv, Locks
            <7> QED
              BY <4>1, <5>1, <6>1, <6>2, <7>1 DEF Store!Next, Store!Delete
          <6>4. CASE op[s].kind # "delete"
            <7>1. row \in Rows /\ row.owner = rows[id].owner
              BY <4>3, <5>1, <6>1, <6>4 DEF IndInv, Locks
            <7>2. row = [owner |-> rows[id].owner, title |-> row.title, body |-> row.body]
                    /\ row.title \in Texts /\ row.body \in Texts
              BY <7>1 DEF Rows
            <7>3. Store!Edit(id)
              BY <4>1, <5>1, <6>1, <6>2, <7>2 DEF Store!Edit
            <7> QED
              BY <5>1, <7>3 DEF Store!Next
          <6> QED
            BY <6>3, <6>4
        <5> QED
          BY <5>2, <5>3
      <4> QED
        BY <4>2, <4>3
    <3> QED
      BY <3>1, <3>3, <3>4, <3>5, <3>6
  <2> QED
    BY <2>1, <2>2
<1> QED
  BY <1>1, <1>2, Inductive, PTL DEF Spec, KeepsStore, Store!Spec
=============================================================================
