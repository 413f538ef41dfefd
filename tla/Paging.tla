------------------------------- MODULE Paging -------------------------------
(***************************************************************************)
(* A client reads a table page by page, with limit and offset, while        *)
(* requests insert, edit and delete rows between two pages.                 *)
(* SqlNoteRepository.page() reads the notes of one owner, the oldest first;  *)
(* BaseRepository.get_page() reads all rows in the order of their keys.      *)
(* Each page is one statement: it sees what is committed when it runs.       *)
(***************************************************************************)
EXTENDS Naturals, FiniteSets

CONSTANTS
    Keys,     \* the primary keys that may come up: uuid4() takes any of them
    Mine,     \* the keys of the notes of the reader
    Limit,    \* the page size the client asks for
    Queries,  \* which of "page" and "get_page" it reads with
    MaxClock  \* bound on the time

MAX_PAGE_SIZE == 100

ASSUME PagingAssumption ==
    /\ Keys \subseteq Nat /\ IsFiniteSet(Keys) /\ Mine \subseteq Keys
    /\ Limit \in 1..MAX_PAGE_SIZE
    /\ Queries \subseteq {"page", "get_page"}
    /\ MaxClock \in Nat

VARIABLES
    now,        \* the clock of Note.create() and Note.edit()
    row,        \* state of each row: unused, written (not committed), present, gone
    created, updated,  \* the times of each note
    query, offset, done,  \* the client: its query, its next offset, has it finished
    shown,      \* how often it has got each row
    readAt,     \* history: when it read its last page
    lasting,    \* history: the rows it could always have got
    deletions, insertions  \* history: rows that left, or came into, earlier pages

rowVars    == <<row, created, updated>>
readerVars == <<query, offset, done, shown, readAt>>
vars       == <<now, rowVars, readerVars, lasting, deletions, insertions>>

TypeOK ==
    /\ now \in 0..MaxClock
    /\ row \in [Keys -> {"unused", "written", "present", "gone"}]
    /\ created \in [Keys -> 0..now] /\ updated \in [Keys -> 0..now]
    /\ \A k \in Keys : created[k] <= updated[k]
    /\ query \in Queries /\ offset \in Nat /\ done \in BOOLEAN
    /\ shown \in [Keys -> Nat]
    /\ readAt \in 0..now
    /\ lasting \subseteq {k \in Keys : row[k] = "present"}
    /\ deletions \in Nat /\ insertions \in Nat

----------------------------------------------------------------------------
(* The two queries.                                                        *)

\* Mutant: ordered by the time of the last change.
MutOrderBy(a, b) ==
    IF query = "get_page" THEN a < b
    ELSE updated[a] < updated[b] \/ (updated[a] = updated[b] /\ a < b)

OrderBy(a, b) ==
    IF query = "get_page" THEN a < b
    ELSE created[a] < created[b] \/ (created[a] = created[b] /\ a < b)

Selected(k) == query = "page" => k \in Mine

Found     == {k \in Keys : row[k] = "present" /\ Selected(k)}
Before(k) == {other \in Found : OrderBy(other, k)}
Rank(k)   == Cardinality(Before(k))

\* The row is, or would be, on a page that has been read.
Earlier(k) == Selected(k) /\ Rank(k) < offset

\* Mutant: the pages overlap by one row.
MutPage == {k \in Found : Rank(k) + 1 >= offset /\ Rank(k) < offset + Limit}

Page == {k \in Found : offset <= Rank(k) /\ Rank(k) < offset + Limit}

----------------------------------------------------------------------------

Init ==
    /\ now = 0
    /\ row \in [Keys -> {"unused", "present"}]
    /\ created = [k \in Keys |-> 0] /\ updated = created
    /\ query \in Queries /\ offset = 0 /\ done = FALSE
    /\ shown = [k \in Keys |-> 0]
    /\ readAt = 0
    /\ lasting = {}
    /\ deletions = 0 /\ insertions = 0

Tick ==
    /\ now < MaxClock
    /\ now' = now + 1
    /\ UNCHANGED <<rowVars, readerVars, lasting, deletions, insertions>>

\* The client asks for the next page; it stops at one that is not full.
ReadPage ==
    /\ shown' = [k \in Keys |-> IF k \in Page THEN shown[k] + 1 ELSE shown[k]]
    /\ offset' = offset + Limit
    /\ done' = (Cardinality(Page) < Limit)
    /\ readAt' = now
    /\ lasting' = IF offset = 0 THEN Found ELSE lasting
    /\ UNCHANGED <<now, rowVars, query, deletions, insertions>>

\* Mutant: the time of the last change is left to the first edit.
MutCreate(k) ==
    /\ row[k] = "unused"
    /\ row' = [row EXCEPT ![k] = "written"]
    /\ created' = [created EXCEPT ![k] = now]
    /\ UNCHANGED <<now, updated, readerVars, lasting, deletions, insertions>>

\* Note.create() takes the key and the time, and add() sends the INSERT.
Create(k) ==
    /\ row[k] = "unused"
    /\ row' = [row EXCEPT ![k] = "written"]
    /\ created' = [created EXCEPT ![k] = now]
    /\ updated' = [updated EXCEPT ![k] = now]
    /\ UNCHANGED <<now, readerVars, lasting, deletions, insertions>>

\* Only rows with a time that the last page had already reached count as
\* insertions for page(): a note that is created later comes after its rows.
Commit(k) ==
    /\ row[k] = "written"
    /\ row' = [row EXCEPT ![k] = "present"]
    /\ insertions' = IF /\ Earlier(k)
                        /\ query = "page" => created[k] <= readAt
                     THEN insertions + 1 ELSE insertions
    /\ UNCHANGED <<now, created, updated, readerVars, lasting, deletions>>

Rollback(k) ==
    /\ row[k] = "written"
    /\ row' = [row EXCEPT ![k] = "gone"]
    /\ UNCHANGED <<now, created, updated, readerVars, lasting, deletions, insertions>>

Edit(k) ==
    /\ row[k] = "present"
    /\ updated[k] # now
    /\ updated' = [updated EXCEPT ![k] = now]
    /\ UNCHANGED <<now, row, created, readerVars, lasting, deletions, insertions>>

Delete(k) ==
    /\ row[k] = "present"
    /\ row' = [row EXCEPT ![k] = "gone"]
    /\ lasting' = lasting \ {k}
    /\ deletions' = IF Earlier(k) THEN deletions + 1 ELSE deletions
    /\ UNCHANGED <<now, created, updated, readerVars, insertions>>

\* What happens after the last page changes nothing for the client.
Next ==
    /\ ~done
    /\ \/ Tick \/ ReadPage
       \/ \E k \in Keys : Create(k) \/ Commit(k) \/ Rollback(k) \/ Edit(k) \/ Delete(k)

Spec == Init /\ [][Next]_vars

----------------------------------------------------------------------------
(* Properties                                                              *)

\* A client that has read to the end has missed at most one row for each row
\* that was deleted from a page it had already read: no edit and no insertion
\* hides a row, and without such a deletion it has every row that was there from
\* its first page to its last (get_page, l. 45-48, and page, l. 34-45).
SkipsAreDeletions ==
    done => Cardinality({k \in lasting : shown[k] = 0}) <= deletions

\* Each time the client got a row that it already had.
Repeats == UNION {{k} \X (2..shown[k]) : k \in Keys}

\* A row comes twice only for a row that was committed into a page already read:
\* for get_page() any insertion with a small key, for page() only a note whose
\* commit came later than the clock says (Note.create, l. 27-37).
RepeatsAreInsertions == Cardinality(Repeats) <= insertions
=============================================================================
