----------------------------- MODULE DbSession -----------------------------
(***************************************************************************)
(* The database as the routes use it: the pool of DatabaseManager           *)
(* (core/database/manager.py), the session of a request that get_db_session *)
(* opens, commits or rolls back (core/database/dependencies.py), and, as an *)
(* external part, Postgres in READ COMMITTED: a statement reads the rows    *)
(* committed before it, and a row written and not yet committed is locked.  *)
(* A request writes at most one row.                                        *)
(***************************************************************************)
EXTENDS Integers, FiniteSets

CONSTANTS
    Requests,  \* the requests being served
    RowIds,    \* primary keys
    PoolSize,  \* pool_size + pool_max_overflow
    NoRow,     \* no row with this key
    NoWrite    \* a session that has written nothing

ASSUME DbSessionAssumption == PoolSize \in Nat \ {0}

VARIABLES
    rows,         \* the committed table
    written,      \* what each session has written and not committed
    connections   \* the requests that hold a connection of the pool

dbVars == <<rows, written, connections>>

DbInit(initial) ==
    /\ rows = initial
    /\ written = [r \in Requests |-> NoWrite]
    /\ connections = {}

\* The session takes its connection at its first statement.
CheckOut(r) ==
    /\ Cardinality(connections) < PoolSize
    /\ connections' = connections \cup {r}
    /\ UNCHANGED <<rows, written>>

PoolIsEmpty == Cardinality(connections) >= PoolSize

\* An UPDATE or a DELETE that matches a committed row waits for the session that
\* has written it, and then looks at the row again.
RowIsFree(r, id) ==
    \A s \in Requests \ {r} : written[s] # NoWrite => written[s].id # id

Write(r, id, row) ==
    /\ written' = [written EXCEPT ![r] = [id |-> id, row |-> row]]
    /\ UNCHANGED <<rows, connections>>

\* The end of a session; its connection goes back to the pool.
EndSession(r) ==
    /\ written' = [written EXCEPT ![r] = NoWrite]
    /\ connections' = connections \ {r}

Commit(r) ==
    /\ rows' = IF written[r] = NoWrite THEN rows
               ELSE [rows EXCEPT ![written[r].id] = written[r].row]
    /\ EndSession(r)

\* Mutant: the session is left open, its connection stays out of the pool.
MutRollback(r) ==
    /\ written' = [written EXCEPT ![r] = NoWrite]
    /\ UNCHANGED <<rows, connections>>

Rollback(r) == EndSession(r) /\ UNCHANGED rows
=============================================================================
