--------------------------- MODULE ConnectionPool ---------------------------
(***************************************************************************)
(* The connection pool of pq-async: the connections it keeps for every     *)
(* connection string, the flags of each connection, and the pointer that   *)
(* every database_t has into the pool.                                     *)
(*                                                                         *)
(* std::vector<connection*> is kept here as the SET of the ids it holds:   *)
(* ids come from the increasing counter s_next_id, a connection is only    *)
(* ever appended, under conn_pool_mutex, and erase() keeps the order, so   *)
(* the vector is always sorted by id and an index is a rank (IndexOf).     *)
(*                                                                         *)
(* This module has the state and the operators; the modules that model the *)
(* callers (Database, ...) extend it.                                      *)
(***************************************************************************)
EXTENDS Integers, FiniteSets, ConnectionId

CONSTANTS
    Databases,          \* the database_t objects that share the pool
    ConnStrings,        \* connection strings, one pool for each
    connection_string,  \* database_t::_connection_string
    MaxConn,            \* connection_pool::_max_conn
    KeepIdx,            \* highest index never cleaned up (4 in the code)
    MaxId,              \* bound: ids given to connections are 0..MaxId
    None                \* NULL

ConnIds == 0..MaxId

ASSUME StringsAssumption == connection_string \in [Databases -> ConnStrings]
ASSUME SizesAssumption == MaxConn \in Int /\ KeepIdx \in Nat /\ MaxId \in Nat
ASSUME NoneAssumption == None \notin Databases /\ None \notin ConnIds

VARIABLES
    pools,                \* _pools: connection string -> ids in its vector
    next_id,              \* s_next_id + 1: the id of the next connection
    last_stolen_conn_id,  \* -1 stands for the initial ""
    res,                  \* connection::_res
    running,              \* connection::_running: 0, 1 working, 2 reserved
    owner,                \* connection::_owner
    is_in_transaction,    \* connection::is_in_transaction
    link,                 \* connection::_conn: NULL, PQstatus ok, or not ok
    session_tx,           \* the server session of the link has a transaction
    db_conn               \* database_t::_conn

poolVars == <<pools, next_id, last_stolen_conn_id, res, running, owner,
              is_in_transaction, link, session_tx, db_conn>>

PoolTypeOK ==
    /\ pools \in [ConnStrings -> SUBSET ConnIds]
    /\ next_id \in 0..(MaxId + 1)
    /\ last_stolen_conn_id \in ConnIds \cup {-1}
    /\ res \in [ConnIds -> {0, 1}]
    /\ running \in [ConnIds -> {0, 1, 2}]
    /\ owner \in [ConnIds -> Databases \cup {None}]
    /\ is_in_transaction \in [ConnIds -> BOOLEAN]
    /\ link \in [ConnIds -> {"null", "ok", "bad"}]
    /\ session_tx \in [ConnIds -> BOOLEAN]
    /\ db_conn \in [Databases -> ConnIds \cup {None}]

\* connection_pool::init and the database_t constructor; the fields of a
\* connection that is not allocated yet have the values its constructor sets.
PoolInit ==
    /\ pools = [s \in ConnStrings |-> {}]
    /\ next_id = 0
    /\ last_stolen_conn_id = -1
    /\ res = [c \in ConnIds |-> 0]
    /\ running = [c \in ConnIds |-> 0]
    /\ owner = [c \in ConnIds |-> None]
    /\ is_in_transaction = [c \in ConnIds |-> FALSE]
    /\ link = [c \in ConnIds |-> "null"]
    /\ session_tx = [c \in ConnIds |-> FALSE]
    /\ db_conn = [d \in Databases |-> None]

-----------------------------------------------------------------------------
(* connection                                                              *)

PoolOf(d) == pools[connection_string[d]]

\* Allocated once and deleted since: a pointer to it dangles.
Freed(c) == c < next_id /\ \A s \in ConnStrings : c \notin pools[s]

\* now - seconds(-15) lies in the future, so the comparison with
\* _last_modification_date never keeps an unlocked connection alive.
IsDead(c) == ~is_in_transaction[c] /\ res[c] = 0

CanBeStolen_InTransaction(c) == running[c] = 0

CanBeStolen(c) == ~is_in_transaction[c] /\ running[c] = 0

-----------------------------------------------------------------------------
(* connection_pool::_get_connection                                        *)

\* Position of c in the vector.
IndexOf(s, c) == Cardinality({e \in pools[s] : e < c})

Dead_AnyIndex(s) == {c \in pools[s] : IsDead(c)}

\* The connections deleted by the clean-up loop.  It walks down from the end,
\* so an erase() never changes the index of a connection still to be visited.
Dead(s) == {c \in pools[s] : IndexOf(s, c) > KeepIdx /\ IsDead(c)}

Live(s) == pools[s] \ Dead(s)

\* The databases whose _conn the clean-up loop sets to NULL.
Evicted(s) == {owner[c] : c \in Dead(s)}

\* "first try to reuse an existing connection": the first that lock() takes.
FirstFree(s, c) ==
    /\ c \in Live(s)
    /\ res[c] = 0
    /\ \A e \in Live(s) : res[e] = 0 => c <= e

\* Order of scons: the ids above the last stolen one, then the others.
StealsBefore(c, e) ==
    LET above(x) == IdGreater(x, last_stolen_conn_id) IN
    \/ above(c) /\ ~above(e)
    \/ above(c) = above(e) /\ c < e

FirstStealable_AnyPool(s, c) ==
    /\ \E t \in ConnStrings : c \in Live(t)
    /\ CanBeStolen(c)

FirstStealable(s, c) ==
    /\ c \in Live(s)
    /\ CanBeStolen(c)
    /\ \A e \in Live(s) \ {c} : CanBeStolen(e) => StealsBefore(c, e)

\* d._conn = c, and NULL for the databases that lost their connection.
Assign(d, c, losers) ==
    db_conn' = [x \in Databases |->
                   IF x = d THEN c
                   ELSE IF x \in losers THEN None ELSE db_conn[x]]

\* The pool is empty: new connection, lock(), owner set.
CreateFirst(d, c) ==
    LET s == connection_string[d] IN
    /\ Live(s) = {}
    /\ c = next_id
    /\ next_id' = next_id + 1
    /\ pools' = [pools EXCEPT ![s] = {c}]
    /\ res' = [res EXCEPT ![c] = 1]
    /\ owner' = [owner EXCEPT ![c] = d]
    /\ Assign(d, c, Evicted(s))
    /\ UNCHANGED last_stolen_conn_id

ReuseFree(d, c) ==
    LET s == connection_string[d] IN
    /\ Live(s) # {}
    /\ Cardinality(Live(s)) < MaxConn
    /\ FirstFree(s, c)
    /\ pools' = [pools EXCEPT ![s] = Live(s)]
    /\ res' = [res EXCEPT ![c] = 1]
    /\ owner' = [owner EXCEPT ![c] = d]
    /\ Assign(d, c, Evicted(s))
    /\ UNCHANGED <<next_id, last_stolen_conn_id>>

CreateMore_NoLimit(d, c) ==
    LET s == connection_string[d] IN
    /\ Live(s) # {}
    /\ Cardinality(Live(s)) <= MaxConn
    /\ \A e \in Live(s) : res[e] # 0
    /\ c = next_id
    /\ next_id' = next_id + 1
    /\ pools' = [pools EXCEPT ![s] = Live(s) \cup {c}]
    /\ res' = [res EXCEPT ![c] = 1]
    /\ Assign(d, c, Evicted(s))
    /\ UNCHANGED <<owner, last_stolen_conn_id>>

\* "if we have room for more, just create it": _owner is left NULL.
CreateMore(d, c) ==
    LET s == connection_string[d] IN
    /\ Live(s) # {}
    /\ Cardinality(Live(s)) < MaxConn
    /\ \A e \in Live(s) : res[e] # 0
    /\ c = next_id
    /\ next_id' = next_id + 1
    /\ pools' = [pools EXCEPT ![s] = Live(s) \cup {c}]
    /\ res' = [res EXCEPT ![c] = 1]
    /\ Assign(d, c, Evicted(s))
    /\ UNCHANGED <<owner, last_stolen_conn_id>>

Steal_OwnerKept(d, c) ==
    LET s == connection_string[d] IN
    /\ Live(s) # {}
    /\ Cardinality(Live(s)) >= MaxConn
    /\ FirstStealable(s, c)
    /\ pools' = [pools EXCEPT ![s] = Live(s)]
    /\ owner' = [owner EXCEPT ![c] = d]
    /\ Assign(d, c, Evicted(s))
    /\ last_stolen_conn_id' = c
    /\ UNCHANGED <<next_id, res>>

Steal_CountsLock(d, c) ==
    LET s == connection_string[d] IN
    /\ Live(s) # {}
    /\ Cardinality(Live(s)) >= MaxConn
    /\ FirstStealable(s, c)
    /\ pools' = [pools EXCEPT ![s] = Live(s)]
    /\ res' = [res EXCEPT ![c] = @ + 1]
    /\ owner' = [owner EXCEPT ![c] = d]
    /\ Assign(d, c, Evicted(s) \cup {owner[c]})
    /\ last_stolen_conn_id' = c
    /\ UNCHANGED next_id

\* The pool is full: the previous owner loses the connection; _res is not set.
Steal(d, c) ==
    LET s == connection_string[d] IN
    /\ Live(s) # {}
    /\ Cardinality(Live(s)) >= MaxConn
    /\ FirstStealable(s, c)
    /\ pools' = [pools EXCEPT ![s] = Live(s)]
    /\ owner' = [owner EXCEPT ![c] = d]
    /\ Assign(d, c, Evicted(s) \cup {owner[c]})
    /\ last_stolen_conn_id' = c
    /\ UNCHANGED <<next_id, res>>

\* _get_connection returns c to d.  What it does to _running (stop_work in
\* lock(), reserve()) is overwritten by its callers before the mutex is freed.
GetConnection(d, c) ==
    \/ CreateFirst(d, c)
    \/ ReuseFree(d, c)
    \/ CreateMore(d, c)
    \/ Steal(d, c)

\* connection_pool_assign_exception: the pool is full and nothing can be
\* stolen.  The clean-up has been done all the same; the second one, in
\* _get_opened_connection_count, finds nothing more to delete.
GetConnectionFails(d) ==
    LET s == connection_string[d] IN
    /\ Live(s) # {}
    /\ Cardinality(Live(s)) >= MaxConn
    /\ \A c \in Live(s) : ~CanBeStolen(c)
    /\ pools' = [pools EXCEPT ![s] = Live(s)]
    /\ db_conn' = [x \in Databases |->
                      IF x \in Evicted(s) THEN None ELSE db_conn[x]]
    /\ UNCHANGED <<next_id, last_stolen_conn_id, res, owner>>

-----------------------------------------------------------------------------
(* connection::open_connection and release                                 *)

\* PQstatus is not ok: close_connection, which also drops the transaction
\* flag; then PQconnectdb when there is no PGconn.
PqOpenSucceeds(c) ==
    /\ link' = [link EXCEPT ![c] = "ok"]
    /\ is_in_transaction' =
           [is_in_transaction EXCEPT ![c] = @ /\ link[c] # "bad"]
    /\ session_tx' = [session_tx EXCEPT ![c] = @ /\ link[c] = "ok"]

PqOpenFails_AnyLink(c) ==
    /\ link' = [link EXCEPT ![c] = "null"]
    /\ is_in_transaction' =
           [is_in_transaction EXCEPT ![c] = @ /\ link[c] # "bad"]
    /\ session_tx' = [session_tx EXCEPT ![c] = FALSE]

\* PQconnectdb failed ("null") or PQsetnonblocking did ("ok").
PqOpenFails(c) ==
    /\ link[c] # "ok"
    /\ \E l \in {"null", "ok"} : link' = [link EXCEPT ![c] = l]
    /\ is_in_transaction' =
           [is_in_transaction EXCEPT ![c] = @ /\ link[c] # "bad"]
    /\ session_tx' = [session_tx EXCEPT ![c] = FALSE]

Release_NoRollback(d, c) ==
    /\ is_in_transaction[c] => link[c] = "ok"
    /\ owner' = [owner EXCEPT ![c] = None]
    /\ is_in_transaction' = [is_in_transaction EXCEPT ![c] = FALSE]
    /\ res' = [res EXCEPT ![c] = 0]
    /\ running' = [running EXCEPT ![c] = 0]
    /\ db_conn' = [db_conn EXCEPT ![d] = None]
    /\ UNCHANGED <<pools, next_id, last_stolen_conn_id, link, session_tx>>

Release_KeepsLock(d, c) ==
    /\ is_in_transaction[c] => link[c] = "ok"
    /\ owner' = [owner EXCEPT ![c] = None]
    /\ is_in_transaction' = [is_in_transaction EXCEPT ![c] = FALSE]
    /\ session_tx' =
           [session_tx EXCEPT ![c] = @ /\ ~is_in_transaction[c]]
    /\ running' = [running EXCEPT ![c] = 0]
    /\ db_conn' = [db_conn EXCEPT ![d] = None]
    /\ UNCHANGED <<pools, next_id, last_stolen_conn_id, link, res>>

Release_OwnerKept(d, c) ==
    /\ is_in_transaction[c] => link[c] = "ok"
    /\ is_in_transaction' = [is_in_transaction EXCEPT ![c] = FALSE]
    /\ session_tx' =
           [session_tx EXCEPT ![c] = @ /\ ~is_in_transaction[c]]
    /\ res' = [res EXCEPT ![c] = 0]
    /\ running' = [running EXCEPT ![c] = 0]
    /\ db_conn' = [db_conn EXCEPT ![d] = None]
    /\ UNCHANGED <<pools, next_id, last_stolen_conn_id, owner, link>>

\* connection::release, ROLLBACK included, then d._conn = NULL in
\* database_t::close.
Release(d, c) ==
    /\ is_in_transaction[c] => link[c] = "ok"
    /\ owner' = [owner EXCEPT ![c] = None]
    /\ is_in_transaction' = [is_in_transaction EXCEPT ![c] = FALSE]
    /\ session_tx' =
           [session_tx EXCEPT ![c] = @ /\ ~is_in_transaction[c]]
    /\ res' = [res EXCEPT ![c] = 0]
    /\ running' = [running EXCEPT ![c] = 0]
    /\ db_conn' = [db_conn EXCEPT ![d] = None]
    /\ UNCHANGED <<pools, next_id, last_stolen_conn_id, link>>

\* ROLLBACK failed: release() throws with only _owner changed.
ReleaseThrows(d, c) ==
    /\ is_in_transaction[c] /\ link[c] # "ok"
    /\ owner' = [owner EXCEPT ![c] = None]
    /\ UNCHANGED <<pools, next_id, last_stolen_conn_id, res, running,
                   is_in_transaction, link, session_tx, db_conn>>

=============================================================================
