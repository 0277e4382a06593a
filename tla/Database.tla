------------------------------ MODULE Database ------------------------------
(***************************************************************************)
(* The synchronous operations of database_t over the connection pool.      *)
(* Every database_t is used by one thread; the threads run concurrently    *)
(* and meet in the pool, whose conn_pool_mutex makes open_connection and   *)
(* close atomic.  Everything outside the mutex is a step of its own.       *)
(***************************************************************************)
EXTENDS ConnectionPool

CONSTANT Unreliable     \* bound: the connections whose link may be lost

VARIABLES
    db_lock,      \* database_t::_lock: the connection of its lock object
    op_lock,      \* the lock object in the running operation's local variable
    phase,        \* where the thread of the database is in its operation
    local_trans,  \* exec_queries opened the transaction itself
    fault         \* the undefined behaviour or termination that was reached

opVars == <<db_lock, op_lock, phase, local_trans, fault>>
vars == <<poolVars, opVars>>

Phases == {"idle",        \* no call in progress
           "query",       \* open_connection returned, nothing sent yet
           "result",      \* results read, lock still held
           "exec_begin",  \* exec_queries: about to call begin()
           "begin",       \* begin(): _lock assigned, BEGIN not sent yet
           "exec",        \* exec_queries: running the queries
           "closing",     \* ~database_t: close() done, members not destroyed
           "gone"}        \* destroyed

Faults == {"none",
           "null",        \* a NULL _conn is dereferenced
           "freed",       \* a deleted connection is dereferenced
           "race",        \* two threads are inside libpq with one PGconn
           "terminate"}   \* an exception leaves a destructor

TypeOK ==
    /\ PoolTypeOK
    /\ db_lock \in [Databases -> ConnIds \cup {None}]
    /\ op_lock \in [Databases -> ConnIds \cup {None}]
    /\ phase \in [Databases -> Phases]
    /\ local_trans \in [Databases -> BOOLEAN]
    /\ fault \in Faults

Init ==
    /\ PoolInit
    /\ db_lock = [d \in Databases |-> None]
    /\ op_lock = [d \in Databases |-> None]
    /\ phase = [d \in Databases |-> "idle"]
    /\ local_trans = [d \in Databases |-> FALSE]
    /\ fault = "none"

Enter(d, p) == phase' = [phase EXCEPT ![d] = p]

\* d._conn can be dereferenced.
Usable(d) == db_conn[d] # None /\ ~Freed(db_conn[d])

\* Destruction of a connection_lock_t on c: stop_work(), whoever works on c.
LockDestroyed(c) == running' = IF c = None THEN running
                               ELSE [running EXCEPT ![c] = 0]

-----------------------------------------------------------------------------
(* database_t::open_connection                                             *)

\* _conn, or a connection from the pool when it is NULL.
Acquire(d, c) ==
    \/ /\ db_conn[d] = c
       /\ Usable(d)
       /\ UNCHANGED <<pools, next_id, last_stolen_conn_id, res, owner, db_conn>>
    \/ db_conn[d] = None /\ GetConnection(d, c)

\* if(_lock) return _lock: _conn is not looked at.
OpenShared(d) ==
    /\ db_lock[d] # None
    /\ UNCHANGED poolVars

\* reserve(), a new lock object (start_work), connection::open_connection.
OpenNew(d, c) ==
    /\ db_lock[d] = None
    /\ Acquire(d, c)
    /\ running' = [running EXCEPT ![c] = 1]
    /\ PqOpenSucceeds(c)

\* No connection to assign, or no link to the server; in the second case the
\* lock object is destroyed by the exception and _conn keeps the connection.
OpenThrows(d) ==
    /\ db_lock[d] = None
    /\ \/ \E c \in ConnIds :
              /\ Acquire(d, c)
              /\ running' = [running EXCEPT ![c] = 0]
              /\ PqOpenFails(c)
       \/ /\ db_conn[d] = None
          /\ GetConnectionFails(d)
          /\ UNCHANGED <<running, link, is_in_transaction, session_tx>>

-----------------------------------------------------------------------------
(* execute, query, query_single, query_value (synchronous)                 *)

Query(d) ==
    /\ phase[d] = "idle"
    /\ \/ OpenShared(d) /\ Enter(d, "query") /\ UNCHANGED op_lock
       \/ \E c \in ConnIds :
              /\ OpenNew(d, c)
              /\ Enter(d, "query")
              /\ op_lock' = [op_lock EXCEPT ![d] = c]
       \/ OpenThrows(d) /\ UNCHANGED <<phase, op_lock>>
    /\ UNCHANGED <<db_lock, local_trans, fault>>

\* run_now: the query goes to d._conn, its results are read.
QueryRun(d) ==
    /\ phase[d] = "query"
    /\ Usable(d)
    /\ Enter(d, "result")
    /\ UNCHANGED <<poolVars, db_lock, op_lock, local_trans, fault>>

\* The result is processed, or an exception is thrown; either way the local
\* lock object is destroyed.
QueryEnd(d) ==
    /\ phase[d] = "result"
    /\ op_lock[d] # None => ~Freed(op_lock[d])
    /\ LockDestroyed(op_lock[d])
    /\ op_lock' = [op_lock EXCEPT ![d] = None]
    /\ Enter(d, "idle")
    /\ UNCHANGED <<pools, next_id, last_stolen_conn_id, res, owner,
                   is_in_transaction, link, session_tx, db_conn,
                   db_lock, local_trans, fault>>

-----------------------------------------------------------------------------
(* begin, commit, rollback                                                 *)

BeginOpen_NoLock(d) ==
    /\ phase[d] \in {"idle", "exec_begin"}
    /\ \/ OpenShared(d) /\ Enter(d, "begin") /\ UNCHANGED <<db_lock, local_trans>>
       \/ \E c \in ConnIds : OpenNew(d, c) /\ Enter(d, "begin")
          /\ UNCHANGED <<db_lock, local_trans>>
       \/ OpenThrows(d) /\ Enter(d, "idle") /\ UNCHANGED db_lock
          /\ local_trans' = [local_trans EXCEPT ![d] = FALSE]
    /\ UNCHANGED <<op_lock, fault>>

\* _lock = open_connection()
BeginOpen(d) ==
    /\ phase[d] \in {"idle", "exec_begin"}
    /\ \/ OpenShared(d) /\ Enter(d, "begin") /\ UNCHANGED <<db_lock, local_trans>>
       \/ \E c \in ConnIds :
              /\ OpenNew(d, c)
              /\ Enter(d, "begin")
              /\ db_lock' = [db_lock EXCEPT ![d] = c]
              /\ UNCHANGED local_trans
       \/ /\ OpenThrows(d)
          /\ Enter(d, "idle")
          /\ local_trans' = [local_trans EXCEPT ![d] = FALSE]
          /\ UNCHANGED db_lock
    /\ UNCHANGED <<op_lock, fault>>

\* connection::begin_transaction, which opens the link once more.
BeginTransaction(d) ==
    /\ phase[d] = "begin"
    /\ Usable(d)
    /\ LET c == db_conn[d] IN
       /\ ~is_in_transaction[c]
       /\ link' = [link EXCEPT ![c] = "ok"]
       /\ is_in_transaction' = [is_in_transaction EXCEPT ![c] = TRUE]
       /\ session_tx' = [session_tx EXCEPT ![c] = TRUE]
    /\ Enter(d, IF local_trans[d] THEN "exec" ELSE "idle")
    /\ UNCHANGED <<pools, next_id, last_stolen_conn_id, res, running, owner,
                   db_conn, db_lock, op_lock, local_trans, fault>>

\* "Already in a transaction!", no link, or BEGIN refused because the link was
\* lost since: _lock stays assigned.
BeginThrows(d) ==
    /\ phase[d] = "begin"
    /\ Usable(d)
    /\ LET c == db_conn[d] IN
       \/ /\ is_in_transaction[c]
          /\ UNCHANGED <<link, is_in_transaction, session_tx>>
       \/ /\ ~is_in_transaction[c]
          /\ PqOpenFails(c)
       \/ /\ ~is_in_transaction[c]
          /\ c \in Unreliable
          /\ link' = [link EXCEPT ![c] = "bad"]
          /\ session_tx' = [session_tx EXCEPT ![c] = FALSE]
          /\ UNCHANGED is_in_transaction
    /\ Enter(d, "idle")
    /\ local_trans' = [local_trans EXCEPT ![d] = FALSE]
    /\ UNCHANGED <<pools, next_id, last_stolen_conn_id, res, running, owner,
                   db_conn, db_lock, op_lock, fault>>

\* COMMIT or ROLLBACK succeeded; then _lock.reset().
TransactionEnds(d) ==
    LET c == db_conn[d] IN
    /\ is_in_transaction[c]
    /\ link[c] = "ok"
    /\ is_in_transaction' = [is_in_transaction EXCEPT ![c] = FALSE]
    /\ session_tx' = [session_tx EXCEPT ![c] = FALSE]
    /\ LockDestroyed(db_lock[d])
    /\ db_lock' = [db_lock EXCEPT ![d] = None]

\* "Not in a transaction!", or the link is lost.
EndThrows(d) ==
    LET c == db_conn[d] IN
    /\ ~is_in_transaction[c] \/ link[c] # "ok"
    /\ UNCHANGED <<is_in_transaction, session_tx, running, db_lock>>

\* The server refuses COMMIT (a deferred constraint) and has rolled back.
CommitRefused(d) ==
    LET c == db_conn[d] IN
    /\ is_in_transaction[c]
    /\ session_tx[c]
    /\ session_tx' = [session_tx EXCEPT ![c] = FALSE]
    /\ UNCHANGED <<is_in_transaction, running, db_lock>>

Commit(d) ==
    /\ phase[d] = "idle"
    /\ Usable(d)
    /\ TransactionEnds(d) \/ EndThrows(d) \/ CommitRefused(d)
    /\ UNCHANGED <<pools, next_id, last_stolen_conn_id, res, owner, link,
                   db_conn, op_lock, phase, local_trans, fault>>

Rollback(d) ==
    /\ phase[d] = "idle"
    /\ Usable(d)
    /\ TransactionEnds(d) \/ EndThrows(d)
    /\ UNCHANGED <<pools, next_id, last_stolen_conn_id, res, owner, link,
                   db_conn, op_lock, phase, local_trans, fault>>

-----------------------------------------------------------------------------
(* exec_queries                                                            *)

\* _conn is dereferenced before anything is opened; without a transaction in
\* progress begin() is called next.
ExecQueries(d) ==
    /\ phase[d] = "idle"
    /\ Usable(d)
    /\ LET local == ~is_in_transaction[db_conn[d]] IN
       /\ Enter(d, IF local THEN "exec_begin" ELSE "exec")
       /\ local_trans' = [local_trans EXCEPT ![d] = local]
    /\ UNCHANGED <<poolVars, db_lock, op_lock, fault>>

\* A query fails: the exception leaves a local transaction open.
ExecThrows(d) ==
    /\ phase[d] = "exec"
    /\ Usable(d)
    /\ Enter(d, "idle")
    /\ local_trans' = [local_trans EXCEPT ![d] = FALSE]
    /\ UNCHANGED <<poolVars, db_lock, op_lock, fault>>

\* Every query succeeded; a local transaction is committed.
ExecEnd(d) ==
    /\ phase[d] = "exec"
    /\ Usable(d)
    /\ IF local_trans[d]
       THEN TransactionEnds(d) \/ EndThrows(d) \/ CommitRefused(d)
       ELSE UNCHANGED <<is_in_transaction, session_tx, running, db_lock>>
    /\ Enter(d, "idle")
    /\ local_trans' = [local_trans EXCEPT ![d] = FALSE]
    /\ UNCHANGED <<pools, next_id, last_stolen_conn_id, res, owner, link,
                   db_conn, op_lock, fault>>

-----------------------------------------------------------------------------
(* close, ~database_t, open                                                *)

\* _lock is not reset.
Close(d) ==
    /\ phase[d] = "idle"
    /\ Usable(d)
    /\ Release(d, db_conn[d]) \/ ReleaseThrows(d, db_conn[d])
    /\ UNCHANGED opVars

\* The body of ~database_t: close().
Destroy(d) ==
    /\ phase[d] = "idle"
    /\ \/ /\ db_conn[d] = None
          /\ Enter(d, "closing")
          /\ UNCHANGED <<poolVars, fault>>
       \/ /\ Usable(d)
          /\ Release(d, db_conn[d])
          /\ Enter(d, "closing")
          /\ UNCHANGED fault
       \/ /\ Usable(d)
          /\ ReleaseThrows(d, db_conn[d])
          /\ fault' = "terminate"
          /\ UNCHANGED phase
    /\ UNCHANGED <<db_lock, op_lock, local_trans>>

\* The members are destroyed, _lock among them, outside the mutex.
DestroyMembers(d) ==
    /\ phase[d] = "closing"
    /\ db_lock[d] # None => ~Freed(db_lock[d])
    /\ LockDestroyed(db_lock[d])
    /\ db_lock' = [db_lock EXCEPT ![d] = None]
    /\ Enter(d, "gone")
    /\ UNCHANGED <<pools, next_id, last_stolen_conn_id, res, owner,
                   is_in_transaction, link, session_tx, db_conn,
                   op_lock, local_trans, fault>>

\* pq_async::open: a new database_t.
Open(d) ==
    /\ phase[d] = "gone"
    /\ Enter(d, "idle")
    /\ UNCHANGED <<poolVars, db_lock, op_lock, local_trans, fault>>

-----------------------------------------------------------------------------
(* The server and undefined behaviour                                      *)

\* The server or the network drops the link: the session is rolled back.
LinkLost(c) ==
    /\ c \in Unreliable
    /\ link[c] = "ok"
    /\ link' = [link EXCEPT ![c] = "bad"]
    /\ session_tx' = [session_tx EXCEPT ![c] = FALSE]
    /\ UNCHANGED <<pools, next_id, last_stolen_conn_id, res, running, owner,
                   is_in_transaction, db_conn, opVars>>

\* Operations that use _conn without a test: commit, rollback, the savepoints
\* and exec_queries on entry ("idle"), the others after open_connection.
DerefNull(d) ==
    /\ db_conn[d] = None
    /\ phase[d] \in {"idle", "query", "begin", "exec"}
    /\ fault' = "null"
    /\ UNCHANGED <<poolVars, db_lock, op_lock, phase, local_trans>>

\* A deleted connection is reached through _conn or by the destructor of a
\* lock object.
DerefFreed(d) ==
    /\ \/ db_conn[d] # None /\ Freed(db_conn[d])
       \/ phase[d] = "result" /\ op_lock[d] # None /\ Freed(op_lock[d])
       \/ phase[d] = "closing" /\ db_lock[d] # None /\ Freed(db_lock[d])
    /\ fault' = "freed"
    /\ UNCHANGED <<poolVars, db_lock, op_lock, phase, local_trans>>

\* The thread of d is between open_connection and its last call to libpq.
InUse(d) == phase[d] \in {"query", "result", "begin", "exec"}

\* libpq does not protect a PGconn from two threads.
DataRace(d) ==
    /\ \E e \in Databases \ {d} :
           /\ InUse(d) /\ InUse(e)
           /\ db_conn[d] = db_conn[e]
           /\ db_conn[d] # None
    /\ fault' = "race"
    /\ UNCHANGED <<poolVars, db_lock, op_lock, phase, local_trans>>

Next ==
    /\ fault = "none"
    /\ \/ \E d \in Databases :
              \/ Query(d) \/ QueryRun(d) \/ QueryEnd(d)
              \/ BeginOpen(d) \/ BeginTransaction(d) \/ BeginThrows(d)
              \/ Commit(d) \/ Rollback(d)
              \/ ExecQueries(d) \/ ExecThrows(d) \/ ExecEnd(d)
              \/ Close(d) \/ Destroy(d) \/ DestroyMembers(d) \/ Open(d)
              \/ DerefNull(d) \/ DerefFreed(d) \/ DataRace(d)
       \/ \E c \in ConnIds : LinkLost(c)

Spec == Init /\ [][Next]_vars

-----------------------------------------------------------------------------
(* Properties                                                              *)

InPool(c) == \E s \in ConnStrings : c \in pools[s]

\* _get_connection never lets the pool of a connection string grow beyond
\* _max_conn, whatever the order of the requests, except for the first
\* connection, which is created without a look at _max_conn.
PoolBounded ==
    \A s \in ConnStrings :
        Cardinality(pools[s]) <= (IF MaxConn < 1 THEN 1 ELSE MaxConn)

\* _owner of a pooled connection is the inverse of database_t::_conn:
\* clean-up and stealing reset the _conn of the database that really has the
\* connection, and no _owner is left pointing to a destroyed database_t.
OwnerPointsBack ==
    \A c \in ConnIds :
        InPool(c) /\ owner[c] # None =>
            db_conn[owner[c]] = c /\ phase[owner[c]] \notin {"closing", "gone"}

\* A connection that lock() has taken is reachable from a database, so that
\* close() can give it back: no sequence of steals, closes and clean-ups
\* leaks a locked connection.
LockedHeld ==
    \A c \in ConnIds :
        InPool(c) /\ res[c] = 1 => \E d \in Databases : db_conn[d] = c

\* A connection with is_in_transaction set is still in the pool and belongs to
\* a database that kept it and the lock object begin() assigned to _lock.
TransactionLocked ==
    \A c \in ConnIds :
        is_in_transaction[c] =>
            /\ InPool(c)
            /\ \E d \in Databases : db_conn[d] = c /\ db_lock[d] = c

\* The server never has an open transaction that the library has forgotten:
\* a connection that can be stolen, reused or deleted has none.
NoForgottenTransaction ==
    \A c \in ConnIds : session_tx[c] => is_in_transaction[c] /\ link[c] = "ok"

\* A database only ever works on a connection of its own connection string.
OwnString ==
    \A d \in Databases :
        db_conn[d] # None => db_conn[d] \in PoolOf(d) \/ Freed(db_conn[d])

\* A pool whose _max_conn does not exceed the connections the clean-up spares
\* never deletes a connection, so no pointer to one dangles.
NeverFreed ==
    MaxConn <= KeepIdx + 1 =>
        /\ \A c \in ConnIds : ~Freed(c)
        /\ fault # "freed"

\* With one connection per string, two databases never share a connection.
SingleExclusive ==
    MaxConn <= 1 =>
        \A d, e \in Databases :
            db_conn[d] # None /\ db_conn[d] = db_conn[e] => d = e

\* As long as the server keeps the links up, no exception leaves ~database_t:
\* the ROLLBACK that release() sends always finds a live session.
DestructorSafe ==
    Unreliable = {} =>
        /\ fault # "terminate"
        /\ \A c \in ConnIds : is_in_transaction[c] => link[c] = "ok"

\* The connection of a database in a transaction is taken away from it by
\* nothing but a close(), which rolls the transaction back.
TransactionKept ==
    [][\A d \in Databases, c \in ConnIds :
          is_in_transaction[c] /\ db_conn[d] = c /\ db_conn'[d] # c
              => ~is_in_transaction'[c] /\ ~session_tx'[c] /\ res'[c] = 0]_vars

-----------------------------------------------------------------------------
(* What makes the properties inductive                                     *)

\* Ids that were not handed out yet are used nowhere.
Fresh ==
    /\ \A s \in ConnStrings : \A c \in pools[s] : c < next_id
    /\ \A c \in ConnIds : c >= next_id => owner[c] = None
    /\ \A d \in Databases : db_conn[d] # None => db_conn[d] < next_id

\* A connection is in the pool of one string.
PoolsDisjoint ==
    \A s, t \in ConnStrings : s # t => pools[s] \cap pools[t] = {}

OwnerHolds ==
    \A c \in ConnIds :
        InPool(c) /\ owner[c] # None => db_conn[owner[c]] = c

PoolInv ==
    Fresh /\ PoolsDisjoint /\ PoolBounded /\ OwnerHolds /\ OwnString /\ LockedHeld

\* _lock and _conn never refer to two different connections.
LockMatches ==
    \A d \in Databases : db_lock[d] # None => db_conn[d] \in {None, db_lock[d]}

PhaseInv ==
    \A d \in Databases :
        /\ phase[d] = "begin" => db_lock[d] # None
        /\ phase[d] \in {"closing", "gone"} => db_conn[d] = None

IInv ==
    /\ TypeOK
    /\ PoolInv
    /\ LockMatches
    /\ PhaseInv
    /\ TransactionLocked
    /\ NoForgottenTransaction

\* With one connection, a database that lost its _owner entry (release threw)
\* still holds the broken transaction that keeps others away.
SingleOwner(d) ==
    db_conn[d] # None =>
        \/ owner[db_conn[d]] = d
        \/ /\ owner[db_conn[d]] = None
           /\ is_in_transaction[db_conn[d]]
           /\ link[db_conn[d]] # "ok"
           /\ db_lock[d] = db_conn[d]

SingleInv == MaxConn <= 1 => \A d \in Databases : SingleOwner(d)

-----------------------------------------------------------------------------
(* What a check of the code says, and the code does not do                 *)

\* connection_lock_t refuses a connection that is already locked, so one thread
\* at a time is between open_connection and its last use of libpq on it.
OneUserPerConnection ==
    \A d, e \in Databases :
        InUse(d) /\ InUse(e) /\ db_conn[d] # None /\ db_conn[d] = db_conn[e]
            => d = e

=============================================================================
