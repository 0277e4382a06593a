-------------------------- MODULE TransactionProofs -------------------------
(***************************************************************************)
(* With one connection for each string, Database implements                *)
(* TransactionLease.                                                       *)
(***************************************************************************)
EXTENDS TransactionMapping, DatabaseProofs

\* What the proof needs of the state before a step: the connection that begin
\* has set is_in_transaction on is in the pool and has one database.
LEMMA OneHolder ==
    ASSUME IInv, SingleExclusive, MaxConn <= 1
    PROVE  /\ \A c \in ConnIds : session_tx[c] => is_in_transaction[c]
           /\ \A c \in ConnIds : is_in_transaction[c] =>
                  \E d \in Databases : db_conn[d] = c /\ db_lock[d] = c
           /\ \A d, e \in Databases :
                  db_conn[d] # None /\ db_conn[d] = db_conn[e] => d = e
           /\ \A d \in Databases : db_conn[d] \in ConnIds \cup {None}
           /\ \A d \in Databases : Usable(d) => db_conn[d] \in ConnIds /\ db_conn[d] # None
           /\ None \notin ConnIds
           /\ is_in_transaction \in [ConnIds -> BOOLEAN]
           /\ session_tx \in [ConnIds -> BOOLEAN]
           /\ db_conn \in [Databases -> ConnIds \cup {None}]
BY UsableInPool, NoneAssumption
DEF IInv, NoForgottenTransaction, TransactionLocked, SingleExclusive, TypeOK, PoolTypeOK

\* A step that leaves the connections, the flags and the sessions alone.
LEMMA LeaseUnchanged ==
    ASSUME UNCHANGED <<db_conn, is_in_transaction, session_tx>>
    PROVE  UNCHANGED <<Holding, Unfinished>>
BY DEF Holding, Unfinished

\* A step that keeps the flags and the sessions, and gives a database no other
\* connection than one without a transaction.
LEMMA KeptStutters ==
    ASSUME IInv, SingleExclusive, MaxConn <= 1, TypeOK', TransactionsKept,
           \A e \in ConnIds : is_in_transaction'[e] = is_in_transaction[e],
           \A e \in ConnIds : session_tx'[e] = session_tx[e],
           \A x \in Databases : db_conn'[x] # None /\ db_conn'[x] # db_conn[x]
               => db_conn'[x] \in ConnIds /\ ~is_in_transaction[db_conn'[x]]
    PROVE  UNCHANGED <<Holding, Unfinished>>
<1>0. /\ \A c \in ConnIds : session_tx[c] => is_in_transaction[c]
      /\ \A c \in ConnIds : is_in_transaction[c] =>
             \E x \in Databases : db_conn[x] = c /\ db_lock[x] = c
      /\ \A x \in Databases : db_conn[x] \in ConnIds \cup {None}
      /\ None \notin ConnIds
  BY OneHolder
<1>1. is_in_transaction' = is_in_transaction /\ session_tx' = session_tx
  BY DEF IInv, TypeOK, PoolTypeOK
<1>2. ASSUME NEW x \in Databases
      PROVE  /\ x \in Holding' <=> x \in Holding
             /\ x \in Unfinished' <=> x \in Unfinished
  <2>1. CASE db_conn'[x] = db_conn[x]
    BY <1>1, <2>1 DEF Holding, Unfinished
  <2>2. CASE db_conn'[x] # db_conn[x]
    <3>1. x \notin Holding
      BY <1>0, <2>2 DEF Holding, TransactionsKept
    <3>2. x \notin Unfinished
      BY <1>0, <3>1 DEF Holding, Unfinished
    <3>3. db_conn'[x] # None =>
              /\ db_conn'[x] \in ConnIds
              /\ ~is_in_transaction[db_conn'[x]]
              /\ ~session_tx[db_conn'[x]]
      BY <1>0, <2>2
    <3> QED
      BY <1>1, <3>1, <3>2, <3>3 DEF Holding, Unfinished
  <2> QED
    BY <2>1, <2>2
<1> QED
  BY <1>2 DEF Holding, Unfinished

\* open_connection, in a query or in begin(), gives no lease and takes none: a
\* connection that is acquired has no transaction, and neither has one that
\* somebody loses.
LEMMA OpenStutters ==
    ASSUME IInv, TypeOK', SingleExclusive, SingleExclusive', MaxConn <= 1,
           NEW d \in Databases, Query(d) \/ BeginOpen(d)
    PROVE  UNCHANGED <<Holding, Unfinished>>
<1>0. /\ \A c \in ConnIds : session_tx[c] => is_in_transaction[c]
      /\ \A c \in ConnIds : is_in_transaction[c] =>
             \E x \in Databases : db_conn[x] = c /\ db_lock[x] = c
      /\ \A x \in Databases : db_conn[x] \in ConnIds \cup {None}
      /\ None \notin ConnIds
      /\ is_in_transaction \in [ConnIds -> BOOLEAN]
      /\ session_tx \in [ConnIds -> BOOLEAN]
  BY OneHolder
<1>00. /\ is_in_transaction' \in [ConnIds -> BOOLEAN]
       /\ session_tx' \in [ConnIds -> BOOLEAN]
  BY DEF TypeOK, PoolTypeOK
<1>1. ASSUME TransactionsKept,
             \A e \in ConnIds : is_in_transaction'[e] = is_in_transaction[e],
             \A e \in ConnIds : session_tx'[e] = session_tx[e],
             \A x \in Databases : db_conn'[x] # None /\ db_conn'[x] # db_conn[x]
                 => db_conn'[x] \in ConnIds /\ ~is_in_transaction[db_conn'[x]]
      PROVE  UNCHANGED <<Holding, Unfinished>>
  BY <1>1, KeptStutters
<1>2. CASE OpenShared(d) /\ UNCHANGED poolVars
  BY <1>2, LeaseUnchanged DEF poolVars
<1>3. ASSUME NEW c \in ConnIds, db_lock[d] = None, Acquire(d, c),
             PqOpenSucceeds(c) \/ PqOpenFails(c)
      PROVE  UNCHANGED <<Holding, Unfinished>>
  <2>1. /\ TransactionsKept
        /\ db_conn'[d] = c
        /\ \A x \in Databases \ {d} : db_conn'[x] \in {db_conn[x], None}
    BY <1>3, AcquireInv DEF IInv
  <2>2. ~is_in_transaction[c]
    <3> SUFFICES ASSUME is_in_transaction[c] PROVE FALSE
      OBVIOUS
    <3>1. PICK x \in Databases : db_conn[x] = c /\ db_lock[x] = c
      BY <1>0
    <3>2. db_conn'[x] = c
      BY <2>1, <3>1 DEF TransactionsKept
    <3>3. x = d
      BY <1>0, <2>1, <3>2 DEF SingleExclusive
    <3> QED
      BY <1>0, <1>3, <3>1, <3>3
  <2>3. ~session_tx[c]
    BY <1>0, <2>2
  <2>4. \A e \in ConnIds : /\ is_in_transaction'[e] <=> is_in_transaction[e]
                           /\ session_tx'[e] <=> session_tx[e]
    BY <1>0, <1>3, <2>2, <2>3 DEF PqOpenSucceeds, PqOpenFails
  <2>5. \A e \in ConnIds : is_in_transaction'[e] = is_in_transaction[e]
    BY <1>0, <1>00, <2>4
  <2>6. \A e \in ConnIds : session_tx'[e] = session_tx[e]
    BY <1>0, <1>00, <2>4
  <2>7. \A x \in Databases : db_conn'[x] # None /\ db_conn'[x] # db_conn[x]
            => db_conn'[x] \in ConnIds /\ ~is_in_transaction[db_conn'[x]]
    BY <1>3, <2>1, <2>2
  <2> QED
    BY <1>1, <2>1, <2>5, <2>6, <2>7
<1>4. CASE db_conn[d] = None /\ GetConnectionFails(d)
           /\ UNCHANGED <<is_in_transaction, session_tx>>
  <2>1. OpenThrows(d) => TransactionsKept
    BY OpenThrowsInv DEF OpenSummary
  <2>2. \A x \in Databases : db_conn'[x] \in {db_conn[x], None}
    BY <1>4 DEF GetConnectionFails
  <2>3. CASE OpenThrows(d)
    BY <1>1, <1>4, <2>1, <2>2, <2>3
  <2>4. CASE ~OpenThrows(d)
    <3>1. OpenShared(d) \/ \E c \in ConnIds : OpenNew(d, c)
      BY <2>4 DEF Query, BeginOpen
    <3>2. CASE OpenShared(d)
      BY <3>2, LeaseUnchanged DEF OpenShared, poolVars
    <3>3. CASE \E c \in ConnIds : OpenNew(d, c)
      BY <1>3, <3>3 DEF OpenNew
    <3> QED
      BY <3>1, <3>2, <3>3
  <2> QED
    BY <2>3, <2>4
<1>5. \/ OpenShared(d) /\ UNCHANGED poolVars
      \/ \E c \in ConnIds :
             /\ db_lock[d] = None
             /\ Acquire(d, c)
             /\ PqOpenSucceeds(c) \/ PqOpenFails(c)
      \/ /\ db_conn[d] = None /\ GetConnectionFails(d)
         /\ UNCHANGED <<is_in_transaction, session_tx>>
  BY DEF Query, BeginOpen, OpenShared, OpenNew, OpenThrows
<1> QED
  BY <1>2, <1>3, <1>4, <1>5

\* Two databases of one string with connections in the pool have the same.
LEMMA OneInPool ==
    ASSUME IInv, MaxConn <= 1, NEW s \in ConnStrings,
           NEW c \in pools[s], NEW k \in pools[s]
    PROVE  c = k
<1> SUFFICES ASSUME c # k PROVE FALSE
  OBVIOUS
<1>1. IsFiniteSet(pools[s]) /\ Cardinality(pools[s]) \in Nat
  BY PoolFinite DEF IInv
<1>2. Cardinality(pools[s]) <= 1
  BY SizesAssumption DEF IInv, PoolInv, PoolBounded
<1>3. IsFiniteSet({c}) /\ Cardinality({c}) = 1
  BY FS_Singleton
<1>4. Cardinality({c} \cup {k}) = 2
  BY <1>3, FS_AddElement
<1>5. Cardinality({c} \cup {k}) <= Cardinality(pools[s])
  BY <1>1, FS_Subset
<1> QED
  BY <1>1, <1>2, <1>4, <1>5

\* BEGIN gives the lease, which nobody of the same string has.
LEMMA BeginAcquires ==
    ASSUME IInv, SingleExclusive, MaxConn <= 1,
           NEW d \in Databases, BeginTransaction(d)
    PROVE  Lease!Acquire(d)
<1> DEFINE c == db_conn[d]
<1>0. /\ \A x, y \in Databases : db_conn[x] # None /\ db_conn[x] = db_conn[y] => x = y
      /\ c \in ConnIds /\ c # None
      /\ is_in_transaction \in [ConnIds -> BOOLEAN]
      /\ session_tx \in [ConnIds -> BOOLEAN]
      /\ \A x \in Databases : db_conn[x] \in ConnIds \cup {None}
  BY OneHolder DEF BeginTransaction
<1>1. /\ ~is_in_transaction[c]
      /\ is_in_transaction' = [is_in_transaction EXCEPT ![c] = TRUE]
      /\ session_tx' = [session_tx EXCEPT ![c] = TRUE]
      /\ UNCHANGED db_conn
  BY DEF BeginTransaction
<1>2. Holding' = Holding \cup {d} /\ Unfinished' = Unfinished \cup {d}
  BY <1>0, <1>1 DEF Holding, Unfinished
<1>3. ASSUME NEW e \in Holding PROVE connection_string[e] # connection_string[d]
  <2> SUFFICES ASSUME connection_string[e] = connection_string[d] PROVE FALSE
    OBVIOUS
  <2>1. e \in Databases /\ db_conn[e] \in ConnIds /\ is_in_transaction[db_conn[e]]
    BY <1>0 DEF Holding
  <2>2. InPool(db_conn[e]) /\ InPool(c)
    BY <2>1, UsableInPool DEF IInv, TransactionLocked, BeginTransaction
  <2>3. db_conn[e] \in PoolOf(e) /\ c \in PoolOf(d)
    BY <1>0, <2>1, <2>2, NoneAssumption DEF IInv, PoolInv, OwnString, Freed, InPool
  <2>4. db_conn[e] = c
    BY <2>1, <2>3, OneInPool, StringsAssumption DEF PoolOf
  <2> QED
    BY <1>1, <2>1, <2>4
<1> QED
  BY <1>2, <1>3 DEF Lease!Acquire

\* COMMIT and ROLLBACK end the lease of the database that sends them, a refused
\* COMMIT only its transaction on the server.
LEMMA EndReleases ==
    ASSUME IInv, SingleExclusive, MaxConn <= 1, NEW d \in Databases, Usable(d),
           TransactionEnds(d) \/ EndThrows(d) \/ CommitRefused(d), UNCHANGED db_conn
    PROVE  Lease!Release(d) \/ Lease!Lose(d) \/ UNCHANGED <<Holding, Unfinished>>
<1> DEFINE c == db_conn[d]
<1>0. /\ \A x, y \in Databases : db_conn[x] # None /\ db_conn[x] = db_conn[y] => x = y
      /\ c \in ConnIds /\ c # None
      /\ is_in_transaction \in [ConnIds -> BOOLEAN]
      /\ session_tx \in [ConnIds -> BOOLEAN]
      /\ \A x \in Databases : db_conn[x] \in ConnIds \cup {None}
  BY OneHolder
<1>1. CASE TransactionEnds(d)
  <2>1. d \in Holding /\ Holding' = Holding \ {d} /\ Unfinished' = Unfinished \ {d}
    BY <1>0, <1>1 DEF TransactionEnds, Holding, Unfinished
  <2> QED
    BY <2>1 DEF Lease!Release
<1>2. CASE CommitRefused(d)
  <2>1. d \in Unfinished /\ Unfinished' = Unfinished \ {d} /\ Holding' = Holding
    BY <1>0, <1>2 DEF CommitRefused, Holding, Unfinished
  <2> QED
    BY <2>1 DEF Lease!Lose
<1>3. CASE EndThrows(d)
  BY <1>3, LeaseUnchanged DEF EndThrows
<1> QED
  BY <1>1, <1>2, <1>3

\* close() of a database in a transaction ends its lease.
LEMMA CloseReleases ==
    ASSUME IInv, SingleExclusive, MaxConn <= 1, NEW d \in Databases, Usable(d),
           Release(d, db_conn[d])
    PROVE  Lease!Release(d) \/ UNCHANGED <<Holding, Unfinished>>
<1> DEFINE c == db_conn[d]
<1>0. /\ \A x, y \in Databases : db_conn[x] # None /\ db_conn[x] = db_conn[y] => x = y
      /\ c \in ConnIds /\ c # None
      /\ is_in_transaction \in [ConnIds -> BOOLEAN]
      /\ session_tx \in [ConnIds -> BOOLEAN]
      /\ db_conn \in [Databases -> ConnIds \cup {None}]
      /\ session_tx[c] => is_in_transaction[c]
  BY OneHolder
<1>1. /\ is_in_transaction' = [is_in_transaction EXCEPT ![c] = FALSE]
      /\ session_tx' = [session_tx EXCEPT ![c] = FALSE]
      /\ db_conn' = [db_conn EXCEPT ![d] = None]
  BY <1>0 DEF Release
<1>2. Holding' = Holding \ {d} /\ Unfinished' = Unfinished \ {d}
  BY <1>0, <1>1 DEF Holding, Unfinished
<1>3. CASE is_in_transaction[c]
  BY <1>0, <1>2, <1>3 DEF Lease!Release, Holding
<1>4. CASE ~is_in_transaction[c]
  BY <1>0, <1>2, <1>4 DEF Holding, Unfinished
<1> QED
  BY <1>3, <1>4

\* A lost link ends the transaction on the server, the lease goes on.
LEMMA LinkLostLoses ==
    ASSUME IInv, SingleExclusive, MaxConn <= 1, NEW c \in ConnIds, LinkLost(c)
    PROVE  \/ \E d \in Databases : Lease!Lose(d)
           \/ UNCHANGED <<Holding, Unfinished>>
<1>0. /\ \A x, y \in Databases : db_conn[x] # None /\ db_conn[x] = db_conn[y] => x = y
      /\ None \notin ConnIds
      /\ session_tx \in [ConnIds -> BOOLEAN]
      /\ \A x \in Databases : db_conn[x] \in ConnIds \cup {None}
  BY OneHolder
<1>1. /\ session_tx' = [session_tx EXCEPT ![c] = FALSE]
      /\ UNCHANGED <<db_conn, is_in_transaction>>
  BY DEF LinkLost
<1>2. Holding' = Holding
  BY <1>1 DEF Holding
<1>3. CASE \E d \in Unfinished : db_conn[d] = c
  <2>1. PICK d \in Unfinished : db_conn[d] = c
    BY <1>3
  <2>2. d \in Databases /\ Unfinished' = Unfinished \ {d}
    BY <1>0, <1>1, <2>1 DEF Unfinished
  <2> QED
    BY <1>2, <2>1, <2>2 DEF Lease!Lose
<1>4. CASE ~\E d \in Unfinished : db_conn[d] = c
  <2>1. Unfinished' = Unfinished
    BY <1>0, <1>1, <1>4 DEF Unfinished
  <2> QED
    BY <1>2, <2>1
<1> QED
  BY <1>3, <1>4

\* A BEGIN that fails changes no lease.
LEMMA BeginThrowsStutters ==
    ASSUME IInv, SingleExclusive, MaxConn <= 1, NEW d \in Databases, BeginThrows(d)
    PROVE  UNCHANGED <<Holding, Unfinished>>
<1> DEFINE c == db_conn[d]
<1>1. /\ c \in ConnIds
      /\ is_in_transaction \in [ConnIds -> BOOLEAN]
      /\ session_tx \in [ConnIds -> BOOLEAN]
      /\ session_tx[c] => is_in_transaction[c]
  BY OneHolder DEF BeginThrows
<1>2. /\ UNCHANGED db_conn
      /\ \A e \in ConnIds : /\ is_in_transaction'[e] <=> is_in_transaction[e]
                            /\ session_tx'[e] <=> session_tx[e]
  BY <1>1 DEF BeginThrows, PqOpenFails
<1>3. \A x \in Databases : db_conn[x] \in ConnIds \cup {None}
  BY OneHolder
<1> QED
  BY <1>2, <1>3 DEF Holding, Unfinished

\* A pool of one connection for each string implements the lease: whatever the
\* threads do and whatever is lost, a transaction is begun only when no other
\* database of the string has one and is ended by nobody but its database.
THEOREM LeaseRefinement ==
    ASSUME MaxConn <= 1
    PROVE  Spec => ImplementsLease
<1>1. Init => Lease!Init
  BY DEF Init, PoolInit, Lease!Init, Holding, Unfinished
<1>2. ASSUME IInv, IInv', SingleExclusive, SingleExclusive', [Next]_vars
      PROVE  [Lease!Next]_<<Holding, Unfinished>>
  <2>1. ASSUME NEW d \in Databases, Query(d) \/ BeginOpen(d) \/ BeginThrows(d)
        PROVE  UNCHANGED <<Holding, Unfinished>>
    BY <1>2, <2>1, OpenStutters, BeginThrowsStutters DEF IInv
  <2>2. ASSUME NEW d \in Databases, BeginTransaction(d)
        PROVE  Lease!Acquire(d)
    BY <1>2, <2>2, BeginAcquires
  <2>3. ASSUME NEW d \in Databases, Commit(d) \/ Rollback(d) \/ ExecEnd(d)
        PROVE  Lease!Release(d) \/ Lease!Lose(d) \/ UNCHANGED <<Holding, Unfinished>>
    <3>1. /\ Usable(d) /\ UNCHANGED db_conn
          /\ \/ TransactionEnds(d) \/ EndThrows(d) \/ CommitRefused(d)
             \/ UNCHANGED <<is_in_transaction, session_tx>>
      BY <2>3 DEF Commit, Rollback, ExecEnd
    <3> QED
      BY <1>2, <3>1, EndReleases, LeaseUnchanged
  <2>4. ASSUME NEW d \in Databases, Usable(d), Release(d, db_conn[d])
        PROVE  Lease!Release(d) \/ UNCHANGED <<Holding, Unfinished>>
    BY <1>2, <2>4, CloseReleases
  <2>5. ASSUME NEW c \in ConnIds, LinkLost(c)
        PROVE  (\E d \in Databases : Lease!Lose(d)) \/ UNCHANGED <<Holding, Unfinished>>
    BY <1>2, <2>5, LinkLostLoses
  <2>6. CASE UNCHANGED <<db_conn, is_in_transaction, session_tx>>
    BY <2>6, LeaseUnchanged
  <2>7. \/ UNCHANGED <<db_conn, is_in_transaction, session_tx>>
        \/ \E d \in Databases :
               \/ Query(d) \/ BeginOpen(d) \/ BeginThrows(d) \/ BeginTransaction(d)
               \/ Commit(d) \/ Rollback(d) \/ ExecEnd(d)
               \/ Usable(d) /\ Release(d, db_conn[d])
        \/ \E c \in ConnIds : LinkLost(c)
    BY <1>2
    DEF Next, vars, poolVars, QueryRun, QueryEnd, ExecQueries, ExecThrows, Close,
        Destroy, DestroyMembers, Open, DerefNull, DerefFreed, DataRace, ReleaseThrows
  <2> QED
    BY <2>1, <2>2, <2>3, <2>4, <2>5, <2>6, <2>7 DEF Lease!Next
<1> QED
  BY <1>1, <1>2, Invariance, SingleExclusiveThm, PTL
  DEF Spec, ImplementsLease, Lease!Spec
=============================================================================
