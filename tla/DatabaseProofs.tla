--------------------------- MODULE DatabaseProofs ---------------------------
(***************************************************************************)
(* Proofs about Database for every number of databases, connection strings *)
(* and connections.                                                        *)
(***************************************************************************)
EXTENDS Database, FiniteSetTheorems, TLAPS

\* The vector of a pool is finite, so that its size makes sense.
LEMMA PoolFinite ==
    ASSUME TypeOK, NEW s \in ConnStrings
    PROVE  /\ IsFiniteSet(pools[s])
           /\ Cardinality(pools[s]) \in Nat
           /\ Live(s) \subseteq pools[s]
           /\ IsFiniteSet(Live(s))
           /\ Cardinality(Live(s)) \in Nat
           /\ Cardinality(Live(s)) <= Cardinality(pools[s])
<1>1. IsFiniteSet(ConnIds)
  BY FS_Interval, SizesAssumption DEF ConnIds
<1>2. pools[s] \subseteq ConnIds
  BY DEF TypeOK, PoolTypeOK
<1>3. IsFiniteSet(pools[s])
  BY <1>1, <1>2, FS_Subset
<1>4. Live(s) \subseteq pools[s]
  BY DEF Live
<1>5. IsFiniteSet(Live(s)) /\ Cardinality(Live(s)) <= Cardinality(pools[s])
  BY <1>3, <1>4, FS_Subset
<1> QED
  BY <1>3, <1>4, <1>5, FS_CardinalityType

\* _get_connection returns a connection of d's pool and keeps the types.
LEMMA GetConnectionType ==
    ASSUME TypeOK, NEW d \in Databases, NEW c \in ConnIds, GetConnection(d, c)
    PROVE  /\ pools' \in [ConnStrings -> SUBSET ConnIds]
           /\ next_id' \in 0..(MaxId + 1)
           /\ last_stolen_conn_id' \in ConnIds \cup {-1}
           /\ res' \in [ConnIds -> {0, 1}]
           /\ owner' \in [ConnIds -> Databases \cup {None}]
           /\ db_conn' \in [Databases -> ConnIds \cup {None}]
<1> DEFINE s == connection_string[d]
<1>1. s \in ConnStrings /\ Live(s) \in SUBSET ConnIds
  BY StringsAssumption DEF TypeOK, PoolTypeOK, Live
<1>2. CASE CreateFirst(d, c)
  BY <1>1, <1>2, SizesAssumption
  DEF CreateFirst, Assign, TypeOK, PoolTypeOK, ConnIds
<1>3. CASE ReuseFree(d, c)
  BY <1>1, <1>3, SizesAssumption DEF ReuseFree, Assign, TypeOK, PoolTypeOK
<1>4. CASE CreateMore(d, c)
  BY <1>1, <1>4, SizesAssumption
  DEF CreateMore, Assign, TypeOK, PoolTypeOK, ConnIds
<1>5. CASE Steal(d, c)
  BY <1>1, <1>5, SizesAssumption DEF Steal, Assign, TypeOK, PoolTypeOK
<1> QED
  BY <1>2, <1>3, <1>4, <1>5 DEF GetConnection

\* What _get_connection does to the pool, in the terms of the invariants: only
\* the pool of d's string changes, what it loses was unlocked and out of a
\* transaction, d gets c, other databases keep their connection or lose it.
GetSummary(d, c) ==
    LET s == connection_string[d] IN
    /\ \A t \in ConnStrings \ {s} : pools'[t] = pools[t]
    /\ c \in pools'[s]
    /\ pools'[s] \subseteq pools[s] \cup {c}
    /\ \/ next_id' = next_id /\ c \in pools[s]
       \/ next_id' = next_id + 1 /\ c = next_id
    /\ \A e \in pools[s] \ pools'[s] : ~is_in_transaction[e] /\ res[e] = 0
    /\ \A e \in ConnIds \ {c} : owner'[e] = owner[e] /\ res'[e] = res[e]
    /\ owner'[c] = d \/ (owner'[c] = owner[c] /\ c = next_id)
    /\ db_conn'[d] = c
    /\ \A x \in Databases \ {d} :
           \/ db_conn'[x] = db_conn[x]
           \/ /\ db_conn'[x] = None
              /\ \E e \in pools[s] :
                     /\ owner[e] = x
                     /\ e \notin pools'[s] \/ (e = c /\ ~is_in_transaction[c])

\* All four ways of _get_connection to return fit this summary.
LEMMA GetConnectionSummary ==
    ASSUME TypeOK, NEW d \in Databases, NEW c \in ConnIds, GetConnection(d, c)
    PROVE  GetSummary(d, c)
<1> DEFINE s == connection_string[d]
<1>1. s \in ConnStrings /\ Live(s) \subseteq pools[s]
  BY StringsAssumption DEF TypeOK, PoolTypeOK, Live
<1>2. \A e \in pools[s] \ Live(s) : ~is_in_transaction[e] /\ res[e] = 0
  BY DEF Live, Dead, IsDead
<1>3. \A x \in Evicted(s) : \E e \in pools[s] \ Live(s) : owner[e] = x
  BY DEF Live, Dead, Evicted
<1>4. CASE CreateFirst(d, c)
  BY <1>1, <1>2, <1>3, <1>4, SizesAssumption
  DEF CreateFirst, Assign, TypeOK, PoolTypeOK, GetSummary
<1>5. CASE ReuseFree(d, c)
  BY <1>1, <1>2, <1>3, <1>5, SizesAssumption
  DEF ReuseFree, FirstFree, Assign, TypeOK, PoolTypeOK, GetSummary
<1>6. CASE CreateMore(d, c)
  BY <1>1, <1>2, <1>3, <1>6, SizesAssumption
  DEF CreateMore, Assign, TypeOK, PoolTypeOK, GetSummary
<1>7. CASE Steal(d, c)
  BY <1>1, <1>2, <1>3, <1>7, SizesAssumption
  DEF Steal, FirstStealable, CanBeStolen, Assign, TypeOK, PoolTypeOK, GetSummary
<1> QED
  BY <1>4, <1>5, <1>6, <1>7 DEF GetConnection

\* _get_connection keeps the pool within _max_conn.
LEMMA GetConnectionBounded ==
    ASSUME TypeOK, PoolBounded,
           NEW d \in Databases, NEW c \in ConnIds, GetConnection(d, c)
    PROVE  PoolBounded'
<1> DEFINE s == connection_string[d]
           max == IF MaxConn < 1 THEN 1 ELSE MaxConn
<1>1. s \in ConnStrings
  BY StringsAssumption
<1>2. \A t \in ConnStrings \ {s} : pools'[t] = pools[t]
  BY GetConnectionSummary DEF GetSummary
<1>3. Cardinality(pools[s]) <= max /\ max \in Int /\ max >= MaxConn /\ max >= 1
  BY <1>1, SizesAssumption DEF PoolBounded
<1>4. pools \in [ConnStrings -> SUBSET ConnIds]
  BY DEF TypeOK, PoolTypeOK
<1>5. Cardinality(pools'[s]) <= max
  <2>1. CASE CreateFirst(d, c)
    <3>1. pools'[s] = {c}
      BY <1>1, <1>4, <2>1 DEF CreateFirst
    <3> QED
      BY <1>3, <3>1, FS_Singleton
  <2>2. CASE pools'[s] = Live(s)
    BY <1>1, <1>3, <2>2, PoolFinite
  <2>3. CASE CreateMore(d, c)
    <3>1. pools'[s] = Live(s) \cup {c} /\ Cardinality(Live(s)) < MaxConn
      BY <1>1, <1>4, <2>3 DEF CreateMore
    <3>2. IsFiniteSet(Live(s)) /\ Cardinality(Live(s)) \in Nat
      BY <1>1, PoolFinite
    <3>3. Cardinality(Live(s) \cup {c}) \in
              {Cardinality(Live(s)), Cardinality(Live(s)) + 1}
      BY <3>2, FS_AddElement
    <3> HIDE DEF max
    <3> QED
      BY <1>3, <3>1, <3>2, <3>3, SizesAssumption
  <2>4. ReuseFree(d, c) \/ Steal(d, c) => pools'[s] = Live(s)
    BY <1>1, <1>4 DEF ReuseFree, Steal
  <2> QED
    BY <2>1, <2>2, <2>3, <2>4 DEF GetConnection
<1>6. \A t \in ConnStrings : Cardinality(pools'[t]) <= max
  BY <1>2, <1>5 DEF PoolBounded
<1> QED
  BY <1>6 DEF PoolBounded

\* The rest of PoolInv across _get_connection.
LEMMA GetConnectionPoolInv ==
    ASSUME TypeOK, PoolInv,
           NEW d \in Databases, NEW c \in ConnIds,
           db_conn[d] = None, GetConnection(d, c)
    PROVE  PoolInv'
<1> DEFINE s == connection_string[d]
<1>1. GetSummary(d, c)
  BY GetConnectionSummary
<1>2. /\ s \in ConnStrings /\ next_id \in Int
      /\ c \in Int /\ \A e \in ConnIds : e \in Int
  BY StringsAssumption, SizesAssumption DEF TypeOK, PoolTypeOK, ConnIds
<1>3. pools \in [ConnStrings -> SUBSET ConnIds]
  BY DEF TypeOK, PoolTypeOK
<1>4. \A e \in ConnIds : InPool(e)' => InPool(e) \/ e = c
  BY <1>1, <1>2 DEF GetSummary, InPool
<1>5. \A e \in ConnIds : InPool(e) /\ ~InPool(e)' => e \in pools[s] \ pools'[s]
  BY <1>1, <1>2 DEF GetSummary, InPool
<1>6. InPool(c)'
  BY <1>1, <1>2 DEF GetSummary, InPool
<1>7. Fresh'
  <2>0. \/ next_id' = next_id /\ c < next_id
        \/ next_id' = next_id + 1 /\ c = next_id
    BY <1>1, <1>2 DEF GetSummary, PoolInv, Fresh
  <2>1. next_id' \in Int /\ next_id <= next_id' /\ c < next_id'
    BY <1>2, <2>0
  <2>2. \A t \in ConnStrings : \A e \in pools'[t] : e < next_id'
    <3> SUFFICES ASSUME NEW t \in ConnStrings, NEW e \in pools'[t]
                 PROVE  e < next_id'
      OBVIOUS
    <3>1. e = c \/ e \in pools[t]
      BY <1>1 DEF GetSummary
    <3>2. e \in pools[t] => e \in Int /\ e < next_id
      BY <1>2, <1>3 DEF PoolInv, Fresh
    <3> QED
      BY <1>2, <2>1, <3>1, <3>2
  <2>3. \A e \in ConnIds : e >= next_id' => owner'[e] = None
    BY <1>1, <1>2, <2>1 DEF GetSummary, PoolInv, Fresh
  <2>4. \A x \in Databases : db_conn'[x] # None => db_conn'[x] < next_id'
    <3> SUFFICES ASSUME NEW x \in Databases, x # d, db_conn'[x] # None
                 PROVE  db_conn'[x] < next_id'
      BY <1>1, <2>1 DEF GetSummary
    <3>1. db_conn'[x] = db_conn[x] /\ db_conn[x] \in ConnIds
      BY <1>1 DEF GetSummary, TypeOK, PoolTypeOK
    <3>2. db_conn[x] \in Int /\ db_conn[x] < next_id
      BY <1>2, <3>1, NoneAssumption DEF PoolInv, Fresh
    <3> QED
      BY <1>2, <2>1, <3>1, <3>2
  <2> QED
    BY <2>2, <2>3, <2>4 DEF Fresh
<1>8. PoolsDisjoint'
  BY <1>1, <1>2, <1>3 DEF PoolInv, Fresh, PoolsDisjoint, GetSummary
<1>9. \A e \in pools[s] \ pools'[s] : \A t \in ConnStrings : e \notin pools'[t]
  BY <1>1, <1>2, <1>3 DEF PoolInv, PoolsDisjoint, InPool, GetSummary
<1>10. OwnerHolds'
  <2> SUFFICES ASSUME NEW e \in ConnIds, InPool(e)', owner'[e] # None
               PROVE  db_conn'[owner'[e]] = e
    BY DEF OwnerHolds
  <2>1. CASE e = c
    BY <1>1, <1>2, <2>1 DEF GetSummary, PoolInv, Fresh
  <2>2. CASE e # c
    <3>1. InPool(e) /\ owner'[e] = owner[e] /\ db_conn[owner[e]] = e
      BY <1>1, <1>4, <2>2 DEF GetSummary, PoolInv, OwnerHolds
    <3>2. owner[e] \in Databases \ {d}
      BY <3>1, NoneAssumption DEF TypeOK, PoolTypeOK
    <3>3. \A f \in pools[s] : owner[f] = owner[e] => f = e
      BY <1>2, <1>3, <3>1, <3>2, NoneAssumption DEF PoolInv, OwnerHolds, InPool
    <3> QED
      BY <1>1, <1>9, <2>2, <3>1, <3>2, <3>3 DEF GetSummary, InPool
  <2> QED
    BY <2>1, <2>2
<1>11. OwnString'
  <2> SUFFICES ASSUME NEW x \in Databases, db_conn'[x] # None
               PROVE  db_conn'[x] \in PoolOf(x)' \/ Freed(db_conn[x])'
    BY DEF OwnString
  <2>1. CASE x = d
    BY <1>1, <2>1 DEF GetSummary, PoolOf
  <2>2. CASE x # d
    <3>1. db_conn'[x] = db_conn[x] /\ db_conn[x] \in ConnIds
      BY <1>1, <2>2 DEF GetSummary, TypeOK, PoolTypeOK
    <3>2. db_conn[x] \in PoolOf(x) \/ Freed(db_conn[x])
      BY <2>2, <3>1 DEF PoolInv, OwnString
    <3>3. db_conn[x] < next_id' /\ (Freed(db_conn[x]) => db_conn[x] # c \/ c \in pools[s])
      <4>1. db_conn[x] < next_id /\ db_conn[x] \in Int
        BY <1>2, <3>1, NoneAssumption DEF PoolInv, Fresh
      <4>2. \/ next_id' = next_id /\ c \in pools[s]
            \/ next_id' = next_id + 1 /\ c = next_id
        BY <1>1 DEF GetSummary
      <4> QED
        BY <1>2, <4>1, <4>2
    <3>4. CASE db_conn[x] \in PoolOf(x)
      <4>1. CASE db_conn'[x] \in PoolOf(x)'
        BY <4>1
      <4>2. CASE db_conn'[x] \notin PoolOf(x)'
        <5>1. connection_string[x] = s /\ db_conn[x] \in pools[s] \ pools'[s]
          BY <1>1, <3>1, <3>4, <4>2, StringsAssumption DEF GetSummary, PoolOf
        <5> QED
          BY <1>9, <3>1, <3>3, <5>1 DEF Freed
      <4> QED
        BY <4>1, <4>2
    <3>5. CASE Freed(db_conn[x])
      BY <1>1, <1>2, <1>4, <3>1, <3>3, <3>5 DEF Freed, InPool, GetSummary
    <3> QED
      BY <3>2, <3>4, <3>5
  <2> QED
    BY <2>1, <2>2
<1>12. LockedHeld'
  <2> SUFFICES ASSUME NEW e \in ConnIds, InPool(e)', res'[e] = 1
               PROVE  \E x \in Databases : db_conn'[x] = e
    BY DEF LockedHeld
  <2>1. CASE e = c
    BY <1>1, <2>1 DEF GetSummary
  <2>2. CASE e # c
    <3>1. InPool(e) /\ res[e] = 1
      BY <1>1, <1>4, <2>2 DEF GetSummary
    <3>2. PICK x \in Databases : db_conn[x] = e
      BY <3>1 DEF PoolInv, LockedHeld
    <3>3. x # d
      BY <3>2, NoneAssumption
    <3>4. CASE db_conn'[x] = db_conn[x]
      BY <3>2, <3>4
    <3>5. CASE db_conn'[x] # db_conn[x]
      <4>1. PICK f \in pools[s] : owner[f] = x /\ (f \notin pools'[s] \/ f = c)
        BY <1>1, <3>3, <3>5 DEF GetSummary
      <4>2. db_conn[x] = f
        BY <1>2, <1>3, <4>1, NoneAssumption DEF PoolInv, OwnerHolds, InPool
      <4> QED
        BY <1>2, <1>9, <2>2, <3>1, <3>2, <4>1, <4>2 DEF InPool
    <3> QED
      BY <3>4, <3>5
  <2> QED
    BY <2>1, <2>2
<1>13. PoolBounded'
  BY GetConnectionBounded DEF PoolInv
<1> QED
  BY <1>7, <1>8, <1>10, <1>11, <1>12, <1>13 DEF PoolInv

\* When _get_connection throws, only the clean-up has happened.
LEMMA FailsPoolInv ==
    ASSUME TypeOK, PoolInv, NEW d \in Databases,
           db_conn[d] = None, GetConnectionFails(d)
    PROVE  /\ PoolInv'
           /\ pools' \in [ConnStrings -> SUBSET ConnIds]
           /\ db_conn' \in [Databases -> ConnIds \cup {None}]
<1> DEFINE s == connection_string[d]
<1>1. s \in ConnStrings /\ Live(s) \subseteq pools[s]
  BY StringsAssumption DEF Live
<1>2. /\ pools \in [ConnStrings -> SUBSET ConnIds]
      /\ owner \in [ConnIds -> Databases \cup {None}]
      /\ db_conn \in [Databases -> ConnIds \cup {None}]
  BY DEF TypeOK, PoolTypeOK
<1>3. /\ pools' = [pools EXCEPT ![s] = Live(s)]
      /\ db_conn' = [x \in Databases |->
                         IF x \in Evicted(s) THEN None ELSE db_conn[x]]
      /\ UNCHANGED <<next_id, res, owner>>
  BY DEF GetConnectionFails
<1>4. \A e \in pools[s] \ Live(s) : res[e] = 0
  BY DEF Live, Dead, IsDead
<1>5. \A x \in Evicted(s) : \E e \in pools[s] \ Live(s) : owner[e] = x
  BY DEF Live, Dead, Evicted
<1>6. Fresh'
  BY <1>1, <1>2, <1>3 DEF PoolInv, Fresh
<1>7. PoolsDisjoint'
  BY <1>1, <1>2, <1>3 DEF PoolInv, PoolsDisjoint
<1>8. PoolBounded'
  <2>1. \A t \in ConnStrings \ {s} : pools'[t] = pools[t]
    BY <1>1, <1>2, <1>3
  <2>2. /\ pools'[s] = Live(s)
        /\ Cardinality(Live(s)) <= Cardinality(pools[s])
        /\ Cardinality(Live(s)) \in Nat /\ Cardinality(pools[s]) \in Nat
    BY <1>1, <1>2, <1>3, PoolFinite
  <2>3. Cardinality(pools'[s]) <= (IF MaxConn < 1 THEN 1 ELSE MaxConn)
    BY <1>1, <2>2, SizesAssumption DEF PoolInv, PoolBounded
  <2> QED
    BY <2>1, <2>3 DEF PoolInv, PoolBounded
<1>9. \A e \in ConnIds : InPool(e)' <=> InPool(e) /\ e \notin pools[s] \ Live(s)
  BY <1>1, <1>2, <1>3 DEF InPool, PoolInv, PoolsDisjoint
<1>10. \A x \in Evicted(s) \ {None} : db_conn[x] \in pools[s] \ Live(s)
  BY <1>1, <1>2, <1>5 DEF PoolInv, OwnerHolds, InPool
<1>11. OwnerHolds'
  <2> SUFFICES ASSUME NEW e \in ConnIds, InPool(e)', owner[e] # None
               PROVE  db_conn'[owner[e]] = e
    BY <1>3 DEF OwnerHolds
  <2>1. owner[e] \in Databases /\ db_conn[owner[e]] = e
    BY <1>2, <1>9 DEF PoolInv, OwnerHolds
  <2> QED
    BY <1>3, <1>9, <1>10, <2>1, NoneAssumption
<1>12. OwnString'
  <2> SUFFICES ASSUME NEW x \in Databases, db_conn'[x] # None
               PROVE  db_conn'[x] \in PoolOf(x)' \/ Freed(db_conn[x])'
    BY DEF OwnString
  <2>1. db_conn'[x] = db_conn[x] /\ db_conn[x] \in ConnIds
    BY <1>2, <1>3
  <2>2. db_conn[x] \in PoolOf(x) \/ Freed(db_conn[x])
    BY <2>1, NoneAssumption DEF PoolInv, OwnString
  <2>3. db_conn[x] < next_id
    BY <2>1, NoneAssumption DEF PoolInv, Fresh
  <2>4. CASE \A t \in ConnStrings : db_conn[x] \notin pools'[t]
    BY <1>3, <2>1, <2>3, <2>4 DEF Freed
  <2>5. CASE \E t \in ConnStrings : db_conn[x] \in pools'[t]
    BY <1>1, <1>2, <1>3, <2>1, <2>2, <2>5, StringsAssumption
    DEF Freed, PoolOf, PoolInv, PoolsDisjoint
  <2> QED
    BY <2>4, <2>5
<1>13. LockedHeld'
  <2> SUFFICES ASSUME NEW e \in ConnIds, InPool(e)', res[e] = 1
               PROVE  \E x \in Databases : db_conn'[x] = e
    BY <1>3 DEF LockedHeld
  <2>1. PICK x \in Databases : db_conn[x] = e
    BY <1>9 DEF PoolInv, LockedHeld
  <2> QED
    BY <1>3, <1>9, <1>10, <2>1, NoneAssumption
<1> QED
  BY <1>1, <1>2, <1>3, <1>6, <1>7, <1>8, <1>11, <1>12, <1>13 DEF PoolInv

\* Most actions leave the pool's structure alone.
LEMMA PoolInvUnchanged ==
    ASSUME PoolInv, UNCHANGED <<pools, next_id, res, owner, db_conn>>
    PROVE  PoolInv'
BY DEF PoolInv, Fresh, PoolsDisjoint, PoolBounded, OwnerHolds, OwnString,
       LockedHeld, InPool, PoolOf, Freed

\* A step of d that takes no connection away from a transaction.
TransactionsKept ==
    \A e \in ConnIds : is_in_transaction[e] =>
        /\ InPool(e) => InPool(e)'
        /\ \A x \in Databases : db_conn[x] = e => db_conn'[x] = e

OpenSummary(d) ==
    /\ PoolTypeOK'
    /\ PoolInv'
    /\ NoForgottenTransaction'
    /\ TransactionsKept
    /\ \A e \in ConnIds : is_in_transaction'[e] => is_in_transaction[e]
    /\ \A x \in Databases \ {d} : db_conn'[x] \in {db_conn[x], None}

\* Acquiring a connection keeps the pool's invariant and every transaction.
LEMMA AcquireInv ==
    ASSUME TypeOK, PoolInv,
           NEW d \in Databases, NEW c \in ConnIds, Acquire(d, c)
    PROVE  /\ pools' \in [ConnStrings -> SUBSET ConnIds]
           /\ next_id' \in 0..(MaxId + 1)
           /\ last_stolen_conn_id' \in ConnIds \cup {-1}
           /\ res' \in [ConnIds -> {0, 1}]
           /\ owner' \in [ConnIds -> Databases \cup {None}]
           /\ db_conn' \in [Databases -> ConnIds \cup {None}]
           /\ PoolInv'
           /\ TransactionsKept
           /\ db_conn'[d] = c
           /\ \A x \in Databases \ {d} : db_conn'[x] \in {db_conn[x], None}
<1>1. CASE UNCHANGED <<pools, next_id, last_stolen_conn_id, res, owner, db_conn>>
           /\ db_conn[d] = c
  BY <1>1, PoolInvUnchanged DEF TypeOK, PoolTypeOK, TransactionsKept, InPool
<1>2. CASE db_conn[d] = None /\ GetConnection(d, c)
  <2> DEFINE s == connection_string[d]
  <2>1. GetSummary(d, c) /\ s \in ConnStrings
    BY <1>2, GetConnectionSummary, StringsAssumption
  <2>2. PoolInv'
    BY <1>2, GetConnectionPoolInv
  <2>3. TransactionsKept
    <3> SUFFICES ASSUME NEW e \in ConnIds, is_in_transaction[e]
                 PROVE  /\ InPool(e) => InPool(e)'
                        /\ \A x \in Databases : db_conn[x] = e => db_conn'[x] = e
      BY DEF TransactionsKept
    <3>1. InPool(e) => InPool(e)'
      BY <2>1 DEF GetSummary, InPool
    <3>2. ASSUME NEW x \in Databases, db_conn[x] = e
          PROVE  db_conn'[x] = e
      <4>1. x # d
        BY <1>2, <3>2, NoneAssumption
      <4>2. CASE db_conn'[x] # db_conn[x]
        <5>1. PICK f \in pools[s] :
                  /\ owner[f] = x
                  /\ f \notin pools'[s] \/ (f = c /\ ~is_in_transaction[c])
          BY <2>1, <4>1, <4>2 DEF GetSummary
        <5>2. f = e
          BY <2>1, <3>2, <5>1, NoneAssumption
          DEF PoolInv, OwnerHolds, InPool, TypeOK, PoolTypeOK
        <5> QED
          BY <2>1, <5>1, <5>2 DEF GetSummary
      <4> QED
        BY <3>2, <4>2
    <3> QED
      BY <3>1, <3>2
  <2> QED
    BY <1>2, <2>1, <2>2, <2>3, GetConnectionType DEF GetSummary
<1> QED
  BY <1>1, <1>2 DEF Acquire

\* open_connection that returns a new lock object.
LEMMA OpenNewInv ==
    ASSUME IInv, NEW d \in Databases, NEW c \in ConnIds, OpenNew(d, c)
    PROVE  OpenSummary(d) /\ db_conn'[d] = c
<1>1. PoolInv' /\ TransactionsKept /\ db_conn'[d] = c
      /\ \A x \in Databases \ {d} : db_conn'[x] \in {db_conn[x], None}
  BY AcquireInv DEF IInv, OpenNew
<1>2. PoolTypeOK'
  BY AcquireInv DEF IInv, OpenNew, PqOpenSucceeds, TypeOK, PoolTypeOK
<1>3. NoForgottenTransaction'
  BY DEF IInv, OpenNew, PqOpenSucceeds, TypeOK, PoolTypeOK, NoForgottenTransaction
<1>4. \A e \in ConnIds : is_in_transaction'[e] => is_in_transaction[e]
  BY DEF IInv, OpenNew, PqOpenSucceeds, TypeOK, PoolTypeOK
<1> QED
  BY <1>1, <1>2, <1>3, <1>4 DEF OpenSummary

\* open_connection that throws, with or without a connection assigned.
LEMMA OpenThrowsInv ==
    ASSUME IInv, NEW d \in Databases, OpenThrows(d)
    PROVE  OpenSummary(d)
<1>1. ASSUME NEW c \in ConnIds, Acquire(d, c),
             running' = [running EXCEPT ![c] = 0], PqOpenFails(c)
      PROVE  OpenSummary(d)
  <2>1. PoolInv' /\ TransactionsKept
        /\ \A x \in Databases \ {d} : db_conn'[x] \in {db_conn[x], None}
    BY <1>1, AcquireInv DEF IInv
  <2>2. PoolTypeOK'
    BY <1>1, AcquireInv DEF IInv, PqOpenFails, TypeOK, PoolTypeOK
  <2>3. NoForgottenTransaction'
    BY <1>1 DEF IInv, PqOpenFails, TypeOK, PoolTypeOK, NoForgottenTransaction
  <2>4. \A e \in ConnIds : is_in_transaction'[e] => is_in_transaction[e]
    BY <1>1 DEF IInv, PqOpenFails, TypeOK, PoolTypeOK
  <2> QED
    BY <2>1, <2>2, <2>3, <2>4 DEF OpenSummary
<1>2. ASSUME db_conn[d] = None, GetConnectionFails(d),
             UNCHANGED <<running, link, is_in_transaction, session_tx>>
      PROVE  OpenSummary(d)
  <2> DEFINE s == connection_string[d]
  <2>1. PoolInv'
    BY <1>2, FailsPoolInv DEF IInv
  <2>2. PoolTypeOK'
    BY <1>2, FailsPoolInv DEF IInv, TypeOK, PoolTypeOK, GetConnectionFails
  <2>3. NoForgottenTransaction'
    BY <1>2 DEF IInv, NoForgottenTransaction
  <2>4. s \in ConnStrings /\ pools' = [pools EXCEPT ![s] = Live(s)]
        /\ db_conn' = [x \in Databases |->
                         IF x \in Evicted(s) THEN None ELSE db_conn[x]]
    BY <1>2, StringsAssumption DEF GetConnectionFails
  <2>5. TransactionsKept
    <3> SUFFICES ASSUME NEW e \in ConnIds, is_in_transaction[e]
                 PROVE  /\ InPool(e) => InPool(e)'
                        /\ \A x \in Databases : db_conn[x] = e => db_conn'[x] = e
      BY DEF TransactionsKept
    <3>1. e \notin Dead(s)
      BY DEF Dead, IsDead
    <3>2. InPool(e) => InPool(e)'
      BY <2>4, <3>1 DEF InPool, Live, IInv, TypeOK, PoolTypeOK
    <3>3. ASSUME NEW x \in Databases, db_conn[x] = e
          PROVE  x \notin Evicted(s)
      <4> SUFFICES ASSUME NEW f \in Dead(s), owner[f] = x
                   PROVE  FALSE
        BY DEF Evicted
      <4>1. f \in pools[s] /\ f \in ConnIds
        BY <2>4 DEF Dead, IInv, TypeOK, PoolTypeOK
      <4>2. db_conn[x] = f
        BY <2>4, <4>1, NoneAssumption DEF IInv, PoolInv, OwnerHolds, InPool
      <4> QED
        BY <3>1, <3>3, <4>2
    <3> QED
      BY <2>4, <3>2, <3>3
  <2> QED
    BY <1>2, <2>1, <2>2, <2>3, <2>4, <2>5 DEF OpenSummary
<1> QED
  BY <1>1, <1>2 DEF OpenThrows

\* A transaction stays locked when its connection, its database and the lock
\* object of that database stay.
LEMMA TransactionLockedKept ==
    ASSUME TransactionLocked, TransactionsKept,
           \A e \in ConnIds : is_in_transaction'[e] => is_in_transaction[e],
           \A x \in Databases : db_lock[x] # None => db_lock'[x] = db_lock[x]
    PROVE  TransactionLocked'
<1> SUFFICES ASSUME NEW e \in ConnIds, is_in_transaction'[e]
             PROVE  /\ InPool(e)'
                    /\ \E x \in Databases : db_conn'[x] = e /\ db_lock'[x] = e
  BY DEF TransactionLocked
<1>1. InPool(e) /\ \E x \in Databases : db_conn[x] = e /\ db_lock[x] = e
  BY DEF TransactionLocked
<1>2. PICK x \in Databases : db_conn[x] = e /\ db_lock[x] = e
  BY <1>1
<1>3. db_conn'[x] = e /\ InPool(e)'
  BY <1>1, <1>2 DEF TransactionsKept
<1>4. db_lock'[x] = e
  BY <1>2, NoneAssumption
<1> QED
  BY <1>2, <1>3, <1>4

\* What the callers of open_connection do with what it returns: _lock is
\* assigned only with the connection that d got.
OpenReturns(d) ==
    /\ phase[d] \in {"idle", "exec_begin"}
    /\ phase' \in [Databases -> Phases]
    /\ phase'[d] \in {"idle", "query", "begin"}
    /\ phase'[d] = "begin" => db_lock'[d] # None
    /\ db_lock' \in [Databases -> ConnIds \cup {None}]
    /\ db_lock[d] = None
    /\ db_lock'[d] \in {None, db_conn'[d]}
    /\ \A x \in Databases \ {d} : phase'[x] = phase[x] /\ db_lock'[x] = db_lock[x]
    /\ op_lock' \in [Databases -> ConnIds \cup {None}]
    /\ local_trans' \in [Databases -> BOOLEAN]
    /\ UNCHANGED fault

\* Such a call keeps the invariant.
LEMMA OpenInv ==
    ASSUME IInv, NEW d \in Databases, OpenSummary(d), OpenReturns(d)
    PROVE  IInv'
<1>1. TypeOK'
  BY DEF IInv, TypeOK, OpenSummary, OpenReturns
<1>2. LockMatches'
  BY DEF IInv, LockMatches, OpenSummary, OpenReturns
<1>3. PhaseInv'
  BY DEF IInv, PhaseInv, OpenSummary, OpenReturns
<1>4. \A x \in Databases : db_lock[x] # None => db_lock'[x] = db_lock[x]
  BY DEF OpenReturns
<1>5. TransactionLocked'
  BY <1>4, TransactionLockedKept DEF IInv, OpenSummary
<1> QED
  BY <1>1, <1>2, <1>3, <1>5 DEF IInv, OpenSummary

\* Steps that change neither the pool nor the links.
LEMMA LocalStepInv ==
    ASSUME IInv, TypeOK', PhaseInv',
           UNCHANGED <<pools, next_id, res, owner, db_conn, db_lock,
                       is_in_transaction, session_tx, link>>
    PROVE  IInv'
<1>1. PoolInv'
  BY PoolInvUnchanged DEF IInv
<1>2. LockMatches' /\ NoForgottenTransaction'
  BY DEF IInv, LockMatches, NoForgottenTransaction
<1>3. TransactionLocked'
  BY DEF IInv, TransactionLocked, InPool
<1> QED
  BY <1>1, <1>2, <1>3 DEF IInv

\* The start of execute, query and the rest keeps the invariant.
LEMMA QueryInv ==
    ASSUME IInv, NEW d \in Databases, Query(d)
    PROVE  IInv'
<1>1. CASE OpenShared(d) /\ Enter(d, "query") /\ UNCHANGED op_lock
  <2>1. TypeOK' /\ PhaseInv'
    BY <1>1 DEF IInv, Query, OpenShared, Enter, TypeOK, PoolTypeOK, PhaseInv,
                Phases, poolVars
  <2> QED
    BY <1>1, <2>1, LocalStepInv DEF Query, OpenShared, poolVars
<1>2. ASSUME NEW c \in ConnIds, OpenNew(d, c), Enter(d, "query"),
             op_lock' = [op_lock EXCEPT ![d] = c]
      PROVE  IInv'
  <2>1. OpenSummary(d)
    BY <1>2, OpenNewInv
  <2>2. OpenReturns(d)
    BY <1>2 DEF IInv, TypeOK, Query, Enter, Phases, OpenNew, OpenReturns
  <2> QED
    BY <2>1, <2>2, OpenInv
<1>3. CASE OpenThrows(d) /\ UNCHANGED <<phase, op_lock>>
  <2>1. OpenSummary(d)
    BY <1>3, OpenThrowsInv
  <2>2. OpenReturns(d)
    BY <1>3 DEF IInv, TypeOK, Query, OpenThrows, OpenReturns
  <2> QED
    BY <2>1, <2>2, OpenInv
<1> QED
  BY <1>1, <1>2, <1>3 DEF Query

\* The start of begin() keeps the invariant.
LEMMA BeginOpenInv ==
    ASSUME IInv, NEW d \in Databases, BeginOpen(d)
    PROVE  IInv'
<1>1. CASE OpenShared(d) /\ Enter(d, "begin") /\ UNCHANGED <<db_lock, local_trans>>
  <2>1. TypeOK' /\ PhaseInv'
    BY <1>1 DEF IInv, BeginOpen, OpenShared, Enter, TypeOK, PoolTypeOK, PhaseInv,
                Phases, poolVars
  <2> QED
    BY <1>1, <2>1, LocalStepInv DEF BeginOpen, OpenShared, poolVars
<1>2. ASSUME NEW c \in ConnIds, OpenNew(d, c), Enter(d, "begin"),
             db_lock' = [db_lock EXCEPT ![d] = c], UNCHANGED local_trans
      PROVE  IInv'
  <2>1. OpenSummary(d) /\ db_conn'[d] = c
    BY <1>2, OpenNewInv
  <2>2. OpenReturns(d)
    BY <1>2, <2>1, NoneAssumption
    DEF IInv, TypeOK, BeginOpen, Enter, Phases, OpenNew, OpenReturns
  <2> QED
    BY <2>1, <2>2, OpenInv
<1>3. CASE /\ OpenThrows(d) /\ Enter(d, "idle")
           /\ local_trans' = [local_trans EXCEPT ![d] = FALSE]
           /\ UNCHANGED db_lock
  <2>1. OpenSummary(d)
    BY <1>3, OpenThrowsInv
  <2>2. OpenReturns(d)
    BY <1>3 DEF IInv, TypeOK, BeginOpen, Enter, Phases, OpenThrows, OpenReturns
  <2> QED
    BY <2>1, <2>2, OpenInv
<1> QED
  BY <1>1, <1>2, <1>3 DEF BeginOpen

\* A connection that can be dereferenced is in the pool of its database.
LEMMA UsableInPool ==
    ASSUME TypeOK, PoolInv, NEW d \in Databases, Usable(d)
    PROVE  db_conn[d] \in ConnIds /\ InPool(db_conn[d])
BY StringsAssumption
DEF Usable, Freed, PoolInv, OwnString, PoolOf, InPool, TypeOK, PoolTypeOK

\* A successful BEGIN keeps the invariant: _lock is assigned before it.
LEMMA BeginTransactionInv ==
    ASSUME IInv, NEW d \in Databases, BeginTransaction(d)
    PROVE  IInv'
<1> DEFINE c == db_conn[d]
<1>1. c \in ConnIds /\ InPool(c)
  BY UsableInPool DEF IInv, BeginTransaction
<1>2. db_lock[d] = c
  BY <1>1, NoneAssumption DEF IInv, PhaseInv, LockMatches, BeginTransaction
<1>3. PoolInv'
  BY PoolInvUnchanged DEF IInv, BeginTransaction
<1>4. TypeOK'
  BY <1>1 DEF IInv, BeginTransaction, TypeOK, PoolTypeOK, Enter, Phases
<1>5. LockMatches' /\ PhaseInv'
  BY DEF IInv, BeginTransaction, LockMatches, PhaseInv, TypeOK, Enter
<1>6. TransactionLocked'
  BY <1>1, <1>2 DEF IInv, BeginTransaction, TransactionLocked, InPool, TypeOK,
                    PoolTypeOK
<1>7. NoForgottenTransaction'
  BY <1>1 DEF IInv, BeginTransaction, NoForgottenTransaction, TypeOK, PoolTypeOK
<1> QED
  BY <1>3, <1>4, <1>5, <1>6, <1>7 DEF IInv

\* A begin() that fails keeps the invariant.
LEMMA BeginThrowsInv ==
    ASSUME IInv, NEW d \in Databases, BeginThrows(d)
    PROVE  IInv'
<1> DEFINE c == db_conn[d]
<1>1. c \in ConnIds
  BY UsableInPool DEF IInv, BeginThrows
<1>2. PoolInv'
  BY PoolInvUnchanged DEF IInv, BeginThrows
<1>3. TypeOK'
  <2>1. /\ link' \in [ConnIds -> {"null", "ok", "bad"}]
        /\ is_in_transaction' \in [ConnIds -> BOOLEAN]
        /\ session_tx' \in [ConnIds -> BOOLEAN]
    BY <1>1 DEF IInv, BeginThrows, PqOpenFails, TypeOK, PoolTypeOK
  <2>2. phase' \in [Databases -> Phases] /\ local_trans' \in [Databases -> BOOLEAN]
    BY DEF IInv, BeginThrows, TypeOK, Enter, Phases
  <2> QED
    BY <2>1, <2>2 DEF IInv, BeginThrows, TypeOK, PoolTypeOK
<1>4. LockMatches' /\ PhaseInv'
  BY DEF IInv, BeginThrows, LockMatches, PhaseInv, TypeOK, Enter
<1>5. \A e \in ConnIds : is_in_transaction'[e] => is_in_transaction[e]
  BY <1>1 DEF IInv, BeginThrows, PqOpenFails, TypeOK, PoolTypeOK
<1>6. TransactionLocked'
  BY <1>5 DEF IInv, BeginThrows, TransactionLocked, InPool
<1>7. NoForgottenTransaction'
  BY <1>1 DEF IInv, BeginThrows, PqOpenFails, NoForgottenTransaction, TypeOK,
              PoolTypeOK
<1> QED
  BY <1>2, <1>3, <1>4, <1>6, <1>7 DEF IInv

\* The end of a transaction, successful or not.
LEMMA EndInv ==
    ASSUME IInv, NEW d \in Databases, Usable(d),
           TransactionEnds(d) \/ EndThrows(d) \/ CommitRefused(d)
    PROVE  /\ is_in_transaction' \in [ConnIds -> BOOLEAN]
           /\ session_tx' \in [ConnIds -> BOOLEAN]
           /\ running' \in [ConnIds -> {0, 1, 2}]
           /\ db_lock' \in [Databases -> ConnIds \cup {None}]
           /\ \A x \in Databases : db_lock'[x] \in {None, db_lock[x]}
           /\ \A x \in Databases \ {d} : db_lock'[x] = db_lock[x]
           /\ \A e \in ConnIds :
                  /\ is_in_transaction'[e] => is_in_transaction[e]
                  /\ is_in_transaction'[e] /\ e = db_conn[d] => db_lock'[d] = db_lock[d]
                  /\ session_tx'[e] => session_tx[e] /\ is_in_transaction'[e]
<1>1. db_conn[d] \in ConnIds
  BY UsableInPool DEF IInv
<1>2. CASE TransactionEnds(d)
  BY <1>1, <1>2 DEF IInv, TypeOK, PoolTypeOK, TransactionEnds, LockDestroyed,
                    NoForgottenTransaction
<1>3. CASE EndThrows(d)
  BY <1>3 DEF IInv, TypeOK, PoolTypeOK, EndThrows, NoForgottenTransaction
<1>4. CASE CommitRefused(d)
  BY <1>1, <1>4 DEF IInv, TypeOK, PoolTypeOK, CommitRefused, NoForgottenTransaction
<1> QED
  BY <1>2, <1>3, <1>4

\* The invariant after such an end, with the rest of the state as commit,
\* rollback and exec_queries leave it.
LEMMA EndStepInv ==
    ASSUME IInv, NEW d \in Databases, Usable(d),
           TransactionEnds(d) \/ EndThrows(d) \/ CommitRefused(d),
           phase[d] \in {"idle", "exec"}, Enter(d, "idle"),
           local_trans' \in [Databases -> BOOLEAN],
           UNCHANGED <<pools, next_id, last_stolen_conn_id, res, owner, link,
                       db_conn, op_lock, fault>>
    PROVE  IInv'
<1>1. PoolInv'
  BY PoolInvUnchanged DEF IInv
<1>2. TypeOK'
  BY EndInv DEF IInv, TypeOK, PoolTypeOK, Enter, Phases
<1>3. LockMatches'
  BY EndInv DEF IInv, LockMatches
<1>4. PhaseInv'
  BY EndInv DEF IInv, PhaseInv, Enter, TypeOK
<1>5. TransactionLocked'
  <2> SUFFICES ASSUME NEW e \in ConnIds, is_in_transaction'[e]
               PROVE  InPool(e) /\ \E x \in Databases : db_conn[x] = e /\ db_lock'[x] = e
    BY DEF TransactionLocked, InPool
  <2>1. InPool(e) /\ \E x \in Databases : db_conn[x] = e /\ db_lock[x] = e
    BY EndInv DEF IInv, TransactionLocked
  <2>2. PICK x \in Databases : db_conn[x] = e /\ db_lock[x] = e
    BY <2>1
  <2>3. db_lock'[x] = db_lock[x]
    BY <2>2, EndInv
  <2> QED
    BY <2>1, <2>2, <2>3
<1>6. NoForgottenTransaction'
  BY EndInv DEF IInv, NoForgottenTransaction
<1> QED
  BY <1>1, <1>2, <1>3, <1>4, <1>5, <1>6 DEF IInv

\* commit, rollback and the end of exec_queries keep the invariant.
LEMMA CommitInv ==
    ASSUME IInv, NEW d \in Databases, Commit(d) \/ Rollback(d) \/ ExecEnd(d)
    PROVE  IInv'
<1>1. CASE Commit(d) \/ Rollback(d)
  <2>1. Enter(d, "idle") /\ local_trans' \in [Databases -> BOOLEAN]
    BY <1>1 DEF Commit, Rollback, Enter, IInv, TypeOK
  <2> QED
    BY <1>1, <2>1, EndStepInv DEF Commit, Rollback
<1>2. CASE ExecEnd(d) /\ local_trans[d]
  <2>1. local_trans' \in [Databases -> BOOLEAN]
    BY <1>2 DEF ExecEnd, IInv, TypeOK
  <2> QED
    BY <1>2, <2>1, EndStepInv DEF ExecEnd
<1>3. CASE ExecEnd(d) /\ ~local_trans[d]
  <2>1. TypeOK' /\ PhaseInv'
    BY <1>3 DEF IInv, ExecEnd, Enter, TypeOK, PoolTypeOK, PhaseInv, Phases
  <2> QED
    BY <1>3, <2>1, LocalStepInv DEF ExecEnd
<1> QED
  BY <1>1, <1>2, <1>3

\* The steps that only move the thread of d on.
LEMMA MoveInv ==
    ASSUME IInv, NEW d \in Databases,
           QueryRun(d) \/ ExecQueries(d) \/ ExecThrows(d) \/ Open(d)
             \/ DerefNull(d) \/ DerefFreed(d) \/ DataRace(d)
    PROVE  IInv'
<1>1. TypeOK'
  BY DEF IInv, TypeOK, PoolTypeOK, QueryRun, ExecQueries, ExecThrows, Open,
         DerefNull, DerefFreed, DataRace, Enter, Phases, Faults, poolVars
<1>2. PhaseInv'
  BY DEF IInv, TypeOK, PhaseInv, QueryRun, ExecQueries, ExecThrows, Open,
         DerefNull, DerefFreed, DataRace, Enter, poolVars
<1> QED
  BY <1>1, <1>2, LocalStepInv
  DEF QueryRun, ExecQueries, ExecThrows, Open, DerefNull, DerefFreed, DataRace,
      poolVars

\* The end of a query destroys the lock object.
LEMMA QueryEndInv ==
    ASSUME IInv, NEW d \in Databases, QueryEnd(d)
    PROVE  IInv'
<1>1. TypeOK'
  BY DEF IInv, TypeOK, PoolTypeOK, QueryEnd, LockDestroyed, Enter, Phases
<1>2. PhaseInv'
  BY DEF IInv, TypeOK, PhaseInv, QueryEnd, Enter
<1> QED
  BY <1>1, <1>2, LocalStepInv DEF QueryEnd

\* The members of a destroyed database are destroyed after close().
LEMMA DestroyMembersInv ==
    ASSUME IInv, NEW d \in Databases, DestroyMembers(d)
    PROVE  IInv'
<1>1. TypeOK'
  BY DEF IInv, TypeOK, PoolTypeOK, DestroyMembers, LockDestroyed, Enter, Phases
<1>2. PhaseInv' /\ LockMatches'
  BY DEF IInv, TypeOK, PhaseInv, LockMatches, DestroyMembers, Enter
<1>3. PoolInv'
  BY PoolInvUnchanged DEF IInv, DestroyMembers
<1>4. TransactionLocked'
  <2>1. db_conn[d] = None
    BY DEF IInv, PhaseInv, DestroyMembers
  <2> QED
    BY <2>1, NoneAssumption
    DEF IInv, TypeOK, TransactionLocked, InPool, DestroyMembers
<1>5. NoForgottenTransaction'
  BY DEF IInv, NoForgottenTransaction, DestroyMembers
<1> QED
  BY <1>1, <1>2, <1>3, <1>4, <1>5 DEF IInv

\* A lost link ends the session's transaction.
LEMMA LinkLostInv ==
    ASSUME IInv, NEW c \in ConnIds, LinkLost(c)
    PROVE  IInv'
<1>1. TypeOK'
  BY DEF IInv, TypeOK, PoolTypeOK, LinkLost, opVars
<1>2. PhaseInv' /\ LockMatches'
  BY DEF IInv, PhaseInv, LockMatches, LinkLost, opVars
<1>3. PoolInv'
  BY PoolInvUnchanged DEF IInv, LinkLost
<1>4. TransactionLocked'
  BY DEF IInv, TransactionLocked, InPool, LinkLost, opVars
<1>5. NoForgottenTransaction'
  BY DEF IInv, TypeOK, PoolTypeOK, NoForgottenTransaction, LinkLost
<1> QED
  BY <1>1, <1>2, <1>3, <1>4, <1>5 DEF IInv

\* release() and the reset of _conn; the lock object of d survives.
LEMMA ReleaseInv ==
    ASSUME IInv, NEW d \in Databases, Usable(d), Release(d, db_conn[d]),
           phase[d] = "idle",
           phase' = phase \/ Enter(d, "closing"),
           UNCHANGED <<db_lock, op_lock, local_trans, fault>>
    PROVE  IInv'
<1> DEFINE c == db_conn[d]
<1>1. c \in ConnIds /\ c # None
  BY UsableInPool DEF IInv, Usable
<1>2. /\ owner' = [owner EXCEPT ![c] = None]
      /\ res' = [res EXCEPT ![c] = 0]
      /\ db_conn' = [db_conn EXCEPT ![d] = None]
      /\ is_in_transaction' = [is_in_transaction EXCEPT ![c] = FALSE]
      /\ session_tx' = [session_tx EXCEPT ![c] = @ /\ ~is_in_transaction[c]]
      /\ UNCHANGED <<pools, next_id, link>>
  BY DEF Release
<1>3. /\ owner \in [ConnIds -> Databases \cup {None}]
      /\ res \in [ConnIds -> {0, 1}]
      /\ db_conn \in [Databases -> ConnIds \cup {None}]
      /\ is_in_transaction \in [ConnIds -> BOOLEAN]
      /\ session_tx \in [ConnIds -> BOOLEAN]
      /\ phase \in [Databases -> Phases]
  BY DEF IInv, TypeOK, PoolTypeOK
<1>4. TypeOK'
  BY <1>1 DEF IInv, TypeOK, PoolTypeOK, Release, Enter, Phases
<1>5. PoolInv'
  <2>1. Fresh' /\ PoolsDisjoint' /\ PoolBounded'
    BY <1>1, <1>2, <1>3 DEF IInv, PoolInv, Fresh, PoolsDisjoint, PoolBounded
  <2>2. OwnerHolds'
    BY <1>1, <1>2, <1>3, NoneAssumption DEF IInv, PoolInv, OwnerHolds, InPool
  <2>3. OwnString'
    BY <1>1, <1>2, <1>3 DEF IInv, PoolInv, OwnString, PoolOf, Freed
  <2>4. LockedHeld'
    BY <1>1, <1>2, <1>3, NoneAssumption DEF IInv, PoolInv, LockedHeld, InPool
  <2> QED
    BY <2>1, <2>2, <2>3, <2>4 DEF PoolInv
<1>6. LockMatches'
  BY <1>2, <1>3 DEF IInv, LockMatches
<1>7. PhaseInv'
  BY <1>2, <1>3 DEF IInv, PhaseInv, Enter
<1>8. TransactionLocked'
  BY <1>1, <1>2, <1>3, NoneAssumption DEF IInv, TransactionLocked, InPool
<1>9. NoForgottenTransaction'
  BY <1>1, <1>2, <1>3 DEF IInv, NoForgottenTransaction
<1> QED
  BY <1>4, <1>5, <1>6, <1>7, <1>8, <1>9 DEF IInv

\* release() whose ROLLBACK fails only drops _owner.
LEMMA ReleaseThrowsInv ==
    ASSUME IInv, NEW d \in Databases, Usable(d), ReleaseThrows(d, db_conn[d]),
           UNCHANGED <<phase, db_lock, op_lock, local_trans>>,
           fault' \in Faults
    PROVE  IInv'
<1>1. db_conn[d] \in ConnIds
  BY UsableInPool DEF IInv
<1>2. TypeOK'
  BY <1>1 DEF IInv, TypeOK, PoolTypeOK, ReleaseThrows
<1>3. PoolInv'
  BY <1>1 DEF IInv, TypeOK, PoolTypeOK, ReleaseThrows, PoolInv, Fresh,
              PoolsDisjoint, PoolBounded, OwnerHolds, OwnString, LockedHeld,
              InPool, PoolOf, Freed
<1>4. LockMatches' /\ PhaseInv' /\ NoForgottenTransaction'
  BY DEF IInv, LockMatches, PhaseInv, NoForgottenTransaction, ReleaseThrows
<1>5. TransactionLocked'
  BY DEF IInv, TransactionLocked, InPool, ReleaseThrows
<1> QED
  BY <1>2, <1>3, <1>4, <1>5 DEF IInv

\* close() and the body of ~database_t keep the invariant.
LEMMA CloseInv ==
    ASSUME IInv, NEW d \in Databases, Close(d) \/ Destroy(d)
    PROVE  IInv'
<1>1. CASE Close(d) /\ Release(d, db_conn[d])
  BY <1>1, ReleaseInv DEF Close, opVars
<1>2. CASE Close(d) /\ ReleaseThrows(d, db_conn[d])
  <2>1. fault' \in Faults
    BY <1>2 DEF Close, opVars, IInv, TypeOK
  <2> QED
    BY <1>2, <2>1, ReleaseThrowsInv DEF Close, opVars
<1>3. CASE Destroy(d) /\ db_conn[d] = None /\ Enter(d, "closing")
           /\ UNCHANGED <<poolVars, fault>>
  <2>1. TypeOK' /\ PhaseInv'
    BY <1>3 DEF IInv, Destroy, Enter, TypeOK, PoolTypeOK, PhaseInv, Phases, poolVars
  <2> QED
    BY <1>3, <2>1, LocalStepInv DEF Destroy, poolVars
<1>4. CASE Destroy(d) /\ Usable(d) /\ Release(d, db_conn[d])
           /\ Enter(d, "closing") /\ UNCHANGED fault
  BY <1>4, ReleaseInv DEF Destroy
<1>5. CASE Destroy(d) /\ Usable(d) /\ ReleaseThrows(d, db_conn[d])
           /\ fault' = "terminate" /\ UNCHANGED phase
  BY <1>5, ReleaseThrowsInv DEF Destroy, Faults
<1> QED
  BY <1>1, <1>2, <1>3, <1>4, <1>5 DEF Close, Destroy

\* The initial state, with an empty pool and idle databases.
LEMMA InitInv ==
    ASSUME Init
    PROVE  IInv
<1>1. TypeOK
  BY SizesAssumption DEF Init, PoolInit, TypeOK, PoolTypeOK, Phases, Faults, ConnIds
<1>2. PoolBounded
  BY FS_EmptySet, SizesAssumption DEF Init, PoolInit, PoolBounded
<1>3. PoolInv
  BY <1>2 DEF Init, PoolInit, PoolInv, Fresh, PoolsDisjoint, OwnerHolds,
              OwnString, LockedHeld, InPool
<1> QED
  BY <1>1, <1>3 DEF Init, PoolInit, IInv, LockMatches, PhaseInv,
                    TransactionLocked, NoForgottenTransaction

\* IInv is inductive: one case for every action of Next.
LEMMA StepInv ==
    ASSUME IInv, [Next]_vars
    PROVE  IInv'
<1>1. CASE UNCHANGED vars
  <2>1. TypeOK' /\ PhaseInv'
    BY <1>1 DEF IInv, TypeOK, PoolTypeOK, PhaseInv, vars, poolVars, opVars
  <2> QED
    BY <1>1, <2>1, LocalStepInv DEF vars, poolVars, opVars
<1>2. ASSUME NEW d \in Databases,
             \/ Query(d) \/ QueryRun(d) \/ QueryEnd(d)
             \/ BeginOpen(d) \/ BeginTransaction(d) \/ BeginThrows(d)
             \/ Commit(d) \/ Rollback(d)
             \/ ExecQueries(d) \/ ExecThrows(d) \/ ExecEnd(d)
             \/ Close(d) \/ Destroy(d) \/ DestroyMembers(d) \/ Open(d)
             \/ DerefNull(d) \/ DerefFreed(d) \/ DataRace(d)
      PROVE  IInv'
  BY <1>2, QueryInv, MoveInv, QueryEndInv, BeginOpenInv, BeginTransactionInv,
     BeginThrowsInv, CommitInv, CloseInv, DestroyMembersInv
<1>3. ASSUME NEW c \in ConnIds, LinkLost(c)
      PROVE  IInv'
  BY <1>3, LinkLostInv
<1> QED
  BY <1>1, <1>2, <1>3 DEF Next

\* The inductive invariant holds in every reachable state.
THEOREM Invariance == Spec => []IInv
<1>1. Init => IInv
  BY InitInv
<1>2. IInv /\ [Next]_vars => IInv'
  BY StepInv
<1> QED
  BY <1>1, <1>2, PTL DEF Spec

\* Every variable of the pool and of the databases keeps its type, ids within
\* MaxId: what open_connection, begin, commit, close and the rest assign.
THEOREM TypeCorrect == Spec => []TypeOK
<1>1. IInv => TypeOK
  BY DEF IInv
<1> QED
  BY <1>1, Invariance, PTL

\* _get_connection never exceeds _max_conn.
THEOREM PoolBoundedThm == Spec => []PoolBounded
<1>1. IInv => PoolBounded
  BY DEF IInv, PoolInv
<1> QED
  BY <1>1, Invariance, PTL

\* _owner is the inverse of _conn and never refers to a destroyed database_t.
THEOREM OwnerPointsBackThm == Spec => []OwnerPointsBack
<1>1. ASSUME IInv PROVE OwnerPointsBack
  BY <1>1, NoneAssumption
  DEF IInv, TypeOK, PoolTypeOK, PoolInv, OwnerHolds, PhaseInv, OwnerPointsBack
<1> QED
  BY <1>1, Invariance, PTL

\* No locked connection leaks.
THEOREM LockedHeldThm == Spec => []LockedHeld
<1>1. IInv => LockedHeld
  BY DEF IInv, PoolInv
<1> QED
  BY <1>1, Invariance, PTL

\* A connection in a transaction belongs to a database that holds its lock.
THEOREM TransactionLockedThm == Spec => []TransactionLocked
<1>1. IInv => TransactionLocked
  BY DEF IInv
<1> QED
  BY <1>1, Invariance, PTL

\* No server session has a transaction the library has forgotten.
THEOREM NoForgottenTransactionThm == Spec => []NoForgottenTransaction
<1>1. IInv => NoForgottenTransaction
  BY DEF IInv
<1> QED
  BY <1>1, Invariance, PTL

\* A database works on connections of its own connection string.
THEOREM OwnStringThm == Spec => []OwnString
<1>1. IInv => OwnString
  BY DEF IInv, PoolInv
<1> QED
  BY <1>1, Invariance, PTL

-----------------------------------------------------------------------------
(* A pool that the clean-up never touches                                  *)

\* With _max_conn at most KeepIdx + 1 no index exceeds KeepIdx.
LEMMA NothingDead ==
    ASSUME TypeOK, PoolBounded, MaxConn <= KeepIdx + 1, NEW s \in ConnStrings
    PROVE  Live(s) = pools[s]
<1> SUFFICES ASSUME NEW c \in pools[s]
             PROVE  ~(IndexOf(s, c) > KeepIdx)
  BY DEF Live, Dead
<1> DEFINE below == {e \in pools[s] : e < c}
<1>1. IsFiniteSet(pools[s]) /\ Cardinality(pools[s]) \in Nat
  BY PoolFinite
<1>2. c \in Int
  BY SizesAssumption DEF TypeOK, PoolTypeOK, ConnIds
<1>3. below \subseteq pools[s] \ {c}
  BY <1>2
<1>4. /\ IsFiniteSet(pools[s] \ {c})
      /\ Cardinality(pools[s] \ {c}) = Cardinality(pools[s]) - 1
  BY <1>1, FS_RemoveElement
<1>5. Cardinality(below) \in Nat /\ Cardinality(below) <= Cardinality(pools[s]) - 1
  <2>1. IsFiniteSet(below) /\ Cardinality(below) <= Cardinality(pools[s] \ {c})
    BY <1>3, <1>4, FS_Subset
  <2> QED
    BY <1>4, <2>1, FS_CardinalityType
<1>6. Cardinality(pools[s]) <= KeepIdx + 1
  BY <1>1, SizesAssumption DEF PoolBounded
<1> QED
  BY <1>1, <1>5, <1>6, SizesAssumption DEF IndexOf

\* Then what was allocated stays in the pool, whatever Acquire does.
LEMMA AcquireKeepsAll ==
    ASSUME IInv, MaxConn <= KeepIdx + 1, \A e \in ConnIds : ~Freed(e),
           NEW d \in Databases,
           \/ \E c \in ConnIds : Acquire(d, c)
           \/ GetConnectionFails(d)
    PROVE  \A e \in ConnIds : ~Freed(e)'
<1> DEFINE s == connection_string[d]
<1>1. /\ s \in ConnStrings /\ Live(s) = pools[s]
      /\ pools \in [ConnStrings -> SUBSET ConnIds]
      /\ next_id \in Int /\ \A e \in ConnIds : e \in Int
  BY NothingDead, StringsAssumption, SizesAssumption
  DEF IInv, PoolInv, TypeOK, PoolTypeOK, ConnIds
<1>2. \A e \in ConnIds : e < next_id => \E t \in ConnStrings : e \in pools[t]
  BY DEF Freed
<1>3. CASE GetConnectionFails(d)
  BY <1>1, <1>2, <1>3 DEF GetConnectionFails, Freed
<1>4. ASSUME NEW c \in ConnIds, Acquire(d, c)
      PROVE  \A e \in ConnIds : ~Freed(e)'
  <2>1. CASE UNCHANGED <<pools, next_id>>
    BY <2>1 DEF Freed
  <2>2. CASE GetConnection(d, c)
    <3>1. /\ \A t \in ConnStrings : pools[t] \subseteq pools'[t]
          /\ c \in pools'[s]
      BY <1>1, <2>2
      DEF GetConnection, CreateFirst, ReuseFree, CreateMore, Steal, FirstFree,
          FirstStealable
    <3>2. \A e \in ConnIds : e < next_id' => e < next_id \/ e = c
      BY <1>1, <2>2 DEF GetConnection, CreateFirst, ReuseFree, CreateMore, Steal
    <3> QED
      BY <1>1, <1>2, <3>1, <3>2 DEF Freed
  <2> QED
    BY <1>4, <2>1, <2>2 DEF Acquire
<1> QED
  BY <1>3, <1>4

\* A pool of at most KeepIdx + 1 connections never deletes one, so nothing is
\* used after it was deleted.
THEOREM NeverFreedThm == Spec => []NeverFreed
<1>1. Init => NeverFreed
  BY SizesAssumption DEF Init, PoolInit, NeverFreed, Freed, ConnIds
<1>2. ASSUME IInv, NeverFreed, [Next]_vars
      PROVE  NeverFreed'
  <2> SUFFICES ASSUME MaxConn <= KeepIdx + 1
               PROVE  (\A e \in ConnIds : ~Freed(e)') /\ fault' # "freed"
    BY DEF NeverFreed
  <2>1. (\A e \in ConnIds : ~Freed(e)) /\ fault # "freed"
    BY <1>2 DEF NeverFreed
  <2>2. CASE UNCHANGED <<pools, next_id>>
    <3>1. \A e \in ConnIds : ~Freed(e)'
      BY <2>1, <2>2 DEF Freed
    <3>2. \A d \in Databases : ~DerefFreed(d)
      BY <1>2, <2>1 DEF DerefFreed, IInv, TypeOK, PoolTypeOK
    <3>3. fault' # "freed"
      BY <1>2, <2>1, <3>2
      DEF Next, vars, opVars, Query, QueryRun, QueryEnd, BeginOpen,
          BeginTransaction, BeginThrows, Commit, Rollback, ExecQueries,
          ExecThrows, ExecEnd, Close, Destroy, DestroyMembers, Open, DerefNull,
          DataRace, LinkLost
    <3> QED
      BY <3>1, <3>3
  <2>3. ASSUME NEW d \in Databases, Query(d) \/ BeginOpen(d)
        PROVE  (\A e \in ConnIds : ~Freed(e)') /\ fault' # "freed"
    <3>1. fault' = fault
      BY <2>3 DEF Query, BeginOpen
    <3>2. \/ UNCHANGED <<pools, next_id>>
          \/ \E c \in ConnIds : Acquire(d, c)
          \/ GetConnectionFails(d)
      BY <2>3 DEF Query, BeginOpen, OpenShared, OpenNew, OpenThrows, poolVars
    <3>3. CASE UNCHANGED <<pools, next_id>>
      BY <2>1, <3>1, <3>3 DEF Freed
    <3>4. CASE (\E c \in ConnIds : Acquire(d, c)) \/ GetConnectionFails(d)
      BY <1>2, <2>1, <3>1, <3>4, AcquireKeepsAll
    <3> QED
      BY <3>2, <3>3, <3>4
  <2>4. \/ UNCHANGED <<pools, next_id>>
        \/ \E d \in Databases : Query(d) \/ BeginOpen(d)
    BY <1>2
    DEF Next, vars, poolVars, QueryRun, QueryEnd, BeginTransaction, BeginThrows,
        Commit, Rollback, ExecQueries, ExecThrows, ExecEnd, Close, Destroy,
        DestroyMembers, Open, DerefNull, DerefFreed, DataRace, LinkLost, Release,
        ReleaseThrows
  <2> QED
    BY <2>2, <2>3, <2>4
<1> QED
  BY <1>1, <1>2, Invariance, PTL DEF Spec

-----------------------------------------------------------------------------
(* Transactions and connections                                            *)

\* The connection of a database in a transaction is only taken away by the
\* release() of a close(), which rolls the transaction back.
THEOREM TransactionKeptThm == Spec => TransactionKept
<1> DEFINE Kept == \A d \in Databases, c \in ConnIds :
                      is_in_transaction[c] /\ db_conn[d] = c /\ db_conn'[d] # c
                        => ~is_in_transaction'[c] /\ ~session_tx'[c] /\ res'[c] = 0
<1>1. ASSUME IInv, [Next]_vars
      PROVE  [Kept]_vars
  <2>1. CASE UNCHANGED db_conn
    BY <2>1
  <2>2. ASSUME NEW x \in Databases, Query(x) \/ BeginOpen(x)
        PROVE  Kept
    <3>1. UNCHANGED db_conn \/ TransactionsKept
      BY <1>1, <2>2, OpenNewInv, OpenThrowsInv
      DEF Query, BeginOpen, OpenShared, OpenSummary, poolVars
    <3> QED
      BY <3>1 DEF TransactionsKept
  <2>3. ASSUME NEW x \in Databases, Usable(x), Release(x, db_conn[x])
        PROVE  Kept
    <3>1. db_conn[x] \in ConnIds
      BY <1>1, <2>3, UsableInPool DEF IInv
    <3> QED
      BY <1>1, <2>3, <3>1 DEF Release, IInv, TypeOK, PoolTypeOK
  <2>4. \/ UNCHANGED db_conn
        \/ \E x \in Databases : Query(x) \/ BeginOpen(x)
        \/ \E x \in Databases : Usable(x) /\ Release(x, db_conn[x])
    BY <1>1
    DEF Next, vars, poolVars, QueryRun, QueryEnd, BeginTransaction, BeginThrows,
        Commit, Rollback, ExecQueries, ExecThrows, ExecEnd, Close, Destroy,
        DestroyMembers, Open, DerefNull, DerefFreed, DataRace, LinkLost,
        ReleaseThrows
  <2> QED
    BY <2>1, <2>2, <2>3, <2>4
<1> QED
  BY <1>1, Invariance, PTL DEF Spec, TransactionKept

\* While no link is lost, ~database_t lets no exception out.
THEOREM DestructorSafeThm == Spec => []DestructorSafe
<1>1. Init => DestructorSafe
  BY DEF Init, PoolInit, DestructorSafe
<1>2. ASSUME IInv, DestructorSafe, [Next]_vars
      PROVE  DestructorSafe'
  <2> SUFFICES ASSUME Unreliable = {}
               PROVE  /\ fault' # "terminate"
                      /\ \A c \in ConnIds : is_in_transaction'[c] => link'[c] = "ok"
    BY DEF DestructorSafe
  <2>1. fault # "terminate"
        /\ \A c \in ConnIds : is_in_transaction[c] => link[c] = "ok"
    BY <1>2 DEF DestructorSafe
  <2>2. /\ is_in_transaction \in [ConnIds -> BOOLEAN]
        /\ link \in [ConnIds -> {"null", "ok", "bad"}]
        /\ \A d \in Databases : Usable(d) => db_conn[d] \in ConnIds
    BY <1>2, UsableInPool DEF IInv, TypeOK, PoolTypeOK
  <2>3. \A c \in ConnIds : PqOpenSucceeds(c) \/ PqOpenFails(c) =>
            \A e \in ConnIds : is_in_transaction'[e] => link'[e] = "ok"
    BY <2>1, <2>2 DEF PqOpenSucceeds, PqOpenFails
  <2>4. CASE UNCHANGED vars
    BY <2>1, <2>4 DEF vars, poolVars, opVars
  <2>5. ASSUME NEW d \in Databases, Query(d) \/ BeginOpen(d)
        PROVE  /\ fault' # "terminate"
               /\ \A c \in ConnIds : is_in_transaction'[c] => link'[c] = "ok"
    <3>1. \/ UNCHANGED <<is_in_transaction, link>>
          \/ \E c \in ConnIds : PqOpenSucceeds(c) \/ PqOpenFails(c)
      BY <2>5 DEF Query, BeginOpen, OpenShared, OpenNew, OpenThrows, poolVars
    <3>2. fault' = fault
      BY <2>5 DEF Query, BeginOpen
    <3> QED
      BY <2>1, <2>3, <3>1, <3>2
  <2>6. ASSUME NEW d \in Databases,
               BeginTransaction(d) \/ BeginThrows(d)
        PROVE  /\ fault' # "terminate"
               /\ \A c \in ConnIds : is_in_transaction'[c] => link'[c] = "ok"
    BY <2>1, <2>2, <2>3, <2>6 DEF BeginTransaction, BeginThrows
  <2>7. ASSUME NEW d \in Databases, Commit(d) \/ Rollback(d) \/ ExecEnd(d)
        PROVE  /\ fault' # "terminate"
               /\ \A c \in ConnIds : is_in_transaction'[c] => link'[c] = "ok"
    BY <2>1, <2>2, <2>7
    DEF Commit, Rollback, ExecEnd, TransactionEnds, EndThrows, CommitRefused
  <2>8. ASSUME NEW d \in Databases, Close(d) \/ Destroy(d)
        PROVE  /\ fault' # "terminate"
               /\ \A c \in ConnIds : is_in_transaction'[c] => link'[c] = "ok"
    <3>1. Usable(d) => ~ReleaseThrows(d, db_conn[d])
      BY <2>1, <2>2 DEF ReleaseThrows
    <3> QED
      BY <2>1, <2>2, <2>8, <3>1 DEF Close, Destroy, Release, opVars, poolVars
  <2>9. ASSUME NEW d \in Databases,
               \/ QueryRun(d) \/ QueryEnd(d) \/ ExecQueries(d) \/ ExecThrows(d)
               \/ DestroyMembers(d) \/ Open(d)
               \/ DerefNull(d) \/ DerefFreed(d) \/ DataRace(d)
        PROVE  /\ fault' # "terminate"
               /\ \A c \in ConnIds : is_in_transaction'[c] => link'[c] = "ok"
    BY <2>1, <2>9
    DEF QueryRun, QueryEnd, ExecQueries, ExecThrows, DestroyMembers, Open,
        DerefNull, DerefFreed, DataRace, poolVars
  <2>10. \A c \in ConnIds : ~LinkLost(c)
    BY DEF LinkLost
  <2> QED
    BY <1>2, <2>4, <2>5, <2>6, <2>7, <2>8, <2>9, <2>10 DEF Next
<1> QED
  BY <1>1, <1>2, Invariance, PTL DEF Spec

-----------------------------------------------------------------------------
(* One connection per string                                               *)

\* With _max_conn <= 1, _get_connection creates the only connection or steals
\* it: the two branches between find no room.
LEMMA SingleGet ==
    ASSUME TypeOK, MaxConn <= 1,
           NEW d \in Databases, NEW c \in ConnIds, GetConnection(d, c)
    PROVE  CreateFirst(d, c) \/ Steal(d, c)
<1> DEFINE s == connection_string[d]
<1>1. Live(s) # {} => ~(Cardinality(Live(s)) < MaxConn)
  <2>1. s \in ConnStrings /\ Live(s) \subseteq pools[s]
    BY StringsAssumption DEF Live
  <2>2. IsFiniteSet(Live(s))
    BY <2>1, PoolFinite, FS_Subset
  <2>3. Cardinality(Live(s)) \in Nat /\ (Cardinality(Live(s)) = 0 <=> Live(s) = {})
    BY <2>2, FS_CardinalityType, FS_EmptySet
  <2> QED
    BY <2>3, SizesAssumption
<1> QED
  BY <1>1 DEF GetConnection, ReuseFree, CreateMore

\* Acquiring the connection takes it from everybody else.
LEMMA SingleAcquire ==
    ASSUME IInv, SingleInv, SingleExclusive, MaxConn <= 1,
           NEW d \in Databases, NEW c \in ConnIds,
           db_lock[d] = None, Acquire(d, c)
    PROVE  /\ owner'[c] = d
           /\ db_conn'[d] = c
           /\ \A x \in Databases \ {d} :
                  db_conn'[x] # None =>
                      /\ db_conn'[x] = db_conn[x]
                      /\ db_conn[x] # c
                      /\ owner'[db_conn[x]] = owner[db_conn[x]]
<1>0. TypeOK /\ Fresh
  BY DEF IInv, PoolInv
<1>1. CASE db_conn[d] = c
           /\ UNCHANGED <<pools, next_id, last_stolen_conn_id, res, owner, db_conn>>
  BY <1>0, <1>1, NoneAssumption DEF SingleInv, SingleOwner, SingleExclusive
<1>2. CASE db_conn[d] = None /\ GetConnection(d, c)
  <2>1. CASE CreateFirst(d, c)
    BY <1>0, <2>1, SizesAssumption
    DEF CreateFirst, Assign, Fresh, TypeOK, PoolTypeOK
  <2>2. CASE Steal(d, c)
    <3>1. ~is_in_transaction[c]
      BY <2>2 DEF Steal, FirstStealable, CanBeStolen
    <3>2. \A x \in Databases : db_conn[x] = c => owner[c] = x
      BY <3>1, NoneAssumption DEF SingleInv, SingleOwner
    <3> QED
      BY <1>0, <2>2, <3>2 DEF Steal, Assign, TypeOK, PoolTypeOK
  <2> QED
    BY <1>0, <1>2, <2>1, <2>2, SingleGet
<1> QED
  BY <1>1, <1>2 DEF Acquire

\* open_connection, successful or not, keeps the single-connection invariant.
LEMMA SingleOpen ==
    ASSUME IInv, SingleInv, SingleExclusive, MaxConn <= 1,
           NEW d \in Databases, Query(d) \/ BeginOpen(d)
    PROVE  SingleInv' /\ SingleExclusive'
<1>0. TypeOK
  BY DEF IInv
<1>1. \A x \in Databases \ {d} : db_lock'[x] = db_lock[x]
  BY <1>0 DEF Query, BeginOpen, TypeOK
<1>2. CASE OpenShared(d)
  <2>1. UNCHANGED <<poolVars, db_lock>>
    BY <1>0, <1>2, NoneAssumption
    DEF OpenShared, OpenNew, OpenThrows, Query, BeginOpen, poolVars
  <2> QED
    BY <2>1 DEF SingleInv, SingleOwner, SingleExclusive, poolVars
<1>3. ASSUME NEW c \in ConnIds, db_lock[d] = None, Acquire(d, c),
             PqOpenSucceeds(c) \/ PqOpenFails(c)
      PROVE  SingleInv' /\ SingleExclusive'
  <2>1. /\ owner'[c] = d
        /\ db_conn'[d] = c
        /\ \A x \in Databases \ {d} :
               db_conn'[x] # None =>
                   /\ db_conn'[x] = db_conn[x]
                   /\ db_conn[x] # c
                   /\ owner'[db_conn[x]] = owner[db_conn[x]]
    BY <1>3, SingleAcquire
  <2>2. \A e \in ConnIds \ {c} :
            is_in_transaction'[e] = is_in_transaction[e] /\ link'[e] = link[e]
    BY <1>0, <1>3 DEF PqOpenSucceeds, PqOpenFails, TypeOK, PoolTypeOK
  <2>3. \A x \in Databases : db_conn[x] \in ConnIds \cup {None}
    BY <1>0 DEF TypeOK, PoolTypeOK
  <2>4. SingleInv'
    BY <1>1, <2>1, <2>2, <2>3 DEF SingleInv, SingleOwner
  <2>5. SingleExclusive'
    BY <2>1 DEF SingleExclusive, SingleInv, SingleOwner
  <2> QED
    BY <2>4, <2>5
<1>4. CASE db_conn[d] = None /\ GetConnectionFails(d)
           /\ UNCHANGED <<link, is_in_transaction, db_lock>>
  <2>1. /\ UNCHANGED owner
        /\ \A x \in Databases : db_conn'[x] \in {db_conn[x], None}
    BY <1>4 DEF GetConnectionFails
  <2> QED
    BY <1>4, <2>1 DEF SingleInv, SingleOwner, SingleExclusive
<1>5. \/ OpenShared(d)
      \/ \E c \in ConnIds :
             /\ db_lock[d] = None
             /\ Acquire(d, c)
             /\ PqOpenSucceeds(c) \/ PqOpenFails(c)
      \/ /\ db_conn[d] = None /\ GetConnectionFails(d)
         /\ UNCHANGED <<link, is_in_transaction, db_lock>>
  BY DEF Query, BeginOpen, OpenNew, OpenThrows
<1> QED
  BY <1>2, <1>3, <1>4, <1>5

\* A pool of one connection per string never lets two databases share it,
\* whatever is lost, thrown or stolen.
THEOREM SingleExclusiveThm == Spec => []SingleExclusive
<1>1. Init => SingleInv /\ SingleExclusive
  BY DEF Init, PoolInit, SingleInv, SingleOwner, SingleExclusive
<1>2. ASSUME IInv, SingleInv, SingleExclusive, [Next]_vars
      PROVE  SingleInv' /\ SingleExclusive'
  <2> SUFFICES ASSUME MaxConn <= 1
               PROVE  SingleInv' /\ SingleExclusive'
    BY DEF SingleInv, SingleOwner, SingleExclusive
  <2>0. /\ TypeOK
        /\ \A d \in Databases : SingleOwner(d)
        /\ \A d, e \in Databases :
               db_conn[d] # None /\ db_conn[d] = db_conn[e] => d = e
        /\ \A d \in Databases : Usable(d) => db_conn[d] \in ConnIds /\ db_conn[d] # None
    BY <1>2, UsableInPool, NoneAssumption
    DEF IInv, SingleInv, SingleExclusive, SingleOwner, Usable
  <2>1. CASE UNCHANGED <<db_conn, owner, is_in_transaction, link, db_lock>>
    BY <2>0, <2>1 DEF SingleInv, SingleExclusive, SingleOwner
  <2>2. ASSUME NEW d \in Databases, Query(d) \/ BeginOpen(d)
        PROVE  SingleInv' /\ SingleExclusive'
    BY <1>2, <2>2, SingleOpen
  <2>3. ASSUME NEW d \in Databases, BeginTransaction(d) \/ BeginThrows(d)
        PROVE  SingleInv' /\ SingleExclusive'
    BY <2>0, <2>3
    DEF BeginTransaction, BeginThrows, PqOpenFails, SingleInv, SingleExclusive,
        SingleOwner, TypeOK, PoolTypeOK
  <2>4. ASSUME NEW d \in Databases, Commit(d) \/ Rollback(d) \/ ExecEnd(d)
        PROVE  SingleInv' /\ SingleExclusive'
    BY <2>0, <2>4
    DEF Commit, Rollback, ExecEnd, TransactionEnds, EndThrows, CommitRefused,
        SingleInv, SingleExclusive, SingleOwner, TypeOK, PoolTypeOK
  <2>5. ASSUME NEW d \in Databases, Usable(d), Release(d, db_conn[d]),
               UNCHANGED db_lock
        PROVE  SingleInv' /\ SingleExclusive'
    BY <2>0, <2>5
    DEF Release, SingleInv, SingleExclusive, SingleOwner, TypeOK, PoolTypeOK
  <2>6. ASSUME NEW d \in Databases, Usable(d), ReleaseThrows(d, db_conn[d]),
               UNCHANGED db_lock
        PROVE  SingleInv' /\ SingleExclusive'
    <3>1. db_lock[d] = db_conn[d]
      BY <1>2, <2>0, <2>6 DEF ReleaseThrows, IInv, TransactionLocked
    <3> QED
      BY <2>0, <2>6, <3>1
      DEF ReleaseThrows, SingleInv, SingleExclusive, SingleOwner, TypeOK, PoolTypeOK
  <2>7. ASSUME NEW d \in Databases, DestroyMembers(d)
        PROVE  SingleInv' /\ SingleExclusive'
    <3>1. db_conn[d] = None
      BY <1>2, <2>7 DEF DestroyMembers, IInv, PhaseInv
    <3> QED
      BY <2>0, <2>7, <3>1
      DEF DestroyMembers, SingleInv, SingleExclusive, SingleOwner, TypeOK
  <2>8. ASSUME NEW c \in ConnIds, LinkLost(c)
        PROVE  SingleInv' /\ SingleExclusive'
    BY <2>0, <2>8
    DEF LinkLost, opVars, SingleInv, SingleExclusive, SingleOwner, TypeOK, PoolTypeOK
  <2>9. \/ UNCHANGED <<db_conn, owner, is_in_transaction, link, db_lock>>
        \/ \E d \in Databases :
               \/ Query(d) \/ BeginOpen(d) \/ BeginTransaction(d) \/ BeginThrows(d)
               \/ Commit(d) \/ Rollback(d) \/ ExecEnd(d) \/ DestroyMembers(d)
               \/ /\ Usable(d) /\ UNCHANGED db_lock
                  /\ Release(d, db_conn[d]) \/ ReleaseThrows(d, db_conn[d])
        \/ \E c \in ConnIds : LinkLost(c)
    BY <1>2
    DEF Next, vars, poolVars, opVars, QueryRun, QueryEnd, ExecQueries, ExecThrows,
        Close, Destroy, Open, DerefNull, DerefFreed, DataRace
  <2> QED
    BY <2>1, <2>2, <2>3, <2>4, <2>5, <2>6, <2>7, <2>8, <2>9
<1> QED
  BY <1>1, <1>2, Invariance, PTL DEF Spec

=============================================================================
