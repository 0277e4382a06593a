-------------------------- MODULE StatementsProofs --------------------------
(***************************************************************************)
(* Why prepared statements, readers, large objects and transactions on one  *)
(* connection keep out of each other's way: Me owns at most one connection, *)
(* a connection in a transaction is Me's and is not stolen, and a lock      *)
(* object that is forgotten has stopped the work it stands for.             *)
(***************************************************************************)
EXTENDS Statements, FiniteSetTheorems, TLAPS

Lock == (Conns \X Nat) \cup {NoLock}
PrepType == [name : Names \cup {None}, lock : Lock, gone : BOOLEAN]
ReaderType == [st : {"none", "new", "sent", "end"}, lock : Lock, conn : Conns \cup {None},
               left : Nat, cut : BOOLEAN]
LoType == [st : {"closed", "open"}, conn : Conns \cup {None}]
MidType == [op : {"none", "prepare", "deallocate", "drop", "lo"}, slot : Slots \cup {None},
            new : PrepType, exists : BOOLEAN]
STypes ==
    /\ owner \in [Conns -> Others \cup {Me, None}]
    /\ running \in [Conns -> {0, 1}]
    /\ in_tx \in [Conns -> BOOLEAN]
    /\ link = [c \in Conns |-> "up"]
    /\ tx \in [Conns -> {"none", "open", "failed"}]
    /\ names \in [Conns -> SUBSET Names]
    /\ job \in [Others -> Conns \cup {None}]
    /\ db_lock \in Lock
    /\ prep \in [Slots -> PrepType]
    /\ reader \in ReaderType
    /\ lo \in LoType
    /\ pend \in [Conns -> Nat \cup {NoRows}]
    /\ mid \in MidType
    /\ begun \in BOOLEAN /\ refused \in BOOLEAN

\* Me owns at most one connection, and every one that is in a transaction, by
\* its flag and so for the server; a flag that is left over was refused its
\* COMMIT.
SMine == \A c, d \in Conns : owner[c] = Me /\ owner[d] = Me => c = d
SInTx == \A c \in Conns : /\ in_tx[c] => owner[c] = Me
                          /\ tx[c] # "none" => in_tx[c]
SRefused == /\ \A c \in Conns : in_tx[c] => (refused <=> tx[c] = "none")
            /\ refused => \E c \in Conns : in_tx[c]

\* _lock is the lock object of the transaction's connection, until close().
NoneMine == \A c \in Conns : owner[c] # Me
SLocked == /\ (\E c \in Conns : in_tx[c]) => db_lock # NoLock
           /\ db_lock # NoLock => NoneMine \/ \E c \in Conns : in_tx[c] /\ db_lock[1] = c

\* The server's transaction is the program's or that of the open large object.
LoKeeps == lo.conn # None
SAccount == (\E c \in Conns : tx[c] # "none") <=> begun \/ LoKeeps
SLo == /\ LoKeeps => lo.conn \in Conns /\ owner[lo.conn] = Me
       /\ LoKeeps => lo.st = "open"

STransaction == SInTx /\ SRefused /\ SLocked /\ SAccount /\ SLo

\* The rows that the reader has not had are those that libpq still has.
SRows == /\ reader.st \in {"none", "new"} => reader.left = 0
         /\ reader.st = "sent" /\ ~reader.cut =>
                /\ reader.conn \in Conns /\ pend[reader.conn] # NoRows
                /\ reader.left = pend[reader.conn]
         /\ reader.st = "end" /\ ~reader.cut => reader.left = 0

\* Work has a lock object or another database's query behind it.
SWork == \A c \in Conns : running[c] # 0 =>
             (\E l \in Locks : l[1] = c) \/ (\E e \in Others : job[e] = c)

\* A prepared statement that nobody has deallocated is in some session, one
\* that prepare() has found to exist too.
SNamed == /\ \A i \in Slots : prep[i] # NoPrep /\ ~prep[i].gone =>
                 \E c \in Conns : prep[i].name \in names[c]
          /\ mid.op = "prepare" /\ mid.exists => \E c \in Conns : mid.new.name \in names[c]

\* A call between its steps knows its variable; only prepare() keeps a lock
\* object meanwhile.
SMid == /\ mid.op = "prepare" => mid.slot \in Slots /\ prep[mid.slot] = NoPrep /\ mid.new.name \in Names
        /\ mid.op = "drop" => mid.slot \in Slots /\ mid.new.name = prep[mid.slot].name
        /\ mid.op # "prepare" => mid.new.lock = NoLock

SInv == /\ STypes /\ SMine /\ STransaction
        /\ SRows /\ SWork /\ SNamed /\ SMid /\ DestructorThrows

(***************************************************************************)
(* Helpers.                                                                 *)
(***************************************************************************)
\* _conn is the connection that Me owns.
LEMMA ConnFacts ==
    ASSUME SMine
    PROVE  /\ \A c \in Conns : owner[c] = Me => _conn = c
           /\ _conn # None => _conn \in Conns /\ owner[_conn] = Me
           /\ (\A c \in Conns : owner[c] # Me) <=> _conn = None
<1>1. None \notin Conns
  BY SessionAssumption
<1>2. CASE \E c \in Conns : owner[c] = Me
  <2>1. _conn \in Conns /\ owner[_conn] = Me
    BY <1>2 DEF _conn, ConnOf
  <2> QED
    BY <1>1, <1>2, <2>1 DEF SMine
<1>3. CASE \A c \in Conns : owner[c] # Me
  BY <1>3 DEF _conn, ConnOf
<1> QED
  BY <1>2, <1>3

\* in_transaction, without _conn.
LEMMA InTransaction ==
    ASSUME SMine, SInTx
    PROVE  in_transaction <=> \E c \in Conns : in_tx[c]
  BY ConnFacts DEF in_transaction, SInTx

\* The members of Locks.
LEMMA LocksMembers ==
    /\ \A l : l \in Locks <=> /\ l # NoLock
                              /\ \/ l = db_lock \/ l = reader.lock \/ l = mid.new.lock
                                 \/ \E i \in Slots : l = prep[i].lock
    /\ \A l : l \in Locks' <=> /\ l # NoLock
                               /\ \/ l = db_lock' \/ l = reader'.lock \/ l = mid'.new.lock
                                  \/ \E i \in Slots : l = prep'[i].lock
  BY DEF Locks

\* A finite set with one more element.
LEMMA OneMore ==
    ASSUME NEW S, IsFiniteSet(S), NEW k \in Nat, Cardinality(S) <= k, NEW x
    PROVE  IsFiniteSet(S \cup {x}) /\ Cardinality(S \cup {x}) <= k + 1
<1>1. Cardinality(S) \in Nat
  BY FS_CardinalityType
<1>2. IsFiniteSet(S \cup {x})
      /\ (Cardinality(S \cup {x}) = Cardinality(S) \/ Cardinality(S \cup {x}) = Cardinality(S) + 1)
  BY FS_AddElement
<1> QED
  BY <1>1, <1>2

\* There are fewer lock objects than numbers for them.
LEMMA NewLockFacts ==
    ASSUME STypes, NEW c \in Conns
    PROVE  NewLock(c) \in Lock \ {NoLock} /\ NewLock(c)[1] = c
<1> DEFINE N == Cardinality(Slots) + 4
           F == [i \in Slots |-> prep[i].lock]
           A == {F[i] : i \in Slots}
           B == ((A \cup {reader.lock}) \cup {db_lock}) \cup {mid.new.lock}
<1>1. Cardinality(Slots) \in Nat /\ IsFiniteSet(Slots)
  BY StatementsAssumption, FS_CardinalityType
<1>2. IsFiniteSet(A) /\ Cardinality(A) \in Nat /\ Cardinality(A) <= Cardinality(Slots)
  <2>1. F \in Surjection(Slots, A)
    BY DEF Surjection
  <2> HIDE DEF F, A
  <2>2. IsFiniteSet(A) /\ Cardinality(A) <= Cardinality(Slots)
    BY <1>1, <2>1, FS_Surjection
  <2> QED
    BY <2>2, FS_CardinalityType
<1>3. Locks = B \ {NoLock}
  BY DEF Locks
<1> HIDE DEF A, F, N
<1>5. IsFiniteSet(B) /\ Cardinality(B) <= Cardinality(Slots) + 3
  <2> DEFINE n == Cardinality(Slots)
             A1 == A \cup {reader.lock}
             A2 == A1 \cup {db_lock}
  <2>1. n \in Nat /\ n + 1 \in Nat /\ n + 2 \in Nat /\ (n + 1) + 1 = n + 2 /\ (n + 2) + 1 = n + 3
    BY <1>1
  <2>2. IsFiniteSet(A) /\ Cardinality(A) <= n /\ B = A2 \cup {mid.new.lock}
    BY <1>2
  <2> HIDE DEF n, A, B
  <2>3. IsFiniteSet(A1) /\ Cardinality(A1) <= n + 1
    BY <2>1, <2>2, OneMore
  <2> HIDE DEF A1
  <2>4. IsFiniteSet(A2) /\ Cardinality(A2) <= n + 2
    BY <2>1, <2>3, OneMore
  <2> HIDE DEF A2
  <2>5. IsFiniteSet(A2 \cup {mid.new.lock}) /\ Cardinality(A2 \cup {mid.new.lock}) <= (n + 2) + 1
    BY <2>1, <2>4, OneMore
  <2> QED
    BY <2>1, <2>2, <2>5 DEF n
<1> HIDE DEF B
<1>6. IsFiniteSet(Locks) /\ Cardinality(Locks) \in Nat /\ Cardinality(Locks) <= Cardinality(Slots) + 3
  <2>1. Locks \in SUBSET B
    BY <1>3
  <2>2. IsFiniteSet(Locks) /\ Cardinality(Locks) <= Cardinality(B)
    BY <1>5, <2>1, FS_Subset
  <2>3. Cardinality(Locks) \in Nat /\ Cardinality(B) \in Nat
    BY <1>5, <2>2, FS_CardinalityType
  <2> QED
    BY <1>1, <1>5, <2>2, <2>3
<1>7. N \in Nat /\ Cardinality(1..N) = N /\ IsFiniteSet(1..N)
  <2>1. N \in Nat /\ N > 0
    BY <1>1 DEF N
  <2>2. IsFiniteSet(1..N) /\ Cardinality(1..N) = IF 1 > N THEN 0 ELSE N - 1 + 1
    BY <2>1, FS_Interval
  <2> QED
    BY <2>1, <2>2
<1>8. \E n \in 1..N : <<c, n>> \notin Locks
  <2> SUFFICES ASSUME \A n \in 1..N : <<c, n>> \in Locks PROVE FALSE
    OBVIOUS
  <2> DEFINE g == [n \in 1..N |-> <<c, n>>]
  <2>1. g \in [1..N -> Locks]
    OBVIOUS
  <2>2. PICK m, n \in 1..N : m # n /\ g[m] = g[n]
    <3>1. Cardinality(Locks) < Cardinality(1..N)
      BY <1>1, <1>6, <1>7 DEF N
    <3> HIDE DEF g
    <3> QED
      BY <1>6, <1>7, <2>1, <3>1, FS_PigeonHole
  <2> QED
    BY <2>2
<1>9. \E l \in {c} \X (1..Cardinality(Slots) + 4) : l \notin Locks
  BY <1>8 DEF N
<1>10. NewLock(c) \in {c} \X (1..Cardinality(Slots) + 4)
  BY <1>9 DEF NewLock
<1>11. 1..Cardinality(Slots) + 4 \subseteq Nat
  BY <1>1
<1>12. PICK n \in 1..Cardinality(Slots) + 4 : NewLock(c) = <<c, n>>
  BY <1>10
<1>13. <<c, n>> \in Conns \X Nat /\ <<c, n>> # <<>> /\ <<c, n>>[1] = c
  BY <1>11, <1>12
<1> QED
  BY <1>12, <1>13 DEF Lock, NoLock

\* The connection that open_connection() gives Me is the only one it owns
\* then; one in a transaction can only be that one, and is while _lock is set.
LEMMA OpensFacts ==
    ASSUME SInv, NEW c \in Conns, Opens(c)
    PROVE  /\ \A d \in Conns : owner[d] = Me \/ in_tx[d] => d = c
           /\ db_lock # NoLock => owner[c] = Me /\ in_tx[c] /\ db_lock[1] = c
<1>1. SMine /\ SInTx /\ SLocked
  BY DEF SInv, STransaction
<1>2. None \notin Conns
  BY SessionAssumption
<1>3. \A d \in Conns : owner[d] = Me \/ in_tx[d] => d = c
  <2>1. CASE _conn # None
    <3>1. c = _conn
      BY <2>1 DEF Opens, Gettable, _conn
    <3> QED
      BY <1>1, <3>1, ConnFacts DEF SInTx
  <2>2. CASE _conn = None
    BY <1>1, <2>2, ConnFacts DEF SInTx
  <2> QED
    BY <2>1, <2>2
<1>4. ASSUME db_lock # NoLock PROVE owner[c] = Me /\ in_tx[c] /\ db_lock[1] = c
  <2>1. c = _conn /\ c # None
    BY <1>4 DEF Opens
  <2>2. owner[c] = Me
    BY <1>1, <2>1, ConnFacts
  <2>3. PICK d \in Conns : in_tx[d] /\ db_lock[1] = d
    BY <1>1, <1>4, <2>2 DEF SLocked, NoneMine
  <2> QED
    BY <1>3, <2>2, <2>3
<1> QED
  BY <1>3, <1>4

\* So Me still owns one connection when it has taken it.
LEMMA TakenFacts ==
    ASSUME SInv, NEW c \in Conns, Opens(c), Taken(c)
    PROVE  /\ owner' \in [Conns -> Others \cup {Me, None}] /\ SMine'
           /\ owner'[c] = Me
           /\ \A d \in Conns : owner[d] = Me \/ in_tx[d] => d = c /\ owner'[d] = Me
           /\ db_lock # NoLock => UNCHANGED owner
<1>1. /\ \A d \in Conns : owner[d] = Me \/ in_tx[d] => d = c
      /\ db_lock # NoLock => owner[c] = Me
  BY OpensFacts
<1>2. owner \in [Conns -> Others \cup {Me, None}] /\ owner' = [owner EXCEPT ![c] = Me]
  BY DEF SInv, STypes, Taken
<1>3. db_lock # NoLock => UNCHANGED owner
  BY <1>1, <1>2
<1> QED
  BY <1>1, <1>2, <1>3 DEF SMine

\* The parts of SInv about the transaction, when no transaction begins or ends.
LEMMA SameTransaction ==
    ASSUME SInv, UNCHANGED <<in_tx, db_lock, begun, refused, lo>>,
           \A d \in Conns : owner[d] = Me => owner'[d] = Me,
           db_lock # NoLock /\ NoneMine => NoneMine',
           \A d \in Conns : tx'[d] = "none" <=> tx[d] = "none"
    PROVE  STransaction'
<1>1. SInTx /\ SRefused /\ SLocked /\ SAccount /\ SLo
  BY DEF SInv, STransaction
<1>2. SInTx'
  BY <1>1 DEF SInTx
<1>3. SLocked'
  BY <1>1 DEF SLocked
<1>4. SAccount'
  BY <1>1 DEF SAccount, LoKeeps
<1>5. SLo'
  BY <1>1 DEF SLo, LoKeeps
<1>6. SRefused'
  BY <1>1 DEF SRefused
<1> QED
  BY <1>2, <1>3, <1>4, <1>5, <1>6 DEF STransaction

\* What is cut off has no rows left.
LEMMA CutFacts ==
    ASSUME NEW r \in ReaderType
    PROVE  /\ Cut(r) \in ReaderType /\ Cut(r).st = r.st /\ Cut(r).lock = r.lock
           /\ Cut(r).cut /\ Cut(r).left = 0
  BY DEF Cut, ReaderType

\* PQexec: what was pending is gone, and the reader knows.
LEMMA DiscardsFacts ==
    ASSUME SInv, NEW c \in Conns, Discards(c)
    PROVE  /\ reader' \in ReaderType
           /\ pend' \in [Conns -> Nat \cup {NoRows}]
           /\ reader'.lock = reader.lock /\ SRows'
<1>1. /\ reader \in ReaderType
      /\ pend \in [Conns -> Nat \cup {NoRows}] /\ SRows
  BY DEF SInv, STypes
<1>2. pend' = [pend EXCEPT ![c] = NoRows]
  BY DEF Discards
<1>3. CASE pend[c] # NoRows /\ c = reader.conn
  <2>1. reader' = Cut(reader)
    BY <1>3 DEF Discards
  <2>2. /\ reader' \in ReaderType /\ reader'.lock = reader.lock
        /\ reader'.cut /\ reader'.left = 0
    BY <1>1, <2>1, CutFacts
  <2> QED
    BY <1>1, <1>2, <2>2 DEF SRows
<1>4. CASE ~(pend[c] # NoRows /\ c = reader.conn)
  <2>1. reader' = reader
    BY <1>4 DEF Discards
  <2>2. SRows'
    BY <1>1, <1>2, <1>4, <2>1 DEF SRows, ReaderType
  <2> QED
    BY <1>1, <1>2, <2>1, <2>2
<1> QED
  BY <1>3, <1>4

\* Work goes on being accounted for when a lock object is forgotten only with
\* the work of its connection.
LEMMA WorkAccounted ==
    ASSUME SInv,
           \A d \in Conns : running'[d] # 0 =>
               \/ running[d] # 0 /\ \A l \in Locks : l[1] = d => l \in Locks'
               \/ \E l \in Locks' : l[1] = d
               \/ \E e \in Others : job'[e] = d,
           \A e \in Others, d \in Conns : running'[d] # 0 /\ job[e] = d => job'[e] = d
    PROVE  SWork'
<1> SUFFICES ASSUME NEW c \in Conns, running'[c] # 0
             PROVE  (\E l \in Locks' : l[1] = c) \/ (\E e \in Others : job'[e] = c)
  BY DEF SWork
<1>1. CASE running[c] # 0 /\ \A l \in Locks : l[1] = c => l \in Locks'
  BY <1>1 DEF SInv, SWork
<1> QED
  BY <1>1

\* No lock object is forgotten.
LEMMA LocksKept ==
    ASSUME db_lock # NoLock => db_lock' = db_lock,
           reader.lock # NoLock => reader'.lock = reader.lock,
           mid.new.lock # NoLock => mid'.new.lock = mid.new.lock,
           \A i \in Slots : prep[i].lock # NoLock => prep'[i].lock = prep[i].lock
    PROVE  Locks \subseteq Locks'
  BY LocksMembers

\* The case in which no lock object is forgotten.
LEMMA WorkKept ==
    ASSUME SInv, Locks \subseteq Locks', UNCHANGED job,
           \A d \in Conns : running'[d] # 0 => running[d] # 0 \/ \E l \in Locks' : l[1] = d
    PROVE  SWork'
  BY WorkAccounted

\* The ends of lock objects stop what their connections do.
LEMMA WorkStopped ==
    ASSUME SInv, UNCHANGED job,
           \A d \in Conns : running'[d] = 0 \/ running'[d] = Stopped(Locks, Locks')[d]
    PROVE  SWork'
<1>1. ASSUME NEW d \in Conns, running'[d] # 0
      PROVE  running[d] # 0 /\ \A l \in Locks : l[1] = d => l \in Locks'
  <2>1. running'[d] = IF d \in {l[1] : l \in Locks \ Locks'} THEN 0 ELSE running[d]
    BY <1>1 DEF Stopped
  <2> QED
    BY <1>1, <2>1
<1> QED
  BY <1>1, WorkAccounted

\* Stopped sets some of running to 0.
LEMMA StoppedType ==
    ASSUME STypes, NEW x, NEW y PROVE Stopped(x, y) \in [Conns -> {0, 1}]
  BY DEF STypes, Stopped

\* Nothing changes but the ends of a call's lock object, when _lock is not set.
LEMMA AfterCallFacts ==
    ASSUME STypes, NEW c \in Conns, AfterCall(c)
    PROVE  running' \in [Conns -> {0, 1}] /\ \A d \in Conns : running'[d] # 0 => running[d] # 0
  BY DEF STypes, AfterCall

\* A lock object that is kept marks its connection as working.
LEMMA AndKeepsFacts ==
    ASSUME STypes, NEW c \in Conns, AndKeeps(c)
    PROVE  /\ running' \in [Conns -> {0, 1}]
           /\ \A d \in Conns : running'[d] # 0 => running[d] # 0 \/ (d = c /\ db_lock = NoLock)
  BY DEF STypes, AndKeeps

\* An error fails an open transaction and never ends or begins one.
LEMMA FailedFacts ==
    ASSUME STypes, NEW c \in Conns, Failed(c) \/ UNCHANGED tx
    PROVE  /\ tx' \in [Conns -> {"none", "open", "failed"}]
           /\ \A d \in Conns : tx'[d] = "none" <=> tx[d] = "none"
  BY DEF STypes, Failed

\* The lock object of a call is _lock, or a new one of its connection.
LEMMA LockOfFacts ==
    ASSUME STypes, NEW c \in Conns
    PROVE  /\ LockOf(c) \in Lock \ {NoLock}
           /\ db_lock = NoLock => LockOf(c)[1] = c
  BY NewLockFacts DEF STypes, LockOf

\* No step of the program that goes on ends the process.
LEMMA NoFault == ASSUME fault' = "none" PROVE DestructorThrows'
  BY DEF DestructorThrows

\* NoneMine lasts while _lock is set, if Me takes what open_connection() gives.
LEMMA StaysNone ==
    ASSUME SInv, NEW c \in Conns, Opens(c), Taken(c)
    PROVE  db_lock # NoLock /\ NoneMine => NoneMine'
  BY TakenFacts DEF NoneMine

\* A call that takes the connection, and neither begins nor ends a transaction.
LEMMA OpenStep ==
    ASSUME SInv, NEW c \in Conns, Opens(c), Taken(c),
           UNCHANGED <<in_tx, db_lock, begun, refused, link, job, lo>>, fault' = "none",
           Failed(c) \/ UNCHANGED tx,
           running' \in [Conns -> {0, 1}], names' \in [Conns -> SUBSET Names],
           prep' \in [Slots -> PrepType], reader' \in ReaderType, mid' \in MidType,
           pend' \in [Conns -> Nat \cup {NoRows}],
           SRows', SWork', SNamed', SMid'
    PROVE  SInv'
<1>1. /\ owner' \in [Conns -> Others \cup {Me, None}] /\ SMine'
      /\ \A d \in Conns : owner[d] = Me => owner'[d] = Me
  BY TakenFacts
<1>2. /\ tx' \in [Conns -> {"none", "open", "failed"}]
      /\ \A d \in Conns : tx'[d] = "none" <=> tx[d] = "none"
  BY FailedFacts DEF SInv
<1>3. db_lock # NoLock /\ NoneMine => NoneMine'
  BY StaysNone
<1>4. STransaction'
  BY <1>1, <1>2, <1>3, SameTransaction
<1>5. STypes'
  BY <1>1, <1>2 DEF SInv, STypes
<1>6. DestructorThrows'
  BY NoFault
<1> QED
  BY <1>1, <1>4, <1>5, <1>6 DEF SInv

\* Steps that leave owners, transactions, lock objects and prepared statements
\* alone, but may fail the transaction, stop work and read rows.
LEMMA LocalStep ==
    ASSUME SInv, fault' = "none",
           UNCHANGED <<owner, in_tx, db_lock, begun, refused, link, job, names, prep, lo>>,
           tx' \in [Conns -> {"none", "open", "failed"}],
           \A d \in Conns : tx'[d] = "none" <=> tx[d] = "none",
           running' \in [Conns -> {0, 1}], \A d \in Conns : running'[d] # 0 => running[d] # 0,
           reader' \in ReaderType, reader'.lock = reader.lock,
           pend' \in [Conns -> Nat \cup {NoRows}], SRows',
           mid' \in MidType, mid'.new.lock = mid.new.lock, SMid', SNamed'
    PROVE  SInv'
<1>1. /\ \A d \in Conns : owner[d] = Me => owner'[d] = Me
      /\ db_lock # NoLock /\ NoneMine => NoneMine'
  BY DEF NoneMine
<1>2. STransaction'
  BY <1>1, SameTransaction
<1>3. SWork'
  <2>1. Locks \subseteq Locks'
    BY LocksKept
  <2> QED
    BY <2>1, WorkKept
<1>4. SMine' /\ DestructorThrows'
  BY NoFault DEF SInv, SMine
<1>5. STypes'
  BY DEF SInv, STypes
<1> QED
  BY <1>2, <1>3, <1>4, <1>5 DEF SInv

\* What is said of a call between its steps, when there is none.
LEMMA MidFacts ==
    /\ NoPrep \in PrepType /\ NoPrep.lock = NoLock /\ NoPrep.name = None
    /\ NoCall \in MidType /\ NoCall.op = "none" /\ NoCall.new.lock = NoLock
  BY DEF MidType, NoCall, PrepType, NoPrep, Lock

\* SMid and the names, for a call that has returned.
LEMMA CallOver ==
    ASSUME SInv, mid' = NoCall PROVE mid' \in MidType /\ SMid' /\ mid'.op = "none" /\ mid'.new.lock = NoLock
<1>1. mid'.op = "none" /\ mid'.new.lock = NoLock /\ mid' \in MidType
  BY MidFacts
<1> QED
  BY <1>1 DEF SMid

\* The same if nothing of it changes.
LEMMA SameCall ==
    ASSUME SInv, UNCHANGED <<mid, prep, names>> PROVE mid' \in MidType /\ SMid' /\ SNamed'
  BY DEF SInv, STypes, SMid, SNamed

(***************************************************************************)
(* Every step keeps SInv.                                                   *)
(***************************************************************************)
\* Calls whose lock object is dead when they return, or let go.
LEMMA CallStep ==
    ASSUME SInv, fault = "none", NEW c \in Conns, Opens(c), AfterCall(c), Failed(c) \/ UNCHANGED tx,
           UNCHANGED <<in_tx, db_lock, begun, refused, link, job, lo, fault, names, prep, reader, pend>>,
           mid' \in MidType, mid.new.lock # NoLock => mid'.new.lock = mid.new.lock, SMid', SNamed'
    PROVE  SInv'
<1>1. running' \in [Conns -> {0, 1}] /\ \A d \in Conns : running'[d] # 0 => running[d] # 0
  BY AfterCallFacts DEF SInv
<1>2. SWork'
  <2>1. Locks \subseteq Locks'
    BY LocksKept
  <2> QED
    BY <1>1, <2>1, WorkKept
<1>3. SRows' /\ Taken(c)
  BY DEF SInv, SRows, AfterCall
<1>4. /\ names' \in [Conns -> SUBSET Names] /\ prep' \in [Slots -> PrepType]
      /\ reader' \in ReaderType /\ pend' \in [Conns -> Nat \cup {NoRows}]
  BY DEF SInv, STypes
<1> QED
  BY <1>1, <1>2, <1>3, <1>4, OpenStep

\* Queries, also of a prepared statement.
LEMMA QueryStep ==
    ASSUME SInv, fault = "none", NEW c \in Conns,
           Query(c) \/ \E i \in Slots : PreparedQuery(c, i)
    PROVE  SInv'
<1>1. /\ Opens(c) /\ AfterCall(c) /\ (Failed(c) \/ UNCHANGED tx)
      /\ UNCHANGED <<in_tx, db_lock, begun, refused, link, job, lo, fault, names, prep, reader, pend, mid>>
  BY DEF Query, PreparedQuery, rest, stmtVars
<1>2. mid' \in MidType /\ SMid' /\ SNamed'
  BY <1>1, SameCall
<1> QED
  BY <1>1, <1>2, CallStep

\* The first steps of deallocate_prepared, of the destructor and of the calls
\* on large objects.
LEMMA LetGoStep ==
    ASSUME SInv, fault = "none", mid = NoCall, NEW c \in Conns,
           \/ LoCall(c)
           \/ \E n \in Names : deallocate_prepared(c, n)
           \/ \E i \in Slots : DropDeallocating(c, i)
    PROVE  SInv'
<1>1. /\ Opens(c) /\ AfterCall(c)
      /\ UNCHANGED <<tx, in_tx, db_lock, begun, refused, link, job, lo, fault, names, prep, reader, pend>>
  BY DEF LoCall, deallocate_prepared, DropDeallocating, Quoted, rest
<1>2. mid.new.lock = NoLock
  BY MidFacts
<1>3. SNamed
  BY DEF SInv
<1>4. CASE LoCall(c)
  <2>1. mid' = [NoCall EXCEPT !.op = "lo"]
    BY <1>4 DEF LoCall
  <2>2. mid' \in MidType /\ mid'.op = "lo" /\ mid'.new.lock = NoLock
    BY <2>1, MidFacts DEF MidType, NoCall
  <2>3. SMid' /\ SNamed'
    BY <1>1, <1>3, <2>2 DEF SMid, SNamed
  <2> QED
    BY <1>1, <1>2, <2>2, <2>3, CallStep
<1>5. ASSUME NEW n \in Names, deallocate_prepared(c, n) PROVE SInv'
  <2>1. mid' = Deallocating("deallocate", None, n)
    BY <1>5 DEF deallocate_prepared
  <2>2. mid' \in MidType /\ mid'.op = "deallocate" /\ mid'.new.lock = NoLock
    BY <2>1, MidFacts DEF MidType, Deallocating, NoPrep, PrepType
  <2>3. SMid' /\ SNamed'
    BY <1>1, <1>3, <2>2 DEF SMid, SNamed
  <2> QED
    BY <1>1, <1>2, <2>2, <2>3, CallStep
<1>6. ASSUME NEW i \in Slots, DropDeallocating(c, i) PROVE SInv'
  <2>1. mid' = Deallocating("drop", i, prep[i].name)
    BY <1>6 DEF DropDeallocating
  <2>2. prep[i].name \in Names \cup {None}
    BY DEF SInv, STypes, PrepType
  <2>3. /\ mid' \in MidType /\ mid'.op = "drop" /\ mid'.new.lock = NoLock
        /\ mid'.slot = i /\ mid'.new.name = prep[i].name
    BY <2>1, <2>2, MidFacts DEF MidType, Deallocating, NoPrep, PrepType
  <2>4. SMid' /\ SNamed'
    BY <1>1, <1>3, <2>3 DEF SMid, SNamed
  <2> QED
    BY <1>1, <1>2, <2>3, <2>4, CallStep
<1> QED
  BY <1>4, <1>5, <1>6

\* A new reader keeps a lock object and has had no row.
LEMMA QueryReaderStep ==
    ASSUME SInv, fault = "none", NEW c \in Conns, query_reader(c) PROVE SInv'
<1>1. /\ reader = NoReader /\ Opens(c) /\ Taken(c) /\ AndKeeps(c)
      /\ reader' = [NoReader EXCEPT !.st = "new", !.lock = LockOf(c), !.conn = c]
      /\ UNCHANGED <<in_tx, db_lock, begun, refused, link, job, lo, fault, names, prep, pend, tx, mid>>
  BY DEF query_reader, rest, AndKeeps
<1>2. /\ running' \in [Conns -> {0, 1}]
      /\ \A d \in Conns : running'[d] # 0 => running[d] # 0 \/ (d = c /\ db_lock = NoLock)
  BY <1>1, AndKeepsFacts DEF SInv
<1>3. LockOf(c) \in Lock \ {NoLock} /\ (db_lock = NoLock => LockOf(c)[1] = c)
  BY LockOfFacts DEF SInv
<1>4. /\ reader' \in ReaderType /\ reader'.lock = LockOf(c) /\ reader.lock = NoLock
      /\ reader'.st = "new" /\ reader'.left = 0
  BY <1>1, <1>3 DEF ReaderType, NoReader
<1>5. SWork'
  <2>1. Locks \subseteq Locks'
    BY <1>1, <1>4, LocksKept
  <2>2. LockOf(c) \in Locks'
    BY <1>3, <1>4, LocksMembers
  <2> QED
    BY <1>1, <1>2, <1>3, <2>1, <2>2, WorkKept
<1>6. SRows'
  BY <1>4 DEF SRows
<1>7. mid' \in MidType /\ SMid' /\ SNamed'
  BY <1>1, SameCall
<1>8. /\ names' \in [Conns -> SUBSET Names] /\ prep' \in [Slots -> PrepType]
      /\ pend' \in [Conns -> Nat \cup {NoRows}]
  BY <1>1 DEF SInv, STypes
<1> QED
  BY <1>1, <1>2, <1>4, <1>5, <1>6, <1>7, <1>8, OpenStep

\* prepare(), up to the answer about the name.
LEMMA PrepareStep ==
    ASSUME SInv, fault = "none", mid = NoCall, NEW c \in Conns, NEW i \in Slots, NEW n \in Names,
           Prepare(c, i, n)
    PROVE  SInv'
<1>1. /\ prep[i] = NoPrep /\ Opens(c) /\ AfterCall(c) /\ (Failed(c) \/ UNCHANGED tx)
      /\ UNCHANGED <<in_tx, db_lock, begun, refused, link, job, lo, fault, reader, pend, names, prep>>
      /\ \/ UNCHANGED mid
         \/ mid' = [op |-> "prepare", slot |-> i, exists |-> n \in names[c],
                    new |-> [NoPrep EXCEPT !.name = n, !.lock = LockOf(c)]]
  BY DEF Prepare, rest
<1>2. mid.new.lock = NoLock
  BY MidFacts
<1>3. CASE UNCHANGED mid
  <2>1. mid' \in MidType /\ SMid' /\ SNamed'
    BY <1>1, <1>3, SameCall
  <2> QED
    BY <1>1, <1>2, <2>1, CallStep
<1>4. CASE mid' = [op |-> "prepare", slot |-> i, exists |-> n \in names[c],
                   new |-> [NoPrep EXCEPT !.name = n, !.lock = LockOf(c)]]
  <2>1. LockOf(c) \in Lock
    BY LockOfFacts DEF SInv
  <2>2. mid'.new \in PrepType /\ mid'.new.name = n
    BY <1>4, <2>1 DEF PrepType, NoPrep
  <2>3. mid' \in MidType /\ mid'.op = "prepare" /\ mid'.slot = i /\ mid'.exists = (n \in names[c])
    BY <1>4, <2>2 DEF MidType
  <2>4. SMid'
    BY <1>1, <2>2, <2>3 DEF SMid
  <2>5. SNamed'
    BY <1>1, <2>2, <2>3 DEF SInv, SNamed
  <2> QED
    BY <1>1, <1>2, <2>3, <2>4, <2>5, CallStep
<1> QED
  BY <1>1, <1>3, <1>4

\* The rest of prepare(): the object's lock object is the one it kept, or dies.
LEMMA PrepareEndsStep == ASSUME SInv, fault = "none", PrepareEnds PROVE SInv'
<1> DEFINE i == mid.slot
<1>1. /\ mid.op = "prepare" /\ mid' = NoCall /\ running' = Stopped(Locks, Locks')
      /\ UNCHANGED <<owner, in_tx, db_lock, begun, refused, link, job, lo, fault, reader, pend>>
      /\ UNCHANGED tx \/ (_conn # None /\ Failed(_conn))
      /\ \/ UNCHANGED <<prep, names>>
         \/ /\ mid.exists \/ _conn # None
            /\ prep' = [prep EXCEPT ![i] = mid.new]
            /\ names' = IF mid.exists THEN names ELSE [names EXCEPT ![_conn] = @ \cup {mid.new.name}]
  BY DEF PrepareEnds, PreparedNames
<1>2. /\ i \in Slots /\ mid.new.name \in Names /\ mid.new \in PrepType
      /\ prep \in [Slots -> PrepType] /\ names \in [Conns -> SUBSET Names]
  BY <1>1 DEF SInv, STypes, SMid, MidType
<1>3. mid' \in MidType /\ SMid' /\ mid'.op = "none"
  BY <1>1, CallOver
<1>4. _conn # None => _conn \in Conns
  BY ConnFacts DEF SInv
<1> HIDE DEF i
<1>5. prep' \in [Slots -> PrepType] /\ names' \in [Conns -> SUBSET Names] /\ SNamed'
  <2>1. CASE UNCHANGED <<prep, names>>
    BY <1>2, <1>3, <2>1 DEF SInv, SNamed
  <2>2. CASE /\ mid.exists \/ _conn # None
             /\ prep' = [prep EXCEPT ![i] = mid.new]
             /\ names' = IF mid.exists THEN names ELSE [names EXCEPT ![_conn] = @ \cup {mid.new.name}]
    <3>1. prep' \in [Slots -> PrepType] /\ prep'[i] = mid.new /\ \A k \in Slots : k # i => prep'[k] = prep[k]
      BY <1>2, <2>2
    <3>2. names' \in [Conns -> SUBSET Names] /\ \A d \in Conns : names[d] \subseteq names'[d]
      BY <1>2, <1>4, <2>2
    <3>3. \E d \in Conns : mid.new.name \in names'[d]
      <4>1. CASE mid.exists
        BY <1>1, <2>2, <4>1 DEF SInv, SNamed
      <4>2. CASE ~mid.exists
        BY <1>2, <1>4, <2>2, <4>2
      <4> QED
        BY <4>1, <4>2
    <3>4. SNamed'
      BY <1>3, <3>1, <3>2, <3>3 DEF SInv, SNamed
    <3> QED
      BY <3>1, <3>2, <3>4
  <2> QED
    BY <1>1, <2>1, <2>2
<1>6. running' \in [Conns -> {0, 1}] /\ SWork'
  BY <1>1, StoppedType, WorkStopped DEF SInv
<1>7. /\ tx' \in [Conns -> {"none", "open", "failed"}]
      /\ \A d \in Conns : tx'[d] = "none" <=> tx[d] = "none"
  <2>1. CASE UNCHANGED tx
    BY <2>1 DEF SInv, STypes
  <2>2. CASE _conn # None /\ Failed(_conn)
    <3>1. STypes /\ _conn \in Conns
      BY <1>4, <2>2 DEF SInv
    <3> QED
      BY <2>2, <3>1, FailedFacts
  <2> QED
    BY <1>1, <2>1, <2>2
<1>8. /\ \A d \in Conns : owner[d] = Me => owner'[d] = Me
      /\ db_lock # NoLock /\ NoneMine => NoneMine'
  BY <1>1 DEF NoneMine
<1>9. STransaction'
  BY <1>1, <1>7, <1>8, SameTransaction
<1>10. SMine' /\ SRows' /\ DestructorThrows'
  BY <1>1, NoFault DEF SInv, SMine, SRows
<1>11. STypes'
  BY <1>1, <1>3, <1>5, <1>6, <1>7 DEF SInv, STypes
<1> QED
  BY <1>3, <1>5, <1>6, <1>9, <1>10, <1>11 DEF SInv

\* begin(): nothing new in a transaction; else the first of a new one.
LEMMA BeginStep == ASSUME SInv, fault = "none", NEW c \in Conns, Begin(c) PROVE SInv'
<1>1. /\ Opens(c) /\ Taken(c) /\ AndKeeps(c) /\ db_lock' = LockOf(c)
      /\ UNCHANGED <<link, names, job, fault, prep, lo, mid, refused>>
  BY DEF Begin, AndKeeps
<1>2. /\ running' \in [Conns -> {0, 1}]
      /\ \A d \in Conns : running'[d] # 0 => running[d] # 0 \/ (d = c /\ db_lock = NoLock)
  BY <1>1, AndKeepsFacts DEF SInv
<1>3. LockOf(c) \in Lock \ {NoLock} /\ (db_lock = NoLock => LockOf(c)[1] = c)
  BY LockOfFacts DEF SInv
<1>4. db_lock # NoLock => db_lock' = db_lock
  BY <1>1 DEF LockOf
<1>5. mid' \in MidType /\ SMid' /\ SNamed' /\ DestructorThrows'
  BY <1>1, NoFault, SameCall
<1>6. ASSUME reader'.lock = reader.lock PROVE SWork'
  <2>1. Locks \subseteq Locks'
    BY <1>1, <1>4, <1>6, LocksKept
  <2>2. LockOf(c) \in Locks'
    BY <1>1, <1>3, LocksMembers
  <2> QED
    BY <1>1, <1>2, <1>3, <2>1, <2>2, WorkKept
<1>7. CASE in_tx[c]
  <2>1. UNCHANGED <<in_tx, tx, pend, reader, begun>>
    BY <1>7 DEF Begin
  <2>2. db_lock' = db_lock
    BY <1>4, <1>7 DEF SInv, STransaction, SLocked
  <2>3. SRows'
    BY <2>1 DEF SInv, SRows
  <2>4. /\ names' \in [Conns -> SUBSET Names] /\ prep' \in [Slots -> PrepType]
        /\ reader' \in ReaderType /\ pend' \in [Conns -> Nat \cup {NoRows}]
    BY <1>1, <2>1 DEF SInv, STypes
  <2> QED
    BY <1>1, <1>2, <1>5, <1>6, <2>1, <2>2, <2>3, <2>4, OpenStep
<1>8. CASE ~in_tx[c]
  <2>1. /\ in_tx' = [in_tx EXCEPT ![c] = TRUE] /\ tx' = [tx EXCEPT ![c] = "open"]
        /\ begun' = TRUE /\ Discards(c)
    BY <1>8 DEF Begin
  <2>2. (\A d \in Conns : ~in_tx[d]) /\ db_lock = NoLock
    BY <1>1, <1>8, OpensFacts
  <2>3. ~LoKeeps /\ ~refused
    BY <2>2 DEF SInv, STransaction, SRefused, SInTx, SAccount
  <2>4. owner' \in [Conns -> Others \cup {Me, None}] /\ SMine' /\ owner'[c] = Me
    BY <1>1, TakenFacts
  <2>5. reader' \in ReaderType /\ pend' \in [Conns -> Nat \cup {NoRows}] /\ reader'.lock = reader.lock /\ SRows'
    BY <2>1, DiscardsFacts
  <2>6. /\ in_tx' \in [Conns -> BOOLEAN] /\ tx' \in [Conns -> {"none", "open", "failed"}]
        /\ in_tx'[c] /\ tx'[c] = "open"
        /\ \A d \in Conns : d # c => ~in_tx'[d] /\ tx'[d] = tx[d]
    BY <2>1, <2>2 DEF SInv, STypes
  <2>7. SInTx' /\ SRefused'
    BY <1>1, <2>2, <2>3, <2>4, <2>6 DEF SInv, STransaction, SInTx, SRefused
  <2>8. SLocked'
    BY <1>1, <1>3, <2>2, <2>6 DEF SLocked
  <2>9. SAccount' /\ SLo'
    BY <1>1, <2>1, <2>3, <2>6 DEF SAccount, SLo, LoKeeps
  <2>10. STypes'
    BY <1>1, <1>2, <1>3, <1>5, <2>1, <2>4, <2>5, <2>6 DEF SInv, STypes
  <2> QED
    BY <1>5, <1>6, <2>4, <2>5, <2>7, <2>8, <2>9, <2>10 DEF SInv, STransaction
<1> QED
  BY <1>7, <1>8

\* After COMMIT or ROLLBACK the server is in no transaction.
LEMMA OverFacts ==
    ASSUME SInv, _conn # None, TransactionOver(_conn)
    PROVE  /\ tx' \in [Conns -> {"none", "open", "failed"}]
           /\ \A d \in Conns : tx'[d] = "none"
           /\ begun' = FALSE
           /\ reader' \in ReaderType /\ pend' \in [Conns -> Nat \cup {NoRows}]
           /\ reader'.lock = reader.lock /\ SRows'
           /\ _conn \in Conns /\ owner[_conn] = Me
           /\ \A d \in Conns : in_tx[d] => d = _conn
<1> DEFINE c == _conn
<1>1. c \in Conns /\ owner[c] = Me /\ \A d \in Conns : owner[d] = Me => d = c
  BY ConnFacts DEF SInv
<1>2. tx' = [tx EXCEPT ![c] = "none"] /\ begun' = FALSE /\ Discards(c)
  BY DEF TransactionOver
<1>3. \A d \in Conns : (in_tx[d] => d = c) /\ (d # c => tx[d] = "none")
  BY <1>1 DEF SInv, STransaction, SInTx
<1>4. reader' \in ReaderType /\ pend' \in [Conns -> Nat \cup {NoRows}] /\ reader'.lock = reader.lock /\ SRows'
  BY <1>1, <1>2, DiscardsFacts
<1> HIDE DEF c
<1>5. tx' \in [Conns -> {"none", "open", "failed"}] /\ \A d \in Conns : tx'[d] = "none"
  BY <1>1, <1>2, <1>3 DEF SInv, STypes
<1> QED
  BY <1>1, <1>2, <1>3, <1>4, <1>5 DEF c

\* The parts of SInv about the transaction, when the server has none: flag and
\* lock are reset, or stay both.
LEMMA NoTransaction ==
    ASSUME SInv, \A d \in Conns : tx'[d] = "none", begun' = FALSE, ~LoKeeps', UNCHANGED owner,
           \/ (\A d \in Conns : ~in_tx'[d]) /\ db_lock' = NoLock /\ refused' = FALSE
           \/ (\E d \in Conns : in_tx[d]) /\ UNCHANGED <<in_tx, db_lock>> /\ refused' = TRUE
    PROVE  STransaction'
<1>1. SInTx'
  BY DEF SInv, STransaction, SInTx
<1>2. SRefused'
  BY DEF SRefused
<1>3. SLocked'
  BY DEF SInv, STransaction, SLocked, NoneMine
<1>4. SAccount' /\ SLo'
  BY DEF SAccount, SLo
<1> QED
  BY <1>1, <1>2, <1>3, <1>4 DEF STransaction

\* The two outcomes of commit() and rollback().
LEMMA OutcomeFacts ==
    ASSUME SInv, _conn # None, in_tx[_conn], EndsTransaction \/ RefusesCommit
    PROVE  /\ TransactionOver(_conn)
           /\ in_tx' \in [Conns -> BOOLEAN] /\ db_lock' \in Lock /\ refused' \in BOOLEAN
           /\ \/ (\A d \in Conns : ~in_tx'[d]) /\ db_lock' = NoLock /\ refused' = FALSE
              \/ (\E d \in Conns : in_tx[d]) /\ UNCHANGED <<in_tx, db_lock>> /\ refused' = TRUE
           /\ db_lock[1] = _conn
<1>1. TransactionOver(_conn)
  BY DEF EndsTransaction, RefusesCommit
<1>2. _conn \in Conns /\ owner[_conn] = Me /\ \A d \in Conns : in_tx[d] => d = _conn
  BY <1>1, OverFacts
<1>3. in_tx \in [Conns -> BOOLEAN] /\ db_lock \in Lock /\ NoLock \in Lock
  BY DEF SInv, STypes, Lock
<1>4. db_lock[1] = _conn
  BY <1>2 DEF SInv, STransaction, SLocked, NoneMine
<1>5. CASE EndsTransaction
  <2>1. in_tx' = [in_tx EXCEPT ![_conn] = FALSE] /\ db_lock' = NoLock /\ refused' = FALSE
    BY <1>5 DEF EndsTransaction
  <2>2. in_tx' \in [Conns -> BOOLEAN] /\ \A d \in Conns : ~in_tx'[d]
    BY <1>2, <1>3, <2>1
  <2> QED
    BY <1>1, <1>3, <1>4, <2>1, <2>2
<1>6. CASE RefusesCommit
  BY <1>1, <1>2, <1>3, <1>4, <1>6 DEF RefusesCommit
<1> QED
  BY <1>5, <1>6

\* commit() and rollback().
LEMMA CommitStep == ASSUME SInv, fault = "none", CommitOrRollback PROVE SInv'
<1>1. /\ _conn # None /\ in_tx[_conn] /\ (EndsTransaction \/ RefusesCommit)
      /\ lo' = [lo EXCEPT !.conn = None]
      /\ running' = Stopped(Locks, Locks')
      /\ UNCHANGED <<owner, link, names, job, fault, prep, mid>>
  BY DEF CommitOrRollback, LoEnded
<1>2. /\ TransactionOver(_conn)
      /\ in_tx' \in [Conns -> BOOLEAN] /\ db_lock' \in Lock /\ refused' \in BOOLEAN
      /\ \/ (\A d \in Conns : ~in_tx'[d]) /\ db_lock' = NoLock /\ refused' = FALSE
         \/ (\E d \in Conns : in_tx[d]) /\ UNCHANGED <<in_tx, db_lock>> /\ refused' = TRUE
  BY <1>1, OutcomeFacts
<1>3. /\ tx' \in [Conns -> {"none", "open", "failed"}]
      /\ \A d \in Conns : tx'[d] = "none"
      /\ begun' = FALSE
      /\ reader' \in ReaderType /\ pend' \in [Conns -> Nat \cup {NoRows}] /\ SRows'
  BY <1>1, <1>2, OverFacts
<1>4. lo' \in LoType /\ ~LoKeeps'
  BY <1>1 DEF SInv, STypes, LoType, LoKeeps
<1>5. STransaction'
  BY <1>1, <1>2, <1>3, <1>4, NoTransaction
<1>6. running' \in [Conns -> {0, 1}] /\ SWork'
  BY <1>1, StoppedType, WorkStopped DEF SInv
<1>7. mid' \in MidType /\ SMid' /\ SNamed'
  BY <1>1, SameCall
<1>8. SMine' /\ DestructorThrows'
  BY <1>1, NoFault DEF SInv, SMine
<1>9. STypes'
  BY <1>1, <1>2, <1>3, <1>4, <1>6, <1>7 DEF SInv, STypes
<1> QED
  BY <1>3, <1>5, <1>6, <1>7, <1>8, <1>9 DEF SInv

\* close(): Me has no connection, whatever it was in.
LEMMA CloseStep == ASSUME SInv, fault = "none", Close PROVE SInv'
<1>1. /\ _conn # None /\ owner' = [owner EXCEPT ![_conn] = None] /\ running' = [running EXCEPT ![_conn] = 0]
      /\ refused' = FALSE /\ UNCHANGED <<link, names, job, fault, db_lock, prep, mid>>
  BY DEF Close
<1>2. _conn \in Conns /\ owner[_conn] = Me /\ \A d \in Conns : owner[d] = Me => d = _conn
  BY <1>1, ConnFacts DEF SInv
<1>3. None # Me /\ None \notin Conns
  BY SessionAssumption
<1>4. owner' \in [Conns -> Others \cup {Me, None}] /\ NoneMine' /\ SMine'
  BY <1>1, <1>2, <1>3 DEF SInv, STypes, NoneMine, SMine
<1>5. /\ tx' \in [Conns -> {"none", "open", "failed"}] /\ in_tx' \in [Conns -> BOOLEAN]
      /\ \A d \in Conns : tx'[d] = "none" /\ ~in_tx'[d]
      /\ begun' = FALSE /\ ~LoKeeps' /\ lo' \in LoType
      /\ reader' \in ReaderType /\ pend' \in [Conns -> Nat \cup {NoRows}]
      /\ reader'.lock = reader.lock /\ SRows'
  <2>1. CASE in_tx[_conn]
    <3>1. /\ TransactionOver(_conn) /\ in_tx' = [in_tx EXCEPT ![_conn] = FALSE]
          /\ lo' = [lo EXCEPT !.conn = None]
      BY <2>1 DEF Close, LoEnded
    <3>2. /\ tx' \in [Conns -> {"none", "open", "failed"}]
          /\ \A d \in Conns : tx'[d] = "none"
          /\ begun' = FALSE
          /\ reader' \in ReaderType /\ pend' \in [Conns -> Nat \cup {NoRows}]
          /\ reader'.lock = reader.lock /\ SRows'
          /\ \A d \in Conns : in_tx[d] => d = _conn
      BY <1>1, <3>1, OverFacts
    <3>3. in_tx' \in [Conns -> BOOLEAN] /\ \A d \in Conns : ~in_tx'[d]
      BY <1>2, <3>1, <3>2 DEF SInv, STypes
    <3>4. lo' \in LoType /\ ~LoKeeps'
      BY <3>1 DEF SInv, STypes, LoType, LoKeeps
    <3> QED
      BY <3>2, <3>3, <3>4
  <2>2. CASE ~in_tx[_conn]
    <3>1. UNCHANGED <<in_tx, tx, begun, pend, reader, lo>>
      BY <2>2 DEF Close
    <3>2. \A d \in Conns : ~in_tx[d] /\ tx[d] = "none"
      BY <1>2, <2>2 DEF SInv, STransaction, SInTx
    <3>3. ~begun /\ ~LoKeeps
      BY <3>2 DEF SInv, STransaction, SAccount
    <3>4. SRows' /\ begun \in BOOLEAN
      BY <3>1 DEF SInv, SRows, STypes
    <3> QED
      BY <3>1, <3>2, <3>3, <3>4 DEF SInv, STypes, LoKeeps
  <2> QED
    BY <2>1, <2>2
<1>6. STransaction'
  BY <1>1, <1>4, <1>5 DEF STransaction, SInTx, SRefused, SLocked, SAccount, SLo
<1>7. running' \in [Conns -> {0, 1}] /\ \A d \in Conns : running'[d] # 0 => running[d] # 0
  BY <1>1, <1>2 DEF SInv, STypes
<1>8. SWork'
  <2>1. Locks \subseteq Locks'
    BY <1>1, <1>5, LocksKept
  <2> QED
    BY <1>1, <1>7, <2>1, WorkKept
<1>9. mid' \in MidType /\ SMid' /\ SNamed' /\ DestructorThrows'
  BY <1>1, NoFault, SameCall
<1>10. STypes'
  BY <1>1, <1>4, <1>5, <1>7, <1>9 DEF SInv, STypes
<1> QED
  BY <1>4, <1>5, <1>6, <1>8, <1>9, <1>10 DEF SInv

\* Closing a large object ends the transaction, the program's too.
LEMMA LoCloseStep == ASSUME SInv, fault = "none", LoClose PROVE SInv'
<1>1. /\ _conn # None /\ lo' = ClosedLo /\ running' = [running EXCEPT ![_conn] = 0]
      /\ UNCHANGED <<owner, link, names, job, fault, prep, mid>>
  BY DEF LoClose
<1>2. lo' \in LoType /\ ~LoKeeps'
  BY <1>1 DEF LoType, LoKeeps, ClosedLo
<1>3. running' \in [Conns -> {0, 1}] /\ \A d \in Conns : running'[d] # 0 => running[d] # 0 /\ d # _conn
  BY <1>1 DEF SInv, STypes
<1>4. SMine' /\ DestructorThrows' /\ mid' \in MidType /\ SMid' /\ SNamed'
  BY <1>1, NoFault, SameCall DEF SInv, SMine
<1>5. CASE in_tx[_conn]
  <2>1. EndsTransaction \/ RefusesCommit
    BY <1>5 DEF LoClose
  <2>2. /\ TransactionOver(_conn)
        /\ in_tx' \in [Conns -> BOOLEAN] /\ db_lock' \in Lock /\ refused' \in BOOLEAN
        /\ \/ (\A d \in Conns : ~in_tx'[d]) /\ db_lock' = NoLock /\ refused' = FALSE
           \/ (\E d \in Conns : in_tx[d]) /\ UNCHANGED <<in_tx, db_lock>> /\ refused' = TRUE
        /\ db_lock[1] = _conn
    BY <1>1, <1>5, <2>1, OutcomeFacts
  <2>3. /\ tx' \in [Conns -> {"none", "open", "failed"}]
        /\ \A d \in Conns : tx'[d] = "none"
        /\ begun' = FALSE
        /\ reader' \in ReaderType /\ pend' \in [Conns -> Nat \cup {NoRows}]
        /\ reader'.lock = reader.lock /\ SRows'
    BY <1>1, <2>2, OverFacts
  <2>4. STransaction'
    BY <1>1, <1>2, <2>2, <2>3, NoTransaction
  <2>5. SWork'
    <3>1. db_lock' = db_lock \/ db_lock' = NoLock
      BY <2>2
    <3>2. \A l \in Locks : l[1] # _conn => l \in Locks'
      BY <1>1, <2>2, <2>3, <3>1, LocksMembers
    <3> QED
      BY <1>1, <1>3, <3>2, WorkAccounted
  <2>6. STypes'
    BY <1>1, <1>2, <1>3, <1>4, <2>2, <2>3 DEF SInv, STypes
  <2> QED
    BY <1>4, <2>3, <2>4, <2>5, <2>6 DEF SInv
<1>6. CASE ~in_tx[_conn]
  <2>1. UNCHANGED <<in_tx, tx, db_lock, pend, reader, begun, refused>>
    BY <1>6 DEF LoClose
  <2>2. ~LoKeeps
    <3>1. LoKeeps => in_tx[_conn]
      BY ConnFacts DEF SInv, STransaction, SAccount, SInTx
    <3> QED
      BY <1>6, <3>1
  <2>3. SInTx' /\ SRefused' /\ SLocked'
    BY <1>1, <2>1 DEF SInv, STransaction, SInTx, SRefused, SLocked, NoneMine
  <2>4. SAccount' /\ SLo'
    BY <1>1, <1>2, <2>1, <2>2 DEF SInv, STransaction, SAccount, SLo
  <2>5. SWork'
    <3>1. Locks \subseteq Locks'
      BY <1>1, <2>1, LocksKept
    <3> QED
      BY <1>1, <1>3, <3>1, WorkKept
  <2>6. STypes' /\ SRows'
    BY <1>1, <1>2, <1>3, <1>4, <2>1 DEF SInv, STypes, SRows
  <2> QED
    BY <1>4, <2>3, <2>4, <2>5, <2>6 DEF SInv, STransaction
<1> QED
  BY <1>5, <1>6

\* Savepoints, for which the transaction goes on.
LEMMA SavepointStep ==
    ASSUME SInv, fault = "none", NEW c \in Conns, NEW what, Savepoint(c, what) PROVE SInv'
<1>1. /\ Discards(c)
      /\ UNCHANGED <<owner, running, in_tx, db_lock, begun, refused, link, job, names, prep, lo, fault, mid>>
      /\ UNCHANGED tx \/ Failed(c) \/ (tx[c] # "none" /\ tx' = [tx EXCEPT ![c] = "open"])
  BY DEF Savepoint, rest
<1>2. /\ tx' \in [Conns -> {"none", "open", "failed"}]
      /\ \A d \in Conns : tx'[d] = "none" <=> tx[d] = "none"
  <2>1. CASE UNCHANGED tx \/ Failed(c)
    BY <2>1, FailedFacts DEF SInv
  <2>2. CASE tx[c] # "none" /\ tx' = [tx EXCEPT ![c] = "open"]
    BY <2>2 DEF SInv, STypes
  <2> QED
    BY <1>1, <2>1, <2>2
<1>3. reader' \in ReaderType /\ pend' \in [Conns -> Nat \cup {NoRows}] /\ reader'.lock = reader.lock /\ SRows'
  BY <1>1, DiscardsFacts
<1>4. running' \in [Conns -> {0, 1}]
  BY <1>1 DEF SInv, STypes
<1>5. mid' \in MidType /\ SMid' /\ SNamed'
  BY <1>1, SameCall
<1> QED
  BY <1>1, <1>2, <1>3, <1>4, <1>5, LocalStep

\* read, write, seek, tell and resize.
LEMMA LoUseStep == ASSUME SInv, fault = "none", LoUse PROVE SInv'
<1>1. /\ _conn # None /\ running' = [running EXCEPT ![_conn] = 0] /\ (UNCHANGED tx \/ Failed(_conn))
      /\ UNCHANGED <<owner, in_tx, db_lock, begun, refused, link, job, names, prep, lo, fault, reader, pend, mid>>
  BY DEF LoUse, rest, stmtVars
<1>2. _conn \in Conns
  BY <1>1, ConnFacts DEF SInv
<1>3. /\ tx' \in [Conns -> {"none", "open", "failed"}]
      /\ \A d \in Conns : tx'[d] = "none" <=> tx[d] = "none"
  BY <1>1, <1>2, FailedFacts DEF SInv
<1>4. running' \in [Conns -> {0, 1}] /\ \A d \in Conns : running'[d] # 0 => running[d] # 0
  BY <1>1 DEF SInv, STypes
<1>5. reader' \in ReaderType /\ pend' \in [Conns -> Nat \cup {NoRows}] /\ SRows'
  BY <1>1 DEF SInv, STypes, SRows
<1>6. mid' \in MidType /\ SMid' /\ SNamed'
  BY <1>1, SameCall
<1> QED
  BY <1>1, <1>3, <1>4, <1>5, <1>6, LocalStep

\* The second step of create_lo and unlink.
LEMMA LoCreateStep == ASSUME SInv, fault = "none", LoCreateOrUnlink PROVE SInv'
<1>1. /\ mid.op = "lo" /\ mid' = NoCall /\ _conn # None /\ (UNCHANGED tx \/ Failed(_conn))
      /\ UNCHANGED running \/ running' = [running EXCEPT ![_conn] = 0]
      /\ UNCHANGED <<owner, in_tx, db_lock, begun, refused, link, job, names, prep, lo, fault, reader, pend>>
  BY DEF LoCreateOrUnlink, rest
<1>2. _conn \in Conns
  BY <1>1, ConnFacts DEF SInv
<1>3. /\ tx' \in [Conns -> {"none", "open", "failed"}]
      /\ \A d \in Conns : tx'[d] = "none" <=> tx[d] = "none"
  BY <1>1, <1>2, FailedFacts DEF SInv
<1>4. running' \in [Conns -> {0, 1}] /\ \A d \in Conns : running'[d] # 0 => running[d] # 0
  BY <1>1 DEF SInv, STypes
<1>5. reader' \in ReaderType /\ pend' \in [Conns -> Nat \cup {NoRows}] /\ SRows'
  BY <1>1 DEF SInv, STypes, SRows
<1>6. mid' \in MidType /\ SMid' /\ mid'.op = "none" /\ mid'.new.lock = NoLock
  BY <1>1, CallOver
<1>7. mid.new.lock = NoLock /\ SNamed'
  BY <1>1, <1>6 DEF SInv, SMid, SNamed
<1> QED
  BY <1>1, <1>3, <1>4, <1>5, <1>6, <1>7, LocalStep

\* A result from libpq, for which only the rows and the transaction change.
LEMMA RowStep ==
    ASSUME SInv, fault = "none", NEW c \in Conns,
           UNCHANGED <<running, readerRest>>, UNCHANGED rest, UNCHANGED tx \/ Failed(c),
           reader' \in ReaderType, reader'.lock = reader.lock,
           pend' \in [Conns -> Nat \cup {NoRows}], SRows'
    PROVE  SInv'
<1>1. UNCHANGED <<owner, running, in_tx, db_lock, begun, refused, link, job, names, prep, lo, fault, mid>>
  BY DEF readerRest, rest
<1>2. /\ tx' \in [Conns -> {"none", "open", "failed"}]
      /\ \A d \in Conns : tx'[d] = "none" <=> tx[d] = "none"
  BY FailedFacts DEF SInv
<1>3. running' \in [Conns -> {0, 1}]
  BY <1>1 DEF SInv, STypes
<1>4. mid' \in MidType /\ SMid' /\ SNamed'
  BY <1>1, SameCall
<1> QED
  BY <1>1, <1>2, <1>3, <1>4, LocalStep

\* The first next(): what is left is what libpq has.
LEMMA FirstRowStep ==
    ASSUME SInv, fault = "none", NEW c \in Conns, FirstRow(c) PROVE SInv'
<1>1. reader.st = "new" /\ pend[c] = NoRows /\ UNCHANGED <<running, readerRest>> /\ UNCHANGED rest
  BY DEF FirstRow
<1>2. reader \in ReaderType /\ pend \in [Conns -> Nat \cup {NoRows}] /\ reader.left = 0
  BY <1>1 DEF SInv, STypes, SRows
<1>3. CASE /\ reader' = [Cut(reader) EXCEPT !.st = "sent"]
           /\ pend' = [pend EXCEPT ![c] = 0] /\ Failed(c)
  <2>1. Cut(reader) \in ReaderType /\ Cut(reader).lock = reader.lock /\ Cut(reader).cut
    BY <1>2, CutFacts
  <2>2. reader' \in ReaderType /\ reader'.lock = reader.lock /\ reader'.cut /\ reader'.st = "sent"
    BY <1>3, <2>1 DEF ReaderType
  <2>3. pend' \in [Conns -> Nat \cup {NoRows}]
    BY <1>2, <1>3
  <2>4. SRows'
    BY <2>2 DEF SRows
  <2> QED
    BY <1>1, <1>3, <2>2, <2>3, <2>4, RowStep
<1>4. CASE /\ reader' = [reader EXCEPT !.st = "end", !.conn = c] /\ UNCHANGED <<pend, tx>>
  <2>1. reader' \in ReaderType /\ reader'.lock = reader.lock /\ reader'.st = "end" /\ reader'.left = 0
    BY <1>2, <1>4 DEF ReaderType
  <2>2. SRows' /\ pend' \in [Conns -> Nat \cup {NoRows}]
    BY <1>2, <1>4, <2>1 DEF SRows
  <2> QED
    BY <1>1, <1>4, <2>1, <2>2, RowStep
<1>5. ASSUME NEW n \in 1..MaxRows,
             reader' = [reader EXCEPT !.st = "sent", !.conn = c, !.left = n - 1],
             pend' = [pend EXCEPT ![c] = n - 1], UNCHANGED tx
      PROVE  SInv'
  <2>1. n \in Nat /\ n - 1 \in Nat /\ n - 1 # NoRows
    BY StatementsAssumption DEF NoRows
  <2>2. pend'[c] = n - 1 /\ pend' \in [Conns -> Nat \cup {NoRows}]
    BY <1>2, <1>5, <2>1
  <2>3. /\ reader' \in ReaderType /\ reader'.lock = reader.lock /\ reader'.st = "sent"
        /\ reader'.conn = c /\ reader'.left = n - 1
    BY <1>2, <1>5, <2>1 DEF ReaderType
  <2>4. SRows'
    BY <2>1, <2>2, <2>3 DEF SRows
  <2> QED
    BY <1>1, <1>5, <2>2, <2>3, <2>4, RowStep
<1> QED
  BY <1>3, <1>4, <1>5 DEF FirstRow

\* A row moves from libpq to the program, or the server fails.
LEMMA OtherRowsStep ==
    ASSUME SInv, fault = "none", NEW c \in Conns, OtherRows(c) PROVE SInv'
<1>1. reader.st = "sent" /\ UNCHANGED <<running, readerRest>> /\ UNCHANGED rest
  BY DEF OtherRows
<1>2. reader \in ReaderType /\ pend \in [Conns -> Nat \cup {NoRows}] /\ SRows
  BY DEF SInv, STypes
<1>3. CASE RowFails(c)
  <2>1. reader' = Cut(reader) /\ pend' = [pend EXCEPT ![c] = 0] /\ Failed(c)
    BY <1>3 DEF RowFails
  <2>2. reader' \in ReaderType /\ reader'.lock = reader.lock /\ reader'.cut /\ reader'.left = 0
    BY <1>2, <2>1, CutFacts
  <2>3. pend' \in [Conns -> Nat \cup {NoRows}] /\ SRows'
    BY <1>2, <2>1, <2>2 DEF SRows
  <2> QED
    BY <1>1, <2>1, <2>2, <2>3, RowStep
<1>4. CASE /\ reader' = NextRow(c, pend[c])
           /\ pend' = [pend EXCEPT ![c] = IF @ \in {NoRows, 0} THEN NoRows ELSE @ - 1]
           /\ UNCHANGED tx
  <2> DEFINE r == IF c = reader.conn THEN reader ELSE Cut(reader)
  <2>1. /\ r \in ReaderType /\ r.lock = reader.lock /\ r.st = "sent"
        /\ ~r.cut => r = reader /\ c = reader.conn
    BY <1>1, <1>2, CutFacts
  <2>2. /\ pend[c] \in {NoRows, 0} => reader' = [r EXCEPT !.st = "end"]
        /\ pend[c] \notin {NoRows, 0} => reader' = IF r.cut THEN r ELSE [r EXCEPT !.left = @ - 1]
    BY <1>4 DEF NextRow
  <2>3. ~r.cut => r.left = pend[c] /\ pend[c] # NoRows
    BY <1>1, <1>2, <2>1 DEF SRows
  <2> HIDE DEF r
  <2>4. pend' \in [Conns -> Nat \cup {NoRows}]
    BY <1>2, <1>4 DEF NoRows
  <2>5. CASE pend[c] \in {NoRows, 0}
    <3>1. reader' \in ReaderType /\ reader'.lock = reader.lock /\ reader'.st = "end"
      BY <2>1, <2>2, <2>5 DEF ReaderType
    <3>2. reader'.cut = r.cut /\ reader'.left = r.left
      BY <2>1, <2>2, <2>5 DEF ReaderType
    <3>3. SRows'
      BY <2>3, <2>5, <3>1, <3>2 DEF SRows
    <3> QED
      BY <1>1, <1>4, <2>4, <3>1, <3>3, RowStep
  <2>6. CASE pend[c] \notin {NoRows, 0}
    <3>1. CASE r.cut
      <4>1. reader' = r
        BY <2>2, <2>6, <3>1
      <4>2. SRows'
        BY <2>1, <3>1, <4>1 DEF SRows
      <4> QED
        BY <1>1, <1>4, <2>1, <2>4, <4>1, <4>2, RowStep
    <3>2. CASE ~r.cut
      <4>1. reader' = [reader EXCEPT !.left = @ - 1] /\ c = reader.conn /\ ~reader.cut
        BY <2>1, <2>2, <2>6, <3>2
      <4>2. reader.left = pend[c] /\ pend[c] \in Nat \ {0} /\ pend[c] - 1 \in Nat /\ pend[c] - 1 # NoRows
        BY <1>2, <2>1, <2>3, <2>6, <3>2 DEF NoRows
      <4>3. /\ reader' \in ReaderType /\ reader'.lock = reader.lock /\ reader'.st = "sent"
            /\ reader'.conn = c /\ reader'.left = pend[c] - 1
        BY <1>1, <1>2, <4>1, <4>2 DEF ReaderType
      <4>4. pend'[c] = pend[c] - 1
        BY <1>2, <1>4, <2>6
      <4>5. SRows'
        BY <4>2, <4>3, <4>4 DEF SRows
      <4> QED
        BY <1>1, <1>4, <2>4, <4>3, <4>5, RowStep
    <3> QED
      BY <3>1, <3>2
  <2> QED
    BY <2>5, <2>6
<1> QED
  BY <1>3, <1>4 DEF OtherRows

\* close() touches what libpq has and may fail the transaction.
LEMMA ClosesFacts ==
    ASSUME SInv, NEW c \in Conns, Closes(c)
    PROVE  pend' \in [Conns -> Nat \cup {NoRows}] /\ (UNCHANGED tx \/ Failed(c))
<1>1. UNCHANGED tx \/ Failed(c)
  BY DEF Closes
<1>2. pend \in [Conns -> Nat \cup {NoRows}] /\ (UNCHANGED pend \/ pend' = [pend EXCEPT ![c] = NoRows])
  BY DEF SInv, STypes, Closes
<1> QED
  BY <1>1, <1>2

\* close() of a reader that has not ended cuts it.
LEMMA CloseReaderStep ==
    ASSUME SInv, fault = "none", NEW c \in Conns, CloseReader(c) PROVE SInv'
<1>1. /\ Closes(c) /\ UNCHANGED <<running, readerRest>> /\ UNCHANGED rest
      /\ reader' = IF reader.st = "end" THEN reader ELSE [Cut(reader) EXCEPT !.st = "end"]
  BY DEF CloseReader
<1>2. pend' \in [Conns -> Nat \cup {NoRows}] /\ (UNCHANGED tx \/ Failed(c))
  BY <1>1, ClosesFacts
<1>3. reader \in ReaderType /\ SRows
  BY DEF SInv, STypes
<1>4. CASE reader.st = "end"
  <2>1. reader' = reader
    BY <1>1, <1>4
  <2>2. SRows'
    BY <1>3, <1>4, <2>1 DEF SRows
  <2> QED
    BY <1>1, <1>2, <1>3, <2>1, <2>2, RowStep
<1>5. CASE reader.st # "end"
  <2>1. Cut(reader) \in ReaderType /\ Cut(reader).lock = reader.lock /\ Cut(reader).cut
    BY <1>3, CutFacts
  <2>2. reader' \in ReaderType /\ reader'.lock = reader.lock /\ reader'.cut /\ reader'.st = "end"
    BY <1>1, <1>5, <2>1 DEF ReaderType
  <2>3. SRows'
    BY <2>2 DEF SRows
  <2> QED
    BY <1>1, <1>2, <2>2, <2>3, RowStep
<1> QED
  BY <1>4, <1>5

\* ~data_reader_t: its lock object stops the work.
LEMMA DropReaderStep ==
    ASSUME SInv, fault = "none", NEW c \in Conns, DropReader(c) PROVE SInv'
<1>1. /\ Closes(c) /\ reader' = NoReader /\ running' = Stopped(Locks, Locks')
      /\ UNCHANGED <<owner, in_tx, db_lock, begun, refused, link, job, names, prep, lo, fault, mid>>
  BY DEF DropReader, readerRest, rest
<1>2. /\ pend' \in [Conns -> Nat \cup {NoRows}] /\ tx' \in [Conns -> {"none", "open", "failed"}]
      /\ \A d \in Conns : tx'[d] = "none" <=> tx[d] = "none"
  BY <1>1, ClosesFacts, FailedFacts DEF SInv
<1>3. running' \in [Conns -> {0, 1}] /\ SWork'
  BY <1>1, StoppedType, WorkStopped DEF SInv
<1>4. reader' \in ReaderType /\ SRows'
  BY <1>1 DEF NoReader, ReaderType, Lock, SRows
<1>5. /\ \A d \in Conns : owner[d] = Me => owner'[d] = Me
      /\ db_lock # NoLock /\ NoneMine => NoneMine'
  BY <1>1 DEF NoneMine
<1>6. STransaction'
  BY <1>1, <1>2, <1>5, SameTransaction
<1>7. SMine' /\ DestructorThrows' /\ mid' \in MidType /\ SMid' /\ SNamed'
  BY <1>1, NoFault, SameCall DEF SInv, SMine
<1>8. STypes'
  BY <1>1, <1>2, <1>3, <1>4, <1>7 DEF SInv, STypes
<1> QED
  BY <1>3, <1>4, <1>6, <1>7, <1>8 DEF SInv

\* ~data_prepared_t without DEALLOCATE.
LEMMA DropPreparedStep ==
    ASSUME SInv, fault = "none", mid = NoCall, NEW i \in Slots, DropPrepared(i) PROVE SInv'
<1>1. /\ prep' = [prep EXCEPT ![i] = NoPrep] /\ running' = Stopped(Locks, Locks') /\ mid' = NoCall
      /\ UNCHANGED <<owner, db_lock, reader, in_tx, link, tx, job, fault, lo, pend, begun, refused, names>>
  BY DEF DropPrepared, rest
<1>2. mid' \in MidType /\ SMid' /\ mid'.op = "none"
  BY <1>1, CallOver
<1>3. running' \in [Conns -> {0, 1}] /\ SWork'
  BY <1>1, StoppedType, WorkStopped DEF SInv
<1>4. prep' \in [Slots -> PrepType] /\ SNamed'
  BY <1>1, <1>2, MidFacts DEF SInv, STypes, SNamed
<1>5. /\ \A d \in Conns : owner[d] = Me => owner'[d] = Me
      /\ db_lock # NoLock /\ NoneMine => NoneMine'
  BY <1>1 DEF NoneMine
<1>6. STransaction'
  BY <1>1, <1>5, SameTransaction
<1>7. SMine' /\ SRows' /\ DestructorThrows'
  BY <1>1, NoFault DEF SInv, SMine, SRows
<1>8. STypes'
  BY <1>1, <1>2, <1>3, <1>4 DEF SInv, STypes
<1> QED
  BY <1>2, <1>3, <1>4, <1>6, <1>7, <1>8 DEF SInv

\* DEALLOCATE, for the program or in the destructor: the other objects of the
\* name know.
LEMMA DeallocatesStep ==
    ASSUME SInv, fault = "none", NEW c \in Conns, Deallocates(c) PROVE SInv'
<1> DEFINE x == mid.new.name
           gone(k) == [prep[k] EXCEPT !.gone = @ \/ prep[k].name = x]
<1>1. /\ mid' = NoCall /\ Opens(c) /\ Taken(c)
      /\ names' = [names EXCEPT ![c] = @ \ {x}]
      /\ prep' = [k \in Slots |-> IF mid.op = "drop" /\ k = mid.slot THEN NoPrep ELSE gone(k)]
      /\ running' = LET stopped == Stopped(Locks, Locks')
                    IN IF db_lock # NoLock THEN stopped ELSE [stopped EXCEPT ![c] = 0]
      /\ UNCHANGED <<db_lock, reader, in_tx, link, tx, job, fault, lo, pend, begun, refused>>
  BY DEF Deallocates
<1>2. mid' \in MidType /\ SMid' /\ mid'.op = "none"
  BY <1>1, CallOver
<1>3. /\ SRows' /\ reader' \in ReaderType /\ pend' \in [Conns -> Nat \cup {NoRows}]
  BY <1>1 DEF SInv, SRows, STypes
<1>4. /\ running' \in [Conns -> {0, 1}]
      /\ \A d \in Conns : running'[d] = 0 \/ running'[d] = Stopped(Locks, Locks')[d]
  <2>1. Stopped(Locks, Locks') \in [Conns -> {0, 1}]
    BY StoppedType DEF SInv
  <2> QED
    BY <1>1, <2>1
<1>5. SWork'
  BY <1>1, <1>4, WorkStopped
<1>6. prep \in [Slots -> PrepType] /\ names \in [Conns -> SUBSET Names]
  BY DEF SInv, STypes
<1> HIDE DEF x
<1>7. ASSUME NEW k \in Slots
      PROVE  /\ gone(k) \in PrepType /\ gone(k).name = prep[k].name /\ gone(k).lock = prep[k].lock
             /\ gone(k).gone = (prep[k].gone \/ prep[k].name = x)
  <2>1. prep[k] \in PrepType
    BY <1>6
  <2> QED
    BY <2>1 DEF PrepType
<1> HIDE DEF gone
<1>8. \A k \in Slots : prep'[k] = NoPrep \/ prep'[k] = gone(k)
  BY <1>1
<1>9. prep' \in [Slots -> PrepType]
  <2>1. \A k \in Slots : prep'[k] \in PrepType
    BY <1>7, <1>8, MidFacts
  <2>2. prep' = [k \in Slots |-> prep'[k]]
    BY <1>1
  <2> QED
    BY <2>1, <2>2
<1>10. /\ names' \in [Conns -> SUBSET Names]
       /\ \A d \in Conns : \A n \in names[d] : n # x => n \in names'[d]
  BY <1>1, <1>6
<1>11. SNamed'
  <2> SUFFICES ASSUME NEW k \in Slots, prep'[k] # NoPrep, ~prep'[k].gone
               PROVE  \E d \in Conns : prep'[k].name \in names'[d]
    BY <1>2 DEF SNamed
  <2>1. prep'[k] = gone(k)
    BY <1>8
  <2>2. ~prep[k].gone /\ prep[k].name # x /\ prep'[k].name = prep[k].name
    BY <1>7, <2>1
  <2>3. prep[k] # NoPrep
    <3> SUFFICES ASSUME prep[k] = NoPrep PROVE FALSE
      OBVIOUS
    <3>1. prep[k] \in PrepType /\ prep'[k] \in PrepType
      BY <1>6, <1>9
    <3>2. /\ prep'[k].name = prep[k].name /\ prep'[k].gone = prep[k].gone
          /\ prep'[k].lock = prep[k].lock
      <4>1. prep[k].gone \in BOOLEAN
        BY <3>1 DEF PrepType
      <4> QED
        BY <1>7, <2>1, <2>2, <4>1
    <3>3. prep'[k] = prep[k]
      BY <3>1, <3>2 DEF PrepType
    <3> QED
      BY <3>3
  <2>4. PICK d \in Conns : prep[k].name \in names[d]
    BY <2>2, <2>3 DEF SInv, SNamed
  <2> QED
    BY <1>10, <2>2, <2>4
<1> QED
  BY <1>1, <1>2, <1>3, <1>4, <1>5, <1>9, <1>10, <1>11, OpenStep

\* An exception of deallocate_prepared.
LEMMA DeallocateFailsStep ==
    ASSUME SInv, fault = "none", DeallocateFails PROVE SInv'
<1>1. /\ mid.op = "deallocate" /\ mid' = NoCall
      /\ UNCHANGED <<in_tx, db_lock, begun, refused, link, job, lo, fault, names, prep, reader, pend>>
  BY DEF DeallocateFails, rest
<1>2. mid' \in MidType /\ SMid' /\ mid'.op = "none" /\ mid'.new.lock = NoLock
  BY <1>1, CallOver
<1>3. mid.new.lock = NoLock /\ SNamed'
  BY <1>1, <1>2 DEF SInv, SMid, SNamed
<1>4. CASE UNCHANGED <<owner, running, tx>>
  <2>1. /\ reader' \in ReaderType /\ pend' \in [Conns -> Nat \cup {NoRows}] /\ SRows'
        /\ running' \in [Conns -> {0, 1}] /\ tx' \in [Conns -> {"none", "open", "failed"}]
    BY <1>1, <1>4 DEF SInv, STypes, SRows
  <2> QED
    BY <1>1, <1>2, <1>3, <1>4, <2>1, LocalStep
<1>5. ASSUME NEW c \in Conns, Opens(c), AfterCall(c), UNCHANGED tx \/ Failed(c) PROVE SInv'
  BY <1>1, <1>2, <1>3, <1>5, CallStep
<1> QED
  BY <1>4, <1>5 DEF DeallocateFails

\* The cases in which the destructor throws.
LEMMA DestructorEndsStep ==
    ASSUME SInv, NEW i \in Slots, DestructorEnds(i) PROVE SInv'
<1>1. /\ prep[i] # NoPrep /\ mid' = Deallocating("drop", i, prep[i].name)
      /\ mid = NoCall \/ mid.op = "drop"
      /\ UNCHANGED <<running, in_tx, link, tx, names, job, db_lock, prep, reader, lo, pend, begun, refused>>
  BY DEF DestructorEnds
<1>2. prep[i].name \in Names \cup {None}
  BY DEF SInv, STypes, PrepType
<1>3. /\ mid' \in MidType /\ mid'.op = "drop" /\ mid'.new.lock = NoLock
      /\ mid'.slot = i /\ mid'.new.name = prep[i].name
  BY <1>1, <1>2, MidFacts DEF MidType, Deallocating, NoPrep, PrepType
<1>4. SMid' /\ SNamed' /\ SRows'
  BY <1>1, <1>3 DEF SInv, SMid, SNamed, SRows
<1>5. mid.new.lock = NoLock
  BY <1>1, MidFacts DEF SInv, SMid
<1>6. SWork'
  <2>1. Locks \subseteq Locks'
    BY <1>1, <1>5, LocksKept
  <2> QED
    BY <1>1, <2>1, WorkKept
<1>7. CASE (\A c \in Conns : ~Opens(c)) /\ db_lock = NoLock /\ UNCHANGED owner
  <2>1. _conn = None
    <3> SUFFICES ASSUME _conn # None PROVE FALSE
      OBVIOUS
    <3>1. _conn \in Conns
      BY ConnFacts DEF SInv
    <3>2. Opens(_conn)
      BY <1>7, <3>1 DEF Opens, Gettable, _conn
    <3> QED
      BY <1>7, <3>1, <3>2
  <2>2. _conn' = None
    BY <1>7, <2>1 DEF _conn, ConnOf
  <2>3. /\ \A d \in Conns : owner[d] = Me => owner'[d] = Me
        /\ db_lock # NoLock /\ NoneMine => NoneMine'
    BY <1>7
  <2>4. STransaction'
    BY <1>1, <2>3, SameTransaction
  <2>5. STypes' /\ SMine' /\ DestructorThrows'
    BY <1>1, <1>3, <1>7, <2>2 DEF SInv, STypes, SMine, DestructorThrows
  <2> QED
    BY <1>4, <1>6, <2>4, <2>5 DEF SInv
<1>8. ASSUME NEW c \in Conns, Opens(c), CannotDeallocate(c, prep[i].name), Taken(c) PROVE SInv'
  <2>1. /\ owner' \in [Conns -> Others \cup {Me, None}] /\ SMine' /\ owner'[c] = Me
        /\ \A d \in Conns : owner[d] = Me => owner'[d] = Me
    BY <1>8, TakenFacts
  <2>2. db_lock # NoLock /\ NoneMine => NoneMine'
    BY <1>8, StaysNone
  <2>3. STransaction'
    BY <1>1, <2>1, <2>2, SameTransaction
  <2>4. STypes'
    BY <1>1, <1>3, <2>1 DEF SInv, STypes
  <2>5. _conn' = c
    BY <2>1 DEF SMine, _conn, ConnOf
  <2>6. DestructorThrows'
    <3>1. CASE pend[c] # NoRows \/ tx[c] = "failed"
      BY <1>1, <2>5, <3>1 DEF DestructorThrows
    <3>2. CASE prep[i].name \notin names[c]
      <4>1. prep[i].gone \/ \E d \in Conns : prep[i].name \in names[d]
        BY <1>1 DEF SInv, SNamed
      <4>2. prep'[mid'.slot].gone \/ \E d \in Conns \ {_conn'} : prep'[mid'.slot].name \in names'[d]
        BY <1>1, <1>3, <2>5, <3>2, <4>1
      <4> QED
        BY <4>2 DEF DestructorThrows
    <3> QED
      BY <1>8, <3>1, <3>2 DEF CannotDeallocate
  <2> QED
    BY <1>4, <1>6, <2>1, <2>3, <2>4, <2>6 DEF SInv
<1> QED
  BY <1>7, <1>8 DEF DestructorEnds

\* The second step of opening a large object: refused, begun, or rolled back.
LEMMA LoOpenStep == ASSUME SInv, fault = "none", LoOpen PROVE SInv'
<1>1. mid.op = "lo" /\ mid' = NoCall /\ lo.st = "closed" /\ UNCHANGED <<link, names, job, fault, prep, begun, refused>>
  BY DEF LoOpen
<1>2. /\ mid' \in MidType /\ SMid' /\ mid'.op = "none" /\ mid'.new.lock = NoLock
  BY <1>1, CallOver
<1>3. /\ SNamed' /\ DestructorThrows' /\ ~LoKeeps /\ mid.new.lock = NoLock
  BY <1>1, <1>2, NoFault DEF SInv, STransaction, SNamed, SLo, SMid
<1>4. ClosedLo \in LoType /\ ClosedLo.conn = None
  BY DEF LoType, ClosedLo
<1>5. CASE LoOpenFails /\ (UNCHANGED running \/ (_conn # None /\ running' = [running EXCEPT ![_conn] = 0]))
  <2>1. lo' = ClosedLo /\ UNCHANGED <<owner, in_tx, tx, db_lock, pend, reader>>
    BY <1>5 DEF LoOpenFails
  <2>2. running' \in [Conns -> {0, 1}] /\ \A d \in Conns : running'[d] # 0 => running[d] # 0
    BY <1>5 DEF SInv, STypes
  <2>3. SWork'
    <3>1. Locks \subseteq Locks'
      BY <1>1, <1>3, <2>1, LocksKept
    <3> QED
      BY <1>1, <2>2, <3>1, WorkKept
  <2>4. ~LoKeeps'
    BY <1>4, <2>1 DEF LoKeeps
  <2>5. SMine' /\ SInTx' /\ SRefused' /\ SLocked' /\ SRows'
    BY <1>1, <2>1 DEF SInv, STransaction, SMine, SInTx, SRefused, SLocked, NoneMine, SRows
  <2>6. SAccount' /\ SLo'
    BY <1>1, <1>3, <2>1, <2>4 DEF SInv, STransaction, SAccount, SLo
  <2>7. STypes'
    BY <1>1, <1>2, <1>4, <2>1, <2>2 DEF SInv, STypes
  <2> QED
    BY <1>2, <1>3, <2>3, <2>5, <2>6, <2>7 DEF SInv, STransaction
<1>6. ASSUME ~in_transaction, NEW c \in Conns, NEW ok \in BOOLEAN, LoOpens(c, ok) PROVE SInv'
  <2>1. /\ Opens(c) /\ Taken(c) /\ Discards(c)
        /\ in_tx' = [in_tx EXCEPT ![c] = ok] /\ tx' = [tx EXCEPT ![c] = IF ok THEN "open" ELSE "none"]
        /\ db_lock' = (IF ok THEN LockOf(c) ELSE NoLock)
        /\ lo' = (IF ok THEN [st |-> "open", conn |-> c] ELSE ClosedLo)
        /\ running' = [running EXCEPT ![c] = IF c = _conn \/ ~ok THEN 0 ELSE 1]
    BY <1>6 DEF LoOpens
  <2>2. \A d \in Conns : ~in_tx[d] /\ tx[d] = "none"
    <3>1. SMine /\ SInTx
      BY DEF SInv, STransaction
    <3> QED
      BY <1>6, <3>1, InTransaction DEF SInTx
  <2>3. db_lock = NoLock /\ begun = FALSE /\ refused = FALSE
    <3>1. db_lock = NoLock
      BY <2>1, <2>2, OpensFacts
    <3> QED
      BY <1>3, <2>2, <3>1 DEF SInv, STransaction, SRefused, SAccount, STypes
  <2>4. LockOf(c) \in Lock \ {NoLock} /\ LockOf(c)[1] = c
    BY <2>3, LockOfFacts DEF SInv
  <2>5. owner' \in [Conns -> Others \cup {Me, None}] /\ SMine' /\ owner'[c] = Me
    BY <2>1, TakenFacts
  <2>6. reader' \in ReaderType /\ pend' \in [Conns -> Nat \cup {NoRows}] /\ reader'.lock = reader.lock /\ SRows'
    BY <2>1, DiscardsFacts
  <2>7. /\ in_tx' \in [Conns -> BOOLEAN] /\ tx' \in [Conns -> {"none", "open", "failed"}]
        /\ in_tx'[c] = ok /\ (tx'[c] = "none" <=> ~ok)
        /\ \A d \in Conns : d # c => ~in_tx'[d] /\ tx'[d] = "none"
    BY <2>1, <2>2 DEF SInv, STypes
  <2>8. /\ running' \in [Conns -> {0, 1}]
        /\ \A d \in Conns : running'[d] # 0 => running[d] # 0 \/ (d = c /\ ok)
    BY <2>1 DEF SInv, STypes
  <2>9. SWork'
    <3>1. Locks \subseteq Locks'
      BY <1>1, <1>3, <2>3, <2>6, LocksKept
    <3>2. ok => LockOf(c) \in Locks'
      BY <2>1, <2>4, LocksMembers
    <3> QED
      BY <1>1, <2>4, <2>8, <3>1, <3>2, WorkKept
  <2>10. SInTx'
    BY <2>5, <2>7 DEF SInTx
  <2>11. SRefused'
    BY <1>1, <2>3, <2>7 DEF SRefused
  <2>12. c # None
    BY SessionAssumption
  <2>13. lo' \in LoType /\ (LoKeeps' <=> ok) /\ (ok => lo'.conn = c /\ lo'.st = "open")
    BY <1>4, <2>1, <2>12 DEF LoType, LoKeeps
  <2>14. SLocked'
    BY <2>1, <2>4, <2>7 DEF SLocked
  <2>15. SAccount' /\ SLo'
    BY <1>1, <2>3, <2>5, <2>7, <2>13 DEF SAccount, SLo
  <2>16. db_lock' \in Lock
    BY <2>1, <2>4 DEF Lock
  <2>17. STypes'
    BY <1>1, <1>2, <2>5, <2>6, <2>7, <2>8, <2>13, <2>16 DEF SInv, STypes
  <2> QED
    BY <1>2, <1>3, <2>5, <2>6, <2>9, <2>10, <2>11, <2>14, <2>15, <2>17 DEF SInv, STransaction
<1>7. CASE _conn # None /\ running[_conn] = 1
  <2>1. LoOpenFails /\ UNCHANGED running
    BY <1>7 DEF LoOpen
  <2> QED
    BY <1>5, <2>1
<1>8. CASE ~(_conn # None /\ running[_conn] = 1) /\ in_transaction
  <2>1. LoOpenFails /\ running' = [running EXCEPT ![_conn] = 0] /\ _conn # None
    BY <1>8 DEF LoOpen, in_transaction
  <2> QED
    BY <1>5, <2>1
<1>9. CASE ~(_conn # None /\ running[_conn] = 1) /\ ~in_transaction
  <2>1. (\E c \in Conns, ok \in BOOLEAN : LoOpens(c, ok)) \/ (LoOpenFails /\ UNCHANGED running)
    BY <1>9 DEF LoOpen
  <2> QED
    BY <1>5, <1>6, <1>9, <2>1
<1> QED
  BY <1>7, <1>8, <1>9

\* _conn used without a look.
LEMMA DerefNullStep == ASSUME SInv, DerefNull PROVE SInv'
<1>1. /\ UNCHANGED <<owner, running, in_tx, link, tx, names, job, db_lock, prep, reader, lo, pend,
                     mid, begun, refused>>
      /\ fault' = "null"
  BY DEF DerefNull, stmtVars
<1>2. STypes' /\ SMine' /\ SRows' /\ DestructorThrows'
  BY <1>1 DEF SInv, STypes, SMine, SRows, DestructorThrows
<1>3. SNamed' /\ SMid'
  BY <1>1, SameCall
<1>4. STransaction'
  BY <1>1, SameTransaction DEF NoneMine
<1>5. SWork'
  BY <1>1, LocksMembers DEF SInv, SWork
<1> QED
  BY <1>2, <1>3, <1>4, <1>5 DEF SInv

\* Another database never gets a connection that is in a transaction.
LEMMA EnvironmentStep ==
    ASSUME SInv, fault = "none", Environment, UNCHANGED stmtVars PROVE SInv'
<1>1. UNCHANGED <<db_lock, prep, reader, lo, pend, mid, begun, refused>>
  BY DEF stmtVars
<1>2. SRows' /\ Locks' = Locks
  BY <1>1 DEF SInv, SRows, Locks
<1>3. ASSUME NEW e \in Others, OtherStarts(e) PROVE SInv'
  <2>1. PICK c \in Gettable(e) :
          /\ owner' = [owner EXCEPT ![c] = e]
          /\ running' = [running EXCEPT ![c] = 1]
          /\ job' = [job EXCEPT ![e] = c]
          /\ Reopen(c)
    BY <1>3 DEF OtherStarts
  <2>2. job[e] = None /\ fault' = "none" /\ UNCHANGED <<tx, names>>
    BY <1>3, <2>1 DEF OtherStarts, Reopen
  <2>3. c \in Conns /\ ~in_tx[c] /\ e # Me
    <3>1. e # Me /\ None \notin Conns
      BY SessionAssumption
    <3>2. CASE \E d \in Conns : owner[d] = e
      <4>1. ConnOf(e) \in Conns /\ owner[ConnOf(e)] = e
        BY <3>2 DEF ConnOf
      <4>2. c = ConnOf(e)
        BY <2>1, <3>1, <4>1 DEF Gettable
      <4> QED
        BY <3>1, <4>1, <4>2 DEF SInv, STransaction, SInTx
    <3>3. CASE ~\E d \in Conns : owner[d] = e
      <4>1. ConnOf(e) = None
        BY <3>3 DEF ConnOf
      <4> QED
        BY <2>1, <3>1, <4>1 DEF Gettable, CanBeStolen
    <3> QED
      BY <3>2, <3>3
  <2>4. in_tx' = in_tx /\ link' = link
    <3>1. link = [d \in Conns |-> "up"] /\ in_tx \in [Conns -> BOOLEAN]
      BY DEF SInv, STypes
    <3> QED
      BY <2>1, <2>3, <3>1 DEF Reopen
  <2>5. /\ owner' \in [Conns -> Others \cup {Me, None}] /\ running' \in [Conns -> {0, 1}]
        /\ job' \in [Others -> Conns \cup {None}]
        /\ \A d \in Conns : in_tx[d] => owner'[d] = owner[d]
        /\ \A d \in Conns : owner'[d] = Me => owner[d] = Me
    BY <2>1, <2>3 DEF SInv, STypes
  <2>6. SMine' /\ SNamed' /\ SMid' /\ mid' \in MidType /\ DestructorThrows'
    BY <1>1, <2>2, <2>5, NoFault, SameCall DEF SInv, SMine
  <2>7. \A d \in Conns : in_tx[d] => owner'[d] = Me
    BY <2>5 DEF SInv, STransaction, SInTx
  <2>8. SInTx' /\ SRefused' /\ SAccount'
    BY <1>1, <2>2, <2>4, <2>7 DEF SInv, STransaction, SInTx, SRefused, SAccount, LoKeeps
  <2>9. SLocked'
    BY <1>1, <2>4, <2>5 DEF SInv, STransaction, SLocked, NoneMine
  <2>10. SLo'
    <3>1. LoKeeps => \E d \in Conns : in_tx[d] /\ owner[d] = Me
      BY DEF SInv, STransaction, SAccount, SInTx
    <3>2. LoKeeps => lo.conn \in Conns /\ in_tx[lo.conn] /\ lo.st = "open"
      BY <3>1 DEF SInv, STransaction, SLo, SMine
    <3> QED
      BY <1>1, <2>7, <3>2 DEF SLo, LoKeeps
  <2>11. SWork'
    <3>1. job'[e] = c /\ \A x \in Others : x # e => job'[x] = job[x]
      BY <2>1 DEF SInv, STypes
    <3>2. \A d \in Conns : d # c => running'[d] = running[d]
      BY <2>1 DEF SInv, STypes
    <3>3. \A x \in Others, d \in Conns : job[x] = d => job'[x] = d
      BY <2>2, <3>1, SessionAssumption
    <3> QED
      BY <1>2, <3>1, <3>2, <3>3, WorkAccounted
  <2>12. STypes'
    BY <1>1, <2>2, <2>4, <2>5 DEF SInv, STypes
  <2> QED
    BY <1>2, <2>6, <2>8, <2>9, <2>10, <2>11, <2>12 DEF SInv, STransaction
<1>4. ASSUME NEW e \in Others, OtherEnds(e) PROVE SInv'
  <2>1. /\ job[e] # None /\ running' = [running EXCEPT ![job[e]] = 0] /\ job' = [job EXCEPT ![e] = None]
        /\ UNCHANGED <<owner, in_tx, link, tx, names, fault>>
    BY <1>4 DEF OtherEnds
  <2>2. /\ running' \in [Conns -> {0, 1}] /\ job' \in [Others -> Conns \cup {None}] /\ job[e] \in Conns
        /\ running'[job[e]] = 0 /\ \A d \in Conns : running'[d] # 0 => running[d] # 0 /\ d # job[e]
        /\ \A x \in Others : x # e => job'[x] = job[x]
    BY <2>1 DEF SInv, STypes
  <2>3. SWork'
    BY <1>2, <2>2, WorkAccounted
  <2>4. STypes' /\ SMine' /\ DestructorThrows'
    BY <1>1, <2>1, <2>2, NoFault DEF SInv, STypes, SMine
  <2>5. STransaction' /\ SNamed' /\ SMid'
    BY <1>1, <2>1, SameTransaction, SameCall DEF NoneMine
  <2> QED
    BY <1>2, <2>3, <2>4, <2>5 DEF SInv
<1>5. ASSUME NEW c \in Conns, LinkLost(c) PROVE SInv'
  BY <1>5, StatementsAssumption DEF LinkLost
<1> QED
  BY <1>3, <1>4, <1>5 DEF Environment

(***************************************************************************)
(* The theorems.                                                            *)
(***************************************************************************)
\* Nothing is open at the start.
LEMMA InitSInv == Init => SInv
<1> SUFFICES ASSUME Init PROVE SInv
  OBVIOUS
<1>1. /\ NoReader \in ReaderType /\ ClosedLo \in LoType /\ ClosedLo.conn = None /\ NoLock \in Lock
      /\ NoPrep \in PrepType /\ NoCall \in MidType /\ NoCall.op = "none" /\ NoCall.new.lock = NoLock
  BY MidFacts DEF NoReader, ClosedLo, ReaderType, LoType, Lock
<1>2. STypes
  BY <1>1 DEF Init, SessionInit, STypes
<1>3. SMine /\ SInTx /\ SRefused
  BY SessionAssumption DEF Init, SessionInit, SMine, SInTx, SRefused
<1>4. SLocked /\ SAccount /\ SLo
  BY <1>1 DEF Init, SessionInit, SLocked, SAccount, SLo, LoKeeps
<1>5. SRows
  BY DEF Init, SRows, NoReader
<1>6. SWork /\ SNamed /\ SMid /\ DestructorThrows
  BY <1>1 DEF Init, SessionInit, SWork, SNamed, SMid, DestructorThrows
<1> QED
  BY <1>2, <1>3, <1>4, <1>5, <1>6 DEF SInv, STransaction

\* One case per call.
LEMMA NextSInv == SInv /\ [Next]_vars => SInv'
<1> SUFFICES ASSUME SInv, [Next]_vars PROVE SInv'
  OBVIOUS
<1>1. CASE UNCHANGED vars
  <2>1. UNCHANGED <<owner, running, in_tx, link, tx, names, job, fault, db_lock, prep, reader, lo, pend,
                    mid, begun, refused>>
    BY <1>1 DEF vars, sessionVars, stmtVars
  <2>2. STypes' /\ SMine' /\ SRows'
    BY <2>1 DEF SInv, STypes, SMine, SRows
  <2>3. STransaction' /\ SNamed' /\ SMid'
    BY <2>1, SameTransaction, SameCall DEF NoneMine
  <2>4. SWork'
    BY <2>1, LocksMembers DEF SInv, SWork
  <2>5. DestructorThrows'
    BY <2>1 DEF SInv, DestructorThrows, _conn, ConnOf
  <2> QED
    BY <2>2, <2>3, <2>4, <2>5 DEF SInv
<1>2. CASE fault = "none" /\ mid = NoCall /\ Call
  <2>1. ASSUME NEW c \in Conns, Query(c) \/ Begin(c) PROVE SInv'
    BY <1>2, <2>1, QueryStep, BeginStep
  <2>2. ASSUME NEW c \in Conns, NEW what \in {"set", "release", "rollback"}, Savepoint(c, what) PROVE SInv'
    BY <1>2, <2>2, SavepointStep
  <2>3. ASSUME NEW c \in Conns, NEW i \in Slots, PreparedQuery(c, i) \/ DropDeallocating(c, i) PROVE SInv'
    BY <1>2, <2>3, QueryStep, LetGoStep
  <2>4. ASSUME NEW c \in Conns, NEW n \in Names, deallocate_prepared(c, n) PROVE SInv'
    BY <1>2, <2>4, LetGoStep
  <2>5. ASSUME NEW c \in Conns, NEW i \in Slots, NEW n \in Names, Prepare(c, i, n) PROVE SInv'
    BY <1>2, <2>5, PrepareStep
  <2>6. ASSUME NEW c \in Conns, query_reader(c) \/ FirstRow(c) \/ OtherRows(c) \/ CloseReader(c) \/ DropReader(c)
        PROVE  SInv'
    BY <1>2, <2>6, QueryReaderStep, FirstRowStep, OtherRowsStep, CloseReaderStep, DropReaderStep
  <2>7. ASSUME NEW c \in Conns, LoCall(c) PROVE SInv'
    BY <1>2, <2>7, LetGoStep
  <2>8. ASSUME CommitOrRollback \/ Close \/ LoUse \/ LoClose PROVE SInv'
    BY <1>2, <2>8, CommitStep, CloseStep, LoUseStep, LoCloseStep
  <2>9. ASSUME NEW i \in Slots, DropPrepared(i) PROVE SInv'
    BY <1>2, <2>9, DropPreparedStep
  <2> QED
    BY <1>2, <2>1, <2>2, <2>3, <2>4, <2>5, <2>6, <2>7, <2>8, <2>9 DEF Call
<1>3. CASE fault = "none" /\ SecondStep
  BY <1>3, PrepareEndsStep, LoOpenStep, LoCreateStep, DeallocatesStep, DeallocateFailsStep DEF SecondStep
<1>4. CASE fault = "none" /\ \E i \in Slots : DestructorEnds(i)
  BY <1>4, DestructorEndsStep
<1>5. CASE fault = "none" /\ DerefNull
  BY <1>5, DerefNullStep
<1>6. CASE fault = "none" /\ Environment /\ UNCHANGED stmtVars
  BY <1>6, EnvironmentStep
<1> QED
  BY <1>1, <1>2, <1>3, <1>4, <1>5, <1>6 DEF Next

\* SInv holds in every reachable state.
LEMMA SInvAlways == Spec => []SInv
  BY InitSInv, NextSInv, PTL DEF Spec

\* begin(), commit(), rollback(), close() and the large objects' own
\* transactions: the server is in one exactly as long as the program or an open
\* large object needs it; the flag outlives it only after a refused COMMIT, and
\* _lock goes with the flag up to close().
THEOREM TransactionsAccountedThm == Spec => []TransactionsAccounted
<1>1. SInv => TransactionsAccounted
  <2> SUFFICES ASSUME SInv PROVE TransactionsAccounted
    OBVIOUS
  <2>1. in_transaction <=> \E c \in Conns : in_tx[c]
    BY InTransaction DEF SInv, STransaction
  <2>2. (\A c \in Conns : owner[c] = Me => _conn = c) /\ (NoneMine <=> _conn = None)
    BY ConnFacts DEF SInv, NoneMine
  <2>3. (\E c \in Conns : tx[c] # "none") <=> begun \/ lo.conn # None
    BY DEF SInv, STransaction, SAccount, LoKeeps
  <2>4. in_transaction <=> (\E c \in Conns : tx[c] # "none") \/ refused
    BY <2>1 DEF SInv, STransaction, SInTx, SRefused
  <2>5. \A c \in Conns : tx[c] # "none" \/ in_tx[c] => c = _conn
    BY <2>2 DEF SInv, STransaction, SInTx
  <2>6. /\ in_transaction => db_lock # NoLock
        /\ db_lock # NoLock => in_transaction \/ _conn = None
    BY <2>1, <2>2 DEF SInv, STransaction, SLocked
  <2> QED
    BY <2>3, <2>4, <2>5, <2>6 DEF TransactionsAccounted
<1> QED
  BY <1>1, SInvAlways, PTL

\* data_large_object_t: an open large object whose transaction has not ended
\* is on the database's connection, and the server is in that transaction.
THEOREM LoUsableThm == Spec => []LoUsable
<1>1. SInv => LoUsable
  <2> SUFFICES ASSUME SInv, LoKeeps PROVE _conn = lo.conn /\ tx[_conn] # "none"
    BY DEF LoUsable, LoKeeps
  <2>1. lo.conn \in Conns /\ owner[lo.conn] = Me /\ \E c \in Conns : tx[c] # "none"
    BY DEF SInv, STransaction, SLo, SAccount
  <2>2. tx[lo.conn] # "none"
    BY <2>1 DEF SInv, STransaction, SInTx, SMine
  <2>3. _conn = lo.conn
    BY <2>1, ConnFacts DEF SInv
  <2> QED
    BY <2>2, <2>3
<1> QED
  BY <1>1, SInvAlways, PTL

\* data_reader_t: a reader that was not interrupted and has ended has given
\* the program every row.
THEOREM ReaderRowsThm == Spec => []ReaderRows
<1>1. SInv => ReaderRows
  BY DEF SInv, SRows, ReaderRows
<1> QED
  BY <1>1, SInvAlways, PTL

\* connection_lock_t: no mix of prepared statements, readers, large objects and
\* transactions leaves a connection marked as working with no lock object and
\* no other database's query behind it.
THEOREM NoLeakedWorkThm == Spec => []NoLeakedWork
<1>1. SInv => NoLeakedWork
  BY DEF SInv, SWork, NoLeakedWork
<1> QED
  BY <1>1, SInvAlways, PTL

\* ~data_prepared_t: the cases in which an exception of deallocate_prepared can
\* leave the destructor are the listed ones, and no other, although the program
\* may call deallocate_prepared itself.
THEOREM DestructorThrowsThm == Spec => []DestructorThrows
<1>1. SInv => DestructorThrows
  BY DEF SInv
<1> QED
  BY <1>1, SInvAlways, PTL
=============================================================================
