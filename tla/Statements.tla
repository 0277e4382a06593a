----------------------------- MODULE Statements -----------------------------
(***************************************************************************)
(* Synchronous calls whose objects outlive them: prepared statements, data  *)
(* readers, large objects, savepoints and the transactions around them, all *)
(* on the one connection of the database, each with its own idea of which   *)
(* lock object keeps it. A call is one step, or two where it lets go of the *)
(* connection in between. Links hold, and transactions are begun and ended  *)
(* by the calls for it, not by the text of a query.                         *)
(* Two results of libpq matter: PQsendQuery refuses to start while a result *)
(* is pending, PQexec throws the pending result away.                       *)
(***************************************************************************)
EXTENDS Session, TLC

CONSTANTS
    Slots,      \* the program's data_prepared_t variables
    Names,      \* names of prepared statements
    MaxRows     \* bound on the rows of a reader
ASSUME StatementsAssumption == Lossy = {} /\ IsFiniteSet(Slots) /\ MaxRows \in Nat

VARIABLES
    db_lock,    \* database_t::_lock
    prep,       \* slot -> the data_prepared_t object in it
    reader,     \* the data_reader_t object
    lo,         \* the data_large_object_t object, and where the server has its descriptor
    pend,       \* connection -> rows libpq still has to deliver, or NoRows
    mid,        \* the call that is between its two steps
    begun,      \* history: the program's own transaction is not over
    refused     \* history: its COMMIT was refused, and nothing since has ended it

stmtVars == <<db_lock, prep, reader, lo, pend, mid, begun, refused>>
vars == <<sessionVars, stmtVars>>

NoLock == <<>>
NoRows == -1
NoPrep == [name |-> None, lock |-> NoLock, gone |-> FALSE]
NoReader == [st |-> "none", lock |-> NoLock, conn |-> None, left |-> 0, cut |-> FALSE]
ClosedLo == [st |-> "closed", conn |-> None]
NoCall == [op |-> "none", slot |-> None, new |-> NoPrep, exists |-> FALSE]

Init ==
    /\ SessionInit
    /\ db_lock = NoLock
    /\ prep = [i \in Slots |-> NoPrep]
    /\ reader = NoReader /\ lo = ClosedLo
    /\ pend = [c \in Conns |-> NoRows]
    /\ mid = NoCall
    /\ begun = FALSE /\ refused = FALSE

Locks == ({prep[i].lock : i \in Slots} \cup {reader.lock, db_lock, mid.new.lock}) \ {NoLock}
NewLock(c) == CHOOSE l \in {c} \X (1..Cardinality(Slots) + 4) : l \notin Locks

(***************************************************************************)
(* open_connection(), and what the lock object it returns does to the       *)
(* connection: kept, or dead when the call returns.                         *)
(***************************************************************************)
Opens(c) == IF db_lock # NoLock THEN c = _conn /\ c # None ELSE c \in Gettable(Me)
LockOf(c) == IF db_lock # NoLock THEN db_lock ELSE NewLock(c)
Taken(c) == owner' = [owner EXCEPT ![c] = Me]
AfterCall(c) ==
    /\ Taken(c)
    /\ running' = IF db_lock # NoLock THEN running ELSE [running EXCEPT ![c] = 0]
AndKeeps(c) ==
    /\ Taken(c)
    /\ running' = IF db_lock # NoLock THEN running ELSE [running EXCEPT ![c] = 1]

\* The rows that are left are not the reader's any more.
Cut(r) == [r EXCEPT !.cut = TRUE, !.conn = None, !.left = 0]
\* PQexec starts with PQgetResult until there is none.
Discards(c) ==
    /\ pend' = [pend EXCEPT ![c] = NoRows]
    /\ reader' = IF pend[c] # NoRows /\ c = reader.conn
                 THEN Cut(reader) ELSE reader
Failed(c) == tx' = [tx EXCEPT ![c] = IF @ = "open" THEN "failed" ELSE @]

rest == <<in_tx, link, names, job, lost, fault>>

\* execute, query, query_single, query_value; "another command is already
\* in progress" when a reader is open. An error in a transaction fails it.
Query(c) ==
    /\ Opens(c) /\ AfterCall(c)
    /\ \/ UNCHANGED tx
       \/ pend[c] = NoRows /\ Failed(c)
    /\ UNCHANGED rest /\ UNCHANGED stmtVars

Begin(c) ==
    /\ Opens(c) /\ AndKeeps(c)
    /\ db_lock' = LockOf(c)
    /\ IF in_tx[c] THEN UNCHANGED <<in_tx, tx, pend, reader, begun>>
       ELSE /\ in_tx' = [in_tx EXCEPT ![c] = TRUE] /\ tx' = [tx EXCEPT ![c] = "open"]
            /\ begun' = TRUE /\ Discards(c)
    /\ UNCHANGED <<link, names, job, lost, fault, prep, lo, mid, refused>>

\* COMMIT and ROLLBACK: PQexec; then the server is in no transaction.
TransactionOver(c) ==
    /\ tx' = [tx EXCEPT ![c] = "none"] /\ begun' = FALSE
    /\ Discards(c)
\* They went well: the flag, and _lock.reset(). So does a ROLLBACK, or a COMMIT
\* of what has failed or is no more.
EndsTransaction ==
    /\ TransactionOver(_conn)
    /\ in_tx' = [in_tx EXCEPT ![_conn] = FALSE]
    /\ db_lock' = NoLock
    /\ refused' = FALSE
\* The server refuses COMMIT (a deferred constraint) and has rolled back:
\* commit_transaction throws, the flag and _lock stay.
RefusesCommit ==
    /\ tx[_conn] = "open"
    /\ TransactionOver(_conn)
    /\ refused' = TRUE
    /\ UNCHANGED <<in_tx, db_lock>>
\* The descriptor of a large object goes with the transaction.
LoEnded == lo' = [lo EXCEPT !.conn = None]
CommitOrRollback ==
    /\ _conn # None /\ in_tx[_conn]
    /\ EndsTransaction \/ RefusesCommit
    /\ LoEnded
    /\ UNCHANGED <<prep, mid>>
    /\ running' = Stopped(Locks, Locks')
    /\ UNCHANGED <<owner, link, names, job, lost, fault>>

\* set_savepoint, release_savepoint and rollback_savepoint: the server fails
\* the transaction for a savepoint it does not know; rollback_savepoint alone
\* works in a failed transaction, and does not look at the answer.
Savepoint(c, what) ==
    /\ c = _conn /\ in_tx[c]
    /\ \/ Failed(c)
       \/ tx[c] = "open" /\ UNCHANGED tx
       \/ what = "rollback" /\ tx[c] # "none" /\ tx' = [tx EXCEPT ![c] = "open"]
    /\ Discards(c)
    /\ UNCHANGED <<owner, running, db_lock, prep, lo, mid, begun, refused>> /\ UNCHANGED rest

\* close(): release() rolls back and stops the work; _conn is NULL then, and
\* _lock stays as it is.
Close ==
    /\ _conn # None
    /\ owner' = [owner EXCEPT ![_conn] = None]
    /\ running' = [running EXCEPT ![_conn] = 0]
    /\ IF in_tx[_conn]
       THEN TransactionOver(_conn) /\ in_tx' = [in_tx EXCEPT ![_conn] = FALSE] /\ LoEnded
       ELSE UNCHANGED <<in_tx, tx, begun, pend, reader, lo>>
    /\ refused' = FALSE
    /\ UNCHANGED <<link, names, job, lost, fault, db_lock, prep, mid>>

(***************************************************************************)
(* Prepared statements.                                                     *)
(***************************************************************************)
PreparedNames_Unsent(c, n) == names
PreparedNames(c, n) == [names EXCEPT ![c] = @ \cup {n}]
\* prepare(), up to the answer of pg_prepared_statements. That query has a
\* lock object of its own, whose end stops the work that the lock object of
\* prepare() has started: another database may take the connection.
Prepare(c, i, n) ==
    /\ prep[i] = NoPrep
    /\ Opens(c) /\ AfterCall(c)
    /\ \/ pend[c] # NoRows /\ UNCHANGED <<tx, mid>>
       \/ pend[c] = NoRows /\ Failed(c) /\ UNCHANGED mid
       \/ /\ pend[c] = NoRows /\ tx[c] # "failed"
          /\ mid' = [op |-> "prepare", slot |-> i, exists |-> n \in names[c],
                     new |-> [NoPrep EXCEPT !.name = n, !.lock = LockOf(c)]]
          /\ UNCHANGED tx
    /\ UNCHANGED <<db_lock, prep, reader, lo, pend, begun, refused>> /\ UNCHANGED rest
\* The rest of it: an object for the name that exists, or PREPARE on the _conn
\* of the moment, which the server may refuse.
PrepareEnds ==
    /\ mid.op = "prepare" /\ mid' = NoCall
    /\ UNCHANGED <<db_lock, reader>>
    /\ \/ /\ mid.exists \/ _conn # None
          /\ prep' = [prep EXCEPT ![mid.slot] = mid.new]
          /\ names' = IF mid.exists THEN names ELSE PreparedNames(_conn, mid.new.name)
          /\ UNCHANGED tx
       \/ ~mid.exists /\ _conn # None /\ Failed(_conn) /\ UNCHANGED <<prep, names>>
    /\ running' = Stopped(Locks, Locks')
    /\ UNCHANGED <<owner, in_tx, link, job, lost, fault, lo, pend, begun, refused>>

\* execute, query, ... of a data_prepared_t; the connection may be another.
PreparedQuery(c, i) ==
    /\ prep[i] # NoPrep /\ Opens(c) /\ AfterCall(c)
    /\ \/ (pend[c] # NoRows \/ prep[i].name \in names[c]) /\ UNCHANGED tx
       \/ pend[c] = NoRows /\ Failed(c)
    /\ UNCHANGED rest /\ UNCHANGED stmtVars

\* deallocate_prepared(name): a connection to quote the name with, which is
\* let go before execute() opens one for DEALLOCATE PREPARE. The program calls
\* it, and so does ~data_prepared_t if the statement was prepared with
\* auto_deallocate; nothing else reads that flag, so the destructor tries both.
Deallocating(op, i, n) == [op |-> op, slot |-> i, new |-> [NoPrep EXCEPT !.name = n], exists |-> FALSE]
Quoted(c) ==
    /\ Opens(c) /\ AfterCall(c)
    /\ UNCHANGED <<tx, db_lock, prep, reader, lo, pend, begun, refused>> /\ UNCHANGED rest
deallocate_prepared(c, n) == Quoted(c) /\ mid' = Deallocating("deallocate", None, n)
DropDeallocating(c, i) ==
    /\ prep[i] # NoPrep
    /\ Quoted(c) /\ mid' = Deallocating("drop", i, prep[i].name)

CannotDeallocate(c, n) == pend[c] # NoRows \/ tx[c] = "failed" \/ n \notin names[c]
\* The statement is gone, for every object of its name; with the object that
\* is destroyed goes its lock object.
Deallocates(c) ==
    /\ mid.op \in {"deallocate", "drop"} /\ mid' = NoCall
    /\ Opens(c) /\ ~CannotDeallocate(c, mid.new.name)
    /\ Taken(c)
    /\ UNCHANGED <<db_lock, reader>>
    /\ names' = [names EXCEPT ![c] = @ \ {mid.new.name}]
    /\ prep' = [k \in Slots |->
           IF mid.op = "drop" /\ k = mid.slot THEN NoPrep
           ELSE [prep[k] EXCEPT !.gone = @ \/ prep[k].name = mid.new.name]]
    /\ LET stopped == Stopped(Locks, Locks')
       IN running' = IF db_lock # NoLock THEN stopped ELSE [stopped EXCEPT ![c] = 0]
    /\ UNCHANGED <<in_tx, link, tx, job, lost, fault, lo, pend, begun, refused>>
\* An exception of the program's own call.
DeallocateFails ==
    /\ mid.op = "deallocate" /\ mid' = NoCall
    /\ \/ (\A c \in Conns : ~Opens(c)) /\ UNCHANGED <<owner, running, tx>>
       \/ \E c \in Conns :
             /\ Opens(c) /\ CannotDeallocate(c, mid.new.name) /\ AfterCall(c)
             /\ IF pend[c] # NoRows THEN UNCHANGED tx ELSE Failed(c)
    /\ UNCHANGED <<db_lock, prep, reader, lo, pend, begun, refused>> /\ UNCHANGED rest
\* It leaves the destructor otherwise, from the first step or the second.
DestructorEnds(i) ==
    /\ prep[i] # NoPrep
    /\ mid = NoCall \/ (mid.op = "drop" /\ mid.slot = i)
    /\ \/ (\A c \in Conns : ~Opens(c)) /\ db_lock = NoLock /\ UNCHANGED owner
       \/ \E c \in Conns : /\ mid.op = "drop" /\ Opens(c)
                           /\ CannotDeallocate(c, prep[i].name) /\ Taken(c)
    /\ mid' = Deallocating("drop", i, prep[i].name)
    /\ fault' = "terminate"
    /\ UNCHANGED <<running, in_tx, link, tx, names, job, lost>>
    /\ UNCHANGED <<db_lock, prep, reader, lo, pend, begun, refused>>
\* ~data_prepared_t of a statement that is not to be deallocated.
DropPrepared(i) ==
    /\ prep[i] # NoPrep
    /\ prep' = [prep EXCEPT ![i] = NoPrep]
    /\ UNCHANGED <<owner, tx, db_lock, reader, lo, pend, mid, begun, refused>> /\ UNCHANGED rest
    /\ running' = Stopped(Locks, Locks')

(***************************************************************************)
(* Data readers.                                                            *)
(***************************************************************************)
query_reader(c) ==
    /\ reader = NoReader /\ Opens(c) /\ AndKeeps(c)
    /\ reader' = [NoReader EXCEPT !.st = "new", !.lock = LockOf(c), !.conn = c]
    /\ UNCHANGED <<tx, db_lock, prep, lo, pend, mid, begun, refused>> /\ UNCHANGED rest

\* next(), once the query is sent: a row, or the last result, which has none.
\* It asks the _conn of the moment. n rows are still to come.
NextRow_Early(c, n) ==
    LET r == IF c = reader.conn THEN reader ELSE Cut(reader)
    IN IF n \in {NoRows, 0, 1} THEN [r EXCEPT !.st = "end"]
       ELSE IF r.cut THEN r ELSE [r EXCEPT !.left = @ - 1]
NextRow(c, n) ==
    LET r == IF c = reader.conn THEN reader ELSE Cut(reader)
    IN IF n \in {NoRows, 0} THEN [r EXCEPT !.st = "end"]
       ELSE IF r.cut THEN r ELSE [r EXCEPT !.left = @ - 1]

\* The server fails instead of sending the next row or the end: next() throws,
\* and only the end is left to read.
RowFails(c) ==
    /\ pend[c] # NoRows
    /\ reader' = Cut(reader)
    /\ pend' = [pend EXCEPT ![c] = 0]
    /\ Failed(c)

readerRest == <<owner, db_lock, prep, lo, mid, begun, refused>>
\* The first next() sends the query: refused while a result is pending, an
\* error of the server, no row at all, or the first row.
FirstRow(c) ==
    /\ reader.st = "new" /\ c = _conn /\ pend[c] = NoRows
    /\ \/ /\ reader' = [Cut(reader) EXCEPT !.st = "sent"]
          /\ pend' = [pend EXCEPT ![c] = 0]
          /\ Failed(c)
       \/ /\ tx[c] # "failed"
          /\ reader' = [reader EXCEPT !.st = "end", !.conn = c]
          /\ UNCHANGED <<pend, tx>>
       \/ /\ tx[c] # "failed"
          /\ \E n \in 1..MaxRows :
                /\ reader' = [reader EXCEPT !.st = "sent", !.conn = c, !.left = n - 1]
                /\ pend' = [pend EXCEPT ![c] = n - 1]
          /\ UNCHANGED tx
    /\ UNCHANGED <<running, readerRest>> /\ UNCHANGED rest
OtherRows(c) ==
    /\ reader.st = "sent" /\ c = _conn
    /\ \/ /\ reader' = NextRow(c, pend[c])
          /\ pend' = [pend EXCEPT ![c] = IF @ \in {NoRows, 0} THEN NoRows ELSE @ - 1]
          /\ UNCHANGED tx
       \/ RowFails(c)
    /\ UNCHANGED <<running, readerRest>> /\ UNCHANGED rest

\* close(), unless the reader has ended: the query is cancelled, which fails
\* the transaction if the server still works on it, and the rest is read.
Closes(c) ==
    \/ reader.st = "end" /\ UNCHANGED <<pend, tx>>
    \/ /\ reader.st \in {"new", "sent"} /\ c = _conn
       /\ pend' = [pend EXCEPT ![c] = NoRows]
       /\ UNCHANGED tx \/ (pend[c] # NoRows /\ Failed(c))
CloseReader(c) ==
    /\ Closes(c)
    /\ reader' = IF reader.st = "end" THEN reader ELSE [Cut(reader) EXCEPT !.st = "end"]
    /\ UNCHANGED <<running, readerRest>> /\ UNCHANGED rest
\* ~data_reader_t: close(), then the task with its lock object goes.
DropReader(c) ==
    /\ Closes(c)
    /\ reader' = NoReader
    /\ UNCHANGED readerRest
    /\ running' = Stopped(Locks, Locks')
    /\ UNCHANGED rest

(***************************************************************************)
(* Large objects.                                                           *)
(***************************************************************************)
\* open(), create_lo() and unlink() start with open_connection(), whose lock
\* object dies at once.
LoCall(c) ==
    /\ Opens(c) /\ AfterCall(c)
    /\ mid' = [NoCall EXCEPT !.op = "lo"]
    /\ UNCHANGED <<tx, db_lock, prep, reader, lo, pend, begun, refused>> /\ UNCHANGED rest
\* open(): connection_lock_t refuses a connection that works already; begin() takes
\* another connection when _conn is gone; lo_open may fail, then rollback().
\* The lock object of this call is destroyed last.
LoOpens_NoBegin(c, ok) ==
    /\ lo' = IF ok THEN [st |-> "open", conn |-> c] ELSE ClosedLo
    /\ UNCHANGED <<owner, running, in_tx, tx, db_lock, pend, reader>>
LoOpens(c, ok) ==
    /\ Opens(c) /\ Taken(c) /\ Discards(c)
    /\ in_tx' = [in_tx EXCEPT ![c] = ok] /\ tx' = [tx EXCEPT ![c] = IF ok THEN "open" ELSE "none"]
    /\ db_lock' = IF ok THEN LockOf(c) ELSE NoLock
    /\ lo' = IF ok THEN [st |-> "open", conn |-> c] ELSE ClosedLo
    /\ running' = [running EXCEPT ![c] = IF c = _conn \/ ~ok THEN 0 ELSE 1]
LoOpenFails ==
    /\ lo' = ClosedLo
    /\ UNCHANGED <<owner, in_tx, tx, db_lock, pend, reader>>
LoOpen ==
    /\ mid.op = "lo" /\ mid' = NoCall
    /\ lo.st = "closed"
    /\ IF _conn # None /\ running[_conn] = 1 THEN LoOpenFails /\ UNCHANGED running
       ELSE IF in_transaction THEN LoOpenFails /\ running' = [running EXCEPT ![_conn] = 0]
       ELSE \/ \E c \in Conns, ok \in BOOLEAN : LoOpens(c, ok)
            \/ (\A c \in Conns : ~Opens(c)) /\ LoOpenFails /\ UNCHANGED running
    /\ UNCHANGED <<link, names, job, lost, fault, prep, begun, refused>>

\* read, write, tell, seek, resize: "unable to lock" while the connection is
\* marked as working; the descriptor is gone with the transaction.
HasDescriptor == lo.conn # None /\ _conn = lo.conn
LoUse ==
    /\ lo.st = "open" /\ _conn # None /\ running[_conn] # 1
    /\ running' = [running EXCEPT ![_conn] = 0]
    /\ \/ (HasDescriptor \/ pend[_conn] # NoRows) /\ UNCHANGED tx
       \/ pend[_conn] = NoRows /\ Failed(_conn)
    /\ UNCHANGED owner /\ UNCHANGED stmtVars /\ UNCHANGED rest

LoClose_NoCommit ==
    /\ lo.st = "open" /\ _conn # None /\ running[_conn] # 1
    /\ lo' = ClosedLo
    /\ running' = [running EXCEPT ![_conn] = 0]
    /\ UNCHANGED <<owner, tx, db_lock, prep, reader, pend, mid, begun, refused>> /\ UNCHANGED rest
\* lo_close, then commit(), which may be refused, or rollback() when it
\* failed; both throw when the program has ended the transaction itself.
LoClose ==
    /\ lo.st = "open" /\ _conn # None /\ running[_conn] # 1
    /\ lo' = ClosedLo
    /\ running' = [running EXCEPT ![_conn] = 0]
    /\ IF in_tx[_conn]
       THEN EndsTransaction \/ (HasDescriptor /\ pend[_conn] = NoRows /\ RefusesCommit)
       ELSE UNCHANGED <<in_tx, tx, db_lock, pend, reader, begun, refused>>
    /\ UNCHANGED <<owner, link, names, job, lost, fault, prep, mid>>

\* create_lo, unlink: a second lock object, on the _conn of the moment, is
\* refused if that is marked as working; lo_create or lo_unlink may fail.
LoCreateOrUnlink ==
    /\ mid.op = "lo" /\ mid' = NoCall
    /\ _conn # None
    /\ IF running[_conn] = 1 THEN UNCHANGED <<running, tx>>
       ELSE /\ running' = [running EXCEPT ![_conn] = 0]
            /\ UNCHANGED tx \/ (pend[_conn] = NoRows /\ Failed(_conn))
    /\ UNCHANGED <<owner, db_lock, prep, reader, lo, pend, begun, refused>> /\ UNCHANGED rest

\* Calls that use _conn without a look: commit(), next() or lo_read, and the
\* second steps of prepare() and create_lo().
DerefNull ==
    /\ _conn = None
    /\ mid.op \in {"none", "lo"} \/ (mid.op = "prepare" /\ ~mid.exists)
    /\ fault' = "null"
    /\ UNCHANGED <<owner, running, in_tx, link, tx, names, job, lost, stmtVars>>

Call ==
    \/ \E c \in Conns :
          \/ Query(c) \/ Begin(c)
          \/ \E what \in {"set", "release", "rollback"} : Savepoint(c, what)
          \/ \E i \in Slots : PreparedQuery(c, i) \/ DropDeallocating(c, i)
          \/ \E n \in Names : deallocate_prepared(c, n)
          \/ \E i \in Slots, n \in Names : Prepare(c, i, n)
          \/ query_reader(c) \/ FirstRow(c) \/ OtherRows(c) \/ CloseReader(c) \/ DropReader(c)
          \/ LoCall(c)
    \/ CommitOrRollback \/ Close
    \/ \E i \in Slots : DropPrepared(i)
    \/ LoUse \/ LoClose
SecondStep ==
    \/ PrepareEnds \/ LoOpen \/ LoCreateOrUnlink
    \/ \E c \in Conns : Deallocates(c)
    \/ DeallocateFails
Next ==
    /\ fault = "none"
    /\ \/ mid = NoCall /\ Call
       \/ SecondStep
       \/ \E i \in Slots : DestructorEnds(i)
       \/ DerefNull
       \/ Environment /\ UNCHANGED stmtVars
Spec == Init /\ [][Next]_vars

\* The connections are interchangeable, and so are the program's variables.
Symmetry == Permutations(Conns) \cup Permutations(Slots)

\* Which lock object has which number does not matter: the actions and the
\* properties only ask for its connection, and which of two are the same one.
\* TLC takes two states for one when they agree in this and in the rest.
UpToNumber(l) == <<IF l = NoLock THEN None ELSE l[1], l = db_lock, l = reader.lock,
                   {i \in Slots : prep[i].lock = l}>>
View == <<sessionVars, lo, pend, begun, refused, mid.op, mid.slot, mid.exists, mid.new.name,
          reader.st, reader.conn, reader.left, reader.cut,
          [i \in Slots |-> <<prep[i].name, prep[i].gone, UpToNumber(prep[i].lock)>>],
          UpToNumber(db_lock), UpToNumber(reader.lock), UpToNumber(mid.new.lock)>>

-----------------------------------------------------------------------------
(* Properties                                                              *)

\* The server is in a transaction exactly as long as the program's begin() or
\* an open large object needs one: neither forgets the other's, whatever is
\* closed first. is_in_transaction tells it, on the connection Me has, and
\* outlives it only when COMMIT was refused, up to the next commit, rollback or
\* close; and as long as it tells so _lock is set, which only close() leaves
\* behind.
TransactionsAccounted ==
    LET inTx == \E c \in Conns : tx[c] # "none"
    IN /\ inTx <=> begun \/ lo.conn # None
       /\ in_transaction <=> inTx \/ refused
       /\ \A c \in Conns : tx[c] # "none" \/ in_tx[c] => c = _conn
       /\ in_transaction => db_lock # NoLock
       /\ db_lock # NoLock => in_transaction \/ _conn = None

\* An open large object is used on the connection it was opened on, inside the
\* transaction that keeps its descriptor, until the program ends it (commit(),
\* refused or not, rollback() or close()): other databases cannot take that
\* connection, marked as working or not.
LoUsable == lo.conn # None => _conn = lo.conn /\ tx[_conn] # "none"

\* A reader that reaches its end, on its own connection, with no error of the
\* server and no PQexec in between, has delivered every row of its query.
ReaderRows == reader.st = "end" /\ ~reader.cut => reader.left = 0

\* A connection that is marked as working has a lock object or a query of
\* another database behind it: no sequence of prepared statements, readers and
\* large objects leaves it marked with nobody to unmark it.
NoLeakedWork ==
    fault = "none" => \A c \in Conns : running[c] # 0 =>
        (\E l \in Locks : l[1] = c) \/ (\E e \in Others : job[e] = c)

\* The destructor of a prepared statement ends the process only when a reader
\* is open, the transaction has failed, the name was deallocated before, by
\* another object of the name or by the program, the statement is in the
\* session of another connection than the database has now, or the pool has
\* none left.
DestructorThrows ==
    fault = "terminate" =>
        \/ _conn = None
        \/ pend[_conn] # NoRows
        \/ tx[_conn] = "failed"
        \/ prep[mid.slot].gone
        \/ \E c \in Conns \ {_conn} : prep[mid.slot].name \in names[c]
=============================================================================
