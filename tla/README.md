# A formal model of pq-async

pq-async is a C++ client library for PostgreSQL on top of libpq. Many
`database_t` objects share a pool of connections per connection string; every
operation exists in a synchronous form, which runs in the calling thread, and in
an asynchronous one, which runs as tasks on an event strand. This directory has
TLA+ modules that model the library, TLC configurations that check them on small
instances, and TLAPS proofs of the main properties for every instance.

## 1. Inventory

| Part | State | Operations | Interaction |
|---|---|---|---|
| connection pool (`data_connection_pool.*`) | `_pools`: string -> vector of connections, `last_stolen_conn_id`, `_max_conn` | `_get_connection`: clean up, create, reuse, steal, throw | called by `database_t` under `conn_pool_mutex`; writes `_conn` of other databases |
| connection | `_res` (locked), `_running` (0, 1 working, 2 reserved), `is_in_transaction`, `_owner`, `_conn` (PGconn), id, last modification date | `lock`, `release`, `is_dead`, `open/close_connection`, `reserve`, `start/stop_work`, `begin/commit/rollback_transaction`, savepoints | flags written with and without the mutex |
| lock object `connection_lock_t` | the connection it locks | constructor `start_work`, destructor `stop_work` | shared pointer in `database_t::_lock`, in tasks, statements and local variables |
| `database_t`, synchronous | `_conn`, `_lock`, `_connection_string` | `open_connection`, `execute`, `query*`, `begin`, `commit`, `rollback`, savepoints, `exec_queries`, `close`, destructor | pool, connection, server |
| `database_t`, asynchronous; connection tasks | strand of tasks, each with its command, lock, callback, deadline | connect with retries, send, consume, cancel, requeue | event strand, pool, callbacks |
| prepared statements, readers, large objects | lock and name; current task; descriptor | prepare/execute/deallocate; next/close; open/read/write/seek/close/unlink | through `database_t` |
| scripts (`split_queries`, `exec_queries`) | the modes of the lexer; COPY mode | splits SQL text into statements and COPY data, sends them in a transaction | `database_t`, libpq |
| parameter lists (`parameters_t`) | owned pointers, and the arrays libpq wants | push_back, replace, remove_at, copies, moves, clean-up | copied or moved into the task that sends them |
| value types (numeric, money, date, net, range, ...) | digits, weight, sign, scale; an amount and its fraction digits | arithmetic, comparison, text and binary conversion | parameters and results of queries |
| event strand and queue | queue of tasks | push, run, requeue | a library outside this repository (tools-md) |

What is hard here: several threads meet in the pool; a connection is taken away
from an idle database (stealing) by writing that database's `_conn`; working
flags change outside the mutex and are a flag, not a count, although several lock
objects may exist; the link to the server may be lost at any time; exceptions
leave operations half done; and the asynchronous side retries, requeues and
calls back. The hazards are listed, each at its line, in `PROJECT.json`.

What makes the parts correct:

* pool: never more than `_max_conn` connections; `_owner` and `_conn` agree; a
  locked connection can always be given back; nothing used is deleted; a request
  fails only when everything is busy, and the wait for it ends;
* transactions: the connection stays with its database until commit, rollback or
  close; the server never keeps a transaction the library has forgotten;
* asynchronous calls: every completion callback runs once, commands reach the
  server in the order of the calls, no task meets a database that lost its
  connection, no connection stays marked as working;
* statements, readers, large objects: they do not lose each other's transaction
  or rows;
* scripts: a script is executed whole or not committed;
* values: what is sent is what was built, what is read is what was sent,
  arithmetic is exact, and a failed conversion is an error and not another number;
* databases: one thread at a time inside libpq on a connection; connections of
  the right string; destructors that do not throw.

## 2. Modules

`ConnectionId` - the order of connection ids (decimal numbers compared as text).

`ConnectionPool` - the pool and the flags of connections. Its variables have the
names of the fields. The vector of a string is a set of ids: ids grow, a
connection is only appended, under the mutex, so the vector is sorted by id and an
index is a rank. `_get_connection` is `GetConnection` (`CreateFirst`, `ReuseFree`,
`CreateMore`, `Steal`, the branches of the code in its order) or
`GetConnectionFails`; each begins with the clean-up (`Dead`, `Live`, `Evicted`).
`PqOpenSucceeds/PqOpenFails` are `connection::open_connection` and
`close_connection`; `Release/ReleaseThrows` are `connection::release` and the
reset of `_conn` in `close`. The module has operators only.

`Database` - the synchronous operations of any number of databases, each used by
one thread. A call is cut into the steps between which other threads can run:
what happens under `conn_pool_mutex` is one step (`open_connection` with all of
`_get_connection`, `close`), sending and reading is another, the destruction of
the lock object a third. `phase` says where the thread of a database is.
`db_lock` is `_lock`, `op_lock` the lock object in the local variable of a query.
`begin` is `BeginOpen` then `BeginTransaction` or `BeginThrows`; `exec_queries` is
`ExecQueries`, a `begin` when there is no transaction, then `ExecEnd` or
`ExecThrows`; the destructor is `Destroy` (close) then `DestroyMembers` (the lock
object, outside the mutex). `link` is the PGconn (absent, ok or broken) and
`session_tx` the truth on the server about a transaction. The server may drop a
link (`LinkLost`) and refuse a COMMIT (`CommitRefused`). Undefined behaviour ends
the process: `fault` records a NULL or deleted connection that is dereferenced, two
threads inside libpq with one PGconn, or an exception that leaves a destructor.
After a fault nothing happens.

`MCDatabase` - the constants of the instances.

`StealScan` - the last part of `_get_connection` at a finer grain: one step for
every look at a connection and for every sleep, while the threads that work on
the connections finish at any time. It justifies the single step of
`ConnectionPool` (`ThrowsOnlyIfAllBusy`, `TakesFirstIdle`) and has what that
module leaves out: the clock and the timeout.

`DatabaseProofs`, `TransactionProofs`, `StealScanProofs`, `AsyncProofs`,
`StatementsProofs`, `ParametersProofs`, `ScriptProofs` - the theorems, and
`SetInduction` the induction principle that proofs about loops use (section 4).

`TransactionLease`, `TransactionMapping` - the abstract specification of what a
pool with one connection per string promises (a transaction is a lease of the
connection: given when nobody of the string has it, ended only by its holder,
although the server may end its side alone), and the mapping under which `Database`
implements it (`ImplementsLease`).

`Session` - what one database, `Me`, sees of a pool at its limit: the connections,
their flags and their server sessions, and other databases that take and give
back connections at any time. `Stopped` is the destruction of lock objects. Two
modules add the operations of `Me`:

`Async` - the asynchronous operations. Every call pushes a task on the strand.
`Call` is the call; `Connects`, `ConnectFails` and `ConnectTimesOut` are
`connection_task_t::_connect`; `RunsBound` and `RunsRefused` the callbacks that
`open_connection` and the transaction calls bind; `Sends`, `Completed` and
`TaskThrows` are `run_task` of a query task; `ReaderRow` and `ReaderEnds` that of a
reader. `Opened` says where each operation pushes its query task, which differs:
the overloads with a parameter list push in front (`exec_p`), the others at the back
(`exec_t`, and prepare, execution of a prepared statement, readers). A callback of
the program may call again (`More`). The strand itself is external: it runs its
first task and puts it back in front when `requeue()` says so. The history
variables `calls` and `order` count callbacks and record what the server got.

`Statements` - prepared statements, a reader, a large object, savepoints and
transactions in the synchronous form. A call is one step, or two when it lets go of
the connection in between; `mid` is the call between its two steps. `prepare()` is
`Prepare` (the query for the name) and `PrepareEnds`; `deallocate_prepared()` of the
program and `~data_prepared_t` (`DropDeallocating`) are the query for the name, then
`Deallocates`, `DeallocateFails` or `DestructorEnds`; the calls of a large object that
open it, create or unlink one are `LoCall`, then `LoOpen` or `LoCreateOrUnlink`.
COMMIT may be refused (`RefusesCommit`), from `commit()` as from the `close()` of a
large object: the server has then ended the transaction, the flag and `_lock` stay.
The history variables `begun` and `refused` say what the program has asked for. `pend`
is what libpq still has to deliver of a single-row query: `PQsendQuery` refuses to
start while there is something, `PQexec` throws it away (`Discards`). `OtherRows` is a
row (`NextRow`) or an error of the server in the middle of the rows (`RowFails`).

`Script` - `exec_queries`. The program writes a script piece by piece (`Write`).
Each piece adds its characters to `text`, which is all that `split_queries` sees, and
its meaning to the history variable `meant`: the statements that are complete and the
one that is not, known without looking at a character. `Rounds` are the states of the
lexer, one `Round` per character, with the modes of the source. `exec_query` is one
round of the loop that sends, with the COPY mode and the numbers of `ExecStatusType`,
whose bits the code tests; `exec_all` is the loop.

`Parameters` - `parameters_t` on an explicit heap: owned pointers, the arrays that
libpq reads, copies and moves between objects and into tasks. `PushBackThrows` and
`ReplaceThrows` are the calls whose `new_parameter` throws, `types` stands for the
four accessors that make the arrays. A fault (a second delete, a read of what is gone
or past the end of an array) ends the behaviour. The history variable `spoiled` holds
the lists that were used in one of the two ways that can lead to one: a `replace()`
of the list threw, or the list was changed or moved while it had its arrays.

`Numeric`, `Money`, `MCNumeric` - the digit algorithms of `numeric` (parsing,
printing, rounding, truncation, addition, subtraction, multiplication with guard
digits, Knuth's division, remainder, ceil, floor, comparison, conversion to and from
`int64_t` with its overflow tests), the operators of `money`, and a machine with
two numeric and one money variable that a program changes in any order. The
references the properties compare with are integer arithmetic on mantissas. Amounts
have 0 or 2 fraction digits, in every combination of left and right side: `MoneyKept`
asks for the exact sum wherever neither conversion of scale cuts a digit off, and
bounds the error where one does.

`Wire`, `MCWire` - the binary encoding of all types (`new_parameter`), the decoding
(`pgval_to_*`), the conversions `val_from_pgparam<T>` allows between them, and a
machine that sends a value, gets it back as a column and reads it as some type. The
server (`Echo`, external) keeps what it gets, but brings ranges of integers and of
dates into the form `[lower, upper)`, as range_types_test.cpp:40 expects, gives an
array without elements no dimensions, and refuses paths and polygons without points
and ranges that it cannot bring into that form. Instants and dates go through a
calendar (`year_month_day`, `sys_days`): PostgreSQL counts a year 0, the library does
not, so that `pgticks` adds a year to a date before the year 1 and throws for the year
zero, and reading takes the year off again. The conversion of a number to `float` or
`double` keeps `FloatBits` or `DoubleBits` significant bits (`Rounded`).

Operators named after another one with a suffix (`Release_KeepsLock`,
`Opened_PushBack`, ...) are deliberate mistakes: replacing the definition by one of
them must make TLC report the property that `PROJECT.json` names with it.

### Abstractions

* In `Database` SQL text, parameters and results are left out: a query succeeds or
  throws, and both end in `QueryEnd`. BEGIN, COMMIT and ROLLBACK sent as plain text
  through `execute` are outside every model: the library does not see them.
* A connection is dead as soon as it is neither locked nor in a transaction: the
  code subtracts -15 seconds from the clock, so the test of
  `_last_modification_date` never holds anything back.
* What `_get_connection` does to `_running` is overwritten by its callers before
  the mutex is freed and is not shown.
* `Session` stands for the pool by its outcome: any stealable connection. The
  search is in `ConnectionPool` and `StealScan`.
* In `Async` a connect task that finds nothing and runs again is no step. A program
  is careful or not (chosen in `Init`): a careful one starts together only calls of
  the sets in `Together`, and destroys prepared statements only while it waits for
  nothing; after a COMMIT that failed it counts itself in no transaction any more,
  whatever `in_transaction()` says (section 5). What happens to others is listed in
  section 5; the properties that do not need care are stated for all programs.
* In `Statements` and `Script` links hold. In `Statements` the server may know a
  savepoint or not, and the `auto_deallocate` of a statement is not kept: its
  destructor may or may not deallocate. In `Script` the server accepts COPY data and the
  COMMIT at the end; what a failed query and a refused COMMIT do to the transaction of a
  script is in `Database` (`ExecThrows`, `ExecEnd`).
* In `Script` "C" stands for the characters `copy `, "S" for ` stdin`, and a query
  with a "b" is one the server refuses.
* `Numeric` is parameterised by the number of decimal digits in a digit, as the
  source is (`DEC_DIGITS`), and by the width of `int64_t`. `Wire` scales the integer
  byte to `Radix` values; bytes outside integers are symbols; text is a sequence of
  tokens, so that printing and parsing a number are still two conversions. Its
  calendar has years of `YEAR` days without months, and a leap day every fourth year;
  years beyond the ±32767 that the date library holds are left out.

## 3. Runs

| Run | Instance | Shows |
|---|---|---|
| `shared` | 3 databases, pool of 2, reliable links | `PoolBounded`, `OwnerPointsBack`, `LockedHeld`, `TransactionLocked`, `NeverFreed`, `DestructorSafe`, `TransactionKept` |
| `cleanup` | 2 databases, pool of 2, clean-up above index 0, every link may be lost | `TypeOK`, `NoForgottenTransaction` while connections are deleted and links break |
| `strings` | 3 databases, 2 strings, pools of 1, one lossy link | `OwnString`, `SingleExclusive`, `ImplementsLease` |
| `scan` | 3 connections, every order of finishing | `ThrowsOnlyIfAllBusy`, `TakesFirstIdle`, `ScanEnds` |
| `async` | 1 lossy connection, 1 other database, all 10 operations, 3 calls, 2 of them waiting | `CalledOnce`, `NoNullConn`, `InOrder`, `TransactionGuarded`, `NoLeakedWork`, `Answered` |
| `statements` | 2 connections, 1 other database, 1 prepared statement, readers of up to 2 rows | `TransactionsAccounted`, `LoUsable`, `ReaderRows`, `NoLeakedWork`, `DestructorThrows` |
| `script` | every script of up to 4 pieces out of 13 | `SplitsScript`, `AllOrNothing` |
| `params` | 2 objects, 1 task, 5 allocations, lists of 2 | `MemorySafe`, `SentAsBuilt` |
| `numeric` | 16 literals, base 100, 16-bit integers, 2 operations | `NormalForm`, `ComparesValues`, `ExactArithmetic`, `TextRoundTrip`, `IntegerExact`, `MoneyKept`, `MoneyOrder` |
| `wire` | 49 sets of values, bytes of 4 values, 2 reads | `RoundTrip`, `NumbersKept`, `InstantKept` |

Bounds. Three databases and two connections are the smallest instance in which a
connection has a past user, a present one and one who waits for it; reuse,
creation, stealing and exhaustion all happen. `MaxId` bounds the connections ever
created: the pool never deletes one in the instances without clean-up, so
`MaxConn - 1` is no restriction there (`shared` has one more id, so that a pool
beyond its limit would be seen); in `cleanup` the third id allows one
connection to be deleted and replaced. The code spares the indexes 0 to 4 from
clean-up (`KeepIdx = 4`); `cleanup` scales this to 0, since six
connections need five databases that hold one. `Unreliable` and `Lossy` name the
links that may be lost. In `StealScan` the clock saturates at `MaxWait`.

One connection is enough in `async`, because everything there is a race for it: with a
rival database it is taken between any two tasks (304,666 states). Three calls allow a
transaction with a query between BEGIN and COMMIT, a prepared statement with its use
and its end, and a call from a callback on top of two that wait. `statements` has a
second connection, so that the database can come back to another one than its
statement or large object was made on, and a reader of two rows can be cut between
them, by another call or by an error (792,369 states). A script of four pieces has
room for two statements with a quote or COPY data between them; each piece contains
the characters that would mislead the lexer in its other modes. In base 100 a digit
has two decimals, as many as are needed to round and truncate inside one; the literals
carry through all digits, straddle the point, and hit both ends of the integers; two
operations in a row show what one leaves for the next. The values of `wire` are the
ends of every type, both sides of the year zero and of the precision of a float, leap
days before and after it, empty, unbounded, open and closed ranges, empty and
two-dimensional arrays.

The connections of one string, the databases of one string and the variables of the
program are symmetric; the runs with liveness or two strings use no symmetry.
`statements` has a `VIEW` as well: lock objects are numbered so that two of one
connection differ, no action and no property reads a number except to compare it with
another, and states that differ only in the numbers are one state (without the view
there are 3,447,221, and the result is the same).
Deadlock is not checked where the program may stop, or where undefined behaviour
(`fault`) has ended it.

Fairness. `ScanEnds` (the loop that runs with the mutex held ends) assumes weak
fairness of the steps of the thread inside the loop, which nothing in the code can
block: it holds the only mutex it needs and waits by sleeping. `Answered` (every
completion callback runs) assumes that the event queue runs the strand, that the
server answers what it was sent, and that time passes; the other databases owe
nothing and may keep the connection for ever. That is why the deadline of the
connect task matters: without it (`ConnectTimesOut_Never`) `Answered` fails.

## 4. Proofs

`DatabaseProofs` proves, for all databases, strings, pool sizes and links, from
the assumptions named in `ConnectionPool` (`StringsAssumption`: every database has
a string; `SizesAssumption`: sizes are integers; `NoneAssumption`: NULL is neither
a database nor an id), that `IInv` is an inductive invariant:

* `TypeOK`;
* `PoolInv`: ids not handed out are unused (`Fresh`), a connection is in one pool
  (`PoolsDisjoint`), `PoolBounded`, `OwnerHolds`, `OwnString`, `LockedHeld`;
* `LockMatches`: `_lock` and `_conn` never name two connections;
* `PhaseInv`: `_lock` is set between the two halves of `begin`, and a destroyed
  database has no connection;
* `TransactionLocked` and `NoForgottenTransaction`.

`TransactionLocked` alone is not inductive: that a database in a transaction
keeps its connection needs that a steal or a clean-up takes `_conn` only from the
database that has the connection (`OwnerHolds`), and `LockMatches` for what
`begin` finds. `OwnerHolds` needs `Fresh`, because a new connection must not have
an owner. `GetSummary` states once what the four branches of `_get_connection` do to
the pool; the lemmas per action rest on it, and `StepInv` joins them.

From `Invariance` follow `TypeCorrect`, `PoolBoundedThm`, `OwnerPointsBackThm`,
`LockedHeldThm`, `TransactionLockedThm`, `NoForgottenTransactionThm` and
`OwnStringThm`. With an induction of their own on top of it: `NeverFreedThm` (an
index above `KeepIdx` needs more than `KeepIdx + 1` connections, so nothing is
ever dead), `DestructorSafeThm`, `SingleExclusiveThm` (with `SingleInv`: the
holder of the single connection is its owner, or its `release` threw and the broken
transaction keeps everybody else away), and the action property
`TransactionKeptThm`.

`TransactionProofs` proves `LeaseRefinement`: when the pool has at most one connection
per string, `Spec => ImplementsLease`. Two databases of one string cannot both hold a
transaction (`OneHolder`, from `SingleExclusive`, `OwnString` and `TransactionLocked`
of the invariant), so the sets `Holding` and `Unfinished` have at most one member per
string and a step on a connection is a step of its one holder. Steps that leave
`is_in_transaction` and the server's side alone stutter (`KeptStutters`);
`open_connection` does too, although it may move the connection between databases,
because what it moves is in no transaction (`OpenStutters`); BEGIN is `Acquire`,
because the connection it is sent on is the only one of the string (`OneInPool`,
`BeginAcquires`); COMMIT, ROLLBACK, close and destruction are `Release`; a lost link
and a refused COMMIT are `Lose`. Without the assumption the statement is false:
with two connections, two databases of a string have transactions at once, as they
should.

`StealScanProofs` proves `TakesFirstIdle` and `ThrowsOnlyIfAllBusy` for any number of
connections (`ScanAssumption`: there is at least one, and times are natural
numbers): with the mutex held nobody starts to work, so what was idle when
the call began stays idle (`ScanInv`), and the scan cannot pass it. That it comes by
every connection is an induction over the loops that fill `scons`
(`InPoolOrderCovers`): the library's induction theorems have a predicate as parameter,
which the provers cannot instantiate, so `SetInduction` derives induction for a set of
numbers from the well-foundedness of `<`; the recursive function that models a loop is
then shown to exist and to have the property, both by that induction.

`AsyncProofs` proves the five safety properties of `Async` for any number of
calls, calls under way, connections and other databases, from `SessionAssumption` and
`AsyncAssumption` (a reader has a natural number of rows). Two inductive
invariants, both also checked by TLC on the instance of the run and on larger ones:

* `AInv`, for every program: types, one `_conn` (`AMine`), a task has a lock
  object exactly when it needs no more to connect (`AHeld`), `NoLeakedWork`, and
  what makes that inductive, `AKeeps`: `begin` replaces `_lock` only while a task
  further back keeps the old lock object alive.
* `CInv`, for careful programs: `Good` or `Dead`. `Good` says how two tasks of the
  strand relate (`Before`: queries behind a task that has still to connect were
  called before it, everything else stands in the order of the calls), that the calls
  that wait together belong together (`Alike`), that all lock objects in use are the
  same (`OneLock`) and name a connection that is marked (`GWorks`), that the one
  command under way is that of the first task (`GBusy`), and where a transaction may
  be between the server's answer and the callback that reads it (`GTrans`,
  `GEnded`). `Dead` is the strand whose first query lost its link: it fails for ever
  (section 5), so no more commands are sent and no transaction is left.

The proof showed that the first description of a careful program was too weak: after
a failed COMMIT `in_transaction()` is true without `_lock`, and calls that are safe
together inside a transaction are not safe then. Six calls are needed to see it, more
than the run has; `MayCall` now excludes it, and section 5 lists it.

`StatementsProofs` proves the five properties of `Statements` for any number of
connections, statements, rows and other databases, from `StatementsAssumption` (links
hold, as the module says; finitely many statements, so that there is a number for a
new lock object). `SInv` is also checked by TLC. Besides the properties it says that
`Me` has one connection (`SMine`); that what is in a transaction is its own, on the
server only with the flag set (`SInTx`), and without the server only after a refused
COMMIT (`SRefused`); that `_lock` names that connection, or that `close()` has given
it back (`SLocked`); that the rows a reader has not had are those that libpq still has
(`SRows`); that a statement nobody deallocated is in some session (`SNamed`); and what
the call between two steps may count on (`SMid`). A steal between the two steps of a call
cannot touch a transaction, because that has `_lock` set, but the second step may then
find the session of another connection, without the statement: one of the causes that
`DestructorThrows` lists.

`ParametersProofs` proves `MemorySafe` and `SentAsBuilt` for any number of lists,
tasks and allocations, from `ParametersAssumption` (an object is not a task). `PInv`:
every pointer, dangling or not, is in one place of one vector (`POnce`, `PApart`) and
no id is used again (`PIds`); a list that is not spoiled has all its parameters, and
has no arrays or its own, of the vector it has now (`PClean`); and the vector of such
a task holds the values it was sent with (`PSent`).

`ScriptProofs` proves `SplitsScript` and `AllOrNothing` for scripts of any number of
pieces, from no assumption. What makes it hard is that the lexer does not stop
between two pieces: after a string it has already looked at the first
character of the next piece, and if that is a quote it takes the two for an escaped
one, stays in the string and is a character ahead. So the invariant does not speak of
the text written so far only. `Reach` says of every text that goes on where the
script stops: after the script's characters the lexer is at a `Boundary`, with the
complete statements in `queries` and the incomplete one in `qry`, in text mode or in
that half-read escape. `Splits` says what `split_queries` returns if the script stops
here, `Ends` what the incomplete statement may look like (`OnlyBefore`: no ` stdin` at
its end, so that a semicolon does not start COPY data), `Executes` that the loop over
the complete statements has run them all in an open transaction, or has thrown after
a beginning of them (`Ran`).

The lexer's loop is a recursive function, shown to exist by the induction of
`SetInduction` (`RoundsExist`, `RoundsStep`; for the loop over the queries `ExecExists`,
`ExecSnoc`). The `Round...` lemmas say what one character does in each mode, the
`At...` lemmas say the same of the loop on a text, and there is one `Piece...` lemma per
kind of piece: a lexer that meets it at a boundary is at a boundary behind it, or, at
the end of the text, returns the statement with it. `PieceWritten` joins them:
what the lexer finds is what the piece means. The pieces are those of `Chars`, so the
theorem is about every arrangement of these texts, not about every text. `trim` is
characterised by `TrimIs`.

Only model-checked:

* liveness (`ScanEnds`, `Answered`): fairness is out of the prover's reach;
* `Numeric`, `Money`, `Wire`: values of digit sequences in a symbolic base are
  nonlinear arithmetic under an induction, and the bases are powers (`NBASE`,
  `Radix^w`, the `10^frac` of two amounts), of which the provers do not even know
  that a power of a natural number is one; no proof of them has been written;
* the two disagreements below.

## 5. Where the code and its words disagree

Two runs have one property each, taken from a message or a comment of the source, and
TLC finds it violated; `PROJECT.json` quotes the lines.

| Run | Property | What happens |
|---|---|---|
| `v_aliasing` | `OneUserPerConnection` | A connection from the "room for more" branch has no owner. When it is stolen its first database still has it, and both use it; `reserve()` disarms the check of `connection_lock_t`. |
| `v_completion` | `CompletionCallback` | A query task that cannot be sent calls its callback with the error, is not `_completed`, and is put in front of the strand again: the callback runs again and again, and the tasks behind it never run. |

The models also contain the following, which is what the code does; properties are
stated so that they hold beside it, and say where.

Pool and transactions:

* begin, then destruction: the pool has the connection back before `_lock` is
  destroyed, and `stop_work` hits its next user.
* A stolen connection keeps `_res = 0` and counts as dead while a query runs on it;
  pools of more than five connections are exposed (`NeverFreed` is about the others).
* begin, close, query: `open_connection` returns `_lock` without a connection, and
  the query dereferences NULL.
* A refused COMMIT leaves `in_transaction()` true and `_lock` set
  (data_connection_pool.h:194), also when it was the COMMIT in the `close()` of a large
  object, which then stays open without a descriptor.
* `timeout_date` is computed with a minus: the wait for a connection ends after
  one pass.
* Ids are compared as text: with eleven connections 10 comes before 9.
* `rollback_savepoint` does not look at the answer (data_connection_pool.h:270).
* `~connection_pool` erases while it counts up and skips every second connection
  (data_connection_pool.cpp:283; not modelled).

Asynchronous calls:

* A failed asynchronous connect leaves the connection reserved
  (data_connection_pool.cpp:221), and a failed asynchronous COMMIT leaves
  `is_in_transaction` without `_lock` (database.h:443): `_lock` is reset before the
  callback runs (`OnError`), so that what the callback calls connects anew. A program
  that then starts the calls of a transaction together gets a lock object for each,
  and the end of one unmarks the connection of a BEGIN behind it.
* The overloads that push in front and those that push at the back overtake each
  other; calls made after an asynchronous begin without waiting for it run before its
  BEGIN; two such begins both succeed.
* Calls started together outside a transaction, other than those in `Together`, may
  meet a NULL `_conn`, since each opens and gives back the connection.
* Destroying a `data_prepared_t` while a task waits clears the working flag under it.
* An exception of the program's callback makes the callback run a second time
  with that exception (database.h:74). `exec_queries` has no asynchronous form: it
  throws "not implemented".

Statements, readers, large objects:

* The lock object of the query inside `prepare()` ends before that of `prepare()`
  and clears the flag they share; the overload with three arguments ignores
  `auto_deallocate` (database.h:1160).
* `~data_prepared_t` sends DEALLOCATE and may throw, which ends the process; when is
  what `DestructorThrows` says. One cause is `deallocate_prepared()` of the program for
  the name of a statement that is still there.
* BEGIN, COMMIT and savepoints use `PQexec`, which throws away the rows of an open
  reader; its loop then ends as if it were complete. A query while a reader is open
  fails, and clears the working flag. A reader dropped after its connection was
  stolen leaves its rows there. Closing a reader early cancels the query and may
  fail the transaction.
* `open` and `create_lo` of a large object in a transaction throw that the
  connection is locked; closing one commits whatever transaction there is.

Scripts:

* A script that ends with a dollar quote and no semicolon loses its last statement;
  `$1` starts a dollar quote; there are no block comments; the last character of an
  unterminated comment becomes a query; COPY data is trimmed.
* The test `status & PGRES_COPY_IN` also holds for an error: a refused COPY at the
  end of a script goes unnoticed, and its COMMIT rolls back.
* COPY FROM STDIN with something behind STDIN throws with the server in copy mode.
* `pg_socket_block` keeps a PGconn that `begin()` may replace (database.cpp:110; the
  blocking mode is not modelled).

Values:

* numeric: NaN equals 0 in comparisons and is printed as 0; a NaN read from the wire
  has another sign code than the one tested (data_parameters.cpp:152).
* money: a negative numeric with decimals is converted with the wrong sign of the
  decimals (pg_type_cash_def.h:445); amounts between -1 and 0 lose their sign in
  text; `to_string(frac_digits)` takes its decimals from the unconverted amount;
  amounts of different scales are compared by their bare decimals; `/` truncates
  to whole units; `++` adds a unit of the default locale.
* wire: a narrower integer type silently truncates, and `float` and `double` silently
  lose the low bits of an integer (data_parameters.cpp:2097; `NumbersKept` bounds the
  error); `int64_t` from NUMERIC goes through `int16_t` (data_parameters.cpp:2060); a
  date or time stamp before the year 1 read as a number is a year off the value in the
  program, its leap day comes back as the day after, and a value in the year zero
  cannot be sent (pg_type_date_def.h:225, `InstantKept` and `ScalarKept` say so);
  arrays of bytea and uuid are sent as text in a binary array; a NULL element of an
  array moves the read position back by one (data_parameters.h:415); infinite time
  stamps overflow when the epoch is added (data_parameters.cpp:299); text-format
  ranges use uninitialised flags.
* parameters: copy assignment appends instead of replacing; move assignment and
  `remove_at` leak. A `replace()` that throws leaves a deleted parameter in the list,
  which the destructor deletes again (data_parameters.h:882). `cleanup()` deletes the
  arrays and keeps the pointers (data_parameters.h:958), so a list that was asked for
  them (`values()`) must not be changed or moved any more: they would be deleted
  twice, or, after `remove_at` and the assignment of a copy, libpq would read old
  or too few entries.

## 6. Not modelled

* sqrt, exp, ln, log and power of numeric, scientific notation, conversions from
  and to `float` and `double`, the operators of geometric types: floating point, or
  series whose only specification is their limit.
* Text formats of dates, durations, addresses, ranges and money, locales and time
  zones: formatting; `Wire` has what of these types reaches the wire.
* A synchronous call in the middle of asynchronous ones (`wait_for_sync`), the
  destruction of the pool, the blocking mode of a PGconn.
* The containers around a PGresult, logging, exceptions, the build and the tests.
* The event queue itself (tools-md, a submodule outside the tree) and libpq: external,
  modelled from how they are used.
