------------------------------- MODULE Async -------------------------------
(***************************************************************************)
(* The asynchronous operations of database_t: every call pushes a task on   *)
(* the strand of the database, tasks run one after the other at its front,  *)
(* and callbacks push the next tasks. The strand (md::event_strand) is      *)
(* external: it takes its first task, runs it, and puts it back in front    *)
(* when requeue() says so.                                                  *)
(***************************************************************************)
EXTENDS Session, SequencesExt

CONSTANTS
    Ops,        \* the operations the program uses
    MaxCalls,   \* bound on the calls it makes
    Window,     \* bound on the calls that wait for their callback
    MaxRows     \* bound on the rows of a reader
ASSUME AsyncAssumption == MaxRows \in Nat

VARIABLES
    careful,    \* the program keeps to Together and to DropPrepared's rule
    op,         \* the calls made: their operations, in order
    calls,      \* how often each call's completion callback ran, 2 for more
    strand,     \* the tasks
    db_lock,    \* database_t::_lock
    prepared,   \* the lock objects of live data_prepared_t objects
    srv,        \* connection -> the command on its link
    order       \* the calls in the order the server got them

asyncVars == <<careful, op, calls, strand, db_lock, prepared, srv, order>>
vars == <<sessionVars, asyncVars>>

NoLock == <<>>
Idle == [st |-> "idle", r |-> 0, n |-> 0]
Init ==
    /\ SessionInit
    /\ careful \in BOOLEAN
    /\ op = <<>> /\ calls = <<>> /\ strand = <<>>
    /\ db_lock = NoLock /\ prepared = {}
    /\ srv = [c \in Conns |-> Idle] /\ order = <<>>

Locks == ({t.lock : t \in ToSet(strand)} \cup {db_lock} \cup prepared) \ {NoLock}

(***************************************************************************)
(* Calls. ph 2 is the second part of begin (its execute("BEGIN")) and of    *)
(* deallocate_prepared (its execute("DEALLOCATE ...")).                     *)
(***************************************************************************)
Task(kind, r, ph, lock) ==
    [kind |-> kind, r |-> r, ph |-> ph, lock |-> lock, sent |-> FALSE, late |-> FALSE]

\* open_connection(cb): cb bound to the lock there is, or a connect task.
open_connection(r, ph, lock) ==
    IF lock # NoLock THEN Task("bound", r, ph, lock) ELSE Task("connect", r, ph, NoLock)

\* "Already in a transaction!", "Not in a transaction!"
Refused(o, intx) == IF o = "begin" THEN intx
                    ELSE o \in {"commit", "rollback", "savepoint"} /\ ~intx
call(r, o, lock, intx) ==
    IF Refused(o, intx) THEN Task("refused", r, 1, NoLock) ELSE open_connection(r, 1, lock)

\* Calls a careful program may have under way at once: execute and the like with
\* their parameters in the argument list; in a transaction that still has its
\* lock (a COMMIT that failed has given it up) also the others, as long as they
\* do not mix the two ends of the strand. What other mixes do is described
\* in the README.
Together(intx) ==
    {{"exec_p"}} \cup (IF intx THEN {{"exec_p", "savepoint", "commit", "rollback"},
                                     {"exec_t", "prepare", "prepared"}} ELSE {})
MayCall(o, waiting, lock, intx) ==
    /\ Len(op) < MaxCalls
    /\ \/ waiting = {}
       \/ /\ Cardinality(waiting) < Window
          /\ careful => \E g \in Together(intx /\ lock # NoLock) :
                            {o} \cup {op[r] : r \in waiting} \subseteq g
Waiting == {r \in DOMAIN calls : calls[r] = 0}

\* What a callback of the program calls in turn: at most one operation.
More(done, lock, intx) ==
    {<<>>} \cup {<<o>> : o \in {x \in Ops : MayCall(x, Waiting \ {done}, lock, intx)}}
Calls(more, lock, intx) ==
    [i \in DOMAIN more |-> call(Len(op) + i, more[i], lock, intx)]

Call_Front(o) ==
    /\ MayCall(o, Waiting, db_lock, in_transaction)
    /\ op' = Append(op, o) /\ calls' = Append(calls, 0)
    /\ strand' = <<call(Len(op) + 1, o, db_lock, in_transaction)>> \o strand
    /\ UNCHANGED <<careful, sessionVars, db_lock, prepared, srv, order>>
Call(o) ==
    /\ MayCall(o, Waiting, db_lock, in_transaction)
    /\ op' = Append(op, o) /\ calls' = Append(calls, 0)
    /\ strand' = Append(strand, call(Len(op) + 1, o, db_lock, in_transaction))
    /\ UNCHANGED <<careful, sessionVars, db_lock, prepared, srv, order>>

\* The completion callback of r runs, with _lock and is_in_transaction as
\* they are at that moment; rest is the strand, without r unless it failed.
CallsBack(r, rest, lock, intx) ==
    \E more \in More(r, lock, intx) :
        /\ op' = op \o more
        /\ calls' = [calls EXCEPT ![r] = IF @ = 0 THEN 1 ELSE 2] \o [i \in DOMAIN more |-> 0]
        /\ strand' = rest \o Calls(more, lock, intx)

(***************************************************************************)
(* The first task of the strand runs.                                       *)
(***************************************************************************)
First == Head(strand)
Rest == Tail(strand)
Runs(kind) == strand # <<>> /\ First.kind = kind
UNCHANGEDserver == UNCHANGED <<link, tx, names, srv, order>>

\* The deadline of a connect task passes.
TimePasses(r) ==
    \E i \in DOMAIN strand :
        /\ strand[i].kind = "connect" /\ strand[i].r = r /\ ~strand[i].late
        /\ strand' = [strand EXCEPT ![i].late = TRUE]
        /\ UNCHANGED <<careful, sessionVars, op, calls, db_lock, prepared, srv, order>>

Opened_PushBack(r, ph, lock, rest) ==
    IF ph = 1 /\ op[r] = "begin" THEN Append(rest, Task("bound", r, 2, lock))
    ELSE IF ph = 1 /\ op[r] = "dealloc" THEN Append(rest, open_connection(r, 2, db_lock))
    ELSE Append(rest, Task("query", r, ph, lock))
\* The callbacks the operations give open_connection: the strand after them.
\* The second part of begin and dealloc calls execute, which opens again;
\* execute and the like push in front, the others at the back.
Opened(r, ph, lock, rest) ==
    IF ph = 1 /\ op[r] = "begin" THEN Append(rest, Task("bound", r, 2, lock))
    ELSE IF ph = 1 /\ op[r] = "dealloc" THEN Append(rest, open_connection(r, 2, db_lock))
    ELSE IF op[r] \in {"exec_t", "prepare", "prepared", "reader"}
         THEN Append(rest, Task("query", r, ph, lock))
         ELSE <<Task("query", r, ph, lock)>> \o rest
\* begin: self->_lock = lock
OpenedLock(r, ph, lock) == IF ph = 1 /\ op[r] = "begin" THEN lock ELSE db_lock

\* The error branch of the callbacks of begin's execute, commit and rollback:
\* _lock.reset() comes before the completion callback, which finds no _lock.
OnError ==
    db_lock' = IF \/ op[First.r] \in {"commit", "rollback"}
                  \/ op[First.r] = "begin" /\ First.ph = 2
               THEN NoLock ELSE db_lock

ConnectTimesOut_Never == FALSE
ConnectTimesOut_Stays ==
    /\ Runs("connect") /\ First.late
    /\ OnError
    /\ CallsBack(First.r, strand, db_lock', in_transaction)
    /\ UNCHANGED <<careful, owner, in_tx, job, lost, fault, prepared>> /\ UNCHANGEDserver
    /\ running' = Stopped(Locks, Locks')
\* connection_task_t::_connect: "Connection request has time out!"
ConnectTimesOut ==
    /\ Runs("connect") /\ First.late
    /\ OnError
    /\ CallsBack(First.r, Rest, db_lock', in_transaction)
    /\ UNCHANGED <<careful, owner, in_tx, job, lost, fault, prepared>> /\ UNCHANGEDserver
    /\ running' = Stopped(Locks, Locks')
\* As long as no connection can be had the task is run again: no step.
_connect_NoWork(c, r, locks) == owner' = [owner EXCEPT ![c] = Me] /\ UNCHANGED running
\* The lock object lives in locks, or dies at once: dealloc's lock.reset().
_connect(c, r, locks) ==
    /\ owner' = [owner EXCEPT ![c] = Me]
    /\ running' = [running EXCEPT ![c] = IF <<c, r>> \in locks THEN 1 ELSE 0]
Connects ==
    /\ Runs("connect") /\ ~First.late
    /\ \E c \in Gettable(Me) :
          LET lock == <<c, First.r>>
          IN /\ strand' = Opened(First.r, First.ph, lock, Rest)
             /\ db_lock' = OpenedLock(First.r, First.ph, lock)
             /\ UNCHANGED prepared
             /\ _connect(c, First.r, Locks') /\ Reopen(c)
    /\ UNCHANGED <<careful, job, lost, fault, op, calls, srv, order>>
\* PQconnectdb fails: the connection stays reserved.
ConnectFails ==
    /\ Runs("connect") /\ ~First.late
    /\ OnError
    /\ CallsBack(First.r, Rest, db_lock', FALSE)
    /\ UNCHANGED <<careful, job, lost, fault, prepared>> /\ UNCHANGEDserver
    /\ \E c \in Gettable(Me) :
          /\ link[c] = "down"
          /\ owner' = [owner EXCEPT ![c] = Me]
          /\ running' = [Stopped(Locks, Locks') EXCEPT ![c] = 2]
          /\ in_tx' = [in_tx EXCEPT ![c] = FALSE]

\* std::bind(cb, nullptr, _lock) and std::bind(cb, error)
RunsBound ==
    /\ Runs("bound")
    /\ strand' = Opened(First.r, First.ph, First.lock, Rest)
    /\ db_lock' = OpenedLock(First.r, First.ph, First.lock)
    /\ UNCHANGED <<careful, owner, in_tx, job, lost, fault, op, calls, prepared>> /\ UNCHANGEDserver
    /\ running' = Stopped(Locks, Locks')
RunsRefused ==
    /\ Runs("refused")
    /\ CallsBack(First.r, Rest, db_lock, in_transaction)
    /\ UNCHANGED <<careful, sessionVars, db_lock, prepared, srv, order>>

\* conn() is the _conn of the moment, and is not tested.
DerefNull ==
    /\ Runs("query") /\ _conn = None
    /\ fault' = "null"
    /\ UNCHANGED <<owner, running, in_tx, link, tx, names, job, lost, asyncVars>>

\* run_task: _send_query, _send_prepare, _send_query_prepared
Sends ==
    /\ Runs("query") /\ ~First.sent /\ _conn # None
    /\ link[_conn] = "up" /\ srv[_conn] = Idle
    /\ srv' = [srv EXCEPT ![_conn] = [st |-> "busy", r |-> First.r, n |-> 0]]
    /\ strand' = [strand EXCEPT ![1].sent = TRUE]
    /\ order' = Append(order, First.r)
    /\ UNCHANGED <<careful, sessionVars, op, calls, db_lock, prepared>>

\* The catch of run_task: _cb(err); _completed is not set, so the task stays.
run_task_fails == strand
TaskThrows ==
    /\ Runs("query") /\ _conn # None
    /\ IF First.sent THEN link[_conn] = "down" ELSE link[_conn] = "down" \/ srv[_conn] # Idle
    /\ OnError
    /\ CallsBack(First.r, run_task_fails, db_lock', in_transaction)
    /\ UNCHANGED <<careful, owner, in_tx, job, lost, fault, prepared>> /\ UNCHANGEDserver
    /\ running' = Stopped(Locks, Locks')

\* The result is there, all of it: _completed, the callback, and the task is
\* gone. Its lock object dies after the callback, and so does _lock's when
\* COMMIT or ROLLBACK went well.
Completes_Ok(r) ==
    /\ in_tx' = IF op[r] = "begin" THEN [in_tx EXCEPT ![_conn] = TRUE]
                ELSE IF op[r] \in {"commit", "rollback"} THEN [in_tx EXCEPT ![_conn] = FALSE]
                ELSE in_tx
    /\ db_lock' = IF op[r] \in {"commit", "rollback"} THEN NoLock ELSE db_lock
    /\ prepared' = IF op[r] = "prepare" THEN prepared \cup {First.lock} ELSE prepared
    /\ CallsBack(r, Rest, db_lock, in_tx'[_conn])
Completes_Error(r) ==
    /\ OnError
    /\ UNCHANGED <<in_tx, prepared>>
    /\ CallsBack(r, Rest, db_lock', in_tx[_conn])
Completed ==
    /\ Runs("query") /\ First.sent /\ _conn # None /\ op[First.r] # "reader"
    /\ link[_conn] = "up" /\ srv[_conn].st \in {"ok", "error"}
    /\ IF srv[_conn].st = "ok" THEN Completes_Ok(First.r) ELSE Completes_Error(First.r)
    /\ srv' = [srv EXCEPT ![_conn] = Idle]
    /\ UNCHANGED <<careful, owner, link, tx, names, job, lost, fault, order>>
    /\ running' = Stopped(Locks, Locks')

\* reader_connection_task::run_task and the callback of next(): one row at a
\* time; NULL, or an error, ends it. The program may close() it in the callback, which
\* cancels the query and reads what is left.
ReaderRow ==
    /\ Runs("query") /\ First.sent /\ _conn # None /\ op[First.r] = "reader"
    /\ link[_conn] = "up" /\ srv[_conn].st = "ok" /\ srv[_conn].n > 0
    /\ \E left \in {srv[_conn].n - 1, 0} : srv' = [srv EXCEPT ![_conn].n = left]
    /\ UNCHANGED <<careful, sessionVars, op, calls, strand, db_lock, prepared, order>>
ReaderEnds ==
    /\ Runs("query") /\ First.sent /\ _conn # None /\ op[First.r] = "reader"
    /\ link[_conn] = "up" /\ srv[_conn].st \in {"ok", "error"} /\ srv[_conn].n = 0
    /\ CallsBack(First.r, Rest, db_lock, in_transaction)
    /\ srv' = [srv EXCEPT ![_conn] = Idle]
    /\ UNCHANGED <<careful, owner, in_tx, link, tx, names, job, lost, fault, db_lock, prepared, order>>
    /\ running' = Stopped(Locks, Locks')

\* The program destroys its data_prepared_t objects; a careful one does so
\* while it waits for nothing, is in no transaction and still has their connection: their lock
\* objects stop the work on it, whoever works (the README has what else
\* happens).
DropPrepared ==
    /\ careful => (Waiting = {} /\ db_lock = NoLock /\ \A l \in prepared : owner[l[1]] = Me)
    /\ prepared # {} /\ prepared' = {}
    /\ UNCHANGED <<careful, owner, in_tx, job, lost, fault, op, calls, strand, db_lock>> /\ UNCHANGEDserver
    /\ running' = Stopped(Locks, Locks')

RunsStrand == \/ ConnectTimesOut \/ Connects \/ ConnectFails
              \/ RunsBound \/ RunsRefused
              \/ DerefNull \/ Sends \/ TaskThrows \/ Completed \/ ReaderRow \/ ReaderEnds

(***************************************************************************)
(* The server.                                                              *)
(***************************************************************************)
\* The transaction after command o, by what the server answers.
TxAfter(o, t, ok) ==
    CASE o = "begin" -> IF ok /\ t = "none" THEN "open" ELSE t
      [] o \in {"commit", "rollback"} -> "none"
      [] OTHER -> IF ~ok /\ t = "open" THEN "failed" ELSE t
Answer(o, c, ok) ==
    /\ tx[c] = "failed" /\ o \notin {"commit", "rollback"} => ~ok
    /\ o \in {"prepared", "dealloc"} /\ names[c] = {} => ~ok
    /\ o = "commit" /\ tx[c] # "open" => ok
    /\ o \in {"begin", "rollback"} => ok
    /\ tx' = [tx EXCEPT ![c] = TxAfter(o, @, ok)]
    /\ names' = [names EXCEPT ![c] = IF o = "prepare" /\ ok THEN {"p"}
                                     ELSE IF o = "dealloc" /\ ok THEN {} ELSE @]
ServerAnswers(c) ==
    /\ srv[c].st = "busy" /\ link[c] = "up"
    /\ \E ok \in BOOLEAN, n \in 0..MaxRows :
          /\ op[srv[c].r] # "reader" \/ ~ok => n = 0
          /\ Answer(op[srv[c].r], c, ok)
          /\ srv' = [srv EXCEPT ![c].st = IF ok THEN "ok" ELSE "error", ![c].n = n]
    /\ UNCHANGED <<careful, owner, running, in_tx, link, job, lost, fault, op, calls, strand,
                   db_lock, prepared, order>>

\* Bound: links are lost under careful programs only.
Next ==
    /\ fault = "none"
    /\ \/ \E o \in Ops : Call(o)
       \/ \E r \in DOMAIN op : TimePasses(r)
       \/ RunsStrand
       \/ DropPrepared
       \/ \E c \in Conns : ServerAnswers(c)
       \/ Environment /\ (careful \/ lost' = {})
          /\ srv' = [c \in Conns |-> IF link'[c] = "down" THEN Idle ELSE srv[c]]
          /\ UNCHANGED <<careful, op, calls, strand, db_lock, prepared, order>>

\* The event queue runs the strand, the server answers and time passes; the
\* other databases owe nothing.
Fairness ==
    /\ WF_vars(fault = "none" /\ RunsStrand)
    /\ \A c \in Conns : WF_vars(fault = "none" /\ ServerAnswers(c))
    /\ \A r \in 1..MaxCalls : WF_vars(fault = "none" /\ TimePasses(r))
Spec == Init /\ [][Next]_vars /\ Fairness

(***************************************************************************)
(* Properties.                                                              *)
(***************************************************************************)
\* A careful program over links that hold.
Regular == careful /\ lost = {}

\* The completion callback of a call runs at most once.
CalledOnce == Regular => \A r \in DOMAIN calls : calls[r] <= 1

\* The same for links that may be lost: the documentation calls it "the
\* completion callback".
CompletionCallback == careful => \A r \in DOMAIN calls : calls[r] <= 1

\* No task meets a NULL _conn: the lock objects of the waiting tasks keep
\* the other databases from taking the connection, for every order of calls,
\* callbacks, timeouts and steals.
NoNullConn == Regular => fault # "null"

\* The server gets the commands of the calls in the order they were made.
InOrder == careful => \A i, j \in DOMAIN order : i < j => order[i] < order[j]

\* A transaction on the server is never where another database may take it:
\* also while BEGIN and COMMIT are under way, when is_in_transaction does
\* not tell yet or no more.
TransactionGuarded ==
    careful => \A c \in Conns : tx[c] # "none" => owner[c] = Me /\ ~CanBeStolen(c)

\* A connection that is marked as working has a lock object that will free
\* it: none is lost for the pool.
NoLeakedWork ==
    lost = {} => \A c \in Conns : running[c] # 0 =>
                                       \/ \E l \in Locks : l[1] = c
                                       \/ \E e \in Others : job[e] = c

\* Every call is answered: its completion callback runs, if need be with a
\* timeout, whatever the other databases do with the connections.
Answered == \A r \in 1..MaxCalls :
    (r \in DOMAIN calls /\ Regular) ~> ((r \in DOMAIN calls /\ calls[r] > 0) \/ ~Regular)
=============================================================================
