---------------------------- MODULE AsyncProofs ----------------------------
(***************************************************************************)
(* Proofs about Async, for any number of connections, of other databases,   *)
(* of calls and of calls under way.                                         *)
(***************************************************************************)
EXTENDS Async, TLAPS

(***************************************************************************)
(* What holds for every program.                                            *)
(***************************************************************************)
Lock == Conns \X Nat
Tasks(n) ==
    [kind : {"bound", "connect", "refused", "query"}, r : 1..n, ph : {1, 2},
     lock : Lock \cup {NoLock}, sent : BOOLEAN, late : BOOLEAN]
Commands(n) == [st : {"idle", "busy", "ok", "error"}, r : 0..n, n : Nat]

ASessionTypes ==
    /\ owner \in [Conns -> Others \cup {Me, None}]
    /\ running \in [Conns -> {0, 1, 2}]
    /\ in_tx \in [Conns -> BOOLEAN]
    /\ link \in [Conns -> {"up", "down"}]
    /\ tx \in [Conns -> {"none", "open", "failed"}]
    /\ job \in [Others -> Conns \cup {None}]
ATaskTypes ==
    /\ careful \in BOOLEAN
    /\ op \in Seq(Ops) /\ calls \in Seq({0, 1, 2}) /\ Len(calls) = Len(op)
    /\ strand \in Seq(Tasks(Len(op)))
    /\ db_lock \in Lock \cup {NoLock}
    /\ prepared \subseteq Lock
    /\ srv \in [Conns -> Commands(Len(op))]
    /\ order \in Seq(1..Len(op))
    /\ \A c \in Conns : srv[c].st # "idle" => srv[c].r # 0

\* Me has one _conn.
AMine == \A c, d \in Conns : owner[c] = Me /\ owner[d] = Me => c = d

\* A link that is down has been lost.
ALost == \A c \in Conns : link[c] = "down" => c \in lost

\* A task that has still to connect has no lock object; one that runs on a
\* connection has one.
Holds(t) == IF t.kind \in {"connect", "refused"} THEN t.lock = NoLock ELSE t.lock # NoLock
HeldIn(s) == \A i \in 1..Len(s) : Holds(s[i])
AHeld == HeldIn(strand)

\* begin takes the place of _lock only while a later task keeps the old one:
\* a task connects because there was no _lock when it was pushed.
KeptIn(s, lock) == \A i \in 1..Len(s) :
    s[i].kind = "connect" /\ lock # NoLock => \E j \in 1..Len(s) : i < j /\ s[j].lock = lock
AKeeps == KeptIn(strand, db_lock)

\* A link with no command on it.
AIdle == \A c \in Conns : srv[c].st = "idle" => srv[c] = Idle

AInv == ASessionTypes /\ ATaskTypes /\ AMine /\ ALost /\ AHeld /\ AKeeps /\ NoLeakedWork

(***************************************************************************)
(* What holds for a careful one.                                            *)
(***************************************************************************)
InFront == {"exec_p", "savepoint", "commit", "rollback"}
AtBack == {"exec_t", "prepare", "prepared"}

\* What task t and a task u behind it have to do with each other: the order of
\* their calls is the order of the strand among the queries and among the
\* tasks that have still to get their connection, and the queries were called first.
Before(t, u, o) ==
    /\ ~u.sent
    /\ IF u.kind = "query" /\ t.kind # "query" THEN u.r < t.r ELSE t.r < u.r
    /\ u.kind = "query" => o[u.r] \in AtBack \cup {"reader"}
    /\ t.kind = "connect" => u.lock = NoLock

\* Calls that wait together belong together.
Alike(o, done, lock) ==
    \A a, b \in 1..Len(o) :
        done[a] = 0 /\ done[b] = 0 /\ a # b =>
            \/ o[a] \in InFront /\ o[b] \in InFront
            \/ o[a] \in AtBack /\ o[b] \in AtBack /\ lock # NoLock

\* All tasks that have a lock object have the same, _lock if it is set.
OneLock(s, lock) ==
    /\ \A i, j \in 1..Len(s) : s[i].lock # NoLock /\ s[j].lock # NoLock => s[i].lock = s[j].lock
    /\ lock # NoLock => \A i \in 1..Len(s) : s[i].kind # "connect" /\ s[i].lock \in {NoLock, lock}

StrandOK(s, o, done, lock, sent) ==
    /\ \A i \in 1..Len(s) : done[s[i].r] = 0 /\ (s[i].sent => s[i].kind = "query")
    /\ \A i, j \in 1..Len(s) : i < j => Before(s[i], s[j], o)
    /\ Alike(o, done, lock)
    /\ OneLock(s, lock)
    /\ \A i \in 1..Len(s), k \in 1..Len(sent) : ~s[i].sent => sent[k] < s[i].r

Ascending == \A i, j \in 1..Len(order) : i < j => order[i] < order[j]

\* The connection of a lock object that a task or _lock holds is Me's and works.
Works(l) == l # NoLock => owner[l[1]] = Me /\ running[l[1]] = 1
GWorks == Works(db_lock) /\ \A i \in 1..Len(strand) : Works(strand[i].lock)

\* A command on a link is that of the first task.
GBusy == \A c \in Conns : srv[c].st # "idle" =>
    /\ strand # <<>> /\ First.kind = "query" /\ First.sent /\ First.r = srv[c].r
    /\ owner[c] = Me /\ link[c] = "up"

GJobs == \A e \in Others : job[e] # None => owner[job[e]] = e /\ running[job[e]] # 0

\* A transaction is on a link of Me that is marked, or will be when BEGIN's answer
\* is read.
GTrans == \A c \in Conns : tx[c] # "none" =>
    /\ owner[c] = Me /\ link[c] = "up"
    /\ in_tx[c] \/ (srv[c].st = "ok" /\ op[srv[c].r] = "begin")

\* The answer to COMMIT or ROLLBACK finds no transaction.
GEnded == \A c \in Conns :
    srv[c].st \in {"ok", "error"} /\ op[srv[c].r] \in {"commit", "rollback"} => tx[c] = "none"

Good ==
    /\ fault = "none"
    /\ StrandOK(strand, op, calls, db_lock, order)
    /\ \A r \in 1..Len(calls) : calls[r] \in {0, 1}
    /\ Ascending /\ GWorks /\ GBusy /\ GJobs /\ GTrans /\ GEnded

\* The first task has lost its link: it fails again and again.
Stuck == strand # <<>> /\ First.kind = "query" /\ (_conn = None \/ link[_conn] = "down")
Dead ==
    /\ Stuck /\ lost # {} /\ Ascending
    /\ \A c \in Conns : tx[c] = "none" /\ srv[c].st = "idle"

CInv == careful => Good \/ Dead

(***************************************************************************)
(* Sequences and tasks.                                                     *)
(***************************************************************************)
\* Append, element by element.
LEMMA AppendFacts ==
    ASSUME NEW S, NEW s \in Seq(S), NEW t \in S
    PROVE  /\ Append(s, t) \in Seq(S) /\ Len(Append(s, t)) = Len(s) + 1
           /\ \A i \in 1..Len(s) : Append(s, t)[i] = s[i]
           /\ Append(s, t)[Len(s) + 1] = t
OBVIOUS

\* Tail, element by element.
LEMMA TailFacts ==
    ASSUME NEW S, NEW s \in Seq(S), s # <<>>
    PROVE  /\ Tail(s) \in Seq(S) /\ Len(Tail(s)) = Len(s) - 1
           /\ Len(s) \in Nat \ {0} /\ Head(s) = s[1] /\ Head(s) \in S
           /\ \A i \in 1..(Len(s) - 1) : Tail(s)[i] = s[i + 1]
OBVIOUS

\* A task put in front, element by element.
LEMMA FrontFacts ==
    ASSUME NEW S, NEW s \in Seq(S), NEW t \in S
    PROVE  /\ <<t>> \o s \in Seq(S) /\ Len(<<t>> \o s) = Len(s) + 1
           /\ (<<t>> \o s)[1] = t
           /\ \A i \in 2..(Len(s) + 1) : (<<t>> \o s)[i] = s[i - 1]
OBVIOUS

\* A sequence over a set is one over a larger set.
LEMMA SeqGrows ==
    ASSUME NEW S, NEW T, S \subseteq T, NEW s \in Seq(S)
    PROVE  s \in Seq(T)
OBVIOUS

\* The tasks and commands for fewer calls are some of those for more.
LEMMA TasksGrow ==
    ASSUME NEW m \in Nat, NEW n \in Nat, m <= n
    PROVE  /\ Tasks(m) \subseteq Tasks(n) /\ Commands(m) \subseteq Commands(n)
           /\ 1..m \subseteq 1..n
<1>1. 1..m \subseteq 1..n /\ 0..m \subseteq 0..n
  OBVIOUS
<1>2. Tasks(m) \subseteq Tasks(n)
  BY <1>1 DEF Tasks
<1>3. Commands(m) \subseteq Commands(n)
  BY <1>1 DEF Commands
<1> QED
  BY <1>1, <1>2, <1>3

\* A task that has been sent, or that is late.
LEMMA TaskChanges ==
    ASSUME NEW n, NEW t \in Tasks(n)
    PROVE  [t EXCEPT !.late = TRUE] \in Tasks(n) /\ [t EXCEPT !.sent = TRUE] \in Tasks(n)
BY DEF Tasks

\* A lock object is not the absent one.
LEMMA LockIsSome ==
    /\ \A c \in Conns, r \in Nat : <<c, r>> \in Lock /\ <<c, r>> # NoLock /\ <<c, r>>[1] = c
    /\ \A l \in Lock : l # NoLock /\ l[1] \in Conns /\ l[2] \in Nat
BY DEF Lock, NoLock

\* A task that a call pushes: bound to the lock it finds, or to connect if
\* there is none, or refused.
NewTask(t, n, lock) ==
    /\ t \in Tasks(n) /\ t.r = n /\ ~t.sent
    /\ t.kind \in {"bound", "connect", "refused"} /\ Holds(t)
    /\ t.lock \in {NoLock, lock} /\ (t.kind = "connect" => lock = NoLock)
\* What open_connection pushes.
LEMMA OpenFacts ==
    ASSUME NEW n \in Nat \ {0}, NEW lock \in Lock \cup {NoLock}, NEW ph \in {1, 2}
    PROVE  NewTask(open_connection(n, ph, lock), n, lock)
<1> DEFINE t == open_connection(n, ph, lock)
<1>1. t.r = n /\ t.sent = FALSE /\ t.late = FALSE /\ t.ph = ph
  BY DEF open_connection, Task
<1>2. CASE lock # NoLock
  <2>1. t.kind = "bound" /\ t.lock = lock
    BY <1>2 DEF open_connection, Task
  <2>2. t \in Tasks(n)
    BY <1>2 DEF open_connection, Task, Tasks
  <2> QED
    BY <1>1, <2>1, <2>2, <1>2 DEF NewTask, Holds
<1>3. CASE lock = NoLock
  <2>1. t.kind = "connect" /\ t.lock = NoLock
    BY <1>3 DEF open_connection, Task
  <2>2. t \in Tasks(n)
    BY <1>3 DEF open_connection, Task, Tasks
  <2> QED
    BY <1>1, <2>1, <2>2, <1>3 DEF NewTask, Holds
<1> QED
  BY <1>2, <1>3

\* What a call pushes.
LEMMA CallFacts ==
    ASSUME NEW n \in Nat \ {0}, NEW o, NEW lock \in Lock \cup {NoLock}, NEW intx
    PROVE  NewTask(call(n, o, lock, intx), n, lock)
<1>1. CASE Refused(o, intx)
  <2> DEFINE t == Task("refused", n, 1, NoLock)
  <2>1. call(n, o, lock, intx) = t
    BY <1>1 DEF call
  <2>2. t.r = n /\ t.sent = FALSE /\ t.kind = "refused" /\ t.lock = NoLock
    BY DEF Task
  <2>3. t \in Tasks(n)
    BY DEF Task, Tasks
  <2> QED
    BY <2>1, <2>2, <2>3 DEF NewTask, Holds
<1>2. CASE ~Refused(o, intx)
  BY <1>2, OpenFacts DEF call
<1> QED
  BY <1>1, <1>2

\* Calls leave the tasks of s where they are and push at most one.
Pushes(done, waiting, s, lock, intx) ==
    \/ op' = op /\ calls' = done /\ strand' = s
    \/ \E o \in Ops : /\ MayCall(o, waiting, lock, intx)
                      /\ op' = Append(op, o) /\ calls' = Append(done, 0)
                      /\ strand' = Append(s, call(Len(op) + 1, o, lock, intx))
Done(r) == [calls EXCEPT ![r] = IF @ = 0 THEN 1 ELSE 2]
\* A completion callback marks its call and pushes as a call does.
LEMMA CallsBackPushes ==
    ASSUME ATaskTypes, NEW r \in 1..Len(op), NEW s \in Seq(Tasks(Len(op))),
           NEW lock \in Lock \cup {NoLock}, NEW intx, CallsBack(r, s, lock, intx)
    PROVE  Pushes(Done(r), Waiting \ {r}, s, lock, intx)
<1> DEFINE n == Len(op)
<1>1. PICK more \in More(r, lock, intx) :
          /\ op' = op \o more
          /\ calls' = Done(r) \o [i \in DOMAIN more |-> 0]
          /\ strand' = s \o Calls(more, lock, intx)
  BY DEF CallsBack, Done
<1>2. Done(r) \in Seq({0, 1, 2}) /\ op \in Seq(Ops) /\ n \in Nat
  BY DEF ATaskTypes, Done
<1>3. CASE more = <<>>
  <2>1. [i \in DOMAIN more |-> 0] = <<>> /\ Calls(more, lock, intx) = <<>>
    BY <1>3 DEF Calls
  <2> QED
    BY <1>1, <1>2, <1>3, <2>1 DEF Pushes
<1>4. ASSUME NEW o \in Ops, MayCall(o, Waiting \ {r}, lock, intx), more = <<o>>
      PROVE  Pushes(Done(r), Waiting \ {r}, s, lock, intx)
  <2> DEFINE t == call(n + 1, o, lock, intx)
  <2>1. [i \in DOMAIN more |-> 0] = <<0>>
    BY <1>4
  <2>2. Calls(more, lock, intx) = <<t>>
    <3>1. DOMAIN more = {1} /\ more[1] = o
      BY <1>4
    <3>2. Calls(more, lock, intx) = [i \in {1} |-> call(n + i, more[i], lock, intx)]
      BY <3>1 DEF Calls
    <3>3. DOMAIN <<t>> = {1} /\ <<t>>[1] = t
      OBVIOUS
    <3> HIDE DEF t
    <3>4. [i \in {1} |-> call(n + i, more[i], lock, intx)] = [i \in {1} |-> t]
      BY <3>1 DEF t
    <3>5. <<t>> = [i \in {1} |-> t]
      OBVIOUS
    <3> QED
      BY <3>2, <3>4, <3>5
  <2>3. t \in Tasks(n + 1) /\ s \in Seq(Tasks(n + 1))
    BY <1>2, CallFacts, TasksGrow, SeqGrows DEF NewTask
  <2> HIDE DEF t
  <2>4. s \o <<t>> = Append(s, t)
    BY <2>3
  <2>5. op \o <<o>> = Append(op, o) /\ Done(r) \o <<0>> = Append(Done(r), 0)
    BY <1>2
  <2>6. op' = Append(op, o) /\ calls' = Append(Done(r), 0) /\ strand' = Append(s, t)
    BY <1>1, <1>4, <2>1, <2>2, <2>4, <2>5
  <2> QED
    BY <1>4, <2>6 DEF Pushes, t
<1> QED
  BY <1>1, <1>3, <1>4 DEF More

\* What a push leaves as it was.
LEMMA PushFacts ==
    ASSUME ATaskTypes, NEW done \in Seq({0, 1, 2}), Len(done) = Len(op), NEW waiting,
           NEW s \in Seq(Tasks(Len(op))), NEW lock \in Lock \cup {NoLock}, NEW intx,
           Pushes(done, waiting, s, lock, intx)
    PROVE  /\ op' \in Seq(Ops) /\ Len(op') \in Nat /\ Len(op) <= Len(op')
           /\ calls' \in Seq({0, 1, 2}) /\ Len(calls') = Len(op')
           /\ strand' \in Seq(Tasks(Len(op')))
           /\ \A r \in 1..Len(op) : op'[r] = op[r] /\ calls'[r] = done[r]
           /\ Len(s) <= Len(strand') /\ \A i \in 1..Len(s) : strand'[i] = s[i]
           /\ HeldIn(s) => HeldIn(strand')
           /\ KeptIn(s, lock) => KeptIn(strand', lock)
<1> DEFINE n == Len(op)
<1>1. op \in Seq(Ops) /\ n \in Nat /\ Len(s) \in Nat
  BY DEF ATaskTypes
<1>2. CASE op' = op /\ calls' = done /\ strand' = s
  BY <1>1, <1>2
<1>3. ASSUME NEW o \in Ops, op' = Append(op, o), calls' = Append(done, 0),
             strand' = Append(s, call(n + 1, o, lock, intx))
      PROVE  /\ op' \in Seq(Ops) /\ Len(op') \in Nat /\ Len(op) <= Len(op')
             /\ calls' \in Seq({0, 1, 2}) /\ Len(calls') = Len(op')
             /\ strand' \in Seq(Tasks(Len(op')))
             /\ \A r \in 1..Len(op) : op'[r] = op[r] /\ calls'[r] = done[r]
             /\ Len(s) <= Len(strand') /\ \A i \in 1..Len(s) : strand'[i] = s[i]
             /\ HeldIn(s) => HeldIn(strand')
             /\ KeptIn(s, lock) => KeptIn(strand', lock)
  <2> DEFINE t == call(n + 1, o, lock, intx)
  <2>1. NewTask(t, n + 1, lock)
    BY <1>1, CallFacts
  <2>2. s \in Seq(Tasks(n + 1))
    BY <1>1, TasksGrow, SeqGrows
  <2> HIDE DEF t
  <2>3. /\ op' \in Seq(Ops) /\ Len(op') = n + 1 /\ \A r \in 1..n : op'[r] = op[r]
    BY <1>1, <1>3, AppendFacts
  <2>4. /\ calls' \in Seq({0, 1, 2}) /\ Len(calls') = n + 1
        /\ \A r \in 1..n : calls'[r] = done[r]
    BY <1>1, <1>3, AppendFacts
  <2>5. /\ strand' \in Seq(Tasks(n + 1)) /\ Len(strand') = Len(s) + 1
        /\ \A i \in 1..Len(s) : strand'[i] = s[i]
        /\ strand'[Len(s) + 1] = t
    <3>1. strand' = Append(s, t)
      BY <1>3 DEF t
    <3>2. t \in Tasks(n + 1)
      BY <2>1 DEF NewTask
    <3> QED
      BY <3>1, <3>2, <2>2, AppendFacts
  <2>6. HeldIn(s) => HeldIn(strand')
    <3>1. Holds(t)
      BY <2>1 DEF NewTask
    <3> QED
      BY <1>1, <2>5, <3>1 DEF HeldIn
  <2>7. ASSUME KeptIn(s, lock) PROVE KeptIn(strand', lock)
    <3> SUFFICES ASSUME NEW i \in 1..(Len(s) + 1), strand'[i].kind = "connect", lock # NoLock
                 PROVE  \E j \in 1..(Len(s) + 1) : i < j /\ strand'[j].lock = lock
      BY <2>5 DEF KeptIn
    <3>1. i \in 1..Len(s)
      BY <1>1, <2>1, <2>5 DEF NewTask
    <3>2. PICK j \in 1..Len(s) : i < j /\ s[j].lock = lock
      BY <2>5, <2>7, <3>1 DEF KeptIn
    <3> QED
      BY <1>1, <2>5, <3>2
  <2> QED
    BY <1>1, <2>3, <2>4, <2>5, <2>6, <2>7
<1> QED
  BY <1>2, <1>3 DEF Pushes

\* The rest of the strand, and a task put in front of it or behind it.
LEMMA RestKeeps ==
    ASSUME ATaskTypes, strand # <<>>, NEW lock
    PROVE  /\ Rest \in Seq(Tasks(Len(op))) /\ Len(Rest) = Len(strand) - 1
           /\ Len(strand) \in Nat \ {0} /\ First = strand[1] /\ First \in Tasks(Len(op))
           /\ \A i \in 1..Len(Rest) : Rest[i] = strand[i + 1]
           /\ \A i \in 1..Len(strand) : i # 1 => i - 1 \in 1..Len(Rest) /\ Rest[i - 1] = strand[i]
           /\ HeldIn(strand) => HeldIn(Rest)
           /\ KeptIn(strand, lock) => KeptIn(Rest, lock)
<1>1. /\ Rest \in Seq(Tasks(Len(op))) /\ Len(Rest) = Len(strand) - 1
      /\ Len(strand) \in Nat \ {0} /\ First = strand[1] /\ First \in Tasks(Len(op))
      /\ \A i \in 1..(Len(strand) - 1) : Rest[i] = strand[i + 1]
  BY TailFacts DEF ATaskTypes, First, Rest
<1> HIDE DEF First, Rest
<1>2. HeldIn(strand) => HeldIn(Rest)
  BY <1>1 DEF HeldIn
<1>3. ASSUME KeptIn(strand, lock) PROVE KeptIn(Rest, lock)
  <2> SUFFICES ASSUME NEW i \in 1..Len(Rest), Rest[i].kind = "connect", lock # NoLock
               PROVE  \E j \in 1..Len(Rest) : i < j /\ Rest[j].lock = lock
    BY DEF KeptIn
  <2>1. i + 1 \in 1..Len(strand) /\ strand[i + 1].kind = "connect"
    BY <1>1
  <2>2. PICK j \in 1..Len(strand) : i + 1 < j /\ strand[j].lock = lock
    BY <1>3, <2>1 DEF KeptIn
  <2>3. j - 1 \in 1..Len(Rest) /\ i < j - 1 /\ Rest[j - 1] = strand[j]
    BY <1>1, <2>2
  <2> QED
    BY <2>2, <2>3
<1>4. \A i \in 1..Len(Rest) : Rest[i] = strand[i + 1]
  BY <1>1
<1>5. ASSUME NEW i \in 1..Len(strand), i # 1
      PROVE  i - 1 \in 1..Len(Rest) /\ Rest[i - 1] = strand[i]
  <2>1. i - 1 \in 1..(Len(strand) - 1) /\ (i - 1) + 1 = i
    BY <1>1, <1>5
  <2> QED
    BY <1>1, <2>1
<1> QED
  BY <1>1, <1>2, <1>3, <1>4, <1>5

(***************************************************************************)
(* Work that is not lost.                                                   *)
(***************************************************************************)
\* Lock objects, by who holds them.
LEMMA LocksFacts ==
    ASSUME NEW l
    PROVE  l \in Locks <=> /\ l # NoLock
                           /\ \/ l = db_lock \/ l \in prepared
                              \/ \E i \in DOMAIN strand : strand[i].lock = l
BY DEF Locks, ToSet

\* While all lock objects live on, so does the work they stand for.
LEMMA StillWorked ==
    ASSUME NoLeakedWork, Locks \subseteq Locks', UNCHANGED <<job, lost>>,
           \A c \in Conns : running'[c] # 0 => running[c] # 0 \/ \E l \in Locks' : l[1] = c
    PROVE  NoLeakedWork'
BY DEF NoLeakedWork

\* One that dies stops it.
LEMMA StoppedWork ==
    ASSUME NoLeakedWork, UNCHANGED <<job, lost>>, running' = Stopped(Locks, Locks')
    PROVE  NoLeakedWork'
<1> SUFFICES ASSUME lost = {}, NEW c \in Conns, running'[c] # 0
             PROVE  (\E l \in Locks' : l[1] = c) \/ (\E e \in Others : job[e] = c)
  BY DEF NoLeakedWork
<1>1. c \notin {l[1] : l \in Locks \ Locks'} /\ running[c] # 0
  BY DEF Stopped
<1> QED
  BY <1>1 DEF NoLeakedWork

\* Types of the connections' marks after a stop.
LEMMA StoppedType ==
    ASSUME ASessionTypes, NEW x, NEW y
    PROVE  Stopped(x, y) \in [Conns -> {0, 1, 2}]
BY DEF ASessionTypes, Stopped

\* _conn is the connection that Me owns.
LEMMA MyConn ==
    ASSUME AMine
    PROVE  /\ \A c \in Conns : owner[c] = Me => _conn = c
           /\ _conn # None => _conn \in Conns /\ owner[_conn] = Me
BY SessionAssumption DEF AMine, _conn, ConnOf

\* A task behind the others, or in front of them.
LEMMA AppendKeeps ==
    ASSUME NEW n \in Nat, NEW s \in Seq(Tasks(n)), NEW t \in Tasks(n), NEW lock,
           HeldIn(s), Holds(t),
           \/ KeptIn(s, lock) /\ (t.kind = "connect" => lock = NoLock)
           \/ t.kind # "connect" /\ t.lock = lock
    PROVE  HeldIn(Append(s, t)) /\ KeptIn(Append(s, t), lock)
<1> DEFINE z == Append(s, t)
<1>1. /\ Len(z) = Len(s) + 1 /\ Len(s) \in Nat /\ z[Len(s) + 1] = t
      /\ \A i \in 1..Len(s) : z[i] = s[i]
  BY AppendFacts
<1> HIDE DEF z
<1>2. HeldIn(z)
  BY <1>1 DEF HeldIn
<1>3. KeptIn(z, lock)
  <2> SUFFICES ASSUME NEW i \in 1..(Len(s) + 1), z[i].kind = "connect", lock # NoLock
               PROVE  \E j \in 1..(Len(s) + 1) : i < j /\ z[j].lock = lock
    BY <1>1 DEF KeptIn
  <2>1. i \in 1..Len(s)
    BY <1>1
  <2>2. CASE t.kind # "connect" /\ t.lock = lock
    BY <1>1, <2>1, <2>2
  <2>3. CASE KeptIn(s, lock)
    BY <1>1, <2>1, <2>3 DEF KeptIn
  <2> QED
    BY <2>2, <2>3
<1> QED
  BY <1>2, <1>3 DEF z

\* The same for a query put in front.
LEMMA FrontKeeps ==
    ASSUME NEW n \in Nat, NEW s \in Seq(Tasks(n)), NEW t \in Tasks(n), NEW lock,
           HeldIn(s), Holds(t), KeptIn(s, lock), t.kind # "connect"
    PROVE  HeldIn(<<t>> \o s) /\ KeptIn(<<t>> \o s, lock)
<1> DEFINE z == <<t>> \o s
<1>1. /\ Len(z) = Len(s) + 1 /\ Len(s) \in Nat /\ z[1] = t
      /\ \A i \in 2..(Len(s) + 1) : z[i] = s[i - 1]
  BY FrontFacts
<1> HIDE DEF z
<1>2. HeldIn(z)
  BY <1>1 DEF HeldIn
<1>3. KeptIn(z, lock)
  <2> SUFFICES ASSUME NEW i \in 1..(Len(s) + 1), z[i].kind = "connect", lock # NoLock
               PROVE  \E j \in 1..(Len(s) + 1) : i < j /\ z[j].lock = lock
    BY <1>1 DEF KeptIn
  <2>1. i \in 2..(Len(s) + 1) /\ i - 1 \in 1..Len(s) /\ s[i - 1].kind = "connect"
    BY <1>1
  <2>2. PICK j \in 1..Len(s) : i - 1 < j /\ s[j].lock = lock
    BY <2>1 DEF KeptIn
  <2>3. j + 1 \in 2..(Len(s) + 1) /\ i < j + 1 /\ (j + 1) - 1 = j
    BY <1>1, <2>2
  <2>4. z[j + 1] = s[j]
    BY <1>1, <2>3
  <2> QED
    BY <2>2, <2>3, <2>4
<1> QED
  BY <1>2, <1>3 DEF z

\* What the callbacks of open_connection make of the strand and of _lock, in
\* general.
LEMMA OpenedKeeps ==
    ASSUME ATaskTypes, AHeld, AKeeps, strand # <<>>, NEW lock \in Lock,
           NEW s, s = Opened(First.r, First.ph, lock, Rest),
           NEW l, l = OpenedLock(First.r, First.ph, lock)
    PROVE  /\ s \in Seq(Tasks(Len(op))) /\ l \in Lock \cup {NoLock}
           /\ HeldIn(s) /\ KeptIn(s, l)
           /\ \A i \in 1..Len(Rest) : \E j \in 1..Len(s) : s[j] = Rest[i]
<1> DEFINE n == Len(op)
           r == First.r
           q == Task("query", r, First.ph, lock)
           b == Task("bound", r, 2, lock)
           d == open_connection(r, 2, db_lock)
<1>1. /\ Rest \in Seq(Tasks(n)) /\ First \in Tasks(n) /\ HeldIn(Rest) /\ KeptIn(Rest, db_lock)
      /\ n \in Nat /\ db_lock \in Lock \cup {NoLock} /\ Len(Rest) \in Nat
  BY RestKeeps DEF ATaskTypes, AHeld, AKeeps
<1>2. r \in 1..n /\ First.ph \in {1, 2} /\ r \in Nat \ {0}
  BY <1>1 DEF Tasks
<1>3. lock # NoLock
  BY LockIsSome
<1>4. q \in Tasks(n) /\ b \in Tasks(n) /\ Holds(q) /\ Holds(b)
      /\ q.kind = "query" /\ b.kind = "bound" /\ b.lock = lock
  BY <1>2, <1>3 DEF Task, Tasks, Holds
<1>5. d \in Tasks(n) /\ Holds(d) /\ (d.kind = "connect" => db_lock = NoLock)
  <2>1. NewTask(d, r, db_lock)
    BY <1>1, <1>2, OpenFacts
  <2>2. Tasks(r) \subseteq Tasks(n)
    BY <1>1, <1>2, TasksGrow
  <2> QED
    BY <2>1, <2>2 DEF NewTask
<1> HIDE DEF n, r, q, b, d
<1>6. CASE s = Append(Rest, b) /\ l = lock
  <2>1. HeldIn(s) /\ KeptIn(s, l)
    BY <1>1, <1>4, <1>6, AppendKeeps
  <2>2. s \in Seq(Tasks(n)) /\ Len(s) = Len(Rest) + 1 /\ \A i \in 1..Len(Rest) : s[i] = Rest[i]
    BY <1>1, <1>4, <1>6, AppendFacts
  <2> QED
    BY <1>1, <1>6, <2>1, <2>2 DEF n
<1>7. CASE s = Append(Rest, d) /\ l = db_lock
  <2>1. HeldIn(s) /\ KeptIn(s, l)
    BY <1>1, <1>5, <1>7, AppendKeeps
  <2>2. s \in Seq(Tasks(n)) /\ Len(s) = Len(Rest) + 1 /\ \A i \in 1..Len(Rest) : s[i] = Rest[i]
    BY <1>1, <1>5, <1>7, AppendFacts
  <2> QED
    BY <1>1, <1>7, <2>1, <2>2 DEF n
<1>8. CASE s = Append(Rest, q) /\ l = db_lock
  <2>1. HeldIn(s) /\ KeptIn(s, l)
    BY <1>1, <1>4, <1>8, AppendKeeps
  <2>2. s \in Seq(Tasks(n)) /\ Len(s) = Len(Rest) + 1 /\ \A i \in 1..Len(Rest) : s[i] = Rest[i]
    BY <1>1, <1>4, <1>8, AppendFacts
  <2> QED
    BY <1>1, <1>8, <2>1, <2>2 DEF n
<1>9. CASE s = <<q>> \o Rest /\ l = db_lock
  <2>1. HeldIn(s) /\ KeptIn(s, l)
    BY <1>1, <1>4, <1>9, FrontKeeps
  <2>2. s \in Seq(Tasks(n)) /\ Len(s) = Len(Rest) + 1
        /\ \A i \in 2..(Len(Rest) + 1) : s[i] = Rest[i - 1]
    BY <1>1, <1>4, <1>9, FrontFacts
  <2>3. ASSUME NEW i \in 1..Len(Rest) PROVE \E j \in 1..Len(s) : s[j] = Rest[i]
    <3>1. i + 1 \in 2..(Len(Rest) + 1) /\ (i + 1) - 1 = i /\ i + 1 \in 1..Len(s)
      BY <1>1, <2>2
    <3> QED
      BY <2>2, <3>1
  <2> QED
    BY <1>1, <1>9, <2>1, <2>2, <2>3 DEF n
<1> QED
  BY <1>6, <1>7, <1>8, <1>9 DEF Opened, OpenedLock, r, q, b, d

(***************************************************************************)
(* The steps of every program.                                              *)
(***************************************************************************)
\* Types after a push.
LEMMA PushTypes ==
    ASSUME ATaskTypes, NEW done \in Seq({0, 1, 2}), Len(done) = Len(op), NEW waiting,
           NEW s \in Seq(Tasks(Len(op))), HeldIn(s), KeptIn(s, db_lock), NEW intx,
           NEW lock \in {db_lock, db_lock'}, Pushes(done, waiting, s, lock, intx),
           db_lock' \in {db_lock, NoLock},
           UNCHANGED <<careful, order>>, prepared' \subseteq Lock,
           srv' \in [Conns -> Commands(Len(op))],
           \A c \in Conns : srv'[c].st # "idle" => srv'[c].r # 0
    PROVE  /\ ATaskTypes' /\ AHeld' /\ AKeeps'
           /\ Len(s) <= Len(strand') /\ Len(s) \in Nat /\ Len(strand') \in Nat
           /\ \A i \in 1..Len(s) : strand'[i] = s[i]
<1>0. lock \in Lock \cup {NoLock} /\ lock \in {db_lock, NoLock} /\ KeptIn(s, lock)
  BY DEF ATaskTypes, KeptIn
<1>1. db_lock \in Lock \cup {NoLock} /\ Len(op) \in Nat /\ order \in Seq(1..Len(op))
      /\ careful \in BOOLEAN
  BY DEF ATaskTypes
<1>2. /\ op' \in Seq(Ops) /\ Len(op') \in Nat /\ Len(op) <= Len(op')
      /\ calls' \in Seq({0, 1, 2}) /\ Len(calls') = Len(op')
      /\ strand' \in Seq(Tasks(Len(op')))
      /\ Len(s) <= Len(strand') /\ \A i \in 1..Len(s) : strand'[i] = s[i]
      /\ HeldIn(strand') /\ KeptIn(strand', lock)
  BY <1>0, <1>1, PushFacts
<1>3. /\ 1..Len(op) \subseteq 1..Len(op') /\ Commands(Len(op)) \subseteq Commands(Len(op'))
  BY <1>1, <1>2, TasksGrow
<1>4. order' \in Seq(1..Len(op'))
  BY <1>1, <1>3, SeqGrows
<1>5. srv' \in [Conns -> Commands(Len(op'))]
  BY <1>3
<1>6. ATaskTypes'
  BY <1>1, <1>2, <1>4, <1>5 DEF ATaskTypes
<1>7. KeptIn(strand', db_lock')
  BY <1>0, <1>2 DEF KeptIn
<1> QED
  BY <1>2, <1>6, <1>7 DEF AHeld, AKeeps

\* The same for a callback, with the first task gone or kept.
LEMMA BackTypes ==
    ASSUME AInv, strand # <<>>, NEW s \in {strand, Rest}, NEW intx,
           NEW lock \in {db_lock, db_lock'}, CallsBack(First.r, s, lock, intx),
           db_lock' \in {db_lock, NoLock},
           UNCHANGED <<careful, order>>, prepared' \subseteq Lock,
           srv' \in [Conns -> Commands(Len(op))],
           \A c \in Conns : srv'[c].st # "idle" => srv'[c].r # 0
    PROVE  /\ ATaskTypes' /\ AHeld' /\ AKeeps'
           /\ Len(s) <= Len(strand') /\ Len(s) \in Nat /\ Len(strand') \in Nat
           /\ \A i \in 1..Len(s) : strand'[i] = s[i]
<1>1. /\ ATaskTypes /\ AHeld /\ AKeeps /\ calls \in Seq({0, 1, 2}) /\ Len(calls) = Len(op)
      /\ db_lock \in Lock \cup {NoLock} /\ strand \in Seq(Tasks(Len(op)))
  BY DEF AInv, ATaskTypes
<1>2. s \in Seq(Tasks(Len(op))) /\ HeldIn(s) /\ KeptIn(s, db_lock)
  BY <1>1, RestKeeps DEF AHeld, AKeeps
<1>3. First.r \in 1..Len(op)
  BY <1>1, RestKeeps DEF Tasks
<1>4. Pushes(Done(First.r), Waiting \ {First.r}, s, lock, intx)
  BY <1>1, <1>2, <1>3, CallsBackPushes
<1>5. Done(First.r) \in Seq({0, 1, 2}) /\ Len(Done(First.r)) = Len(op)
  BY <1>1, <1>3 DEF Done
<1> HIDE DEF First, Rest
<1> QED
  BY <1>1, <1>2, <1>4, <1>5, PushTypes

\* The first task has no lock object: no lock object is lost with it.
LEMMA FirstFree ==
    ASSUME AInv, strand # <<>>, First.lock = NoLock, UNCHANGED <<db_lock, prepared>>,
           Len(Rest) <= Len(strand'), Len(strand') \in Nat, strand' \in Seq(Tasks(Len(op'))),
           \A i \in 1..Len(Rest) : strand'[i] = Rest[i]
    PROVE  Locks \subseteq Locks'
<1> SUFFICES ASSUME NEW l \in Locks PROVE l \in Locks'
  OBVIOUS
<1>0. DOMAIN strand = 1..Len(strand) /\ DOMAIN strand' = 1..Len(strand')
  BY DEF AInv, ATaskTypes
<1>1. CASE l = db_lock \/ l \in prepared
  BY <1>1, LocksFacts DEF Locks
<1>2. ASSUME NEW i \in 1..Len(strand), strand[i].lock = l PROVE l \in Locks'
  <2>1. l # NoLock
    BY DEF Locks
  <2>2. i # 1
    BY <2>1, <1>2, RestKeeps DEF AInv
  <2>3. i - 1 \in 1..Len(Rest) /\ Rest[i - 1] = strand[i] /\ Len(Rest) \in Nat
    BY <2>2, RestKeeps DEF AInv
  <2>4. strand'[i - 1].lock = l /\ i - 1 \in 1..Len(strand')
    BY <1>2, <2>3
  <2> QED
    BY <1>0, <2>1, <2>4 DEF Locks, ToSet
<1> QED
  BY <1>0, <1>1, <1>2, LocksFacts

\* Steps that leave the connections with whom they were.
LEMMA SameOwners ==
    ASSUME ASessionTypes, AMine, ALost, UNCHANGED <<owner, link, job, lost>>,
           running' \in [Conns -> {0, 1, 2}], in_tx' \in [Conns -> BOOLEAN],
           tx' \in [Conns -> {"none", "open", "failed"}]
    PROVE  ASessionTypes' /\ AMine' /\ ALost'
BY DEF ASessionTypes, AMine, ALost

\* A call of the program.
LEMMA CallStep == ASSUME AInv, NEW o \in Ops, Call(o) PROVE AInv'
<1> DEFINE waiting == Waiting
           intx == in_transaction
<1>1. Pushes(calls, waiting, strand, db_lock, intx)
  BY DEF Call, Pushes
<1>2. UNCHANGED <<careful, sessionVars, db_lock, prepared, srv, order>>
  BY DEF Call
<1> HIDE DEF waiting, intx
<1>3. /\ ATaskTypes /\ ASessionTypes /\ AMine /\ ALost /\ NoLeakedWork
      /\ HeldIn(strand) /\ KeptIn(strand, db_lock)
  BY DEF AInv, AHeld, AKeeps
<1>4. /\ ATaskTypes' /\ AHeld' /\ AKeeps' /\ Len(strand) <= Len(strand')
      /\ Len(strand') \in Nat /\ \A i \in 1..Len(strand) : strand'[i] = strand[i]
  BY <1>1, <1>2, <1>3, PushTypes DEF ATaskTypes
<1>5. ASessionTypes' /\ AMine' /\ ALost'
  BY <1>2, <1>3, SameOwners DEF sessionVars, ASessionTypes
<1>6. Locks \subseteq Locks'
  <2>1. DOMAIN strand = 1..Len(strand) /\ DOMAIN strand' = 1..Len(strand')
    BY <1>3, <1>4 DEF ATaskTypes
  <2>2. ASSUME NEW i \in DOMAIN strand PROVE i \in DOMAIN strand' /\ strand'[i] = strand[i]
    BY <2>1, <1>4
  <2> QED
    BY <1>2, <2>2 DEF Locks, ToSet
<1>7. NoLeakedWork'
  BY <1>2, <1>3, <1>6, StillWorked DEF sessionVars
<1> QED
  BY <1>4, <1>5, <1>7 DEF AInv

\* The deadline of a connect task.
LEMMA TimePassesStep == ASSUME AInv, NEW r, TimePasses(r) PROVE AInv'
<1>1. PICK i \in DOMAIN strand : strand' = [strand EXCEPT ![i].late = TRUE]
  BY DEF TimePasses
<1>2. UNCHANGED <<careful, sessionVars, op, calls, db_lock, prepared, srv, order>>
  BY DEF TimePasses
<1>3. ATaskTypes /\ ASessionTypes /\ AMine /\ ALost /\ NoLeakedWork /\ AHeld /\ AKeeps
  BY DEF AInv
<1>4. strand \in Seq(Tasks(Len(op))) /\ DOMAIN strand = 1..Len(strand)
  BY <1>3 DEF ATaskTypes
<1>5. [strand[i] EXCEPT !.late = TRUE] \in Tasks(Len(op))
  <2>1. strand[i] \in Tasks(Len(op))
    BY <1>1, <1>4
  <2> QED
    BY <2>1, TaskChanges
<1>6. /\ strand' \in Seq(Tasks(Len(op))) /\ Len(strand') = Len(strand) /\ DOMAIN strand' = DOMAIN strand
      /\ \A j \in 1..Len(strand) : strand'[j].kind = strand[j].kind /\ strand'[j].lock = strand[j].lock
  <2>1. strand' = [j \in 1..Len(strand) |-> IF j = i THEN [strand[i] EXCEPT !.late = TRUE] ELSE strand[j]]
    BY <1>1, <1>4
  <2>2. Len(strand) \in Nat /\ \A j \in 1..Len(strand) : strand[j] \in Tasks(Len(op))
    BY <1>4
  <2>3. strand' \in Seq(Tasks(Len(op))) /\ Len(strand') = Len(strand)
    BY <1>5, <2>1, <2>2
  <2>4. ASSUME NEW j \in 1..Len(strand)
        PROVE  strand'[j].kind = strand[j].kind /\ strand'[j].lock = strand[j].lock
    <3>1. strand[i] \in Tasks(Len(op))
      BY <1>1, <1>4
    <3> QED
      BY <2>1, <3>1 DEF Tasks
  <2> QED
    BY <1>4, <2>3, <2>4
<1>7. ATaskTypes'
  BY <1>2, <1>3, <1>6 DEF ATaskTypes
<1>8. AHeld' /\ AKeeps'
  BY <1>2, <1>3, <1>6 DEF AHeld, AKeeps, HeldIn, KeptIn, Holds
<1>9. ASessionTypes' /\ AMine' /\ ALost'
  BY <1>2, <1>3, SameOwners DEF sessionVars, ASessionTypes
<1>10. Locks \subseteq Locks'
  BY <1>2, <1>4, <1>6 DEF Locks, ToSet
<1>11. NoLeakedWork'
  BY <1>2, <1>3, <1>10, StillWorked DEF sessionVars
<1> QED
  BY <1>7, <1>8, <1>9, <1>11 DEF AInv

\* A callback with an error, before there was a connection.
LEMMA RefusedStep == ASSUME AInv, RunsRefused PROVE AInv'
<1>1. /\ strand # <<>> /\ First.kind \in {"connect", "refused"}
      /\ CallsBack(First.r, Rest, db_lock, in_transaction)
      /\ UNCHANGED <<careful, sessionVars, db_lock, prepared, srv, order>>
  BY DEF RunsRefused, Runs
<1>2. ATaskTypes /\ ASessionTypes /\ AMine /\ ALost /\ NoLeakedWork /\ AHeld
  BY DEF AInv
<1> DEFINE intx == in_transaction
<1>3. CallsBack(First.r, Rest, db_lock, intx)
  BY <1>1
<1> HIDE DEF intx
<1>4. /\ ATaskTypes' /\ AHeld' /\ AKeeps' /\ Len(Rest) <= Len(strand')
      /\ Len(strand') \in Nat /\ \A i \in 1..Len(Rest) : strand'[i] = Rest[i]
  BY <1>1, <1>2, <1>3, BackTypes DEF ATaskTypes
<1>5. ASessionTypes' /\ AMine' /\ ALost'
  BY <1>1, <1>2, SameOwners DEF sessionVars, ASessionTypes
<1>6. First.lock = NoLock
  BY <1>1, <1>2, RestKeeps DEF AHeld, HeldIn, Holds
<1>7. Locks \subseteq Locks'
  BY <1>1, <1>4, <1>6, FirstFree DEF ATaskTypes
<1>8. NoLeakedWork'
  BY <1>1, <1>2, <1>7, StillWorked DEF sessionVars
<1> QED
  BY <1>4, <1>5, <1>8 DEF AInv

\* The error branch gives up _lock, or leaves it.
LEMMA ErrorLock ==
    ASSUME OnError PROVE db_lock' \in {db_lock, NoLock} /\ (db_lock' = db_lock \/ op[First.r] \notin AtBack)
BY DEF OnError, AtBack

\* The deadline of a connect task has passed.
LEMMA TimesOutStep == ASSUME AInv, ConnectTimesOut PROVE AInv'
<1>1. ATaskTypes /\ ASessionTypes /\ AMine /\ ALost /\ NoLeakedWork
  BY DEF AInv
<1> DEFINE intx == in_transaction
<1>2. /\ strand # <<>> /\ OnError /\ CallsBack(First.r, Rest, db_lock', intx)
      /\ UNCHANGED <<careful, owner, in_tx, job, lost, fault, prepared, link, tx, names, srv, order>>
      /\ running' = Stopped(Locks, Locks')
  BY DEF ConnectTimesOut, Runs, UNCHANGEDserver
<1> HIDE DEF intx
<1>3. ATaskTypes' /\ AHeld' /\ AKeeps'
  BY <1>1, <1>2, ErrorLock, BackTypes DEF ATaskTypes
<1>4. running' \in [Conns -> {0, 1, 2}]
  BY <1>1, <1>2, StoppedType
<1>5. ASessionTypes' /\ AMine' /\ ALost'
  BY <1>1, <1>2, <1>4, SameOwners DEF ASessionTypes
<1>6. NoLeakedWork'
  BY <1>1, <1>2, StoppedWork
<1> QED
  BY <1>3, <1>5, <1>6 DEF AInv

\* What open_connection may get is Me's already, or nobody uses it.
LEMMA GettableFacts ==
    ASSUME AMine, NEW c \in Gettable(Me)
    PROVE  /\ c \in Conns
           /\ owner[c] = Me \/ (_conn = None /\ (\A d \in Conns : owner[d] # Me) /\ CanBeStolen(c))
<1>1. CASE ConnOf(Me) # None
  BY <1>1, MyConn DEF Gettable, _conn
<1>2. CASE ConnOf(Me) = None
  BY <1>2, SessionAssumption DEF Gettable, _conn, ConnOf
<1> QED
  BY <1>1, <1>2

\* Me takes c.
LEMMA TakenTypes ==
    ASSUME ASessionTypes, AMine, NEW c \in Gettable(Me), owner' = [owner EXCEPT ![c] = Me]
    PROVE  AMine' /\ owner' \in [Conns -> Others \cup {Me, None}]
<1>1. c \in Conns /\ (owner[c] = Me \/ \A d \in Conns : owner[d] # Me)
  BY GettableFacts
<1> QED
  BY <1>1 DEF ASessionTypes, AMine

\* A connect task gets a connection: AKeeps is needed here, as begin replaces _lock.
LEMMA ConnectsStep == ASSUME AInv, Connects PROVE AInv'
<1>1. ATaskTypes /\ ASessionTypes /\ AMine /\ ALost /\ NoLeakedWork /\ AHeld /\ AKeeps
  BY DEF AInv
<1>2. strand # <<>> /\ First.kind = "connect"
  BY DEF Connects, Runs
<1> DEFINE r == First.r
<1>3. PICK c \in Gettable(Me) :
          /\ strand' = Opened(r, First.ph, <<c, r>>, Rest)
          /\ db_lock' = OpenedLock(r, First.ph, <<c, r>>)
          /\ UNCHANGED prepared
          /\ _connect(c, r, Locks') /\ Reopen(c)
  BY DEF Connects
<1>4. UNCHANGED <<careful, job, lost, fault, op, calls, srv, order>>
  BY DEF Connects
<1>5. c \in Conns /\ (owner[c] = Me \/ \A d \in Conns : owner[d] # Me)
  BY <1>1, GettableFacts
<1>6. /\ First = strand[1] /\ First \in Tasks(Len(op)) /\ Len(strand) \in Nat \ {0}
      /\ \A i \in 1..Len(strand) : i # 1 => i - 1 \in 1..Len(Rest) /\ Rest[i - 1] = strand[i]
  BY <1>1, <1>2, RestKeeps
<1>7. r \in 1..Len(op) /\ r \in Nat
  BY <1>6 DEF Tasks
<1>8. <<c, r>> \in Lock
  BY <1>5, <1>7, LockIsSome
<1>9. /\ strand' \in Seq(Tasks(Len(op))) /\ db_lock' \in Lock \cup {NoLock}
      /\ HeldIn(strand') /\ KeptIn(strand', db_lock')
      /\ \A i \in 1..Len(Rest) : \E j \in 1..Len(strand') : strand'[j] = Rest[i]
  <2> DEFINE lock == <<c, r>>
  <2>1. /\ lock \in Lock /\ strand' = Opened(First.r, First.ph, lock, Rest)
        /\ db_lock' = OpenedLock(First.r, First.ph, lock)
    BY <1>3, <1>8
  <2> HIDE DEF lock
  <2> QED
    BY <1>1, <1>2, <2>1, OpenedKeeps
<1>10. ATaskTypes' /\ AHeld' /\ AKeeps'
  BY <1>1, <1>3, <1>4, <1>9 DEF ATaskTypes, AHeld, AKeeps
<1>11. DOMAIN strand = 1..Len(strand) /\ DOMAIN strand' = 1..Len(strand')
  BY <1>1, <1>9 DEF ATaskTypes
<1>12. ASSUME NEW i \in 1..Len(strand), strand[i].lock # NoLock PROVE strand[i].lock \in Locks'
  <2>1. i # 1
    BY <1>1, <1>2, <1>6, <1>12 DEF AHeld, HeldIn, Holds
  <2>2. PICK j \in 1..Len(strand') : strand'[j] = strand[i]
    BY <1>6, <1>9, <2>1
  <2> QED
    BY <1>11, <1>12, <2>2 DEF Locks, ToSet
<1>13. db_lock # NoLock => db_lock \in Locks'
  <2>1. 1 \in 1..Len(strand)
    BY <1>6
  <2>2. db_lock # NoLock => \E j \in 1..Len(strand) : strand[j].lock = db_lock
    BY <1>1, <1>2, <1>6, <2>1 DEF AKeeps, KeptIn
  <2> QED
    BY <1>12, <2>2
<1>14. Locks \subseteq Locks'
  <2> SUFFICES ASSUME NEW l \in Locks PROVE l \in Locks'
    OBVIOUS
  <2>1. l # NoLock /\ (l = db_lock \/ l \in prepared \/ \E i \in DOMAIN strand : strand[i].lock = l)
    BY LocksFacts
  <2>2. l \in prepared => l \in Locks'
    BY <1>3, <2>1 DEF Locks
  <2> QED
    BY <1>11, <1>12, <1>13, <2>1, <2>2
<1>15. owner' \in [Conns -> Others \cup {Me, None}] /\ AMine'
  BY <1>1, <1>3, TakenTypes DEF _connect
<1>16. ASessionTypes'
  BY <1>1, <1>3, <1>4, <1>5, <1>15 DEF ASessionTypes, _connect, Reopen
<1>17. ALost'
  BY <1>1, <1>3, <1>4, <1>5 DEF ALost, Reopen, ASessionTypes
<1>18. ASSUME NEW d \in Conns, running'[d] # 0
       PROVE  running[d] # 0 \/ \E l \in Locks' : l[1] = d
  <2>1. CASE d # c
    BY <1>1, <1>3, <1>18, <2>1 DEF _connect, ASessionTypes
  <2>2. CASE d = c
    <3>1. <<c, r>> \in Locks'
      BY <1>1, <1>3, <1>5, <1>18, <2>2 DEF _connect, ASessionTypes
    <3> QED
      BY <3>1, <2>2, <1>5, <1>7, LockIsSome
  <2> QED
    BY <2>1, <2>2
<1>19. NoLeakedWork'
  BY <1>1, <1>4, <1>14, <1>18, StillWorked
<1> QED
  BY <1>10, <1>15, <1>16, <1>17, <1>19 DEF AInv

\* A connect task fails: a link was lost.
LEMMA ConnectFailsStep == ASSUME AInv, ConnectFails PROVE AInv'
<1>1. ATaskTypes /\ ASessionTypes /\ AMine /\ ALost
  BY DEF AInv
<1>2. /\ strand # <<>> /\ OnError /\ CallsBack(First.r, Rest, db_lock', FALSE)
      /\ UNCHANGED <<careful, link, tx, names, job, lost, fault, prepared, srv, order>>
  BY DEF ConnectFails, Runs, UNCHANGEDserver
<1> DEFINE stopped == Stopped(Locks, Locks')
<1>3. PICK c \in Gettable(Me) :
          /\ link[c] = "down"
          /\ owner' = [owner EXCEPT ![c] = Me]
          /\ running' = [stopped EXCEPT ![c] = 2]
          /\ in_tx' = [in_tx EXCEPT ![c] = FALSE]
  BY DEF ConnectFails
<1>4. ATaskTypes' /\ AHeld' /\ AKeeps'
  BY <1>1, <1>2, ErrorLock, BackTypes DEF ATaskTypes
<1>5. AMine' /\ owner' \in [Conns -> Others \cup {Me, None}] /\ c \in Conns
  BY <1>1, <1>3, TakenTypes, GettableFacts
<1>6. ASessionTypes' /\ ALost'
  <2>1. stopped \in [Conns -> {0, 1, 2}]
    BY <1>1 DEF Stopped, ASessionTypes
  <2> HIDE DEF stopped
  <2> QED
    BY <1>1, <1>2, <1>3, <1>5, <2>1 DEF ASessionTypes, ALost
<1>7. lost' # {}
  BY <1>1, <1>2, <1>3, <1>5 DEF ALost
<1>8. NoLeakedWork'
  BY <1>7 DEF NoLeakedWork
<1> QED
  BY <1>4, <1>5, <1>6, <1>8 DEF AInv

\* A task that was bound to a lock object.
LEMMA RunsBoundStep == ASSUME AInv, RunsBound PROVE AInv'
<1>1. ATaskTypes /\ ASessionTypes /\ AMine /\ ALost /\ NoLeakedWork /\ AHeld /\ AKeeps
  BY DEF AInv
<1>2. /\ strand # <<>> /\ First.kind = "bound"
      /\ strand' = Opened(First.r, First.ph, First.lock, Rest)
      /\ db_lock' = OpenedLock(First.r, First.ph, First.lock)
      /\ UNCHANGED <<careful, owner, in_tx, job, lost, fault, op, calls, prepared,
                     link, tx, names, srv, order>>
      /\ running' = Stopped(Locks, Locks')
  BY DEF RunsBound, Runs, UNCHANGEDserver
<1>3. First.lock \in Lock
  <2>1. First = strand[1] /\ First \in Tasks(Len(op)) /\ Len(strand) \in Nat \ {0}
    BY <1>1, <1>2, RestKeeps
  <2>2. First.lock # NoLock
    BY <1>1, <1>2, <2>1 DEF AHeld, HeldIn, Holds
  <2> QED
    BY <2>1, <2>2 DEF Tasks
<1>4. /\ strand' \in Seq(Tasks(Len(op))) /\ db_lock' \in Lock \cup {NoLock}
      /\ HeldIn(strand') /\ KeptIn(strand', db_lock')
  BY <1>1, <1>2, <1>3, OpenedKeeps
<1>5. ATaskTypes' /\ AHeld' /\ AKeeps'
  BY <1>1, <1>2, <1>4 DEF ATaskTypes, AHeld, AKeeps
<1>6. ASessionTypes' /\ AMine' /\ ALost'
  <2>1. running' \in [Conns -> {0, 1, 2}]
    BY <1>1, <1>2, StoppedType
  <2> QED
    BY <1>1, <1>2, <2>1, SameOwners DEF ASessionTypes
<1>7. NoLeakedWork'
  BY <1>1, <1>2, StoppedWork
<1> QED
  BY <1>5, <1>6, <1>7 DEF AInv

\* A sequence with one element replaced.
LEMMA ReplaceFacts ==
    ASSUME NEW S, NEW s \in Seq(S), NEW i \in 1..Len(s), NEW t \in S, NEW z, z = [s EXCEPT ![i] = t]
    PROVE  /\ z \in Seq(S) /\ Len(z) = Len(s) /\ DOMAIN z = DOMAIN s /\ z[i] = t
           /\ \A j \in 1..Len(s) : j # i => z[j] = s[j]
OBVIOUS

\* The first task has sent its command.
LEMMA SendsFacts ==
    ASSUME ATaskTypes, Sends
    PROVE  /\ strand' \in Seq(Tasks(Len(op))) /\ Len(strand') = Len(strand)
           /\ DOMAIN strand' = DOMAIN strand /\ DOMAIN strand = 1..Len(strand)
           /\ Len(strand) \in Nat \ {0} /\ First = strand[1] /\ strand' # <<>> /\ First' = strand'[1]
           /\ strand'[1].kind = First.kind /\ strand'[1].lock = First.lock
           /\ strand'[1].r = First.r /\ strand'[1].sent = TRUE
           /\ \A j \in 1..Len(strand) : j # 1 => strand'[j] = strand[j]
<1> DEFINE t == [strand[1] EXCEPT !.sent = TRUE]
<1>1. strand # <<>> /\ strand' = [strand EXCEPT ![1] = t]
  BY DEF Sends, Runs
<1>2. /\ strand \in Seq(Tasks(Len(op))) /\ Len(strand) \in Nat \ {0} /\ First = strand[1]
      /\ strand[1] \in Tasks(Len(op)) /\ DOMAIN strand = 1..Len(strand)
  <2>1. Len(strand) \in Nat \ {0} /\ First = strand[1] /\ First \in Tasks(Len(op))
    BY <1>1, RestKeeps
  <2> QED
    BY <2>1 DEF ATaskTypes
<1>3. t \in Tasks(Len(op))
  BY <1>2, TaskChanges
<1>4. t.kind = First.kind /\ t.lock = First.lock /\ t.r = First.r /\ t.sent = TRUE
  BY <1>2 DEF Tasks
<1> HIDE DEF t
<1>5. /\ strand' \in Seq(Tasks(Len(op))) /\ Len(strand') = Len(strand) /\ strand'[1] = t
      /\ DOMAIN strand' = DOMAIN strand /\ \A j \in 1..Len(strand) : j # 1 => strand'[j] = strand[j]
  BY <1>1, <1>2, <1>3, ReplaceFacts
<1>6. strand' # <<>> /\ First' = strand'[1]
  BY <1>2, <1>5 DEF First
<1> QED
  BY <1>2, <1>4, <1>5, <1>6

\* A query is sent.
LEMMA SendsStep == ASSUME AInv, Sends PROVE AInv'
<1>1. ATaskTypes /\ ASessionTypes /\ AMine /\ ALost /\ NoLeakedWork /\ AHeld /\ AKeeps
  BY DEF AInv
<1>2. /\ strand # <<>> /\ _conn # None
      /\ srv' = [srv EXCEPT ![_conn] = [st |-> "busy", r |-> First.r, n |-> 0]]
      /\ order' = Append(order, First.r)
      /\ UNCHANGED <<careful, sessionVars, op, calls, db_lock, prepared>>
  BY DEF Sends, Runs
<1>3. /\ strand' \in Seq(Tasks(Len(op))) /\ Len(strand') = Len(strand)
      /\ DOMAIN strand' = DOMAIN strand /\ DOMAIN strand = 1..Len(strand)
      /\ \A j \in 1..Len(strand) : strand'[j].kind = strand[j].kind /\ strand'[j].lock = strand[j].lock
  BY <1>1, SendsFacts
<1>4. First.r \in 1..Len(op)
  BY <1>1, <1>2, RestKeeps DEF Tasks
<1>5. order' \in Seq(1..Len(op))
  BY <1>1, <1>2, <1>4 DEF ATaskTypes
<1> DEFINE x == [st |-> "busy", r |-> First.r, n |-> 0]
<1>6. x \in Commands(Len(op)) /\ x.r # 0
  BY <1>1, <1>4 DEF Commands, ATaskTypes
<1>7. srv' = [srv EXCEPT ![_conn] = x]
  BY <1>2
<1> HIDE DEF x
<1>8. /\ srv' \in [Conns -> Commands(Len(op))]
      /\ \A c \in Conns : srv'[c].st # "idle" => srv'[c].r # 0
  BY <1>1, <1>6, <1>7 DEF ATaskTypes
<1>9. ATaskTypes'
  BY <1>1, <1>2, <1>3, <1>5, <1>8 DEF ATaskTypes
<1>10. AHeld' /\ AKeeps'
  BY <1>1, <1>2, <1>3 DEF AHeld, AKeeps, HeldIn, KeptIn, Holds
<1>11. ASessionTypes' /\ AMine' /\ ALost'
  BY <1>1, <1>2, SameOwners DEF sessionVars, ASessionTypes
<1>12. Locks \subseteq Locks'
  BY <1>2, <1>3 DEF Locks, ToSet
<1>13. NoLeakedWork'
  BY <1>1, <1>2, <1>12, StillWorked DEF sessionVars
<1> QED
  BY <1>9, <1>10, <1>11, <1>13 DEF AInv

\* A query fails and stays.
LEMMA TaskThrowsStep == ASSUME AInv, TaskThrows PROVE AInv'
<1>1. ATaskTypes /\ ASessionTypes /\ AMine /\ ALost /\ NoLeakedWork
  BY DEF AInv
<1>2. /\ strand # <<>> /\ CallsBack(First.r, strand, db_lock', in_transaction)
      /\ UNCHANGED <<careful, owner, in_tx, job, lost, fault, prepared, link, tx, names, srv, order>>
      /\ running' = Stopped(Locks, Locks')
  BY DEF TaskThrows, Runs, run_task_fails, UNCHANGEDserver
<1>3. db_lock' \in {db_lock, NoLock}
  BY ErrorLock DEF TaskThrows
<1> DEFINE intx == in_transaction
<1>4. CallsBack(First.r, strand, db_lock', intx)
  BY <1>2
<1> HIDE DEF intx
<1>5. ATaskTypes' /\ AHeld' /\ AKeeps'
  BY <1>1, <1>2, <1>3, <1>4, BackTypes DEF ATaskTypes
<1>6. ASessionTypes' /\ AMine' /\ ALost'
  <2>1. running' \in [Conns -> {0, 1, 2}]
    BY <1>1, <1>2, StoppedType
  <2> QED
    BY <1>1, <1>2, <2>1, SameOwners DEF ASessionTypes
<1>7. NoLeakedWork'
  BY <1>1, <1>2, StoppedWork
<1> QED
  BY <1>5, <1>6, <1>7 DEF AInv

\* The link has nothing more on it.
LEMMA IdleType ==
    ASSUME ATaskTypes, NEW c, srv' = [srv EXCEPT ![c] = Idle]
    PROVE  /\ srv' \in [Conns -> Commands(Len(op))]
           /\ \A d \in Conns : srv'[d].st # "idle" => srv'[d].r # 0
<1>1. Idle \in Commands(Len(op)) /\ Idle.st = "idle"
  BY DEF Idle, Commands, ATaskTypes
<1> QED
  BY <1>1 DEF ATaskTypes

\* A result is read.
LEMMA CompletedStep == ASSUME AInv, Completed PROVE AInv'
<1>1. ATaskTypes /\ ASessionTypes /\ AMine /\ ALost /\ NoLeakedWork /\ AHeld
  BY DEF AInv
<1>2. /\ strand # <<>> /\ First.kind = "query" /\ _conn \in Conns
      /\ srv' = [srv EXCEPT ![_conn] = Idle]
      /\ UNCHANGED <<careful, owner, link, tx, names, job, lost, fault, order>>
      /\ running' = Stopped(Locks, Locks')
  BY <1>1, MyConn DEF Completed, Runs
<1>3. Completes_Ok(First.r) \/ Completes_Error(First.r)
  BY DEF Completed
<1>4. db_lock' \in {db_lock, NoLock} /\ in_tx' \in [Conns -> BOOLEAN]
  <2>1. CASE Completes_Ok(First.r)
    BY <1>1, <1>2, <2>1 DEF Completes_Ok, ASessionTypes
  <2>2. CASE Completes_Error(First.r)
    BY <1>1, <2>2, ErrorLock DEF Completes_Error, ASessionTypes
  <2> QED
    BY <1>3, <2>1, <2>2
<1>5. prepared' \subseteq Lock
  <2>1. First.lock \in Lock
    <3>1. First = strand[1] /\ First \in Tasks(Len(op)) /\ Len(strand) \in Nat \ {0}
      BY <1>1, <1>2, RestKeeps
    <3>2. First.lock # NoLock
      BY <1>1, <1>2, <3>1 DEF AHeld, HeldIn, Holds
    <3> QED
      BY <3>1, <3>2 DEF Tasks
  <2>2. prepared' \subseteq prepared \cup {First.lock}
    BY <1>3 DEF Completes_Ok, Completes_Error
  <2> QED
    BY <1>1, <2>1, <2>2 DEF ATaskTypes
<1>6. PICK intx : \E lock \in {db_lock, db_lock'} : CallsBack(First.r, Rest, lock, intx)
  BY <1>3 DEF Completes_Ok, Completes_Error
<1>7. ATaskTypes' /\ AHeld' /\ AKeeps'
  <2>1. /\ srv' \in [Conns -> Commands(Len(op))]
        /\ \A d \in Conns : srv'[d].st # "idle" => srv'[d].r # 0
    BY <1>1, <1>2, IdleType
  <2> QED
    BY <1>2, <1>4, <1>5, <1>6, <2>1, BackTypes
<1>8. ASessionTypes' /\ AMine' /\ ALost'
  <2>1. running' \in [Conns -> {0, 1, 2}]
    BY <1>1, <1>2, StoppedType
  <2> QED
    BY <1>1, <1>2, <1>4, <2>1, SameOwners DEF ASessionTypes
<1>9. NoLeakedWork'
  BY <1>1, <1>2, StoppedWork
<1> QED
  BY <1>7, <1>8, <1>9 DEF AInv

\* A reader comes to its end.
LEMMA ReaderEndsStep == ASSUME AInv, ReaderEnds PROVE AInv'
<1>1. ATaskTypes /\ ASessionTypes /\ AMine /\ ALost /\ NoLeakedWork
  BY DEF AInv
<1>2. /\ strand # <<>> /\ CallsBack(First.r, Rest, db_lock, in_transaction)
      /\ srv' = [srv EXCEPT ![_conn] = Idle]
      /\ UNCHANGED <<careful, owner, in_tx, link, tx, names, job, lost, fault, db_lock, prepared, order>>
      /\ running' = Stopped(Locks, Locks')
  BY DEF ReaderEnds, Runs
<1> DEFINE intx == in_transaction
<1>3. CallsBack(First.r, Rest, db_lock, intx)
  BY <1>2
<1> HIDE DEF intx
<1>4. /\ srv' \in [Conns -> Commands(Len(op))]
      /\ \A d \in Conns : srv'[d].st # "idle" => srv'[d].r # 0
  BY <1>1, <1>2, IdleType
<1>5. ATaskTypes' /\ AHeld' /\ AKeeps'
  BY <1>1, <1>2, <1>3, <1>4, BackTypes DEF ATaskTypes
<1>6. ASessionTypes' /\ AMine' /\ ALost'
  <2>1. running' \in [Conns -> {0, 1, 2}]
    BY <1>1, <1>2, StoppedType
  <2> QED
    BY <1>1, <1>2, <2>1, SameOwners DEF ASessionTypes
<1>7. NoLeakedWork'
  BY <1>1, <1>2, StoppedWork
<1> QED
  BY <1>5, <1>6, <1>7 DEF AInv

\* Steps that touch neither tasks nor lock objects.
LEMMA SameTasks ==
    ASSUME ATaskTypes, AHeld, AKeeps,
           UNCHANGED <<careful, op, calls, strand, db_lock, prepared, order>>,
           srv' \in [Conns -> Commands(Len(op))],
           \A c \in Conns : srv'[c].st # "idle" => srv'[c].r # 0
    PROVE  ATaskTypes' /\ AHeld' /\ AKeeps' /\ Locks' = Locks
BY DEF ATaskTypes, AHeld, AKeeps, Locks

\* A reader reads a row.
LEMMA ReaderRowStep == ASSUME AInv, ReaderRow PROVE AInv'
<1>1. ATaskTypes /\ ASessionTypes /\ AMine /\ ALost /\ NoLeakedWork /\ AHeld /\ AKeeps
  BY DEF AInv
<1>2. PICK left \in {srv[_conn].n - 1, 0} : srv' = [srv EXCEPT ![_conn].n = left]
  BY DEF ReaderRow
<1>3. /\ _conn \in Conns /\ srv[_conn].n > 0
      /\ UNCHANGED <<careful, sessionVars, op, calls, strand, db_lock, prepared, order>>
  BY <1>1, MyConn DEF ReaderRow
<1>4. srv[_conn] \in Commands(Len(op))
  BY <1>1, <1>3 DEF ATaskTypes
<1>5. left \in Nat
  BY <1>2, <1>3, <1>4 DEF Commands
<1> DEFINE x == [srv[_conn] EXCEPT !.n = left]
<1>6. x \in Commands(Len(op)) /\ x.st = srv[_conn].st /\ x.r = srv[_conn].r
  BY <1>4, <1>5 DEF Commands
<1>7. srv' = [srv EXCEPT ![_conn] = x]
  BY <1>2
<1> HIDE DEF x
<1>8. /\ srv' \in [Conns -> Commands(Len(op))]
      /\ \A c \in Conns : srv'[c].st # "idle" => srv'[c].r # 0
  BY <1>1, <1>3, <1>6, <1>7 DEF ATaskTypes
<1>9. ATaskTypes' /\ AHeld' /\ AKeeps' /\ Locks' = Locks
  BY <1>1, <1>3, <1>8, SameTasks
<1>10. ASessionTypes' /\ AMine' /\ ALost'
  BY <1>1, <1>3, SameOwners DEF sessionVars, ASessionTypes
<1>11. NoLeakedWork'
  BY <1>1, <1>3, <1>9, StillWorked DEF sessionVars
<1> QED
  BY <1>9, <1>10, <1>11 DEF AInv

\* The prepared statements are destroyed.
LEMMA DropPreparedStep == ASSUME AInv, DropPrepared PROVE AInv'
<1>1. ATaskTypes /\ ASessionTypes /\ AMine /\ ALost /\ NoLeakedWork /\ AHeld /\ AKeeps
  BY DEF AInv
<1>2. /\ prepared' = {}
      /\ UNCHANGED <<careful, owner, in_tx, job, lost, fault, op, calls, strand, db_lock,
                     link, tx, names, srv, order>>
      /\ running' = Stopped(Locks, Locks')
  BY DEF DropPrepared, UNCHANGEDserver
<1>3. ATaskTypes' /\ AHeld' /\ AKeeps'
  BY <1>1, <1>2 DEF ATaskTypes, AHeld, AKeeps
<1>4. ASessionTypes' /\ AMine' /\ ALost'
  <2>1. running' \in [Conns -> {0, 1, 2}]
    BY <1>1, <1>2, StoppedType
  <2> QED
    BY <1>1, <1>2, <2>1, SameOwners DEF ASessionTypes
<1>5. NoLeakedWork'
  BY <1>1, <1>2, StoppedWork
<1> QED
  BY <1>3, <1>4, <1>5 DEF AInv

\* The server's answer to the command on the link of c.
LEMMA AnswerFacts ==
    ASSUME AInv, NEW c \in Conns, ServerAnswers(c)
    PROVE  \E ok \in BOOLEAN :
             /\ Answer(op[srv[c].r], c, ok)
             /\ srv' \in [Conns -> Commands(Len(op))]
             /\ srv'[c].r = srv[c].r /\ srv'[c].st = (IF ok THEN "ok" ELSE "error")
             /\ \A d \in Conns : d # c => srv'[d] = srv[d]
<1>1. PICK ok \in BOOLEAN, n \in 0..MaxRows :
          /\ Answer(op[srv[c].r], c, ok)
          /\ srv' = [srv EXCEPT ![c].st = IF ok THEN "ok" ELSE "error", ![c].n = n]
  BY DEF ServerAnswers
<1> DEFINE st == IF ok THEN "ok" ELSE "error"
           x == [[srv[c] EXCEPT !.st = st] EXCEPT !.n = n]
<1>2. srv[c] \in Commands(Len(op)) /\ srv \in [Conns -> Commands(Len(op))] /\ n \in Nat
  BY AsyncAssumption DEF AInv, ATaskTypes
<1>3. x \in Commands(Len(op)) /\ x.st = st /\ x.r = srv[c].r
  <2>1. st \in {"ok", "error"}
    OBVIOUS
  <2> HIDE DEF st
  <2> QED
    BY <1>2, <2>1 DEF Commands
<1>4. srv' = [srv EXCEPT ![c] = x]
  BY <1>1, <1>2
<1> HIDE DEF x
<1> QED
  BY <1>1, <1>2, <1>3, <1>4

\* The server answers.
LEMMA ServerAnswersStep == ASSUME AInv, NEW c \in Conns, ServerAnswers(c) PROVE AInv'
<1>1. ATaskTypes /\ ASessionTypes /\ AMine /\ ALost /\ NoLeakedWork /\ AHeld /\ AKeeps
  BY DEF AInv
<1>2. PICK ok \in BOOLEAN :
             /\ Answer(op[srv[c].r], c, ok)
             /\ srv' \in [Conns -> Commands(Len(op))] /\ srv'[c].r = srv[c].r
             /\ \A d \in Conns : d # c => srv'[d] = srv[d]
  BY AnswerFacts
<1>3. /\ srv[c].st = "busy"
      /\ UNCHANGED <<careful, owner, running, in_tx, link, job, lost, fault, op, calls, strand,
                     db_lock, prepared, order>>
  BY DEF ServerAnswers
<1>4. ASSUME NEW d \in Conns, srv'[d].st # "idle" PROVE srv'[d].r # 0
  BY <1>1, <1>2, <1>3, <1>4 DEF ATaskTypes
<1>5. ATaskTypes' /\ AHeld' /\ AKeeps' /\ Locks' = Locks
  BY <1>1, <1>2, <1>3, <1>4, SameTasks
<1>6. tx' \in [Conns -> {"none", "open", "failed"}]
  <2>1. TxAfter(op[srv[c].r], tx[c], ok) \in {"none", "open", "failed"}
    BY <1>1 DEF TxAfter, ASessionTypes
  <2> QED
    BY <1>1, <1>2, <2>1 DEF Answer, ASessionTypes
<1>7. ASessionTypes' /\ AMine' /\ ALost'
  BY <1>1, <1>3, <1>6, SameOwners DEF ASessionTypes
<1>8. NoLeakedWork'
  BY <1>1, <1>3, <1>5, StillWorked
<1> QED
  BY <1>5, <1>7, <1>8 DEF AInv

\* The other databases and the network.
EnvironmentActs ==
    /\ Environment
    /\ srv' = [c \in Conns |-> IF link'[c] = "down" THEN Idle ELSE srv[c]]
    /\ UNCHANGED <<careful, op, calls, strand, db_lock, prepared, order>>

\* What another database may take is not Me's work.
LEMMA OthersFacts ==
    ASSUME NEW e \in Others, NEW c \in Gettable(e)
    PROVE  c \in Conns /\ (owner[c] = e \/ CanBeStolen(c))
BY SessionAssumption DEF Gettable, ConnOf

\* The other databases take, work and give back; a link is lost.
LEMMA EnvironmentStep == ASSUME AInv, EnvironmentActs PROVE AInv'
<1>1. ATaskTypes /\ ASessionTypes /\ AMine /\ ALost /\ NoLeakedWork /\ AHeld /\ AKeeps
  BY DEF AInv
<1>2. /\ UNCHANGED <<careful, op, calls, strand, db_lock, prepared, order>>
      /\ srv' = [c \in Conns |-> IF link'[c] = "down" THEN Idle ELSE srv[c]]
  BY DEF EnvironmentActs
<1>3. /\ srv' \in [Conns -> Commands(Len(op))]
      /\ \A c \in Conns : srv'[c].st # "idle" => srv'[c].r # 0
  <2>1. Idle \in Commands(Len(op)) /\ Idle.st = "idle"
    BY <1>1 DEF Idle, Commands, ATaskTypes
  <2> QED
    BY <1>1, <1>2, <2>1 DEF ATaskTypes
<1>4. ATaskTypes' /\ AHeld' /\ AKeeps' /\ Locks' = Locks
  BY <1>1, <1>2, <1>3, SameTasks
<1>5. ASSUME NEW e \in Others, OtherStarts(e) PROVE AInv'
  <2>1. PICK c \in Gettable(e) :
          /\ owner' = [owner EXCEPT ![c] = e]
          /\ running' = [running EXCEPT ![c] = 1]
          /\ job' = [job EXCEPT ![e] = c]
          /\ Reopen(c)
    BY <1>5 DEF OtherStarts
  <2>2. c \in Conns /\ e # Me /\ lost' = lost /\ job[e] = None
    BY <1>5, OthersFacts, SessionAssumption DEF OtherStarts
  <2>3. ASessionTypes' /\ AMine' /\ ALost'
    BY <1>1, <2>1, <2>2 DEF ASessionTypes, AMine, ALost, Reopen
  <2>4. ASSUME lost = {}, NEW d \in Conns, running'[d] # 0
        PROVE  (\E l \in Locks : l[1] = d) \/ (\E x \in Others : job'[x] = d)
    <3>1. CASE d = c
      BY <1>1, <2>1, <2>2, <3>1 DEF ASessionTypes
    <3>2. CASE d # c
      <4>1. (\E l \in Locks : l[1] = d) \/ (\E x \in Others : job[x] = d)
        BY <1>1, <2>1, <2>2, <2>4, <3>2 DEF ASessionTypes, NoLeakedWork
      <4>2. \A x \in Others : job[x] = d => job'[x] = d
        BY <1>1, <2>1, <2>2, SessionAssumption DEF ASessionTypes
      <4> QED
        BY <4>1, <4>2
    <3> QED
      BY <3>1, <3>2
  <2>5. NoLeakedWork'
    BY <1>4, <2>2, <2>4 DEF NoLeakedWork
  <2> QED
    BY <1>4, <2>3, <2>5 DEF AInv
<1>6. ASSUME NEW e \in Others, OtherEnds(e) PROVE AInv'
  <2>1. /\ job[e] # None /\ running' = [running EXCEPT ![job[e]] = 0]
        /\ job' = [job EXCEPT ![e] = None]
        /\ UNCHANGED <<owner, in_tx, link, tx, names, lost, fault>>
    BY <1>6 DEF OtherEnds
  <2>2. ASessionTypes' /\ AMine' /\ ALost'
    BY <1>1, <2>1 DEF ASessionTypes, AMine, ALost
  <2>3. ASSUME lost = {}, NEW d \in Conns, running'[d] # 0
        PROVE  (\E l \in Locks : l[1] = d) \/ (\E x \in Others : job'[x] = d)
    <3>1. d # job[e] /\ running[d] # 0
      BY <1>1, <2>1, <2>3 DEF ASessionTypes
    <3>2. (\E l \in Locks : l[1] = d) \/ (\E x \in Others : job[x] = d)
      BY <1>1, <2>3, <3>1 DEF NoLeakedWork
    <3>3. \A x \in Others : job[x] = d => job'[x] = d
      BY <1>1, <2>1, <3>1 DEF ASessionTypes
    <3> QED
      BY <3>2, <3>3
  <2>4. NoLeakedWork'
    BY <1>4, <2>1, <2>3 DEF NoLeakedWork
  <2> QED
    BY <1>4, <2>2, <2>4 DEF AInv
<1>7. ASSUME NEW c \in Conns, LinkLost(c) PROVE AInv'
  <2>1. /\ link' = [link EXCEPT ![c] = "down"] /\ tx' = [tx EXCEPT ![c] = "none"]
        /\ lost' = lost \cup {c} /\ UNCHANGED <<owner, running, in_tx, job, fault>>
    BY <1>7 DEF LinkLost
  <2>2. ASessionTypes' /\ AMine' /\ ALost'
    BY <1>1, <2>1 DEF ASessionTypes, AMine, ALost
  <2>3. NoLeakedWork'
    BY <2>1 DEF NoLeakedWork
  <2> QED
    BY <1>4, <2>2, <2>3 DEF AInv
<1> QED
  BY <1>5, <1>6, <1>7 DEF EnvironmentActs, Environment

\* The invariant of every program holds at first.
LEMMA AInit == Init => AInv
<1> SUFFICES ASSUME Init PROVE AInv
  OBVIOUS
<1>1. /\ SessionInit /\ careful \in BOOLEAN /\ op = <<>> /\ calls = <<>> /\ strand = <<>>
      /\ db_lock = NoLock /\ prepared = {} /\ srv = [c \in Conns |-> Idle] /\ order = <<>>
  BY DEF Init
<1>2. ASessionTypes /\ AMine /\ ALost /\ NoLeakedWork
  BY <1>1, SessionAssumption DEF SessionInit, ASessionTypes, AMine, ALost, NoLeakedWork
<1>3. Idle \in Commands(0) /\ Idle.st = "idle"
  BY DEF Idle, Commands
<1>4. ATaskTypes
  BY <1>1, <1>3 DEF ATaskTypes
<1>5. AHeld /\ AKeeps
  BY <1>1 DEF AHeld, AKeeps, HeldIn, KeptIn
<1> QED
  BY <1>2, <1>4, <1>5 DEF AInv

\* It is preserved by every step.
LEMMA AStep == AInv /\ [Next]_vars => AInv'
<1> SUFFICES ASSUME AInv, [Next]_vars PROVE AInv'
  OBVIOUS
<1>1. CASE UNCHANGED vars
  <2>1. ASessionTypes' /\ AMine' /\ ALost'
    BY <1>1, SameOwners DEF AInv, ASessionTypes, vars, sessionVars
  <2>2. ATaskTypes' /\ AHeld' /\ AKeeps' /\ Locks' = Locks
    BY <1>1, SameTasks DEF AInv, ATaskTypes, vars, asyncVars
  <2>3. NoLeakedWork'
    BY <1>1, <2>2, StillWorked DEF AInv, vars, sessionVars
  <2> QED
    BY <2>1, <2>2, <2>3 DEF AInv
<1>2. CASE DerefNull
  <2>1. ASessionTypes' /\ AMine' /\ ALost'
    BY <1>2, SameOwners DEF AInv, ASessionTypes, DerefNull
  <2>2. ATaskTypes' /\ AHeld' /\ AKeeps' /\ Locks' = Locks
    BY <1>2, SameTasks DEF AInv, ATaskTypes, DerefNull, asyncVars
  <2>3. NoLeakedWork'
    BY <1>2, <2>2, StillWorked DEF AInv, DerefNull
  <2> QED
    BY <2>1, <2>2, <2>3 DEF AInv
<1>3. CASE RunsStrand
  BY <1>2, <1>3, TimesOutStep, RefusedStep, ConnectsStep, ConnectFailsStep, RunsBoundStep, SendsStep,
     TaskThrowsStep, CompletedStep, ReaderRowStep, ReaderEndsStep DEF RunsStrand
<1>4. CASE \E o \in Ops : Call(o)
  BY <1>4, CallStep
<1>5. CASE \E r \in DOMAIN op : TimePasses(r)
  BY <1>5, TimePassesStep
<1>6. CASE \E c \in Conns : ServerAnswers(c)
  BY <1>6, ServerAnswersStep
<1> QED
  BY <1>1, <1>3, <1>4, <1>5, <1>6, DropPreparedStep, EnvironmentStep DEF Next, EnvironmentActs

\* connection_lock_t and stop_work: over links that hold no connection stays
\* marked as working for ever, whatever the program has under way.
THEOREM NoLeakedWorkThm == Spec => []NoLeakedWork
<1>1. AInv => NoLeakedWork
  BY DEF AInv
<1> QED
  BY <1>1, AInit, AStep, PTL DEF Spec

(***************************************************************************)
(* The strand of a careful program.                                         *)
(***************************************************************************)
\* The first task leaves, and _lock stays or is reset by an operation that
\* does not wait at the back.
LEMMA DropOK ==
    ASSUME ATaskTypes, strand # <<>>, NEW sent, NEW lock \in {db_lock, NoLock},
           StrandOK(strand, op, calls, db_lock, sent), lock = db_lock \/ op[First.r] \notin AtBack
    PROVE  /\ StrandOK(Rest, op, Done(First.r), lock, sent)
           /\ OneLock(Rest, db_lock)
           /\ lock = db_lock \/ \A a \in 1..Len(op) : Done(First.r)[a] = 0 => op[a] \in InFront
<1> DEFINE r == First.r
           done == Done(r)
<1>1. /\ Rest \in Seq(Tasks(Len(op))) /\ Len(Rest) = Len(strand) - 1
      /\ Len(strand) \in Nat \ {0} /\ First = strand[1] /\ First \in Tasks(Len(op))
      /\ \A i \in 1..Len(Rest) : Rest[i] = strand[i + 1]
  BY RestKeeps
<1>2. r \in 1..Len(op) /\ calls \in Seq({0, 1, 2}) /\ Len(calls) = Len(op) /\ Len(op) \in Nat
  BY <1>1 DEF Tasks, ATaskTypes
<1>3. calls[r] = 0
  BY <1>1 DEF StrandOK
<1>4. /\ done[r] = 1 /\ \A a \in 1..Len(op) : a # r => done[a] = calls[a]
  BY <1>2, <1>3 DEF Done
<1>5. ASSUME NEW a \in 1..Len(op), done[a] = 0 PROVE a # r /\ calls[a] = 0
  BY <1>4, <1>5
<1> HIDE DEF done
<1>6. ASSUME lock # db_lock, NEW a \in 1..Len(op), done[a] = 0 PROVE op[a] \in InFront
  BY <1>2, <1>3, <1>5, <1>6 DEF StrandOK, Alike
<1>7. Alike(op, done, lock)
  <2>1. CASE lock = db_lock
    BY <1>5, <2>1 DEF StrandOK, Alike
  <2>2. CASE lock # db_lock
    BY <1>6, <2>2 DEF Alike
  <2> QED
    BY <2>1, <2>2
<1>8. OneLock(Rest, db_lock)
  <2>1. \A i \in 1..Len(Rest) : i + 1 \in 1..Len(strand) /\ Rest[i] = strand[i + 1]
    BY <1>1
  <2>2. OneLock(strand, db_lock)
    BY DEF StrandOK
  <2> HIDE DEF Rest
  <2>3. \A i, j \in 1..Len(Rest) : Rest[i].lock # NoLock /\ Rest[j].lock # NoLock => Rest[i].lock = Rest[j].lock
    BY <2>1, <2>2 DEF OneLock
  <2>4. db_lock # NoLock =>
            \A i \in 1..Len(Rest) : Rest[i].kind # "connect" /\ Rest[i].lock \in {NoLock, db_lock}
    BY <2>1, <2>2 DEF OneLock
  <2> QED
    BY <2>3, <2>4 DEF OneLock
<1>9. OneLock(Rest, lock)
  BY <1>8 DEF OneLock
<1>10. ASSUME NEW i \in 1..Len(Rest)
       PROVE  /\ done[Rest[i].r] = 0 /\ (Rest[i].sent => Rest[i].kind = "query")
              /\ \A k \in 1..Len(sent) : ~Rest[i].sent => sent[k] < Rest[i].r
              /\ \A j \in 1..Len(Rest) : i < j => Before(Rest[i], Rest[j], op)
  <2>1. i + 1 \in 1..Len(strand) /\ 1 \in 1..Len(strand) /\ 1 < i + 1
    BY <1>1
  <2>2. Rest[i] \in Tasks(Len(op)) /\ Rest[i].r \in 1..Len(op)
    <3>1. Rest[i] \in Tasks(Len(op))
      BY <1>1
    <3> QED
      BY <3>1 DEF Tasks
  <2>3. Before(First, Rest[i], op)
    BY <1>1, <2>1 DEF StrandOK
  <2>4. Rest[i].r # r
    BY <1>2, <2>2, <2>3 DEF Before
  <2>5. calls[Rest[i].r] = 0 /\ (Rest[i].sent => Rest[i].kind = "query")
        /\ \A k \in 1..Len(sent) : ~Rest[i].sent => sent[k] < Rest[i].r
    BY <1>1, <2>1 DEF StrandOK
  <2>6. ASSUME NEW j \in 1..Len(Rest), i < j PROVE Before(Rest[i], Rest[j], op)
    <3>1. /\ Rest[i] = strand[i + 1] /\ Rest[j] = strand[j + 1]
          /\ i + 1 < j + 1 /\ j + 1 \in 1..Len(strand)
      BY <1>1, <2>6
    <3> QED
      BY <1>1, <2>1, <3>1 DEF StrandOK
  <2> QED
    BY <1>4, <2>2, <2>4, <2>5, <2>6
<1> QED
  BY <1>6, <1>7, <1>8, <1>9, <1>10 DEF StrandOK, done

\* A call is pushed; the lock it finds may be reset just after.
LEMMA PushOK ==
    ASSUME ATaskTypes, careful, NEW done \in Seq({0, 1, 2}), Len(done) = Len(op),
           NEW s \in Seq(Tasks(Len(op))), NEW lock \in Lock \cup {NoLock}, NEW intx,
           Pushes(done, {a \in DOMAIN done : done[a] = 0}, s, lock, intx),
           NEW lk, lk = lock \/ (lk = NoLock /\ \A a \in 1..Len(op) : done[a] = 0 => op[a] \in InFront),
           StrandOK(s, op, done, lk, order), OneLock(s, lock)
    PROVE  StrandOK(strand', op', calls', lk, order)
<1> DEFINE n == Len(op)
           w == {a \in DOMAIN done : done[a] = 0}
<1>1. op \in Seq(Ops) /\ n \in Nat /\ Len(s) \in Nat /\ order \in Seq(1..n) /\ Len(order) \in Nat
      /\ \A k \in 1..Len(order) : order[k] \in 1..n
  BY DEF ATaskTypes
<1>2. CASE op' = op /\ calls' = done /\ strand' = s
  BY <1>2
<1>3. ASSUME NEW o \in Ops, MayCall(o, w, lock, intx), op' = Append(op, o), calls' = Append(done, 0),
             strand' = Append(s, call(n + 1, o, lock, intx))
      PROVE  StrandOK(strand', op', calls', lk, order)
  <2> DEFINE t == call(n + 1, o, lock, intx)
  <2>1. NewTask(t, n + 1, lock)
    BY <1>1, CallFacts
  <2>2. s \in Seq(Tasks(n + 1))
    BY <1>1, TasksGrow, SeqGrows
  <2>3. strand' = Append(s, t)
    BY <1>3
  <2> HIDE DEF t
  <2>4. /\ Len(op') = n + 1 /\ op'[n + 1] = o /\ \A a \in 1..n : op'[a] = op[a]
    BY <1>1, <1>3, AppendFacts
  <2>5. /\ calls'[n + 1] = 0 /\ \A a \in 1..n : calls'[a] = done[a]
    BY <1>1, <1>3, AppendFacts
  <2>6. /\ Len(strand') = Len(s) + 1 /\ strand'[Len(s) + 1] = t
        /\ \A i \in 1..Len(s) : strand'[i] = s[i]
    BY <2>1, <2>2, <2>3, AppendFacts DEF NewTask
  <2>7. ASSUME NEW i \in 1..Len(s) PROVE s[i] \in Tasks(n) /\ s[i].r \in 1..n
    <3>1. s[i] \in Tasks(n)
      BY <1>1
    <3> QED
      BY <3>1 DEF Tasks
  <2>8. t.r = n + 1 /\ ~t.sent /\ t.kind # "query" /\ t.lock \in {NoLock, lock}
        /\ (t.kind = "connect" => lock = NoLock /\ t.lock = NoLock)
    BY <2>1 DEF NewTask, Holds
  <2>9. ASSUME NEW a \in 1..n, done[a] = 0
        PROVE  \/ op[a] \in InFront /\ o \in InFront
               \/ op[a] \in AtBack /\ o \in AtBack /\ lk # NoLock
    <3>1. a \in w
      BY <1>1, <2>9
    <3> HIDE DEF w
    <3>2. PICK g \in Together(intx /\ lock # NoLock) : {o} \cup {op[x] : x \in w} \subseteq g
      BY <1>3, <3>1 DEF MayCall
    <3>3. op[a] \in g /\ o \in g
      BY <3>1, <3>2
    <3>4. g = {"exec_p"} \/ g = InFront \/ (g = AtBack /\ lock # NoLock)
      BY <3>2 DEF Together, InFront, AtBack
    <3>5. \A x \in AtBack : x \notin InFront
      BY DEF InFront, AtBack
    <3> QED
      BY <2>9, <3>3, <3>4, <3>5 DEF InFront
  <2>10. Alike(op', calls', lk)
    <3> SUFFICES ASSUME NEW a \in 1..(n + 1), NEW b \in 1..(n + 1), a # b, calls'[a] = 0, calls'[b] = 0
                 PROVE  \/ op'[a] \in InFront /\ op'[b] \in InFront
                        \/ op'[a] \in AtBack /\ op'[b] \in AtBack /\ lk # NoLock
      BY <2>4 DEF Alike
    <3>1. CASE a \in 1..n /\ b \in 1..n
      BY <2>4, <2>5, <3>1 DEF StrandOK, Alike
    <3>2. CASE a = n + 1 /\ b \in 1..n
      BY <2>4, <2>5, <2>9, <3>2
    <3>3. CASE b = n + 1 /\ a \in 1..n
      BY <2>4, <2>5, <2>9, <3>3
    <3> QED
      BY <1>1, <3>1, <3>2, <3>3
  <2>11. OneLock(strand', lk)
    <3>1. ASSUME NEW i \in 1..Len(s), s[i].lock # NoLock, t.lock # NoLock PROVE s[i].lock = t.lock
      BY <2>8, <3>1 DEF OneLock
    <3>2. lk # NoLock => t.kind # "connect" /\ t.lock \in {NoLock, lk}
      BY <2>8
    <3>3. OneLock(s, lk)
      BY DEF StrandOK
    <3>4. \A i \in 1..Len(strand') : (i \in 1..Len(s) /\ strand'[i] = s[i]) \/ strand'[i] = t
      BY <1>1, <2>6
    <3>5. \A i, j \in 1..Len(strand') :
              strand'[i].lock # NoLock /\ strand'[j].lock # NoLock => strand'[i].lock = strand'[j].lock
      BY <3>1, <3>3, <3>4 DEF OneLock
    <3>6. lk # NoLock =>
              \A i \in 1..Len(strand') : strand'[i].kind # "connect" /\ strand'[i].lock \in {NoLock, lk}
      BY <3>2, <3>3, <3>4 DEF OneLock
    <3> QED
      BY <3>5, <3>6 DEF OneLock
  <2>12. ASSUME NEW i \in 1..Len(s) PROVE Before(s[i], t, op')
    <3>1. s[i].kind = "connect" => t.lock = NoLock
      BY <2>8 DEF OneLock
    <3>2. s[i].r < t.r
      BY <1>1, <2>7, <2>8
    <3> QED
      BY <2>8, <3>1, <3>2 DEF Before
  <2>13. ASSUME NEW i \in 1..Len(s), NEW j \in 1..Len(s), i < j PROVE Before(s[i], s[j], op')
    <3>1. Before(s[i], s[j], op) /\ op'[s[j].r] = op[s[j].r]
      BY <2>4, <2>7, <2>13 DEF StrandOK
    <3> QED
      BY <3>1 DEF Before
  <2>14. ASSUME NEW i \in 1..Len(strand'), NEW j \in 1..Len(strand'), i < j
         PROVE  Before(strand'[i], strand'[j], op')
    BY SMTT(30), <1>1, <2>6, <2>12, <2>13, <2>14
  <2>15. ASSUME NEW i \in 1..Len(strand')
         PROVE  /\ calls'[strand'[i].r] = 0 /\ (strand'[i].sent => strand'[i].kind = "query")
                /\ \A k \in 1..Len(order) : ~strand'[i].sent => order[k] < strand'[i].r
    <3>1. CASE i \in 1..Len(s)
      BY <2>5, <2>6, <2>7, <3>1 DEF StrandOK
    <3>2. CASE i = Len(s) + 1
      BY <1>1, <2>5, <2>6, <2>8, <3>2
    <3> QED
      BY <1>1, <2>6, <3>1, <3>2
  <2> QED
    BY <2>10, <2>11, <2>14, <2>15 DEF StrandOK
<1> QED
  BY <1>2, <1>3 DEF Pushes

\* A call that waits with no other is the only task.
LEMMA Alone ==
    ASSUME ATaskTypes, strand # <<>>, StrandOK(strand, op, calls, db_lock, order)
    PROVE  /\ op[First.r] \notin InFront \cup AtBack => Rest = <<>>
           /\ \A i \in 1..Len(Rest) :
                \/ op[First.r] \in InFront /\ op[Rest[i].r] \in InFront
                \/ op[First.r] \in AtBack /\ op[Rest[i].r] \in AtBack /\ db_lock # NoLock
           /\ \A i \in 1..Len(Rest) :
                /\ Before(First, Rest[i], op) /\ Rest[i] \in Tasks(Len(op)) /\ Rest[i].r \in 1..Len(op)
                /\ calls[Rest[i].r] = 0 /\ Rest[i].r # First.r /\ ~Rest[i].sent
                /\ \A k \in 1..Len(order) : order[k] < Rest[i].r
                /\ \A j \in 1..Len(Rest) : i < j => Before(Rest[i], Rest[j], op)
           /\ \A k \in 1..Len(order) : ~First.sent => order[k] < First.r
           /\ calls[First.r] = 0 /\ First.r \in 1..Len(op)
<1>1. /\ Rest \in Seq(Tasks(Len(op))) /\ Len(Rest) = Len(strand) - 1
      /\ Len(strand) \in Nat \ {0} /\ First = strand[1] /\ First \in Tasks(Len(op))
      /\ \A i \in 1..Len(Rest) : Rest[i] = strand[i + 1]
  BY RestKeeps
<1> HIDE DEF First, Rest
<1>2. First.r \in 1..Len(op) /\ Len(op) \in Nat /\ 1 \in 1..Len(strand)
  BY <1>1 DEF Tasks, ATaskTypes
<1>3. calls[First.r] = 0 /\ \A k \in 1..Len(order) : ~First.sent => order[k] < First.r
  BY <1>1, <1>2 DEF StrandOK
<1>4. ASSUME NEW i \in 1..Len(Rest)
      PROVE  /\ Before(First, Rest[i], op) /\ Rest[i] \in Tasks(Len(op)) /\ Rest[i].r \in 1..Len(op)
             /\ calls[Rest[i].r] = 0 /\ Rest[i].r # First.r /\ ~Rest[i].sent
             /\ \A k \in 1..Len(order) : order[k] < Rest[i].r
             /\ \A j \in 1..Len(Rest) : i < j => Before(Rest[i], Rest[j], op)
  <2>1. i + 1 \in 1..Len(strand) /\ 1 < i + 1
    BY <1>1
  <2>2. Rest[i] \in Tasks(Len(op))
    BY <1>1
  <2>3. Rest[i].r \in 1..Len(op)
    BY <2>2 DEF Tasks
  <2>4. Before(First, Rest[i], op) /\ calls[Rest[i].r] = 0
    BY <1>1, <1>2, <2>1 DEF StrandOK
  <2>5. Rest[i].r # First.r /\ ~Rest[i].sent
    BY <1>2, <2>3, <2>4 DEF Before
  <2>6. \A k \in 1..Len(order) : order[k] < Rest[i].r
    BY <1>1, <2>1, <2>5 DEF StrandOK
  <2>7. ASSUME NEW j \in 1..Len(Rest), i < j PROVE Before(Rest[i], Rest[j], op)
    <3>1. /\ Rest[i] = strand[i + 1] /\ Rest[j] = strand[j + 1]
          /\ i + 1 < j + 1 /\ j + 1 \in 1..Len(strand)
      BY <1>1, <2>7
    <3> QED
      BY <1>1, <2>1, <3>1 DEF StrandOK
  <2> QED
    BY <2>2, <2>3, <2>4, <2>5, <2>6, <2>7
<1>5. ASSUME NEW i \in 1..Len(Rest)
      PROVE  \/ op[First.r] \in InFront /\ op[Rest[i].r] \in InFront
             \/ op[First.r] \in AtBack /\ op[Rest[i].r] \in AtBack /\ db_lock # NoLock
  BY <1>2, <1>3, <1>4 DEF StrandOK, Alike
<1>6. op[First.r] \notin InFront \cup AtBack => Rest = <<>>
  <2> SUFFICES ASSUME op[First.r] \notin InFront \cup AtBack PROVE Rest = <<>>
    OBVIOUS
  <2>1. ~(1 \in 1..Len(Rest))
    BY <1>5
  <2> QED
    BY <1>1, <2>1
<1> QED
  BY <1>2, <1>3, <1>4, <1>5, <1>6

\* A strand of one task.
LEMMA SingleOK ==
    ASSUME NEW n \in Nat, NEW t \in Tasks(n), NEW lock, NEW done, NEW o, NEW sent, NEW s, s = <<t>>,
           done[t.r] = 0, ~t.sent, Alike(o, done, lock), \A k \in 1..Len(sent) : sent[k] < t.r,
           lock # NoLock => t.kind # "connect" /\ t.lock \in {NoLock, lock}
    PROVE  StrandOK(s, o, done, lock, sent)
<1>1. Len(s) = 1 /\ s[1] = t /\ \A i \in 1..Len(s) : i = 1
  OBVIOUS
<1>2. OneLock(s, lock)
  BY <1>1 DEF OneLock
<1>3. \A i, j \in 1..Len(s) : ~(i < j)
  BY <1>1
<1> QED
  BY <1>1, <1>2, <1>3 DEF StrandOK

\* A task goes from its place at the front to the place of its query.
LEMMA OpenedOK ==
    ASSUME ATaskTypes, AHeld, strand # <<>>, First.kind \in {"connect", "bound"},
           NEW lock \in Lock, First.kind = "connect" \/ lock = First.lock,
           StrandOK(strand, op, calls, db_lock, order),
           NEW s, s = Opened(First.r, First.ph, lock, Rest),
           NEW l, l = OpenedLock(First.r, First.ph, lock)
    PROVE  /\ StrandOK(s, op, calls, l, order)
           /\ l \in {NoLock, lock} /\ \A i \in 1..Len(s) : s[i].lock \in {NoLock, lock}
<1> DEFINE n == Len(op)
           r == First.r
           q == Task("query", r, First.ph, lock)
           b == Task("bound", r, 2, lock)
           d == open_connection(r, 2, db_lock)
<1>1. /\ Rest \in Seq(Tasks(n)) /\ Len(Rest) = Len(strand) - 1
      /\ Len(strand) \in Nat \ {0} /\ First = strand[1] /\ First \in Tasks(n)
      /\ \A i \in 1..Len(Rest) : Rest[i] = strand[i + 1]
  BY RestKeeps
<1>2. /\ n \in Nat /\ db_lock \in Lock \cup {NoLock} /\ Len(Rest) \in Nat
      /\ First.ph \in {1, 2} /\ r \in 1..n /\ r \in Nat \ {0}
  BY <1>1 DEF ATaskTypes, Tasks
<1>3. lock # NoLock /\ Holds(First)
  BY <1>1, LockIsSome DEF AHeld, HeldIn
<1>4. ~First.sent
  BY <1>1 DEF StrandOK
<1>5. /\ calls[r] = 0 /\ Alike(op, calls, db_lock) /\ OneLock(strand, db_lock)
      /\ \A k \in 1..Len(order) : order[k] < r
  BY <1>4, Alone DEF StrandOK
<1>6. \A i \in 1..Len(Rest) :
        /\ Before(First, Rest[i], op) /\ Rest[i] \in Tasks(n) /\ Rest[i].r \in 1..n
        /\ calls[Rest[i].r] = 0 /\ ~Rest[i].sent
        /\ \A k \in 1..Len(order) : order[k] < Rest[i].r
        /\ \A j \in 1..Len(Rest) : i < j => Before(Rest[i], Rest[j], op)
  BY Alone
<1>7. db_lock \in {NoLock, lock} /\ \A i \in 1..Len(Rest) : Rest[i].lock \in {NoLock, lock}
  <2>1. 1 \in 1..Len(strand) /\ \A i \in 1..Len(Rest) : i + 1 \in 1..Len(strand)
    BY <1>1
  <2>2. CASE First.kind = "connect"
    <3>1. db_lock = NoLock
      BY <1>1, <1>5, <2>1, <2>2 DEF OneLock
    <3> QED
      BY <1>6, <2>2, <3>1 DEF Before
  <2>3. CASE First.kind = "bound" /\ lock = First.lock
    <3>1. db_lock \in {NoLock, lock}
      BY <1>1, <1>3, <1>5, <2>1, <2>3 DEF OneLock
    <3>2. ASSUME NEW i \in 1..Len(Rest) PROVE Rest[i].lock \in {NoLock, lock}
      BY <1>1, <1>3, <1>5, <2>1, <2>3 DEF OneLock
    <3> QED
      BY <3>1, <3>2
  <2> QED
    BY <2>2, <2>3
<1>8. db_lock # NoLock => \A i \in 1..Len(Rest) : Rest[i].kind # "connect"
  BY <1>1, <1>5 DEF OneLock
<1>9. /\ q \in Tasks(n) /\ q.r = r /\ ~q.sent /\ q.kind = "query" /\ q.lock = lock
      /\ b \in Tasks(n) /\ b.r = r /\ ~b.sent /\ b.kind = "bound" /\ b.lock = lock
  BY <1>2, <1>3 DEF Task, Tasks
<1>10. /\ d \in Tasks(n) /\ d.r = r /\ ~d.sent /\ d.lock \in {NoLock, db_lock}
       /\ (d.kind = "connect" => db_lock = NoLock)
  <2>1. NewTask(d, r, db_lock)
    BY <1>2, OpenFacts
  <2>2. Tasks(r) \subseteq Tasks(n)
    BY <1>2, TasksGrow
  <2> QED
    BY <2>1, <2>2 DEF NewTask
<1>11. op[r] \notin InFront \cup AtBack => Rest = <<>>
  BY Alone
<1>12. \A i \in 1..Len(Rest) :
         \/ op[r] \in InFront /\ op[Rest[i].r] \in InFront
         \/ op[r] \in AtBack /\ op[Rest[i].r] \in AtBack /\ db_lock # NoLock
  BY Alone
<1>13. "begin" \notin InFront \cup AtBack /\ "dealloc" \notin InFront \cup AtBack
       /\ "reader" \notin InFront \cup AtBack /\ \A x \in InFront : x \notin AtBack
  BY DEF InFront, AtBack
<1> HIDE DEF First, Rest, n, r, q, b, d
<1>14. CASE op[r] = "begin" /\ s = Append(Rest, b) /\ l = lock
  <2>1. s = <<b>>
    BY <1>11, <1>13, <1>14
  <2>2. Alike(op, calls, lock)
    BY <1>3, <1>5 DEF Alike
  <2>3. StrandOK(s, op, calls, l, order)
    BY <1>2, <1>5, <1>9, <1>14, <2>1, <2>2, SingleOK
  <2> QED
    BY <1>9, <1>14, <2>1, <2>3
<1>15. CASE op[r] = "dealloc" /\ s = Append(Rest, d) /\ l = db_lock
  <2>1. s = <<d>>
    BY <1>11, <1>13, <1>15
  <2>2. StrandOK(s, op, calls, l, order)
    BY <1>2, <1>5, <1>10, <1>15, <2>1, SingleOK
  <2> QED
    BY <1>7, <1>10, <1>15, <2>1, <2>2
<1>16. CASE op[r] \in AtBack \cup {"reader"} /\ s = Append(Rest, q) /\ l = db_lock
  <2>1. /\ Len(s) = Len(Rest) + 1 /\ s[Len(Rest) + 1] = q
        /\ \A i \in 1..Len(Rest) : s[i] = Rest[i]
    BY <1>1, <1>9, <1>16, AppendFacts
  <2>2. \A i \in 1..Len(s) : (i \in 1..Len(Rest) /\ s[i] = Rest[i]) \/ (i = Len(Rest) + 1 /\ s[i] = q)
    BY <1>2, <2>1
  <2>3. \A i \in 1..Len(s) : s[i].lock \in {NoLock, lock}
    BY <1>7, <1>9, <2>2
  <2>4. ASSUME NEW i \in 1..Len(Rest) PROVE Before(Rest[i], q, op)
    <3>1. op[r] \in AtBack /\ db_lock # NoLock
      BY <1>12, <1>13, <1>16
    <3>2. Before(First, Rest[i], op)
      BY <1>6
    <3>3. IF Rest[i].kind = "query" THEN Rest[i].r < r ELSE r < Rest[i].r
      BY <3>2 DEF Before, r
    <3>4. Rest[i].kind # "connect"
      BY <1>8, <3>1
    <3> QED
      BY <1>9, <1>16, <3>3, <3>4 DEF Before
  <2>5. ASSUME NEW i \in 1..Len(s), NEW j \in 1..Len(s), i < j PROVE Before(s[i], s[j], op)
    <3>1. i \in 1..Len(Rest) /\ s[i] = Rest[i]
      BY <1>2, <2>1, <2>2, <2>5
    <3> QED
      BY <1>6, <2>2, <2>4, <2>5, <3>1
  <2>6. ASSUME NEW i \in 1..Len(s)
        PROVE  /\ calls[s[i].r] = 0 /\ (s[i].sent => s[i].kind = "query")
               /\ \A k \in 1..Len(order) : ~s[i].sent => order[k] < s[i].r
    BY <1>5, <1>6, <1>9, <2>2
  <2>7. OneLock(s, l)
    <3>1. l # NoLock => l = lock /\ \A i \in 1..Len(s) : s[i].kind # "connect"
      BY <1>7, <1>8, <1>9, <1>16, <2>2
    <3> QED
      BY <2>3, <3>1 DEF OneLock
  <2>8. StrandOK(s, op, calls, l, order)
    BY <1>5, <1>16, <2>5, <2>6, <2>7 DEF StrandOK
  <2> QED
    BY <1>7, <1>16, <2>3, <2>8
<1>17. CASE op[r] \notin AtBack \cup {"reader"} /\ s = <<q>> \o Rest /\ l = db_lock
  <2>1. /\ Len(s) = Len(Rest) + 1 /\ s[1] = q
        /\ \A i \in 2..(Len(Rest) + 1) : s[i] = Rest[i - 1]
    BY <1>1, <1>9, <1>17, FrontFacts
  <2>2. \A i \in 1..Len(s) : (i - 1 \in 1..Len(Rest) /\ s[i] = Rest[i - 1]) \/ (i = 1 /\ s[i] = q)
    BY <1>2, <2>1
  <2>3. \A i \in 1..Len(s) : s[i].lock \in {NoLock, lock}
    BY <1>7, <1>9, <2>2
  <2>4. ASSUME NEW i \in 1..Len(Rest) PROVE Before(q, Rest[i], op)
    <3>1. op[Rest[i].r] \in InFront
      BY <1>12, <1>17
    <3>2. Before(First, Rest[i], op) /\ ~Rest[i].sent
      BY <1>6
    <3>3. Rest[i].kind # "query"
      BY <1>13, <3>1, <3>2 DEF Before
    <3>4. r < Rest[i].r
      BY <3>2, <3>3 DEF Before, r
    <3> QED
      BY <1>9, <3>2, <3>3, <3>4 DEF Before
  <2>5. ASSUME NEW i \in 1..Len(s), NEW j \in 1..Len(s), i < j PROVE Before(s[i], s[j], op)
    <3>1. j - 1 \in 1..Len(Rest) /\ s[j] = Rest[j - 1]
      BY <1>2, <2>1, <2>2, <2>5
    <3>2. CASE i = 1 /\ s[i] = q
      BY <2>4, <3>1, <3>2
    <3>3. CASE i - 1 \in 1..Len(Rest) /\ s[i] = Rest[i - 1]
      <4>1. i - 1 < j - 1
        BY <1>2, <2>1, <2>5
      <4> QED
        BY <1>6, <3>1, <3>3, <4>1
    <3> QED
      BY <2>2, <3>2, <3>3
  <2>6. ASSUME NEW i \in 1..Len(s)
        PROVE  /\ calls[s[i].r] = 0 /\ (s[i].sent => s[i].kind = "query")
               /\ \A k \in 1..Len(order) : ~s[i].sent => order[k] < s[i].r
    BY <1>5, <1>6, <1>9, <2>2
  <2>7. OneLock(s, l)
    <3>1. l # NoLock => l = lock /\ \A i \in 1..Len(s) : s[i].kind # "connect"
      BY <1>7, <1>8, <1>9, <1>17, <2>2
    <3> QED
      BY <2>3, <3>1 DEF OneLock
  <2>8. StrandOK(s, op, calls, l, order)
    BY <1>5, <1>17, <2>5, <2>6, <2>7 DEF StrandOK
  <2> QED
    BY <1>7, <1>17, <2>3, <2>8
<1> QED
  BY <1>14, <1>15, <1>16, <1>17 DEF Opened, OpenedLock, r, q, b, d, AtBack

\* The command of the first task follows those of all earlier calls.
LEMMA SendOK ==
    ASSUME ATaskTypes, Sends, StrandOK(strand, op, calls, db_lock, order), Ascending
    PROVE  StrandOK(strand', op, calls, db_lock, order') /\ Ascending'
<1>1. /\ strand # <<>> /\ First.kind = "query" /\ ~First.sent /\ order' = Append(order, First.r)
  BY DEF Sends, Runs
<1>2. /\ Len(strand') = Len(strand) /\ Len(strand) \in Nat \ {0} /\ First = strand[1]
      /\ strand'[1].kind = First.kind /\ strand'[1].lock = First.lock
      /\ strand'[1].r = First.r /\ strand'[1].sent = TRUE
      /\ \A j \in 1..Len(strand) : j # 1 => strand'[j] = strand[j]
  BY SendsFacts
<1>3. First.r \in 1..Len(op) /\ order \in Seq(1..Len(op)) /\ Len(order) \in Nat
  BY <1>1, Alone DEF ATaskTypes
<1>4. /\ Len(order') = Len(order) + 1 /\ order'[Len(order) + 1] = First.r
      /\ \A k \in 1..Len(order) : order'[k] = order[k]
  BY <1>1, <1>3, AppendFacts
<1>5. \A k \in 1..Len(order) : order[k] < First.r
  BY <1>1, Alone
<1>6. Ascending'
  <2> SUFFICES ASSUME NEW i \in 1..Len(order'), NEW j \in 1..Len(order'), i < j
               PROVE  order'[i] < order'[j]
    BY DEF Ascending
  <2>1. i \in 1..Len(order)
    BY <1>3, <1>4
  <2>2. CASE j \in 1..Len(order)
    BY <1>4, <2>1, <2>2 DEF Ascending
  <2>3. CASE j = Len(order) + 1
    BY <1>4, <1>5, <2>1, <2>3
  <2> QED
    BY <1>3, <1>4, <2>2, <2>3
<1> HIDE DEF First
<1>7. 1 \in 1..Len(strand)
  BY <1>2
<1>8. ASSUME NEW i \in 1..Len(strand), i # 1
      PROVE  First.r < strand[i].r
  <2>1. Before(First, strand[i], op)
    BY <1>2, <1>7, <1>8 DEF StrandOK
  <2> QED
    BY <1>1, <2>1 DEF Before
<1>9. ASSUME NEW i \in 1..Len(strand), NEW j \in 1..Len(strand), i < j
      PROVE  Before(strand'[i], strand'[j], op)
  <2>1. Before(strand[i], strand[j], op) /\ j # 1
    BY <1>9 DEF StrandOK
  <2>2. CASE i = 1
    BY <1>2, <2>1, <2>2 DEF Before
  <2>3. CASE i # 1
    BY <1>2, <2>1, <2>3
  <2> QED
    BY <2>2, <2>3
<1>10. ASSUME NEW i \in 1..Len(strand)
       PROVE  /\ calls[strand'[i].r] = 0 /\ (strand'[i].sent => strand'[i].kind = "query")
              /\ \A k \in 1..Len(order') : ~strand'[i].sent => order'[k] < strand'[i].r
  <2>1. CASE i = 1
    BY <1>1, <1>2, <1>7, <2>1 DEF StrandOK
  <2>2. CASE i # 1
    <3>1. strand'[i] = strand[i] /\ calls[strand[i].r] = 0 /\ (strand[i].sent => strand[i].kind = "query")
      BY <1>2, <2>2 DEF StrandOK
    <3>2. ASSUME NEW k \in 1..Len(order'), ~strand[i].sent PROVE order'[k] < strand[i].r
      <4>1. CASE k \in 1..Len(order)
        BY <1>4, <3>2, <4>1 DEF StrandOK
      <4>2. CASE k = Len(order) + 1
        BY <1>4, <1>8, <2>2, <4>2
      <4> QED
        BY <1>3, <1>4, <4>1, <4>2
    <3> QED
      BY <3>1, <3>2
  <2> QED
    BY <2>1, <2>2
<1>11. OneLock(strand', db_lock)
  <2>1. \A i \in 1..Len(strand) : strand'[i].kind = strand[i].kind /\ strand'[i].lock = strand[i].lock
    BY <1>2
  <2>2. OneLock(strand, db_lock)
    BY DEF StrandOK
  <2> QED
    BY <1>2, <2>1, <2>2 DEF OneLock
<1> QED
  BY <1>2, <1>6, <1>9, <1>10, <1>11 DEF StrandOK

\* A deadline passes.
LEMMA LateFacts ==
    ASSUME ATaskTypes, NEW r, TimePasses(r)
    PROVE  /\ Len(strand') = Len(strand) /\ Len(strand) \in Nat /\ strand # <<>> /\ strand' # <<>>
           /\ First' = strand'[1] /\ First = strand[1]
           /\ \A j \in 1..Len(strand) :
                /\ strand'[j].kind = strand[j].kind /\ strand'[j].lock = strand[j].lock
                /\ strand'[j].r = strand[j].r /\ strand'[j].sent = strand[j].sent
<1>1. PICK i \in DOMAIN strand : strand' = [strand EXCEPT ![i].late = TRUE]
  BY DEF TimePasses
<1> DEFINE t == [strand[i] EXCEPT !.late = TRUE]
<1>2. /\ strand \in Seq(Tasks(Len(op))) /\ i \in 1..Len(strand) /\ Len(strand) \in Nat
      /\ strand[i] \in Tasks(Len(op))
  BY <1>1 DEF ATaskTypes
<1>3. /\ t \in Tasks(Len(op)) /\ t.kind = strand[i].kind /\ t.lock = strand[i].lock
      /\ t.r = strand[i].r /\ t.sent = strand[i].sent
  <2>1. t \in Tasks(Len(op))
    BY <1>2, TaskChanges
  <2> QED
    BY <1>2, <2>1 DEF Tasks
<1>4. strand' = [strand EXCEPT ![i] = t]
  BY <1>1
<1> HIDE DEF t
<1>5. /\ strand' \in Seq(Tasks(Len(op))) /\ Len(strand') = Len(strand) /\ strand'[i] = t
      /\ \A j \in 1..Len(strand) : j # i => strand'[j] = strand[j]
  BY <1>2, <1>3, <1>4, ReplaceFacts
<1>6. strand # <<>> /\ strand' # <<>> /\ First' = strand'[1] /\ First = strand[1]
  BY <1>2, <1>5 DEF First
<1> QED
  BY <1>2, <1>3, <1>5, <1>6

\* The order of the strand is not touched by it.
LEMMA LateOK ==
    ASSUME ATaskTypes, NEW r, TimePasses(r), StrandOK(strand, op, calls, db_lock, order)
    PROVE  StrandOK(strand', op, calls, db_lock, order)
<1>1. /\ Len(strand') = Len(strand)
      /\ \A j \in 1..Len(strand) :
                /\ strand'[j].kind = strand[j].kind /\ strand'[j].lock = strand[j].lock
                /\ strand'[j].r = strand[j].r /\ strand'[j].sent = strand[j].sent
  BY LateFacts
<1>2. ASSUME NEW i \in 1..Len(strand), NEW j \in 1..Len(strand), i < j
      PROVE  Before(strand'[i], strand'[j], op)
  <2>1. Before(strand[i], strand[j], op)
    BY <1>2 DEF StrandOK
  <2> QED
    BY <1>1, <2>1 DEF Before
<1>3. ASSUME NEW i \in 1..Len(strand)
      PROVE  /\ calls[strand'[i].r] = 0 /\ (strand'[i].sent => strand'[i].kind = "query")
             /\ \A k \in 1..Len(order) : ~strand'[i].sent => order[k] < strand'[i].r
  BY <1>1 DEF StrandOK
<1>4. OneLock(strand', db_lock)
  <2>1. OneLock(strand, db_lock)
    BY DEF StrandOK
  <2> QED
    BY <1>1, <2>1 DEF OneLock
<1> QED
  BY <1>1, <1>2, <1>3, <1>4 DEF StrandOK

(***************************************************************************)
(* Lock objects and commands of a careful program.                          *)
(***************************************************************************)
\* Nothing is on the links unless the first task has sent it.
LEMMA AllIdle ==
    ASSUME GBusy, strand = <<>> \/ First.kind # "query" \/ ~First.sent
    PROVE  \A c \in Conns : srv[c].st = "idle"
BY DEF GBusy

\* The first query runs on _conn.
LEMMA QueryConn ==
    ASSUME AInv, GWorks, strand # <<>>, First.kind \in {"query", "bound"}
    PROVE  /\ First.lock \in Lock /\ _conn \in Conns /\ First.lock[1] = _conn
           /\ owner[_conn] = Me /\ running[_conn] = 1 /\ _conn # None
<1>1. First = strand[1] /\ First \in Tasks(Len(op)) /\ 1 \in 1..Len(strand)
  BY RestKeeps DEF AInv
<1>2. First.lock \in Lock /\ First.lock # NoLock
  BY <1>1 DEF AInv, AHeld, HeldIn, Holds, Tasks
<1>3. owner[First.lock[1]] = Me /\ running[First.lock[1]] = 1
  BY <1>1, <1>2 DEF GWorks, Works
<1>4. First.lock[1] \in Conns
  BY <1>2, LockIsSome
<1> QED
  BY <1>2, <1>3, <1>4, MyConn, SessionAssumption DEF AInv

\* Lock objects of tasks and of _lock that were there before.
Held(l) == l # NoLock /\ (l = db_lock \/ \E i \in 1..Len(strand) : strand[i].lock = l)
\* They are all the same one, and their connection is Me's and works.
LEMMA HeldFacts ==
    ASSUME AInv, GWorks, OneLock(strand, db_lock), NEW l, Held(l)
    PROVE  /\ l \in Locks /\ l[1] \in Conns /\ owner[l[1]] = Me /\ running[l[1]] = 1
           /\ \A k : Held(k) => k = l
<1>1. /\ strand \in Seq(Tasks(Len(op))) /\ db_lock \in Lock \cup {NoLock} /\ DOMAIN strand = 1..Len(strand)
  BY DEF AInv, ATaskTypes
<1>2. l \in Locks
  BY <1>1, LocksFacts DEF Held
<1>3. l \in Lock
  <2>1. ASSUME NEW i \in 1..Len(strand), strand[i].lock = l PROVE l \in Lock
    <3>1. strand[i] \in Tasks(Len(op))
      BY <1>1
    <3> QED
      BY <2>1, <3>1 DEF Held, Tasks
  <2> QED
    BY <1>1, <2>1 DEF Held
<1>4. owner[l[1]] = Me /\ running[l[1]] = 1
  BY DEF Held, GWorks, Works
<1>5. \A k : Held(k) => k = l
  BY DEF Held, OneLock
<1> QED
  BY <1>2, <1>3, <1>4, <1>5, LockIsSome

\* Lock objects that die stop only Me's work, and none that is needed.
LEMMA StopsMine ==
    ASSUME AInv, GWorks, GJobs, OneLock(strand, db_lock), AInv',
           prepared \subseteq prepared', \A l : Held(l)' => Held(l),
           UNCHANGED <<owner, job>>, running' = Stopped(Locks, Locks')
    PROVE  GWorks' /\ GJobs'
<1>1. ASSUME NEW k \in Locks \ Locks' PROVE Held(k)
  <2>1. DOMAIN strand = 1..Len(strand)
    BY DEF AInv, ATaskTypes
  <2>2. k \notin prepared
    BY LocksFacts DEF Locks
  <2> QED
    BY <2>1, <2>2, LocksFacts DEF Held
<1>2. ASSUME NEW l, Held(l)' PROVE l # NoLock /\ owner'[l[1]] = Me /\ running'[l[1]] = 1
  <2>1. Held(l)
    BY <1>2
  <2>2. l # NoLock /\ l[1] \in Conns /\ owner[l[1]] = Me /\ running[l[1]] = 1
    BY <2>1, HeldFacts DEF Held
  <2>3. l \in Locks'
    <3>1. DOMAIN strand' = 1..Len(strand')
      BY DEF AInv, ATaskTypes
    <3> QED
      BY <1>2, <3>1 DEF Held, Locks, ToSet
  <2>4. ASSUME NEW k \in Locks \ Locks' PROVE k[1] # l[1]
    <3>1. Held(k)
      BY <1>1
    <3>2. k = l
      BY <2>1, <3>1, HeldFacts
    <3> QED
      BY <2>3, <3>2
  <2>5. running'[l[1]] = running[l[1]]
    BY <2>2, <2>4 DEF Stopped
  <2> QED
    BY <2>2, <2>5
<1>3. GWorks'
  <2>1. Works(db_lock)'
    BY <1>2 DEF Held, Works
  <2>2. ASSUME NEW i \in 1..Len(strand') PROVE Works(strand[i].lock)'
    BY <1>2 DEF Held, Works
  <2> QED
    BY <2>1, <2>2 DEF GWorks
<1>4. ASSUME NEW e \in Others, job'[e] # None PROVE owner'[job'[e]] = e /\ running'[job'[e]] # 0
  <2>1. job[e] \in Conns /\ owner[job[e]] = e /\ running[job[e]] # 0 /\ e # Me
    BY <1>4, SessionAssumption DEF GJobs, AInv, ASessionTypes
  <2>2. ASSUME NEW k \in Locks \ Locks' PROVE k[1] # job[e]
    BY <1>1, <2>1, HeldFacts
  <2>3. running'[job[e]] = running[job[e]]
    BY <2>1, <2>2 DEF Stopped
  <2> QED
    BY <2>1, <2>3
<1> QED
  BY <1>3, <1>4 DEF GJobs

(***************************************************************************)
(* The steps of a careful program.                                          *)
(***************************************************************************)
\* A push brings no new lock object.
LEMMA PushHeld ==
    ASSUME AInv, AInv', NEW done, NEW waiting, NEW s \in {strand, Rest}, s = strand \/ strand # <<>>,
           NEW intx, NEW lock \in {db_lock, NoLock}, Pushes(done, waiting, s, lock, intx),
           db_lock' \in {db_lock, NoLock}, NEW l, Held(l)'
    PROVE  Held(l)
<1>1. /\ strand \in Seq(Tasks(Len(op))) /\ db_lock \in Lock \cup {NoLock} /\ Len(op) \in Nat
      /\ Len(strand) \in Nat /\ ATaskTypes
  BY DEF AInv, ATaskTypes
<1>2. /\ s \in Seq(Tasks(Len(op))) /\ Len(s) \in Nat
      /\ \A i \in 1..Len(s) : \E j \in 1..Len(strand) : s[i] = strand[j]
  <2>1. CASE s = strand
    BY <1>1, <2>1
  <2>2. CASE s = Rest /\ strand # <<>>
    <3>1. /\ Rest \in Seq(Tasks(Len(op))) /\ Len(Rest) = Len(strand) - 1
          /\ \A i \in 1..Len(Rest) : Rest[i] = strand[i + 1]
      BY <1>1, <2>2, RestKeeps
    <3>2. \A i \in 1..Len(Rest) : i + 1 \in 1..Len(strand)
      BY <1>1, <3>1
    <3> HIDE DEF Rest
    <3> QED
      BY <2>2, <3>1, <3>2
  <2> QED
    BY <2>1, <2>2
<1>3. CASE strand' = s
  BY <1>2, <1>3 DEF Held
<1>4. ASSUME NEW o \in Ops, strand' = Append(s, call(Len(op) + 1, o, lock, intx)) PROVE Held(l)
  <2> DEFINE t == call(Len(op) + 1, o, lock, intx)
  <2>1. t \in Tasks(Len(op) + 1) /\ t.lock \in {NoLock, db_lock}
    BY <1>1, CallFacts DEF NewTask
  <2>2. s \in Seq(Tasks(Len(op) + 1))
    BY <1>1, <1>2, TasksGrow, SeqGrows
  <2>3. strand' = Append(s, t)
    BY <1>4
  <2> HIDE DEF t
  <2>4. /\ Len(strand') = Len(s) + 1 /\ strand'[Len(s) + 1] = t
        /\ \A i \in 1..Len(s) : strand'[i] = s[i]
    BY <2>1, <2>2, <2>3, AppendFacts
  <2>5. ASSUME NEW i \in 1..Len(strand'), strand'[i].lock = l PROVE Held(l)
    <3>1. l # NoLock
      BY DEF Held
    <3>2. CASE i = Len(s) + 1
      BY <2>1, <2>4, <2>5, <3>1, <3>2 DEF Held
    <3>3. CASE i \in 1..Len(s)
      BY <1>2, <2>4, <2>5, <3>1, <3>3 DEF Held
    <3> QED
      BY <1>2, <2>4, <3>2, <3>3
  <2> QED
    BY <2>5 DEF Held
<1> QED
  BY <1>3, <1>4 DEF Pushes

\* A callback: the first task leaves, and a call may follow.
LEMMA BackOK ==
    ASSUME AInv, AInv', careful, Good, strand # <<>>, NEW intx,
           NEW lock \in {db_lock, db_lock'}, CallsBack(First.r, Rest, lock, intx), order' = order,
           db_lock' = db_lock \/ (db_lock' = NoLock /\ op[First.r] \notin AtBack)
    PROVE  /\ StrandOK(strand', op', calls', db_lock', order')
           /\ \A r \in 1..Len(calls') : calls'[r] \in {0, 1}
           /\ \A l : Held(l)' => Held(l)
           /\ \A r \in 1..Len(op) : op'[r] = op[r]
<1> DEFINE r == First.r
           done == Done(r)
           w == {a \in DOMAIN done : done[a] = 0}
<1>1. ATaskTypes /\ StrandOK(strand, op, calls, db_lock, order) /\ db_lock \in Lock \cup {NoLock}
      /\ calls \in Seq({0, 1, 2}) /\ Len(calls) = Len(op) /\ Len(op) \in Nat
      /\ \A a \in 1..Len(calls) : calls[a] \in {0, 1}
  BY DEF AInv, ATaskTypes, Good
<1>2. r \in 1..Len(op) /\ calls[r] = 0 /\ Rest \in Seq(Tasks(Len(op)))
  BY <1>1, Alone, RestKeeps
<1>3. /\ done \in Seq({0, 1, 2}) /\ Len(done) = Len(op) /\ DOMAIN done = 1..Len(op)
      /\ \A a \in 1..Len(op) : done[a] = IF a = r THEN 1 ELSE calls[a]
  BY <1>1, <1>2 DEF Done
<1>4. Waiting \ {r} = w
  <2>1. DOMAIN calls = 1..Len(op)
    BY <1>1
  <2> HIDE DEF done
  <2> QED
    BY <1>2, <1>3, <2>1 DEF Waiting
<1>l. lock \in Lock \cup {NoLock} /\ lock \in {db_lock, NoLock}
  BY <1>1
<1>5. Pushes(done, Waiting \ {r}, Rest, lock, intx)
  BY <1>1, <1>2, <1>l, CallsBackPushes
<1>6. Pushes(done, w, Rest, lock, intx)
  BY <1>4, <1>5
<1>7. /\ StrandOK(Rest, op, done, db_lock', order) /\ OneLock(Rest, db_lock)
      /\ db_lock' = db_lock \/ \A a \in 1..Len(op) : done[a] = 0 => op[a] \in InFront
  <2> DEFINE lk == db_lock'
  <2>1. lk \in {db_lock, NoLock} /\ (lk = db_lock \/ op[First.r] \notin AtBack)
    OBVIOUS
  <2> HIDE DEF lk
  <2>2. /\ StrandOK(Rest, op, done, lk, order) /\ OneLock(Rest, db_lock)
        /\ lk = db_lock \/ \A a \in 1..Len(op) : done[a] = 0 => op[a] \in InFront
    BY <1>1, <2>1, DropOK
  <2> QED
    BY <2>2 DEF lk
<1> HIDE DEF done, r, First, Rest
<1>8. StrandOK(strand', op', calls', db_lock', order)
  <2> DEFINE lk == db_lock'
  <2>1. lk = lock \/ (lk = NoLock /\ \A a \in 1..Len(op) : done[a] = 0 => op[a] \in InFront)
    BY <1>7
  <2>2. StrandOK(Rest, op, done, lk, order)
    BY <1>7
  <2>3. OneLock(Rest, lock)
    BY <1>7, <1>l DEF OneLock
  <2> HIDE DEF lk
  <2>4. StrandOK(strand', op', calls', lk, order)
    BY <1>1, <1>2, <1>3, <1>l, <1>6, <2>1, <2>2, <2>3, PushOK
  <2> QED
    BY <2>4 DEF lk
<1>9. \A l : Held(l)' => Held(l)
  BY <1>5, <1>l, PushHeld
<1>10. /\ \A a \in 1..Len(op) : op'[a] = op[a] /\ calls'[a] = done[a]
  BY <1>1, <1>2, <1>3, <1>5, <1>l, PushFacts
<1>11. \A a \in 1..Len(calls') : calls'[a] \in {0, 1}
  <2>1. CASE calls' = done
    BY <1>1, <1>3, <2>1
  <2>2. CASE calls' = Append(done, 0)
    <3>1. Len(calls') = Len(op) + 1 /\ calls'[Len(op) + 1] = 0 /\ \A a \in 1..Len(op) : calls'[a] = done[a]
      BY <1>3, <2>2, AppendFacts
    <3> QED
      BY <1>1, <1>3, <3>1
  <2> QED
    BY <1>5, <2>1, <2>2 DEF Pushes
<1> QED
  BY <1>8, <1>9, <1>10, <1>11

\* Nothing happened to the connections, and no lock object is new.
LEMMA SameWorks ==
    ASSUME GWorks, \A l : Held(l)' => Held(l), UNCHANGED <<owner, running>>
    PROVE  GWorks'
<1>1. ASSUME NEW l, Held(l)' PROVE owner'[l[1]] = Me /\ running'[l[1]] = 1
  BY <1>1 DEF Held, GWorks, Works
<1>2. Works(db_lock)'
  BY <1>1 DEF Held, Works
<1>3. ASSUME NEW i \in 1..Len(strand') PROVE Works(strand[i].lock)'
  BY <1>1 DEF Held, Works
<1> QED
  BY <1>2, <1>3 DEF GWorks

\* Transactions while no link has anything on it.
LEMMA IdleTrans ==
    ASSUME \A c \in Conns : srv'[c].st = "idle"
    PROVE  GBusy' /\ GEnded'
BY DEF GBusy, GEnded
\* The same for a step that leaves the connections alone.
LEMMA SameTrans ==
    ASSUME GTrans, \A c \in Conns : srv[c].st = "idle", UNCHANGED <<owner, link, in_tx, tx>>
    PROVE  GTrans'
BY DEF GTrans

\* A task that has to connect has no lock object behind it.
LEMMA ConnectFree ==
    ASSUME AInv, StrandOK(strand, op, calls, db_lock, order), strand # <<>>, First.kind = "connect"
    PROVE  \A l : ~Held(l)
<1>1. /\ Len(Rest) = Len(strand) - 1 /\ Len(strand) \in Nat \ {0} /\ First = strand[1]
      /\ \A i \in 1..Len(strand) : i # 1 => i - 1 \in 1..Len(Rest) /\ Rest[i - 1] = strand[i]
  BY RestKeeps DEF AInv
<1>2. 1 \in 1..Len(strand)
  BY <1>1
<1>3. db_lock = NoLock
  BY <1>1, <1>2 DEF StrandOK, OneLock
<1>4. ASSUME NEW i \in 1..Len(strand) PROVE strand[i].lock = NoLock
  <2>1. CASE i = 1
    BY <1>1, <1>2, <2>1 DEF AInv, AHeld, HeldIn, Holds
  <2>2. CASE i # 1
    <3>1. Before(First, strand[i], op)
      BY <1>1, <1>2, <2>2 DEF StrandOK
    <3> QED
      BY <3>1 DEF Before
  <2> QED
    BY <2>1, <2>2
<1> QED
  BY <1>3, <1>4 DEF Held

\* The error branch stops no work when no task and no _lock has a lock object.
LEMMA NoneStopped ==
    ASSUME AInv, \A l : ~Held(l), prepared' = prepared
    PROVE  Stopped(Locks, Locks') = running
<1>1. DOMAIN strand = 1..Len(strand) /\ running \in [Conns -> {0, 1, 2}]
  BY DEF AInv, ATaskTypes, ASessionTypes
<1>2. \A t \in ToSet(strand) : t.lock = NoLock
  BY <1>1 DEF Held, ToSet
<1>3. Locks \subseteq prepared \ {NoLock}
  BY <1>2 DEF Locks, Held
<1>4. prepared \ {NoLock} \subseteq Locks'
  BY DEF Locks
<1>5. Locks \ Locks' = {}
  BY <1>3, <1>4
<1> QED
  BY <1>1, <1>5 DEF Stopped

\* A call of a careful program.
LEMMA CallGood ==
    ASSUME AInv, AInv', careful, Good, NEW o \in Ops, Call(o) PROVE Good'
<1> DEFINE w == {a \in DOMAIN calls : calls[a] = 0}
           intx == in_transaction
<1>1. Pushes(calls, w, strand, db_lock, intx)
  BY DEF Call, Pushes, Waiting
<1>2. UNCHANGED <<careful, sessionVars, db_lock, prepared, srv, order>>
  BY DEF Call
<1>3. /\ ATaskTypes /\ StrandOK(strand, op, calls, db_lock, order) /\ OneLock(strand, db_lock)
      /\ db_lock \in Lock \cup {NoLock} /\ strand \in Seq(Tasks(Len(op))) /\ Len(op) \in Nat
      /\ calls \in Seq({0, 1, 2}) /\ Len(calls) = Len(op) /\ calls' = Append(calls, 0)
      /\ \A a \in 1..Len(calls) : calls[a] \in {0, 1}
  BY DEF AInv, ATaskTypes, Good, StrandOK, Call
<1> HIDE DEF intx
<1>4. StrandOK(strand', op', calls', db_lock, order)
  BY <1>1, <1>3, PushOK
<1> HIDE DEF w
<1>5. \A l : Held(l)' => Held(l)
  BY <1>1, <1>2, PushHeld
<1>6. /\ Len(strand) <= Len(strand') /\ \A i \in 1..Len(strand) : strand'[i] = strand[i]
      /\ strand' \in Seq(Tasks(Len(op'))) /\ \A a \in 1..Len(op) : op'[a] = op[a]
  BY <1>1, <1>3, PushFacts
<1>7. \A a \in 1..Len(calls') : calls'[a] \in {0, 1}
  <2>1. Len(calls') = Len(op) + 1 /\ calls'[Len(op) + 1] = 0 /\ \A a \in 1..Len(op) : calls'[a] = calls[a]
    BY <1>3, AppendFacts
  <2> QED
    BY <1>3, <2>1
<1>8. strand # <<>> => strand' # <<>> /\ First' = First
  BY <1>3, <1>6 DEF First
<1>9. GBusy'
  BY <1>2, <1>8 DEF Good, GBusy, sessionVars
<1>10. ASSUME NEW c \in Conns, srv[c].st # "idle" PROVE op'[srv[c].r] = op[srv[c].r]
  BY <1>3, <1>6, <1>10 DEF ATaskTypes, Commands
<1>11. GTrans' /\ GEnded'
  BY <1>2, <1>10 DEF Good, GTrans, GEnded, sessionVars
<1>12. GWorks' /\ GJobs'
  BY <1>2, <1>5, SameWorks DEF Good, GJobs, sessionVars
<1> QED
  BY <1>2, <1>4, <1>7, <1>9, <1>11, <1>12 DEF Good, Ascending, sessionVars

\* The deadline of a connect task.
LEMMA TimePassesGood ==
    ASSUME AInv, Good, NEW r, TimePasses(r) PROVE Good'
<1>1. UNCHANGED <<careful, sessionVars, op, calls, db_lock, prepared, srv, order>>
  BY DEF TimePasses
<1>2. /\ Len(strand') = Len(strand) /\ Len(strand) \in Nat /\ strand # <<>> /\ strand' # <<>>
      /\ First' = strand'[1] /\ First = strand[1]
      /\ \A j \in 1..Len(strand) :
                /\ strand'[j].kind = strand[j].kind /\ strand'[j].lock = strand[j].lock
                /\ strand'[j].r = strand[j].r /\ strand'[j].sent = strand[j].sent
  BY LateFacts DEF AInv
<1>3. StrandOK(strand', op, calls, db_lock, order)
  BY LateOK DEF AInv, Good
<1>4. GBusy'
  <2>1. 1 \in 1..Len(strand)
    BY <1>2 DEF AInv, ATaskTypes
  <2>2. First'.kind = First.kind /\ First'.sent = First.sent /\ First'.r = First.r
    BY <1>2, <2>1
  <2> QED
    BY <1>1, <1>2, <2>2 DEF Good, GBusy, sessionVars
<1>5. GWorks'
  BY <1>1, <1>2 DEF Good, GWorks, Works, sessionVars
<1> QED
  BY <1>1, <1>3, <1>4, <1>5 DEF Good, Ascending, GJobs, GTrans, GEnded, sessionVars

\* A task ends before it had a connection.
LEMMA NoConnectionGood ==
    ASSUME AInv, AInv', careful, Good, ConnectTimesOut \/ RunsRefused PROVE Good'
<1> DEFINE intx == in_transaction
<1>1. /\ strand # <<>> /\ First.kind # "query"
      /\ CallsBack(First.r, Rest, db_lock, intx)
      /\ UNCHANGED <<careful, owner, in_tx, job, lost, fault, prepared, link, tx, names, srv, order, db_lock>>
      /\ running' = running
  <2>1. CASE ConnectTimesOut
    <3>1. /\ strand # <<>> /\ First.kind = "connect" /\ OnError
          /\ CallsBack(First.r, Rest, db_lock', intx)
          /\ UNCHANGED <<careful, owner, in_tx, job, lost, fault, prepared, link, tx, names, srv, order>>
          /\ running' = Stopped(Locks, Locks')
      BY <2>1 DEF ConnectTimesOut, Runs, UNCHANGEDserver
    <3>2. \A l : ~Held(l)
      BY <3>1, ConnectFree DEF Good
    <3>3. db_lock = NoLock /\ db_lock' = NoLock
      BY <3>1, <3>2, ErrorLock DEF Held
    <3>4. running' = running
      BY <3>1, <3>2, NoneStopped
    <3> QED
      BY <3>1, <3>3, <3>4
  <2>2. CASE RunsRefused
    BY <2>2 DEF RunsRefused, Runs, sessionVars
  <2> QED
    BY <2>1, <2>2
<1> HIDE DEF intx
<1>2. /\ StrandOK(strand', op', calls', db_lock', order')
      /\ \A r \in 1..Len(calls') : calls'[r] \in {0, 1}
      /\ \A l : Held(l)' => Held(l)
  BY <1>1, BackOK
<1>3. \A c \in Conns : srv[c].st = "idle"
  BY <1>1, AllIdle DEF Good
<1>4. GBusy' /\ GEnded'
  BY <1>1, <1>3, IdleTrans
<1>5. GTrans'
  BY <1>1, <1>3, SameTrans DEF Good
<1>6. GWorks' /\ GJobs'
  BY <1>1, <1>2, SameWorks DEF Good, GJobs
<1> QED
  BY <1>1, <1>2, <1>4, <1>5, <1>6 DEF Good, Ascending

\* Me takes a connection that is its own or that nobody uses.
LEMMA TakenJobs ==
    ASSUME AInv, GJobs, NEW c \in Gettable(Me), owner' = [owner EXCEPT ![c] = Me],
           NEW n, running' = [running EXCEPT ![c] = n], job' = job
    PROVE  GJobs'
<1>1. c \in Conns /\ (owner[c] = Me \/ running[c] = 0)
  BY GettableFacts DEF AInv, CanBeStolen
<1> SUFFICES ASSUME NEW e \in Others, job[e] # None
             PROVE  owner'[job[e]] = e /\ running'[job[e]] # 0
  BY DEF GJobs
<1>2. job[e] \in Conns /\ owner[job[e]] = e /\ running[job[e]] # 0 /\ e # Me
  BY SessionAssumption DEF GJobs, AInv, ASessionTypes
<1>3. job[e] # c
  BY <1>1, <1>2
<1> QED
  BY <1>1, <1>2, <1>3 DEF AInv, ASessionTypes

\* A connect task fails.
LEMMA ConnectFailsGood ==
    ASSUME AInv, AInv', careful, Good, ConnectFails PROVE Good'
<1>1. /\ strand # <<>> /\ First.kind = "connect" /\ OnError /\ CallsBack(First.r, Rest, db_lock', FALSE)
      /\ UNCHANGED <<careful, link, tx, names, job, lost, fault, prepared, srv, order>>
  BY DEF ConnectFails, Runs, UNCHANGEDserver
<1>4. \A l : ~Held(l)
  BY <1>1, ConnectFree DEF Good
<1>2. PICK c \in Gettable(Me) :
          /\ link[c] = "down"
          /\ owner' = [owner EXCEPT ![c] = Me]
          /\ running' = [running EXCEPT ![c] = 2]
          /\ in_tx' = [in_tx EXCEPT ![c] = FALSE]
  BY <1>1, <1>4, NoneStopped DEF ConnectFails
<1>3. /\ StrandOK(strand', op', calls', db_lock', order')
      /\ \A r \in 1..Len(calls') : calls'[r] \in {0, 1}
      /\ \A l : Held(l)' => Held(l)
  BY <1>1, ErrorLock, BackOK
<1>5. GWorks'
  BY <1>3, <1>4 DEF Held, GWorks, Works
<1>6. GJobs'
  BY <1>1, <1>2, TakenJobs DEF Good
<1>7. \A d \in Conns : srv[d].st = "idle"
  BY <1>1, AllIdle DEF Good
<1>8. GBusy' /\ GEnded'
  BY <1>1, <1>7, IdleTrans
<1>9. GTrans'
  <2> SUFFICES ASSUME NEW d \in Conns, tx[d] # "none"
               PROVE  owner'[d] = Me /\ link[d] = "up" /\ in_tx'[d]
    BY <1>1 DEF GTrans
  <2>1. owner[d] = Me /\ link[d] = "up" /\ in_tx[d]
    BY <1>7 DEF Good, GTrans
  <2>2. d # c /\ c \in Conns
    BY <1>2, <2>1, GettableFacts DEF AInv
  <2> QED
    BY <1>2, <2>1, <2>2 DEF AInv, ASessionTypes
<1> QED
  BY <1>1, <1>3, <1>5, <1>6, <1>8, <1>9 DEF Good, Ascending

\* A connect task gets a connection: no other task holds a lock object then.
LEMMA ConnectsGood ==
    ASSUME AInv, AInv', Good, Connects PROVE Good'
<1> DEFINE r == First.r
<1>1. /\ strand # <<>> /\ First.kind = "connect"
      /\ UNCHANGED <<careful, job, lost, fault, op, calls, srv, order>>
  BY DEF Connects, Runs
<1>2. PICK c \in Gettable(Me) :
          /\ strand' = Opened(r, First.ph, <<c, r>>, Rest)
          /\ db_lock' = OpenedLock(r, First.ph, <<c, r>>)
          /\ _connect(c, r, Locks') /\ Reopen(c)
  BY DEF Connects
<1>3. ATaskTypes /\ AHeld /\ ASessionTypes /\ AMine /\ StrandOK(strand, op, calls, db_lock, order)
  BY DEF AInv, Good
<1>4. c \in Conns /\ (owner[c] = Me \/ \A d \in Conns : owner[d] # Me)
  BY <1>3, GettableFacts
<1>5. r \in Nat
  BY <1>1, <1>3, Alone DEF ATaskTypes
<1> DEFINE lock == <<c, r>>
<1>6. lock \in Lock /\ lock # NoLock /\ lock[1] = c
  BY <1>4, <1>5, LockIsSome
<1>7. strand' = Opened(First.r, First.ph, lock, Rest) /\ db_lock' = OpenedLock(First.r, First.ph, lock)
  BY <1>2
<1>8. /\ owner' = [owner EXCEPT ![c] = Me]
      /\ running' = [running EXCEPT ![c] = IF lock \in Locks' THEN 1 ELSE 0]
  BY <1>2 DEF _connect
<1> HIDE DEF lock
<1>9. /\ StrandOK(strand', op, calls, db_lock', order)
      /\ db_lock' \in {NoLock, lock} /\ \A i \in 1..Len(strand') : strand'[i].lock \in {NoLock, lock}
  BY <1>1, <1>3, <1>6, <1>7, OpenedOK
<1>10. GWorks'
  <2>1. ASSUME NEW l, l # NoLock,
               l = db_lock' \/ \E i \in 1..Len(strand') : strand'[i].lock = l
        PROVE  owner'[l[1]] = Me /\ running'[l[1]] = 1
    <3>1. l = lock
      BY <1>9, <2>1
    <3>2. DOMAIN strand' = 1..Len(strand')
      BY DEF AInv, ATaskTypes
    <3>3. lock \in Locks'
      BY <2>1, <3>1, <3>2 DEF Locks, ToSet
    <3> QED
      BY <1>3, <1>4, <1>6, <1>8, <3>1, <3>3 DEF ASessionTypes
  <2>2. Works(db_lock)'
    BY <2>1 DEF Works
  <2>3. ASSUME NEW i \in 1..Len(strand') PROVE Works(strand[i].lock)'
    BY <2>1 DEF Works
  <2> QED
    BY <2>2, <2>3 DEF GWorks
<1>11. GJobs'
  BY <1>1, <1>8, TakenJobs DEF Good
<1>12. \A d \in Conns : srv[d].st = "idle"
  BY <1>1, AllIdle DEF Good
<1>13. GBusy' /\ GEnded'
  BY <1>1, <1>12, IdleTrans
<1>14. GTrans'
  <2>1. /\ link' = [link EXCEPT ![c] = "up"] /\ tx' = tx
        /\ in_tx' = [in_tx EXCEPT ![c] = @ /\ link[c] = "up"]
    BY <1>2 DEF Reopen
  <2> SUFFICES ASSUME NEW d \in Conns, tx[d] # "none"
               PROVE  owner'[d] = Me /\ link'[d] = "up" /\ in_tx'[d]
    BY <2>1 DEF GTrans
  <2>2. owner[d] = Me /\ link[d] = "up" /\ in_tx[d]
    BY <1>12 DEF Good, GTrans
  <2> QED
    BY <1>3, <1>4, <1>8, <2>1, <2>2 DEF ASessionTypes
<1> QED
  BY <1>1, <1>9, <1>10, <1>11, <1>13, <1>14 DEF Good, Ascending

\* A bound task moves on.
LEMMA RunsBoundGood ==
    ASSUME AInv, AInv', Good, RunsBound PROVE Good'
<1>1. /\ strand # <<>> /\ First.kind = "bound"
      /\ strand' = Opened(First.r, First.ph, First.lock, Rest)
      /\ db_lock' = OpenedLock(First.r, First.ph, First.lock)
      /\ UNCHANGED <<careful, owner, in_tx, job, lost, fault, op, calls, prepared,
                     link, tx, names, srv, order>>
      /\ running' = Stopped(Locks, Locks')
  BY DEF RunsBound, Runs, UNCHANGEDserver
<1>2. First.lock \in Lock
  BY <1>1, QueryConn DEF Good
<1>3. /\ StrandOK(strand', op, calls, db_lock', order)
      /\ db_lock' \in {NoLock, First.lock}
      /\ \A i \in 1..Len(strand') : strand'[i].lock \in {NoLock, First.lock}
  BY <1>1, <1>2, OpenedOK DEF AInv, Good
<1>4. Held(First.lock)
  <2>1. First = strand[1] /\ 1 \in 1..Len(strand)
    BY <1>1, RestKeeps DEF AInv
  <2>2. First.lock # NoLock
    BY <1>2, LockIsSome
  <2> QED
    BY <2>1, <2>2 DEF Held
<1> HIDE DEF First
<1>5. \A l : Held(l)' => Held(l)
  BY <1>3, <1>4 DEF Held
<1>6. GWorks' /\ GJobs'
  BY <1>1, <1>5, StopsMine DEF Good, StrandOK
<1>7. \A d \in Conns : srv[d].st = "idle"
  BY <1>1, AllIdle DEF Good
<1>8. GBusy' /\ GEnded'
  BY <1>1, <1>7, IdleTrans
<1>9. GTrans'
  BY <1>1, <1>7, SameTrans DEF Good
<1> QED
  BY <1>1, <1>3, <1>6, <1>8, <1>9 DEF Good, Ascending

\* A query is sent.
LEMMA SendsGood ==
    ASSUME AInv, AInv', Good, Sends PROVE Good'
<1>1. /\ strand # <<>> /\ First.kind = "query" /\ ~First.sent /\ _conn # None /\ link[_conn] = "up"
      /\ srv' = [srv EXCEPT ![_conn] = [st |-> "busy", r |-> First.r, n |-> 0]]
      /\ UNCHANGED <<careful, sessionVars, op, calls, db_lock, prepared>>
  BY DEF Sends, Runs
<1>2. StrandOK(strand', op, calls, db_lock, order') /\ Ascending'
  BY SendOK DEF AInv, Good
<1>3. /\ strand' # <<>> /\ First' = strand'[1] /\ First = strand[1] /\ Len(strand') = Len(strand)
      /\ strand'[1].kind = First.kind /\ strand'[1].lock = First.lock
      /\ strand'[1].r = First.r /\ strand'[1].sent = TRUE
      /\ \A j \in 1..Len(strand) : j # 1 => strand'[j] = strand[j]
  BY SendsFacts DEF AInv
<1>4. \A d \in Conns : srv[d].st = "idle"
  BY <1>1, AllIdle DEF Good
<1>5. _conn \in Conns /\ owner[_conn] = Me
  BY <1>1, MyConn DEF AInv
<1>6. /\ srv'[_conn].st = "busy" /\ srv'[_conn].r = First.r
      /\ \A d \in Conns : d # _conn => srv'[d].st = "idle"
  BY <1>1, <1>4, <1>5 DEF AInv, ATaskTypes
<1>7. GBusy'
  BY <1>1, <1>3, <1>5, <1>6 DEF GBusy, sessionVars
<1>8. GTrans' /\ GEnded'
  <2>1. \A d \in Conns : srv'[d].st \notin {"ok", "error"}
    BY <1>6
  <2> QED
    BY <1>1, <1>4, <2>1 DEF Good, GTrans, GEnded, sessionVars
<1>9. GWorks'
  <2>1. \A j \in 1..Len(strand) : strand'[j].lock = strand[j].lock
    BY <1>3
  <2> QED
    BY <1>1, <1>3, <2>1 DEF Good, GWorks, Works, sessionVars
<1> QED
  BY <1>1, <1>2, <1>7, <1>8, <1>9 DEF Good, GJobs, sessionVars

\* A result is read: nothing is left on any link.
LEMMA ReadIdle ==
    ASSUME AInv, Good, strand # <<>>, First.kind = "query", srv' = [srv EXCEPT ![_conn] = Idle]
    PROVE  /\ \A d \in Conns : srv'[d].st = "idle"
           /\ \A d \in Conns : srv[d].st # "idle" => d = _conn /\ srv[d].r = First.r
           /\ _conn \in Conns
<1>1. _conn \in Conns
  BY QueryConn DEF Good
<1>2. ASSUME NEW d \in Conns, srv[d].st # "idle" PROVE d = _conn /\ srv[d].r = First.r
  BY <1>2, MyConn DEF Good, GBusy, AInv
<1>3. Idle.st = "idle"
  BY DEF Idle
<1> QED
  BY <1>1, <1>2, <1>3 DEF AInv, ATaskTypes

\* A result is read: is_in_transaction follows the server.
LEMMA CompletedGood ==
    ASSUME AInv, AInv', careful, Good, Completed PROVE Good'
<1>1. /\ strand # <<>> /\ First.kind = "query"
      /\ srv[_conn].st \in {"ok", "error"} /\ srv' = [srv EXCEPT ![_conn] = Idle]
      /\ UNCHANGED <<careful, owner, link, tx, names, job, lost, fault, order>>
      /\ running' = Stopped(Locks, Locks')
  BY DEF Completed, Runs
<1>2. IF srv[_conn].st = "ok" THEN Completes_Ok(First.r) ELSE Completes_Error(First.r)
  BY DEF Completed
<1>3. PICK intx : \E lock \in {db_lock, db_lock'} : CallsBack(First.r, Rest, lock, intx)
  BY <1>2 DEF Completes_Ok, Completes_Error
<1>4. db_lock' = db_lock \/ (db_lock' = NoLock /\ op[First.r] \notin AtBack)
  BY <1>2, ErrorLock DEF Completes_Ok, Completes_Error, AtBack
<1>5. prepared \subseteq prepared'
  BY <1>2 DEF Completes_Ok, Completes_Error
<1>6. /\ StrandOK(strand', op', calls', db_lock', order')
      /\ \A r \in 1..Len(calls') : calls'[r] \in {0, 1}
      /\ \A l : Held(l)' => Held(l)
  BY <1>1, <1>3, <1>4, BackOK
<1>7. GWorks' /\ GJobs'
  BY <1>1, <1>5, <1>6, StopsMine DEF Good, StrandOK
<1>8. /\ \A d \in Conns : srv'[d].st = "idle"
      /\ \A d \in Conns : srv[d].st # "idle" => d = _conn /\ srv[d].r = First.r
      /\ _conn \in Conns
  BY <1>1, ReadIdle
<1>9. GBusy' /\ GEnded'
  BY <1>8, IdleTrans
<1>10. srv[_conn].r = First.r
  BY <1>1, <1>8
<1>11. GTrans'
  <2> SUFFICES ASSUME NEW d \in Conns, tx[d] # "none"
               PROVE  owner[d] = Me /\ link[d] = "up" /\ in_tx'[d]
    BY <1>1 DEF GTrans
  <2>1. /\ owner[d] = Me /\ link[d] = "up" /\ d = _conn
        /\ in_tx[d] \/ (srv[d].st = "ok" /\ op[srv[d].r] = "begin")
    BY MyConn DEF Good, GTrans, AInv
  <2>2. op[First.r] \notin {"commit", "rollback"}
    BY <1>1, <1>8, <1>10, <2>1 DEF Good, GEnded
  <2>3. in_tx \in [Conns -> BOOLEAN]
    BY DEF AInv, ASessionTypes
  <2>4. CASE srv[_conn].st = "ok"
    <3>1. in_tx' = IF op[First.r] = "begin" THEN [in_tx EXCEPT ![_conn] = TRUE] ELSE in_tx
      BY <1>2, <2>2, <2>4 DEF Completes_Ok
    <3> QED
      BY <1>8, <1>10, <2>1, <2>3, <3>1
  <2>5. CASE srv[_conn].st # "ok"
    <3>1. in_tx' = in_tx
      BY <1>2, <2>5 DEF Completes_Error
    <3> QED
      BY <2>1, <2>5, <3>1
  <2> QED
    BY <2>1, <2>4, <2>5
<1> QED
  BY <1>1, <1>6, <1>7, <1>9, <1>11 DEF Good, Ascending

\* A reader comes to its end.
LEMMA ReaderEndsGood ==
    ASSUME AInv, AInv', careful, Good, ReaderEnds PROVE Good'
<1> DEFINE intx == in_transaction
<1>1. /\ strand # <<>> /\ First.kind = "query" /\ op[First.r] = "reader"
      /\ CallsBack(First.r, Rest, db_lock, intx)
      /\ srv' = [srv EXCEPT ![_conn] = Idle]
      /\ UNCHANGED <<careful, owner, in_tx, link, tx, names, job, lost, fault, db_lock, prepared, order>>
      /\ running' = Stopped(Locks, Locks')
  BY DEF ReaderEnds, Runs
<1> HIDE DEF intx
<1>2. /\ StrandOK(strand', op', calls', db_lock', order')
      /\ \A r \in 1..Len(calls') : calls'[r] \in {0, 1}
      /\ \A l : Held(l)' => Held(l)
  BY <1>1, BackOK
<1>3. GWorks' /\ GJobs'
  BY <1>1, <1>2, StopsMine DEF Good, StrandOK
<1>4. /\ \A d \in Conns : srv'[d].st = "idle"
      /\ \A d \in Conns : srv[d].st # "idle" => srv[d].r = First.r
  BY <1>1, ReadIdle
<1>5. GBusy' /\ GEnded'
  BY <1>4, IdleTrans
<1>6. GTrans'
  BY <1>1, <1>4 DEF Good, GTrans
<1> QED
  BY <1>1, <1>2, <1>3, <1>5, <1>6 DEF Good, Ascending

\* A reader reads a row.
LEMMA ReaderRowGood ==
    ASSUME AInv, Good, ReaderRow PROVE Good'
<1>1. PICK left : srv' = [srv EXCEPT ![_conn].n = left]
  BY DEF ReaderRow
<1>2. UNCHANGED <<careful, sessionVars, op, calls, strand, db_lock, prepared, order>>
  BY DEF ReaderRow
<1>3. ASSUME NEW d \in Conns PROVE srv'[d].st = srv[d].st /\ srv'[d].r = srv[d].r
  <2>1. srv[d] \in Commands(Len(op)) /\ srv \in [Conns -> Commands(Len(op))]
    BY DEF AInv, ATaskTypes
  <2>2. srv'[d] = IF d = _conn THEN [srv[d] EXCEPT !.n = left] ELSE srv[d]
    BY <1>1, <2>1
  <2> QED
    BY <2>1, <2>2 DEF Commands
<1>4. First' = First
  BY <1>2 DEF First
<1>5. GBusy'
  BY <1>2, <1>3, <1>4 DEF Good, GBusy, sessionVars
<1>6. GTrans' /\ GEnded'
  BY <1>2, <1>3 DEF Good, GTrans, GEnded, sessionVars
<1> QED
  BY <1>2, <1>5, <1>6 DEF Good, Ascending, GWorks, Works, GJobs, sessionVars

\* The prepared statements are destroyed while nothing waits.
LEMMA DropPreparedGood ==
    ASSUME AInv, careful, Good, DropPrepared PROVE Good'
<1>1. /\ Waiting = {} /\ db_lock = NoLock /\ \A l \in prepared : owner[l[1]] = Me
      /\ UNCHANGED <<careful, owner, in_tx, job, lost, fault, op, calls, strand, db_lock,
                     link, tx, names, srv, order>>
      /\ running' = Stopped(Locks, Locks')
  BY DEF DropPrepared, UNCHANGEDserver
<1>2. strand = <<>>
  <2> SUFFICES ASSUME strand # <<>> PROVE FALSE
    OBVIOUS
  <2>1. calls[First.r] = 0 /\ First.r \in 1..Len(op)
    BY Alone DEF AInv, Good
  <2>2. First.r \in DOMAIN calls
    BY <2>1 DEF AInv, ATaskTypes
  <2> QED
    BY <1>1, <2>1, <2>2 DEF Waiting
<1>3. GWorks'
  BY <1>1, <1>2 DEF GWorks, Works
<1>4. Locks \subseteq prepared
  BY <1>1, <1>2, LocksFacts
<1>5. GJobs'
  <2> SUFFICES ASSUME NEW e \in Others, job[e] # None
               PROVE  owner[job[e]] = e /\ running'[job[e]] # 0
    BY <1>1 DEF GJobs
  <2>1. job[e] \in Conns /\ owner[job[e]] = e /\ running[job[e]] # 0 /\ e # Me
    BY SessionAssumption DEF Good, GJobs, AInv, ASessionTypes
  <2>2. ASSUME NEW k \in Locks \ Locks' PROVE k[1] # job[e]
    BY <1>1, <1>4, <2>1
  <2>3. running'[job[e]] = running[job[e]]
    BY <1>1, <2>1, <2>2 DEF Stopped
  <2> QED
    BY <2>1, <2>3
<1>6. First' = First
  BY <1>1 DEF First
<1>7. GBusy'
  BY <1>1, <1>6 DEF Good, GBusy
<1>8. GTrans' /\ GEnded'
  BY <1>1 DEF Good, GTrans, GEnded
<1> QED
  BY <1>1, <1>3, <1>5, <1>7, <1>8 DEF Good, Ascending

\* The server answers the command of the first task.
LEMMA ServerAnswersGood ==
    ASSUME AInv, Good, NEW c \in Conns, ServerAnswers(c) PROVE Good'
<1> DEFINE o == op[srv[c].r]
<1>1. /\ srv[c].st = "busy"
      /\ UNCHANGED <<careful, owner, running, in_tx, link, job, lost, fault, op, calls, strand,
                     db_lock, prepared, order>>
  BY DEF ServerAnswers
<1>2. PICK ok \in BOOLEAN :
             /\ Answer(o, c, ok)
             /\ srv'[c].r = srv[c].r /\ srv'[c].st = (IF ok THEN "ok" ELSE "error")
             /\ \A d \in Conns : d # c => srv'[d] = srv[d]
  BY AnswerFacts
<1>3. First' = First
  BY <1>1 DEF First
<1>4. GBusy'
  BY <1>1, <1>2, <1>3 DEF Good, GBusy
<1>5. tx' = [tx EXCEPT ![c] = TxAfter(o, tx[c], ok)] /\ tx \in [Conns -> {"none", "open", "failed"}]
  BY <1>2 DEF Answer, AInv, ASessionTypes
<1>6. tx[c] # "none" => in_tx[c]
  BY <1>1 DEF Good, GTrans
<1>7. owner[c] = Me /\ link[c] = "up"
  BY <1>1 DEF Good, GBusy
<1>8. tx'[c] # "none" => in_tx[c] \/ (ok /\ o = "begin")
  BY <1>2, <1>5, <1>6 DEF TxAfter
<1>9. GTrans'
  <2> SUFFICES ASSUME NEW d \in Conns, tx'[d] # "none"
               PROVE  /\ owner[d] = Me /\ link[d] = "up"
                      /\ in_tx[d] \/ (srv'[d].st = "ok" /\ op[srv'[d].r] = "begin")
    BY <1>1 DEF GTrans
  <2>1. CASE d = c
    BY <1>2, <1>7, <1>8, <2>1
  <2>2. CASE d # c
    BY <1>2, <1>5, <2>2 DEF Good, GTrans
  <2> QED
    BY <2>1, <2>2
<1>10. GEnded'
  <2> SUFFICES ASSUME NEW d \in Conns, srv'[d].st \in {"ok", "error"},
                      op[srv'[d].r] \in {"commit", "rollback"}
               PROVE  tx'[d] = "none"
    BY <1>1 DEF GEnded
  <2>1. CASE d = c
    BY <1>2, <1>5, <2>1 DEF TxAfter
  <2>2. CASE d # c
    BY <1>2, <1>5, <2>2 DEF Good, GEnded
  <2> QED
    BY <2>1, <2>2
<1> QED
  BY <1>1, <1>4, <1>9, <1>10 DEF Good, Ascending, GWorks, Works, GJobs

\* The other databases cannot take what Me works on or has a transaction on.
LEMMA EnvironmentGood ==
    ASSUME AInv, Good, EnvironmentActs PROVE Good'
<1>1. /\ UNCHANGED <<careful, op, calls, strand, db_lock, prepared, order>>
      /\ srv' = [c \in Conns |-> IF link'[c] = "down" THEN Idle ELSE srv[c]]
  BY DEF EnvironmentActs
<1>2. ASSUME NEW d \in Conns, srv'[d].st # "idle" PROVE srv'[d] = srv[d]
  <2>1. Idle.st = "idle"
    BY DEF Idle
  <2> QED
    BY <1>1, <1>2, <2>1
<1>3. First' = First /\ AMine /\ ASessionTypes
  BY <1>1 DEF First, AInv
<1>4. ASSUME NEW c \in Conns, owner[c] # Me \/ (running[c] = 0 /\ ~in_tx[c])
      PROVE  srv[c].st = "idle" /\ tx[c] = "none" /\ \A l : Held(l) => l[1] # c
  <2>1. srv[c].st = "idle"
    <3> SUFFICES ASSUME srv[c].st # "idle" PROVE FALSE
      OBVIOUS
    <3>1. strand # <<>> /\ First.kind = "query" /\ owner[c] = Me
      BY DEF Good, GBusy
    <3>2. running[_conn] = 1 /\ _conn = c
      BY <1>3, <3>1, QueryConn, MyConn DEF Good
    <3> QED
      BY <1>4, <3>1, <3>2
  <2>2. tx[c] = "none"
    BY <1>4, <2>1 DEF Good, GTrans
  <2>3. \A l : Held(l) => l[1] # c
    BY <1>4, HeldFacts DEF Good, StrandOK
  <2> QED
    BY <2>1, <2>2, <2>3
<1>5. \A l : Held(l)' <=> Held(l)
  BY <1>1 DEF Held
<1>6. ASSUME NEW e \in Others, OtherStarts(e) PROVE Good'
  <2>1. PICK c \in Gettable(e) :
          /\ owner' = [owner EXCEPT ![c] = e]
          /\ running' = [running EXCEPT ![c] = 1]
          /\ job' = [job EXCEPT ![e] = c]
          /\ Reopen(c)
    BY <1>6 DEF OtherStarts
  <2>2. c \in Conns /\ e # Me /\ fault' = fault /\ job[e] = None /\ (owner[c] = e \/ CanBeStolen(c))
    BY <1>6, OthersFacts, SessionAssumption DEF OtherStarts
  <2>3. srv[c].st = "idle" /\ tx[c] = "none" /\ \A l : Held(l) => l[1] # c
    BY <1>4, <2>2 DEF CanBeStolen
  <2>4. /\ tx' = tx /\ \A d \in Conns : d # c => /\ owner'[d] = owner[d] /\ running'[d] = running[d]
                                                 /\ link'[d] = link[d] /\ in_tx'[d] = in_tx[d]
    BY <1>3, <2>1, <2>2 DEF ASessionTypes, Reopen
  <2>5. srv'[c].st = "idle"
    BY <1>2, <2>2, <2>3
  <2>6. GBusy'
    <3> SUFFICES ASSUME NEW d \in Conns, srv'[d].st # "idle"
                 PROVE  /\ strand # <<>> /\ First.kind = "query" /\ First.sent /\ First.r = srv'[d].r
                        /\ owner'[d] = Me /\ link'[d] = "up"
      BY <1>1, <1>3 DEF GBusy
    <3>1. d # c /\ srv'[d] = srv[d]
      BY <1>2, <2>5
    <3> QED
      BY <2>4, <3>1 DEF Good, GBusy
  <2>7. GTrans'
    <3> SUFFICES ASSUME NEW d \in Conns, tx[d] # "none"
                 PROVE  /\ owner'[d] = Me /\ link'[d] = "up"
                        /\ in_tx'[d] \/ (srv'[d].st = "ok" /\ op[srv'[d].r] = "begin")
      BY <1>1, <2>4 DEF GTrans
    <3>1. d # c /\ owner[d] = Me /\ link[d] = "up"
          /\ (in_tx[d] \/ (srv[d].st = "ok" /\ op[srv[d].r] = "begin"))
      BY <2>3 DEF Good, GTrans
    <3>2. srv'[d] = srv[d]
      BY <1>1, <2>4, <3>1
    <3> QED
      BY <2>4, <3>1, <3>2
  <2>8. GEnded'
    BY <1>1, <1>2, <2>4 DEF Good, GEnded
  <2>9. GWorks'
    <3>1. ASSUME NEW l, Held(l) PROVE owner'[l[1]] = Me /\ running'[l[1]] = 1
      BY <2>3, <2>4, <3>1, HeldFacts DEF Good, StrandOK
    <3> QED
      BY <1>1, <3>1 DEF GWorks, Works, Held
  <2>10. GJobs'
    <3> SUFFICES ASSUME NEW x \in Others, job'[x] # None
                 PROVE  owner'[job'[x]] = x /\ running'[job'[x]] # 0
      BY DEF GJobs
    <3>1. CASE x = e
      BY <1>3, <2>1, <2>2, <3>1 DEF ASessionTypes
    <3>2. CASE x # e
      <4>1. job'[x] = job[x] /\ job[x] \in Conns /\ owner[job[x]] = x /\ running[job[x]] # 0
        BY <1>3, <2>1, <3>2 DEF ASessionTypes, Good, GJobs
      <4>2. job[x] # c
        BY <2>2, <3>2, <4>1 DEF CanBeStolen
      <4> QED
        BY <2>4, <4>1, <4>2
    <3> QED
      BY <3>1, <3>2
  <2> QED
    BY <1>1, <2>2, <2>6, <2>7, <2>8, <2>9, <2>10 DEF Good, Ascending
<1>7. ASSUME NEW e \in Others, OtherEnds(e) PROVE Good'
  <2>1. /\ job[e] # None /\ running' = [running EXCEPT ![job[e]] = 0]
        /\ job' = [job EXCEPT ![e] = None]
        /\ UNCHANGED <<owner, in_tx, link, tx, names, lost, fault>>
    BY <1>7 DEF OtherEnds
  <2>2. job[e] \in Conns /\ owner[job[e]] = e /\ e # Me
    BY <1>3, <2>1, SessionAssumption DEF ASessionTypes, Good, GJobs
  <2>3. GWorks'
    <3>1. ASSUME NEW l, Held(l) PROVE owner'[l[1]] = Me /\ running'[l[1]] = 1
      <4>1. l[1] \in Conns /\ owner[l[1]] = Me /\ running[l[1]] = 1
        BY <3>1, HeldFacts DEF Good, StrandOK
      <4> QED
        BY <1>3, <2>1, <2>2, <4>1 DEF ASessionTypes
    <3> QED
      BY <1>1, <3>1 DEF GWorks, Works, Held
  <2>4. GJobs'
    <3> SUFFICES ASSUME NEW x \in Others, job'[x] # None
                 PROVE  owner[job'[x]] = x /\ running'[job'[x]] # 0
      BY <2>1 DEF GJobs
    <3>1. x # e /\ job'[x] = job[x] /\ job[x] \in Conns
      BY <1>3, <2>1 DEF ASessionTypes
    <3>2. owner[job[x]] = x /\ running[job[x]] # 0
      BY <3>1 DEF Good, GJobs
    <3> QED
      BY <1>3, <2>1, <2>2, <3>1, <3>2 DEF ASessionTypes
  <2>5. ASSUME NEW d \in Conns, srv[d].st # "idle" PROVE srv'[d] = srv[d]
    BY <1>1, <2>1, <2>5 DEF Good, GBusy
  <2>6. GBusy' /\ GEnded'
    BY <1>1, <1>2, <1>3, <2>1 DEF Good, GBusy, GEnded
  <2>7. GTrans'
    BY <1>1, <2>1, <2>5 DEF Good, GTrans
  <2> QED
    BY <1>1, <2>1, <2>3, <2>4, <2>6, <2>7 DEF Good, Ascending
<1>8. ASSUME NEW c \in Conns, LinkLost(c) PROVE Good'
  <2>1. /\ link' = [link EXCEPT ![c] = "down"] /\ tx' = [tx EXCEPT ![c] = "none"]
        /\ UNCHANGED <<owner, running, in_tx, job, fault>>
    BY <1>8 DEF LinkLost
  <2>2. /\ link'[c] = "down" /\ tx'[c] = "none" /\ srv'[c] = Idle
        /\ \A d \in Conns : d # c => link'[d] = link[d] /\ tx'[d] = tx[d]
    BY <1>1, <1>3, <2>1 DEF ASessionTypes
  <2>3. ASSUME NEW d \in Conns, srv'[d].st # "idle" PROVE d # c /\ srv'[d] = srv[d]
    BY <1>2, <2>2, <2>3 DEF Idle
  <2>4. GBusy' /\ GEnded'
    BY <1>1, <1>3, <2>1, <2>2, <2>3 DEF Good, GBusy, GEnded
  <2>5. GTrans'
    <3> SUFFICES ASSUME NEW d \in Conns, tx'[d] # "none"
                 PROVE  /\ owner[d] = Me /\ link'[d] = "up"
                        /\ in_tx[d] \/ (srv'[d].st = "ok" /\ op[srv'[d].r] = "begin")
      BY <1>1, <2>1 DEF GTrans
    <3>1. d # c /\ tx[d] # "none" /\ link'[d] = link[d]
      BY <2>2
    <3>2. /\ owner[d] = Me /\ link[d] = "up"
          /\ in_tx[d] \/ (srv[d].st = "ok" /\ op[srv[d].r] = "begin")
      BY <3>1 DEF Good, GTrans
    <3>3. srv'[d] = srv[d]
      BY <1>1, <3>1, <3>2
    <3> QED
      BY <3>1, <3>2, <3>3
  <2> QED
    BY <1>1, <2>1, <2>4, <2>5 DEF Good, Ascending, GWorks, Works, GJobs
<1> QED
  BY <1>6, <1>7, <1>8 DEF EnvironmentActs, Environment

(***************************************************************************)
(* The strand of a careful program that has lost its link.                  *)
(***************************************************************************)
\* It ends there: nothing is sent any more and no transaction is left.
LEMMA StuckIsDead ==
    ASSUME AInv, Good, Stuck
    PROVE  Dead
<1>1. _conn \in Conns /\ _conn # None /\ owner[_conn] = Me
  BY QueryConn DEF Good, Stuck
<1>2. link[_conn] = "down"
  BY <1>1 DEF Stuck
<1>3. lost # {}
  BY <1>1, <1>2 DEF AInv, ALost
<1>4. ASSUME NEW c \in Conns PROVE tx[c] = "none" /\ srv[c].st = "idle"
  <2>1. owner[c] = Me => link[c] # "up"
    BY <1>2, MyConn DEF AInv
  <2> QED
    BY <2>1 DEF Good, GTrans, GBusy
<1> QED
  BY <1>3, <1>4 DEF Dead, Good

\* The first task stays where it is.
LEMMA FirstStays ==
    ASSUME ATaskTypes, strand # <<>>, strand' \in Seq(Tasks(Len(op'))), Len(strand) <= Len(strand'),
           \A i \in 1..Len(strand) : strand'[i] = strand[i]
    PROVE  strand' # <<>> /\ First' = First
<1>1. strand \in Seq(Tasks(Len(op))) /\ Len(strand) \in Nat \ {0} /\ First = strand[1]
  BY RestKeeps DEF ATaskTypes
<1>2. strand'[1] = First /\ Len(strand') \in Nat \ {0}
  BY <1>1
<1> QED
  BY <1>2 DEF First

\* A step that leaves the connections and the links alone.
LEMMA SameDead ==
    ASSUME Dead, UNCHANGED <<owner, link, tx, srv, order, lost>>,
           strand' # <<>>, First'.kind = First.kind
    PROVE  Dead'
<1>1. _conn' = _conn
  BY DEF _conn, ConnOf
<1>2. Stuck'
  BY <1>1 DEF Stuck, Dead
<1> QED
  BY <1>2 DEF Dead, Ascending

\* Every step leaves it so.
LEMMA DeadStep ==
    ASSUME AInv, AInv', Dead, Next
    PROVE  Dead'
<1>1. /\ strand # <<>> /\ First.kind = "query" /\ (_conn = None \/ link[_conn] = "down")
      /\ \A c \in Conns : tx[c] = "none" /\ srv[c].st = "idle"
  BY DEF Dead, Stuck
<1>2. ATaskTypes /\ ATaskTypes' /\ ASessionTypes /\ AMine /\ AHeld /\ AKeeps
  BY DEF AInv
<1>3. ASSUME NEW o \in Ops, Call(o) PROVE Dead'
  <2> DEFINE w == Waiting
             intx == in_transaction
  <2>1. /\ Pushes(calls, w, strand, db_lock, intx)
        /\ UNCHANGED <<careful, sessionVars, db_lock, prepared, srv, order>>
    BY <1>3 DEF Call, Pushes
  <2> HIDE DEF w, intx
  <2>2. /\ Len(strand) <= Len(strand') /\ \A i \in 1..Len(strand) : strand'[i] = strand[i]
        /\ strand' \in Seq(Tasks(Len(op')))
    BY <1>2, <2>1, PushFacts DEF ATaskTypes
  <2>3. strand' # <<>> /\ First' = First
    BY <1>1, <1>2, <2>2, FirstStays
  <2> QED
    BY <2>1, <2>3, SameDead DEF sessionVars
<1>4. ASSUME NEW r, TimePasses(r) PROVE Dead'
  <2>1. strand' # <<>> /\ First'.kind = First.kind
    <3>1. /\ Len(strand) \in Nat /\ strand # <<>> /\ strand' # <<>> /\ First' = strand'[1] /\ First = strand[1]
          /\ \A j \in 1..Len(strand) : strand'[j].kind = strand[j].kind
      BY <1>2, <1>4, LateFacts
    <3>2. 1 \in 1..Len(strand)
      BY <1>1, <1>2, RestKeeps
    <3> QED
      BY <3>1, <3>2
  <2> QED
    BY <1>4, <2>1, SameDead DEF TimePasses, sessionVars
<1>5. ASSUME TaskThrows PROVE Dead'
  <2> DEFINE intx == in_transaction
             lock == db_lock'
  <2>1. CallsBack(First.r, strand, lock, intx) /\ UNCHANGED <<owner, link, tx, srv, order, lost>>
    BY <1>5 DEF TaskThrows, run_task_fails, UNCHANGEDserver
  <2>2. First.r \in 1..Len(op) /\ strand \in Seq(Tasks(Len(op))) /\ lock \in Lock \cup {NoLock}
        /\ calls \in Seq({0, 1, 2}) /\ Len(calls) = Len(op)
    BY <1>1, <1>2, RestKeeps DEF Tasks, ATaskTypes
  <2> HIDE DEF intx, lock
  <2>3. Pushes(Done(First.r), Waiting \ {First.r}, strand, lock, intx)
    BY <1>2, <2>1, <2>2, CallsBackPushes
  <2>4. Done(First.r) \in Seq({0, 1, 2}) /\ Len(Done(First.r)) = Len(op)
    BY <2>2 DEF Done
  <2> HIDE DEF First
  <2>5. /\ Len(strand) <= Len(strand') /\ \A i \in 1..Len(strand) : strand'[i] = strand[i]
        /\ strand' \in Seq(Tasks(Len(op')))
    BY <1>2, <2>2, <2>3, <2>4, PushFacts
  <2>6. strand' # <<>> /\ First' = First
    BY <1>1, <1>2, <2>5, FirstStays
  <2> QED
    BY <2>1, <2>6, SameDead
<1>6. ASSUME DerefNull PROVE Dead'
  <2>1. strand' # <<>> /\ First' = First
    BY <1>1, <1>6 DEF DerefNull, asyncVars, First
  <2> QED
    BY <1>6, <2>1, SameDead DEF DerefNull, asyncVars
<1>7. ASSUME DropPrepared PROVE Dead'
  <2>1. strand' # <<>> /\ First' = First
    BY <1>1, <1>7 DEF DropPrepared, First
  <2> QED
    BY <1>7, <2>1, SameDead DEF DropPrepared, UNCHANGEDserver
<1>8. ASSUME RunsStrand PROVE Dead'
  <2>1. ~ConnectTimesOut /\ ~Connects /\ ~ConnectFails /\ ~RunsBound /\ ~RunsRefused
    BY <1>1 DEF ConnectTimesOut, Connects, ConnectFails, RunsBound, RunsRefused, Runs
  <2>2. ~Sends /\ ~Completed /\ ~ReaderRow /\ ~ReaderEnds
    BY <1>1 DEF Sends, Completed, ReaderRow, ReaderEnds
  <2> QED
    BY <1>5, <1>6, <1>8, <2>1, <2>2 DEF RunsStrand
<1>9. ASSUME NEW c \in Conns, ServerAnswers(c) PROVE Dead'
  BY <1>1, <1>9 DEF ServerAnswers
<1>10. ASSUME EnvironmentActs PROVE Dead'
  <2>1. /\ UNCHANGED <<strand, order>>
        /\ srv' = [c \in Conns |-> IF link'[c] = "down" THEN Idle ELSE srv[c]]
    BY <1>10 DEF EnvironmentActs
  <2>2. \A c \in Conns : srv'[c].st = "idle"
    BY <1>1, <2>1 DEF Idle
  <2>3. First' = First /\ Ascending'
    BY <2>1 DEF First, Dead, Ascending
  <2>4. AMine'
    BY DEF AInv
  <2>5. ASSUME NEW c \in Conns, owner'[c] = Me, owner[c] = Me,
               \A d \in Conns : owner'[d] = Me => owner[d] = Me, link'[c] = "down"
        PROVE  _conn' = c /\ link'[_conn'] = "down"
    BY <2>4, <2>5 DEF AMine, _conn, ConnOf
  <2>6. ASSUME \A d \in Conns : owner'[d] # Me PROVE _conn' = None
    BY <2>6 DEF _conn, ConnOf
  <2>7. ASSUME NEW e \in Others, OtherStarts(e) PROVE Dead'
    <3>1. PICK c \in Gettable(e) : owner' = [owner EXCEPT ![c] = e] /\ Reopen(c)
      BY <2>7 DEF OtherStarts
    <3>2. c \in Conns /\ e # Me /\ lost' = lost
      BY <2>7, OthersFacts, SessionAssumption DEF OtherStarts
    <3>3. /\ owner'[c] = e /\ tx' = tx
          /\ \A d \in Conns : d # c => owner'[d] = owner[d] /\ link'[d] = link[d]
      BY <1>2, <3>1, <3>2 DEF ASessionTypes, Reopen
    <3>4. _conn' = None \/ link'[_conn'] = "down"
      <4>1. CASE \A d \in Conns : owner'[d] # Me
        BY <2>6, <4>1
      <4>2. ASSUME NEW d \in Conns, owner'[d] = Me PROVE link'[_conn'] = "down"
        <5>1. d # c /\ owner[d] = Me /\ link'[d] = link[d]
          BY <3>2, <3>3, <4>2
        <5>2. _conn = d /\ d # None
          BY <1>2, <5>1, MyConn, SessionAssumption
        <5>3. _conn' = d
          BY <2>4, <4>2 DEF AMine, _conn, ConnOf
        <5> QED
          BY <1>1, <5>1, <5>2, <5>3
      <4> QED
        BY <4>1, <4>2
    <3> QED
      BY <1>1, <2>1, <2>2, <2>3, <3>2, <3>3, <3>4 DEF Dead, Stuck
  <2>8. ASSUME NEW e \in Others, OtherEnds(e) PROVE Dead'
    <3>1. UNCHANGED <<owner, link, tx, lost>>
      BY <2>8 DEF OtherEnds
    <3>2. _conn' = _conn
      BY <3>1 DEF _conn, ConnOf
    <3> QED
      BY <1>1, <2>1, <2>2, <2>3, <3>1, <3>2 DEF Dead, Stuck
  <2>9. ASSUME NEW c \in Conns, LinkLost(c) PROVE Dead'
    <3>1. /\ owner' = owner /\ link' = [link EXCEPT ![c] = "down"] /\ tx' = [tx EXCEPT ![c] = "none"]
          /\ lost' = lost \cup {c}
      BY <2>9 DEF LinkLost
    <3>2. _conn' = _conn
      BY <3>1 DEF _conn, ConnOf
    <3>3. _conn' = None \/ link'[_conn'] = "down"
      <4>1. CASE _conn = None
        BY <3>2, <4>1
      <4>2. CASE _conn # None
        BY <1>1, <1>2, <3>1, <3>2, <4>2, MyConn DEF ASessionTypes
      <4> QED
        BY <4>1, <4>2
    <3>4. \A d \in Conns : tx'[d] = "none"
      BY <1>1, <1>2, <3>1 DEF ASessionTypes
    <3> QED
      BY <1>1, <2>1, <2>2, <2>3, <3>1, <3>3, <3>4 DEF Dead, Stuck
  <2> QED
    BY <1>10, <2>7, <2>8, <2>9 DEF EnvironmentActs, Environment
<1> QED
  BY <1>3, <1>4, <1>7, <1>8, <1>9, <1>10 DEF Next, EnvironmentActs

(***************************************************************************)
(* The theorems.                                                            *)
(***************************************************************************)
\* Links are left idle or not at all.
LEMMA IdleStep == AInv /\ AIdle /\ [Next]_vars => AIdle'
<1> SUFFICES ASSUME AInv, AIdle, [Next]_vars PROVE AIdle'
  OBVIOUS
<1>1. srv \in [Conns -> Commands(Len(op))]
  BY DEF AInv, ATaskTypes
<1>2. CASE srv' = srv
  BY <1>2 DEF AIdle
<1>3. ASSUME Sends PROVE AIdle'
  <2> DEFINE x == [st |-> "busy", r |-> First.r, n |-> 0]
  <2>1. srv' = [srv EXCEPT ![_conn] = x] /\ x.st = "busy"
    BY <1>3 DEF Sends
  <2> HIDE DEF x
  <2> QED
    BY <1>1, <2>1 DEF AIdle
<1>4. ASSUME Completed \/ ReaderEnds PROVE AIdle'
  <2>1. srv' = [srv EXCEPT ![_conn] = Idle]
    BY <1>4 DEF Completed, ReaderEnds
  <2> QED
    BY <1>1, <2>1 DEF AIdle
<1>5. ASSUME ReaderRow PROVE AIdle'
  <2>1. PICK left : srv' = [srv EXCEPT ![_conn].n = left]
    BY <1>5 DEF ReaderRow
  <2>2. srv[_conn].st = "ok"
    BY <1>5 DEF ReaderRow
  <2>3. ASSUME NEW d \in Conns, srv'[d].st = "idle" PROVE srv'[d] = Idle
    <3>1. srv'[d] = IF d = _conn THEN [srv[d] EXCEPT !.n = left] ELSE srv[d]
      BY <1>1, <2>1
    <3>2. [srv[d] EXCEPT !.n = left].st = srv[d].st
      BY <1>1 DEF Commands
    <3> QED
      BY <2>2, <2>3, <3>1, <3>2 DEF AIdle
  <2> QED
    BY <2>3 DEF AIdle
<1>6. ASSUME NEW c \in Conns, ServerAnswers(c) PROVE AIdle'
  <2>1. srv'[c].st # "idle" /\ \A d \in Conns : d # c => srv'[d] = srv[d]
    BY <1>6, AnswerFacts
  <2> QED
    BY <2>1 DEF AIdle
<1>7. ASSUME EnvironmentActs PROVE AIdle'
  BY <1>7 DEF EnvironmentActs, AIdle
<1>8. ASSUME RunsStrand PROVE AIdle'
  <2>1. CASE ConnectTimesOut \/ Connects \/ ConnectFails \/ RunsBound \/ RunsRefused
    BY <1>2, <2>1 DEF ConnectTimesOut, Connects, ConnectFails, RunsBound, RunsRefused, UNCHANGEDserver
  <2>2. CASE DerefNull \/ TaskThrows
    BY <1>2, <2>2 DEF DerefNull, TaskThrows, UNCHANGEDserver, asyncVars
  <2> QED
    BY <1>3, <1>4, <1>5, <1>8, <2>1, <2>2 DEF RunsStrand
<1>9. CASE UNCHANGED vars
  BY <1>2, <1>9 DEF vars, asyncVars
<1>10. CASE \E o \in Ops : Call(o)
  BY <1>2, <1>10 DEF Call
<1>11. CASE \E r \in DOMAIN op : TimePasses(r)
  BY <1>2, <1>11 DEF TimePasses
<1>12. CASE DropPrepared
  BY <1>2, <1>12 DEF DropPrepared, UNCHANGEDserver
<1> QED
  BY <1>6, <1>7, <1>8, <1>9, <1>10, <1>11, <1>12 DEF Next, EnvironmentActs

\* A careful program whose strand is not stuck keeps its strand in order.
LEMMA GoodStep ==
    ASSUME AInv, AIdle, AInv', careful, Good, ~Stuck, Next
    PROVE  Good'
<1>1. CASE RunsStrand
  <2>1. CASE TaskThrows
    <3>1. /\ strand # <<>> /\ First.kind = "query" /\ _conn # None
          /\ IF First.sent THEN link[_conn] = "down" ELSE link[_conn] = "down" \/ srv[_conn] # Idle
      BY <2>1 DEF TaskThrows, Runs
    <3>2. link[_conn] # "down"
      BY <3>1 DEF Stuck
    <3>3. _conn \in Conns /\ srv[_conn].st = "idle" /\ ~First.sent
      BY <3>1, <3>2, AllIdle, MyConn DEF Good, AInv
    <3>4. srv[_conn] = Idle
      BY <3>3 DEF AIdle
    <3> QED
      BY <3>1, <3>2, <3>3, <3>4
  <2>2. ~DerefNull
    BY DEF DerefNull, Runs, Stuck
  <2> QED
    BY <1>1, <2>1, <2>2, NoConnectionGood, ConnectsGood, ConnectFailsGood, RunsBoundGood, SendsGood,
       CompletedGood, ReaderRowGood, ReaderEndsGood DEF RunsStrand
<1>2. CASE \E o \in Ops : Call(o)
  BY <1>2, CallGood
<1>3. CASE \E r \in DOMAIN op : TimePasses(r)
  BY <1>3, TimePassesGood
<1>4. CASE \E c \in Conns : ServerAnswers(c)
  BY <1>4, ServerAnswersGood
<1> QED
  BY <1>1, <1>2, <1>3, <1>4, DropPreparedGood, EnvironmentGood DEF Next, EnvironmentActs

\* The careful program's invariant holds at first.
LEMMA CInit == Init => AIdle /\ CInv
<1> SUFFICES ASSUME Init PROVE AIdle /\ CInv
  OBVIOUS
<1>1. /\ op = <<>> /\ calls = <<>> /\ strand = <<>> /\ db_lock = NoLock /\ order = <<>>
      /\ srv = [c \in Conns |-> Idle] /\ Idle.st = "idle" /\ fault = "none"
      /\ tx = [c \in Conns |-> "none"] /\ job = [e \in Others |-> None]
  BY DEF Init, SessionInit, Idle
<1>2. AIdle
  BY <1>1 DEF AIdle
<1>3. StrandOK(strand, op, calls, db_lock, order)
  BY <1>1 DEF StrandOK, Alike, OneLock
<1>4. Ascending /\ GWorks /\ GBusy /\ GJobs /\ GTrans /\ GEnded
  BY <1>1 DEF Ascending, GWorks, Works, GBusy, GJobs, GTrans, GEnded
<1>5. \A r \in 1..Len(calls) : calls[r] \in {0, 1}
  BY <1>1
<1> QED
  BY <1>1, <1>2, <1>3, <1>4, <1>5 DEF CInv, Good

\* It is preserved: by order until a link is lost under a query, by standstill afterwards.
LEMMA CStep == AInv /\ AIdle /\ CInv /\ [Next]_vars => CInv'
<1> SUFFICES ASSUME AInv, AIdle, CInv, [Next]_vars PROVE CInv'
  OBVIOUS
<1>1. AInv'
  BY AStep
<1>2. CASE UNCHANGED vars
  <2>1. UNCHANGED <<owner, running, in_tx, link, tx, job, lost, fault, careful, op, calls, strand,
                    db_lock, srv, order>>
    BY <1>2 DEF vars, sessionVars, asyncVars
  <2>2. First' = First /\ _conn' = _conn
    BY <2>1 DEF First, _conn, ConnOf
  <2>3. Good => Good'
    BY <2>1, <2>2 DEF Good, Ascending, GWorks, Works, GBusy, GJobs, GTrans, GEnded
  <2>4. Dead => Dead'
    BY <2>1, <2>2 DEF Dead, Stuck, Ascending
  <2> QED
    BY <2>1, <2>3, <2>4 DEF CInv
<1>3. CASE Next
  <2>1. careful' = careful
    <3>1. ASSUME RunsStrand PROVE careful' = careful
      <4>1. CASE ConnectTimesOut \/ Connects \/ ConnectFails \/ RunsBound \/ RunsRefused
        BY <4>1 DEF ConnectTimesOut, Connects, ConnectFails, RunsBound, RunsRefused
      <4>2. CASE DerefNull \/ Sends \/ TaskThrows
        BY <4>2 DEF DerefNull, Sends, TaskThrows, asyncVars
      <4>3. CASE Completed \/ ReaderRow \/ ReaderEnds
        BY <4>3 DEF Completed, ReaderRow, ReaderEnds
      <4> QED
        BY <3>1, <4>1, <4>2, <4>3 DEF RunsStrand
    <3> QED
      BY <1>3, <3>1 DEF Next, Call, TimePasses, DropPrepared, ServerAnswers
  <2>2. CASE careful /\ Good /\ ~Stuck
    BY <1>1, <1>3, <2>2, GoodStep DEF CInv
  <2>3. CASE careful /\ Good /\ Stuck
    BY <1>1, <1>3, <2>3, StuckIsDead, DeadStep DEF CInv
  <2>4. CASE careful /\ Dead
    BY <1>1, <1>3, <2>4, DeadStep DEF CInv
  <2> QED
    BY <2>1, <2>2, <2>3, <2>4 DEF CInv
<1> QED
  BY <1>2, <1>3

\* The three invariants together are inductive.
LEMMA CInvariant == Spec => [](AInv /\ AIdle /\ CInv)
<1>1. AInv /\ AIdle /\ CInv /\ [Next]_vars => (AInv /\ AIdle /\ CInv)'
  BY AStep, IdleStep, CStep
<1>2. Init => AInv /\ AIdle /\ CInv
  BY AInit, CInit
<1> QED
  BY <1>1, <1>2, PTL DEF Spec

\* run_task and the callbacks: over links that hold, no call of a careful
\* program is called back twice.
THEOREM CalledOnceThm == Spec => []CalledOnce
<1>1. AInv /\ CInv => CalledOnce
  <2> SUFFICES ASSUME AInv, CInv, Regular, NEW r \in DOMAIN calls PROVE calls[r] <= 1
    BY DEF CalledOnce
  <2>1. Good
    BY DEF Regular, CInv, Dead
  <2>2. r \in 1..Len(calls)
    BY DEF AInv, ATaskTypes
  <2> QED
    BY <2>1, <2>2 DEF Good
<1> QED
  BY <1>1, CInvariant, PTL

\* connection_task_t::conn: over links that hold, the task that runs finds
\* the _conn that its lock object keeps.
THEOREM NoNullConnThm == Spec => []NoNullConn
<1>1. CInv => NoNullConn
  BY DEF CInv, NoNullConn, Regular, Good, Dead
<1> QED
  BY <1>1, CInvariant, PTL

\* The strand: the server gets a careful program's commands in the order of
\* the calls, even though execute and the like overtake at the front and
\* prepare and the like go round to the back.
THEOREM InOrderThm == Spec => []InOrder
<1>1. AInv /\ CInv => InOrder
  <2>1. AInv => DOMAIN order = 1..Len(order)
    BY DEF AInv, ATaskTypes
  <2> QED
    BY <2>1 DEF InOrder, CInv, Good, Dead, Ascending
<1> QED
  BY <1>1, CInvariant, PTL

\* begin, commit and rollback: while the server has a transaction, its connection
\* is Me's and cannot be stolen, also before BEGIN's answer is read and when
\* links are lost.
THEOREM TransactionGuardedThm == Spec => []TransactionGuarded
<1>1. AInv /\ CInv => TransactionGuarded
  <2> SUFFICES ASSUME AInv, CInv, careful, NEW c \in Conns, tx[c] # "none"
               PROVE  owner[c] = Me /\ ~CanBeStolen(c)
    BY DEF TransactionGuarded
  <2>1. Good
    BY DEF CInv, Dead
  <2>2. owner[c] = Me /\ (in_tx[c] \/ srv[c].st = "ok")
    BY <2>1 DEF Good, GTrans
  <2>3. CASE in_tx[c]
    BY <2>2, <2>3 DEF CanBeStolen
  <2>4. CASE srv[c].st = "ok"
    <3>1. strand # <<>> /\ First.kind = "query"
      BY <2>1, <2>4 DEF Good, GBusy
    <3>2. running[_conn] = 1 /\ _conn = c
      BY <2>1, <2>2, <3>1, QueryConn, MyConn DEF Good, AInv
    <3> QED
      BY <2>2, <3>2 DEF CanBeStolen
  <2> QED
    BY <2>2, <2>3, <2>4
<1> QED
  BY <1>1, CInvariant, PTL
=============================================================================
