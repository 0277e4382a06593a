----------------------------- MODULE StealScan ------------------------------
(***************************************************************************)
(* The last part of connection_pool::_get_connection: the pool is full and *)
(* the caller, who holds conn_pool_mutex, looks for a connection to steal. *)
(* ConnectionPool takes this scan as one step; here every look at a        *)
(* connection is a step, and the threads that work on the connections      *)
(* finish in between (stop_work and the end of a transaction need no       *)
(* mutex; starting work does).                                             *)
(***************************************************************************)
EXTENDS ConnectionId, Sequences

CONSTANTS
    NumConns,     \* _max_conn: connections 0..NumConns-1 are in the pool
    TimeoutMs,    \* timeout_ms of the caller
    Workers,      \* bound: the connections whose threads start and stop work
    MaxWait       \* bound: the clock saturates there

ASSUME ScanAssumption ==
    /\ NumConns \in Nat \ {0}
    /\ TimeoutMs \in Nat /\ MaxWait \in Nat

SleepMs == 10     \* usleep(10000)
Conns == 0..(NumConns - 1)

VARIABLES
    busy,                 \* connections for which can_be_stolen is false
    last_stolen_conn_id,
    scons,                \* the connections in the order they are tried
    i,                    \* index of the loop over scons
    pc,                   \* "out" of the call, "scan", "stolen" or "thrown"
    now,                  \* system_clock, in ms since the call began
    timeout_date,         \* on the same scale
    idle_at_call          \* history: the connections idle when it began

vars == <<busy, last_stolen_conn_id, scons, i, pc, now, timeout_date, idle_at_call>>

Init ==
    /\ busy \in SUBSET Conns
    /\ last_stolen_conn_id = -1
    /\ scons = <<>>
    /\ i = 1
    /\ pc = "out"
    /\ now = 0 /\ timeout_date = 0
    /\ idle_at_call = {}

\* The members of S, pushed back one by one in the order of the pool.
InPoolOrder(S) ==
    LET upto[k \in 0..NumConns] ==
            IF k = 0 THEN <<>>
            ELSE IF k - 1 \in S THEN Append(upto[k - 1], k - 1) ELSE upto[k - 1]
    IN  upto[NumConns]

\* The connections above the last stolen one, then the others.
StealOrder ==
    LET above == {c \in Conns : IdGreater(c, last_stolen_conn_id)}
    IN  InPoolOrder(above) \o InPoolOrder(Conns \ above)

\* timeout_ms <= 0 means INT32_MAX; timeout_date is computed with a minus.
Call ==
    /\ pc = "out"
    /\ pc' = "scan"
    /\ scons' = StealOrder
    /\ i' = 1
    /\ now' = 0
    /\ timeout_date' = 0 - (IF TimeoutMs <= 0 THEN 2147483647 ELSE TimeoutMs)
    /\ idle_at_call' = Conns \ busy
    /\ UNCHANGED <<busy, last_stolen_conn_id>>

\* can_be_stolen: reassign the connection (reserve makes it busy).
StealIt ==
    /\ pc = "scan" /\ i <= Len(scons)
    /\ scons[i] \notin busy
    /\ busy' = busy \cup {scons[i]}
    /\ last_stolen_conn_id' = scons[i]
    /\ pc' = "stolen"
    /\ UNCHANGED <<scons, i, now, timeout_date, idle_at_call>>

Skip_TwoAtOnce ==
    /\ pc = "scan" /\ i <= Len(scons)
    /\ scons[i] \in busy
    /\ i' = IF i < Len(scons) THEN i + 2 ELSE i + 1
    /\ UNCHANGED <<busy, last_stolen_conn_id, scons, pc, now, timeout_date, idle_at_call>>

Skip ==
    /\ pc = "scan" /\ i <= Len(scons)
    /\ scons[i] \in busy
    /\ i' = i + 1
    /\ UNCHANGED <<busy, last_stolen_conn_id, scons, pc, now, timeout_date, idle_at_call>>

Tick == IF now + SleepMs > MaxWait THEN MaxWait ELSE now + SleepMs

SleepAndTest_Inverted ==
    /\ pc = "scan" /\ i > Len(scons)
    /\ now' = Tick
    /\ IF timeout_date < now'
       THEN pc' = "scan" /\ i' = 1
       ELSE pc' = "thrown" /\ UNCHANGED i
    /\ UNCHANGED <<busy, last_stolen_conn_id, scons, timeout_date, idle_at_call>>

\* The end of the do-while: sleep, then another round or the exception.
SleepAndTest ==
    /\ pc = "scan" /\ i > Len(scons)
    /\ now' = Tick
    /\ IF timeout_date > now'
       THEN pc' = "scan" /\ i' = 1
       ELSE pc' = "thrown" /\ UNCHANGED i
    /\ UNCHANGED <<busy, last_stolen_conn_id, scons, timeout_date, idle_at_call>>

\* The caller returns and frees the mutex.
Return ==
    /\ pc \in {"stolen", "thrown"}
    /\ pc' = "out"
    /\ UNCHANGED <<busy, last_stolen_conn_id, scons, i, now, timeout_date, idle_at_call>>

\* Another thread starts to work on its connection: only without the mutex.
StartWork(c) ==
    /\ pc = "out"
    /\ busy' = busy \cup {c}
    /\ UNCHANGED <<last_stolen_conn_id, scons, i, pc, now, timeout_date, idle_at_call>>

\* Another thread finishes: at any time.
StopWork(c) ==
    /\ c \in busy
    /\ pc = "stolen" => c # last_stolen_conn_id
    /\ busy' = busy \ {c}
    /\ UNCHANGED <<last_stolen_conn_id, scons, i, pc, now, timeout_date, idle_at_call>>

Caller == Call \/ StealIt \/ Skip \/ SleepAndTest \/ Return

Next == Caller \/ \E c \in Workers : StartWork(c) \/ StopWork(c)

\* The thread inside the call keeps running.
Spec == Init /\ [][Next]_vars /\ WF_vars(StealIt \/ Skip \/ SleepAndTest)

-----------------------------------------------------------------------------
(* Properties                                                              *)

\* The exception "max connection count reached" is thrown only when nothing
\* was idle: a connection idle since the call began is not missed by the
\* step-by-step scan, however the workers finish in the meantime.
ThrowsOnlyIfAllBusy == pc = "thrown" => idle_at_call = {}

\* The connection taken is the first idle one of scons: whatever comes before
\* it was busy when the call began, so the rotation is respected.
TakesFirstIdle ==
    pc = "stolen" =>
        \A k \in 1..(i - 1) : scons[k] \notin idle_at_call

\* The mutex is not held forever: the scan ends, even when no connection ever
\* becomes idle.
ScanEnds == (pc = "scan") ~> (pc \in {"stolen", "thrown"})

=============================================================================
