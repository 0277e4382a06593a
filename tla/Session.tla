------------------------------ MODULE Session ------------------------------
(***************************************************************************)
(* What one database_t, Me, sees of a full pool: connections that other     *)
(* databases take from it and give back, its lock objects, and the server's *)
(* side of each connection. Async and Statements add the operations of Me.  *)
(* A pool at its limit hands out connections by stealing only, and a stolen *)
(* connection knows its owner; ConnectionPool has the other ways, and the   *)
(* order of the search, for which any stealable connection stands here.     *)
(***************************************************************************)
EXTENDS Integers, Sequences, FiniteSets

CONSTANTS
    Conns,      \* the connections of the pool
    Others,     \* the other databases that use it
    Lossy,      \* bound: the connections whose link may be lost
    Me, None
ASSUME SessionAssumption == Me \notin Others /\ None \notin Conns \cup Others \cup {Me}

VARIABLES
    owner,      \* _owner: connection -> database whose _conn it is
    running,    \* _running: 0 idle, 1 working, 2 reserved
    in_tx,      \* is_in_transaction
    link,       \* the PGconn: "up" or "down"
    tx,         \* the server's transaction: "none", "open" or "failed"
    names,      \* the prepared statements of the server's session
    job,        \* other database -> the connection its query works on
    lost,       \* history: the connections whose link was ever lost
    fault       \* the undefined behaviour or termination that Me reached

sessionVars == <<owner, running, in_tx, link, tx, names, job, lost, fault>>

SessionInit ==
    /\ owner = [c \in Conns |-> None]
    /\ running = [c \in Conns |-> 0]
    /\ in_tx = [c \in Conns |-> FALSE]
    /\ link = [c \in Conns |-> "up"]
    /\ tx = [c \in Conns |-> "none"]
    /\ names = [c \in Conns |-> {}]
    /\ job = [e \in Others |-> None]
    /\ lost = {}
    /\ fault = "none"

\* The _conn of database d, which is NULL when d owns nothing.
ConnOf(d) == IF \E c \in Conns : owner[c] = d
             THEN CHOOSE c \in Conns : owner[c] = d ELSE None
_conn == ConnOf(Me)

in_transaction == _conn # None /\ in_tx[_conn]
working == _conn # None /\ running[_conn] # 0

\* What open_connection() may give d: its own connection, or a stolen one.
CanBeStolen(c) == ~in_tx[c] /\ running[c] = 0
Gettable(d) == IF ConnOf(d) # None THEN {ConnOf(d)} ELSE {c \in Conns : CanBeStolen(c)}

\* connection::open_connection: a lost link is replaced by a new session.
Reopen(c) ==
    /\ link' = [link EXCEPT ![c] = "up"]
    /\ in_tx' = [in_tx EXCEPT ![c] = @ /\ link[c] = "up"]
    /\ UNCHANGED <<tx, names>>

\* Lock objects are pairs of their connection and a number; those among
\* before that are not among after are destroyed: stop_work(), whoever works
\* on the connection.
Stopped_Never(before, after) == running
Stopped(before, after) ==
    LET dead == {l[1] : l \in before \ after}
    IN [c \in Conns |-> IF c \in dead THEN 0 ELSE running[c]]

(***************************************************************************)
(* The other databases run queries of their own.                            *)
(***************************************************************************)
OtherStarts(e) ==
    /\ job[e] = None
    /\ \E c \in Gettable(e) :
          /\ owner' = [owner EXCEPT ![c] = e]
          /\ running' = [running EXCEPT ![c] = 1]
          /\ job' = [job EXCEPT ![e] = c]
          /\ Reopen(c)
    /\ UNCHANGED <<lost, fault>>
OtherEnds(e) ==
    /\ job[e] # None
    /\ running' = [running EXCEPT ![job[e]] = 0]
    /\ job' = [job EXCEPT ![e] = None]
    /\ UNCHANGED <<owner, in_tx, link, tx, names, lost, fault>>

LinkLost(c) ==
    /\ c \in Lossy /\ link[c] = "up"
    /\ link' = [link EXCEPT ![c] = "down"]
    /\ tx' = [tx EXCEPT ![c] = "none"]
    /\ names' = [names EXCEPT ![c] = {}]
    /\ lost' = lost \cup {c}
    /\ UNCHANGED <<owner, running, in_tx, job, fault>>

Environment == \/ \E e \in Others : OtherStarts(e) \/ OtherEnds(e)
               \/ \E c \in Conns : LinkLost(c)

=============================================================================
