-------------------------- MODULE TransactionLease --------------------------
(***************************************************************************)
(* What a pool of one connection promises to the threads that share it: a  *)
(* transaction is a lease on the connection. It is given to a client only  *)
(* when no other client of the connection string has it, the server's side *)
(* of it is open from then on, and only its holder's lease ends. The       *)
(* server may end its side alone (the link is lost, COMMIT is refused).    *)
(***************************************************************************)
CONSTANTS
    Clients,    \* who can have a lease
    Resource    \* client -> what it competes for

VARIABLES
    holding,    \* the clients that have a lease
    live        \* those whose transaction is open on the server

Init == holding = {} /\ live = {}

Acquire(d) ==
    /\ \A e \in holding : Resource[e] # Resource[d]
    /\ holding' = holding \cup {d}
    /\ live' = live \cup {d}

Release(d) ==
    /\ d \in holding
    /\ holding' = holding \ {d}
    /\ live' = live \ {d}

Lose(d) ==
    /\ d \in live
    /\ live' = live \ {d}
    /\ UNCHANGED holding

Next == \E d \in Clients : Acquire(d) \/ Release(d) \/ Lose(d)

Spec == Init /\ [][Next]_<<holding, live>>
=============================================================================
