------------------------- MODULE TransactionMapping -------------------------
(***************************************************************************)
(* Database implements TransactionLease when the pool has one connection   *)
(* for each connection string.                                             *)
(***************************************************************************)
EXTENDS Database

\* The databases whose connection has is_in_transaction set, and those whose
\* connection has a transaction in the server's session.
Holding == {d \in Databases : db_conn[d] # None /\ is_in_transaction[db_conn[d]]}
Unfinished == {d \in Databases : db_conn[d] # None /\ session_tx[db_conn[d]]}

Lease == INSTANCE TransactionLease
             WITH Clients <- Databases, Resource <- connection_string,
                  holding <- Holding, live <- Unfinished

\* Every step of begin, commit, rollback, exec_queries, close, of the steals
\* between them and of a failing server is a step of the lease or leaves it
\* alone: no thread starts, ends or takes over the transaction of another.
ImplementsLease == Lease!Spec
=============================================================================
