----------------------------- MODULE MCDatabase -----------------------------
(***************************************************************************)
(* Instances of Database for TLC.                                          *)
(***************************************************************************)
EXTENDS TransactionMapping, TLC

CONSTANTS d1, d2, d3, s1, s2

OneString == [d \in Databases |-> s1]
TwoStrings == (d1 :> s1) @@ (d2 :> s1) @@ (d3 :> s2)

\* Databases of one connection string are interchangeable.
Symmetry == Permutations(Databases)

=============================================================================
