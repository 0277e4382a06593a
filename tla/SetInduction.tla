---------------------------- MODULE SetInduction ----------------------------
(***************************************************************************)
(* Induction over the natural numbers, for a set in place of a predicate,  *)
(* so that the facts proved with it are first-order.                       *)
(***************************************************************************)
EXTENDS Integers, WellFoundedInduction, TLAPS

\* A set that holds 0 and the successor of each of its numbers holds them all:
\* what the proofs about the loops of the source use.
LEMMA NatSetInduction ==
    ASSUME NEW X, 0 \in X, \A n \in Nat : n \in X => n + 1 \in X
    PROVE  \A n \in Nat : n \in X
<1> SUFFICES ASSUME Nat \ X # {} PROVE FALSE
  OBVIOUS
<1> DEFINE R == OpToRel(<, Nat)
<1>1. PICK x \in Nat \ X : \A y \in Nat \ X : ~ (<<y, x>> \in R)
  <2>1. IsWellFoundedOn(R, Nat)
    BY NatLessThanWellFounded
  <2> HIDE DEF R
  <2> QED
    BY <2>1, WFMin
<1>2. x - 1 \in Nat /\ x - 1 \notin X
  OBVIOUS
<1>3. <<x - 1, x>> \in R
  BY <1>2 DEF OpToRel
<1> QED
  BY <1>1, <1>2, <1>3
=============================================================================
