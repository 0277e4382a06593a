---------------------------- MODULE ConnectionId ----------------------------
(***************************************************************************)
(* The order of connection ids.  connection::id() is the decimal text of   *)
(* the connection's number and is compared as text: "10" comes before "9". *)
(***************************************************************************)
EXTENDS Integers

\* Left-justifies a number on three digits, the width of every id below 1000.
Scaled(a) ==
    IF a < 10 THEN a * 100 ELSE IF a < 100 THEN a * 10 ELSE a

\* std::string's operator > on two ids; -1 is the empty string.
IdGreater(a, b) ==
    \/ b = -1
    \/ Scaled(a) > Scaled(b)
    \/ Scaled(a) = Scaled(b) /\ a > b

=============================================================================
