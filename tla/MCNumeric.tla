----------------------------- MODULE MCNumeric -----------------------------
(***************************************************************************)
(* An instance of Money, and so of Numeric, for TLC: base 100, numbers      *)
(* whose digits carry, borrow, round up into a new digit and straddle the   *)
(* decimal point.                                                           *)
(***************************************************************************)
EXTENDS Money

\* Mantissa digits with a point and a sign, an exponent, a NaN, a number with
\* something behind it (which is a NaN with digits).
Text(ds, frac, neg) ==
    [ds |-> ds, dp |-> Len(ds) - frac, neg |-> neg, exp |-> 0, junk |-> FALSE]
MCLiterals ==
    {Text(<<0>>, 0, FALSE), Text(<<5>>, 1, TRUE), Text(<<1, 0, 0>>, 0, FALSE),
     Text(<<5>>, 1, FALSE), Text(<<4, 9>>, 1, TRUE), Text(<<1, 0, 0>>, 0, TRUE),
     Text(<<9, 9, 9, 5>>, 1, FALSE), Text(<<9, 9, 9, 9>>, 2, FALSE),
     Text(<<1, 0, 0, 0, 1>>, 0, FALSE), Text(<<0, 0, 7>>, 2, TRUE),
     Text(<<3, 2, 7, 6, 8>>, 0, TRUE), Text(<<3, 2, 7, 6, 7, 5>>, 1, FALSE),
     Text(<<>>, 0, FALSE),
     [Text(<<1, 2>>, 0, FALSE) EXCEPT !.junk = TRUE],
     [Text(<<2, 5>>, 1, FALSE) EXCEPT !.exp = -1],
     [Text(<<3>>, 0, TRUE) EXCEPT !.exp = 4]}

=============================================================================
