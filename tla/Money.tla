------------------------------- MODULE Money -------------------------------
(***************************************************************************)
(* The money type (src/include/pq-async/pg_type_cash_def.h and              *)
(* src/src/pg_type_cash_def.cpp): an int64_t amount and the number of its   *)
(* fraction digits. The machine of Numeric gets a money variable that is    *)
(* converted from and to numeric and combined with money made from y.       *)
(***************************************************************************)
EXTENDS Numeric

CONSTANTS FracDigits    \* the fraction digits the locales in use ask for

VARIABLE m              \* a money variable of the program

mvars == <<vars, m>>

Money(val, frac) == [val |-> Wrap(val), frac |-> frac]
get_pow(a) == 10^a.frac
Abs(i) == IF i < 0 THEN -i ELSE i

\* A change of the number of fraction digits; fewer of them truncate.
to_frac_digits_Relabel(a, f) == Money(a.val, f)
to_frac_digits(a, f) ==
    IF f >= a.frac THEN Money(a.val * 10^(f - a.frac), f)
    ELSE Money(Quot(a.val, 10^(a.frac - f)), f)

\* The text of x without exponent: the whole part with its sign, and the
\* first f decimals, padded; the decimals are always added.
Scaled1(val, f) == IF val = <<>> THEN <<>> ELSE <<Money(val[1] * 10^f, f)>>
FromText(t, f) ==
    Money((IF t.neg THEN -1 ELSE 1) * FromDigits(SubSeq(t.ds, 1, t.dp), 10) * 10^f
          + FromDigits([i \in 1..f |-> DigitOr0(t.ds, t.dp + i)], 10), f)
from_numeric(b, f) == IF b.dscale = 0 THEN Scaled1(numericvar_to_int64(b), f)
                      ELSE <<FromText(get_str_from_var(b), f)>>

\* Through the text of the amount. to_string(frac_digits) takes the decimals
\* from _val, not from the amount it has just converted to frac_digits.
to_numeric(a, f) ==
    LET whole == Quot(to_frac_digits(a, f).val, 10^f)
        shown == Max2(f, 1)
        number == Abs(whole) * 10^shown + (Abs(a.val) % 10^f)
        len == Max({shown + 1} \cup {k \in 1..6 : number >= 10^(k - 1)})
    IN numeric([ds |-> [i \in 1..len |-> (number \div 10^(len - i)) % 10], dp |-> len - shown,
                neg |-> whole < 0, exp |-> 0, junk |-> FALSE])

(***************************************************************************)
(* The operators: the left side is converted to the digits of the right     *)
(* one; the compound forms convert the result back.                         *)
(***************************************************************************)
Plus(a, b) == Money(to_frac_digits(a, b.frac).val + b.val, b.frac)
Minus(a, b) == Money(to_frac_digits(a, b.frac).val - b.val, b.frac)
Times(a, b) == Money(Quot(Wrap(to_frac_digits(a, b.frac).val * b.val), get_pow(b)), b.frac)
Over(a, b) ==
    LET v == to_frac_digits(a, b.frac).val
        q == IF b.val < 0 THEN -Quot(v, -b.val) ELSE Quot(v, b.val)
    IN Money(q * get_pow(b), b.frac)
Modulo(a, b) ==
    LET v == to_frac_digits(a, b.frac).val
    IN Money(v - Abs(b.val) * Quot(v, Abs(b.val)), b.frac)
\* The forms a += b and so on: the result r with the fraction digits of a.
Compound(a, r) == to_frac_digits(r, a.frac)

\* Comparison across scales by whole part, then by the bare decimals.
Parts(a) == LET w == Quot(a.val, get_pow(a)) IN <<w, a.val - w * get_pow(a)>>
Less_WholeParts(a, b) == Parts(a)[1] < Parts(b)[1]
Less(a, b) ==
    IF a.frac = b.frac THEN a.val < b.val
    ELSE IF Parts(a)[1] = Parts(b)[1] THEN Parts(a)[2] < Parts(b)[2]
    ELSE Parts(a)[1] < Parts(b)[1]

(***************************************************************************)
(* The machine.                                                             *)
(***************************************************************************)
MInit == Init /\ m = Money(0, Max(FracDigits))

DidMoney(name, f) == op' = <<name, f>> /\ n' = n + 1
FromNumeric(f) ==
    /\ from_numeric(x, f) # <<>>
    /\ m' = from_numeric(x, f)[1] /\ DidMoney("FromNumeric", f) /\ UNCHANGED <<x, y, i64>>
ToNumeric == Assign("ToNumeric", to_numeric(m, m.frac)) /\ UNCHANGED m
\* m += money::from_numeric(y, f) and the other compound assignments
Right(f) == from_numeric(y, f)[1]
WithMoney(name, f, r) ==
    /\ from_numeric(y, f) # <<>>
    /\ m' = Compound(m, r) /\ DidMoney(name, f) /\ UNCHANGED <<x, y, i64>>
AddMoney(f) == WithMoney("AddMoney", f, Plus(m, Right(f)))
SubMoney(f) == WithMoney("SubMoney", f, Minus(m, Right(f)))
MulMoney(f) == WithMoney("MulMoney", f, Times(m, Right(f)))
DivMoney(f) == from_numeric(y, f) # <<Money(0, f)>> /\ WithMoney("DivMoney", f, Over(m, Right(f)))
ModMoney(f) == from_numeric(y, f) # <<Money(0, f)>> /\ WithMoney("ModMoney", f, Modulo(m, Right(f)))
\* ++m adds one unit of the default locale, whatever the digits of m
IncrementMoney ==
    /\ m' = Money(m.val + 10^Max(FracDigits), m.frac)
    /\ Did("IncrementMoney") /\ UNCHANGED <<x, y, i64>>

MoneyNext ==
    /\ n < MaxOps /\ InBounds(x) /\ InBounds(y)
    /\ \/ ToNumeric \/ IncrementMoney
       \/ \E f \in FracDigits : \/ FromNumeric(f) \/ AddMoney(f) \/ SubMoney(f)
                                \/ MulMoney(f) \/ DivMoney(f) \/ ModMoney(f)

MNext == (Next /\ UNCHANGED m) \/ MoneyNext
MSpec == MInit /\ [][MNext]_mvars

(***************************************************************************)
(* Properties.                                                              *)
(***************************************************************************)
Fits(i) == i \in PG_INT64_MIN..PG_INT64_MAX

MoneyConversion ==
    /\ \A f \in FracDigits :
         LET exact == Quot(Mantissa(x) * 10^f, 10^x.dscale)
         IN op' = <<"FromNumeric", f>> /\ IsNumber(x) /\ (Mantissa(x) >= 0 \/ x.dscale = 0) /\ Fits(exact)
              => m'.val = exact
    /\ op' = <<"ToNumeric">> /\ (m.val >= 0 \/ m.val <= -get_pow(m))
         => At(x', 3) = m.val * 10^(3 - m.frac)

MoneySum ==
    \A f \in FracDigits :
        op' \in {<<"AddMoney", f>>, <<"SubMoney", f>>} =>
        LET b == from_numeric(y, f)[1]
            right == IF op' = <<"AddMoney", f>> THEN b.val ELSE -b.val
            exact == m.val * 10^f + right * 10^m.frac   \* in units of 10^-(f + m.frac)
            got == m'.val * 10^f
            left == Quot(m.val * 10^f, 10^m.frac)
            fits == \A i \in {left, left + right, Quot((left + right) * 10^m.frac, 10^f)} : Fits(i)
            uncut == (m.val * 10^f) % 10^m.frac = 0 /\ exact % 10^f = 0
        IN fits => /\ m'.frac = m.frac
                   /\ uncut => got = exact
                   /\ Abs(got - exact) < 10^Max2(f, m.frac)

\* A number that is not negative, or has no decimals, becomes the amount cut
\* at the fraction digits (for the others the decimals are added with the
\* wrong sign, pg_type_cash_def.h:445), and an amount becomes the same number
\* again, below one unit only if it is not negative. A sum or a difference
\* keeps the fraction digits of the left side whatever those of the right
\* side. It is exact unless the conversion of the left side, or the one of the
\* result, cuts digits off, and even then it is wrong by less than one unit of
\* the coarser of the two scales. (Only where an amount in between leaves the
\* int64_t, which is undefined, nothing is said.)
MoneyKept == [][MoneyConversion /\ MoneySum]_mvars

\* The order of amounts of the same scale, and of an amount without fraction
\* digits against any other, is that of their values for both signs. (Between
\* two other scales the source compares 5 tenths with 25 hundredths as 5 with
\* 25, pg_type_cash_def.h:110.)
MoneyOrder ==
    \A f \in FracDigits : from_numeric(y, f) # <<>> =>
        LET b == from_numeric(y, f)[1]
        IN m.frac = f \/ 0 \in {m.frac, f} =>
           /\ Less(m, b) <=> m.val * 10^f < b.val * 10^m.frac
           /\ Less(b, m) <=> m.val * 10^f > b.val * 10^m.frac

=============================================================================
