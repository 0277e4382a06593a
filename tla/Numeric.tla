------------------------------ MODULE Numeric ------------------------------
(***************************************************************************)
(* The numeric type (src/src/pg_type_numeric_def.cpp): a decimal number in  *)
(* base NBASE, with the arithmetic, rounding and conversions its operators  *)
(* are made of, and a machine of two variables that a program assigns,      *)
(* adds, multiplies, divides and converts in any order.                     *)
(*                                                                          *)
(* DEC_DIGITS decimal digits make one digit of base NBASE. The source is    *)
(* written for 4, 2 or 1 of them and built with 4.                          *)
(***************************************************************************)
EXTENDS Integers, SequencesExt, FiniteSetsExt

CONSTANTS
    DEC_DIGITS,     \* decimal digits per NBASE digit
    Bits,           \* width of the int64_t of the conversions; half is int32_t
    Literals,       \* the texts the program reads numbers from
    MaxOps,         \* bound on the number of operations
    MaxMantissa     \* bound on the numbers an operation is applied to

VARIABLES
    x, y,           \* two numeric variables of the program
    i64,            \* <<the last conversion of x to int64_t>>, <<>> if there is none
    op,             \* the last operation
    n               \* number of operations done

vars == <<x, y, i64, op, n>>

NBASE == 10^DEC_DIGITS
HALF_NBASE == NBASE \div 2
MUL_GUARD_DIGITS == 2

Max2(a, b) == IF a >= b THEN a ELSE b
Min2(a, b) == IF a <= b THEN a ELSE b
CeilDiv(a, b) == -((-a) \div b)
\* Division of C++: the quotient is truncated toward zero.
Quot(a, b) == IF a >= 0 THEN a \div b ELSE -((-a) \div b)

\* The number with the digits ds, most significant first.
FromDigits(ds, base) ==
    LET upto[k \in 0..Len(ds)] == IF k = 0 THEN 0 ELSE upto[k - 1] * base + ds[k]
    IN upto[Len(ds)]

ndigits(v) == Len(v.digits)
\* The digit of weight w, 0 outside the digits that are stored.
DigitOr0(ds, i) == IF i \in DOMAIN ds THEN ds[i] ELSE 0
DigitAt(v, w) == DigitOr0(v.digits, v.weight - w + 1)

(***************************************************************************)
(* Every digit loop of the source runs from the right with a carry (or a    *)
(* borrow, a negative carry). Carries(raw)[i] is the carry into place i.    *)
(***************************************************************************)
Carries(raw) ==
    LET carry[i \in 0..Len(raw)] ==
            IF i = Len(raw) THEN 0 ELSE (raw[i+1] + carry[i+1]) \div NBASE
    IN carry
WithCarries(raw, carry) == [i \in DOMAIN raw |-> (raw[i] + carry[i]) % NBASE]
Propagate(raw) == WithCarries(raw, Carries(raw))

\* v from the first to the last of its places nz that are not zero
Between(v, nz) ==
    IF nz = {}
    THEN [v EXCEPT !.digits = <<>>, !.weight = 0, !.sign = "POS"]
    ELSE [v EXCEPT !.digits = SubSeq(v.digits, Min(nz), Max(nz)),
                   !.weight = v.weight - (Min(nz) - 1)]
strip_var(v) == Between(v, {i \in DOMAIN v.digits : v.digits[i] # 0})

zero_var(dscale) == [digits |-> <<>>, weight |-> 0, sign |-> "POS", dscale |-> dscale]
nan == [zero_var(0) EXCEPT !.sign = "NAN"]

(***************************************************************************)
(* Rounding half up and truncation at rscale decimals.                      *)
(***************************************************************************)
\* di decimal digits are wanted, in nd digits; pow10 counts what the last of
\* them has too many.
wanted(v, rscale) == (v.weight + 1) * DEC_DIGITS + rscale
pow10(di) == 10^(DEC_DIGITS - (di % DEC_DIGITS))
Rest(extra, pow) == (IF extra >= pow \div 2 THEN pow ELSE 0) - extra
Correction(v, di, nd) ==
    IF di % DEC_DIGITS > 0 THEN Rest(v.digits[nd] % pow10(di), pow10(di))
    ELSE IF v.digits[nd + 1] >= HALF_NBASE THEN 1 ELSE 0
\* The spare digit in front takes a carry out of the first digit.
RoundedDigits(v, nd, last) ==
    Propagate([i \in 1..nd + 1 |-> (IF i = 1 THEN 0 ELSE v.digits[i - 1])
                                   + (IF i = nd + 1 THEN last ELSE 0)])
WithSpare(v, out) ==
    IF out[1] = 0 THEN [v EXCEPT !.digits = Tail(out)]
    ELSE [v EXCEPT !.digits = out, !.weight = @ + 1]
RoundAt(v, rscale, di, nd) ==
    IF di < 0 THEN zero_var(rscale)
    ELSE IF nd < ndigits(v) \/ (nd = ndigits(v) /\ di % DEC_DIGITS > 0)
    THEN WithSpare([v EXCEPT !.dscale = rscale], RoundedDigits(v, nd, Correction(v, di, nd)))
    ELSE [v EXCEPT !.dscale = rscale]
round_var(v, rscale) ==
    RoundAt(v, rscale, wanted(v, rscale), CeilDiv(wanted(v, rscale), DEC_DIGITS))

trunc_var_WholeDigits(v, rscale) ==
    IF wanted(v, rscale) <= 0 THEN zero_var(rscale)
    ELSE [v EXCEPT !.dscale = rscale,
                   !.digits = SubSeq(@, 1, Min2(CeilDiv(wanted(v, rscale), DEC_DIGITS), ndigits(v)))]
TruncAt(v, rscale, di, nd) ==
    IF di <= 0 THEN zero_var(rscale)
    ELSE IF nd > ndigits(v) THEN [v EXCEPT !.dscale = rscale]
    ELSE [v EXCEPT !.dscale = rscale,
                   !.digits = [i \in 1..nd |->
                       IF i = nd /\ di % DEC_DIGITS > 0
                       THEN v.digits[i] - (v.digits[i] % pow10(di)) ELSE v.digits[i]]]
trunc_var(v, rscale) ==
    TruncAt(v, rscale, wanted(v, rscale), CeilDiv(wanted(v, rscale), DEC_DIGITS))

(***************************************************************************)
(* Comparison. The source walks both numbers from the highest weight down   *)
(* to the first digit that differs. A NaN has no case of its own.           *)
(***************************************************************************)
\* differ: the weights at which the numbers differ
CompareAt(v1, v2, differ) ==
    IF differ = {} THEN 0
    ELSE IF DigitAt(v1, Max(differ)) > DigitAt(v2, Max(differ)) THEN 1 ELSE -1
cmp_abs(v1, v2) ==
    CompareAt(v1, v2, {w \in Min2(v1.weight - ndigits(v1), v2.weight - ndigits(v2))
                              ..Max2(v1.weight, v2.weight) : DigitAt(v1, w) # DigitAt(v2, w)})

cmp_var_common_AbsOnly(v1, v2) == cmp_abs(v1, v2)
cmp_var_common(v1, v2) ==
    IF ndigits(v1) = 0
    THEN IF ndigits(v2) = 0 THEN 0 ELSE IF v2.sign = "NEG" THEN 1 ELSE -1
    ELSE IF ndigits(v2) = 0 THEN IF v1.sign = "POS" THEN 1 ELSE -1
    ELSE IF v1.sign = "POS" THEN IF v2.sign = "NEG" THEN 1 ELSE cmp_abs(v1, v2)
    ELSE IF v2.sign = "POS" THEN -1 ELSE cmp_abs(v2, v1)

(***************************************************************************)
(* Addition and subtraction of absolute values, then with signs.            *)
(***************************************************************************)
res_rscale(v1, v2) ==
    Max2(ndigits(v1) - v1.weight - 1, ndigits(v2) - v2.weight - 1)

Combine(v1, v2, res_weight, factor) ==
    strip_var([digits |-> Propagate([i \in 1..Max2(res_rscale(v1, v2) + res_weight + 1, 1) |->
                                        DigitAt(v1, res_weight - i + 1)
                                        + factor * DigitAt(v2, res_weight - i + 1)]),
               weight |-> res_weight, sign |-> "POS", dscale |-> Max2(v1.dscale, v2.dscale)])

add_abs(v1, v2) == Combine(v1, v2, Max2(v1.weight, v2.weight) + 1, 1)
sub_abs(v1, v2) == Combine(v1, v2, v1.weight, -1)

Signed(v, sign) == [v EXCEPT !.sign = sign]
\* The difference of the absolute values, signed by the larger one.
Difference(v1, v2, sign, opposite) ==
    CASE cmp_abs(v1, v2) = 0  -> zero_var(Max2(v1.dscale, v2.dscale))
      [] cmp_abs(v1, v2) = 1  -> Signed(sub_abs(v1, v2), sign)
      [] OTHER -> Signed(sub_abs(v2, v1), opposite)

add_var(v1, v2) ==
    IF v1.sign = "POS"
    THEN IF v2.sign = "POS" THEN Signed(add_abs(v1, v2), "POS")
                            ELSE Difference(v1, v2, "POS", "NEG")
    ELSE IF v2.sign = "POS" THEN Difference(v1, v2, "NEG", "POS")
                            ELSE Signed(add_abs(v1, v2), "NEG")

sub_var(v1, v2) ==
    IF v1.sign = "POS"
    THEN IF v2.sign = "NEG" THEN Signed(add_abs(v1, v2), "POS")
                            ELSE Difference(v1, v2, "POS", "NEG")
    ELSE IF v2.sign = "NEG" THEN Difference(v1, v2, "NEG", "POS")
                            ELSE Signed(add_abs(v1, v2), "NEG")

(***************************************************************************)
(* Multiplication: the schoolbook product, cut MUL_GUARD_DIGITS digits      *)
(* behind the digits rscale asks for, then rounded.                         *)
(***************************************************************************)
\* Place i of the product: the products of the digits i1 and i2 (from 0) that
\* meet at i1 + i2 + 2.
Column(v1, v2, places, i) ==
    LET sum[i1 \in 0..ndigits(v1)] ==
            IF i1 = 0 THEN 0
            ELSE sum[i1 - 1] + (IF i - 1 - i1 \in 1..ndigits(v2) /\ i1 <= places - 2
                                THEN v1.digits[i1] * v2.digits[i - 1 - i1] ELSE 0)
    IN sum[ndigits(v1)]
ProductSign(v1, v2) == IF v1.sign = v2.sign THEN "POS" ELSE "NEG"
Product(v1, v2, rscale, res_weight, res_ndigits) ==
    IF ndigits(v1) = 0 \/ ndigits(v2) = 0 \/ res_ndigits < 3 THEN zero_var(rscale)
    ELSE strip_var(round_var(
             [digits |-> Propagate([i \in 1..res_ndigits |-> Column(v1, v2, res_ndigits, i)]),
              weight |-> res_weight, sign |-> ProductSign(v1, v2), dscale |-> rscale], rscale))
Shorter(a, b) == IF ndigits(a) > ndigits(b) THEN b ELSE a
Longer(a, b) == IF ndigits(a) > ndigits(b) THEN a ELSE b
mul_var(a, b, rscale) ==
    Product(Shorter(a, b), Longer(a, b), rscale, a.weight + b.weight + 2,
            Min2(ndigits(a) + ndigits(b) + 1,
                 a.weight + b.weight + 3 + CeilDiv(rscale, DEC_DIGITS) + MUL_GUARD_DIGITS))

(***************************************************************************)
(* Division: long division by one digit, or Knuth's algorithm D. dividend   *)
(* and divisor have a zero in front (place 1 here, place 0 in the source).  *)
(***************************************************************************)
Scaled(s, d) == Propagate([i \in DOMAIN s |-> s[i] * d])

\* One quotient digit at place j: estimated from two digits, corrected with
\* the third, and once more when the subtraction borrows.
Estimate(next2digits, third, first, divisor) ==
    Max({q \in 0..first :
            divisor[3] * q <= (next2digits - q * divisor[2]) * NBASE + third})
qhat(dividend, divisor, j) ==
    Estimate(dividend[j] * NBASE + dividend[j + 1], dividend[j + 2],
             IF dividend[j] = divisor[2] THEN NBASE - 1
             ELSE (dividend[j] * NBASE + dividend[j + 1]) \div divisor[2], divisor)
Subtracted(dividend, divisor, j, q) ==
    [k \in DOMAIN divisor |-> dividend[j + k - 1] - q * divisor[k]]
Borrows(raw) == raw[1] + Carries(raw)[1] < 0
Replace(dividend, j, left) ==
    [i \in DOMAIN dividend |-> IF i - j + 1 \in DOMAIN left THEN left[i - j + 1] ELSE dividend[i]]
AddBack(dividend, divisor, j, q) ==
    IF Borrows(Subtracted(dividend, divisor, j, q)) THEN q - 1 ELSE q
Digit(dividend, divisor, j, q) ==
    [q |-> q, dividend |-> Replace(dividend, j, Propagate(Subtracted(dividend, divisor, j, q)))]
Step_NoAddBack(dividend, divisor, j) ==
    Digit(dividend, divisor, j, qhat(dividend, divisor, j))
Step(dividend, divisor, j) ==
    Digit(dividend, divisor, j, AddBack(dividend, divisor, j, qhat(dividend, divisor, j)))

\* Every place in turn; one whose two leading digits are zero is skipped.
Places(dividend, divisor, places) ==
    LET after[j \in 0..places] ==
            IF j = 0 \/ (after[j - 1].dividend[j] = 0 /\ after[j - 1].dividend[j + 1] = 0)
            THEN [q |-> 0, dividend |-> IF j = 0 THEN dividend ELSE after[j - 1].dividend]
            ELSE Step(after[j - 1].dividend, divisor, j)
    IN [j \in 1..places |-> after[j].q]
\* By a divisor of one digit: what is left over is carried to the next place.
ShortDivision(dividend, divisor, places) ==
    LET carry[i \in 0..places] ==
            IF i = 0 THEN 0 ELSE (carry[i - 1] * NBASE + dividend[i + 1]) % divisor[2]
    IN [i \in 1..places |-> (carry[i - 1] * NBASE + dividend[i + 1]) \div divisor[2]]
Normalised(dividend, divisor, places, d) == Places(Scaled(dividend, d), Scaled(divisor, d), places)
QuotientDigits(dividend, divisor, places) ==
    IF Len(divisor) = 2 THEN ShortDivision(dividend, divisor, places)
    ELSE Normalised(dividend, divisor, places,
                    IF divisor[2] < HALF_NBASE THEN NBASE \div (divisor[2] + 1) ELSE 1)

\* Not to be called with a divisor of zero, for which the source throws.
IsZeroDivisor(v) == ndigits(v) = 0 \/ v.digits[1] = 0
Quotient(v1, v2, places) ==
    QuotientDigits([i \in 1..Max2(places + ndigits(v2), ndigits(v1)) + 1 |-> DigitOr0(v1.digits, i - 1)],
                   <<0>> \o v2.digits, places)
RoundOrTrunc(res, rscale, round) ==
    IF round THEN round_var(res, rscale) ELSE trunc_var(res, rscale)
div_var(v1, v2, rscale, round) ==
    IF ndigits(v1) = 0 THEN zero_var(rscale)
    ELSE strip_var(RoundOrTrunc(
             [digits |-> Quotient(v1, v2, Max2(v1.weight - v2.weight + 1 + CeilDiv(rscale, DEC_DIGITS), 1)
                                          + (IF round THEN 1 ELSE 0)),
              weight |-> v1.weight - v2.weight, dscale |-> rscale, sign |-> ProductSign(v1, v2)],
             rscale, round))

mod_var(v1, v2) ==
    sub_var(v1, mul_var(v2, div_var(v1, v2, 0, FALSE), v2.dscale))

const_one == [digits |-> <<1>>, weight |-> 0, sign |-> "POS", dscale |-> 0]
\* tmp is v without its decimals
Away(v, tmp, sign, moved) == IF v.sign = sign /\ cmp_var_common(v, tmp) # 0 THEN moved ELSE tmp
ceil_var(v) == Away(v, trunc_var(v, 0), "POS", add_var(trunc_var(v, 0), const_one))
floor_var(v) == Away(v, trunc_var(v, 0), "NEG", sub_var(trunc_var(v, 0), const_one))

(***************************************************************************)
(* Texts. A text is its decimal digits ds, dp of them before the point, a   *)
(* sign and an exponent; junk is something behind them. No digits at all is *)
(* the text NaN, or one set_var_from_str throws on: both give a NaN.        *)
(***************************************************************************)
WeightOf(dweight) == IF dweight >= 0 THEN CeilDiv(dweight + 1, DEC_DIGITS) - 1
                     ELSE -((-dweight - 1) \div DEC_DIGITS + 1)
\* offset: the zeros in front of the first digit
Grouped(ds, offset) ==
    [k \in 1..CeilDiv(Len(ds) + offset, DEC_DIGITS) |->
        FromDigits([j \in 1..DEC_DIGITS |-> DigitOr0(ds, (k - 1) * DEC_DIGITS - offset + j)], 10)]
Parsed(t, dweight, weight) ==
    strip_var([digits |-> Grouped(t.ds, (weight + 1) * DEC_DIGITS - (dweight + 1)),
               weight |-> weight, sign |-> IF t.neg THEN "NEG" ELSE "POS",
               dscale |-> Max2(Len(t.ds) - t.dp - t.exp, 0)])
set_var_from_str(t) == Parsed(t, t.dp - 1 + t.exp, WeightOf(t.dp - 1 + t.exp))

numeric(t) ==
    IF t.ds = <<>> THEN nan
    ELSE IF t.junk THEN Signed(set_var_from_str(t), "NAN") ELSE set_var_from_str(t)

\* The decimal digit of weight p, and the number of them before the point.
DecimalAt(v, p) == (DigitAt(v, p \div DEC_DIGITS) \div 10^(p % DEC_DIGITS)) % 10
WholeDigits(v) ==
    IF v.weight < 0 THEN 1
    ELSE v.weight * DEC_DIGITS
         + Max({1} \cup {k \in 1..DEC_DIGITS : DigitAt(v, v.weight) >= 10^(k - 1)})

TextOf(v, whole, decimals) ==
    [neg |-> v.sign = "NEG", dp |-> whole, exp |-> 0, junk |-> FALSE,
     ds |-> [i \in 1..whole + decimals |-> DecimalAt(v, whole - i)]]
get_str_from_var_NoPadding(v) ==
    TextOf(v, WholeDigits(v), Min2(v.dscale, Max2((ndigits(v) - v.weight - 1) * DEC_DIGITS, 0)))
get_str_from_var(v) == TextOf(v, WholeDigits(v), v.dscale)

(***************************************************************************)
(* Integers. The result of a conversion is <<>> (it failed) or <<value>>.   *)
(***************************************************************************)
PG_INT64_MAX == 2^(Bits - 1) - 1
PG_INT64_MIN == -(2^(Bits - 1))
PG_INT32_MAX == 2^(Bits \div 2 - 1) - 1
PG_INT32_MIN == -(2^(Bits \div 2 - 1))

pg_sub_s64_overflow(a, b) ==
    \/ a < 0 /\ b > 0 /\ a < PG_INT64_MIN + b
    \/ a > 0 /\ b < 0 /\ a > PG_INT64_MAX + b

pg_mul_s64_overflow_Never(a, b) == FALSE
pg_mul_s64_overflow(a, b) ==
    /\ a \notin PG_INT32_MIN..PG_INT32_MAX \/ b \notin PG_INT32_MIN..PG_INT32_MAX
    /\ {a, b} \cap {0, 1} = {}
    /\ \/ a > 0 /\ b > 0 /\ a > Quot(PG_INT64_MAX, b)
       \/ a > 0 /\ b < 0 /\ b < Quot(PG_INT64_MIN, a)
       \/ a < 0 /\ b > 0 /\ a < Quot(PG_INT64_MIN, b)
       \/ a < 0 /\ b < 0 /\ a < -(PG_INT64_MAX \div (-b))

\* a wrapped around to the width of int64_t
Wrap(a) == ((a - PG_INT64_MIN) % 2^Bits) + PG_INT64_MIN

\* The value is accumulated negated, since PG_INT64_MIN has no positive.
SubDigit(val, ds, i) ==
    IF i > Len(ds) THEN <<val>>
    ELSE IF pg_sub_s64_overflow(val, ds[i]) THEN <<>> ELSE <<Wrap(val - ds[i])>>
Accumulate(val, ds, i) ==
    IF val = <<>> \/ pg_mul_s64_overflow(val[1], NBASE) THEN <<>>
    ELSE SubDigit(Wrap(val[1] * NBASE), ds, i)
Accumulated(ds, places) ==
    LET upto[i \in 1..places] == IF i = 1 THEN <<-ds[1]>> ELSE Accumulate(upto[i - 1], ds, i)
    IN upto[places]
Negated(val, sign) ==
    IF val = <<>> \/ sign = "NEG" THEN val
    ELSE IF val[1] = PG_INT64_MIN THEN <<>> ELSE <<-val[1]>>
ToInteger(rounded) ==
    IF ndigits(rounded) = 0 THEN <<0>>
    ELSE Negated(Accumulated(rounded.digits, rounded.weight + 1), rounded.sign)
numericvar_to_int64(v) == ToInteger(strip_var(round_var(v, 0)))

numericvar_to_int32(v) ==
    LET val == numericvar_to_int64(v)
    IN IF val # <<>> /\ val[1] \in PG_INT32_MIN..PG_INT32_MAX THEN val ELSE <<>>

BaseDigits(uval) ==      \* the do-while, from the last digit
    LET digs[u \in 0..uval] ==
            IF u < NBASE THEN <<u>> ELSE Append(digs[u \div NBASE], u % NBASE)
    IN digs[uval]
FromBaseDigits(ds, sign) == [digits |-> ds, weight |-> Len(ds) - 1, sign |-> sign, dscale |-> 0]
int64_to_numericvar(val) ==
    IF val = 0 THEN zero_var(0)
    ELSE FromBaseDigits(BaseDigits(IF val < 0 THEN -val ELSE val), IF val < 0 THEN "NEG" ELSE "POS")

(***************************************************************************)
(* The machine: the operators of class numeric on two variables.            *)
(***************************************************************************)
\* The value of v, in units of its last displayed decimal.
Mantissa(v) ==
    (IF v.sign = "NEG" THEN -1 ELSE 1)
    * FromDigits(get_str_from_var(v).ds, 10)
IsNumber(v) == v.sign # "NAN"
\* Keeps the reference arithmetic of the properties within TLC's integers.
InBounds(v) == /\ v.dscale <= 2 /\ v.weight <= 3
               /\ Mantissa(v) \in -MaxMantissa..MaxMantissa

Init == /\ x \in {numeric(t) : t \in Literals}
        /\ y \in {numeric(t) : t \in Literals}
        /\ i64 = <<>>
        /\ op = <<>>
        /\ n = 0

Did(name) == op' = <<name>> /\ n' = n + 1
Assign(name, v) == x' = v /\ Did(name) /\ UNCHANGED <<y, i64>>
rscale == Max2(x.dscale, y.dscale)

Add == Assign("Add", add_var(x, y))
Sub == Assign("Sub", sub_var(x, y))
Mul == Assign("Mul", mul_var(x, y, rscale))
Div == ~IsZeroDivisor(y) /\ Assign("Div", div_var(x, y, rscale, FALSE))
Mod == ~IsZeroDivisor(y) /\ Assign("Mod", mod_var(x, y))
Increment == Assign("Increment", add_var(x, const_one))
Decrement == Assign("Decrement", sub_var(x, const_one))
Ceil == Assign("Ceil", ceil_var(x))
Floor == Assign("Floor", floor_var(x))
\* numeric((std::string)x)
Reparse == Assign("Reparse", numeric(get_str_from_var(x)))
ToInt64 == i64' = numericvar_to_int64(x) /\ Did("ToInt64") /\ UNCHANGED <<x, y>>
FromInt64 == i64 # <<>> /\ Assign("FromInt64", int64_to_numericvar(i64[1]))
Swap == x' = y /\ y' = x /\ Did("Swap") /\ UNCHANGED i64

Next == /\ n < MaxOps /\ InBounds(x) /\ InBounds(y)
        /\ \/ Add \/ Sub \/ Mul \/ Div \/ Mod \/ Increment \/ Decrement
           \/ Ceil \/ Floor \/ Reparse \/ ToInt64 \/ FromInt64 \/ Swap

Spec == Init /\ [][Next]_vars

(***************************************************************************)
(* Properties. The reference is arithmetic on mantissas.                    *)
(***************************************************************************)
At(v, s) == Mantissa(v) * 10^(s - v.dscale)
Numbers == IsNumber(x) /\ IsNumber(y)
\* a/b rounded half away from zero
Rounded(a, b) ==
    LET abs == IF a < 0 THEN -a ELSE a
        q == abs \div b + (IF 2 * (abs % b) >= b THEN 1 ELSE 0)
    IN IF a < 0 THEN -q ELSE q

DigitsOK(v) ==
    /\ \A i \in DOMAIN v.digits : v.digits[i] \in 0..NBASE - 1
    /\ v.sign \in {"POS", "NEG", "NAN"} /\ v.dscale \in Nat
DivisorTest(v) == IsZeroDivisor(v) <=> \A i \in DOMAIN v.digits : v.digits[i] = 0
NoHiddenDigits(v) ==
    \A i \in DOMAIN v.digits, k \in 0..DEC_DIGITS - 1 :
        LET pos == (v.weight - i + 1) * DEC_DIGITS + k      \* of a decimal in digit i
        IN pos < -v.dscale => DecimalAt(v, pos) = 0

\* The representation all algorithms rely on survives every sequence of
\* operations: digits of base NBASE after all carries; no leading zero digit,
\* which div_var and mod_var would take for a zero divisor
\* (pg_type_numeric_def.cpp:1878); and no digit behind the decimals that are
\* displayed, so nothing get_str_from_var leaves out comes back in a sum.
NormalForm == \A v \in {x, y} : DigitsOK(v) /\ DivisorTest(v) /\ NoHiddenDigits(v)

\* The comparison operators order numbers as their values, across signs,
\* scales and weights (cmp_var_common, cmp_abs_common).
ComparesValues ==
    Numbers => LET s == rscale
                   d == At(x, s) - At(y, s)
               IN cmp_var_common(x, y) = IF d = 0 THEN 0 ELSE IF d > 0 THEN 1 ELSE -1

SumsAndProducts ==
    Numbers /\ InBounds(x) /\ InBounds(y) =>
        /\ op' = <<"Add">> => x'.dscale = rscale /\ Mantissa(x') = At(x, rscale) + At(y, rscale)
        /\ op' = <<"Sub">> => x'.dscale = rscale /\ Mantissa(x') = At(x, rscale) - At(y, rscale)
        /\ op' = <<"Mul">> =>
             /\ x'.dscale = rscale
             /\ Mantissa(x') = Rounded(Mantissa(x) * Mantissa(y),
                                       10^(x.dscale + y.dscale - rscale))

Quotients ==
    Numbers /\ InBounds(x) /\ InBounds(y) =>
        LET X == At(x, rscale)
            Y == At(y, rscale)
            q(k) == IF Y < 0 THEN -Quot(X * k, -Y) ELSE Quot(X * k, Y)
        IN /\ op' = <<"Div">> => Mantissa(x') = q(10^rscale)
           /\ op' = <<"Mod">> => At(x', rscale) = X - Y * q(1)

NearestIntegers ==
    IsNumber(x) /\ InBounds(x) =>
        /\ op' = <<"Ceil">> => Mantissa(x') = -((-Mantissa(x)) \div 10^x.dscale)
        /\ op' = <<"Floor">> => Mantissa(x') = Mantissa(x) \div 10^x.dscale

\* Sums and differences are exact at the larger scale, whatever carries and
\* borrows run through the digits; a product is rounded once, half away from
\* zero, so that the two guard digits of mul_var lose nothing. Division
\* truncates the exact quotient, and the remainder completes it with the sign
\* of the dividend. ceil and floor are the nearest integers for both signs.
ExactArithmetic == [][SumsAndProducts /\ Quotients /\ NearestIntegers]_vars

\* A number read back from its own text has the same value and scale.
TextRoundTrip ==
    [][op' = <<"Reparse">> /\ IsNumber(x) => x'.dscale = x.dscale /\ Mantissa(x') = Mantissa(x)]_vars

\* The conversion to int64_t gives the nearest integer, and fails exactly
\* when that integer does not fit, the smallest one included; numeric::from
\* gives it back.
IntegerExact ==
    [][IsNumber(x) /\ InBounds(x) =>
       /\ op' = <<"ToInt64">> =>
            LET r == Rounded(Mantissa(x), 10^x.dscale)
            IN i64' = IF r \in PG_INT64_MIN..PG_INT64_MAX THEN <<r>> ELSE <<>>
       /\ op' = <<"FromInt64">> => Mantissa(x') = i64[1] /\ x'.dscale = 0]_vars

=============================================================================
