------------------------------- MODULE Wire --------------------------------
(***************************************************************************)
(* The binary format of parameters and results (src/src/data_parameters.cpp *)
(* and .h): new_parameter() turns a C++ value into the bytes of a           *)
(* parameter, val_from_pgparam<T>() turns the bytes of a column into a      *)
(* value of the type the program asks for. The machine is a program that    *)
(* sends a value, gets it back from the server as a column and reads it as  *)
(* some type, again and again.                                              *)
(*                                                                          *)
(* Integers are scaled: a byte of an integer has Radix values. Bytes that   *)
(* are not part of an integer (addresses, flags, characters) are symbols.   *)
(* A type is named after its oid; a value is [ty, v].                       *)
(***************************************************************************)
EXTENDS Integers, SequencesExt, FiniteSetsExt

CONSTANTS
    Radix,          \* number of values of a byte of an integer
    EPOCH_USEC,     \* POSTGRES_EPOCH_USEC, in ticks
    EPOCH_JDATE,    \* POSTGRES_EPOCH_JDATE, in days
    DAY,            \* ticks of a day
    MSEC,           \* ticks of a millisecond
    YEAR,           \* days of a common year
    FEB29,          \* the place of the leap day in a leap year, from 0
    EPOCH_YEAR,     \* the year whose first day is day 0
    FloatBits,      \* significant bits of a float
    DoubleBits,     \* significant bits of a double
    Today,          \* the day a program reads something without a date on
    Values,         \* the values the program starts from, one set per type
    MaxReads        \* bound on the values it reads

\* 2000-01-01 is a midnight: 946684800000000 is a multiple of a day.
ASSUME EpochAssumption == /\ Radix \in Nat /\ Radix % 2 = 0 /\ DAY \in Nat \ {0}
                          /\ MSEC \in Nat \ {0} /\ EPOCH_USEC % DAY = 0
ASSUME CalendarAssumption == YEAR \in Nat \ {0} /\ FEB29 \in 1..YEAR - 1 /\ EPOCH_YEAR \in Nat \ {0}

VARIABLES
    cur,        \* the value the program holds
    wire,       \* <<>>, or the parameter or column on its way
    served,     \* wire is a column, the answer of the server
    reads       \* number of reads

vars == <<cur, wire, served, reads>>

Integral == {"INT2", "INT4", "INT8"}
Temporal == {"TIME", "TIMETZ", "TIMESTAMP", "TIMESTAMPTZ", "DATE", "INTERVAL"}
Coordinates == [POINT |-> 2, LINE |-> 3, LSEG |-> 4, BOX |-> 4, CIRCLE |-> 3]
Geometric == DOMAIN Coordinates \cup {"PATH", "POLYGON"}
Subtype == [INT4RANGE |-> "INT4", INT8RANGE |-> "INT8", NUMRANGE |-> "NUMERIC",
            TSRANGE |-> "TIMESTAMP", TSTZRANGE |-> "TIMESTAMPTZ", DATERANGE |-> "DATE"]
Discrete == {"INT4RANGE", "INT8RANGE", "DATERANGE"}
Precision == [FLOAT4 |-> FloatBits, FLOAT8 |-> DoubleBits]
\* The element types of arrays; the oid of one is its place here.
Elements == <<"TEXT", "INT2", "INT4", "INT8", "FLOAT4", "FLOAT8", "NUMERIC", "CASH",
              "TIME", "TIMETZ", "TIMESTAMP", "TIMESTAMPTZ", "DATE", "INTERVAL", "JSONB",
              "BYTEA", "UUID", "OID", "CIDR", "INET", "MACADDR", "MACADDR8",
              "POINT", "LINE", "LSEG", "BOX", "PATH", "POLYGON", "CIRCLE">>
OidOf(ty) == CHOOSE i \in DOMAIN Elements : Elements[i] = ty

(***************************************************************************)
(* Integers in network byte order, and the bytes of them behind offset o.   *)
(***************************************************************************)
AsSigned(w, u) == IF 2 * u >= Radix^w THEN u - Radix^w ELSE u
Cast(w, i) == AsSigned(w, i % Radix^w)      \* a conversion to w bytes
Digits(w, i) == [k \in 1..w |-> ((i % Radix^w) \div Radix^(w - k)) % Radix]
swap2(i) == Digits(2, i)
swap4(i) == Digits(4, i)
swap8(i) == Digits(8, i)
FromDigits(ds) ==
    LET upto[k \in 0..Len(ds)] == IF k = 0 THEN 0 ELSE upto[k - 1] * Radix + ds[k]
    IN upto[Len(ds)]
IntAt(b, o, w) == AsSigned(w, FromDigits(SubSeq(b, o + 1, o + w)))
\* Bytes that are copied one by one.
Raw(b, o, n) == SubSeq(b, o + 1, o + n)
Width == [INT2 |-> 2, INT4 |-> 4, INT8 |-> 8, FLOAT4 |-> 4, FLOAT8 |-> 8, CASH |-> 8, OID |-> 4]

(***************************************************************************)
(* Floats: the numbers with at most Precision significant bits. The word of *)
(* one is its sign, its exponent and its significant bits; a conversion     *)
(* rounds to the nearest, of two equally near ones to the even.             *)
(***************************************************************************)
Abs(i) == IF i < 0 THEN -i ELSE i
Exponent(p, a) == Min({e \in 0..15 : a < 2^(p + e)})
Rounded(ty, i) ==
    LET unit == 2^Exponent(Precision[ty], Abs(i))
        q == Abs(i) \div unit
        r == 2 * (Abs(i) % unit)
        up == r > unit \/ (r = unit /\ q % 2 = 1)
    IN (IF i < 0 THEN -1 ELSE 1) * (IF up THEN q + 1 ELSE q) * unit
FloatWord(ty, v) ==
    LET p == Precision[ty] e == Exponent(p, Abs(v))
    IN (IF v < 0 THEN Radix^Width[ty] \div 2 ELSE 0) + e * 2^p + Abs(v) \div 2^e
FloatOf(ty, word) ==
    LET p == Precision[ty] half == Radix^Width[ty] \div 2 u == word % half
    IN (IF word >= half THEN -1 ELSE 1) * (u % 2^p) * 2^(u \div 2^p)

(***************************************************************************)
(* The calendar of the date library (external), with every fourth year a    *)
(* leap year, and what pq-async does with it: PostgreSQL counts a year 0,   *)
(* which is 1 BC; in a C++ value 1 BC is the year -1. A timestamp is the    *)
(* ticks of a time point, a date is a year and a day of a leap year.        *)
(***************************************************************************)
Leap(y) == y % 4 = 0
StartOf(y) == (y - EPOCH_YEAR) * YEAR + (y + 3) \div 4 - (EPOCH_YEAR + 3) \div 4
YearOf(d) ==
    LET cycle == 4 * YEAR + 1 n == d - StartOf(0) r == n % cycle
    IN 4 * (n \div cycle) + (IF r <= YEAR THEN 0 ELSE (r - 1) \div YEAR)
\* The days that an int64_t of ticks reaches, and their dates; PlusYears may
\* leave them by a year.
Days == -(Radix^8 \div (2 * DAY)) - 1 .. Radix^8 \div (2 * DAY)
Dates == [y : YearOf(Min(Days)) - 1 .. YearOf(Max(Days)) + 1, md : 0..YEAR]
year_month_day == [d \in Days |->
    LET y == YearOf(d) r == d - StartOf(y)
    IN [y |-> y, md |-> IF ~Leap(y) /\ r >= FEB29 THEN r + 1 ELSE r]]
\* The leap day of a year that has none is the day after it.
sys_days == [c \in Dates |->
    StartOf(c.y) + (IF ~Leap(c.y) /\ c.md > FEB29 THEN c.md - 1 ELSE c.md)]
PlusYears(c, k) == [c EXCEPT !.y = @ + k]

date == [d \in Days |->
    LET c == year_month_day[d] IN IF c.y < 1 THEN PlusYears(c, -1) ELSE c]
timestamp(ticks) ==
    IF year_month_day[ticks \div DAY].y < 1
    THEN Cast(8, sys_days[date[ticks \div DAY]] * DAY + (ticks % DAY)) ELSE ticks
\* pgticks() throws in the year zero, and takes the year off again before it.
pgdays == [c \in Dates |-> sys_days[IF c.y > 0 THEN c ELSE PlusYears(c, 1)]]
pgticks_NoShift(ty, x) == IF ty = "DATE" THEN sys_days[x] ELSE x
pgticks(ty, x) ==
    IF ty = "DATE" THEN pgdays[x] ELSE pgdays[year_month_day[x \div DAY]] * DAY + (x % DAY)
CalendarDate(ty, x) == IF ty = "DATE" THEN x ELSE year_month_day[x \div DAY]
YearZero(ty, v) ==
    ty \in {"TIMESTAMP", "TIMESTAMPTZ", "DATE"} /\ v # <<>> /\ CalendarDate(ty, v[1]).y = 0

(***************************************************************************)
(* new_parameter: the bytes of a value. A null time, date or interval is    *)
(* <<>>, sent as a null parameter; a binary parameter has fmt 1.            *)
(***************************************************************************)
NUL == <<"NUL">>
Param(oid, b) == [oid |-> oid, fmt |-> 1, null |-> FALSE, b |-> b]
new_null_parameter(oid) == [oid |-> oid, fmt |-> 1, null |-> TRUE, b |-> <<>>]

new_parameter_number(ty, v) ==
    Param(ty, Digits(Width[ty], IF ty \in DOMAIN Precision THEN FloatWord(ty, v) ELSE v))

SignCode == [POS |-> 0, NEG |-> Radix, NAN |-> 3 * Radix]
new_parameter_numeric(v) ==
    Param("NUMERIC", swap2(Len(v.digits)) \o swap2(v.weight) \o swap2(v.sign)
                     \o swap2(v.dscale) \o FlattenSeq([i \in DOMAIN v.digits |-> swap2(v.digits[i])]))

new_parameter_temporal(ty, v) ==
    IF v = <<>> THEN new_null_parameter(ty)
    ELSE Param(ty, CASE ty = "TIME" -> swap8(v[1])
                     \* the time of day in UTC; the zone is always sent as 0
                     [] ty = "TIMETZ" -> swap8(v[1] % DAY) \o swap4(0)
                     [] ty \in {"TIMESTAMP", "TIMESTAMPTZ"} -> swap8(pgticks(ty, v[1]) - EPOCH_USEC)
                     [] ty = "DATE" -> swap4(pgticks(ty, v[1]) - EPOCH_JDATE)
                     [] ty = "INTERVAL" -> swap8(v[1].t) \o swap4(v[1].d) \o swap4(v[1].m))

\* Texts, and the types that are sent as text: the server parses them.
AsText(ty, v) == IF ty = "BYTEA" THEN <<"\\x">> \o v ELSE v
new_parameter_text(ty, v) == [Param(ty, AsText(ty, v) \o NUL) EXCEPT !.fmt = 0]
\* jsonb has a version byte in front.
new_parameter_json(v) == Param("JSONB", <<1>> \o v)

PGSQL_AF_INET == 2
PGSQL_AF_INET6 == 3
new_parameter_net(ty, v) ==
    Param(ty, CASE ty \in {"CIDR", "INET"} ->
                       <<IF v.family = "inet" THEN PGSQL_AF_INET ELSE PGSQL_AF_INET6, v.bits,
                         IF ty = "CIDR" THEN 1 ELSE 0, Len(v.ipaddr)>> \o v.ipaddr
                [] OTHER -> v)

Doubles(p) == FlattenSeq([i \in DOMAIN p |-> swap8(p[i])])
new_parameter_geometry(ty, v) ==
    Param(ty, CASE ty = "PATH" -> <<IF v.closed THEN 1 ELSE 0>> \o swap4(Len(v.p) \div 2) \o Doubles(v.p)
                [] ty = "POLYGON" -> swap4(Len(v.p) \div 2) \o Doubles(v.p)
                [] OTHER -> Doubles(v))

has_lbound(flags) == flags \cap {"empty", "lb_null", "lb_inf"} = {}
has_ubound(flags) == flags \cap {"empty", "ub_null", "ub_inf"} = {}
BoundBytes(ty, bound) ==
    CASE ty = "NUMERIC" -> new_parameter_numeric(bound).b
      [] ty \in Integral -> new_parameter_number(ty, bound).b
      [] OTHER -> new_parameter_temporal(ty, bound).b
new_parameter_range(ty, v) ==
    LET Bound(has, bound) ==
            IF has THEN LET b == BoundBytes(Subtype[ty], bound) IN swap4(Len(b)) \o b ELSE <<>>
    IN Param(ty, <<v.flags>> \o Bound(has_lbound(v.flags), v.lb)
                             \o Bound(has_ubound(v.flags), v.ub))

\* The overloads of new_parameter for one value.
new_parameter(x) ==
    CASE x.ty = "BOOL" -> Param("BOOL", <<IF x.v THEN 1 ELSE 0>>)
      [] x.ty \in DOMAIN Width -> new_parameter_number(x.ty, x.v)
      [] x.ty = "NUMERIC" -> new_parameter_numeric(x.v)
      [] x.ty \in Temporal -> new_parameter_temporal(x.ty, x.v)
      [] x.ty \in {"TEXT", "BYTEA", "UUID"} -> new_parameter_text(x.ty, x.v)
      [] x.ty = "JSONB" -> new_parameter_json(x.v)
      [] x.ty \in {"CIDR", "INET", "MACADDR", "MACADDR8"} -> new_parameter_net(x.ty, x.v)
      [] x.ty \in Geometric -> new_parameter_geometry(x.ty, x.v)
      [] x.ty \in DOMAIN Subtype -> new_parameter_range(x.ty, x.v)

\* Arrays: dimensions, null flag, element oid, the size and lower bound of
\* each dimension, then every element behind its length. The text of an
\* element of a text array is sent without its NUL, any other whole.
ElementBytes(ty, e) ==
    LET p == new_parameter([ty |-> ty, v |-> e]) IN IF ty = "TEXT" THEN Front(p.b) ELSE p.b
new_parameter_gen(x) ==
    LET Element(e) == LET b == ElementBytes(x.of, e) IN swap4(Len(b)) \o b
    IN Param("ARRAY", swap4(Len(x.dims)) \o swap4(0) \o swap4(OidOf(x.of))
                      \o FlattenSeq([i \in DOMAIN x.dims |-> swap4(x.dims[i]) \o swap4(1)])
                      \o FlattenSeq([i \in DOMAIN x.v |-> Element(x.v[i])]))

(***************************************************************************)
(* pgval_to_*: a value from the bytes of a binary column.                   *)
(***************************************************************************)
pgval_to_bool(b) == b[1] # 0
pgval_to_int(b, w) == IntAt(b, 0, w)
pgval_to_float(ty, b) == FloatOf(ty, FromDigits(b))
NumberAt(oid, b) ==
    IF oid \in DOMAIN Precision THEN pgval_to_float(oid, b) ELSE pgval_to_int(b, Width[oid])
pgval_to_numeric(b) ==
    LET nd == IntAt(b, 0, 2)
    IN [weight |-> IntAt(b, 2, 2), sign |-> IntAt(b, 4, 2), dscale |-> IntAt(b, 6, 2),
        digits |-> [i \in 1..nd |-> IntAt(b, 6 + 2 * i, 2)]]

pgval_to_temporal(ty, b) ==
    CASE ty = "TIME" -> <<(IntAt(b, 0, 8) + EPOCH_USEC) % DAY>>
      [] ty = "TIMETZ" -> <<IntAt(b, 0, 8) + Today * DAY>>        \* the zone is not read
      [] ty \in {"TIMESTAMP", "TIMESTAMPTZ"} -> <<timestamp(Cast(8, IntAt(b, 0, 8) + EPOCH_USEC))>>
      [] ty = "DATE" -> <<date[Cast(4, IntAt(b, 0, 4) + EPOCH_JDATE)]>>
      [] ty = "INTERVAL" -> <<[t |-> IntAt(b, 0, 8), d |-> IntAt(b, 8, 4), m |-> IntAt(b, 12, 4)]>>

pgval_to_net(ty, b) ==
    CASE ty \in {"CIDR", "INET"} ->
            [family |-> IF b[1] = PGSQL_AF_INET THEN "inet" ELSE "inet6", bits |-> b[2],
             ipaddr |-> Raw(b, 4, b[4])]
      [] ty = "MACADDR" -> Raw(b, 0, 6)
      [] ty = "MACADDR8" -> Raw(b, 0, 8)

DoublesAt(b, o, n) == [i \in 1..n |-> IntAt(b, o + 8 * (i - 1), 8)]
pgval_to_geometry(ty, b) ==
    CASE ty = "PATH" -> [closed |-> b[1] = 1, p |-> DoublesAt(b, 5, 2 * IntAt(b, 1, 4))]
      [] ty = "POLYGON" -> [p |-> DoublesAt(b, 4, 2 * IntAt(b, 0, 4))]
      [] OTHER -> DoublesAt(b, 0, Coordinates[ty])

\* A range: the bounds its flags announce, each behind its length, and the
\* place the last of them ends at. A bound that is not there is T().
DefaultBound(sub) ==
    CASE sub = "NUMERIC" -> [weight |-> 0, sign |-> SignCode.POS, dscale |-> 0, digits |-> <<>>]
      [] sub \in Integral -> 0
      [] OTHER -> <<>>
pgval_to_range_NoUpper(ty, b) ==
    [flags |-> b[1], lb |-> DefaultBound(Subtype[ty]), ub |-> DefaultBound(Subtype[ty]),
     end |-> IF has_lbound(b[1]) THEN 5 + IntAt(b, 1, 4) ELSE 1]
pgval_to_range(ty, b) ==
    LET sub == Subtype[ty]
        Bound(o) == LET l == IntAt(b, o, 4) e == Raw(b, o + 4, l)
                    IN CASE sub = "NUMERIC" -> pgval_to_numeric(e)
                         [] sub \in Integral -> pgval_to_int(e, Width[sub])
                         [] OTHER -> pgval_to_temporal(sub, e)
        After(has, o) == IF has THEN o + 4 + IntAt(b, o, 4) ELSE o
        lo == After(has_lbound(b[1]), 1)
    IN [flags |-> b[1], lb |-> IF has_lbound(b[1]) THEN Bound(1) ELSE DefaultBound(sub),
        ub |-> IF has_ubound(b[1]) THEN Bound(lo) ELSE DefaultBound(sub),
        end |-> After(has_ubound(b[1]), lo)]

(***************************************************************************)
(* val_from_pgparam<T>: <<value>>, or <<>> when it throws. The text of a    *)
(* number or of a time is one symbol, <<"num", i>> or <<oid, value>>.       *)
(***************************************************************************)
NumericValue(x) ==
    (IF x.sign = SignCode.NEG THEN -1 ELSE 1)
    * FromDigits([i \in 1..x.weight + 1 |-> IF i \in DOMAIN x.digits THEN x.digits[i] ELSE 0])
\* md::num_to_str, and md::str_to_num to w bytes
num_to_str(i) == <<<<"num", i>>>>
str_to_num_Truncates(s, w) ==
    IF Len(s) = 1 /\ s[1][1] = "num" THEN <<Cast(w, s[1][2])>> ELSE <<>>
str_to_num(s, w) ==
    IF Len(s) = 1 /\ s[1][1] = "num" /\ Cast(w, s[1][2]) = s[1][2] THEN <<s[1][2]>> ELSE <<>>

NumericText(b) ==
    LET x == pgval_to_numeric(b)
    IN IF x.dscale = 0 THEN num_to_str(NumericValue(x)) ELSE <<<<"numeric", x>>>>
as_string(oid, b) ==
    CASE oid = "BOOL" -> <<<<<<"bool", pgval_to_bool(b)>>>>>>
      [] oid = "JSONB" -> <<IF b[1] = 1 THEN Tail(b) ELSE b>>
      [] oid = "TEXT" -> <<b>>
      [] oid \in Integral \cup {"FLOAT4", "FLOAT8"} -> <<num_to_str(NumberAt(oid, b))>>
      [] oid = "NUMERIC" -> <<NumericText(b)>>
      [] oid \in Temporal -> <<<<<<oid, pgval_to_temporal(oid, b)>>>>>>
      [] oid \in {"CIDR", "INET", "MACADDR", "MACADDR8"} -> <<<<<<oid, pgval_to_net(oid, b)>>>>>>
      [] oid \in Geometric -> <<<<<<oid, pgval_to_geometry(oid, b)>>>>>>
      [] oid \in DOMAIN Subtype -> <<<<<<oid, pgval_to_range(oid, b)>>>>>>
      [] OTHER -> <<>>

\* json::parse reads a document; every other type becomes a json value.
as_json(oid, b) ==
    CASE oid = "TEXT" -> <<<<<<"string", b>>>>>>
      [] oid = "CASH" -> <<<<<<"cash", pgval_to_int(b, 8)>>>>>>
      [] OTHER -> as_string(oid, b)

as_bool(oid, b) ==
    CASE oid = "BOOL" -> <<pgval_to_bool(b)>>
      [] oid = "TEXT" -> <<b \notin {<<<<"bool", FALSE>>>>, num_to_str(0)}>>
      [] oid \in Integral \cup {"FLOAT4", "FLOAT8"} -> <<NumberAt(oid, b) # 0>>
      [] oid = "NUMERIC" -> <<NumericText(b) # num_to_str(0)>>
      [] OTHER -> <<>>

\* Money goes to numeric through its text (Money.tla has the details; here
\* the locale has no fraction digits).
NumericOf(i) ==
    LET a == IF i < 0 THEN -i ELSE i
        nz == {k \in 0..7 : (a \div Radix^k) % Radix # 0}
    IN IF i = 0 THEN [sign |-> SignCode.POS, dscale |-> 0, weight |-> 0, digits |-> <<>>]
       ELSE [sign |-> IF i < 0 THEN SignCode.NEG ELSE SignCode.POS, dscale |-> 0, weight |-> Max(nz),
             digits |-> [k \in 1..Max(nz) - Min(nz) + 1 |-> (a \div Radix^(Max(nz) - k + 1)) % Radix]]
as_numeric(ty, oid, b) ==
    CASE oid = ty -> <<IF ty = "NUMERIC" THEN pgval_to_numeric(b) ELSE pgval_to_int(b, 8)>>
      [] ty = "NUMERIC" /\ oid = "CASH" -> <<NumericOf(pgval_to_int(b, 8))>>
      [] ty = "CASH" /\ oid = "NUMERIC" -> <<NumericValue(pgval_to_numeric(b))>>
      [] OTHER -> <<>>

Ticks(oid, b) == LET t == pgval_to_temporal(oid, b)[1]
                 IN CASE oid = "INTERVAL" -> t.t
                      [] oid = "TIMETZ" -> t \div MSEC
                      [] oid = "TIME" -> t
                      [] OTHER -> pgticks(oid, t)
as_integer(ty, oid, b) ==
    CASE oid = "BOOL" -> <<IF pgval_to_bool(b) THEN 1 ELSE 0>>
      [] oid = "TEXT" -> str_to_num(b, Width[ty])
      [] oid \in Integral \cup {"FLOAT4", "FLOAT8"} -> <<Cast(Width[ty], NumberAt(oid, b))>>
      \* the text of the number; an int64_t is read through int16_t
      [] oid = "NUMERIC" -> str_to_num(NumericText(b), IF ty = "INT8" THEN 2 ELSE Width[ty])
      [] oid \in Temporal /\ ty # "INT2" -> <<Cast(Width[ty], Ticks(oid, b))>>
      [] OTHER -> <<>>

\* A cast, or the text of the number: the nearest float either way.
as_float(ty, oid, b) ==
    LET NumberIn(text) == {e[2] : e \in {e \in Range(text) : Len(text) = 1 /\ e[1] = "num"}}
        numbers == CASE oid = "BOOL" -> {IF pgval_to_bool(b) THEN 1 ELSE 0}
                     [] oid \in Integral \cup {"FLOAT4", "FLOAT8"} -> {NumberAt(oid, b)}
                     [] oid = "TEXT" -> NumberIn(b)
                     [] oid = "NUMERIC" -> NumberIn(NumericText(b))
                     [] OTHER -> {}
    IN SetToSeq({Rounded(ty, i) : i \in numbers})

\* A number is taken for ticks since 1970.
TicksOf(oid, b) ==
    IF oid \in Integral \cup {"FLOAT4", "FLOAT8"} THEN <<NumberAt(oid, b)>> ELSE <<>>
\* parse() of a date or an interval ignores the text; another text that is no
\* time leaves the default, which is now, or throws.
ParsedFrom(ty, b) ==
    CASE ty = "DATE" -> <<<<year_month_day[Today]>>>>
      [] ty = "INTERVAL" -> <<<<[t |-> 0, d |-> 0, m |-> 0]>>>>
      [] Len(b) = 1 /\ b[1][1] = ty -> <<b[1][2]>>
      [] OTHER -> CASE ty = "TIMESTAMP" -> <<<<Today * DAY>>>>
                    [] ty = "TIMESTAMPTZ" -> <<>>
                    [] OTHER -> <<<<0>>>>
as_time(ty, oid, b) ==
    CASE oid = "TEXT" -> ParsedFrom(ty, b)
      [] oid = ty -> <<pgval_to_temporal(ty, b)>>
      [] OTHER -> IF TicksOf(oid, b) = <<>> THEN <<>> ELSE <<<<TicksOf(oid, b)[1] % DAY>>>>
as_timestamp(ty, oid, b) ==
    CASE oid = "TEXT" -> ParsedFrom(ty, b)
      [] oid \in {"TIMESTAMP", "TIMESTAMPTZ"} -> <<pgval_to_temporal(oid, b)>>
      [] OTHER -> IF TicksOf(oid, b) = <<>> THEN <<>> ELSE <<<<timestamp(TicksOf(oid, b)[1])>>>>
as_date(ty, oid, b) ==
    CASE oid = "TEXT" -> ParsedFrom(ty, b)
      [] oid = ty -> <<pgval_to_temporal(ty, b)>>
      [] OTHER -> IF TicksOf(oid, b) = <<>> THEN <<>>
                  ELSE IF ty = "DATE" THEN <<<<date[Cast(4, TicksOf(oid, b)[1])]>>>>
                  ELSE <<<<[t |-> TicksOf(oid, b)[1], d |-> 0, m |-> 0]>>>>

as_bytes(ty, oid, b) ==
    IF oid # ty THEN <<>>
    ELSE CASE ty = "OID" -> <<pgval_to_int(b, 4) % Radix^4>>
           [] ty = "UUID" -> IF Len(b) = 16 THEN <<b>> ELSE <<>>
           [] ty = "BYTEA" -> <<b>>
           [] OTHER -> <<pgval_to_net(ty, b)>>
as_geometry(ty, oid, b) == IF oid = ty THEN <<pgval_to_geometry(ty, b)>> ELSE <<>>
as_range(ty, oid, b) ==
    IF oid = ty
    THEN LET r == pgval_to_range(ty, b) IN <<[flags |-> r.flags, lb |-> r.lb, ub |-> r.ub]>>
    ELSE <<>>

val_from_pgparam(ty, oid, b) ==
    CASE ty = "BOOL" -> as_bool(oid, b)
      [] ty = "TEXT" -> as_string(oid, b)
      [] ty = "JSONB" -> as_json(oid, b)
      [] ty \in {"NUMERIC", "CASH"} -> as_numeric(ty, oid, b)
      [] ty \in Integral -> as_integer(ty, oid, b)
      [] ty \in {"FLOAT4", "FLOAT8"} -> as_float(ty, oid, b)
      [] ty \in {"TIME", "TIMETZ"} -> as_time(ty, oid, b)
      [] ty \in {"TIMESTAMP", "TIMESTAMPTZ"} -> as_timestamp(ty, oid, b)
      [] ty \in {"DATE", "INTERVAL"} -> as_date(ty, oid, b)
      [] ty \in Geometric -> as_geometry(ty, oid, b)
      [] ty \in DOMAIN Subtype -> as_range(ty, oid, b)
      [] OTHER -> as_bytes(ty, oid, b)

\* An array: as many elements as the product of the dimensions says, each
\* behind its length, and the place the last of them ends at.
ArrayParts(b) ==
    LET ndim == IntAt(b, 0, 4)
        dims == [i \in 1..ndim |-> IntAt(b, 12 + 8 * (i - 1), 4)]
        count == IF ndim > 0 THEN FoldLeft(LAMBDA p, d : p * d, 1, dims) ELSE 0
        Cut(st, i) == LET l == IntAt(b, st.end, 4)
                      IN [end |-> st.end + 4 + l, v |-> Append(st.v, Raw(b, st.end + 4, l))]
        st == FoldLeft(Cut, [end |-> 12 + 8 * ndim, v |-> <<>>], [i \in 1..count |-> i])
    IN [dims |-> dims, of |-> Elements[IntAt(b, 8, 4)], end |-> st.end, v |-> st.v]
pgval_to_array(ty, b) ==
    LET a == ArrayParts(b)
    IN [dims |-> a.dims, v |-> FoldLeft(LAMBDA vs, e : Append(vs, val_from_pgparam(ty, a.of, e)), <<>>, a.v)]

(***************************************************************************)
(* The machine.                                                             *)
(***************************************************************************)
Types == Range(Elements) \cup {"BOOL"} \cup DOMAIN Subtype

Init == /\ \E i \in DOMAIN Values : cur \in Values[i]
        /\ wire = <<>> /\ served = FALSE /\ reads = 0

Got(x) == cur' = x /\ wire' = <<>> /\ served' = FALSE /\ reads' = reads + 1

\* new_parameter throws for an instant or a date of the year zero.
Unsendable(x) ==
    CASE x.ty = "ARRAY" -> \E i \in DOMAIN x.v : YearZero(x.of, x.v[i])
      [] x.ty \in DOMAIN Subtype ->
             \/ has_lbound(x.v.flags) /\ YearZero(Subtype[x.ty], x.v.lb)
             \/ has_ubound(x.v.flags) /\ YearZero(Subtype[x.ty], x.v.ub)
      [] OTHER -> YearZero(x.ty, x.v)
Send == /\ wire = <<>> /\ reads < MaxReads /\ ~Unsendable(cur)
        /\ wire' = <<IF cur.ty = "ARRAY" THEN new_parameter_gen(cur) ELSE new_parameter(cur)>>
        /\ UNCHANGED <<cur, served, reads>>
SendThrows == wire = <<>> /\ reads < MaxReads /\ Unsendable(cur) /\ Got(cur)

(***************************************************************************)
(* The server (external): SELECT $1, with a result in binary format, or an  *)
(* error. It ignores flags that are its own, writes a discrete range as     *)
(* [lb,ub) and an array without elements without dimensions.                *)
(***************************************************************************)
ServerRange(p) ==
    LET w == IF p.oid = "INT8RANGE" THEN 8 ELSE 4
        top == Radix^w \div 2 - 1
        flags == p.b[1] \cap {"empty", "lb_inc", "ub_inc", "lb_inf", "ub_inf"}
        has_lb == has_lbound(flags)
        has_ub == has_ubound(flags)
        lb == IntAt(p.b, 5, w)
        ub == IntAt(p.b, IF has_lb THEN 9 + w ELSE 5, w)
        first == IF "lb_inc" \in flags THEN lb ELSE lb + 1
        after == IF "ub_inc" \in flags THEN ub + 1 ELSE ub
    IN CASE "empty" \in flags -> <<Param(p.oid, <<{"empty"}>>)>>
         [] p.oid \notin Discrete -> <<Param(p.oid, <<flags>> \o Tail(p.b))>>
         [] (has_lb /\ first > top) \/ (has_ub /\ after > top) \/ (has_lb /\ has_ub /\ lb > ub) -> <<>>
         [] has_lb /\ has_ub /\ first >= after -> <<Param(p.oid, <<{"empty"}>>)>>
         [] OTHER -> <<Param(p.oid,
                <<(flags \cap {"lb_inf", "ub_inf"}) \cup (IF has_lb THEN {"lb_inc"} ELSE {})>>
                \o (IF has_lb THEN swap4(w) \o Digits(w, first) ELSE <<>>)
                \o (IF has_ub THEN swap4(w) \o Digits(w, after) ELSE <<>>))>>
ServerArray(p) ==
    IF \E i \in 1..IntAt(p.b, 0, 4) : IntAt(p.b, 4 + 8 * i, 4) = 0
    THEN Param(p.oid, swap4(0) \o Raw(p.b, 4, 8)) ELSE p
Echo(p) ==
    CASE p.null -> <<p>>
      [] p.fmt = 0 -> <<Param(p.oid, Front(IF p.oid = "BYTEA" THEN Tail(p.b) ELSE p.b))>>
      [] p.oid = "ARRAY" -> <<ServerArray(p)>>
      [] p.oid \in DOMAIN Subtype -> ServerRange(p)
      [] p.oid = "PATH" /\ IntAt(p.b, 1, 4) = 0 -> <<>>
      [] p.oid = "POLYGON" /\ IntAt(p.b, 0, 4) = 0 -> <<>>
      [] OTHER -> <<p>>

Answer == /\ wire # <<>> /\ ~served /\ Echo(wire[1]) # <<>>
          /\ wire' = Echo(wire[1]) /\ served' = TRUE /\ UNCHANGED <<cur, reads>>
Refuse == wire # <<>> /\ ~served /\ Echo(wire[1]) = <<>> /\ Got(cur)

Column == wire[1]
IsValue == served /\ ~Column.null /\ Column.oid # "ARRAY"

ReadAs(ty) ==
    /\ IsValue
    /\ \E r \in {val_from_pgparam(ty, Column.oid, Column.b)} :
          \/ r # <<>> /\ Got([ty |-> ty, v |-> r[1]])
          \/ r = <<>> /\ Got(cur)
ReadNull == served /\ Column.null /\ Got([ty |-> Column.oid, v |-> <<>>])
\* An element that cannot be converted makes the whole read throw.
ReadArrayAs(ty) ==
    /\ served /\ Column.oid = "ARRAY"
    /\ \E a \in {pgval_to_array(ty, Column.b)} :
          Got(IF \E i \in DOMAIN a.v : a.v[i] = <<>> THEN cur
              ELSE [ty |-> "ARRAY", of |-> ty, dims |-> a.dims, v |-> [i \in DOMAIN a.v |-> a.v[i][1]]])

\* A float beyond the integer it is cast to: undefined, the lowest integer
\* here, or the low bytes (ReadAs).
ReadUndefined(ty) ==
    /\ IsValue /\ ty \in Integral /\ Column.oid \in DOMAIN Precision
    /\ Cast(Width[ty], NumberAt(Column.oid, Column.b)) # NumberAt(Column.oid, Column.b)
    /\ Got([ty |-> ty, v |-> -(Radix^Width[ty] \div 2)])

Next == \/ Send \/ SendThrows \/ Answer \/ Refuse \/ ReadNull
        \/ \E ty \in Integral : ReadUndefined(ty)
        \/ \E ty \in Types : ReadAs(ty)
        \/ \E ty \in Range(Elements) : ReadArrayAs(ty)

Spec == Init /\ [][Next]_vars

(***************************************************************************)
(* Properties.                                                              *)
(***************************************************************************)
\* What reading a value of type ty back may change: the day of a time with
\* time zone is the day it is read on; a leap day before the year 1 becomes the
\* day after it, because the year next to it has none; and a numeric NaN comes
\* back with the sign code 0xC000 as a negative int16_t, which is_nan() does
\* not recognise (data_parameters.cpp:152).
LostLeapDay(ty, x) == LET c == CalendarDate(ty, x) IN c.y < 0 /\ c.md = FEB29 /\ ~Leap(c.y + 1)
ScalarKept(ty, x, y) ==
    CASE ty = "TIMETZ" -> y[1] % DAY = x[1] % DAY
      [] ty \in {"TIMESTAMP", "TIMESTAMPTZ"} -> y[1] = x[1] + (IF LostLeapDay(ty, x[1]) THEN DAY ELSE 0)
      [] ty = "DATE" -> y[1] = IF LostLeapDay(ty, x[1]) THEN [x[1] EXCEPT !.md = @ + 1] ELSE x[1]
      [] ty = "NUMERIC" /\ x.sign = SignCode.NAN -> y = [x EXCEPT !.sign = Cast(2, SignCode.NAN)]
      [] OTHER -> x = y

\* The elements of a discrete range; a date counts as the day it is sent as.
Point(sub, bound) == CASE sub # "DATE" -> bound [] bound = <<>> -> 0 [] OTHER -> pgticks(sub, bound[1])
InRange(sub, r, k) ==
    /\ "empty" \notin r.flags
    /\ has_lbound(r.flags) => \/ Point(sub, r.lb) < k
                              \/ "lb_inc" \in r.flags /\ Point(sub, r.lb) = k
    /\ has_ubound(r.flags) => \/ k < Point(sub, r.ub)
                              \/ "ub_inc" \in r.flags /\ k = Point(sub, r.ub)
RangeKept(ty, x, y) ==
    LET sub == Subtype[ty]
    IN IF ty \in Discrete
       THEN \A p \in {Point(sub, b) : b \in {x.lb, x.ub, y.lb, y.ub}} : \A k \in p - 1..p + 1 :
                InRange(sub, x, k) <=> InRange(sub, y, k)
       ELSE /\ y.flags = IF "empty" \in x.flags THEN {"empty"} ELSE x.flags \ {"contain_empty"}
            /\ has_lbound(y.flags) => ScalarKept(sub, x.lb, y.lb)
            /\ has_ubound(y.flags) => ScalarKept(sub, x.ub, y.ub)

ValueKept ==
    /\ IsValue => \E r \in {val_from_pgparam(cur.ty, Column.oid, Column.b)} :
                     /\ r # <<>>
                     /\ IF cur.ty \in DOMAIN Subtype THEN RangeKept(cur.ty, cur.v, r[1])
                        ELSE ScalarKept(cur.ty, cur.v, r[1])
    /\ served /\ Column.null => cur.v = <<>>

ArrayKept ==
    served /\ Column.oid = "ARRAY" /\ cur.of \notin {"BYTEA", "UUID"} =>
        \E a \in {pgval_to_array(cur.of, Column.b)} :
           /\ a.dims = (IF cur.v = <<>> THEN <<>> ELSE cur.dims) /\ Len(a.v) = Len(cur.v)
           /\ \A i \in DOMAIN a.v : a.v[i] # <<>> /\ ScalarKept(cur.of, cur.v[i], a.v[i][1])

Framed ==
    wire # <<>> /\ ~Column.null =>
        /\ Column.oid = "ARRAY" => ArrayParts(Column.b).end = Len(Column.b)
        /\ Column.oid \in DOMAIN Subtype =>
               pgval_to_range(Column.oid, Column.b).end = Len(Column.b)

\* What the program sent is what it reads, when it asks for the type it sent
\* and the server did not refuse it, for every type of the library, whatever
\* it went through before, but for what ScalarKept names. A range of integers
\* or of dates comes back as a range with the same elements
\* (range_types_test.cpp:40 has the two forms of one), any other range with
\* its bounds and flags; an array with its dimensions, if it has elements and
\* they are not sent as text (bytea and uuid: data_parameters.cpp:1144 and
\* 1160). The reader of an array or of a range stops at the last byte:
\* lengths, counts and flags agree.
RoundTrip == ValueKept /\ ArrayKept /\ Framed

\* An integer read as a wider type, or as text and then as a number, is the
\* same integer. As a float or a double it is wrong by no more than half of
\* the last of its significant bits, so that one they hold is exact: a cast
\* does not throw (data_parameters.cpp:2097). A whole numeric read as an
\* integer is that number, or the read throws, but never another number.
NumbersKept ==
    /\ IsValue /\ cur.ty \in Integral =>
           /\ \A ty \in Integral : Width[ty] >= Width[cur.ty] =>
                  val_from_pgparam(ty, Column.oid, Column.b) = <<cur.v>>
           /\ \A ty \in DOMAIN Precision :
                  \E r \in {val_from_pgparam(ty, Column.oid, Column.b)} :
                     /\ r # <<>> /\ Abs(r[1] - cur.v) * 2^Precision[ty] <= Abs(cur.v)
                     /\ Abs(cur.v) <= 2^Precision[ty] => r[1] = cur.v
           /\ str_to_num(as_string(Column.oid, Column.b)[1], Width[cur.ty]) = <<cur.v>>
           /\ as_bool(Column.oid, Column.b) = <<cur.v # 0>>
    /\ IsValue /\ cur.ty = "NUMERIC" /\ cur.v.dscale = 0 =>
           \A ty \in Integral : as_integer(ty, Column.oid, Column.b) \in {<<>>, <<NumericValue(cur.v)>>}

\* The two epochs and the two ways to count the years before 1 never mix: a
\* time stamp read as a number is the server's ticks since 1970, which for one
\* of the year 1 or later are those of the C++ value, and for one before are
\* those of the same date a year later; read as the other kind of time stamp
\* it is the same instant, and so the same date on both sides.
InstantKept ==
    IsValue /\ cur.ty \in {"TIME", "TIMESTAMP", "TIMESTAMPTZ"} =>
        /\ LET t == cur.v[1]
               c == year_month_day[t \div DAY]
           IN as_integer("INT8", Column.oid, Column.b) =
                <<IF cur.ty = "TIME" \/ c.y > 0 THEN t
                  ELSE sys_days[PlusYears(c, 1)] * DAY + (t % DAY)>>
        /\ cur.ty # "TIME" => \A ty \in {"TIMESTAMP", "TIMESTAMPTZ"} :
               \E r \in {as_timestamp(ty, Column.oid, Column.b)} :
                  r # <<>> /\ ScalarKept(ty, cur.v, r[1])

=============================================================================
