---------------------------- MODULE ScriptProofs ----------------------------
(***************************************************************************)
(* Why split_queries finds the statements of every script, whatever its     *)
(* quotes, comments and COPY data contain, and why exec_queries executes    *)
(* it whole or commits nothing.                                             *)
(***************************************************************************)
EXTENDS Script, SetInduction, SequenceTheorems, TLAPS

(***************************************************************************)
(* trim.                                                                    *)
(***************************************************************************)
\* The characters a script may have.
Letter == {"a", "b", " ", ";", "'", "$", "\"", "-", "t", "\n", "\r", "C", "S", "x", "\\", "."}
Blank == {" ", "\n", "\r"}
Blanks(q, a, b) == \A k \in a..b : q[k] \in Blank

\* The least number of a set.
LEMMA MinIs ==
    ASSUME NEW S, NEW a \in S, S \subseteq Nat, \A k \in S : a <= k
    PROVE  Min(S) = a
<1>1. Min(S) \in S /\ \A y \in S : Min(S) =< y
  BY DEF Min
<1>2. Min(S) \in Nat /\ a \in Nat
  BY <1>1
<1> QED
  BY <1>1, <1>2

\* The greatest number of a set.
LEMMA MaxIs ==
    ASSUME NEW S, NEW a \in S, S \subseteq Nat, \A k \in S : k <= a
    PROVE  Max(S) = a
<1>0. \A k \in S : a >= k
  OBVIOUS
<1>1. Max(S) \in S /\ \A y \in S : Max(S) >= y
  BY <1>0 DEF Max
<1>2. Max(S) \in Nat /\ a \in Nat
  BY <1>1
<1> QED
  BY <1>1, <1>2

\* md::trim cuts a text at its first and its last character that is no blank.
LEMMA TrimIs ==
    ASSUME NEW q \in Seq(Letter), NEW a \in 1..Len(q), NEW b \in 1..Len(q),
           q[a] \notin Blank, q[b] \notin Blank,
           Blanks(q, 1, a - 1), Blanks(q, b + 1, Len(q))
    PROVE  trim(q) = SubSeq(q, a, b)
<1> DEFINE solid == {k \in 1..Len(q) : q[k] \notin Blank}
<1>1. a \in solid /\ b \in solid
  OBVIOUS
<1>2. ASSUME NEW k \in solid PROVE k \in Nat /\ a <= k /\ k <= b
  BY DEF Blanks
<1>3. trim(q) = IF solid = {} THEN <<>> ELSE SubSeq(q, Min(solid), Max(solid))
  BY DEF trim, Blank
<1> HIDE DEF solid
<1>4. Min(solid) = a
  BY <1>1, <1>2, MinIs
<1>5. Max(solid) = b
  BY <1>1, <1>2, MaxIs
<1> QED
  BY <1>1, <1>3, <1>4, <1>5

\* Of a text of blanks nothing is left.
LEMMA TrimBlanks ==
    ASSUME NEW q \in Seq(Letter), Blanks(q, 1, Len(q))
    PROVE  trim(q) = <<>>
BY DEF trim, Blank, Blanks

\* Every other text has a first and a last character that are no blanks.
LEMMA TrimEnds ==
    ASSUME NEW q \in Seq(Letter), ~Blanks(q, 1, Len(q))
    PROVE  \E a, b \in 1..Len(q) :
              /\ a <= b /\ q[a] \notin Blank /\ q[b] \notin Blank
              /\ Blanks(q, 1, a - 1) /\ Blanks(q, b + 1, Len(q))
<1> DEFINE First == {n \in Nat : n <= Len(q) => Blanks(q, 1, n)}
<1> DEFINE Final == {n \in Nat : n <= Len(q) => Blanks(q, Len(q) - n + 1, Len(q))}
<1>1. \E a \in 1..Len(q) : q[a] \notin Blank /\ Blanks(q, 1, a - 1)
  <2> SUFFICES ASSUME ~ \E a \in 1..Len(q) : q[a] \notin Blank /\ Blanks(q, 1, a - 1)
               PROVE FALSE
    OBVIOUS
  <2>1. 0 \in First
    BY DEF Blanks
  <2>2. ASSUME NEW n \in Nat, n \in First PROVE n + 1 \in First
    <3> SUFFICES ASSUME n + 1 <= Len(q) PROVE Blanks(q, 1, n + 1)
      OBVIOUS
    <3>1. Blanks(q, 1, n) /\ n + 1 \in 1..Len(q)
      BY <2>2
    <3>2. q[n + 1] \in Blank
      BY <3>1
    <3> QED
      BY <3>1, <3>2 DEF Blanks
  <2> HIDE DEF First
  <2>3. Len(q) \in First
    BY <2>1, <2>2, NatSetInduction
  <2> QED
    BY <2>3 DEF First
<1>2. \E b \in 1..Len(q) : q[b] \notin Blank /\ Blanks(q, b + 1, Len(q))
  <2> SUFFICES ASSUME ~ \E b \in 1..Len(q) : q[b] \notin Blank /\ Blanks(q, b + 1, Len(q))
               PROVE FALSE
    OBVIOUS
  <2>1. 0 \in Final
    BY DEF Blanks
  <2>2. ASSUME NEW n \in Nat, n \in Final PROVE n + 1 \in Final
    <3> SUFFICES ASSUME n + 1 <= Len(q) PROVE Blanks(q, Len(q) - (n + 1) + 1, Len(q))
      OBVIOUS
    <3>1. Blanks(q, Len(q) - n + 1, Len(q)) /\ Len(q) - n \in 1..Len(q)
      BY <2>2
    <3>2. q[Len(q) - n] \in Blank
      BY <3>1
    <3> QED
      BY <3>1, <3>2 DEF Blanks
  <2> HIDE DEF Final
  <2>3. Len(q) \in Final
    BY <2>1, <2>2, NatSetInduction
  <2>4. Blanks(q, 1, Len(q))
    BY <2>3 DEF Final
  <2> QED
    BY <2>4
<1>3. PICK a \in 1..Len(q) : q[a] \notin Blank /\ Blanks(q, 1, a - 1)
  BY <1>1
<1>4. PICK b \in 1..Len(q) : q[b] \notin Blank /\ Blanks(q, b + 1, Len(q))
  BY <1>2
<1>5. a <= b
  BY <1>3, <1>4 DEF Blanks
<1> QED
  BY <1>3, <1>4, <1>5

\* What is left of a text is empty only when all of it is blank.
LEMMA TrimEmpty ==
    ASSUME NEW q \in Seq(Letter)
    PROVE  /\ trim(q) \in Seq(Letter)
           /\ trim(q) = <<>> <=> Blanks(q, 1, Len(q))
<1>1. CASE Blanks(q, 1, Len(q))
  <2>1. trim(q) = <<>>
    BY <1>1, TrimBlanks
  <2> QED
    BY <1>1, <2>1
<1>2. CASE ~Blanks(q, 1, Len(q))
  <2>1. PICK a, b \in 1..Len(q) :
              /\ a <= b /\ q[a] \notin Blank /\ q[b] \notin Blank
              /\ Blanks(q, 1, a - 1) /\ Blanks(q, b + 1, Len(q))
    BY <1>2, TrimEnds
  <2>2. trim(q) = SubSeq(q, a, b)
    BY <2>1, TrimIs
  <2> DEFINE v == SubSeq(q, a, b)
  <2>3. v \in Seq(Letter) /\ Len(v) = b - a + 1
    BY <2>1
  <2> HIDE DEF v
  <2>4. Len(v) # 0
    BY <2>1, <2>3
  <2>5. v # <<>>
    BY <2>4
  <2> QED
    BY <1>2, <2>2, <2>3, <2>5 DEF v
<1> QED
  BY <1>1, <1>2

\* A blank behind a text changes nothing.
LEMMA TrimAppend ==
    ASSUME NEW q \in Seq(Letter), NEW c \in Blank
    PROVE  trim(Append(q, c)) = trim(q)
<1> DEFINE r == Append(q, c)
<1>0. c \in Letter
  BY DEF Blank, Letter
<1>1. r \in Seq(Letter) /\ Len(r) = Len(q) + 1 /\ r[Len(r)] = c /\ \A k \in 1..Len(q) : r[k] = q[k]
  BY <1>0
<1> HIDE DEF r
<1>2. CASE Blanks(q, 1, Len(q))
  <2>1. Blanks(r, 1, Len(r))
    BY <1>1, <1>2 DEF Blanks
  <2> QED
    BY <1>1, <1>2, <2>1, TrimBlanks DEF r
<1>3. CASE ~Blanks(q, 1, Len(q))
  <2>1. PICK a, b \in 1..Len(q) :
              /\ a <= b /\ q[a] \notin Blank /\ q[b] \notin Blank
              /\ Blanks(q, 1, a - 1) /\ Blanks(q, b + 1, Len(q))
    BY <1>3, TrimEnds
  <2>2. trim(q) = SubSeq(q, a, b)
    BY <2>1, TrimIs
  <2>3. a \in 1..Len(r) /\ b \in 1..Len(r) /\ r[a] \notin Blank /\ r[b] \notin Blank
    BY <1>1, <2>1
  <2>4. Blanks(r, 1, a - 1) /\ Blanks(r, b + 1, Len(r))
    BY <1>1, <2>1 DEF Blanks
  <2>5. trim(r) = SubSeq(r, a, b)
    BY <1>1, <2>3, <2>4, TrimIs
  <2>6. SubSeq(r, a, b) = SubSeq(q, a, b)
    <3>1. ASSUME NEW k \in 1..(b - a + 1) PROVE r[a + k - 1] = q[a + k - 1]
      <4>1. a + k - 1 \in 1..Len(q)
        BY <2>1
      <4> QED
        BY <1>1, <4>1
    <3> QED
      BY <1>1, <2>1, <3>1
  <2> QED
    BY <2>2, <2>5, <2>6 DEF r
<1> QED
  BY <1>2, <1>3

(***************************************************************************)
(* The rounds of the loop.                                                  *)
(***************************************************************************)
LexState == [qry : Seq(Letter), queries : Seq(Seq(Letter)),
             mode : Letter \cup {"text", "tag", "dollar", "comment", "copy"},
             tag : Seq(Letter), skip : Nat]

\* The state after i characters, f being the states so far.
Turn(f, t, i) == IF i = 0 THEN Start ELSE Round(f[i - 1], t, i)

\* The loop over the characters runs to any length.
LEMMA RoundsExist ==
    ASSUME NEW t, NEW n \in Nat
    PROVE  \E f : f = [i \in 0..n |-> Turn(f, t, i)]
<1> DEFINE Is(f, m) == f = [i \in 0..m |-> Turn(f, t, i)]
<1> DEFINE G == {m \in Nat : \E f : Is(f, m)}
<1>1. 0 \in G
  <2> DEFINE f == [i \in 0..0 |-> Start]
  <2>1. Is(f, 0)
    BY DEF Turn
  <2> QED
    BY <2>1
<1>2. ASSUME NEW m \in Nat, m \in G PROVE m + 1 \in G
  <2>1. PICK f : f = [i \in 0..m |-> Turn(f, t, i)]
    BY <1>2
  <2> DEFINE h == [i \in 0..(m + 1) |-> IF i = m + 1 THEN Turn(f, t, i) ELSE f[i]]
  <2>2. ASSUME NEW i \in 0..(m + 1) PROVE h[i] = Turn(h, t, i)
    <3>1. i = 0 \/ (i - 1 \in 0..m /\ h[i - 1] = f[i - 1])
      OBVIOUS
    <3>2. Turn(h, t, i) = Turn(f, t, i)
      BY <3>1 DEF Turn
    <3>3. i \in 0..m => f[i] = Turn(f, t, i)
      BY <2>1
    <3>4. h[i] = Turn(f, t, i)
      BY <3>3
    <3> QED
      BY <3>2, <3>4
  <2>3. h = [i \in 0..(m + 1) |-> h[i]]
    OBVIOUS
  <2> HIDE DEF h
  <2>4. Is(h, m + 1)
    BY <2>2, <2>3
  <2> HIDE DEF Is
  <2> QED
    BY <2>4
<1> HIDE DEF G
<1>3. n \in G
  BY <1>1, <1>2, NatSetInduction
<1> QED
  BY <1>3 DEF G

\* Each round starts from what the one before has left.
LEMMA RoundsStep ==
    ASSUME NEW t, Len(t) \in Nat
    PROVE  /\ Rounds(t)[0] = Start
           /\ \A i \in 1..Len(t) : Rounds(t)[i] = Round(Rounds(t)[i - 1], t, i)
<1> DEFINE f == CHOOSE f : f = [i \in 0..Len(t) |-> Turn(f, t, i)]
<1>1. f = [i \in 0..Len(t) |-> Turn(f, t, i)]
  BY RoundsExist
<1>2. Rounds(t) = f
  BY DEF Rounds, Turn
<1> HIDE DEF f
<1>3. \A i \in 0..Len(t) : f[i] = Turn(f, t, i)
  BY <1>1
<1> QED
  BY <1>2, <1>3 DEF Turn

(***************************************************************************)
(* What a round does to the query it collects. The query is cur, and then   *)
(* the k characters of t behind place o.                                    *)
(***************************************************************************)
Holds(qry, cur, t, o, k) ==
    /\ Len(qry) = Len(cur) + k
    /\ \A j \in 1..Len(cur) : qry[j] = cur[j]
    /\ \A j \in 1..k : qry[Len(cur) + j] = t[o + j]

In(s, cur, t, o, k, queries, mode, skip) ==
    /\ s \in LexState
    /\ Holds(s.qry, cur, t, o, k)
    /\ s.queries = queries /\ s.mode = mode /\ s.skip = skip

\* The same within a dollar quote or its tag.
InTag(s, cur, t, o, k, queries, mode, tag) ==
    In(s, cur, t, o, k, queries, mode, 0) /\ s.tag = tag

\* A character more.
LEMMA HoldsMore ==
    ASSUME NEW cur \in Seq(Letter), NEW t \in Seq(Letter), NEW o \in Nat, NEW k \in Nat,
           NEW qry \in Seq(Letter), Holds(qry, cur, t, o, k), o + k + 1 \in 1..Len(t)
    PROVE  /\ Append(qry, t[o + k + 1]) \in Seq(Letter)
           /\ Holds(Append(qry, t[o + k + 1]), cur, t, o, k + 1)
<1> DEFINE c == t[o + k + 1]
<1> DEFINE r == Append(qry, c)
<1>1. c \in Letter
  OBVIOUS
<1>2. /\ r \in Seq(Letter) /\ Len(r) = Len(qry) + 1 /\ r[Len(qry) + 1] = c
      /\ \A j \in 1..Len(qry) : r[j] = qry[j]
  BY <1>1
<1> HIDE DEF r
<1>3. /\ Len(r) = Len(cur) + (k + 1)
      /\ \A j \in 1..Len(cur) : r[j] = cur[j]
  BY <1>2 DEF Holds
<1>4. ASSUME NEW j \in 1..(k + 1) PROVE r[Len(cur) + j] = t[o + j]
  <2>1. CASE j = k + 1
    <3>1. Len(cur) + j = Len(qry) + 1 /\ o + j = o + k + 1
      <4>1. Len(cur) \in Nat /\ Len(qry) \in Nat /\ Len(qry) = Len(cur) + k
        BY DEF Holds
      <4> QED
        BY <2>1, <4>1
    <3> QED
      BY <1>2, <3>1
  <2>2. CASE j # k + 1
    <3>1. Len(cur) \in Nat /\ Len(qry) \in Nat /\ Len(qry) = Len(cur) + k /\ j \in 1..k
      BY <2>2 DEF Holds
    <3>2. Len(cur) + j \in 1..Len(qry)
      BY <3>1
    <3>3. qry[Len(cur) + j] = t[o + j]
      BY <3>1 DEF Holds
    <3> QED
      BY <1>2, <3>2, <3>3
  <2> QED
    BY <2>1, <2>2
<1> QED
  BY <1>2, <1>3, <1>4 DEF Holds, r

\* Concatenation, element by element.
LEMMA CatFacts ==
    ASSUME NEW a \in Seq(Letter), NEW b \in Seq(Letter)
    PROVE  /\ a \o b \in Seq(Letter) /\ Len(a \o b) = Len(a) + Len(b)
           /\ \A j \in 1..Len(a) : (a \o b)[j] = a[j]
           /\ \A j \in 1..Len(b) : (a \o b)[Len(a) + j] = b[j]
OBVIOUS

\* All of a piece.
LEMMA HoldsAll ==
    ASSUME NEW cur \in Seq(Letter), NEW t \in Seq(Letter), NEW o \in Nat,
           NEW u \in Seq(Letter), \A j \in 1..Len(u) : t[o + j] = u[j],
           NEW qry \in Seq(Letter), Holds(qry, cur, t, o, Len(u))
    PROVE  qry = cur \o u
<1>1. Len(qry) = Len(cur \o u) /\ cur \o u \in Seq(Letter)
  BY DEF Holds
<1>2. ASSUME NEW j \in 1..Len(qry) PROVE qry[j] = (cur \o u)[j]
  <2>1. CASE j <= Len(cur)
    BY <2>1 DEF Holds
  <2>2. CASE j > Len(cur)
    <3>1. j - Len(cur) \in 1..Len(u) /\ Len(cur) + (j - Len(cur)) = j
      BY <2>2 DEF Holds
    <3>2. qry[j] = u[j - Len(cur)]
      BY <3>1 DEF Holds
    <3> QED
      BY <2>2, <3>1, <3>2
  <2>3. j <= Len(cur) \/ j > Len(cur)
    <3>1. j \in Nat /\ Len(cur) \in Nat
      OBVIOUS
    <3> QED
      BY <3>1
  <2> QED
    BY <2>1, <2>2, <2>3
<1> QED
  BY <1>1, <1>2, SeqEqual

(***************************************************************************)
(* One round, by mode and character. More text follows, but for the last    *)
(* of these lemmas.                                                         *)
(***************************************************************************)
Quotes == {"'", "\""}
Special == {"'", "\"", ";", "$", "-"}
Semi == ";"
Dash == "-"
Newline == "\n"
Return == "\r"
Slash == "\\"
Dot == "."
Sign == "$"
OneDollar == <<Sign>>

\* A character that an earlier round has taken.
LEMMA RoundSkips ==
    ASSUME NEW t, NEW i, NEW s, NEW cur, NEW o, NEW k, NEW queries, NEW mode, NEW n \in Nat,
           In(s, cur, t, o, k, queries, mode, n + 1)
    PROVE  In(Round(s, t, i), cur, t, o, k, queries, mode, n)
<1>1. s.skip \in Nat /\ s.skip > 0 /\ s.skip # 0 /\ s.skip - 1 = n
  BY DEF In
<1>2. Round(s, t, i) = [s EXCEPT !.skip = @ - 1]
  BY <1>1 DEF Round
<1> QED
  BY <1>1, <1>2 DEF In, LexState

\* What a round looks at when more text follows.
LEMMA RoundIs ==
    ASSUME NEW s, s.skip = 0, NEW t, Len(t) \in Nat, NEW i \in Nat, i < Len(t)
    PROVE  /\ s.mode = "text" => Round(s, t, i) = Plain(s, t[i], t[i + 1])
           /\ s.mode \in Quotes => Round(s, t, i) = Quoted(s, t[i], t[i + 1], s.mode)
           /\ s.mode = "comment" =>
                  Round(s, t, i) = [s EXCEPT !.mode = IF t[i] = "\n" THEN "text" ELSE @]
           /\ s.mode = "dollar" => Round(s, t, i) = Dollar(s, t, i)
           /\ s.mode = "copy" /\ i + 2 <= Len(t) =>
                  Round(s, t, i) = CopyData(s, t[i], t[i + 1], t[i + 2])
<1>1. i # Len(t) /\ i + 1 <= Len(t) /\ ~(s.skip > 0)
  OBVIOUS
<1>2. s.mode = "text" => Round(s, t, i) = Plain(s, t[i], t[i + 1])
  BY <1>1 DEF Round
<1>3. s.mode \in Quotes => Round(s, t, i) = Quoted(s, t[i], t[i + 1], s.mode)
  BY <1>1 DEF Round, Quotes
<1>4. s.mode = "comment" =>
          Round(s, t, i) = [s EXCEPT !.mode = IF t[i] = "\n" THEN "text" ELSE @]
  BY <1>1 DEF Round
<1>5. s.mode = "dollar" => Round(s, t, i) = Dollar(s, t, i)
  BY <1>1 DEF Round
<1>6. s.mode = "copy" /\ i + 2 <= Len(t) =>
          Round(s, t, i) = CopyData(s, t[i], t[i + 1], t[i + 2])
  BY <1>1 DEF Round
<1> QED
  BY <1>2, <1>3, <1>4, <1>5, <1>6

\* A character that joins the query.
LEMMA AddFacts ==
    ASSUME NEW cur \in Seq(Letter), NEW t \in Seq(Letter), NEW o \in Nat, NEW k \in Nat,
           NEW i \in 1..Len(t), i = o + k + 1,
           NEW s, NEW queries, NEW mode, NEW n, In(s, cur, t, o, k, queries, mode, n)
    PROVE  /\ In(Add(s, t[i]), cur, t, o, k + 1, queries, mode, n)
           /\ Add(s, t[i]).tag = s.tag
<1> DEFINE q == Append(s.qry, t[i])
<1>1. s \in LexState /\ s.qry \in Seq(Letter)
  BY DEF In, LexState
<1>2. q \in Seq(Letter) /\ Holds(q, cur, t, o, k + 1)
  BY <1>1, HoldsMore DEF In
<1>3. Add(s, t[i]) = [s EXCEPT !.qry = q]
  BY DEF Add
<1> HIDE DEF q
<1> QED
  BY <1>1, <1>2, <1>3 DEF In, LexState

\* Outside quotes.
LEMMA RoundText ==
    ASSUME NEW cur \in Seq(Letter), NEW t \in Seq(Letter), NEW o \in Nat, NEW k \in Nat,
           NEW i \in 1..Len(t), i = o + k + 1, i < Len(t),
           NEW s, NEW queries, In(s, cur, t, o, k, queries, "text", 0)
    PROVE  /\ t[i] \notin {"'", "\"", ";", "$", "-"} =>
                  In(Round(s, t, i), cur, t, o, k + 1, queries, "text", 0)
           /\ t[i] \in Quotes => In(Round(s, t, i), cur, t, o, k + 1, queries, t[i], 0)
           /\ t[i] = "-" /\ t[i + 1] = "-" =>
                  In(Round(s, t, i), cur, t, o, k, queries, "comment", 0)
           /\ t[i] = "$" => InTag(Round(s, t, i), cur, t, o, k + 1, queries, "tag", OneDollar)
<1> DEFINE a == Add(s, t[i])
<1>1. s \in LexState /\ s.mode = "text" /\ s.skip = 0
  BY DEF In
<1>2. In(a, cur, t, o, k + 1, queries, "text", 0) /\ a \in LexState
  BY AddFacts DEF In
<1>3. Round(s, t, i) = Plain(s, t[i], t[i + 1])
  <2>1. Len(t) \in Nat /\ i \in Nat
    OBVIOUS
  <2> QED
    BY <1>1, <2>1, RoundIs
<1>4. t[i] \notin {"'", "\"", ";", "$", "-"} => Round(s, t, i) = a
  BY <1>3 DEF Plain
<1>5. t[i] \in Quotes => Round(s, t, i) = [a EXCEPT !.mode = t[i]]
  BY <1>3 DEF Plain, Quotes
<1>6. t[i] = "-" /\ t[i + 1] = "-" => Round(s, t, i) = [s EXCEPT !.mode = "comment"]
  BY <1>3 DEF Plain
<1>7. t[i] = "$" => Round(s, t, i) = [a EXCEPT !.mode = "tag", !.tag = OneDollar]
  BY <1>3 DEF Plain, OneDollar, Sign
<1>8. t[i] \in Letter /\ OneDollar \in Seq(Letter)
  <2>1. "$" \in Letter
    BY DEF Letter
  <2> QED
    BY <2>1 DEF OneDollar, Sign
<1> HIDE DEF a
<1>9. t[i] \in Quotes => In([a EXCEPT !.mode = t[i]], cur, t, o, k + 1, queries, t[i], 0)
  BY <1>2, <1>8 DEF In, LexState
<1>10. In([s EXCEPT !.mode = "comment"], cur, t, o, k, queries, "comment", 0)
  BY <1>1 DEF In, LexState
<1>11. /\ In([a EXCEPT !.mode = "tag", !.tag = OneDollar], cur, t, o, k + 1, queries, "tag", 0)
       /\ [a EXCEPT !.mode = "tag", !.tag = OneDollar].tag = OneDollar
  BY <1>2, <1>8 DEF In, LexState
<1> QED
  BY <1>2, <1>4, <1>5, <1>6, <1>7, <1>9, <1>10, <1>11 DEF InTag

\* Inside quotes.
LEMMA RoundQuoted ==
    ASSUME NEW cur \in Seq(Letter), NEW t \in Seq(Letter), NEW o \in Nat, NEW k \in Nat,
           NEW i \in 1..Len(t), i = o + k + 1, i < Len(t), NEW quote \in Quotes,
           NEW s, NEW queries, In(s, cur, t, o, k, queries, quote, 0)
    PROVE  /\ t[i] # quote => In(Round(s, t, i), cur, t, o, k + 1, queries, quote, 0)
           /\ t[i] = quote /\ t[i + 1] = quote =>
                  In(Round(s, t, i), cur, t, o, k + 2, queries, quote, 1)
           /\ t[i] = quote /\ t[i + 1] # quote =>
                  In(Round(s, t, i), cur, t, o, k + 1, queries, "text", 0)
<1> DEFINE a == Add(s, t[i])
<1> DEFINE b == Add(a, t[i + 1])
<1>1. s \in LexState /\ s.mode = quote /\ s.skip = 0
  BY DEF In
<1>2. In(a, cur, t, o, k + 1, queries, quote, 0) /\ a \in LexState
  BY AddFacts DEF In
<1>3. In(b, cur, t, o, k + 2, queries, quote, 0) /\ b \in LexState
  <2> HIDE DEF a
  <2>1. i + 1 \in 1..Len(t) /\ i + 1 = o + (k + 1) + 1 /\ k + 1 \in Nat /\ (k + 1) + 1 = k + 2
    OBVIOUS
  <2>2. In(b, cur, t, o, (k + 1) + 1, queries, quote, 0)
    BY <1>2, <2>1, AddFacts
  <2> QED
    BY <2>1, <2>2 DEF In
<1>4. Round(s, t, i) = Quoted(s, t[i], t[i + 1], quote)
  <2>1. Len(t) \in Nat /\ i \in Nat
    OBVIOUS
  <2> QED
    BY <1>1, <2>1, RoundIs
<1>5. t[i] # quote => Round(s, t, i) = a
  BY <1>4 DEF Quoted
<1>6. t[i] = quote /\ t[i + 1] = quote => Round(s, t, i) = [b EXCEPT !.skip = 1]
  BY <1>4 DEF Quoted
<1>7. t[i] = quote /\ t[i + 1] # quote => Round(s, t, i) = [a EXCEPT !.mode = "text"]
  BY <1>4 DEF Quoted
<1> HIDE DEF a, b
<1>8. In([b EXCEPT !.skip = 1], cur, t, o, k + 2, queries, quote, 1)
  BY <1>3 DEF In, LexState
<1>9. In([a EXCEPT !.mode = "text"], cur, t, o, k + 1, queries, "text", 0)
  BY <1>2 DEF In, LexState
<1> QED
  BY <1>2, <1>5, <1>6, <1>7, <1>8, <1>9

\* Inside a comment.
LEMMA RoundComment ==
    ASSUME NEW cur, NEW t \in Seq(Letter), NEW o, NEW k, NEW i \in 1..Len(t), i < Len(t),
           NEW s, NEW queries, In(s, cur, t, o, k, queries, "comment", 0)
    PROVE  /\ t[i] # "\n" => In(Round(s, t, i), cur, t, o, k, queries, "comment", 0)
           /\ t[i] = "\n" => In(Round(s, t, i), cur, t, o, k, queries, "text", 0)
<1>1. s \in LexState /\ s.mode = "comment" /\ s.skip = 0
  BY DEF In
<1>2. Round(s, t, i) = [s EXCEPT !.mode = IF t[i] = "\n" THEN "text" ELSE "comment"]
  BY <1>1, RoundIs
<1> QED
  BY <1>1, <1>2 DEF In, LexState

\* Inside the tag of a dollar quote.
LEMMA RoundTag ==
    ASSUME NEW cur \in Seq(Letter), NEW t \in Seq(Letter), NEW o \in Nat, NEW k \in Nat,
           NEW i \in 1..Len(t), i = o + k + 1,
           NEW s, NEW queries, NEW tag, InTag(s, cur, t, o, k, queries, "tag", tag)
    PROVE  /\ t[i] = "$" => InTag(Round(s, t, i), cur, t, o, k + 1, queries, "dollar", Append(tag, t[i]))
           /\ t[i] # "$" => InTag(Round(s, t, i), cur, t, o, k + 1, queries, "tag", Append(tag, t[i]))
<1>0. In(s, cur, t, o, k, queries, "tag", 0) /\ s.tag = tag
  BY DEF InTag
<1> DEFINE a == Add(s, t[i])
<1>1. s \in LexState /\ s.mode = "tag" /\ s.skip = 0 /\ ~(s.skip > 0)
  BY <1>0 DEF In
<1>2. In(a, cur, t, o, k + 1, queries, "tag", 0) /\ a \in LexState /\ a.tag = s.tag /\ a.mode = "tag"
  BY <1>0, AddFacts DEF In
<1>3. Round(s, t, i) = [a EXCEPT !.tag = Append(@, t[i]), !.mode = IF t[i] = "$" THEN "dollar" ELSE @]
  BY <1>1 DEF Round
<1>4. t[i] \in Letter /\ Append(s.tag, t[i]) \in Seq(Letter)
  BY <1>1 DEF LexState
<1> HIDE DEF a
<1> DEFINE mode == IF t[i] = "$" THEN "dollar" ELSE "tag"
           u == Append(s.tag, t[i])
           r == [a EXCEPT !.tag = u, !.mode = mode]
<1>5. Round(s, t, i) = r
  BY <1>2, <1>3
<1>6. mode \in {"tag", "dollar"}
  OBVIOUS
<1> HIDE DEF mode, u
<1>7. /\ r \in LexState /\ r.tag = u /\ r.mode = mode
      /\ r.qry = a.qry /\ r.queries = a.queries /\ r.skip = a.skip
  BY <1>2, <1>4, <1>6 DEF LexState, u
<1>8. In(r, cur, t, o, k + 1, queries, mode, 0)
  BY <1>2, <1>7 DEF In
<1>9. InTag(r, cur, t, o, k + 1, queries, mode, Append(tag, t[i]))
  BY <1>0, <1>7, <1>8 DEF InTag, u
<1> QED
  BY <1>5, <1>9 DEF mode

\* A few characters more.
LEMMA HoldsCat ==
    ASSUME NEW cur \in Seq(Letter), NEW t \in Seq(Letter), NEW o \in Nat, NEW k \in Nat,
           NEW qry \in Seq(Letter), Holds(qry, cur, t, o, k),
           NEW u \in Seq(Letter), \A j \in 1..Len(u) : t[o + k + j] = u[j]
    PROVE  qry \o u \in Seq(Letter) /\ Holds(qry \o u, cur, t, o, k + Len(u))
<1> DEFINE q == qry \o u
           n == Len(u)
<1>0. n \in Nat
  OBVIOUS
<1>1. /\ q \in Seq(Letter) /\ Len(q) = Len(qry) + n
      /\ \A j \in 1..Len(qry) : q[j] = qry[j]
      /\ \A j \in 1..n : q[Len(qry) + j] = u[j]
  <2>1. /\ q \in Seq(Letter) /\ Len(q) = Len(qry) + Len(u)
        /\ \A j \in 1..Len(qry) : q[j] = qry[j]
        /\ \A j \in 1..Len(u) : q[Len(qry) + j] = u[j]
    BY CatFacts
  <2> HIDE DEF q
  <2> QED
    BY <2>1
<1>2. Len(cur) \in Nat /\ Len(qry) = Len(cur) + k
  BY DEF Holds
<1> HIDE DEF q, n
<1>3. Len(q) = Len(cur) + (k + n)
  BY <1>0, <1>1, <1>2
<1>4. \A j \in 1..Len(cur) : q[j] = cur[j]
  BY <1>1, <1>2 DEF Holds
<1>5. ASSUME NEW j \in 1..(k + n) PROVE q[Len(cur) + j] = t[o + j]
  <2>1. CASE j <= k
    <3>1. j \in 1..k /\ Len(cur) + j \in 1..Len(qry)
      BY <1>0, <1>2, <2>1
    <3>2. q[Len(cur) + j] = qry[Len(cur) + j]
      BY <1>1, <3>1
    <3> QED
      BY <3>1, <3>2 DEF Holds
  <2>2. CASE j > k
    <3>1. j - k \in 1..n /\ Len(qry) + (j - k) = Len(cur) + j /\ o + k + (j - k) = o + j
      BY <1>0, <1>2, <2>2
    <3>2. q[Len(qry) + (j - k)] = u[j - k] /\ t[o + k + (j - k)] = u[j - k]
      BY <1>1, <3>1 DEF n
    <3> QED
      BY <3>1, <3>2
  <2> QED
    BY <1>0, <2>1, <2>2
<1> QED
  BY <1>1, <1>3, <1>4, <1>5 DEF Holds, q, n

\* Inside a dollar quote: the characters of the tag end it.
LEMMA RoundDollar ==
    ASSUME NEW cur \in Seq(Letter), NEW t \in Seq(Letter), NEW o \in Nat, NEW k \in Nat,
           NEW i \in 1..Len(t), i = o + k + 1, i < Len(t),
           NEW s, NEW queries, NEW tag, InTag(s, cur, t, o, k, queries, "dollar", tag),
           NEW n \in Nat \ {0}, Len(tag) = n, i + n - 1 <= Len(t)
    PROVE  /\ (\E j \in 1..n : t[o + k + j] # tag[j]) =>
                  InTag(Round(s, t, i), cur, t, o, k + 1, queries, "dollar", tag)
           /\ (\A j \in 1..n : t[o + k + j] = tag[j]) =>
                  In(Round(s, t, i), cur, t, o, k + n, queries, "text", n - 1)
<1>0. In(s, cur, t, o, k, queries, "dollar", 0) /\ s.tag = tag /\ Len(s.tag) = n
  BY DEF InTag
<1> DEFINE a == Add(s, t[i])
<1> DEFINE u == SubSeq(t, i, i + n - 1)
<1>1. s \in LexState /\ s.mode = "dollar" /\ s.skip = 0 /\ s.tag \in Seq(Letter) /\ s.qry \in Seq(Letter)
  BY <1>0 DEF In, LexState
<1>2. In(a, cur, t, o, k + 1, queries, "dollar", 0) /\ a.tag = s.tag
  BY <1>0, AddFacts
<1>3. Round(s, t, i) = IF u # s.tag THEN a
                       ELSE [s EXCEPT !.qry = @ \o s.tag, !.skip = n - 1, !.mode = "text"]
  <2>1. Round(s, t, i) = Dollar(s, t, i)
    BY <1>1, RoundIs
  <2> QED
    BY <1>0, <2>1 DEF Dollar
<1>4. u \in Seq(Letter) /\ Len(u) = n /\ \A j \in 1..n : u[j] = t[o + k + j]
  <2>1. \A j \in 1..n : u[j] = t[i + j - 1]
    OBVIOUS
  <2>2. \A j \in 1..n : i + j - 1 = o + k + j
    OBVIOUS
  <2>3. u \in Seq(Letter) /\ Len(u) = n
    OBVIOUS
  <2> HIDE DEF u
  <2> QED
    BY <2>1, <2>2, <2>3
<1> HIDE DEF a, u
<1>5. (\E j \in 1..n : t[o + k + j] # tag[j]) => u # s.tag
  BY <1>0, <1>4
<1>6. ASSUME \A j \in 1..n : t[o + k + j] = tag[j] PROVE u = s.tag
  <2>1. Len(u) = Len(s.tag) /\ \A j \in 1..Len(u) : u[j] = s.tag[j]
    BY <1>0, <1>4, <1>6
  <2> QED
    BY <1>1, <1>4, <2>1, SeqEqual
<1>7. ASSUME \A j \in 1..n : t[o + k + j] = tag[j]
      PROVE  In([s EXCEPT !.qry = @ \o s.tag, !.skip = n - 1, !.mode = "text"],
                cur, t, o, k + n, queries, "text", n - 1)
  <2> DEFINE q == s.qry \o s.tag
  <2>1. q \in Seq(Letter) /\ Holds(q, cur, t, o, k + n)
    <3>1. Holds(s.qry, cur, t, o, k)
      BY <1>0 DEF In
    <3>2. \A j \in 1..Len(s.tag) : t[o + k + j] = s.tag[j]
      BY <1>0, <1>7
    <3>3. q \in Seq(Letter) /\ Holds(q, cur, t, o, k + Len(s.tag))
      BY <1>1, <3>1, <3>2, HoldsCat
    <3> QED
      BY <1>0, <3>3
  <2> HIDE DEF q
  <2> DEFINE r == [s EXCEPT !.qry = q, !.skip = n - 1, !.mode = "text"]
  <2>2. /\ r \in LexState /\ r.qry = q /\ r.skip = n - 1 /\ r.mode = "text" /\ r.queries = s.queries
    <3>1. n - 1 \in Nat
      OBVIOUS
    <3> QED
      BY <1>1, <2>1, <3>1 DEF LexState
  <2>3. s.queries = queries
    BY <1>0 DEF In
  <2> HIDE DEF r
  <2>4. In(r, cur, t, o, k + n, queries, "text", n - 1)
    BY <2>1, <2>2, <2>3 DEF In
  <2> QED
    BY <2>4 DEF r, q
<1>8. InTag(a, cur, t, o, k + 1, queries, "dollar", tag)
  BY <1>0, <1>2 DEF InTag
<1> QED
  BY <1>0, <1>3, <1>5, <1>6, <1>7, <1>8

\* The queries with one more, if it is not blank.
With(queries, qry) == IF trim(qry) = <<>> THEN queries ELSE Append(queries, trim(qry))

\* What Flush leaves.
LEMMA FlushFacts ==
    ASSUME NEW s \in LexState
    PROVE  /\ Flush(s) \in LexState /\ Flush(s).qry = <<>>
           /\ Flush(s).mode = s.mode /\ Flush(s).skip = s.skip
           /\ Flush(s).queries = With(s.queries, s.qry)
<1> DEFINE q == With(s.queries, s.qry)
<1>1. s.qry \in Seq(Letter) /\ s.queries \in Seq(Seq(Letter))
  BY DEF LexState
<1>2. trim(s.qry) \in Seq(Letter)
  BY <1>1, TrimEmpty
<1>3. q \in Seq(Seq(Letter))
  BY <1>1, <1>2 DEF With
<1>4. Flush(s) = [s EXCEPT !.qry = <<>>, !.queries = q]
  BY DEF Flush, With
<1> HIDE DEF q
<1>5. <<>> \in Seq(Letter)
  OBVIOUS
<1>6. /\ Flush(s) \in LexState /\ Flush(s).qry = <<>> /\ Flush(s).mode = s.mode
      /\ Flush(s).skip = s.skip /\ Flush(s).queries = q
  BY <1>3, <1>4, <1>5 DEF LexState
<1> QED
  BY <1>6 DEF q

\* A statement has ended.
Ended(r, queries, qry) ==
    /\ r \in LexState /\ r.qry = <<>> /\ r.skip = 0
    /\ r.mode = IF IsCopy(trim(qry)) THEN "copy" ELSE "text"
    /\ r.queries = With(queries, qry)

\* The end of a statement.
LEMMA RoundSemicolon ==
    ASSUME NEW t \in Seq(Letter), NEW i \in 1..Len(t), i < Len(t),
           NEW cur, NEW o, NEW k, NEW s, NEW queries, In(s, cur, t, o, k, queries, "text", 0)
    PROVE  t[i] = ";" => Ended(Round(s, t, i), queries, s.qry)
<1>0. s \in LexState /\ s.mode = "text" /\ s.skip = 0 /\ s.queries = queries
  BY DEF In
<1>1. Round(s, t, i) = Plain(s, t[i], t[i + 1])
  BY <1>0, RoundIs
<1> DEFINE f == Flush(s)
           mode == IF IsCopy(trim(s.qry)) THEN "copy" ELSE "text"
           q == With(queries, s.qry)
           r == [f EXCEPT !.mode = mode]
<1>2. f \in LexState /\ f.qry = <<>> /\ f.mode = s.mode /\ f.skip = s.skip /\ f.queries = q
  BY <1>0, FlushFacts
<1>3. t[i] = ";" => Round(s, t, i) = r
  BY <1>1 DEF Plain
<1>4. mode \in {"text", "copy"}
  OBVIOUS
<1> HIDE DEF f, mode, q
<1>5. r \in LexState /\ r.qry = <<>> /\ r.skip = 0 /\ r.mode = mode /\ r.queries = q
  BY <1>0, <1>2, <1>4 DEF LexState
<1> QED
  BY <1>3, <1>5 DEF mode, q, Ended

\* Inside the data of a COPY: a line with \. ends it.
LEMMA RoundCopy ==
    ASSUME NEW cur \in Seq(Letter), NEW t \in Seq(Letter), NEW o \in Nat, NEW k \in Nat,
           NEW i \in 1..Len(t), i = o + k + 1, i + 2 <= Len(t),
           NEW s, NEW queries, In(s, cur, t, o, k, queries, "copy", 0)
    PROVE  /\ ~(t[i] \in {"\n", "\r"} /\ t[i + 1] = "\\" /\ t[i + 2] = ".") =>
                  In(Round(s, t, i), cur, t, o, k + 1, queries, "copy", 0)
           /\ (t[i] \in {"\n", "\r"} /\ t[i + 1] = "\\" /\ t[i + 2] = ".") =>
                  \A p : In(Round(s, t, i), <<>>, t, p, 0, Append(queries, trim(s.qry)), "text", 2)
<1> DEFINE a == Add(s, t[i])
<1>1. /\ s \in LexState /\ s.mode = "copy" /\ s.skip = 0 /\ s.queries = queries
      /\ s.qry \in Seq(Letter) /\ queries \in Seq(Seq(Letter))
  BY DEF In, LexState
<1>2. In(a, cur, t, o, k + 1, queries, "copy", 0)
  BY AddFacts
<1>3. Round(s, t, i) = CopyData(s, t[i], t[i + 1], t[i + 2])
  <2>1. i \in Nat /\ Len(t) \in Nat /\ i < Len(t) /\ i + 2 <= Len(t)
    OBVIOUS
  <2> QED
    BY <1>1, <2>1, RoundIs
<1> DEFINE q == Append(queries, trim(s.qry))
           r == [Start EXCEPT !.queries = q, !.skip = 2]
<1>4. /\ ~(t[i] \in {"\n", "\r"} /\ t[i + 1] = "\\" /\ t[i + 2] = ".") => Round(s, t, i) = a
      /\ (t[i] \in {"\n", "\r"} /\ t[i + 1] = "\\" /\ t[i + 2] = ".") => Round(s, t, i) = r
  BY <1>1, <1>3 DEF CopyData
<1>5. q \in Seq(Seq(Letter))
  <2>1. trim(s.qry) \in Seq(Letter)
    BY <1>1, TrimEmpty
  <2> QED
    BY <1>1, <2>1
<1> HIDE DEF a, q
<1>6. /\ r \in LexState /\ r.qry = <<>> /\ r.queries = q /\ r.mode = "text" /\ r.skip = 2
  <2>1. <<>> \in Seq(Letter)
    OBVIOUS
  <2> QED
    BY <1>5, <2>1 DEF LexState, Start
<1> HIDE DEF r
<1>7. ASSUME NEW p PROVE In(r, <<>>, t, p, 0, q, "text", 2)
  <2>1. Holds(<<>>, <<>>, t, p, 0)
    BY DEF Holds
  <2> QED
    BY <1>6, <2>1 DEF In
<1> QED
  BY <1>2, <1>4, <1>7 DEF q

\* The lexer looks at the next character, and not for the end of a tag.
Looks(s) == s \in LexState /\ s.mode # "tag" /\ s.skip = 0

\* The last character of the script.
LEMMA RoundLast ==
    ASSUME NEW t \in Seq(Letter), NEW i \in 1..Len(t), i = Len(t), NEW s, Looks(s)
    PROVE  /\ t[i] = ";" => Round(s, t, i).queries = With(s.queries, s.qry)
           /\ t[i] # ";" => Round(s, t, i).queries = With(s.queries, Append(s.qry, t[i]))
<1>1. /\ s \in LexState /\ s.mode # "tag" /\ s.skip = 0 /\ ~(s.skip > 0)
      /\ s.qry \in Seq(Letter)
  BY DEF Looks, LexState
<1> DEFINE a == Add(s, t[i])
<1>2. a \in LexState /\ a.qry = Append(s.qry, t[i]) /\ a.queries = s.queries
  <2>1. Append(s.qry, t[i]) \in Seq(Letter)
    BY <1>1
  <2> QED
    BY <1>1, <2>1 DEF Add, LexState
<1>3. Round(s, t, i) = Flush(IF t[i] = ";" THEN s ELSE a)
  BY <1>1 DEF Round
<1> HIDE DEF a
<1>4. CASE t[i] = ";"
  BY <1>1, <1>3, <1>4, FlushFacts
<1>5. CASE t[i] # ";"
  BY <1>1, <1>2, <1>3, <1>5, FlushFacts
<1> QED
  BY <1>4, <1>5

(***************************************************************************)
(* The same, for the loop: the state after o + j characters, of which       *)
(* those behind o belong to a piece that the lexer met at place o.          *)
(***************************************************************************)
At(t, o, j, cur, k, queries, mode, skip) == In(Rounds(t)[o + j], cur, t, o, k, queries, mode, skip)

AtTag(t, o, j, cur, k, queries, mode, tag) == InTag(Rounds(t)[o + j], cur, t, o, k, queries, mode, tag)

\* The j characters behind o are u.
Reads(t, o, u, j) == Len(u) = j /\ \A h \in 1..j : t[o + h] = u[h]

\* The next round.
LEMMA NextRound ==
    ASSUME NEW t \in Seq(Letter), NEW o \in Nat, NEW j \in Nat, NEW i \in Nat, i = j + 1,
           o + i <= Len(t)
    PROVE  /\ o + i \in 1..Len(t)
           /\ Rounds(t)[o + i] = Round(Rounds(t)[o + j], t, o + i)
<1>1. o + i \in 1..Len(t) /\ (o + i) - 1 = o + j /\ Len(t) \in Nat
  OBVIOUS
<1>2. Rounds(t)[o + i] = Round(Rounds(t)[(o + i) - 1], t, o + i)
  BY <1>1, RoundsStep
<1> QED
  BY <1>1, <1>2

\* A skipped character.
LEMMA AtSkips ==
    ASSUME NEW t \in Seq(Letter), NEW o \in Nat, NEW j \in Nat, NEW i \in Nat, i = j + 1,
           o + i <= Len(t), NEW cur, NEW k, NEW queries, NEW mode, NEW n \in Nat, NEW m, m = n + 1,
           At(t, o, j, cur, k, queries, mode, m)
    PROVE  At(t, o, i, cur, k, queries, mode, n)
<1>1. Rounds(t)[o + i] = Round(Rounds(t)[o + j], t, o + i)
  BY NextRound
<1>2. In(Rounds(t)[o + j], cur, t, o, k, queries, mode, n + 1)
  BY DEF At
<1>3. In(Round(Rounds(t)[o + j], t, o + i), cur, t, o, k, queries, mode, n)
  BY <1>2, RoundSkips
<1> QED
  BY <1>1, <1>3 DEF At

\* Outside quotes.
LEMMA AtText ==
    ASSUME NEW cur \in Seq(Letter), NEW t \in Seq(Letter), NEW o \in Nat, NEW j \in Nat,
           NEW i \in Nat, i = j + 1, o + i < Len(t),
           NEW queries, At(t, o, j, cur, j, queries, "text", 0)
    PROVE  /\ t[o + i] \notin Special => At(t, o, i, cur, i, queries, "text", 0)
           /\ t[o + i] \in Quotes => At(t, o, i, cur, i, queries, t[o + i], 0)
           /\ t[o + i] = Dash /\ t[o + i + 1] = Dash => At(t, o, i, cur, j, queries, "comment", 0)
           /\ t[o + i] = Sign => AtTag(t, o, i, cur, i, queries, "tag", OneDollar)
<1>1. o + i \in 1..Len(t) /\ Rounds(t)[o + i] = Round(Rounds(t)[o + j], t, o + i)
  BY NextRound
<1>2. In(Rounds(t)[o + j], cur, t, o, j, queries, "text", 0) /\ o + i = o + j + 1
  BY DEF At
<1> DEFINE s == Rounds(t)[o + j]
           r == Round(s, t, o + i)
<1>3. /\ t[o + i] \notin {"'", "\"", ";", "$", "-"} => In(r, cur, t, o, j + 1, queries, "text", 0)
      /\ t[o + i] \in Quotes => In(r, cur, t, o, j + 1, queries, t[o + i], 0)
      /\ t[o + i] = "-" /\ t[o + i + 1] = "-" => In(r, cur, t, o, j, queries, "comment", 0)
      /\ t[o + i] = "$" => InTag(r, cur, t, o, j + 1, queries, "tag", OneDollar)
  <2> HIDE DEF s
  <2>1. In(s, cur, t, o, j, queries, "text", 0)
    BY <1>2 DEF s
  <2> DEFINE p == o + i
  <2>2. p \in 1..Len(t) /\ p = o + j + 1 /\ p < Len(t)
    BY <1>1
  <2> HIDE DEF p
  <2>3. t[p] \notin {"'", "\"", ";", "$", "-"} => In(Round(s, t, p), cur, t, o, j + 1, queries, "text", 0)
    BY <2>1, <2>2, RoundText
  <2>4. t[p] \in Quotes => In(Round(s, t, p), cur, t, o, j + 1, queries, t[p], 0)
    BY <2>1, <2>2, RoundText
  <2>5. t[p] = "-" /\ t[p + 1] = "-" => In(Round(s, t, p), cur, t, o, j, queries, "comment", 0)
    BY <2>1, <2>2, RoundText
  <2>6. t[p] = "$" => InTag(Round(s, t, p), cur, t, o, j + 1, queries, "tag", OneDollar)
    BY <2>1, <2>2, RoundText
  <2> QED
    BY <2>3, <2>4, <2>5, <2>6 DEF p
<1> HIDE DEF r
<1> QED
  BY <1>1, <1>3 DEF At, AtTag, r, Special, Dash, Sign

\* Inside quotes.
LEMMA AtQuoted ==
    ASSUME NEW cur \in Seq(Letter), NEW t \in Seq(Letter), NEW o \in Nat, NEW j \in Nat,
           NEW i \in Nat, i = j + 1, o + i < Len(t), NEW quote \in Quotes,
           NEW queries, At(t, o, j, cur, j, queries, quote, 0)
    PROVE  /\ t[o + i] # quote => At(t, o, i, cur, i, queries, quote, 0)
           /\ t[o + i] = quote /\ t[o + i + 1] = quote => At(t, o, i, cur, i + 1, queries, quote, 1)
           /\ t[o + i] = quote /\ t[o + i + 1] # quote => At(t, o, i, cur, i, queries, "text", 0)
<1>1. o + i \in 1..Len(t) /\ Rounds(t)[o + i] = Round(Rounds(t)[o + j], t, o + i)
  BY NextRound
<1>2. In(Rounds(t)[o + j], cur, t, o, j, queries, quote, 0) /\ o + i = o + j + 1 /\ i + 1 = j + 2
  BY DEF At
<1> DEFINE s == Rounds(t)[o + j]
           r == Round(s, t, o + i)
<1>3. /\ t[o + i] # quote => In(r, cur, t, o, j + 1, queries, quote, 0)
      /\ t[o + i] = quote /\ t[o + i + 1] = quote => In(r, cur, t, o, j + 2, queries, quote, 1)
      /\ t[o + i] = quote /\ t[o + i + 1] # quote => In(r, cur, t, o, j + 1, queries, "text", 0)
  <2> HIDE DEF s
  <2>1. In(s, cur, t, o, j, queries, quote, 0)
    BY <1>2 DEF s
  <2> QED
    BY <1>1, <1>2, <2>1, RoundQuoted
<1> HIDE DEF r
<1> QED
  BY <1>1, <1>2, <1>3 DEF At, r

\* Inside a comment.
LEMMA AtComment ==
    ASSUME NEW t \in Seq(Letter), NEW o \in Nat, NEW j \in Nat, NEW i \in Nat, i = j + 1,
           o + i < Len(t), NEW cur, NEW k, NEW queries, At(t, o, j, cur, k, queries, "comment", 0)
    PROVE  /\ t[o + i] # Newline => At(t, o, i, cur, k, queries, "comment", 0)
           /\ t[o + i] = Newline => At(t, o, i, cur, k, queries, "text", 0)
<1>1. o + i \in 1..Len(t) /\ Rounds(t)[o + i] = Round(Rounds(t)[o + j], t, o + i)
  BY NextRound
<1> DEFINE s == Rounds(t)[o + j]
           r == Round(s, t, o + i)
<1>2. In(s, cur, t, o, k, queries, "comment", 0)
  BY DEF At
<1>3. /\ t[o + i] # "\n" => In(r, cur, t, o, k, queries, "comment", 0)
      /\ t[o + i] = "\n" => In(r, cur, t, o, k, queries, "text", 0)
  <2> HIDE DEF s
  <2> QED
    BY <1>1, <1>2, RoundComment
<1> HIDE DEF r
<1> QED
  BY <1>1, <1>3 DEF At, r, Newline

\* Inside the tag of a dollar quote.
LEMMA AtTagged ==
    ASSUME NEW cur \in Seq(Letter), NEW t \in Seq(Letter), NEW o \in Nat, NEW j \in Nat,
           NEW i \in Nat, i = j + 1, o + i <= Len(t),
           NEW queries, NEW tag, AtTag(t, o, j, cur, j, queries, "tag", tag)
    PROVE  /\ t[o + i] = Sign => AtTag(t, o, i, cur, i, queries, "dollar", Append(tag, t[o + i]))
           /\ t[o + i] # Sign => AtTag(t, o, i, cur, i, queries, "tag", Append(tag, t[o + i]))
<1>1. o + i \in 1..Len(t) /\ Rounds(t)[o + i] = Round(Rounds(t)[o + j], t, o + i)
  BY NextRound
<1> DEFINE s == Rounds(t)[o + j]
           r == Round(s, t, o + i)
<1>2. InTag(s, cur, t, o, j, queries, "tag", tag)
  BY DEF AtTag
<1>3. /\ t[o + i] = "$" => InTag(r, cur, t, o, j + 1, queries, "dollar", Append(tag, t[o + i]))
      /\ t[o + i] # "$" => InTag(r, cur, t, o, j + 1, queries, "tag", Append(tag, t[o + i]))
  <2> HIDE DEF s
  <2>1. o + i = o + j + 1
    OBVIOUS
  <2> QED
    BY <1>1, <1>2, <2>1, RoundTag
<1> HIDE DEF r
<1> QED
  BY <1>1, <1>3 DEF AtTag, r, Sign

\* Inside a dollar quote.
LEMMA AtDollar ==
    ASSUME NEW cur \in Seq(Letter), NEW t \in Seq(Letter), NEW o \in Nat, NEW j \in Nat,
           NEW i \in Nat, i = j + 1, o + i < Len(t),
           NEW queries, NEW tag, AtTag(t, o, j, cur, j, queries, "dollar", tag),
           NEW n \in Nat \ {0}, Len(tag) = n, o + j + n <= Len(t)
    PROVE  /\ (\E h \in 1..n : t[o + j + h] # tag[h]) => AtTag(t, o, i, cur, i, queries, "dollar", tag)
           /\ (\A h \in 1..n : t[o + j + h] = tag[h]) => At(t, o, i, cur, j + n, queries, "text", n - 1)
<1>1. o + i \in 1..Len(t) /\ Rounds(t)[o + i] = Round(Rounds(t)[o + j], t, o + i)
  BY NextRound
<1> DEFINE s == Rounds(t)[o + j]
           r == Round(s, t, o + i)
<1>2. InTag(s, cur, t, o, j, queries, "dollar", tag)
  BY DEF AtTag
<1>3. /\ (\E h \in 1..n : t[o + j + h] # tag[h]) => InTag(r, cur, t, o, j + 1, queries, "dollar", tag)
      /\ (\A h \in 1..n : t[o + j + h] = tag[h]) => In(r, cur, t, o, j + n, queries, "text", n - 1)
  <2> HIDE DEF s
  <2> DEFINE p == o + i
  <2>1. p = o + j + 1 /\ p + n - 1 <= Len(t) /\ p < Len(t) /\ p \in 1..Len(t)
    BY <1>1
  <2> HIDE DEF p
  <2>2. (\E h \in 1..n : t[o + j + h] # tag[h]) => InTag(Round(s, t, p), cur, t, o, j + 1, queries, "dollar", tag)
    BY <1>2, <2>1, RoundDollar
  <2>3. (\A h \in 1..n : t[o + j + h] = tag[h]) => In(Round(s, t, p), cur, t, o, j + n, queries, "text", n - 1)
    BY <1>2, <2>1, RoundDollar
  <2> QED
    BY <2>2, <2>3 DEF p
<1> HIDE DEF r
<1> QED
  BY <1>1, <1>3 DEF At, AtTag, r

\* The text behind o + j is the tag, or is not.
Found(t, o, j, tag, n) == n \in Nat \ {0} /\ Len(tag) = n /\ \A h \in 1..n : t[o + j + h] = tag[h]
Missed(t, o, j, tag, n) == n \in Nat \ {0} /\ Len(tag) = n /\ \E h \in 1..n : t[o + j + h] # tag[h]

\* Inside a dollar quote, at another text than the tag.
LEMMA AtDollarMissed ==
    ASSUME NEW cur \in Seq(Letter), NEW t \in Seq(Letter), NEW o \in Nat, NEW j \in Nat,
           NEW i \in Nat, i = j + 1, o + i < Len(t),
           NEW queries, NEW tag, AtTag(t, o, j, cur, j, queries, "dollar", tag),
           NEW n, Missed(t, o, j, tag, n), o + j + n <= Len(t)
    PROVE  AtTag(t, o, i, cur, i, queries, "dollar", tag)
BY AtDollar DEF Missed

\* Inside a dollar quote, at the tag that ends it.
LEMMA AtDollarFound ==
    ASSUME NEW cur \in Seq(Letter), NEW t \in Seq(Letter), NEW o \in Nat, NEW j \in Nat,
           NEW i \in Nat, i = j + 1, o + i < Len(t),
           NEW queries, NEW tag, AtTag(t, o, j, cur, j, queries, "dollar", tag),
           NEW n \in Nat, Found(t, o, j, tag, n), o + j + n <= Len(t),
           NEW k \in Nat, k = j + n, NEW m \in Nat, m = n - 1
    PROVE  At(t, o, i, cur, k, queries, "text", m)
BY AtDollar DEF Found

\* Nothing is collected yet.
LEMMA HoldsNone ==
    ASSUME NEW s \in LexState, s.qry = <<>>, NEW t, NEW o
    PROVE  In(s, <<>>, t, o, 0, s.queries, s.mode, s.skip)
<1>1. Holds(<<>>, <<>>, t, o, 0)
  BY DEF Holds
<1> QED
  BY <1>1 DEF In

Collected(s, cur, u) == s.qry = cur \o u

\* What is collected, when u is the text behind o.
LEMMA InQuery ==
    ASSUME NEW cur \in Seq(Letter), NEW t \in Seq(Letter), NEW o \in Nat, NEW j \in Nat,
           NEW u \in Seq(Letter), Reads(t, o, u, j),
           NEW s, NEW queries, NEW mode, NEW skip, In(s, cur, t, o, j, queries, mode, skip)
    PROVE  Collected(s, cur, u)
<1>1. s.qry \in Seq(Letter) /\ Holds(s.qry, cur, t, o, j)
  BY DEF In, LexState
<1>2. Holds(s.qry, cur, t, o, Len(u)) /\ \A h \in 1..Len(u) : t[o + h] = u[h]
  BY <1>1 DEF Reads
<1> QED
  BY <1>1, <1>2, HoldsAll DEF Collected

\* The end of a statement: the next one starts behind it.
LEMMA AtSemicolon ==
    ASSUME NEW cur \in Seq(Letter), NEW t \in Seq(Letter), NEW o \in Nat, NEW j \in Nat,
           NEW i \in Nat, i = j + 1, o + i < Len(t),
           NEW u \in Seq(Letter), Reads(t, o, u, j),
           NEW queries, At(t, o, j, cur, j, queries, "text", 0)
    PROVE  /\ t[o + i] = Semi /\ IsCopy(trim(cur \o u)) =>
                  At(t, o + i, 0, <<>>, 0, With(queries, cur \o u), "copy", 0)
           /\ t[o + i] = Semi /\ ~IsCopy(trim(cur \o u)) =>
                  At(t, o + i, 0, <<>>, 0, With(queries, cur \o u), "text", 0)
<1>1. o + i \in 1..Len(t) /\ Rounds(t)[o + i] = Round(Rounds(t)[o + j], t, o + i)
  BY NextRound
<1> DEFINE s == Rounds(t)[o + j]
           r == Round(s, t, o + i)
<1>2. In(s, cur, t, o, j, queries, "text", 0)
  BY DEF At
<1> HIDE DEF s
<1>3. s.qry = cur \o u
  <2>1. Collected(s, cur, u)
    BY <1>2, InQuery
  <2> QED
    BY <2>1 DEF Collected
<1>4. t[o + i] = ";" => Ended(r, queries, s.qry)
  <2> DEFINE p == o + i
  <2>1. p \in 1..Len(t) /\ p < Len(t)
    BY <1>1
  <2> HIDE DEF p
  <2>2. t[p] = ";" => Ended(Round(s, t, p), queries, s.qry)
    BY <1>2, <2>1, RoundSemicolon
  <2> QED
    BY <2>2 DEF p
<1> HIDE DEF r
<1>5. ASSUME t[o + i] = ";" PROVE In(r, <<>>, t, o + i, 0, r.queries, r.mode, 0)
  <2>1. r \in LexState /\ r.qry = <<>> /\ r.skip = 0
    BY <1>4, <1>5 DEF Ended
  <2> QED
    BY <2>1, HoldsNone
<1>6. Rounds(t)[(o + i) + 0] = r
  BY <1>1 DEF s, r
<1> QED
  BY <1>3, <1>4, <1>5, <1>6 DEF At, Ended, Semi

\* The data of a COPY end at o + i.
DataEnds(t, o, i) ==
    t[o + i] \in {Newline, Return} /\ t[o + i + 1] = Slash /\ t[o + i + 2] = Dot

\* Inside the data of a COPY.
LEMMA AtCopy ==
    ASSUME NEW cur \in Seq(Letter), NEW t \in Seq(Letter), NEW o \in Nat, NEW j \in Nat,
           NEW i \in Nat, i = j + 1, o + i + 2 <= Len(t),
           NEW queries, At(t, o, j, cur, j, queries, "copy", 0), ~DataEnds(t, o, i)
    PROVE  At(t, o, i, cur, i, queries, "copy", 0)
<1>1. o + i \in 1..Len(t) /\ Rounds(t)[o + i] = Round(Rounds(t)[o + j], t, o + i)
  BY NextRound
<1> DEFINE s == Rounds(t)[o + j]
           p == o + i
<1>2. In(s, cur, t, o, j, queries, "copy", 0)
  BY DEF At
<1>3. p \in 1..Len(t) /\ p = o + j + 1 /\ p + 2 <= Len(t)
  BY <1>1
<1> HIDE DEF s, p
<1>4. ~(t[p] \in {"\n", "\r"} /\ t[p + 1] = "\\" /\ t[p + 2] = ".") =>
          In(Round(s, t, p), cur, t, o, j + 1, queries, "copy", 0)
  BY <1>2, <1>3, RoundCopy
<1> QED
  BY <1>1, <1>4 DEF At, s, p, DataEnds, Newline, Return, Slash, Dot

IsNil(s) == s = <<>>

\* The end of the data of a COPY.
LEMMA AtCopyEnd ==
    ASSUME NEW cur \in Seq(Letter), NEW t \in Seq(Letter), NEW o \in Nat, NEW j \in Nat,
           NEW i \in Nat, i = j + 1, o + i + 2 <= Len(t),
           NEW u \in Seq(Letter), Reads(t, o, u, j),
           NEW queries, At(t, o, j, cur, j, queries, "copy", 0), DataEnds(t, o, i),
           NEW h, h = o + i,
           NEW nil, IsNil(nil)
    PROVE  At(t, h, 0, nil, 0, Append(queries, trim(cur \o u)), "text", 2)
<1>1. o + i \in 1..Len(t) /\ Rounds(t)[o + i] = Round(Rounds(t)[o + j], t, o + i)
  BY NextRound
<1> DEFINE s == Rounds(t)[o + j]
           p == o + i
<1>2. In(s, cur, t, o, j, queries, "copy", 0)
  BY DEF At
<1>3. p \in 1..Len(t) /\ p = o + j + 1 /\ p + 2 <= Len(t)
  BY <1>1
<1> HIDE DEF s, p
<1>4. s.qry = cur \o u
  <2>1. Collected(s, cur, u)
    BY <1>2, InQuery
  <2> QED
    BY <2>1 DEF Collected
<1>5. (t[p] \in {"\n", "\r"} /\ t[p + 1] = "\\" /\ t[p + 2] = ".") =>
          In(Round(s, t, p), <<>>, t, p, 0, Append(queries, trim(s.qry)), "text", 2)
  BY <1>2, <1>3, RoundCopy
<1>6. Rounds(t)[(o + i) + 0] = Round(s, t, p)
  BY <1>1 DEF s, p
<1> QED
  BY <1>4, <1>5, <1>6 DEF At, p, IsNil, DataEnds, Newline, Return, Slash, Dot

\* What the last character does.
LastIs(t, p, s) ==
    /\ t[p] = Semi => split_queries(t) = With(s.queries, s.qry)
    /\ t[p] # Semi => split_queries(t) = With(s.queries, Append(s.qry, t[p]))

\* The last character ends the last query.
LEMMA AtLast ==
    ASSUME NEW t \in Seq(Letter), NEW o \in Nat, NEW j \in Nat, NEW i \in Nat, i = j + 1,
           o + i = Len(t), NEW s, s = Rounds(t)[o + j], Looks(s)
    PROVE  LastIs(t, o + i, s)
<1>1. o + i \in 1..Len(t) /\ Rounds(t)[o + i] = Round(Rounds(t)[o + j], t, o + i)
  BY NextRound
<1> DEFINE p == o + i
<1>3. p \in 1..Len(t) /\ p = Len(t)
  BY <1>1
<1>4. split_queries(t) = Round(s, t, p).queries
  BY <1>1 DEF split_queries
<1> HIDE DEF p
<1>5. /\ t[p] = ";" => Round(s, t, p).queries = With(s.queries, s.qry)
      /\ t[p] # ";" => Round(s, t, p).queries = With(s.queries, Append(s.qry, t[p]))
  BY <1>3, RoundLast
<1> QED
  BY <1>4, <1>5 DEF p, LastIs, Semi

\* The modes in which the last character is taken as it is.
Takes(mode) == mode # "tag"

\* The last character of a piece ends the last query.
LEMMA AtLastOf ==
    ASSUME NEW cur \in Seq(Letter), NEW t \in Seq(Letter), NEW o \in Nat, NEW j \in Nat,
           NEW i \in Nat, i = j + 1, o + i = Len(t), NEW queries, NEW mode, Takes(mode),
           NEW u \in Seq(Letter), Reads(t, o, u, i),
           At(t, o, j, cur, j, queries, mode, 0)
    PROVE  t[o + i] # Semi => split_queries(t) = With(queries, cur \o u)
<1> DEFINE s == Rounds(t)[o + j]
           a == Add(s, t[o + i])
<1>1. In(s, cur, t, o, j, queries, mode, 0)
  BY DEF At
<1>2. o + i \in 1..Len(t) /\ o + i = o + j + 1
  OBVIOUS
<1>3. t[o + i] # Semi => split_queries(t) = With(queries, Append(s.qry, t[o + i]))
  <2>1. Looks(s) /\ s.queries = queries
    BY <1>1 DEF Looks, In, Takes
  <2>2. s = Rounds(t)[o + j]
    OBVIOUS
  <2> HIDE DEF s
  <2>3. LastIs(t, o + i, s)
    BY <2>1, <2>2, AtLast
  <2> QED
    BY <2>1, <2>3 DEF LastIs
<1> HIDE DEF s
<1>4. In(a, cur, t, o, j + 1, queries, mode, 0)
  BY <1>1, <1>2, AddFacts
<1>5. a.qry = Append(s.qry, t[o + i])
  BY <1>1 DEF Add, In, LexState
<1> HIDE DEF a
<1>6. In(a, cur, t, o, i, queries, mode, 0)
  BY <1>4
<1>7. a.qry = cur \o u
  <2>1. Collected(a, cur, u)
    BY <1>6, InQuery
  <2> QED
    BY <2>1 DEF Collected
<1> QED
  BY <1>3, <1>5, <1>7

\* A script that ends with skipped characters.
LEMMA AtStop ==
    ASSUME NEW t, NEW o, NEW j, o + j = Len(t), NEW cur, NEW k, NEW queries, NEW mode, NEW skip,
           At(t, o, j, cur, k, queries, mode, skip)
    PROVE  split_queries(t) = queries
BY DEF At, In, split_queries

(***************************************************************************)
(* Between two pieces. The lexer is outside quotes, or has taken the quote  *)
(* that closes one piece and the quote that opens the next for a doubled    *)
(* quote inside a longer string.                                            *)
(***************************************************************************)
Boundary(t, o, cur, queries) ==
    \/ At(t, o, 0, cur, 0, queries, "text", 0)
    \/ /\ o < Len(t) /\ t[o + 1] \in Quotes
       /\ At(t, o, 0, cur, 1, queries, t[o + 1], 1)

\* What was read of a piece becomes part of the query before the next one.
LEMMA Shift ==
    ASSUME NEW cur \in Seq(Letter), NEW t \in Seq(Letter), NEW o \in Nat, NEW n \in Nat,
           NEW u \in Seq(Letter), Reads(t, o, u, n), NEW k \in Nat, NEW h, h = n + k,
           NEW queries, NEW mode, NEW skip, At(t, o, n, cur, h, queries, mode, skip)
    PROVE  At(t, o + n, 0, cur \o u, k, queries, mode, skip)
<1> DEFINE s == Rounds(t)[o + n]
           q == cur \o u
<1>1. In(s, cur, t, o, n + k, queries, mode, skip)
  BY DEF At
<1>2. Rounds(t)[(o + n) + 0] = s
  OBVIOUS
<1> HIDE DEF s
<1>3. Holds(s.qry, cur, t, o, n + k) /\ Len(u) = n
  BY <1>1 DEF In, Reads
<1>4. /\ q \in Seq(Letter) /\ Len(q) = Len(cur) + Len(u)
      /\ \A j \in 1..Len(cur) : q[j] = cur[j]
      /\ \A j \in 1..Len(u) : q[Len(cur) + j] = u[j]
  BY CatFacts
<1>5. Len(cur) \in Nat
  OBVIOUS
<1> HIDE DEF q
<1>6. Len(s.qry) = Len(q) + k
  BY <1>3, <1>4, <1>5 DEF Holds
<1>7. ASSUME NEW j \in 1..Len(q) PROVE s.qry[j] = q[j]
  <2>1. CASE j <= Len(cur)
    BY <1>3, <1>4, <1>5, <2>1 DEF Holds
  <2>2. CASE j > Len(cur)
    <3>1. j - Len(cur) \in 1..n /\ j - Len(cur) \in 1..(n + k) /\ Len(cur) + (j - Len(cur)) = j
      BY <1>3, <1>4, <1>5, <2>2
    <3>2. s.qry[j] = t[o + (j - Len(cur))]
      BY <1>3, <3>1 DEF Holds
    <3>3. t[o + (j - Len(cur))] = u[j - Len(cur)]
      BY <3>1 DEF Reads
    <3>4. q[j] = u[j - Len(cur)]
      BY <1>3, <1>4, <3>1
    <3> QED
      BY <3>2, <3>3, <3>4
  <2> QED
    BY <1>4, <1>5, <2>1, <2>2
<1>8. ASSUME NEW j \in 1..k PROVE s.qry[Len(q) + j] = t[(o + n) + j]
  <2>1. n + j \in 1..(n + k) /\ Len(cur) + (n + j) = Len(q) + j /\ o + (n + j) = (o + n) + j
    BY <1>3, <1>4, <1>5
  <2>2. s.qry[Len(cur) + (n + j)] = t[o + (n + j)]
    BY <1>3, <2>1 DEF Holds
  <2> QED
    BY <2>1, <2>2
<1>9. Holds(s.qry, q, t, o + n, k)
  BY <1>6, <1>7, <1>8 DEF Holds
<1>10. In(s, q, t, o + n, k, queries, mode, skip)
  BY <1>1, <1>9 DEF In
<1> QED
  BY <1>2, <1>10 DEF At, q

\* A piece that opens no quote starts outside quotes.
LEMMA StartsPlain ==
    ASSUME NEW t, NEW o, NEW cur, NEW queries, Boundary(t, o, cur, queries),
           t[o + 1] \notin Quotes
    PROVE  At(t, o, 0, cur, 0, queries, "text", 0)
BY DEF Boundary

\* A piece that opens a quote is inside quotes after its first character.
LEMMA StartsQuoted ==
    ASSUME NEW t \in Seq(Letter), NEW o \in Nat, NEW cur \in Seq(Letter), NEW queries,
           Boundary(t, o, cur, queries), o + 1 < Len(t), NEW quote \in Quotes, t[o + 1] = quote
    PROVE  At(t, o, 1, cur, 1, queries, quote, 0)
<1>1. CASE At(t, o, 0, cur, 0, queries, "text", 0)
  <2>1. 1 = 0 + 1
    OBVIOUS
  <2> QED
    BY <1>1, <2>1, AtText
<1>2. CASE At(t, o, 0, cur, 1, queries, quote, 1)
  <2>1. 1 = 0 + 1 /\ o + 1 <= Len(t)
    OBVIOUS
  <2> QED
    BY <1>2, <2>1, AtSkips
<1> QED
  BY <1>1, <1>2 DEF Boundary

\* A piece that ends outside quotes.
LEMMA EndsPlain ==
    ASSUME NEW cur \in Seq(Letter), NEW t \in Seq(Letter), NEW o \in Nat, NEW n \in Nat,
           NEW u \in Seq(Letter), Reads(t, o, u, n), NEW queries,
           At(t, o, n, cur, n, queries, "text", 0)
    PROVE  Boundary(t, o + n, cur \o u, queries)
<1>1. n = n + 0
  OBVIOUS
<1>2. At(t, o + n, 0, cur \o u, 0, queries, "text", 0)
  BY <1>1, Shift
<1> QED
  BY <1>2 DEF Boundary

\* A piece that ends with its closing quote.
LEMMA EndsQuoted ==
    ASSUME NEW cur \in Seq(Letter), NEW t \in Seq(Letter), NEW o \in Nat, NEW j \in Nat,
           NEW n \in Nat, n = j + 1, o + n < Len(t),
           NEW u \in Seq(Letter), Reads(t, o, u, n), NEW quote \in Quotes, t[o + n] = quote,
           NEW queries, At(t, o, j, cur, j, queries, quote, 0)
    PROVE  Boundary(t, o + n, cur \o u, queries)
<1>1. CASE t[o + n + 1] = quote
  <2>1. At(t, o, n, cur, n + 1, queries, quote, 1)
    BY <1>1, AtQuoted
  <2>2. At(t, o + n, 0, cur \o u, 1, queries, quote, 1)
    BY <2>1, Shift
  <2> QED
    BY <1>1, <2>2 DEF Boundary
<1>2. CASE t[o + n + 1] # quote
  <2>1. At(t, o, n, cur, n, queries, "text", 0)
    BY <1>2, AtQuoted
  <2> QED
    BY <2>1, EndsPlain
<1> QED
  BY <1>1, <1>2

(***************************************************************************)
(* The pieces of a script, one by one: a piece that the lexer meets between *)
(* two pieces leaves it between two pieces again, and one that ends the     *)
(* script ends the last query.                                              *)
(***************************************************************************)
Meets(t, o, cur, queries, u, n) ==
    /\ Boundary(t, o, cur, queries)
    /\ u \in Seq(Letter) /\ Reads(t, o, u, n) /\ o + n <= Len(t)

Lexed(t, p, cur, queries) ==
    /\ p < Len(t) => Boundary(t, p, cur, queries)
    /\ p = Len(t) => split_queries(t) = With(queries, cur)

\* Words, blanks, and COPY without data: no character of them is special.
LEMMA PiecePlain ==
    ASSUME NEW t \in Seq(Letter), NEW o \in Nat, NEW cur \in Seq(Letter), NEW queries,
           NEW n \in Nat \ {0}, NEW u, Meets(t, o, cur, queries, u, n),
           \A h \in 1..n : u[h] \notin Special
    PROVE  Lexed(t, o + n, cur \o u, queries)
<1>1. /\ u \in Seq(Letter) /\ Reads(t, o, u, n) /\ o + n <= Len(t)
      /\ Boundary(t, o, cur, queries) /\ Len(t) \in Nat
  BY DEF Meets
<1>2. \A h \in 1..n : t[o + h] \notin Special
  BY <1>1 DEF Reads
<1> DEFINE X == {j \in Nat : j <= n /\ o + j < Len(t) => At(t, o, j, cur, j, queries, "text", 0)}
<1>3. 0 \in X
  <2>1. 1 \in 1..n
    OBVIOUS
  <2>2. t[o + 1] \notin Quotes
    BY <1>2, <2>1 DEF Special, Quotes
  <2>3. At(t, o, 0, cur, 0, queries, "text", 0)
    BY <1>1, <2>2, StartsPlain
  <2> QED
    BY <2>3
<1>4. ASSUME NEW j \in Nat, j \in X PROVE j + 1 \in X
  <2> SUFFICES ASSUME j + 1 <= n, o + (j + 1) < Len(t)
               PROVE  At(t, o, j + 1, cur, j + 1, queries, "text", 0)
    OBVIOUS
  <2>1. j <= n /\ o + j < Len(t) /\ j + 1 \in 1..n
    BY <1>1
  <2>2. At(t, o, j, cur, j, queries, "text", 0)
    BY <1>4, <2>1
  <2> DEFINE i == j + 1
  <2>3. i \in Nat /\ i = j + 1 /\ o + i < Len(t) /\ i \in 1..n
    BY <2>1
  <2> HIDE DEF i
  <2>5. t[o + i] \notin Special
    BY <1>2, <2>3
  <2>4. At(t, o, i, cur, i, queries, "text", 0)
    BY <2>2, <2>3, <2>5, AtText
  <2> QED
    BY <2>4 DEF i
<1> HIDE DEF X
<1>5. \A j \in Nat : j \in X
  BY <1>3, <1>4, NatSetInduction
<1>6. ASSUME o + n < Len(t) PROVE Boundary(t, o + n, cur \o u, queries)
  <2>1. At(t, o, n, cur, n, queries, "text", 0)
    BY <1>5, <1>6 DEF X
  <2> QED
    BY <1>1, <2>1, EndsPlain
<1>7. ASSUME o + n = Len(t) PROVE split_queries(t) = With(queries, cur \o u)
  <2> DEFINE j == n - 1
  <2>1. j \in Nat /\ n = j + 1 /\ o + j < Len(t) /\ j <= n /\ n \in 1..n
    BY <1>1, <1>7
  <2>2. At(t, o, j, cur, j, queries, "text", 0)
    BY <1>5, <2>1 DEF X
  <2>3. t[o + n] # Semi
    BY <1>2, <2>1 DEF Special, Semi
  <2>4. Takes("text") /\ u \in Seq(Letter) /\ Reads(t, o, u, n)
    BY <1>1 DEF Takes
  <2> HIDE DEF j
  <2> QED
    BY <1>7, <2>1, <2>2, <2>3, <2>4, AtLastOf
<1> QED
  BY <1>6, <1>7 DEF Lexed

Apos == "'"
Double == "\""

\* The characters that matter to the lexer.
LEMMA Characters ==
    /\ Apos \in Quotes /\ Double \in Quotes /\ Semi \notin Quotes
    /\ Dash \notin Quotes /\ Sign \notin Quotes
    /\ Apos # Double /\ Apos # Semi /\ Apos # Dash /\ Apos # Sign /\ Apos # Newline
    /\ Double # Semi /\ Double # Dash /\ Double # Sign
    /\ Semi # Sign /\ Semi # Newline /\ Sign # Newline /\ Dash # Sign /\ Dash # Newline
    /\ Takes(Apos) /\ Takes(Double)
BY DEF Takes, Apos, Double, Semi, Dash, Sign, Newline, Quotes

PString == <<Apos, Semi, Apos, Apos, Sign, Apos>>
PIdent == <<Double, Dash, Dash, Apos, Double>>

\* A string with a semicolon, a doubled quote and a dollar sign in it.
LEMMA PieceString ==
    ASSUME NEW t \in Seq(Letter), NEW o \in Nat, NEW cur \in Seq(Letter), NEW queries,
           Meets(t, o, cur, queries, PString, 6)
    PROVE  Lexed(t, o + 6, cur \o PString, queries)
<1>1. /\ PString \in Seq(Letter) /\ Reads(t, o, PString, 6) /\ o + 6 <= Len(t)
      /\ Boundary(t, o, cur, queries) /\ Len(t) \in Nat
  BY DEF Meets
<1>2. /\ t[o + 1] = Apos /\ t[o + 2] = Semi /\ t[o + 3] = Apos
      /\ t[o + 4] = Apos /\ t[o + 5] = Sign /\ t[o + 6] = Apos
  BY <1>1 DEF Reads, PString
<1>3. /\ Apos \in Quotes /\ t[o + 1] = Apos /\ t[o + 2] # Apos /\ t[o + 3] = Apos
      /\ t[o + 4] = Apos /\ t[o + 5] # Apos
  BY <1>2, Characters
<1>4. o + 1 < Len(t) /\ o + 2 < Len(t) /\ o + 3 < Len(t) /\ o + 4 < Len(t) /\ o + 5 < Len(t)
  BY <1>1
<1>5. At(t, o, 1, cur, 1, queries, Apos, 0)
  BY <1>1, <1>3, <1>4, StartsQuoted
<1>6. At(t, o, 2, cur, 2, queries, Apos, 0)
  BY <1>3, <1>4, <1>5, AtQuoted
<1>7. At(t, o, 3, cur, 4, queries, Apos, 1)
  BY <1>3, <1>4, <1>6, AtQuoted
<1>8. At(t, o, 4, cur, 4, queries, Apos, 0)
  BY <1>4, <1>7, AtSkips
<1>9. At(t, o, 5, cur, 5, queries, Apos, 0)
  BY <1>3, <1>4, <1>8, AtQuoted
<1>10. PString \in Seq(Letter) /\ Reads(t, o, PString, 6) /\ t[o + 6] = Apos /\ t[o + 6] # Semi
  BY <1>1, <1>2, Characters
<1>11. ASSUME o + 6 < Len(t) PROVE Boundary(t, o + 6, cur \o PString, queries)
  <2>1. Apos \in Quotes /\ 6 = 5 + 1
    BY <1>3
  <2> QED
    BY <1>9, <1>10, <1>11, <2>1, EndsQuoted
<1>12. ASSUME o + 6 = Len(t) PROVE split_queries(t) = With(queries, cur \o PString)
  <2>1. Takes(Apos)
    BY Characters
  <2> QED
    BY <1>9, <1>10, <1>12, <2>1, AtLastOf
<1> QED
  BY <1>11, <1>12 DEF Lexed

\* A quoted identifier with the start of a comment and an apostrophe in it.
LEMMA PieceIdent ==
    ASSUME NEW t \in Seq(Letter), NEW o \in Nat, NEW cur \in Seq(Letter), NEW queries,
           Meets(t, o, cur, queries, PIdent, 5)
    PROVE  Lexed(t, o + 5, cur \o PIdent, queries)
<1>1. /\ PIdent \in Seq(Letter) /\ Reads(t, o, PIdent, 5) /\ o + 5 <= Len(t)
      /\ Boundary(t, o, cur, queries) /\ Len(t) \in Nat
  BY DEF Meets
<1>2. /\ t[o + 1] = Double /\ t[o + 2] = Dash /\ t[o + 3] = Dash
      /\ t[o + 4] = Apos /\ t[o + 5] = Double
  BY <1>1 DEF Reads, PIdent
<1>3. /\ Double \in Quotes /\ t[o + 1] = Double /\ t[o + 2] # Double /\ t[o + 3] # Double
      /\ t[o + 4] # Double
  BY <1>2, Characters
<1>4. o + 1 < Len(t) /\ o + 2 < Len(t) /\ o + 3 < Len(t) /\ o + 4 < Len(t)
  BY <1>1
<1>5. At(t, o, 1, cur, 1, queries, Double, 0)
  BY <1>1, <1>3, <1>4, StartsQuoted
<1>6. At(t, o, 2, cur, 2, queries, Double, 0)
  BY <1>3, <1>4, <1>5, AtQuoted
<1>7. At(t, o, 3, cur, 3, queries, Double, 0)
  BY <1>3, <1>4, <1>6, AtQuoted
<1>8. At(t, o, 4, cur, 4, queries, Double, 0)
  BY <1>3, <1>4, <1>7, AtQuoted
<1>9. PIdent \in Seq(Letter) /\ Reads(t, o, PIdent, 5) /\ t[o + 5] = Double /\ t[o + 5] # Semi
  BY <1>1, <1>2, Characters
<1>10. ASSUME o + 5 < Len(t) PROVE Boundary(t, o + 5, cur \o PIdent, queries)
  <2>1. Double \in Quotes /\ 5 = 4 + 1
    BY <1>3
  <2> QED
    BY <1>8, <1>9, <1>10, <2>1, EndsQuoted
<1>11. ASSUME o + 5 = Len(t) PROVE split_queries(t) = With(queries, cur \o PIdent)
  <2>1. Takes(Double)
    BY Characters
  <2> QED
    BY <1>8, <1>9, <1>11, <2>1, AtLastOf
<1> QED
  BY <1>10, <1>11 DEF Lexed

\* Nothing was collected behind o.
LEMMA ShiftNone ==
    ASSUME NEW t, NEW o \in Nat, NEW n \in Nat, NEW p, p = o + n, NEW cur, NEW queries, NEW mode, NEW skip,
           At(t, o, n, cur, 0, queries, mode, skip)
    PROVE  At(t, p, 0, cur, 0, queries, mode, skip)
<1> DEFINE s == Rounds(t)[o + n]
<1>1. Rounds(t)[p + 0] = s
  OBVIOUS
<1>2. In(s, cur, t, o, 0, queries, mode, skip)
  BY DEF At
<1> HIDE DEF s
<1>3. In(s, cur, t, p, 0, queries, mode, skip)
  BY <1>2 DEF In, Holds
<1> QED
  BY <1>1, <1>3 DEF At

\* The query is what was there before.
LEMMA QueryNone ==
    ASSUME NEW cur \in Seq(Letter), NEW t, NEW o, NEW j, NEW queries, NEW mode, NEW skip,
           At(t, o, j, cur, 0, queries, mode, skip)
    PROVE  Rounds(t)[o + j].qry = cur /\ Rounds(t)[o + j].queries = queries
<1> DEFINE s == Rounds(t)[o + j]
<1>1. In(s, cur, t, o, 0, queries, mode, skip)
  BY DEF At
<1> HIDE DEF s
<1>2. s.qry \in Seq(Letter) /\ Len(s.qry) = Len(cur) + 0 /\ \A h \in 1..Len(cur) : s.qry[h] = cur[h]
  BY <1>1 DEF In, Holds, LexState
<1>3. Len(cur) \in Nat
  OBVIOUS
<1>4. s.qry = cur
  BY <1>2, <1>3, SeqEqual
<1>5. s.queries = queries
  BY <1>1 DEF In
<1> QED
  BY <1>4, <1>5 DEF s

\* Blanks behind a query change nothing.
LEMMA WithBlank ==
    ASSUME NEW cur \in Seq(Letter), NEW queries, NEW c \in Blank
    PROVE  With(queries, Append(cur, c)) = With(queries, cur)
BY TrimAppend DEF With

PComment == <<Dash, Dash, Semi, Apos, Sign, Newline>>

\* A comment, with all that starts something else outside it.
LEMMA PieceComment ==
    ASSUME NEW t \in Seq(Letter), NEW o \in Nat, NEW cur \in Seq(Letter), NEW queries,
           Meets(t, o, cur, queries, PComment, 6)
    PROVE  Lexed(t, o + 6, cur, queries)
<1>1. /\ Reads(t, o, PComment, 6) /\ o + 6 <= Len(t)
      /\ Boundary(t, o, cur, queries) /\ Len(t) \in Nat
  BY DEF Meets
<1>2. /\ t[o + 1] = Dash /\ t[o + 2] = Dash /\ t[o + 3] = Semi
      /\ t[o + 4] = Apos /\ t[o + 5] = Sign /\ t[o + 6] = Newline
  BY <1>1 DEF Reads, PComment
<1>3. /\ t[o + 2] # Newline /\ t[o + 3] # Newline /\ t[o + 4] # Newline /\ t[o + 5] # Newline
  BY <1>2, Characters
<1>4. o + 1 < Len(t) /\ o + 2 < Len(t) /\ o + 3 < Len(t) /\ o + 4 < Len(t) /\ o + 5 < Len(t)
  BY <1>1
<1>5. At(t, o, 0, cur, 0, queries, "text", 0)
  <2>1. t[o + 1] \notin Quotes
    BY <1>2, Characters
  <2> QED
    BY <1>1, <2>1, StartsPlain
<1>6. At(t, o, 1, cur, 0, queries, "comment", 0)
  <2>1. t[o + 1] = Dash /\ t[o + 1 + 1] = Dash
    BY <1>2
  <2> QED
    BY <1>4, <1>5, <2>1, AtText
<1>7. At(t, o, 2, cur, 0, queries, "comment", 0)
  BY <1>3, <1>4, <1>6, AtComment
<1>8. At(t, o, 3, cur, 0, queries, "comment", 0)
  BY <1>3, <1>4, <1>7, AtComment
<1>9. At(t, o, 4, cur, 0, queries, "comment", 0)
  BY <1>3, <1>4, <1>8, AtComment
<1>10. At(t, o, 5, cur, 0, queries, "comment", 0)
  BY <1>3, <1>4, <1>9, AtComment
<1>11. ASSUME o + 6 < Len(t) PROVE Boundary(t, o + 6, cur, queries)
  <2>1. t[o + 6] = Newline
    BY <1>2
  <2>2. At(t, o, 6, cur, 0, queries, "text", 0)
    BY <1>10, <1>11, <2>1, AtComment
  <2>3. At(t, o + 6, 0, cur, 0, queries, "text", 0)
    BY <2>2, ShiftNone
  <2> QED
    BY <2>3 DEF Boundary
<1>12. ASSUME o + 6 = Len(t) PROVE split_queries(t) = With(queries, cur)
  <2> DEFINE s == Rounds(t)[o + 5]
  <2>1. Looks(s) /\ s = Rounds(t)[o + 5]
    BY <1>10 DEF At, In, Looks
  <2>2. s.qry = cur /\ s.queries = queries
    BY <1>10, QueryNone
  <2> HIDE DEF s
  <2>3. LastIs(t, o + 6, s)
    BY <1>12, <2>1, AtLast
  <2>4. t[o + 6] # Semi /\ t[o + 6] \in Blank
    BY <1>2 DEF Newline, Semi, Blank
  <2>5. split_queries(t) = With(queries, Append(cur, t[o + 6]))
    BY <2>2, <2>3, <2>4 DEF LastIs
  <2> QED
    BY <2>4, <2>5, WithBlank
<1> QED
  BY <1>11, <1>12 DEF Lexed

(***************************************************************************)
(* A dollar quote that ends the script leaves its statement behind.         *)
(***************************************************************************)
LexedOrLost(t, p, cur, queries) ==
    /\ p < Len(t) => Boundary(t, p, cur, queries)
    /\ p = Len(t) => split_queries(t) = queries

TwoDollars == Append(OneDollar, Sign)
PDollar == <<Sign, Sign, Semi, Apos, Sign, Sign>>

\* A dollar quote with a semicolon and an apostrophe in it.
LEMMA PieceDollar ==
    ASSUME NEW t \in Seq(Letter), NEW o \in Nat, NEW cur \in Seq(Letter), NEW queries,
           Meets(t, o, cur, queries, PDollar, 6)
    PROVE  LexedOrLost(t, o + 6, cur \o PDollar, queries)
<1>1. /\ PDollar \in Seq(Letter) /\ Reads(t, o, PDollar, 6) /\ o + 6 <= Len(t)
      /\ Boundary(t, o, cur, queries) /\ Len(t) \in Nat
  BY DEF Meets
<1>2. /\ t[o + 1] = Sign /\ t[o + 2] = Sign /\ t[o + 3] = Semi
      /\ t[o + 4] = Apos /\ t[o + 5] = Sign /\ t[o + 6] = Sign
  BY <1>1 DEF Reads, PDollar
<1>3. Len(TwoDollars) = 2 /\ TwoDollars[1] = Sign /\ TwoDollars[2] = Sign
  BY DEF TwoDollars, OneDollar
<1>4. o + 1 < Len(t) /\ o + 2 < Len(t) /\ o + 3 < Len(t) /\ o + 4 < Len(t) /\ o + 5 < Len(t)
  BY <1>1
<1>5. At(t, o, 0, cur, 0, queries, "text", 0)
  <2>1. t[o + 1] \notin Quotes
    BY <1>2, Characters
  <2> QED
    BY <1>1, <2>1, StartsPlain
<1>6. AtTag(t, o, 1, cur, 1, queries, "tag", OneDollar)
  <2>1. t[o + 1] = Sign
    BY <1>2
  <2> QED
    BY <1>4, <1>5, <2>1, AtText
<1>7. AtTag(t, o, 2, cur, 2, queries, "dollar", TwoDollars)
  <2>1. t[o + 2] = Sign /\ o + 2 <= Len(t)
    BY <1>2, <1>4
  <2> QED
    BY <1>6, <2>1, AtTagged DEF TwoDollars
<1>8. AtTag(t, o, 3, cur, 3, queries, "dollar", TwoDollars)
  <2>1. o + 3 < Len(t) /\ o + 2 + 2 <= Len(t)
    BY <1>4
  <2>2. t[o + 2 + 1] # TwoDollars[1]
    BY <1>2, <1>3, Characters
  <2>3. Missed(t, o, 2, TwoDollars, 2)
    BY <1>3, <2>2 DEF Missed
  <2> QED
    BY <1>7, <2>1, <2>3, AtDollarMissed
<1>9. AtTag(t, o, 4, cur, 4, queries, "dollar", TwoDollars)
  <2>1. o + 4 < Len(t) /\ o + 3 + 2 <= Len(t)
    BY <1>4
  <2>2. t[o + 3 + 1] # TwoDollars[1]
    BY <1>2, <1>3, Characters
  <2>3. Missed(t, o, 3, TwoDollars, 2)
    BY <1>3, <2>2 DEF Missed
  <2> QED
    BY <1>8, <2>1, <2>3, AtDollarMissed
<1>10. At(t, o, 5, cur, 6, queries, "text", 1)
  <2>1. o + 5 < Len(t) /\ o + 4 + 2 <= Len(t)
    BY <1>1
  <2>2. Found(t, o, 4, TwoDollars, 2)
    <3>1. \A h \in 1..2 : t[o + 4 + h] = TwoDollars[h]
      BY <1>2, <1>3
    <3> QED
      BY <1>3, <3>1 DEF Found
  <2> QED
    BY <1>9, <2>1, <2>2, AtDollarFound
<1>11. At(t, o, 6, cur, 6, queries, "text", 0)
  BY <1>1, <1>10, AtSkips
<1>12. ASSUME o + 6 < Len(t) PROVE Boundary(t, o + 6, cur \o PDollar, queries)
  BY <1>1, <1>11, EndsPlain
<1>13. ASSUME o + 6 = Len(t) PROVE split_queries(t) = queries
  BY <1>11, <1>13, AtStop
<1> QED
  BY <1>12, <1>13 DEF LexedOrLost

Tee == "t"
Tag == Append(Append(OneDollar, Tee), Sign)
PTagged == <<Sign, Tee, Sign, Sign, Semi, Dash, Dash, Sign, Tee, Sign>>

\* A dollar quote with a tag, and with dollar signs, a semicolon and the start
\* of a comment in it.
LEMMA PieceTagged ==
    ASSUME NEW t \in Seq(Letter), NEW o \in Nat, NEW cur \in Seq(Letter), NEW queries,
           Meets(t, o, cur, queries, PTagged, 10)
    PROVE  LexedOrLost(t, o + 10, cur \o PTagged, queries)
<1>1. /\ PTagged \in Seq(Letter) /\ Reads(t, o, PTagged, 10) /\ o + 10 <= Len(t)
      /\ Boundary(t, o, cur, queries) /\ Len(t) \in Nat
  BY DEF Meets
<1>2. /\ t[o + 1] = Sign /\ t[o + 2] = Tee /\ t[o + 3] = Sign /\ t[o + 4] = Sign /\ t[o + 5] = Semi
      /\ t[o + 6] = Dash /\ t[o + 7] = Dash /\ t[o + 8] = Sign /\ t[o + 9] = Tee /\ t[o + 10] = Sign
  BY <1>1 DEF Reads, PTagged
<1>3. Len(Tag) = 3 /\ Tag[1] = Sign /\ Tag[2] = Tee /\ Tag[3] = Sign
  BY DEF Tag, OneDollar
<1>t. Tee # Sign /\ Tee # Semi
  BY DEF Tee, Sign, Semi
<1>4. /\ o + 1 < Len(t) /\ o + 2 < Len(t) /\ o + 3 < Len(t) /\ o + 4 < Len(t) /\ o + 5 < Len(t)
      /\ o + 6 < Len(t) /\ o + 7 < Len(t) /\ o + 8 < Len(t) /\ o + 9 < Len(t)
  BY <1>1
<1>5. At(t, o, 0, cur, 0, queries, "text", 0)
  <2>1. t[o + 1] \notin Quotes
    BY <1>2, Characters
  <2> QED
    BY <1>1, <2>1, StartsPlain
<1>6. AtTag(t, o, 1, cur, 1, queries, "tag", OneDollar)
  <2>1. t[o + 1] = Sign
    BY <1>2
  <2> QED
    BY <1>4, <1>5, <2>1, AtText
<1>7. AtTag(t, o, 2, cur, 2, queries, "tag", Append(OneDollar, Tee))
  <2>1. t[o + 2] = Tee /\ t[o + 2] # Sign /\ o + 2 <= Len(t)
    BY <1>2, <1>4, <1>t
  <2> QED
    BY <1>6, <2>1, AtTagged
<1>8. AtTag(t, o, 3, cur, 3, queries, "dollar", Tag)
  <2>1. t[o + 3] = Sign /\ o + 3 <= Len(t)
    BY <1>2, <1>4
  <2> QED
    BY <1>7, <2>1, AtTagged DEF Tag
<1>9. AtTag(t, o, 4, cur, 4, queries, "dollar", Tag)
  <2>1. o + 4 < Len(t) /\ o + 3 + 3 <= Len(t)
    BY <1>4
  <2>2. t[o + 3 + 2] # Tag[2]
    BY <1>2, <1>3, <1>t
  <2>3. Missed(t, o, 3, Tag, 3)
    BY <1>3, <2>2 DEF Missed
  <2> QED
    BY <1>8, <2>1, <2>3, AtDollarMissed
<1>10. AtTag(t, o, 5, cur, 5, queries, "dollar", Tag)
  <2>1. o + 5 < Len(t) /\ o + 4 + 3 <= Len(t)
    BY <1>4
  <2>2. t[o + 4 + 1] # Tag[1]
    <3>1. o + 4 + 1 = o + 5 /\ Semi # Sign
      BY Characters
    <3> QED
      BY <1>2, <1>3, <3>1
  <2>3. Missed(t, o, 4, Tag, 3)
    BY <1>3, <2>2 DEF Missed
  <2> QED
    BY <1>9, <2>1, <2>3, AtDollarMissed
<1>11. AtTag(t, o, 6, cur, 6, queries, "dollar", Tag)
  <2>1. o + 6 < Len(t) /\ o + 5 + 3 <= Len(t)
    BY <1>4
  <2>2. t[o + 5 + 1] # Tag[1]
    <3>1. o + 5 + 1 = o + 6 /\ Dash # Sign
      BY Characters
    <3> QED
      BY <1>2, <1>3, <3>1
  <2>3. Missed(t, o, 5, Tag, 3)
    BY <1>3, <2>2 DEF Missed
  <2> QED
    BY <1>10, <2>1, <2>3, AtDollarMissed
<1>12. AtTag(t, o, 7, cur, 7, queries, "dollar", Tag)
  <2>1. o + 7 < Len(t) /\ o + 6 + 3 <= Len(t)
    BY <1>4
  <2>2. t[o + 6 + 1] # Tag[1]
    BY <1>2, <1>3, Characters
  <2>3. Missed(t, o, 6, Tag, 3)
    BY <1>3, <2>2 DEF Missed
  <2> QED
    BY <1>11, <2>1, <2>3, AtDollarMissed
<1>13. At(t, o, 8, cur, 10, queries, "text", 2)
  <2>1. o + 8 < Len(t) /\ o + 7 + 3 <= Len(t)
    BY <1>1
  <2>2. Found(t, o, 7, Tag, 3)
    <3>1. t[o + 7 + 1] = Tag[1] /\ t[o + 7 + 2] = Tag[2] /\ t[o + 7 + 3] = Tag[3]
      BY <1>2, <1>3
    <3>2. \A h \in 1..3 : t[o + 7 + h] = Tag[h]
      BY <3>1
    <3> QED
      BY <1>3, <3>2 DEF Found
  <2> QED
    BY <1>12, <2>1, <2>2, AtDollarFound
<1>14. At(t, o, 9, cur, 10, queries, "text", 1)
  <2>1. o + 9 <= Len(t)
    BY <1>1
  <2> QED
    BY <1>13, <2>1, AtSkips
<1>15. At(t, o, 10, cur, 10, queries, "text", 0)
  BY <1>1, <1>14, AtSkips
<1>16. ASSUME o + 10 < Len(t) PROVE Boundary(t, o + 10, cur \o PTagged, queries)
  BY <1>1, <1>15, EndsPlain
<1>17. ASSUME o + 10 = Len(t) PROVE split_queries(t) = queries
  BY <1>15, <1>17, AtStop
<1> QED
  BY <1>16, <1>17 DEF LexedOrLost

(***************************************************************************)
(* The end of a statement, and COPY with its data.                          *)
(***************************************************************************)

\* No text is the text of no characters.
LEMMA NoText ==
    ASSUME NEW t, NEW o \in Nat, NEW cur \in Seq(Letter)
    PROVE  /\ <<>> \in Seq(Letter) /\ Reads(t, o, <<>>, 0) /\ cur \o <<>> = cur
           /\ trim(<<>>) = <<>> /\ \A queries : With(queries, <<>>) = queries
<1>1. <<>> \in Seq(Letter) /\ Reads(t, o, <<>>, 0) /\ cur \o <<>> = cur
  BY DEF Reads
<1>2. Blanks(<<>>, 1, Len(<<>>))
  BY DEF Blanks
<1>3. trim(<<>>) = <<>>
  BY <1>1, <1>2, TrimBlanks
<1> QED
  BY <1>1, <1>3 DEF With

PSemicolon == <<Semi>>

\* A semicolon ends the statement before it, unless that is a COPY.
LEMMA PieceSemicolon ==
    ASSUME NEW t \in Seq(Letter), NEW o \in Nat, NEW cur \in Seq(Letter), NEW queries,
           Meets(t, o, cur, queries, PSemicolon, 1), ~IsCopy(trim(cur))
    PROVE  Lexed(t, o + 1, <<>>, With(queries, cur))
<1>1. /\ Reads(t, o, PSemicolon, 1) /\ o + 1 <= Len(t)
      /\ Boundary(t, o, cur, queries) /\ Len(t) \in Nat
  BY DEF Meets
<1>2. t[o + 1] = Semi
  BY <1>1 DEF Reads, PSemicolon
<1>3. At(t, o, 0, cur, 0, queries, "text", 0)
  <2>1. t[o + 1] \notin Quotes
    BY <1>2, Characters
  <2> QED
    BY <1>1, <2>1, StartsPlain
<1>4. ASSUME o + 1 < Len(t) PROVE Boundary(t, o + 1, <<>>, With(queries, cur))
  <2> DEFINE u == <<>>
  <2>1. u \in Seq(Letter) /\ Reads(t, o, u, 0) /\ cur \o u = cur
    BY NoText
  <2> HIDE DEF u
  <2>2. ~IsCopy(trim(cur \o u)) /\ 1 = 0 + 1
    BY <2>1
  <2>3. At(t, o + 1, 0, <<>>, 0, With(queries, cur \o u), "text", 0)
    BY <1>2, <1>3, <1>4, <2>1, <2>2, AtSemicolon
  <2> QED
    BY <2>1, <2>3 DEF Boundary
<1>5. ASSUME o + 1 = Len(t) PROVE split_queries(t) = With(With(queries, cur), <<>>)
  <2> DEFINE s == Rounds(t)[o + 0]
  <2>1. Looks(s) /\ s = Rounds(t)[o + 0]
    BY <1>3 DEF At, In, Looks
  <2>2. s.qry = cur /\ s.queries = queries
    BY <1>3, QueryNone
  <2> HIDE DEF s
  <2>3. LastIs(t, o + 1, s)
    BY <1>5, <2>1, AtLast
  <2>4. split_queries(t) = With(queries, cur)
    BY <1>2, <2>2, <2>3 DEF LastIs
  <2> QED
    BY <2>4, NoText
<1> QED
  BY <1>4, <1>5 DEF Lexed

\* Blanks before a text are cut off.
LEMMA TrimCat ==
    ASSUME NEW cur \in Seq(Letter), trim(cur) = <<>>, NEW u \in Seq(Letter), u # <<>>,
           u[1] \notin Blank, u[Len(u)] \notin Blank
    PROVE  trim(cur \o u) = u
<1> DEFINE q == cur \o u
           a == Len(cur) + 1
           b == Len(cur) + Len(u)
<1>1. /\ q \in Seq(Letter) /\ Len(q) = Len(cur) + Len(u)
      /\ \A j \in 1..Len(cur) : q[j] = cur[j]
      /\ \A j \in 1..Len(u) : q[Len(cur) + j] = u[j]
  BY CatFacts
<1>2. Len(cur) \in Nat /\ Len(u) \in Nat /\ Len(u) > 0 /\ 1 \in 1..Len(u) /\ Len(u) \in 1..Len(u)
  OBVIOUS
<1>3. Blanks(cur, 1, Len(cur))
  BY TrimEmpty
<1> HIDE DEF q
<1>4. a \in 1..Len(q) /\ b \in 1..Len(q) /\ a <= b /\ b = Len(q)
  BY <1>1, <1>2
<1>5. q[a] \notin Blank /\ q[b] \notin Blank
  BY <1>1, <1>2
<1>6. Blanks(q, 1, a - 1) /\ Blanks(q, b + 1, Len(q))
  <2>1. a - 1 = Len(cur) /\ \A j \in (b + 1)..Len(q) : FALSE
    BY <1>1, <1>2
  <2>2. \A j \in 1..Len(cur) : q[j] \in Blank
    BY <1>1, <1>3 DEF Blanks
  <2>3. Blanks(q, 1, a - 1)
    BY <2>1, <2>2 DEF Blanks
  <2> QED
    BY <2>1, <2>3 DEF Blanks
<1>7. trim(q) = SubSeq(q, a, b)
  BY <1>1, <1>4, <1>5, <1>6, TrimIs
<1>8. SubSeq(q, a, b) = u
  <2> DEFINE v == SubSeq(q, a, b)
  <2>1. v \in Seq(Letter) /\ Len(v) = b - a + 1 /\ \A j \in 1..Len(v) : v[j] = q[a + j - 1]
    BY <1>1, <1>4
  <2> HIDE DEF v
  <2>2. Len(v) = Len(u)
    BY <1>2, <2>1
  <2>3. ASSUME NEW j \in 1..Len(v) PROVE v[j] = u[j]
    <3>1. a + j - 1 = Len(cur) + j /\ j \in 1..Len(u)
      BY <1>2, <2>2
    <3> QED
      BY <1>1, <2>1, <3>1
  <2> QED
    BY <2>1, <2>2, <2>3, SeqEqual DEF v
<1> QED
  BY <1>7, <1>8 DEF q

Cee == "C"
Ess == "S"
Bee == "b"
Eks == "x"
Head1 == <<Cee, Ess>>
Data1 == <<Newline, Eks, Apos, Newline, Slash, Eks>>
Rows1 == <<Eks, Apos, Newline, Slash, Eks>>
PCopy == <<Cee, Ess, Semi, Newline, Eks, Apos, Newline, Slash, Eks, Newline, Slash, Dot>>
Head2 == <<Cee, Bee, Ess>>
Data2 == <<Newline, Eks>>
Rows2 == <<Eks>>
PBadCopy == <<Cee, Bee, Ess, Semi, Newline, Eks, Return, Slash, Dot>>

\* The characters that matter in COPY.
LEMMA CopyCharacters ==
    /\ Cee \notin Special /\ Ess \notin Special /\ Bee \notin Special /\ Cee \notin Quotes
    /\ Cee \notin Blank /\ Ess \notin Blank /\ Eks \notin Blank
    /\ Eks # Newline /\ Eks # Slash /\ Eks # Dot /\ Slash # Newline /\ Apos # Newline
    /\ Eks # Return /\ Slash # Return /\ Apos # Return
    /\ Newline \in Blank
    /\ {Cee, Ess, Bee, Eks, Apos, Newline, Return, Slash, Dot, Semi} \subseteq Letter
BY DEF Cee, Ess, Bee, Eks, Newline, Return, Slash, Dot, Apos, Semi, Special, Quotes, Blank, Letter

\* The texts of COPY and of its data.
LEMMA CopyTexts ==
    /\ Head1 \in Seq(Letter) /\ Len(Head1) = 2 /\ Head1 # <<>> /\ Head1[1] = Cee /\ Head1[2] = Ess
    /\ Head2 \in Seq(Letter) /\ Len(Head2) = 3 /\ Head2 # <<>> /\ Head2[1] = Cee /\ Head2[3] = Ess
    /\ Data1 \in Seq(Letter) /\ Data2 \in Seq(Letter) /\ Len(Data1) = 6 /\ Len(Data2) = 2
<1>1. Cee \in Letter /\ Ess \in Letter /\ Bee \in Letter /\ Eks \in Letter /\ Apos \in Letter
      /\ Newline \in Letter /\ Slash \in Letter
  BY CopyCharacters
<1>2. /\ Head1 \in Seq(Letter) /\ Len(Head1) = 2 /\ Head1 # <<>> /\ Head1[1] = Cee /\ Head1[2] = Ess
  BY <1>1 DEF Head1
<1>3. /\ Head2 \in Seq(Letter) /\ Len(Head2) = 3 /\ Head2 # <<>> /\ Head2[1] = Cee /\ Head2[3] = Ess
  BY <1>1 DEF Head2
<1>4. /\ Data1 \in Seq(Letter) /\ Data2 \in Seq(Letter) /\ Len(Data1) = 6 /\ Len(Data2) = 2
  BY <1>1 DEF Data1, Data2
<1> QED
  BY <1>2, <1>3, <1>4

\* COPY at the start of a statement is found at its semicolon.
LEMMA CopyFound ==
    ASSUME NEW cur \in Seq(Letter), trim(cur) = <<>>, NEW queries
    PROVE  /\ trim(cur \o Head1) = Head1 /\ IsCopy(Head1) /\ With(queries, cur \o Head1) = Append(queries, Head1)
           /\ trim(cur \o Head2) = Head2 /\ IsCopy(Head2) /\ With(queries, cur \o Head2) = Append(queries, Head2)
<1>1. trim(cur \o Head1) = Head1
  <2>1. Head1 \in Seq(Letter) /\ Head1 # <<>> /\ Head1[1] \notin Blank /\ Head1[Len(Head1)] \notin Blank
    BY CopyTexts, CopyCharacters
  <2> QED
    BY <2>1, TrimCat
<1>2. trim(cur \o Head2) = Head2
  <2>1. Head2 \in Seq(Letter) /\ Head2 # <<>> /\ Head2[1] \notin Blank /\ Head2[Len(Head2)] \notin Blank
    BY CopyTexts, CopyCharacters
  <2> QED
    BY <2>1, TrimCat
<1>3. IsCopy(Head1) /\ IsCopy(Head2)
  <2>1. IsCopy(Head1)
    BY DEF IsCopy, Last, Head1, Cee, Ess
  <2>2. IsCopy(Head2)
    BY DEF IsCopy, Last, Head2, Cee, Ess
  <2> QED
    BY <2>1, <2>2
<1> QED
  BY <1>1, <1>2, <1>3, CopyTexts DEF With

\* A part of a text.
LEMMA SubSeqFacts ==
    ASSUME NEW q \in Seq(Letter), NEW a \in 1..Len(q), NEW b \in 1..Len(q), a <= b
    PROVE  /\ SubSeq(q, a, b) \in Seq(Letter) /\ Len(SubSeq(q, a, b)) = b - a + 1
           /\ \A j \in 1..(b - a + 1) : SubSeq(q, a, b)[j] = q[a + j - 1]
OBVIOUS

\* The rows of the data, without the line end before them.
LEMMA CopyRows == trim(<<>> \o Data1) = Rows1 /\ trim(<<>> \o Data2) = Rows2
<1>1. /\ Data1[1] = Newline /\ Data1[2] = Eks /\ Data1[6] = Eks
      /\ Data2[1] = Newline /\ Data2[2] = Eks
  BY DEF Data1, Data2
<1>2. <<>> \o Data1 = Data1 /\ <<>> \o Data2 = Data2
  BY CopyTexts
<1>3. trim(Data1) = SubSeq(Data1, 2, 6)
  <2>1. 2 \in 1..Len(Data1) /\ 6 \in 1..Len(Data1) /\ Data1[2] \notin Blank /\ Data1[6] \notin Blank
    BY <1>1, CopyTexts, CopyCharacters
  <2>2. Blanks(Data1, 1, 2 - 1) /\ Blanks(Data1, 6 + 1, Len(Data1))
    BY <1>1, CopyTexts, CopyCharacters DEF Blanks
  <2> QED
    BY <2>1, <2>2, CopyTexts, TrimIs
<1>4. trim(Data2) = SubSeq(Data2, 2, 2)
  <2>1. 2 \in 1..Len(Data2) /\ Data2[2] \notin Blank
    BY <1>1, CopyTexts, CopyCharacters
  <2>2. Blanks(Data2, 1, 2 - 1) /\ Blanks(Data2, 2 + 1, Len(Data2))
    BY <1>1, CopyTexts, CopyCharacters DEF Blanks
  <2> QED
    BY <2>1, <2>2, CopyTexts, TrimIs
<1>5. SubSeq(Data1, 2, 6) = Rows1
  <2> DEFINE v == SubSeq(Data1, 2, 6)
  <2>1. v \in Seq(Letter) /\ Len(v) = 5 /\ \A j \in 1..5 : v[j] = Data1[j + 1]
    <3>1. Data1 \in Seq(Letter) /\ 2 \in 1..Len(Data1) /\ 6 \in 1..Len(Data1) /\ 2 <= 6
      BY CopyTexts
    <3>2. /\ v \in Seq(Letter) /\ Len(v) = 6 - 2 + 1
          /\ \A j \in 1..(6 - 2 + 1) : v[j] = Data1[2 + j - 1]
      BY <3>1, SubSeqFacts
    <3>3. \A j \in 1..5 : 2 + j - 1 = j + 1
      OBVIOUS
    <3> HIDE DEF v
    <3> QED
      BY <3>2, <3>3
  <2>2. Rows1 \in Seq(Letter) /\ Len(Rows1) = 5
    <3>1. Eks \in Letter /\ Apos \in Letter /\ Newline \in Letter /\ Slash \in Letter
      BY CopyCharacters
    <3> QED
      BY <3>1 DEF Rows1
  <2>3. \A j \in 1..5 : Data1[j + 1] = Rows1[j]
    BY DEF Data1, Rows1
  <2> HIDE DEF v
  <2> QED
    BY <2>1, <2>2, <2>3, SeqEqual DEF v
<1>6. SubSeq(Data2, 2, 2) = Rows2
  <2> DEFINE v == SubSeq(Data2, 2, 2)
  <2>1. v \in Seq(Letter) /\ Len(v) = 1 /\ \A j \in 1..1 : v[j] = Data2[j + 1]
    <3>1. Data2 \in Seq(Letter) /\ 2 \in 1..Len(Data2) /\ 2 <= 2
      BY CopyTexts
    <3>2. /\ v \in Seq(Letter) /\ Len(v) = 2 - 2 + 1
          /\ \A j \in 1..(2 - 2 + 1) : v[j] = Data2[2 + j - 1]
      BY <3>1, SubSeqFacts
    <3>3. \A j \in 1..1 : 2 + j - 1 = j + 1
      OBVIOUS
    <3> HIDE DEF v
    <3> QED
      BY <3>2, <3>3
  <2>2. Rows2 \in Seq(Letter) /\ Len(Rows2) = 1
    <3>1. Eks \in Letter
      BY CopyCharacters
    <3> QED
      BY <3>1 DEF Rows2
  <2>3. \A j \in 1..1 : Data2[j + 1] = Rows2[j]
    BY DEF Data2, Rows2
  <2> HIDE DEF v
  <2> QED
    BY <2>1, <2>2, <2>3, SeqEqual DEF v
<1> QED
  BY <1>2, <1>3, <1>4, <1>5, <1>6

\* A COPY and its data.
LEMMA PieceCopy ==
    ASSUME NEW t \in Seq(Letter), NEW o \in Nat, NEW cur \in Seq(Letter), NEW queries,
           Meets(t, o, cur, queries, PCopy, 12), trim(cur) = <<>>
    PROVE  Lexed(t, o + 12, <<>>, Append(Append(queries, Head1), Rows1))
<1>1. /\ Reads(t, o, PCopy, 12) /\ o + 12 <= Len(t)
      /\ Boundary(t, o, cur, queries) /\ Len(t) \in Nat
  BY DEF Meets
<1>2. /\ t[o + 1] = Cee /\ t[o + 2] = Ess /\ t[o + 3] = Semi /\ t[o + 4] = Newline
      /\ t[o + 5] = Eks /\ t[o + 6] = Apos /\ t[o + 7] = Newline /\ t[o + 8] = Slash
      /\ t[o + 9] = Eks /\ t[o + 10] = Newline /\ t[o + 11] = Slash /\ t[o + 12] = Dot
  BY <1>1 DEF Reads, PCopy
<1>3. At(t, o, 0, cur, 0, queries, "text", 0)
  <2>1. t[o + 1] \notin Quotes
    BY <1>2, CopyCharacters
  <2> QED
    BY <1>1, <2>1, StartsPlain
<1>4. At(t, o, 1, cur, 1, queries, "text", 0)
  <2>1. t[o + 1] \notin Special /\ o + 1 < Len(t)
    BY <1>1, <1>2, CopyCharacters
  <2> QED
    BY <1>3, <2>1, AtText
<1>5. At(t, o, 2, cur, 2, queries, "text", 0)
  <2>1. t[o + 2] \notin Special /\ o + 2 < Len(t)
    BY <1>1, <1>2, CopyCharacters
  <2> QED
    BY <1>4, <2>1, AtText
<1> DEFINE p == o + 3
           qs == Append(queries, Head1)
           nil == <<>>
<1>6. At(t, p, 0, nil, 0, qs, "copy", 0)
  <2>1. Head1 \in Seq(Letter) /\ Reads(t, o, Head1, 2)
    BY <1>2, CopyTexts DEF Reads, Head1
  <2>2. IsCopy(trim(cur \o Head1)) /\ With(queries, cur \o Head1) = qs
    BY CopyFound
  <2>3. t[o + 3] = Semi /\ o + 3 < Len(t)
    BY <1>1, <1>2
  <2> HIDE DEF qs
  <2>4. At(t, o + 3, 0, <<>>, 0, With(queries, cur \o Head1), "copy", 0)
    BY <1>5, <2>1, <2>2, <2>3, AtSemicolon
  <2> QED
    BY <2>2, <2>4
<1>7. /\ t[p + 1] = Newline /\ t[p + 2] = Eks /\ t[p + 3] = Apos /\ t[p + 4] = Newline
      /\ t[p + 5] = Slash /\ t[p + 6] = Eks /\ t[p + 7] = Newline /\ t[p + 8] = Slash /\ t[p + 9] = Dot
  BY <1>2
<1>8. p \in Nat /\ p + 9 <= Len(t) /\ p + 9 = o + 12
  BY <1>1
<1>9. nil \in Seq(Letter)
  OBVIOUS
<1> HIDE DEF p, qs, nil
<1>10. At(t, p, 1, nil, 1, qs, "copy", 0)
  <2>1. t[p + 1 + 1] # Slash
    BY <1>7, <1>8, CopyCharacters
  <2>2. ~DataEnds(t, p, 1) /\ p + 1 + 2 <= Len(t)
    BY <2>1, <1>8 DEF DataEnds
  <2> QED
    BY <1>6, <1>8, <1>9, <2>2, AtCopy
<1>11. At(t, p, 2, nil, 2, qs, "copy", 0)
  <2>1. t[p + 2] # Newline /\ t[p + 2] # Return
    BY <1>7, <1>8, CopyCharacters
  <2>2. ~DataEnds(t, p, 2) /\ p + 2 + 2 <= Len(t)
    BY <2>1, <1>8 DEF DataEnds
  <2> QED
    BY <1>8, <1>9, <1>10, <2>2, AtCopy
<1>12. At(t, p, 3, nil, 3, qs, "copy", 0)
  <2>1. t[p + 3] # Newline /\ t[p + 3] # Return
    BY <1>7, <1>8, CopyCharacters
  <2>2. ~DataEnds(t, p, 3) /\ p + 3 + 2 <= Len(t)
    BY <2>1, <1>8 DEF DataEnds
  <2> QED
    BY <1>8, <1>9, <1>11, <2>2, AtCopy
<1>13. At(t, p, 4, nil, 4, qs, "copy", 0)
  <2>1. t[p + 4 + 2] # Dot
    BY <1>7, <1>8, CopyCharacters
  <2>2. ~DataEnds(t, p, 4) /\ p + 4 + 2 <= Len(t)
    BY <2>1, <1>8 DEF DataEnds
  <2> QED
    BY <1>8, <1>9, <1>12, <2>2, AtCopy
<1>14. At(t, p, 5, nil, 5, qs, "copy", 0)
  <2>1. t[p + 5] # Newline /\ t[p + 5] # Return
    BY <1>7, <1>8, CopyCharacters
  <2>2. ~DataEnds(t, p, 5) /\ p + 5 + 2 <= Len(t)
    BY <2>1, <1>8 DEF DataEnds
  <2> QED
    BY <1>8, <1>9, <1>13, <2>2, AtCopy
<1>15. At(t, p, 6, nil, 6, qs, "copy", 0)
  <2>1. t[p + 6] # Newline /\ t[p + 6] # Return
    BY <1>7, <1>8, CopyCharacters
  <2>2. ~DataEnds(t, p, 6) /\ p + 6 + 2 <= Len(t)
    BY <2>1, <1>8 DEF DataEnds
  <2> QED
    BY <1>8, <1>9, <1>14, <2>2, AtCopy
<1> DEFINE r == p + 7
           all == Append(qs, Rows1)
<1>16. At(t, r, 0, nil, 0, all, "text", 2)
  <2>1. Data1 \in Seq(Letter) /\ Reads(t, p, Data1, 6)
    BY <1>7, CopyTexts DEF Reads, Data1
  <2>2. DataEnds(t, p, 7) /\ p + 7 + 2 <= Len(t)
    BY <1>7, <1>8 DEF DataEnds
  <2> HIDE DEF r
  <2>4. r = p + 7 /\ IsNil(nil)
    BY DEF r, nil, IsNil
  <2>3. At(t, r, 0, nil, 0, Append(qs, trim(nil \o Data1)), "text", 2)
    BY <1>8, <1>9, <1>15, <2>1, <2>2, <2>4, AtCopyEnd
  <2> QED
    BY <2>3, CopyRows DEF nil
<1>17. r \in Nat /\ r + 2 = o + 12 /\ r + 1 <= Len(t) /\ r + 2 <= Len(t)
  BY <1>8
<1> HIDE DEF r, all
<1>18. At(t, r, 1, nil, 0, all, "text", 1)
  BY <1>16, <1>17, AtSkips
<1>19. At(t, r, 2, nil, 0, all, "text", 0)
  BY <1>17, <1>18, AtSkips
<1>20. At(t, o + 12, 0, <<>>, 0, all, "text", 0)
  BY <1>17, <1>19, ShiftNone DEF nil
<1>21. o + 12 = Len(t) => split_queries(t) = With(all, <<>>)
  <2> SUFFICES ASSUME o + 12 = Len(t) PROVE split_queries(t) = With(all, <<>>)
    OBVIOUS
  <2>1. r + 2 = Len(t)
    BY <1>17
  <2> QED
    BY <1>19, <2>1, NoText, AtStop
<1> QED
  BY <1>20, <1>21 DEF Lexed, Boundary, all, qs

\* A COPY that the server refuses, and its data.
LEMMA PieceBadCopy ==
    ASSUME NEW t \in Seq(Letter), NEW o \in Nat, NEW cur \in Seq(Letter), NEW queries,
           Meets(t, o, cur, queries, PBadCopy, 9), trim(cur) = <<>>
    PROVE  Lexed(t, o + 9, <<>>, Append(Append(queries, Head2), Rows2))
<1>1. /\ Reads(t, o, PBadCopy, 9) /\ o + 9 <= Len(t)
      /\ Boundary(t, o, cur, queries) /\ Len(t) \in Nat
  BY DEF Meets
<1>2. /\ t[o + 1] = Cee /\ t[o + 2] = Bee /\ t[o + 3] = Ess /\ t[o + 4] = Semi
      /\ t[o + 5] = Newline /\ t[o + 6] = Eks /\ t[o + 7] = Return /\ t[o + 8] = Slash
      /\ t[o + 9] = Dot
  BY <1>1 DEF Reads, PBadCopy
<1>3. At(t, o, 0, cur, 0, queries, "text", 0)
  <2>1. t[o + 1] \notin Quotes
    BY <1>2, CopyCharacters
  <2> QED
    BY <1>1, <2>1, StartsPlain
<1>4. At(t, o, 1, cur, 1, queries, "text", 0)
  <2>1. t[o + 1] \notin Special /\ o + 1 < Len(t)
    BY <1>1, <1>2, CopyCharacters
  <2> QED
    BY <1>3, <2>1, AtText
<1>5. At(t, o, 2, cur, 2, queries, "text", 0)
  <2>1. t[o + 2] \notin Special /\ o + 2 < Len(t)
    BY <1>1, <1>2, CopyCharacters
  <2> QED
    BY <1>4, <2>1, AtText
<1>6. At(t, o, 3, cur, 3, queries, "text", 0)
  <2>1. t[o + 3] \notin Special /\ o + 3 < Len(t)
    BY <1>1, <1>2, CopyCharacters
  <2> QED
    BY <1>5, <2>1, AtText
<1> DEFINE p == o + 4
           qs == Append(queries, Head2)
           nil == <<>>
<1>7. At(t, p, 0, nil, 0, qs, "copy", 0)
  <2>1. Head2 \in Seq(Letter) /\ Reads(t, o, Head2, 3)
    BY <1>2, CopyTexts DEF Reads, Head2
  <2>2. IsCopy(trim(cur \o Head2)) /\ With(queries, cur \o Head2) = qs
    BY CopyFound
  <2>3. t[o + 4] = Semi /\ o + 4 < Len(t)
    BY <1>1, <1>2
  <2> HIDE DEF qs
  <2>4. At(t, o + 4, 0, <<>>, 0, With(queries, cur \o Head2), "copy", 0)
    BY <1>6, <2>1, <2>2, <2>3, AtSemicolon
  <2> QED
    BY <2>2, <2>4
<1>8. /\ t[p + 1] = Newline /\ t[p + 2] = Eks /\ t[p + 3] = Return
      /\ t[p + 4] = Slash /\ t[p + 5] = Dot
  BY <1>2
<1>9. p \in Nat /\ p + 5 <= Len(t) /\ p + 5 = o + 9
  BY <1>1
<1>10. nil \in Seq(Letter)
  OBVIOUS
<1> HIDE DEF p, qs, nil
<1>11. At(t, p, 1, nil, 1, qs, "copy", 0)
  <2>1. t[p + 1 + 1] # Slash
    BY <1>8, <1>9, CopyCharacters
  <2>2. ~DataEnds(t, p, 1) /\ p + 1 + 2 <= Len(t)
    BY <2>1, <1>9 DEF DataEnds
  <2> QED
    BY <1>7, <1>9, <1>10, <2>2, AtCopy
<1>12. At(t, p, 2, nil, 2, qs, "copy", 0)
  <2>1. t[p + 2] # Newline /\ t[p + 2] # Return
    BY <1>8, <1>9, CopyCharacters
  <2>2. ~DataEnds(t, p, 2) /\ p + 2 + 2 <= Len(t)
    BY <2>1, <1>9 DEF DataEnds
  <2> QED
    BY <1>9, <1>10, <1>11, <2>2, AtCopy
<1> DEFINE r == p + 3
           all == Append(qs, Rows2)
<1>13. At(t, r, 0, nil, 0, all, "text", 2)
  <2>1. Data2 \in Seq(Letter) /\ Reads(t, p, Data2, 2)
    BY <1>8, CopyTexts DEF Reads, Data2
  <2>2. DataEnds(t, p, 3) /\ p + 3 + 2 <= Len(t)
    BY <1>8, <1>9 DEF DataEnds
  <2> HIDE DEF r
  <2>4. r = p + 3 /\ IsNil(nil)
    BY DEF r, nil, IsNil
  <2>3. At(t, r, 0, nil, 0, Append(qs, trim(nil \o Data2)), "text", 2)
    BY <1>9, <1>10, <1>12, <2>1, <2>2, <2>4, AtCopyEnd
  <2> QED
    BY <2>3, CopyRows DEF nil
<1>14. r \in Nat /\ r + 2 = o + 9 /\ r + 1 <= Len(t) /\ r + 2 <= Len(t)
  BY <1>9
<1> HIDE DEF r, all
<1>15. At(t, r, 1, nil, 0, all, "text", 1)
  BY <1>13, <1>14, AtSkips
<1>16. At(t, r, 2, nil, 0, all, "text", 0)
  BY <1>14, <1>15, AtSkips
<1>17. At(t, o + 9, 0, <<>>, 0, all, "text", 0)
  BY <1>14, <1>16, ShiftNone DEF nil
<1>18. o + 9 = Len(t) => split_queries(t) = With(all, <<>>)
  <2> SUFFICES ASSUME o + 9 = Len(t) PROVE split_queries(t) = With(all, <<>>)
    OBVIOUS
  <2>1. r + 2 = Len(t)
    BY <1>14
  <2> QED
    BY <1>16, <2>1, NoText, AtStop
<1> QED
  BY <1>17, <1>18 DEF Lexed, Boundary, all, qs

(***************************************************************************)
(* exec_queries.                                                            *)
(***************************************************************************)
ExecTurn(f, qs, k) == IF k = 0 THEN Begun ELSE exec_query(f[k - 1], qs[k])

\* f holds the states of the loop over the first n queries.
Runs(f, qs, n) == \A k \in 0..n : f[k] = ExecTurn(f, qs, k)

\* The loop over the queries runs to any length.
LEMMA ExecExists ==
    ASSUME NEW qs, NEW n \in Nat
    PROVE  \E f : f = [k \in 0..n |-> ExecTurn(f, qs, k)]
<1> DEFINE Is(f, m) == f = [k \in 0..m |-> ExecTurn(f, qs, k)]
<1> DEFINE G == {m \in Nat : \E f : Is(f, m)}
<1>1. 0 \in G
  <2> DEFINE f == [k \in 0..0 |-> Begun]
  <2>1. Is(f, 0)
    BY DEF ExecTurn
  <2> QED
    BY <2>1
<1>2. ASSUME NEW m \in Nat, m \in G PROVE m + 1 \in G
  <2>1. PICK f : f = [k \in 0..m |-> ExecTurn(f, qs, k)]
    BY <1>2
  <2> DEFINE h == [k \in 0..(m + 1) |-> IF k = m + 1 THEN ExecTurn(f, qs, k) ELSE f[k]]
  <2>2. ASSUME NEW k \in 0..(m + 1) PROVE h[k] = ExecTurn(h, qs, k)
    <3>1. k = 0 \/ (k - 1 \in 0..m /\ h[k - 1] = f[k - 1])
      OBVIOUS
    <3>2. ExecTurn(h, qs, k) = ExecTurn(f, qs, k)
      BY <3>1 DEF ExecTurn
    <3>3. k \in 0..m => f[k] = ExecTurn(f, qs, k)
      BY <2>1
    <3>4. h[k] = ExecTurn(f, qs, k)
      BY <3>3
    <3> QED
      BY <3>2, <3>4
  <2>3. h = [k \in 0..(m + 1) |-> h[k]]
    OBVIOUS
  <2> HIDE DEF h
  <2>4. Is(h, m + 1)
    BY <2>2, <2>3
  <2> HIDE DEF Is
  <2> QED
    BY <2>4
<1> HIDE DEF G
<1>3. n \in G
  BY <1>1, <1>2, NatSetInduction
<1> QED
  BY <1>3 DEF G

\* The states of the loop.
LEMMA ExecRuns ==
    ASSUME NEW qs, Len(qs) \in Nat
    PROVE  \E f : Runs(f, qs, Len(qs)) /\ exec_all(qs) = f[Len(qs)]
<1> DEFINE f == CHOOSE f : f = [k \in 0..Len(qs) |-> ExecTurn(f, qs, k)]
<1>1. f = [k \in 0..Len(qs) |-> ExecTurn(f, qs, k)]
  BY ExecExists
<1>2. exec_all(qs) = f[Len(qs)]
  BY DEF exec_all, ExecTurn
<1> HIDE DEF f
<1>3. Runs(f, qs, Len(qs))
  BY <1>1 DEF Runs
<1> QED
  BY <1>2, <1>3

\* The same queries lead to the same state.
LEMMA ExecAgree ==
    ASSUME NEW qs, NEW rs, NEW n \in Nat, NEW f, NEW g, Runs(f, qs, n), Runs(g, rs, n),
           \A k \in 1..n : qs[k] = rs[k]
    PROVE  f[n] = g[n]
<1> DEFINE X == {k \in Nat : k <= n => f[k] = g[k]}
<1>1. 0 \in X
  BY DEF Runs, ExecTurn
<1>2. ASSUME NEW k \in Nat, k \in X PROVE k + 1 \in X
  <2> SUFFICES ASSUME k + 1 <= n PROVE f[k + 1] = g[k + 1]
    OBVIOUS
  <2>1. f[k] = g[k] /\ k + 1 \in 0..n /\ k + 1 \in 1..n /\ k + 1 # 0 /\ (k + 1) - 1 = k
    BY <1>2
  <2>2. f[k + 1] = exec_query(f[k], qs[k + 1])
    BY <2>1 DEF Runs, ExecTurn
  <2>3. g[k + 1] = exec_query(g[k], rs[k + 1])
    BY <2>1 DEF Runs, ExecTurn
  <2> QED
    BY <2>1, <2>2, <2>3
<1> HIDE DEF X
<1>3. n \in X
  BY <1>1, <1>2, NatSetInduction
<1> QED
  BY <1>3 DEF X

\* No query, and one query more.
LEMMA ExecSnoc ==
    ASSUME NEW qs \in Seq(Seq(Letter)), NEW q \in Seq(Letter)
    PROVE  /\ exec_all(<<>>) = Begun
           /\ exec_all(Append(qs, q)) = exec_query(exec_all(qs), q)
<1>1. exec_all(<<>>) = Begun
  <2>1. PICK f : Runs(f, <<>>, Len(<<>>)) /\ exec_all(<<>>) = f[Len(<<>>)]
    BY ExecRuns
  <2>2. Len(<<>>) = 0
    OBVIOUS
  <2> QED
    BY <2>1, <2>2 DEF Runs, ExecTurn
<1>2. exec_all(Append(qs, q)) = exec_query(exec_all(qs), q)
  <2> DEFINE rs == Append(qs, q)
             n == Len(qs)
  <2>1. /\ Len(rs) = n + 1 /\ n \in Nat /\ Len(rs) \in Nat /\ rs[n + 1] = q
        /\ \A k \in 1..n : qs[k] = rs[k]
    OBVIOUS
  <2>2. n + 1 \in 0..(n + 1) /\ n + 1 # 0 /\ (n + 1) - 1 = n /\ 0..n \subseteq 0..(n + 1)
    BY <2>1
  <2> HIDE DEF rs, n
  <2>3. PICK f : Runs(f, qs, n) /\ exec_all(qs) = f[n]
    BY <2>1, ExecRuns DEF n
  <2>4. PICK g : Runs(g, rs, n + 1) /\ exec_all(rs) = g[n + 1]
    BY <2>1, ExecRuns
  <2>5. Runs(g, rs, n)
    BY <2>2, <2>4 DEF Runs
  <2>6. f[n] = g[n]
    BY <2>1, <2>3, <2>5, ExecAgree
  <2>7. g[n + 1] = exec_query(g[n], rs[n + 1])
    BY <2>2, <2>4 DEF Runs, ExecTurn
  <2> QED
    BY <2>1, <2>3, <2>4, <2>6, <2>7 DEF rs
<1> QED
  BY <1>1, <1>2

(***************************************************************************)
(* What the loop over the queries has done: all of them, or a beginning of  *)
(* them before it threw.                                                    *)
(***************************************************************************)
ExecState == [tx : {"open", "failed"}, copying : BOOLEAN, thrown : BOOLEAN, done : Seq(Seq(Letter))]

Begins(a, b) == Len(a) <= Len(b) /\ \A h \in 1..Len(a) : a[h] = b[h]
Fresh(x) == ~x.thrown /\ ~x.copying /\ x.tx = "open"
Ran(x, all) ==
    /\ x \in ExecState
    /\ \/ x.thrown /\ Begins(x.done, all)
       \/ Fresh(x) /\ x.done = all

\* A beginning stays one.
LEMMA BeginsMore ==
    ASSUME NEW a \in Seq(Seq(Letter)), NEW b \in Seq(Seq(Letter)), NEW q \in Seq(Letter)
    PROVE  /\ Begins(a, b) => Begins(a, Append(b, q))
           /\ Begins(b, b)
           /\ Append(b, q) \in Seq(Seq(Letter))
<1>1. /\ Len(a) \in Nat /\ Len(b) \in Nat /\ Len(Append(b, q)) = Len(b) + 1
      /\ \A h \in 1..Len(b) : Append(b, q)[h] = b[h]
      /\ Append(b, q) \in Seq(Seq(Letter))
  OBVIOUS
<1> QED
  BY <1>1 DEF Begins

\* A query after one that was thrown.
LEMMA ExecThrown ==
    ASSUME NEW x, x.thrown, NEW q
    PROVE  exec_query(x, q) = x
BY DEF exec_query

\* A query of a transaction in good order.
LEMMA ExecFresh ==
    ASSUME NEW x \in ExecState, Fresh(x), NEW q \in Seq(Letter), NEW r, r = exec_query(x, q),
           NEW v, v = Verdict(q, "open")
    PROVE  /\ v \in {COMMAND_OK, COPY_IN, FATAL_ERROR}
           /\ r.tx = IF v = FATAL_ERROR THEN "failed" ELSE "open"
           /\ r.done = IF v = FATAL_ERROR THEN x.done ELSE Append(x.done, q)
           /\ r.copying = (v # COMMAND_OK /\ IsCopy(q))
           /\ r.thrown = (~(v # COMMAND_OK /\ IsCopy(q)) /\ v # COMMAND_OK)
           /\ r \in ExecState
<1>1. v \in {COMMAND_OK, COPY_IN, FATAL_ERROR}
  BY DEF Verdict
<1>2. x.tx = "open" /\ ~x.thrown /\ ~x.copying
  BY DEF Fresh
<1> DEFINE c == v >= COPY_IN /\ IsCopy(q)
<1>3. r = [Sent(x, q) EXCEPT !.copying = c, !.thrown = ~c /\ v # COMMAND_OK]
  BY <1>2 DEF exec_query
<1>4. c = (v # COMMAND_OK /\ IsCopy(q)) /\ c \in BOOLEAN
  <2>1. v >= COPY_IN <=> v # COMMAND_OK
    BY <1>1 DEF COPY_IN, COMMAND_OK, FATAL_ERROR
  <2> QED
    BY <2>1
<1>5. Sent(x, q) = [x EXCEPT !.tx = IF v = FATAL_ERROR THEN "failed" ELSE "open",
                             !.done = IF v = FATAL_ERROR THEN x.done ELSE Append(x.done, q)]
  BY <1>2 DEF Sent, ExecState
<1> HIDE DEF c
<1>6. x.done \in Seq(Seq(Letter)) /\ Append(x.done, q) \in Seq(Seq(Letter))
  BY DEF ExecState
<1> DEFINE y == Sent(x, q)
<1>7. /\ y.tx = (IF v = FATAL_ERROR THEN "failed" ELSE "open")
      /\ y.done = (IF v = FATAL_ERROR THEN x.done ELSE Append(x.done, q))
      /\ y \in ExecState
  BY <1>5, <1>6 DEF ExecState
<1> HIDE DEF y
<1>8. r = [y EXCEPT !.copying = c, !.thrown = ~c /\ v # COMMAND_OK]
  BY <1>3 DEF y
<1>9. /\ r.tx = y.tx /\ r.done = y.done /\ r.copying = c /\ r.thrown = (~c /\ v # COMMAND_OK)
      /\ r \in ExecState
  BY <1>4, <1>7, <1>8 DEF ExecState
<1> QED
  BY <1>1, <1>4, <1>7, <1>9

\* A query that is not a COPY: it is accepted, or the loop throws.
LEMMA RanOrdinary ==
    ASSUME NEW x, NEW all \in Seq(Seq(Letter)), NEW q \in Seq(Letter), Ran(x, all), ~IsCopy(q)
    PROVE  Ran(exec_query(x, q), Append(all, q))
<1>1. CASE x.thrown
  <2>1. exec_query(x, q) = x
    BY <1>1, ExecThrown
  <2>2. x \in ExecState /\ x.done \in Seq(Seq(Letter)) /\ Begins(x.done, all)
    BY <1>1 DEF Ran, ExecState, Fresh
  <2> QED
    BY <1>1, <2>1, <2>2, BeginsMore DEF Ran
<1>2. CASE ~x.thrown
  <2> DEFINE r == exec_query(x, q)
             v == Verdict(q, "open")
  <2>1. x \in ExecState /\ Fresh(x) /\ x.done = all
    BY <1>2 DEF Ran
  <2>2. /\ r \in ExecState /\ v \in {COMMAND_OK, COPY_IN, FATAL_ERROR}
        /\ r.tx = (IF v = FATAL_ERROR THEN "failed" ELSE "open")
        /\ r.done = (IF v = FATAL_ERROR THEN all ELSE Append(all, q))
        /\ ~r.copying /\ r.thrown = (v # COMMAND_OK)
    <3> HIDE DEF r, v
    <3>1. /\ r \in ExecState /\ v \in {COMMAND_OK, COPY_IN, FATAL_ERROR}
          /\ r.tx = (IF v = FATAL_ERROR THEN "failed" ELSE "open")
          /\ r.done = (IF v = FATAL_ERROR THEN x.done ELSE Append(x.done, q))
          /\ r.copying = (v # COMMAND_OK /\ IsCopy(q))
          /\ r.thrown = (~(v # COMMAND_OK /\ IsCopy(q)) /\ v # COMMAND_OK)
      BY <2>1, ExecFresh DEF r, v
    <3> QED
      BY <2>1, <3>1
  <2> HIDE DEF r, v
  <2>3. Begins(all, Append(all, q)) /\ Begins(Append(all, q), Append(all, q))
    BY BeginsMore
  <2>4. v = COMMAND_OK => v # FATAL_ERROR
    BY DEF COMMAND_OK, FATAL_ERROR
  <2>5. CASE v = COMMAND_OK
    BY <2>2, <2>4, <2>5 DEF Ran, Fresh, r
  <2>6. CASE v # COMMAND_OK
    BY <2>2, <2>3, <2>6 DEF Ran, r
  <2> QED
    BY <2>5, <2>6
<1> QED
  BY <1>1, <1>2

\* The verdicts on COPY: one statement the server takes, one it refuses.
LEMMA CopyVerdicts ==
    Verdict(Head1, "open") = COPY_IN /\ Verdict(Head2, "open") = FATAL_ERROR
<1>1. Range(Head1) = {"C", "S"} /\ Head1[1] = "C"
  BY DEF Range, Head1, Cee, Ess
<1>2. "b" \in Range(Head2)
  BY DEF Range, Head2, Cee, Ess, Bee
<1>3. "b" \notin Range(Head1) /\ "S" \in Range(Head1)
  BY <1>1
<1>4. Verdict(Head1, "open") = COPY_IN
  BY <1>1, <1>3 DEF Verdict
<1>5. Verdict(Head2, "open") = FATAL_ERROR
  BY <1>2 DEF Verdict
<1> QED
  BY <1>4, <1>5

\* A COPY and its data.
LEMMA RanCopy ==
    ASSUME NEW x, NEW all \in Seq(Seq(Letter)), Ran(x, all), NEW q \in Seq(Letter)
    PROVE  Ran(exec_query(exec_query(x, Head1), q), Append(Append(all, Head1), q))
<1>0. Head1 \in Seq(Letter) /\ IsCopy(Head1)
  BY CopyTexts, CopyFound, NoText
<1>1. CASE x.thrown
  <2>1. exec_query(x, Head1) = x /\ exec_query(x, q) = x
    BY <1>1, ExecThrown
  <2>2. x \in ExecState /\ x.done \in Seq(Seq(Letter)) /\ Begins(x.done, all)
    BY <1>1 DEF Ran, ExecState, Fresh
  <2>3. Begins(x.done, Append(all, Head1)) /\ Append(all, Head1) \in Seq(Seq(Letter))
    BY <1>0, <2>2, BeginsMore
  <2>4. Begins(x.done, Append(Append(all, Head1), q))
    BY <2>2, <2>3, BeginsMore
  <2> QED
    BY <1>1, <2>1, <2>2, <2>4 DEF Ran
<1>2. CASE ~x.thrown
  <2> DEFINE r == exec_query(x, Head1)
             h == Append(all, Head1)
             z == exec_query(r, q)
  <2>1. x \in ExecState /\ Fresh(x) /\ x.done = all
    BY <1>2 DEF Ran
  <2>2. COPY_IN # FATAL_ERROR /\ COPY_IN # COMMAND_OK
    BY DEF COMMAND_OK, FATAL_ERROR, COPY_IN
  <2> DEFINE v == Verdict(Head1, "open")
  <2>7. v = COPY_IN
    BY CopyVerdicts
  <2> HIDE DEF r, v
  <2>8. /\ r \in ExecState /\ r.tx = (IF v = FATAL_ERROR THEN "failed" ELSE "open")
        /\ r.done = (IF v = FATAL_ERROR THEN x.done ELSE Append(x.done, Head1))
        /\ r.copying = (v # COMMAND_OK /\ IsCopy(Head1))
        /\ r.thrown = (~(v # COMMAND_OK /\ IsCopy(Head1)) /\ v # COMMAND_OK)
    BY <1>0, <2>1, ExecFresh DEF r, v
  <2>3. r \in ExecState /\ r.tx = "open" /\ r.done = h /\ r.copying /\ ~r.thrown
    BY <1>0, <2>1, <2>2, <2>7, <2>8
  <2>4. h \in Seq(Seq(Letter)) /\ Append(h, q) \in Seq(Seq(Letter))
    BY <1>0
  <2> HIDE DEF r, h
  <2>5. z = [r EXCEPT !.copying = FALSE, !.done = Append(h, q)]
    BY <2>3 DEF exec_query, ExecState
  <2>6. z \in ExecState /\ z.tx = "open" /\ z.done = Append(h, q) /\ ~z.copying /\ ~z.thrown
    BY <2>3, <2>4, <2>5 DEF ExecState
  <2> HIDE DEF z
  <2> QED
    BY <2>6 DEF Ran, Fresh, z, r, h
<1> QED
  BY <1>1, <1>2

\* A COPY the server refuses, for which the loop does not throw.
LEMMA RanRefused ==
    ASSUME NEW x, NEW all \in Seq(Seq(Letter)), Ran(x, all), NEW r, r = exec_query(x, Head2)
    PROVE  /\ r \in ExecState /\ Begins(r.done, all)
           /\ r.thrown \/ (r.copying /\ ~r.thrown /\ r.tx = "failed")
<1>0. Head2 \in Seq(Letter) /\ IsCopy(Head2)
  BY CopyTexts, CopyFound, NoText
<1>1. CASE x.thrown
  <2>1. r = x
    BY <1>1, ExecThrown
  <2> QED
    BY <1>1, <2>1 DEF Ran, Fresh
<1>2. CASE ~x.thrown
  <2>1. x \in ExecState /\ Fresh(x) /\ x.done = all
    BY <1>2 DEF Ran
  <2>2. FATAL_ERROR # COMMAND_OK
    BY DEF COMMAND_OK, FATAL_ERROR
  <2>3. r \in ExecState /\ r.tx = "failed" /\ r.done = all /\ r.copying /\ ~r.thrown
    BY <1>0, <2>1, <2>2, CopyVerdicts, ExecFresh
  <2>4. Begins(all, all)
    BY <1>0, BeginsMore
  <2> QED
    BY <2>3, <2>4
<1> QED
  BY <1>1, <1>2

\* It throws when the data is sent.
LEMMA RanBadCopy ==
    ASSUME NEW x, NEW all \in Seq(Seq(Letter)), Ran(x, all), NEW q \in Seq(Letter)
    PROVE  Ran(exec_query(exec_query(x, Head2), q), Append(Append(all, Head2), q))
<1> DEFINE r == exec_query(x, Head2)
           z == exec_query(r, q)
           h == Append(all, Head2)
<1>1. /\ r \in ExecState /\ Begins(r.done, all)
      /\ r.thrown \/ (r.copying /\ ~r.thrown /\ r.tx = "failed")
  BY RanRefused
<1>2. Head2 \in Seq(Letter) /\ r.done \in Seq(Seq(Letter))
  BY <1>1, CopyTexts DEF ExecState
<1> HIDE DEF r
<1>3. Begins(r.done, h) /\ h \in Seq(Seq(Letter))
  BY <1>1, <1>2, BeginsMore
<1> HIDE DEF h
<1>4. Begins(r.done, Append(h, q))
  BY <1>2, <1>3, BeginsMore
<1>5. z = r \/ z = [r EXCEPT !.thrown = TRUE]
  BY <1>1 DEF exec_query
<1>6. z \in ExecState /\ z.thrown /\ z.done = r.done
  <2>1. CASE r.thrown
    <3>1. z = r
      BY <2>1, ExecThrown
    <3> QED
      BY <1>1, <2>1, <3>1
  <2>2. CASE ~r.thrown
    <3>1. z = [r EXCEPT !.thrown = TRUE]
      BY <1>1, <2>2 DEF exec_query
    <3> QED
      BY <1>1, <3>1 DEF ExecState
  <2> QED
    BY <2>1, <2>2
<1> HIDE DEF z
<1> QED
  BY <1>4, <1>6 DEF Ran, z, r, h

(***************************************************************************)
(* The pieces.                                                              *)
(***************************************************************************)
PlainKinds == {"word", "bad", "space", "csvcopy", "lastcopy"}
Ay == "a"
Gap == " "
PCsvCopy == <<Cee, Ess, Ay>>
PlainTexts == {<<Ay>>, <<Bee>>, <<Gap>>, PCsvCopy, Head2}

\* The kinds of pieces.
LEMMA KindsAre ==
    Kinds = PlainKinds \cup {"semicolon", "string", "ident", "dollar", "tagged", "comment", "copy", "badcopy"}
BY DEF Kinds, Chars, PlainKinds

\* The characters of each piece.
LEMMA CharsAre ==
    /\ \A p \in PlainKinds : Chars[p] \in PlainTexts
    /\ Chars["lastcopy"] = Head2
    /\ Chars["semicolon"] = PSemicolon /\ Chars["string"] = PString /\ Chars["ident"] = PIdent
    /\ Chars["dollar"] = PDollar /\ Chars["tagged"] = PTagged /\ Chars["comment"] = PComment
    /\ Chars["copy"] = PCopy /\ Chars["badcopy"] = PBadCopy
<1>1. \A p \in PlainKinds : Chars[p] \in PlainTexts
  <2>1. Chars["word"] = <<Ay>> /\ Chars["bad"] = <<Bee>> /\ Chars["space"] = <<Gap>>
        /\ Chars["csvcopy"] = PCsvCopy /\ Chars["lastcopy"] = Head2
    BY DEF Chars, Ay, Bee, Gap, PCsvCopy, Cee, Ess, Head2
  <2>2. <<Ay>> \in PlainTexts /\ <<Bee>> \in PlainTexts /\ <<Gap>> \in PlainTexts
        /\ PCsvCopy \in PlainTexts /\ Head2 \in PlainTexts
    BY DEF PlainTexts
  <2> QED
    BY <2>1, <2>2 DEF PlainKinds
<1>2. Chars["lastcopy"] = Head2 /\ Chars["semicolon"] = PSemicolon
  BY DEF Chars, Head2, Cee, Bee, Ess, PSemicolon, Semi
<1>3. Chars["string"] = PString
  BY DEF Chars, PString, Apos, Semi, Sign
<1>4. Chars["ident"] = PIdent
  BY DEF Chars, PIdent, Apos, Double, Dash
<1>5. Chars["dollar"] = PDollar
  BY DEF Chars, PDollar, Sign, Semi, Apos
<1>6. Chars["tagged"] = PTagged
  BY DEF Chars, PTagged, Sign, Semi, Dash, Tee
<1>7. Chars["comment"] = PComment
  BY DEF Chars, PComment, Dash, Semi, Apos, Sign, Newline
<1>8. Chars["copy"] = PCopy
  BY DEF Chars, PCopy, Cee, Ess, Semi, Newline, Eks, Apos, Slash, Dot
<1>9. Chars["badcopy"] = PBadCopy
  BY DEF Chars, PBadCopy, Cee, Bee, Ess, Semi, Newline, Return, Eks, Slash, Dot
<1> QED
  BY <1>1, <1>2, <1>3, <1>4, <1>5, <1>6, <1>7, <1>8, <1>9

\* They are characters a script may have.
LEMMA PiecesAreTexts ==
    /\ \A u \in PlainTexts : /\ u \in Seq(Letter) /\ Len(u) \in Nat \ {0}
                             /\ \A h \in 1..Len(u) : u[h] \notin Special
    /\ PSemicolon \in Seq(Letter) /\ Len(PSemicolon) = 1
    /\ PString \in Seq(Letter) /\ Len(PString) = 6
    /\ PIdent \in Seq(Letter) /\ Len(PIdent) = 5
    /\ PDollar \in Seq(Letter) /\ Len(PDollar) = 6
    /\ PTagged \in Seq(Letter) /\ Len(PTagged) = 10
    /\ PComment \in Seq(Letter) /\ Len(PComment) = 6
    /\ PCopy \in Seq(Letter) /\ Len(PCopy) = 12
    /\ PBadCopy \in Seq(Letter) /\ Len(PBadCopy) = 9
<1>1. ASSUME NEW u \in PlainTexts
      PROVE  /\ u \in Seq(Letter) /\ Len(u) \in Nat \ {0}
             /\ \A h \in 1..Len(u) : u[h] \notin Special
  <2> DEFINE P == Letter \ Special
  <2>1. Ay \in P /\ Bee \in P /\ Gap \in P /\ Cee \in P /\ Ess \in P
    BY DEF Letter, Special, Ay, Bee, Gap, Cee, Ess
  <2> HIDE DEF P
  <2>2. u \in Seq(P) /\ Len(u) \in Nat \ {0}
    <3>1. <<Ay>> \in Seq(P) /\ <<Bee>> \in Seq(P) /\ <<Gap>> \in Seq(P)
          /\ Len(<<Ay>>) = 1 /\ Len(<<Bee>>) = 1 /\ Len(<<Gap>>) = 1
      BY <2>1
    <3>2. PCsvCopy \in Seq(P) /\ Len(PCsvCopy) = 3
      BY <2>1 DEF PCsvCopy
    <3>3. Head2 \in Seq(P) /\ Len(Head2) = 3
      BY <2>1 DEF Head2
    <3>4. u = <<Ay>> \/ u = <<Bee>> \/ u = <<Gap>> \/ u = PCsvCopy \/ u = Head2
      BY DEF PlainTexts
    <3>5. u \in Seq(P)
      BY <3>1, <3>2, <3>3, <3>4
    <3>6. Len(u) = 1 \/ Len(u) = 3
      BY <3>1, <3>2, <3>3, <3>4
    <3> QED
      BY <3>5, <3>6
  <2>3. \A h \in 1..Len(u) : u[h] \in P
    BY <2>2
  <2>4. u \in Seq(Letter)
    <3>1. \A h \in 1..Len(u) : u[h] \in Letter
      BY <2>3 DEF P
    <3>2. u = [h \in 1..Len(u) |-> u[h]] /\ Len(u) \in Nat
      BY <2>2
    <3> QED
      BY <3>1, <3>2
  <2> QED
    BY <2>2, <2>3, <2>4 DEF P
<1>2. /\ Apos \in Letter /\ Double \in Letter /\ Semi \in Letter /\ Dash \in Letter /\ Newline \in Letter
      /\ Return \in Letter
      /\ Slash \in Letter /\ Dot \in Letter /\ Sign \in Letter /\ Tee \in Letter /\ Cee \in Letter
      /\ Ess \in Letter /\ Bee \in Letter /\ Eks \in Letter
  BY DEF Letter, Apos, Double, Semi, Dash, Newline, Return, Slash, Dot, Sign, Tee, Cee, Ess, Bee, Eks
<1> HIDE DEF Letter
<1>3. PSemicolon \in Seq(Letter) /\ Len(PSemicolon) = 1
  BY <1>2 DEF PSemicolon
<1>4. PString \in Seq(Letter) /\ Len(PString) = 6 /\ PIdent \in Seq(Letter) /\ Len(PIdent) = 5
  BY <1>2 DEF PString, PIdent
<1>5. PDollar \in Seq(Letter) /\ Len(PDollar) = 6 /\ PComment \in Seq(Letter) /\ Len(PComment) = 6
  BY <1>2 DEF PDollar, PComment
<1>6. PTagged \in Seq(Letter) /\ Len(PTagged) = 10
  BY <1>2 DEF PTagged
<1>7. PCopy \in Seq(Letter) /\ Len(PCopy) = 12
  BY <1>2 DEF PCopy
<1>8. PBadCopy \in Seq(Letter) /\ Len(PBadCopy) = 9
  BY <1>2 DEF PBadCopy
<1> QED
  BY <1>1, <1>3, <1>4, <1>5, <1>6, <1>7, <1>8

\* " stdin" is followed by more of the statement. (Such a statement is not
\* taken for a COPY with data.)
OnlyBefore(q) == \A k \in 1..Len(q) : q[k] = Ess => k + 1 \in 1..Len(q) /\ q[k + 1] = Ay

\* A statement without " stdin" at its end is not a COPY with data.
LEMMA NotCopy ==
    ASSUME NEW q \in Seq(Letter), OnlyBefore(q)
    PROVE  ~IsCopy(trim(q))
<1>1. CASE Blanks(q, 1, Len(q))
  <2>1. trim(q) = <<>>
    BY <1>1, TrimBlanks
  <2> QED
    BY <2>1 DEF IsCopy
<1>2. CASE ~Blanks(q, 1, Len(q))
  <2>1. PICK a, b \in 1..Len(q) :
              /\ a <= b /\ q[a] \notin Blank /\ q[b] \notin Blank
              /\ Blanks(q, 1, a - 1) /\ Blanks(q, b + 1, Len(q))
    BY <1>2, TrimEnds
  <2>2. trim(q) = SubSeq(q, a, b)
    BY <2>1, TrimIs
  <2> DEFINE v == SubSeq(q, a, b)
  <2>3. v \in Seq(Letter) /\ Len(v) = b - a + 1 /\ v[b - a + 1] = q[a + (b - a + 1) - 1]
    <3>1. b - a + 1 \in 1..(b - a + 1)
      BY <2>1
    <3> QED
      BY <2>1, <3>1, SubSeqFacts
  <2>4. a + (b - a + 1) - 1 = b
    BY <2>1
  <2> HIDE DEF v
  <2>5. Last(v) = q[b]
    BY <2>3, <2>4 DEF Last
  <2>6. q[b] # Ess
    <3> SUFFICES ASSUME q[b] = Ess PROVE FALSE
      OBVIOUS
    <3>1. b + 1 \in 1..Len(q) /\ q[b + 1] = Ay
      BY <2>1 DEF OnlyBefore
    <3>2. b + 1 \in (b + 1)..Len(q)
      BY <3>1
    <3>3. q[b + 1] \in Blank
      BY <2>1, <3>2 DEF Blanks
    <3> QED
      BY <3>1, <3>3 DEF Blank, Ay
  <2> QED
    BY <2>2, <2>5, <2>6 DEF IsCopy, v, Ess
<1> QED
  BY <1>1, <1>2

\* Two parts of such a statement make one.
LEMMA OnlyCat ==
    ASSUME NEW a \in Seq(Letter), NEW b \in Seq(Letter), OnlyBefore(a), OnlyBefore(b)
    PROVE  OnlyBefore(a \o b)
<1> DEFINE q == a \o b
           n == Len(a)
           m == Len(b)
<1>1. /\ Len(q) = n + m /\ n \in Nat /\ m \in Nat
      /\ \A j \in 1..n : q[j] = a[j]
      /\ \A j \in 1..m : q[n + j] = b[j]
  BY CatFacts
<1> HIDE DEF q, n, m
<1> SUFFICES ASSUME NEW k \in 1..Len(q), q[k] = Ess
             PROVE  k + 1 \in 1..Len(q) /\ q[k + 1] = Ay
  BY DEF OnlyBefore, q
<1>2. CASE k <= n
  <2>1. k \in 1..n /\ a[k] = Ess
    BY <1>1, <1>2
  <2>2. k + 1 \in 1..n /\ a[k + 1] = Ay
    BY <2>1 DEF OnlyBefore, n
  <2> QED
    BY <1>1, <2>2
<1>3. CASE k > n
  <2> DEFINE j == k - n
  <2>1. j \in 1..m /\ k = n + j
    BY <1>1, <1>3
  <2> HIDE DEF j
  <2>2. b[j] = Ess
    BY <1>1, <2>1
  <2>3. j + 1 \in 1..m /\ b[j + 1] = Ay
    BY <2>1, <2>2 DEF OnlyBefore, m
  <2>4. q[n + (j + 1)] = Ay
    BY <1>1, <2>3
  <2>5. n + (j + 1) = k + 1 /\ k + 1 \in 1..Len(q)
    BY <1>1, <2>1, <2>3
  <2> QED
    BY <2>4, <2>5
<1> QED
  BY <1>1, <1>2, <1>3

TextKinds == {"word", "bad", "space", "string", "ident", "dollar", "tagged", "csvcopy"}

\* The pieces of statements are such parts.
LEMMA PiecesOnly == OnlyBefore(<<>>) /\ \A p \in TextKinds : OnlyBefore(Chars[p])
<1>1. OnlyBefore(<<>>)
  BY DEF OnlyBefore
<1>4. Apos # Ess /\ Double # Ess /\ Semi # Ess /\ Dash # Ess /\ Sign # Ess /\ Tee # Ess
      /\ Ay # Ess /\ Bee # Ess /\ Gap # Ess /\ Cee # Ess
  BY DEF Apos, Double, Semi, Dash, Sign, Tee, Ess, Ay, Bee, Gap, Cee
<1>2. OnlyBefore(<<Ay>>) /\ OnlyBefore(<<Bee>>) /\ OnlyBefore(<<Gap>>)
  BY <1>4 DEF OnlyBefore
<1>3. OnlyBefore(PCsvCopy)
  BY <1>4 DEF OnlyBefore, PCsvCopy
<1>5. OnlyBefore(PString)
  BY <1>4 DEF OnlyBefore, PString
<1>6. OnlyBefore(PIdent)
  BY <1>4 DEF OnlyBefore, PIdent
<1>7. OnlyBefore(PDollar)
  BY <1>4 DEF OnlyBefore, PDollar
<1>8. OnlyBefore(PTagged)
  BY <1>4 DEF OnlyBefore, PTagged
<1>9. Chars["word"] = <<Ay>> /\ Chars["bad"] = <<Bee>> /\ Chars["space"] = <<Gap>>
      /\ Chars["csvcopy"] = PCsvCopy
  BY DEF Chars, Ay, Bee, Gap, PCsvCopy, Cee, Ess
<1> QED
  BY <1>1, <1>2, <1>3, <1>5, <1>6, <1>7, <1>8, <1>9, CharsAre DEF TextKinds

MeantState == [cur : Seq(Letter), all : Seq(Seq(Letter))]
Lossy == {"dollar", "tagged"}

Meaning(m, p, r) ==
    /\ p \in TextKinds \cup {"lastcopy"} => r.cur = m.cur \o Chars[p] /\ r.all = m.all
    /\ p = "semicolon" => r.cur = <<>> /\ r.all = With(m.all, m.cur)
    /\ p = "comment" => r = m
    /\ p = "copy" => r.cur = <<>> /\ r.all = Append(Append(m.all, Head1), Rows1)
    /\ p = "badcopy" => r.cur = <<>> /\ r.all = Append(Append(m.all, Head2), Rows2)

\* What each piece adds to the statements.
LEMMA MeantIs ==
    ASSUME NEW m \in MeantState, NEW p \in Kinds, NEW r, r = Meant(m, p)
    PROVE  Meaning(m, p, r)
<1>0. m.cur \in Seq(Letter) /\ m.all \in Seq(Seq(Letter)) /\ m = [cur |-> m.cur, all |-> m.all]
  BY DEF MeantState
<1>1. ASSUME p \in TextKinds \cup {"lastcopy"} PROVE r.cur = m.cur \o Chars[p] /\ r.all = m.all
  <2>1. r = [m EXCEPT !.cur = m.cur \o Chars[p]]
    BY <1>1 DEF Meant, TextKinds
  <2> QED
    BY <1>0, <2>1 DEF MeantState
<1>2. ASSUME p = "semicolon" PROVE r.cur = <<>> /\ r.all = With(m.all, m.cur)
  <2>1. r = Close(m)
    BY <1>2 DEF Meant
  <2>2. trim(m.cur) \in Seq(Letter)
    BY <1>0, TrimEmpty
  <2> DEFINE q == trim(m.cur)
             all == m.all
  <2> HIDE DEF q, all
  <2>3. all \o <<>> = all /\ all \o <<q>> = Append(all, q)
    BY <1>0, <2>2 DEF q, all
  <2> DEFINE qs == IF q = <<>> THEN <<>> ELSE <<q>>
  <2>5. r = Complete(m, qs)
    BY <2>1 DEF Close, q
  <2> HIDE DEF qs
  <2>6. r.cur = <<>> /\ r.all = all \o qs
    BY <2>5 DEF Complete, all
  <2>4. r.cur = <<>> /\ r.all = all \o (IF q = <<>> THEN <<>> ELSE <<q>>)
    BY <2>6 DEF qs
  <2> QED
    BY <2>3, <2>4 DEF With, q, all
<1>3. p = "comment" => r = m
  BY DEF Meant
<1> DEFINE all == m.all
<1>4. ASSUME NEW a \in Seq(Letter), NEW b \in Seq(Letter)
      PROVE  /\ Complete(m, <<a, b>>).cur = <<>>
             /\ Complete(m, <<a, b>>).all = Append(Append(all, a), b)
  <2>1. Complete(m, <<a, b>>).cur = <<>> /\ Complete(m, <<a, b>>).all = all \o <<a, b>>
    BY DEF Complete
  <2>2. all \in Seq(Seq(Letter))
    BY <1>0
  <2> HIDE DEF all
  <2>3. all \o <<a, b>> = Append(Append(all, a), b)
    BY <2>2
  <2> QED
    BY <2>1, <2>3
<1>5. /\ Head1 \in Seq(Letter) /\ Head2 \in Seq(Letter) /\ Rows1 \in Seq(Letter) /\ Rows2 \in Seq(Letter)
  <2>1. Cee \in Letter /\ Ess \in Letter /\ Bee \in Letter /\ Eks \in Letter /\ Apos \in Letter
        /\ Newline \in Letter /\ Slash \in Letter
    BY CopyCharacters
  <2> QED
    BY <2>1, CopyTexts DEF Rows1, Rows2
<1>6. p = "copy" => r = Complete(m, <<Head1, Rows1>>)
  BY DEF Meant, Head1, Rows1, Cee, Ess, Eks, Apos, Newline, Slash
<1>7. p = "badcopy" => r = Complete(m, <<Head2, Rows2>>)
  BY DEF Meant, Head2, Rows2, Cee, Ess, Eks, Bee
<1>8. p = "copy" => r.cur = <<>> /\ r.all = Append(Append(m.all, Head1), Rows1)
  <2>1. Complete(m, <<Head1, Rows1>>).cur = <<>>
        /\ Complete(m, <<Head1, Rows1>>).all = Append(Append(all, Head1), Rows1)
    BY <1>4, <1>5
  <2> QED
    BY <1>6, <2>1
<1>9. p = "badcopy" => r.cur = <<>> /\ r.all = Append(Append(m.all, Head2), Rows2)
  <2>1. Complete(m, <<Head2, Rows2>>).cur = <<>>
        /\ Complete(m, <<Head2, Rows2>>).all = Append(Append(all, Head2), Rows2)
    BY <1>4, <1>5
  <2> QED
    BY <1>7, <2>1
<1> QED
  BY <1>1, <1>2, <1>3, <1>8, <1>9 DEF Meaning

\* The meaning of a piece is one.
LEMMA MeantType ==
    ASSUME NEW m \in MeantState, NEW p \in Kinds
    PROVE  Meant(m, p) \in MeantState
<1> DEFINE r == Meant(m, p)
<1>0. m.cur \in Seq(Letter) /\ m.all \in Seq(Seq(Letter))
  BY DEF MeantState
<1>1. CASE p \in TextKinds \cup {"lastcopy"}
  <2>1. r = [m EXCEPT !.cur = m.cur \o Chars[p]]
    BY <1>1 DEF Meant, TextKinds
  <2>2. Chars[p] \in Seq(Letter)
    BY <1>1, CharsAre, PiecesAreTexts DEF TextKinds, PlainKinds
  <2>3. m.cur \o Chars[p] \in Seq(Letter)
    BY <1>0, <2>2, CatFacts
  <2> QED
    BY <1>0, <2>1, <2>3 DEF MeantState
<1>2. CASE p = "comment"
  BY <1>2 DEF Meant
<1>3. CASE p = "semicolon"
  <2>1. r = Close(m)
    BY <1>3 DEF Meant
  <2>2. trim(m.cur) \in Seq(Letter)
    BY <1>0, TrimEmpty
  <2> DEFINE qs == IF trim(m.cur) = <<>> THEN <<>> ELSE <<trim(m.cur)>>
  <2>3. qs \in Seq(Seq(Letter))
    BY <2>2
  <2>4. r = [cur |-> <<>>, all |-> m.all \o qs]
    BY <2>1 DEF Close, Complete
  <2> HIDE DEF qs
  <2>5. m.all \o qs \in Seq(Seq(Letter)) /\ <<>> \in Seq(Letter)
    BY <1>0, <2>3
  <2> QED
    BY <2>4, <2>5 DEF MeantState
<1>4. CASE p \in {"copy", "badcopy"}
  <2> DEFINE qs == IF p = "copy" THEN <<Head1, Rows1>> ELSE <<Head2, Rows2>>
  <2>1. Cee \in Letter /\ Ess \in Letter /\ Bee \in Letter /\ Eks \in Letter /\ Apos \in Letter
        /\ Newline \in Letter /\ Slash \in Letter
    BY CopyCharacters
  <2>2. /\ Head1 \in Seq(Letter) /\ Head2 \in Seq(Letter) /\ Rows1 \in Seq(Letter) /\ Rows2 \in Seq(Letter)
    BY <2>1, CopyTexts DEF Rows1, Rows2
  <2>3. qs \in Seq(Seq(Letter))
    BY <2>2
  <2>4. r = Complete(m, qs)
    BY <1>4 DEF Meant, Head1, Rows1, Head2, Rows2, Cee, Ess, Eks, Apos, Newline, Slash, Bee
  <2> HIDE DEF qs
  <2>5. m.all \o qs \in Seq(Seq(Letter)) /\ <<>> \in Seq(Letter)
    BY <1>0, <2>3
  <2> QED
    BY <2>4, <2>5 DEF MeantState, Complete
<1> QED
  BY <1>1, <1>2, <1>3, <1>4, KindsAre DEF TextKinds, PlainKinds

\* Lexing a script up to a piece p, that its pieces mean m.
Finds(t, k, m, p) ==
    /\ k < Len(t) => Boundary(t, k, m.cur, m.all)
    /\ k = Len(t) => split_queries(t) = IF p \in Lossy THEN m.all ELSE With(m.all, m.cur)

\* What split_queries finds in a piece is what the piece means.
LEMMA PieceWritten ==
    ASSUME NEW t \in Seq(Letter), NEW o \in Nat, NEW m \in MeantState, NEW p \in Kinds, NEW n \in Nat,
           Meets(t, o, m.cur, m.all, Chars[p], n), NEW r, r = Meant(m, p),
           p = "semicolon" => ~IsCopy(trim(m.cur)),
           p \in {"copy", "badcopy"} => trim(m.cur) = <<>>,
           NEW k, k = o + n
    PROVE  Finds(t, k, r, p)
<1>0. m.cur \in Seq(Letter) /\ Len(Chars[p]) = n
  BY DEF MeantState, Meets, Reads
<1> DEFINE cur == m.cur
           all == m.all
           u == Chars[p]
<1> HIDE DEF cur, all
<1>1. cur \in Seq(Letter) /\ Meets(t, o, cur, all, Chars[p], n)
  BY <1>0 DEF cur, all
<1>13. /\ p \in TextKinds \cup {"lastcopy"} => r.cur = cur \o Chars[p] /\ r.all = all
       /\ p = "semicolon" => r.cur = <<>> /\ r.all = With(all, cur)
       /\ p = "comment" => r.cur = cur /\ r.all = all
       /\ p = "copy" => r.cur = <<>> /\ r.all = Append(Append(all, Head1), Rows1)
       /\ p = "badcopy" => r.cur = <<>> /\ r.all = Append(Append(all, Head2), Rows2)
  <2>1. Meaning(m, p, r)
    BY MeantIs
  <2> QED
    BY <2>1 DEF Meaning, cur, all
<1>2. ASSUME Lexed(t, k, r.cur, r.all), p \notin Lossy PROVE Finds(t, k, r, p)
  BY <1>2 DEF Lexed, Finds
<1>3. ASSUME LexedOrLost(t, k, r.cur, r.all), p \in Lossy PROVE Finds(t, k, r, p)
  BY <1>3 DEF LexedOrLost, Finds
<1>4. CASE p \in PlainKinds
  <2>1. Chars[p] \in PlainTexts
    BY <1>4, CharsAre
  <2>2. n \in Nat \ {0} /\ \A h \in 1..n : Chars[p][h] \notin Special
    BY <1>0, <2>1, PiecesAreTexts
  <2>3. Lexed(t, o + n, cur \o Chars[p], all)
    BY <1>1, <2>2, PiecePlain
  <2>4. r.cur = cur \o Chars[p] /\ r.all = all /\ p \notin Lossy
    BY <1>4, <1>13 DEF TextKinds, PlainKinds, Lossy
  <2> QED
    BY <1>2, <2>3, <2>4
<1>5. CASE p = "string"
  <2>1. Chars[p] = PString /\ n = 6
    BY <1>0, <1>5, CharsAre, PiecesAreTexts
  <2>2. Lexed(t, o + 6, cur \o PString, all)
    BY <1>1, <2>1, PieceString
  <2>3. r.cur = cur \o Chars[p] /\ r.all = all /\ p \notin Lossy
    BY <1>5, <1>13 DEF TextKinds, Lossy
  <2> QED
    BY <1>2, <2>1, <2>2, <2>3
<1>6. CASE p = "ident"
  <2>1. Chars[p] = PIdent /\ n = 5
    BY <1>0, <1>6, CharsAre, PiecesAreTexts
  <2>2. Lexed(t, o + 5, cur \o PIdent, all)
    BY <1>1, <2>1, PieceIdent
  <2>3. r.cur = cur \o Chars[p] /\ r.all = all /\ p \notin Lossy
    BY <1>6, <1>13 DEF TextKinds, Lossy
  <2> QED
    BY <1>2, <2>1, <2>2, <2>3
<1>7. CASE p = "comment"
  <2>1. Chars[p] = PComment /\ n = 6
    BY <1>0, <1>7, CharsAre, PiecesAreTexts
  <2>2. Lexed(t, o + 6, cur, all)
    BY <1>1, <2>1, PieceComment
  <2>3. r.cur = cur /\ r.all = all /\ p \notin Lossy
    BY <1>7, <1>13 DEF Lossy
  <2> QED
    BY <1>2, <2>1, <2>2, <2>3
<1>8. CASE p = "dollar"
  <2>1. Chars[p] = PDollar /\ n = 6
    BY <1>0, <1>8, CharsAre, PiecesAreTexts
  <2>2. LexedOrLost(t, o + 6, cur \o PDollar, all)
    BY <1>1, <2>1, PieceDollar
  <2>3. r.cur = cur \o Chars[p] /\ r.all = all /\ p \in Lossy
    BY <1>8, <1>13 DEF TextKinds, Lossy
  <2> QED
    BY <1>3, <2>1, <2>2, <2>3
<1>9. CASE p = "tagged"
  <2>1. Chars[p] = PTagged /\ n = 10
    BY <1>0, <1>9, CharsAre, PiecesAreTexts
  <2>2. LexedOrLost(t, o + 10, cur \o PTagged, all)
    BY <1>1, <2>1, PieceTagged
  <2>3. r.cur = cur \o Chars[p] /\ r.all = all /\ p \in Lossy
    BY <1>9, <1>13 DEF TextKinds, Lossy
  <2> QED
    BY <1>3, <2>1, <2>2, <2>3
<1>10. CASE p = "semicolon"
  <2>1. Chars[p] = PSemicolon /\ n = 1 /\ ~IsCopy(trim(cur))
    BY <1>0, <1>10, CharsAre, PiecesAreTexts DEF cur
  <2>2. Lexed(t, o + 1, <<>>, With(all, cur))
    BY <1>1, <2>1, PieceSemicolon
  <2>3. r.cur = <<>> /\ r.all = With(all, cur) /\ p \notin Lossy
    BY <1>10, <1>13 DEF Lossy
  <2> QED
    BY <1>2, <2>1, <2>2, <2>3
<1>11. CASE p = "copy"
  <2>1. Chars[p] = PCopy /\ n = 12 /\ trim(cur) = <<>>
    BY <1>0, <1>11, CharsAre, PiecesAreTexts DEF cur
  <2>2. Lexed(t, o + 12, <<>>, Append(Append(all, Head1), Rows1))
    BY <1>1, <2>1, PieceCopy
  <2>3. r.cur = <<>> /\ r.all = Append(Append(all, Head1), Rows1) /\ p \notin Lossy
    BY <1>11, <1>13 DEF Lossy
  <2> QED
    BY <1>2, <2>1, <2>2, <2>3
<1>12. CASE p = "badcopy"
  <2>1. Chars[p] = PBadCopy /\ n = 9 /\ trim(cur) = <<>>
    BY <1>0, <1>12, CharsAre, PiecesAreTexts DEF cur
  <2>2. Lexed(t, o + 9, <<>>, Append(Append(all, Head2), Rows2))
    BY <1>1, <2>1, PieceBadCopy
  <2>3. r.cur = <<>> /\ r.all = Append(Append(all, Head2), Rows2) /\ p \notin Lossy
    BY <1>12, <1>13 DEF Lossy
  <2> QED
    BY <1>2, <2>1, <2>2, <2>3
<1> QED
  BY <1>4, <1>5, <1>6, <1>7, <1>8, <1>9, <1>10, <1>11, <1>12, KindsAre

(***************************************************************************)
(* The invariant: wherever the script goes on, split_queries stands between *)
(* two pieces with the statements so far; if it ends here, it has found     *)
(* them; and the loop over them has run them or thrown.                     *)
(***************************************************************************)
ScriptType == pieces \in Seq(Kinds) /\ text \in Seq(Letter) /\ meant \in MeantState

GoesOn(t, s) == Len(s) < Len(t) /\ \A h \in 1..Len(s) : t[h] = s[h]
Reach == \A t \in Seq(Letter) : GoesOn(t, text) => Boundary(t, Len(text), meant.cur, meant.all)
Splits == split_queries(text) = IF EndsWith(Lossy) THEN meant.all ELSE With(meant.all, meant.cur)
Ends ==
    /\ EndsWith(Lossy) => trim(meant.cur) # <<>>
    /\ IF EndsWith({"lastcopy"}) THEN trim(meant.cur) = Head2 ELSE OnlyBefore(meant.cur)
Executes == Ran(exec_all(meant.all), meant.all)
Outcome ==
    \/ out = Pending
    \/ \E local \in BOOLEAN :
          out = [called |-> TRUE, local |-> local, queries |-> split_queries(text),
                 result |-> exec_queries(text, local)]
ScriptInv == ScriptType /\ Reach /\ Splits /\ Ends /\ Executes /\ Outcome

\* A beginning is a prefix.
LEMMA BeginsPrefix ==
    ASSUME NEW a \in Seq(Seq(Letter)), NEW b \in Seq(Seq(Letter)), Begins(a, b)
    PROVE  IsPrefix(a, b)
<1> DEFINE n == Len(a)
           v == SubSeq(b, 1, n)
<1>1. n \in Nat /\ n <= Len(b) /\ \A h \in 1..n : a[h] = b[h]
  BY DEF Begins
<1>2. SubSeq(a, 1, n) = a
  OBVIOUS
<1>3. v \in Seq(Seq(Letter)) /\ Len(v) = n /\ \A h \in 1..n : v[h] = b[h]
  BY <1>1
<1> HIDE DEF v
<1>4. v = a
  BY <1>1, <1>3, SeqEqual
<1> QED
  BY <1>1, <1>2, <1>4 DEF IsPrefix, v

\* The statements of the script.
LEMMA StatementsAre ==
    ASSUME meant \in MeantState
    PROVE  Statements = With(meant.all, meant.cur)
<1> DEFINE r == Meant(meant, "semicolon")
<1>1. "semicolon" \in Kinds
  BY KindsAre
<1>2. Meaning(meant, "semicolon", r)
  BY <1>1, MeantIs
<1>3. r = Close(meant)
  BY DEF Meant
<1> HIDE DEF r
<1>4. r.all = With(meant.all, meant.cur)
  BY <1>2 DEF Meaning
<1> QED
  BY <1>3, <1>4 DEF Statements

\* What exec_queries leaves when the queries have run.
LEMMA Finish ==
    ASSUME NEW x, NEW qs \in Seq(Seq(Letter)), Ran(x, qs), NEW local \in BOOLEAN,
           NEW r, r = IF local THEN commit(x) ELSE x
    PROVE  /\ ~r.thrown => r.done = qs /\ r.tx = IF local THEN "committed" ELSE "open"
           /\ r.thrown => IsPrefix(r.done, qs) /\ r.tx # "committed"
<1>1. x \in ExecState /\ x.done \in Seq(Seq(Letter))
  BY DEF Ran, ExecState
<1>2. CASE x.thrown
  <2>1. r = x
    BY <1>2 DEF commit
  <2>2. Begins(x.done, qs)
    BY <1>2 DEF Ran, Fresh
  <2>3. IsPrefix(x.done, qs) /\ x.tx # "committed"
    BY <1>1, <2>2, BeginsPrefix DEF ExecState
  <2> QED
    BY <1>2, <2>1, <2>3
<1>3. CASE ~x.thrown
  <2>1. x.done = qs /\ x.tx = "open"
    BY <1>3 DEF Ran, Fresh
  <2>2. r = IF local THEN [x EXCEPT !.tx = "committed"] ELSE x
    BY <1>3, <2>1 DEF commit
  <2> QED
    BY <1>1, <1>3, <2>1, <2>2 DEF ExecState
<1> QED
  BY <1>2, <1>3

\* The last statement is a COPY the server refuses: nothing is committed.
LEMMA FinishRefused ==
    ASSUME NEW x \in ExecState, NEW qs \in Seq(Seq(Letter)), Begins(x.done, qs),
           x.thrown \/ x.tx = "failed", NEW local \in BOOLEAN,
           NEW r, r = IF local THEN commit(x) ELSE x
    PROVE  IsPrefix(r.done, qs) /\ r.tx # "committed"
<1>1. x.done \in Seq(Seq(Letter)) /\ x.tx \in {"open", "failed"}
  BY DEF ExecState
<1>2. IsPrefix(x.done, qs)
  BY <1>1, BeginsPrefix
<1>3. r = x \/ r = [x EXCEPT !.tx = "rolled back"]
  BY <1>1 DEF commit
<1>4. r.done = x.done /\ r.tx # "committed"
  BY <1>1, <1>3 DEF ExecState
<1> QED
  BY <1>2, <1>4

\* The piece the script ends with after it was written.
LEMMA LastPiece ==
    ASSUME NEW s \in Seq(Kinds), NEW p \in Kinds
    PROVE  Append(s, p) # <<>> /\ Last(Append(s, p)) = p /\ Append(s, p) \in Seq(Kinds)
BY DEF Last

\* Queries that are complete have run as ever.
LEMMA RanMore ==
    ASSUME NEW m \in MeantState, NEW p \in Kinds, Ran(exec_all(m.all), m.all),
           p = "semicolon" => ~IsCopy(trim(m.cur)),
           NEW r, r = Meant(m, p)
    PROVE  Ran(exec_all(r.all), r.all)
<1> DEFINE cur == m.cur
           all == m.all
           x == exec_all(all)
<1>1. cur \in Seq(Letter) /\ all \in Seq(Seq(Letter)) /\ Ran(x, all) /\ Meaning(m, p, r)
  BY MeantIs DEF MeantState
<1>2. CASE p = "semicolon"
  <2>1. r.all = With(all, cur)
    BY <1>1, <1>2 DEF Meaning
  <2>2. trim(cur) \in Seq(Letter) /\ ~IsCopy(trim(cur))
    BY <1>1, <1>2, TrimEmpty
  <2> HIDE DEF cur, all
  <2>3. exec_all(Append(all, trim(cur))) = exec_query(x, trim(cur))
    BY <1>1, <2>2, ExecSnoc
  <2> HIDE DEF x
  <2>4. Ran(exec_query(x, trim(cur)), Append(all, trim(cur)))
    BY <1>1, <2>2, RanOrdinary
  <2> QED
    BY <1>1, <2>1, <2>3, <2>4 DEF With, x
<1>3. CASE p \in {"copy", "badcopy"}
  <2> DEFINE a == IF p = "copy" THEN Head1 ELSE Head2
             b == IF p = "copy" THEN Rows1 ELSE Rows2
  <2>1. r.all = Append(Append(all, a), b)
    BY <1>1, <1>3 DEF Meaning
  <2>2. Cee \in Letter /\ Ess \in Letter /\ Bee \in Letter /\ Eks \in Letter /\ Apos \in Letter
        /\ Newline \in Letter /\ Slash \in Letter
    BY CopyCharacters
  <2>3. Head1 \in Seq(Letter) /\ Head2 \in Seq(Letter) /\ Rows1 \in Seq(Letter) /\ Rows2 \in Seq(Letter)
    BY <2>2, CopyTexts DEF Rows1, Rows2
  <2>4. a \in Seq(Letter) /\ b \in Seq(Letter)
    BY <2>3
  <2> HIDE DEF cur, all
  <2>5. Ran(exec_query(exec_query(x, a), b), Append(Append(all, a), b))
    <3> HIDE DEF x
    <3>1. CASE p = "copy"
      BY <1>1, <2>3, <3>1, RanCopy
    <3>2. CASE p # "copy"
      BY <1>1, <2>3, <3>2, RanBadCopy
    <3> QED
      BY <3>1, <3>2
  <2> HIDE DEF a, b
  <2> DEFINE h == Append(all, a)
  <2>6. exec_all(h) = exec_query(x, a) /\ h \in Seq(Seq(Letter))
    BY <1>1, <2>4, ExecSnoc
  <2> HIDE DEF h
  <2>7. exec_all(Append(h, b)) = exec_query(exec_all(h), b)
    BY <2>4, <2>6, ExecSnoc
  <2> QED
    BY <2>1, <2>5, <2>6, <2>7 DEF h
<1>4. CASE p \notin {"semicolon", "copy", "badcopy"}
  <2>1. r.all = all
    BY <1>1, <1>4, KindsAre DEF Meaning, TextKinds, PlainKinds
  <2> QED
    BY <1>1, <2>1
<1> QED
  BY <1>2, <1>3, <1>4

\* An empty script.
LEMMA ScriptInit == Init => ScriptInv
<1> SUFFICES ASSUME Init PROVE ScriptInv
  OBVIOUS
<1>1. /\ pieces = <<>> /\ text = <<>> /\ meant = Open /\ out = Pending
      /\ meant.cur = <<>> /\ meant.all = <<>>
  BY DEF Init, Open
<1>2. ScriptType
  <2>1. <<>> \in Seq(Letter) /\ <<>> \in Seq(Kinds) /\ <<>> \in Seq(Seq(Letter))
    OBVIOUS
  <2> QED
    BY <1>1, <2>1 DEF ScriptType, MeantState, Open
<1>3. Start \in LexState /\ Start.qry = <<>> /\ Start.queries = <<>> /\ Start.mode = "text" /\ Start.skip = 0
  <2>1. <<>> \in Seq(Letter) /\ <<>> \in Seq(Seq(Letter))
    OBVIOUS
  <2> QED
    BY <2>1 DEF Start, LexState
<1>4. ASSUME NEW t \in Seq(Letter) PROVE Boundary(t, 0, <<>>, <<>>)
  <2>1. Rounds(t)[0] = Start /\ 0 + 0 = 0
    BY RoundsStep
  <2>2. In(Start, <<>>, t, 0, 0, <<>>, "text", 0)
    BY <1>3, HoldsNone
  <2>3. At(t, 0, 0, <<>>, 0, <<>>, "text", 0)
    BY <2>1, <2>2 DEF At
  <2> QED
    BY <2>3 DEF Boundary
<1>5. Reach
  <2>1. Len(text) = 0
    BY <1>1
  <2> QED
    BY <1>1, <1>4, <2>1 DEF Reach
<1>6. ~EndsWith(Lossy) /\ ~EndsWith({"lastcopy"})
  BY <1>1 DEF EndsWith
<1>7. Splits
  <2>1. Rounds(<<>>)[0] = Start /\ Len(<<>>) = 0
    BY RoundsStep
  <2>2. split_queries(<<>>) = <<>>
    BY <1>3, <2>1 DEF split_queries
  <2>3. With(<<>>, <<>>) = <<>>
    <3>1. <<>> \in Seq(Letter)
      OBVIOUS
    <3>3. Blanks(<<>>, 1, Len(<<>>))
      BY DEF Blanks
    <3>2. trim(<<>>) = <<>>
      BY <3>1, <3>3, TrimEmpty
    <3> QED
      BY <3>2 DEF With
  <2> QED
    BY <1>1, <1>6, <2>2, <2>3 DEF Splits
<1>8. Ends
  BY <1>1, <1>6, PiecesOnly DEF Ends
<1>9. Executes
  <2>1. exec_all(<<>>) = Begun
    <3>1. <<>> \in Seq(Letter) /\ <<>> \in Seq(Seq(Letter))
      OBVIOUS
    <3> QED
      BY <3>1, ExecSnoc
  <2>2. <<>> \in Seq(Seq(Letter))
    OBVIOUS
  <2>3. Ran(Begun, <<>>)
    BY <2>2 DEF Ran, Begun, ExecState, Fresh
  <2> QED
    BY <1>1, <2>1, <2>3 DEF Executes
<1>10. Outcome
  BY <1>1 DEF Outcome
<1> QED
  BY <1>2, <1>5, <1>7, <1>8, <1>9, <1>10 DEF ScriptInv

\* One piece more.
LEMMA ScriptWrite ==
    ASSUME ScriptInv, NEW p \in Kinds, Write(p)
    PROVE  ScriptInv'
<1> DEFINE u == Chars[p]
           n == Len(u)
           o == Len(text)
           m == meant
           r == Meant(m, p)
<1>1. /\ pieces \in Seq(Kinds) /\ text \in Seq(Letter) /\ m \in MeantState
      /\ Reach /\ Splits /\ Ends /\ Executes /\ Outcome
      /\ m.cur \in Seq(Letter) /\ m.all \in Seq(Seq(Letter))
  BY DEF ScriptInv, ScriptType, MeantState
<1>2. /\ ~out.called /\ pieces' = Append(pieces, p) /\ text' = text \o u /\ meant' = r /\ out' = out
      /\ ~EndsWith({"lastcopy"})
      /\ p \in {"copy", "badcopy", "csvcopy", "lastcopy"} => trim(m.cur) = <<>>
  BY DEF Write, CanFollow
<1>3. u \in Seq(Letter) /\ n \in Nat /\ n > 0
  <2>1. CASE p \in PlainKinds
    <3>1. u \in PlainTexts
      BY <2>1, CharsAre
    <3> HIDE DEF u
    <3> QED
      BY <3>1, PiecesAreTexts
  <2>2. CASE p \notin PlainKinds
    <3>1. u \in {PSemicolon, PString, PIdent, PDollar, PTagged, PComment, PCopy, PBadCopy}
      BY <2>2, CharsAre, KindsAre
    <3> HIDE DEF u
    <3>2. u \in Seq(Letter) /\ Len(u) \in {1, 6, 5, 10, 12, 9}
      BY <3>1, PiecesAreTexts
    <3>3. \A k \in {1, 6, 5, 10, 12, 9} : k \in Nat /\ k > 0
      OBVIOUS
    <3> QED
      BY <3>2, <3>3
  <2> QED
    BY <2>1, <2>2
<1>4. r \in MeantState /\ Meaning(m, p, r)
  BY <1>1, MeantType, MeantIs
<1>5. OnlyBefore(m.cur) /\ ~IsCopy(trim(m.cur))
  BY <1>1, <1>2, NotCopy DEF Ends
<1>6. pieces' # <<>> /\ Last(pieces') = p /\ pieces' \in Seq(Kinds)
  BY <1>1, <1>2, LastPiece
<1>7. EndsWith(Lossy)' = (p \in Lossy) /\ EndsWith({"lastcopy"})' = (p = "lastcopy")
  BY <1>6 DEF EndsWith
<1>8. /\ text' \in Seq(Letter) /\ Len(text') = o + n /\ o \in Nat
      /\ \A h \in 1..o : text'[h] = text[h]
      /\ \A h \in 1..n : text'[o + h] = u[h]
  BY <1>1, <1>2, <1>3, CatFacts
<1> HIDE DEF u, n, o, r, m
<1>9. ASSUME NEW t \in Seq(Letter), o + n <= Len(t), \A h \in 1..(o + n) : t[h] = text'[h]
      PROVE  Finds(t, o + n, r, p)
  <2>1. GoesOn(t, text)
    <3>1. o < Len(t) /\ Len(t) \in Nat
      BY <1>3, <1>8, <1>9
    <3>2. ASSUME NEW h \in 1..o PROVE t[h] = text[h]
      <4>1. h \in 1..(o + n)
        BY <1>3, <1>8
      <4> QED
        BY <1>8, <1>9, <4>1
    <3> QED
      BY <3>1, <3>2 DEF GoesOn, o
  <2>2. Boundary(t, o, m.cur, m.all)
    BY <1>1, <2>1 DEF Reach, o, m
  <2>3. Reads(t, o, u, n)
    <3>1. ASSUME NEW h \in 1..n PROVE t[o + h] = u[h]
      <4>1. o + h \in 1..(o + n)
        BY <1>3, <1>8
      <4> QED
        BY <1>8, <1>9, <4>1
    <3> QED
      BY <3>1 DEF Reads, n
  <2>4. Meets(t, o, m.cur, m.all, Chars[p], n)
    BY <1>3, <1>9, <2>2, <2>3 DEF Meets, u
  <2>5. r = Meant(m, p)
    BY DEF r
  <2>6. p \in {"copy", "badcopy"} => trim(m.cur) = <<>>
    BY <1>2 DEF m
  <2> QED
    BY <1>1, <1>3, <1>5, <1>8, <2>4, <2>5, <2>6, PieceWritten
<1>10. Reach'
  <2> SUFFICES ASSUME NEW t \in Seq(Letter), GoesOn(t, text')
               PROVE  Boundary(t, Len(text'), r.cur, r.all)
    BY <1>2 DEF Reach
  <2>1. Len(t) \in Nat /\ o + n < Len(t) /\ \A h \in 1..(o + n) : t[h] = text'[h]
    BY <1>8 DEF GoesOn
  <2>2. o + n <= Len(t)
    BY <1>3, <1>8, <2>1
  <2>3. Finds(t, o + n, r, p)
    BY <1>9, <2>1, <2>2
  <2> QED
    BY <1>8, <2>1, <2>3 DEF Finds
<1>11. Splits'
  <2>1. o + n <= Len(text') /\ o + n = Len(text')
    BY <1>3, <1>8
  <2>2. Finds(text', o + n, r, p)
    BY <1>8, <1>9, <2>1
  <2>3. split_queries(text') = IF p \in Lossy THEN r.all ELSE With(r.all, r.cur)
    BY <2>1, <2>2 DEF Finds
  <2> QED
    BY <1>2, <1>7, <2>3 DEF Splits
<1>12. Ends'
  <2>1. ASSUME p \in Lossy PROVE trim(r.cur) # <<>>
    <3>6. p \in TextKinds
      BY <2>1 DEF Lossy, TextKinds
    <3>7. 1 \in 1..n
      BY <1>3
    <3>1. r.cur = m.cur \o u /\ 1 \in 1..n
      BY <1>4, <3>6, <3>7 DEF Meaning, u
    <3>2. u[1] = Sign
      BY <2>1, CharsAre DEF Lossy, u, PDollar, PTagged
    <3> DEFINE q == r.cur
    <3>3. q \in Seq(Letter) /\ Len(q) = Len(m.cur) + n /\ q[Len(m.cur) + 1] = u[1]
      BY <1>1, <1>3, <3>1, CatFacts DEF n
    <3> HIDE DEF q
    <3>4. Len(m.cur) + 1 \in 1..Len(q) /\ Sign \notin Blank
      <4>1. Len(m.cur) \in Nat
        BY <1>1
      <4> QED
        BY <1>3, <3>3, <4>1 DEF Sign, Blank
    <3>5. ~Blanks(q, 1, Len(q))
      BY <3>2, <3>3, <3>4 DEF Blanks
    <3> QED
      BY <3>3, <3>5, TrimEmpty DEF q
  <2>2. CASE p = "lastcopy"
    <3>1. r.cur = m.cur \o Head2 /\ trim(m.cur) = <<>>
      BY <1>2, <1>4, <2>2, CharsAre DEF Meaning, m
    <3>2. trim(r.cur) = Head2
      BY <1>1, <3>1, CopyFound
    <3> QED
      BY <1>2, <1>7, <2>1, <2>2, <3>2 DEF Ends
  <2>3. CASE p # "lastcopy"
    <3>1. OnlyBefore(r.cur)
      <4>1. CASE p \in TextKinds
        <5>1. r.cur = m.cur \o u /\ OnlyBefore(u)
          BY <1>4, <4>1, PiecesOnly DEF Meaning, u
        <5> QED
          BY <1>1, <1>3, <1>5, <5>1, OnlyCat
      <4>2. CASE p = "comment"
        BY <1>4, <1>5, <4>2 DEF Meaning
      <4>3. CASE p \in {"semicolon", "copy", "badcopy"}
        BY <1>4, <4>3, PiecesOnly DEF Meaning
      <4> QED
        BY <2>3, <4>1, <4>2, <4>3, KindsAre DEF TextKinds, PlainKinds
    <3> QED
      BY <1>2, <1>7, <2>1, <2>3, <3>1 DEF Ends
  <2> QED
    BY <2>2, <2>3
<1>13. Executes'
  <2>1. Ran(exec_all(m.all), m.all)
    BY <1>1 DEF Executes, m
  <2>2. Ran(exec_all(r.all), r.all)
    BY <1>1, <1>5, <2>1, RanMore DEF r
  <2> QED
    BY <1>2, <2>2 DEF Executes
<1>14. Outcome'
  <2>1. out = Pending
    BY <1>1, <1>2 DEF Outcome
  <2> QED
    BY <1>2, <2>1 DEF Outcome
<1>15. ScriptType'
  BY <1>2, <1>4, <1>6, <1>8 DEF ScriptType
<1> QED
  BY <1>10, <1>11, <1>12, <1>13, <1>14, <1>15 DEF ScriptInv

\* The script is executed, or nothing happens.
LEMMA ScriptExecute ==
    ASSUME ScriptInv, (\E local \in BOOLEAN : Execute(local)) \/ UNCHANGED vars
    PROVE  ScriptInv'
<1>1. pieces' = pieces /\ text' = text /\ meant' = meant
  BY DEF Execute, vars
<1>2. Outcome'
  <2>1. CASE UNCHANGED vars
    BY <1>1, <2>1 DEF vars, ScriptInv, Outcome
  <2>2. CASE \E local \in BOOLEAN : Execute(local)
    BY <1>1, <2>2 DEF Execute, Outcome
  <2> QED
    BY <2>1, <2>2
<1>3. EndsWith(Lossy)' = EndsWith(Lossy) /\ EndsWith({"lastcopy"})' = EndsWith({"lastcopy"})
  BY <1>1 DEF EndsWith
<1>4. ScriptType' /\ Reach' /\ Executes'
  BY <1>1 DEF ScriptInv, ScriptType, Reach, Executes
<1>5. Splits' /\ Ends'
  BY <1>1, <1>3 DEF ScriptInv, Splits, Ends
<1> QED
  BY <1>2, <1>4, <1>5 DEF ScriptInv

\* The invariant holds throughout.
LEMMA ScriptInvHolds == Spec => []ScriptInv
<1>1. Init => ScriptInv
  BY ScriptInit
<1>2. ScriptInv /\ [Next]_vars => ScriptInv'
  <2> SUFFICES ASSUME ScriptInv, [Next]_vars PROVE ScriptInv'
    OBVIOUS
  <2>1. CASE \E p \in Kinds : Write(p)
    BY <2>1, ScriptWrite
  <2>2. CASE (\E local \in BOOLEAN : Execute(local)) \/ UNCHANGED vars
    BY <2>2, ScriptExecute
  <2> QED
    BY <2>1, <2>2 DEF Next
<1> QED
  BY <1>1, <1>2, PTL DEF Spec

\* The queries found, and what their execution left.
LEMMA OutcomeIs ==
    ASSUME ScriptInv, out.called
    PROVE  /\ out.local \in BOOLEAN /\ out.queries = split_queries(text)
           /\ LET x == exec_all(out.queries)
              IN out.result = IF out.local THEN commit(x) ELSE x
<1>1. PICK local \in BOOLEAN :
          out = [called |-> TRUE, local |-> local, queries |-> split_queries(text),
                 result |-> exec_queries(text, local)]
  BY DEF ScriptInv, Outcome, Pending
<1>2. out.local = local /\ out.queries = split_queries(text) /\ out.result = exec_queries(text, local)
  BY <1>1
<1> QED
  BY <1>2 DEF exec_queries

\* The statements but the last.
LEMMA FrontIs ==
    ASSUME NEW qs \in Seq(Seq(Letter)), NEW q \in Seq(Letter)
    PROVE  Front(Append(qs, q)) = qs
<1> DEFINE s == Append(qs, q)
           n == Len(qs)
<1>1. /\ s \in Seq(Seq(Letter)) /\ n \in Nat /\ Len(s) = n + 1 /\ Len(s) - 1 = n
      /\ \A h \in 1..n : s[h] = qs[h]
  OBVIOUS
<1> HIDE DEF s
<1> DEFINE v == SubSeq(s, 1, n)
<1>2. v \in Seq(Seq(Letter)) /\ Len(v) = n /\ \A h \in 1..n : v[h] = s[h]
  BY <1>1
<1> HIDE DEF v
<1>3. v = qs
  BY <1>1, <1>2, SeqEqual
<1> QED
  BY <1>1, <1>3 DEF Front, s, v

\* split_queries finds the statements of a script of any length, whatever its
\* quotes, comments and COPY data contain, but for the last one when a dollar
\* quote ends the script.
THEOREM SplitsScriptThm == Spec => []SplitsScript
<1>1. ScriptInv => SplitsScript
  <2> SUFFICES ASSUME ScriptInv, out.called
               PROVE  out.queries = IF EndsWith(Lossy) THEN Front(Statements) ELSE Statements
    BY DEF SplitsScript, Lossy
  <2>1. out.queries = IF EndsWith(Lossy) THEN meant.all ELSE With(meant.all, meant.cur)
    BY OutcomeIs DEF ScriptInv, Splits
  <2>2. /\ Statements = With(meant.all, meant.cur)
        /\ meant.cur \in Seq(Letter) /\ meant.all \in Seq(Seq(Letter))
    BY StatementsAre DEF ScriptInv, ScriptType, MeantState
  <2>3. ASSUME EndsWith(Lossy) PROVE Front(Statements) = meant.all
    <3>1. trim(meant.cur) # <<>> /\ trim(meant.cur) \in Seq(Letter)
      BY <2>2, <2>3, TrimEmpty DEF ScriptInv, Ends
    <3>2. Statements = Append(meant.all, trim(meant.cur))
      BY <2>2, <3>1 DEF With
    <3> QED
      BY <2>2, <3>1, <3>2, FrontIs
  <2> QED
    BY <2>1, <2>2, <2>3
<1> QED
  BY <1>1, ScriptInvHolds, PTL

\* exec_queries executes a script of any length whole, or throws having
\* committed nothing; the one script it returns from without executing it
\* ends in a COPY the server refuses, and is not committed either.
THEOREM AllOrNothingThm == Spec => []AllOrNothing
<1>1. ScriptInv => AllOrNothing
  <2> SUFFICES ASSUME ScriptInv, out.called PROVE AllOrNothing
    BY DEF AllOrNothing, Returns, Throws
  <2> DEFINE cur == meant.cur
             all == meant.all
             qs == out.queries
             x == exec_all(qs)
             r == out.result
             local == out.local
  <2>1. local \in BOOLEAN /\ r = (IF local THEN commit(x) ELSE x)
    BY OutcomeIs
  <2>2. qs = IF EndsWith(Lossy) THEN all ELSE With(all, cur)
    BY OutcomeIs DEF ScriptInv, Splits
  <2>3. cur \in Seq(Letter) /\ all \in Seq(Seq(Letter)) /\ Ran(exec_all(all), all) /\ Ends
    BY DEF ScriptInv, ScriptType, MeantState, Executes
  <2>4. EndsWith({"lastcopy"}) => ~EndsWith(Lossy)
    BY DEF EndsWith, Lossy
  <2>5. trim(cur) \in Seq(Letter)
    BY <2>3, TrimEmpty
  <2> HIDE DEF cur, all, qs, r, local, x
  <2>6. exec_all(Append(all, trim(cur))) = exec_query(exec_all(all), trim(cur))
    BY <2>3, <2>5, ExecSnoc
  <2>7. CASE EndsWith({"lastcopy"})
    <3>1. trim(cur) = Head2
      BY <2>3, <2>7 DEF Ends, cur
    <3>2. qs = Append(all, Head2) /\ Head2 # <<>> /\ Head2 \in Seq(Letter)
      BY <2>2, <2>4, <2>7, <3>1, CopyTexts DEF With
    <3>3. x = exec_query(exec_all(all), Head2)
      BY <2>6, <3>1, <3>2 DEF x
    <3>4. x \in ExecState /\ Begins(x.done, all) /\ (x.thrown \/ x.tx = "failed")
      BY <2>3, <3>3, RanRefused
    <3>5. x.done \in Seq(Seq(Letter)) /\ qs \in Seq(Seq(Letter))
      BY <2>3, <3>2, <3>4 DEF ExecState
    <3>6. Begins(x.done, qs)
      BY <2>3, <3>2, <3>4, <3>5, BeginsMore
    <3>7. IsPrefix(r.done, qs) /\ r.tx # "committed"
      BY <2>1, <3>4, <3>5, <3>6, FinishRefused
    <3> QED
      BY <2>7, <3>7 DEF AllOrNothing, Returns, Throws, r, qs
  <2>8. CASE ~EndsWith({"lastcopy"})
    <3>1. ~IsCopy(trim(cur))
      BY <2>3, <2>8, NotCopy DEF Ends, cur
    <3>2. Ran(exec_query(exec_all(all), trim(cur)), Append(all, trim(cur)))
      BY <2>3, <2>5, <3>1, RanOrdinary
    <3>3. qs = all \/ qs = Append(all, trim(cur))
      BY <2>2 DEF With
    <3>4. Ran(x, qs) /\ qs \in Seq(Seq(Letter))
      <4>1. CASE qs = all
        BY <2>3, <4>1 DEF x
      <4>2. CASE qs = Append(all, trim(cur))
        <5>1. qs \in Seq(Seq(Letter))
          BY <2>3, <2>5, <4>2
        <5> QED
          BY <2>6, <3>2, <4>2, <5>1 DEF x
      <4> QED
        BY <3>3, <4>1, <4>2
    <3>5. /\ ~r.thrown => r.done = qs /\ r.tx = IF local THEN "committed" ELSE "open"
          /\ r.thrown => IsPrefix(r.done, qs) /\ r.tx # "committed"
      BY <2>1, <3>4, Finish
    <3> QED
      BY <2>8, <3>5 DEF AllOrNothing, Returns, Throws, r, qs, local
  <2> QED
    BY <2>7, <2>8
<1> QED
  BY <1>1, ScriptInvHolds, PTL
=============================================================================
