-------------------------- MODULE ParametersProofs --------------------------
(***************************************************************************)
(* Why copies, moves, replacements, sends and runs of the lists reach a     *)
(* deleted parameter or array in two ways only, and why a task sends what   *)
(* it was given: a parameter is in at most one place of one vector, and a   *)
(* list that was not spoiled has its parameters allocated and, when it has  *)
(* arrays, arrays of its own that were made from the vector it still has.   *)
(***************************************************************************)
EXTENDS Parameters, SequenceTheorems, TLAPS

PTypes ==
    /\ p \in [All -> Seq(Nat)]
    /\ arrays \in [All -> Nat]
    /\ next \in Nat \ {0}
    /\ alive \subseteq All
    /\ DOMAIN heap \subseteq 1..(next - 1)
    /\ DOMAIN blocks \subseteq 1..(next - 1)
    /\ DOMAIN want = Tasks /\ DOMAIN got = Tasks

\* Ids are not used again, those of what is deleted neither.
PIds == \A o \in All : arrays[o] < next /\ \A k \in DOMAIN p[o] : p[o][k] < next

\* Every parameter is in one place of one vector, deleted or not.
POnce == \A o \in All : \A j, k \in DOMAIN p[o] : p[o][j] = p[o][k] => j = k
PApart == \A o, b \in All : o # b =>
              \A j \in DOMAIN p[o], k \in DOMAIN p[b] : p[o][j] # p[b][k]

\* What is not constructed owns nothing.
PDead == \A o \in All \ alive : p[o] = <<>> /\ arrays[o] = Null

\* What a list that was not spoiled has: its parameters, and no arrays or its
\* own, of the vector it has now.
Clean(o) ==
    /\ \A k \in DOMAIN p[o] : p[o][k] \in DOMAIN heap
    /\ arrays[o] # Null =>
           /\ arrays[o] \in DOMAIN blocks /\ blocks[arrays[o]] = p[o]
           /\ \A b \in All : b # o => arrays[b] # arrays[o]
PClean == \A o \in All \ spoiled : Clean(o)

\* A task's vector holds the values it was sent with.
PSent == \A t \in Tasks : t \in alive \ spoiled => want[t] = <<Values(t)>>
PGot == \A t \in Tasks : got[t] # <<>> => t \in alive /\ (t \notin spoiled => got[t] = want[t])

PInv == /\ PTypes /\ PIds /\ POnce /\ PApart /\ PDead /\ PClean /\ PSent /\ PGot
        /\ fault \subseteq spoiled

(***************************************************************************)
(* The helpers.                                                             *)
(***************************************************************************)
\* The empty sequence has no places.
LEMMA EmptyDomain == DOMAIN <<>> = {}
  OBVIOUS

\* Allocated adds the ids from next on and keeps what was there.
LEMMA AllocatedFacts ==
    ASSUME NEW h, DOMAIN h \subseteq 1..(next - 1), next \in Nat \ {0},
           NEW vs, Len(vs) \in Nat, DOMAIN vs = 1..Len(vs)
    PROVE  /\ DOMAIN Allocated(h, vs) = DOMAIN h \cup (next..(next + Len(vs) - 1))
           /\ DOMAIN Allocated(h, vs) \subseteq 1..(next + Len(vs) - 1)
           /\ \A q \in DOMAIN h : Allocated(h, vs)[q] = h[q]
           /\ \A k \in 1..Len(vs) : /\ next + k - 1 \in DOMAIN Allocated(h, vs)
                                    /\ Allocated(h, vs)[next + k - 1] = vs[k]
  BY DEF Allocated

\* The end of a sequence, from place a on.
LEMMA SubSeqFrom ==
    ASSUME NEW S, NEW s \in Seq(S), NEW a \in 1..(Len(s) + 1)
    PROVE  /\ SubSeq(s, a, Len(s)) \in Seq(S)
           /\ Len(SubSeq(s, a, Len(s))) = Len(s) - a + 1
           /\ \A i \in 1..(Len(s) - a + 1) : SubSeq(s, a, Len(s))[i] = s[a + i - 1]
OBVIOUS

\* The values of a vector are a sequence of its length.
LEMMA ValuesSeq ==
    ASSUME NEW o \in All, p \in [All -> Seq(Nat)]
    PROVE  /\ Len(p[o]) \in Nat /\ DOMAIN p[o] = 1..Len(p[o])
           /\ DOMAIN Values(o) = 1..Len(p[o]) /\ Len(Values(o)) = Len(p[o])
<1>1. Len(p[o]) \in Nat /\ DOMAIN p[o] = 1..Len(p[o])
  OBVIOUS
<1> QED
  BY <1>1 DEF Values

\* The values of a vector stay as long as its ids and their parameters do.
LEMMA ValuesKept ==
    ASSUME NEW o \in All, p[o]' = p[o],
           \A k \in DOMAIN p[o] : /\ p[o][k] \in DOMAIN heap /\ p[o][k] \in DOMAIN heap'
                                  /\ heap'[p[o][k]] = heap[p[o][k]]
    PROVE  Values(o)' = Values(o)
  BY DEF Values

\* A list that was not spoiled is there to be read, changed and deleted.
LEMMA NotGone ==
    ASSUME PInv, NEW o \in All, o \notin spoiled
    PROVE  ~ArraysGone(o) /\ ~ParamsGone(o) /\ ~Unreadable(o) /\ Entries(o) = p[o]
<1>1. Clean(o) /\ p[o] \in Seq(Nat) /\ DOMAIN blocks \subseteq 1..(next - 1) /\ next \in Nat
  BY DEF PInv, PClean, PTypes
<1>2. ~ArraysGone(o) /\ ~ParamsGone(o)
  BY <1>1 DEF Clean, ArraysGone, ParamsGone, ToSet
<1>3. Entries(o) = p[o]
  <2>1. Null \notin DOMAIN blocks
    BY <1>1 DEF Null
  <2> QED
    BY <1>1, <2>1 DEF Clean, Entries
<1>4. ~Unreadable(o)
  BY <1>1, <1>2, <1>3 DEF Clean, Unreadable
<1> QED
  BY <1>2, <1>3, <1>4

\* Undefined behaviour is on a spoiled list, when only that can be bad.
LEMMA FaultIsSpoiled ==
    ASSUME NEW o, NEW bad, Undefined(o, bad), NEW S, bad => o \in S
    PROVE  fault' \subseteq S
  BY DEF Undefined

\* What keeps its vector, its parameters and its arrays stays clean.
LEMMA StaysClean ==
    ASSUME PInv, NEW x \in All, x \notin spoiled, p'[x] = p[x], arrays'[x] = arrays[x],
           \A k \in DOMAIN p[x] : p[x][k] \in DOMAIN heap => p[x][k] \in DOMAIN heap',
           arrays[x] # Null /\ arrays[x] \in DOMAIN blocks =>
               /\ arrays[x] \in DOMAIN blocks' /\ blocks'[arrays[x]] = blocks[arrays[x]]
               /\ \A b \in All : b # x /\ arrays[b] # arrays[x] => arrays'[b] # arrays[x]
    PROVE  Clean(x)'
<1>1. Clean(x)
  BY DEF PInv, PClean
<1> QED
  BY <1>1 DEF Clean

\* copy_from into a vector o of another object: the copies are new
\* parameters, so nobody else's vector or values change.
LEMMA CopyFrom ==
    ASSUME PInv, NEW o \in All, NEW b \in All, o # b, copy_from(o, b)
    PROVE  /\ p' \in [All -> Seq(Nat)] /\ next' \in Nat \ {0} /\ next <= next'
           /\ DOMAIN heap' \subseteq 1..(next' - 1)
           /\ POnce' /\ PApart'
           /\ \A x \in All : x # o => p'[x] = p[x]
           /\ \A q \in DOMAIN heap : q \in DOMAIN heap' /\ heap'[q] = heap[q]
           /\ \A k \in DOMAIN p'[o] : p'[o][k] < next'
           /\ (\A k \in DOMAIN p[o] : p[o][k] \in DOMAIN heap) =>
                  \A k \in DOMAIN p'[o] : p'[o][k] \in DOMAIN heap'
           /\ p[o] = <<>> => Values(o)' = Values(b)
<1> DEFINE n == Len(p[b])
           m == Len(p[o])
<1>1. /\ n \in Nat /\ DOMAIN p[b] = 1..n
      /\ m \in Nat /\ DOMAIN p[o] = 1..m
      /\ p \in [All -> Seq(Nat)] /\ next \in Nat \ {0}
  BY ValuesSeq DEF PInv, PTypes
<1>2. DOMAIN Values(b) = 1..n /\ Len(Values(b)) = n
  BY <1>1, ValuesSeq
<1>3. /\ DOMAIN heap' = DOMAIN heap \cup (next..(next + n - 1))
      /\ DOMAIN heap' \subseteq 1..(next + n - 1)
      /\ \A q \in DOMAIN heap : heap'[q] = heap[q]
      /\ \A k \in 1..n : heap'[next + k - 1] = Values(b)[k]
  <2>1. DOMAIN heap \subseteq 1..(next - 1)
    BY DEF PInv, PTypes
  <2>2. heap' = Allocated(heap, Values(b))
    BY DEF copy_from
  <2> HIDE DEF n, m
  <2>3. /\ DOMAIN Allocated(heap, Values(b)) = DOMAIN heap \cup (next..(next + n - 1))
        /\ DOMAIN Allocated(heap, Values(b)) \subseteq 1..(next + n - 1)
        /\ \A q \in DOMAIN heap : Allocated(heap, Values(b))[q] = heap[q]
        /\ \A k \in 1..n : Allocated(heap, Values(b))[next + k - 1] = Values(b)[k]
    <3>1. Len(Values(b)) \in Nat /\ DOMAIN Values(b) = 1..Len(Values(b))
      BY <1>1, <1>2
    <3>2. next \in Nat \ {0}
      BY <1>1
    <3> DEFINE L == Len(Values(b))
    <3>3. /\ DOMAIN Allocated(heap, Values(b)) = DOMAIN heap \cup (next..(next + L - 1))
          /\ DOMAIN Allocated(heap, Values(b)) \subseteq 1..(next + L - 1)
          /\ \A q \in DOMAIN heap : Allocated(heap, Values(b))[q] = heap[q]
          /\ \A k \in 1..L : Allocated(heap, Values(b))[next + k - 1] = Values(b)[k]
      BY <2>1, <3>1, <3>2 DEF Allocated
    <3>4. L = n
      BY <1>2
    <3> QED
      BY <3>3, <3>4
  <2> QED
    BY <2>2, <2>3
<1>4. next' = next + n
  BY DEF copy_from
<1>5. Ids(p[b]) \in Seq(Nat) /\ Len(Ids(p[b])) = n /\ \A k \in 1..n : Ids(p[b])[k] = next + k - 1
  BY <1>1 DEF Ids
<1>6. /\ p'[o] \in Seq(Nat) /\ DOMAIN p'[o] = 1..(m + n)
      /\ \A k \in 1..m : p'[o][k] = p[o][k]
      /\ \A k \in (m + 1)..(m + n) : p'[o][k] = next + k - m - 1
  <2>1. p'[o] = p[o] \o Ids(p[b])
    BY <1>1 DEF copy_from
  <2>2. p[o] \in Seq(Nat)
    BY <1>1
  <2> HIDE DEF n, m
  <2>3. Len(p[o]) = m
    BY DEF m
  <2>4. ASSUME NEW k \in (m + 1)..(m + n) PROVE (p[o] \o Ids(p[b]))[k] = Ids(p[b])[k - m]
    BY SMTT(30), <1>1, <1>5, <2>2, <2>3
  <2>5. p'[o] \in Seq(Nat) /\ Len(p'[o]) = m + n
    <3>1. /\ p[o] \o Ids(p[b]) \in Seq(Nat)
          /\ Len(p[o] \o Ids(p[b])) = Len(p[o]) + Len(Ids(p[b]))
      BY <1>5, <2>2, ConcatProperties
    <3> QED
      BY <1>5, <2>1, <2>3, <3>1
  <2>6. \A k \in 1..m : p'[o][k] = p[o][k]
    BY <1>1, <1>5, <2>1, <2>2, <2>3
  <2>7. ASSUME NEW k \in (m + 1)..(m + n) PROVE p'[o][k] = next + k - m - 1
    <3>1. k - m \in 1..n /\ next + (k - m) - 1 = next + k - m - 1
      BY <1>1, <2>7
    <3> QED
      BY <1>5, <2>1, <2>4, <3>1
  <2> QED
    BY <2>5, <2>6, <2>7
<1>7. \A x \in All : x # o => p'[x] = p[x]
  BY <1>1 DEF copy_from
<1>8. p' \in [All -> Seq(Nat)]
  BY <1>1, <1>6 DEF copy_from
<1>9. \A x \in All : \A k \in DOMAIN p[x] : p[x][k] < next /\ p[x][k] \in Nat
  BY <1>1 DEF PInv, PIds
<1>10. ASSUME NEW k \in DOMAIN p'[o]
       PROVE  /\ p'[o][k] < next'
              /\ (\A i \in DOMAIN p[o] : p[o][i] \in DOMAIN heap) => p'[o][k] \in DOMAIN heap'
  <2> HIDE DEF n, m
  <2>1. k \in 1..(m + n)
    BY <1>6
  <2>2. CASE k <= m
    <3>1. k \in 1..m /\ k \in DOMAIN p[o] /\ p'[o][k] = p[o][k]
      BY <1>1, <1>6, <2>1, <2>2
    <3>2. p[o][k] < next /\ p[o][k] \in Nat
      BY <1>9, <3>1
    <3>3. p[o][k] < next'
      BY <1>1, <1>4, <3>2
    <3>4. p[o][k] \in DOMAIN heap => p[o][k] \in DOMAIN heap'
      BY <1>3
    <3> QED
      BY <3>1, <3>3, <3>4
  <2>3. CASE k > m
    <3>1. p'[o][k] = next + k - m - 1 /\ k - m \in 1..n
      BY <1>1, <1>6, <2>1, <2>3
    <3>2. p'[o][k] \in next..(next + n - 1)
      BY <1>1, <3>1
    <3> QED
      BY <1>1, <1>3, <1>4, <3>2
  <2> QED
    BY <1>1, <2>1, <2>2, <2>3
<1>11. POnce'
  <2>1. \A j, k \in 1..m : p[o][j] = p[o][k] => j = k
    BY <1>1 DEF PInv, POnce
  <2>2. \A j, k \in 1..(m + n) : p'[o][j] = p'[o][k] => j = k
    <3> HIDE DEF n, m
    <3>1. \A k \in 1..m : p[o][k] < next /\ p[o][k] \in Nat
      BY <1>1, <1>9
    <3> SUFFICES ASSUME NEW j \in 1..(m + n), NEW k \in 1..(m + n), p'[o][j] = p'[o][k]
                 PROVE  j = k
      OBVIOUS
    <3>2. CASE j <= m /\ k <= m
      BY <1>1, <1>6, <2>1, <3>2
    <3>3. CASE j > m /\ k > m
      BY <1>1, <1>6, <3>3
    <3>4. CASE j <= m /\ k > m
      <4>1. p'[o][j] < next /\ p'[o][j] \in Nat
        <5>1. j \in 1..m
          BY <1>1, <3>4
        <5> QED
          BY <1>6, <3>1, <5>1
      <4>2. p'[o][k] = next + k - m - 1
        BY <1>1, <1>6, <3>4
      <4> QED
        BY <1>1, <3>4, <4>1, <4>2
    <3>5. CASE j > m /\ k <= m
      <4>1. p'[o][k] < next /\ p'[o][k] \in Nat
        <5>1. k \in 1..m
          BY <1>1, <3>5
        <5> QED
          BY <1>6, <3>1, <5>1
      <4>2. p'[o][j] = next + j - m - 1
        BY <1>1, <1>6, <3>5
      <4> QED
        BY <1>1, <3>5, <4>1, <4>2
    <3> QED
      BY <1>1, <3>2, <3>3, <3>4, <3>5
  <2> QED
    BY <1>6, <1>7, <2>2 DEF PInv, POnce
<1>12. PApart'
  <2>1. ASSUME NEW x \in All, x # o, NEW j \in 1..(m + n), NEW k \in DOMAIN p[x]
        PROVE  p'[o][j] # p[x][k]
    <3>1. \A i \in 1..m : p[o][i] # p[x][k]
      BY <1>1, <2>1 DEF PInv, PApart
    <3>2. p[x][k] < next /\ p[x][k] \in Nat
      BY <1>9
    <3> HIDE DEF n, m
    <3>3. CASE j <= m
      BY <1>1, <1>6, <3>1, <3>3
    <3>4. CASE j > m
      BY SMTT(30), <1>1, <1>6, <3>2, <3>4
    <3> QED
      BY <1>1, <3>3, <3>4
  <2>2. ASSUME NEW x \in All, NEW y \in All, x # y, NEW j \in DOMAIN p'[x], NEW k \in DOMAIN p'[y]
        PROVE  p'[x][j] # p'[y][k]
    <3>1. CASE x = o
      <4>1. y # o /\ j \in 1..(m + n) /\ k \in DOMAIN p[y] /\ p'[y] = p[y]
        BY <1>6, <1>7, <2>2, <3>1
      <4> QED
        BY <2>1, <3>1, <4>1
    <3>2. CASE y = o
      <4>1. x # o /\ k \in 1..(m + n) /\ j \in DOMAIN p[x] /\ p'[x] = p[x]
        BY <1>6, <1>7, <2>2, <3>2
      <4> QED
        BY <2>1, <3>2, <4>1
    <3>3. CASE x # o /\ y # o
      BY <1>7, <2>2, <3>3 DEF PInv, PApart
    <3> QED
      BY <3>1, <3>2, <3>3
  <2> QED
    BY <2>2 DEF PApart
<1>14. ASSUME p[o] = <<>> PROVE Values(o)' = Values(b)
  <2>1. m = 0
    BY <1>14
  <2> HIDE DEF n, m
  <2>2. DOMAIN p'[o] = 1..n /\ \A k \in 1..n : p'[o][k] = next + k - 1
    <3>1. DOMAIN p'[o] = 1..n /\ \A k \in 1..n : p'[o][k] = next + k - 0 - 1
      BY <1>1, <1>6, <2>1
    <3>2. \A k \in 1..n : next + k - 0 - 1 = next + k - 1
      BY <1>1
    <3> QED
      BY <3>1, <3>2
  <2>3. \A k \in 1..n : p'[o][k] \in DOMAIN heap' /\ heap'[p'[o][k]] = Values(b)[k]
    BY <1>1, <1>3, <2>2
  <2> QED
    BY <1>1, <1>2, <2>2, <2>3 DEF Values
<1> QED
  BY <1>1, <1>3, <1>4, <1>7, <1>8, <1>10, <1>11, <1>12, <1>14

\* A move takes the vector of b and leaves it none; the array pointers of b are
\* then of both.
LEMMA MoveFrom ==
    ASSUME PInv, NEW o \in All, NEW b \in All, o # b, move_from(o, b), UNCHANGED <<heap, next>>
    PROVE  /\ p' \in [All -> Seq(Nat)] /\ arrays' \in [All -> Nat]
           /\ PIds' /\ POnce' /\ PApart'
           /\ p'[o] = p[b] /\ p'[b] = <<>> /\ arrays'[o] = arrays[b]
           /\ \A x \in All : x # o => arrays'[x] = arrays[x]
           /\ \A x \in All \ {o, b} : p'[x] = p[x]
           /\ Values(o)' = Values(b)
<1>1. /\ p \in [All -> Seq(Nat)] /\ arrays \in [All -> Nat] /\ PIds /\ POnce /\ PApart
  BY DEF PInv, PTypes
<1>2. /\ p' = [p EXCEPT ![o] = p[b], ![b] = <<>>]
      /\ arrays' = [arrays EXCEPT ![o] = arrays[b]]
  BY DEF move_from
<1>3. /\ p' \in [All -> Seq(Nat)]
      /\ p'[o] = p[b] /\ p'[b] = <<>> /\ \A x \in All \ {o, b} : p'[x] = p[x]
  <2>1. <<>> \in Seq(Nat) /\ p[b] \in Seq(Nat)
    BY <1>1
  <2>2. \A x \in All : p'[x] = IF x = b THEN <<>> ELSE IF x = o THEN p[b] ELSE p[x]
    BY <1>1, <1>2
  <2>3. p' \in [All -> Seq(Nat)]
    BY <1>1, <1>2, <2>1
  <2> QED
    BY <1>1, <2>2, <2>3
<1>4. /\ arrays' \in [All -> Nat] /\ arrays'[o] = arrays[b]
      /\ \A x \in All : x # o => arrays'[x] = arrays[x]
  BY <1>1, <1>2
<1>6. PIds'
  <2> SUFFICES ASSUME NEW x \in All
               PROVE  arrays'[x] < next /\ \A k \in DOMAIN p'[x] : p'[x][k] < next
    BY DEF PIds
  <2>1. CASE x = o
    BY <1>1, <1>3, <1>4, <2>1 DEF PIds
  <2>2. CASE x = b
    BY <1>1, <1>3, <1>4, <2>2, EmptyDomain DEF PIds
  <2>3. CASE x \notin {o, b}
    BY <1>1, <1>3, <1>4, <2>3 DEF PIds
  <2> QED
    BY <2>1, <2>2, <2>3
<1>7. POnce'
  BY <1>1, <1>3, EmptyDomain DEF POnce
<1>8. PApart'
  <2> SUFFICES ASSUME NEW x \in All, NEW y \in All, x # y,
                      NEW j \in DOMAIN p'[x], NEW k \in DOMAIN p'[y]
               PROVE  p'[x][j] # p'[y][k]
    BY DEF PApart
  <2>1. x # b /\ y # b
    BY <1>3, EmptyDomain
  <2>2. CASE x = o
    BY <1>1, <1>3, <2>1, <2>2 DEF PApart
  <2>3. CASE y = o
    BY <1>1, <1>3, <2>1, <2>3 DEF PApart
  <2>4. CASE x # o /\ y # o
    BY <1>1, <1>3, <2>1, <2>4 DEF PApart
  <2> QED
    BY <2>2, <2>3, <2>4
<1>10. Values(o)' = Values(b)
  BY <1>3 DEF Values
<1> QED
  BY <1>3, <1>4, <1>6, <1>7, <1>8, <1>10

\* After a move, what was not spoiled by it is clean: the object that took the
\* vector when the other had no arrays, the other one, and all the rest.
LEMMA MoveClean ==
    ASSUME PInv, NEW o \in All, NEW b \in All, o # b, move_from(o, b), Moved(o, b),
           UNCHANGED <<heap, next, blocks>>
    PROVE  /\ PClean'
           /\ spoiled \ {o} \subseteq spoiled'
           /\ o \notin spoiled' => b \notin spoiled
<1>1. /\ p'[o] = p[b] /\ p'[b] = <<>> /\ arrays'[o] = arrays[b]
      /\ \A x \in All : x # o => arrays'[x] = arrays[x]
      /\ \A x \in All \ {o, b} : p'[x] = p[x]
  BY MoveFrom
<1>2. /\ spoiled \ {o} \subseteq spoiled'
      /\ o \notin spoiled' => b \notin spoiled /\ arrays[b] = Null
      /\ b \notin spoiled' => b \notin spoiled /\ arrays[b] = Null
  BY DEF Moved
<1>3. ASSUME NEW x \in All, x \notin spoiled' PROVE Clean(x)'
  <2>1. CASE x = o
    <3>1. Clean(b) /\ arrays[b] = Null
      BY <1>2, <1>3, <2>1 DEF PInv, PClean
    <3> QED
      BY <1>1, <2>1, <3>1 DEF Clean
  <2>2. CASE x = b
    <3>1. arrays[b] = Null
      BY <1>2, <1>3, <2>2
    <3> QED
      BY <1>1, <2>2, <3>1, EmptyDomain DEF Clean
  <2>3. CASE x \notin {o, b}
    <3>1. x \notin spoiled /\ p'[x] = p[x] /\ arrays'[x] = arrays[x]
      BY <1>1, <1>2, <1>3, <2>3
    <3>2. arrays[x] # Null => \A y \in All : y # x => arrays[y] # arrays[x]
      BY <3>1 DEF PInv, PClean, Clean
    <3>3. arrays[x] # Null => \A y \in All : y # x => arrays'[y] # arrays[x]
      BY <1>1, <2>3, <3>2
    <3> QED
      BY <3>1, <3>3, StaysClean
  <2> QED
    BY <2>1, <2>2, <2>3
<1> QED
  BY <1>2, <1>3 DEF PClean

\* cleanup() deletes no arrays of another list that was not spoiled.
LEMMA CleanupOthers ==
    ASSUME PInv, NEW o \in All, cleanup(o) \/ UNCHANGED blocks,
           NEW x \in All, x # o, x \notin spoiled, arrays[x] # Null, arrays[x] \in DOMAIN blocks
    PROVE  arrays[x] \in DOMAIN blocks' /\ blocks'[arrays[x]] = blocks[arrays[x]]
<1>1. arrays[o] # arrays[x]
  BY DEF PInv, PClean, Clean
<1> QED
  BY <1>1 DEF cleanup, Without

\* cleanup() only deletes.
LEMMA CleanupDomain ==
    ASSUME NEW o, cleanup(o) \/ UNCHANGED blocks
    PROVE  DOMAIN blocks' \subseteq DOMAIN blocks
  BY DEF cleanup, Without

\* The destructor deletes what o owns; what another list owns stays, and only
\* a spoiled list has lost something it points to.
LEMMA DestroyedFacts ==
    ASSUME PInv, NEW o \in alive, Destroyed(o), UNCHANGED <<next, spoiled>>
    PROVE  /\ p' \in [All -> Seq(Nat)] /\ arrays' \in [All -> Nat]
           /\ DOMAIN heap' \subseteq DOMAIN heap /\ DOMAIN blocks' \subseteq DOMAIN blocks
           /\ PIds' /\ POnce' /\ PApart' /\ PDead' /\ PClean'
           /\ fault' \subseteq spoiled' /\ alive' = alive \ {o}
           /\ \A x \in All : x # o /\ x \notin spoiled => Values(x)' = Values(x)
<1>1. /\ o \in All /\ p \in [All -> Seq(Nat)] /\ arrays \in [All -> Nat] /\ next \in Nat \ {0}
      /\ PIds /\ POnce /\ PApart /\ PClean
  BY DEF PInv, PTypes
<1>2. /\ p' = [p EXCEPT ![o] = <<>>] /\ arrays' = [arrays EXCEPT ![o] = Null]
      /\ heap' = Without(heap, ToSet(p[o])) /\ cleanup(o)
      /\ alive' = alive \ {o}
  BY DEF Destroyed
<1>3. /\ p' \in [All -> Seq(Nat)] /\ arrays' \in [All -> Nat]
      /\ p'[o] = <<>> /\ arrays'[o] = Null
      /\ \A x \in All : x # o => p'[x] = p[x] /\ arrays'[x] = arrays[x]
  BY <1>1, <1>2 DEF Null
<1>4. /\ DOMAIN heap' = DOMAIN heap \ ToSet(p[o])
      /\ \A q \in DOMAIN heap' : heap'[q] = heap[q]
      /\ DOMAIN blocks' \subseteq DOMAIN blocks
  BY <1>2, CleanupDomain DEF Without
<1>5. ASSUME NEW x \in All, x # o, NEW k \in DOMAIN p[x], p[x][k] \in DOMAIN heap
      PROVE  p[x][k] \in DOMAIN heap'
  <2>1. p[x][k] \notin ToSet(p[o])
    BY <1>1, <1>5 DEF PApart, ToSet
  <2> QED
    BY <1>4, <1>5, <2>1
<1>6. PIds'
  <2>1. Null < next
    BY <1>1 DEF Null
  <2> QED
    BY <1>1, <1>3, <2>1, EmptyDomain DEF PIds
<1>7. POnce'
  BY <1>1, <1>3, EmptyDomain DEF POnce
<1>8. PApart'
  <2> SUFFICES ASSUME NEW x \in All, NEW y \in All, x # y,
                      NEW j \in DOMAIN p'[x], NEW k \in DOMAIN p'[y]
               PROVE  p'[x][j] # p'[y][k]
    BY DEF PApart
  <2>1. x # o /\ y # o
    BY <1>3, EmptyDomain
  <2> QED
    BY <1>1, <1>3, <2>1 DEF PApart
<1>9. ASSUME NEW x \in All, x # o, x \notin spoiled PROVE Values(x)' = Values(x)
  <2>1. Clean(x)
    BY <1>1, <1>9 DEF PClean
  <2> QED
    BY <1>3, <1>4, <1>5, <1>9, <2>1, ValuesKept DEF Clean
<1>10. PClean'
  <2> SUFFICES ASSUME NEW x \in All, x \notin spoiled PROVE Clean(x)'
    BY DEF PClean
  <2>1. CASE x = o
    BY <1>3, <2>1, EmptyDomain DEF Clean
  <2>2. CASE x # o
    <3>1. p'[x] = p[x] /\ arrays'[x] = arrays[x]
      BY <1>3, <2>2
    <3>2. arrays[x] # Null /\ arrays[x] \in DOMAIN blocks =>
              arrays[x] \in DOMAIN blocks' /\ blocks'[arrays[x]] = blocks[arrays[x]]
      BY <1>1, <1>2, <2>2, CleanupOthers
    <3>3. arrays[x] # Null => \A b \in All : b # x /\ arrays[b] # arrays[x] => arrays'[b] # arrays[x]
      BY <1>1, <1>3
    <3> QED
      BY <1>5, <2>2, <3>1, <3>2, <3>3, StaysClean
  <2> QED
    BY <2>1, <2>2
<1>11. PDead'
  BY <1>2, <1>3 DEF PInv, PDead
<1>12. fault' \subseteq spoiled'
  <2>1. ArraysGone(o) \/ ParamsGone(o) => o \in spoiled'
    BY <1>1, NotGone
  <2>2. Undefined(o, ArraysGone(o) \/ ParamsGone(o))
    BY DEF Destroyed
  <2> QED
    BY <2>1, <2>2, FaultIsSpoiled
<1> QED
  BY <1>2, <1>3, <1>4, <1>6, <1>7, <1>8, <1>9, <1>10, <1>11, <1>12

\* When one vector changes, only its ids have to be told from the others.
LEMMA PApartFrom ==
    ASSUME PInv, NEW o \in All, \A x \in All : x # o => p'[x] = p[x],
           \A x \in All : x # o =>
               \A j \in DOMAIN p'[o], k \in DOMAIN p[x] : p'[o][j] # p[x][k]
    PROVE  PApart'
<1> SUFFICES ASSUME NEW x \in All, NEW y \in All, x # y,
                    NEW j \in DOMAIN p'[x], NEW k \in DOMAIN p'[y]
             PROVE  p'[x][j] # p'[y][k]
  BY DEF PApart
<1>1. CASE x = o
  BY <1>1
<1>2. CASE y = o
  BY <1>2
<1>3. CASE x # o /\ y # o
  BY <1>3 DEF PInv, PApart
<1> QED
  BY <1>1, <1>2, <1>3

\* The ids below next only grow in number.
LEMMA LargerInterval ==
    ASSUME NEW a \in Nat \ {0}, NEW b \in Nat, a <= b
    PROVE  b \in Nat \ {0} /\ 1..(a - 1) \subseteq 1..(b - 1)
  OBVIOUS

\* What is below next stays below.
LEMMA IdsBelow ==
    ASSUME PInv, next' \in Nat, next <= next', NEW x \in All
    PROVE  arrays[x] < next' /\ \A k \in DOMAIN p[x] : p[x][k] < next'
<1>1. /\ arrays[x] \in Nat /\ next \in Nat /\ p[x] \in Seq(Nat) /\ arrays[x] < next
      /\ \A k \in DOMAIN p[x] : p[x][k] < next
  BY DEF PInv, PTypes, PIds
<1>2. arrays[x] < next'
  BY <1>1
<1>3. ASSUME NEW k \in DOMAIN p[x] PROVE p[x][k] < next'
  <2>1. p[x][k] \in Nat /\ p[x][k] < next
    BY <1>1
  <2> QED
    BY <1>1, <2>1
<1> QED
  BY <1>2, <1>3

\* A step that changes one list o of the program, after cleanup() or not, and
\* no parameter of a list that was not spoiled.
LEMMA ChangeStep ==
    ASSUME PInv, NEW o \in Objects, o \in alive,
           UNCHANGED <<arrays, alive, want, got>>, cleanup(o) \/ UNCHANGED blocks,
           spoiled' = spoiled \/ spoiled' = spoiled \cup {o},
           o \notin spoiled' =>
               arrays[o] = Null /\ \A k \in DOMAIN p'[o] : p'[o][k] \in DOMAIN heap',
           fault' \subseteq spoiled',
           p' \in [All -> Seq(Nat)], \A x \in All : x # o => p'[x] = p[x],
           next' \in Nat, next <= next', DOMAIN heap' \subseteq 1..(next' - 1),
           \A x \in All : x # o => \A k \in DOMAIN p[x] : p[x][k] \in DOMAIN heap =>
               p[x][k] \in DOMAIN heap' /\ heap'[p[x][k]] = heap[p[x][k]],
           \A k \in DOMAIN p'[o] : p'[o][k] < next',
           POnce', PApart'
    PROVE  PInv'
<1>1. o \in All /\ \A t \in Tasks : t \in All /\ t # o
  BY ParametersAssumption DEF All
<1>2. PTypes'
  <2>1. next' \in Nat \ {0} /\ 1..(next - 1) \subseteq 1..(next' - 1)
    <3>1. next \in Nat \ {0}
      BY DEF PInv, PTypes
    <3> QED
      BY <3>1, LargerInterval
  <2>2. DOMAIN blocks' \subseteq DOMAIN blocks
    BY CleanupDomain
  <2> QED
    BY <2>1, <2>2 DEF PInv, PTypes
<1>3. PIds'
  BY IdsBelow DEF PIds
<1>4. PDead'
  BY DEF PInv, PDead
<1>5. PClean'
  <2> SUFFICES ASSUME NEW x \in All, x \notin spoiled' PROVE Clean(x)'
    BY DEF PClean
  <2>1. CASE x = o
    BY <2>1 DEF Clean
  <2>2. CASE x # o
    <3>1. x \notin spoiled /\ p'[x] = p[x]
      BY <2>2
    <3>2. arrays[x] # Null /\ arrays[x] \in DOMAIN blocks =>
              arrays[x] \in DOMAIN blocks' /\ blocks'[arrays[x]] = blocks[arrays[x]]
      <4>1. cleanup(o) \/ UNCHANGED blocks
        OBVIOUS
      <4> QED
        BY SMTT(30), <1>1, <2>2, <3>1, <4>1, CleanupOthers
    <3> QED
      BY <2>2, <3>1, <3>2, StaysClean
  <2> QED
    BY <2>1, <2>2
<1>6. PSent'
  <2> SUFFICES ASSUME NEW t \in Tasks, t \in alive, t \notin spoiled'
               PROVE  want[t] = <<Values(t)'>>
    BY DEF PSent
  <2>1. t \in All /\ t # o /\ t \notin spoiled
    BY <1>1
  <2>2. Clean(t) /\ want[t] = <<Values(t)>>
    BY <2>1 DEF PInv, PClean, PSent
  <2>3. Values(t)' = Values(t)
    BY <2>1, <2>2, ValuesKept DEF Clean
  <2> QED
    BY <2>2, <2>3
<1>7. PGot'
  BY DEF PInv, PGot
<1> QED
  BY <1>2, <1>3, <1>4, <1>5, <1>6, <1>7 DEF PInv

\* The ids of a changed vector are new or were in it before: they are in no
\* other.
LEMMA ApartWhenNew ==
    ASSUME PInv, NEW o \in All, \A x \in All : x # o => p'[x] = p[x],
           p' \in [All -> Seq(Nat)],
           \A k \in DOMAIN p'[o] : p'[o][k] = next \/ \E j \in DOMAIN p[o] : p'[o][k] = p[o][j]
    PROVE  PApart'
<1>1. ASSUME NEW x \in All, x # o, NEW j \in DOMAIN p'[o], NEW k \in DOMAIN p[x]
      PROVE  p'[o][j] # p[x][k]
  <2>1. p[x][k] \in Nat /\ p[x][k] < next /\ next \in Nat
    BY DEF PInv, PTypes, PIds
  <2>2. \A i \in DOMAIN p[o] : p[o][i] # p[x][k]
    BY <1>1 DEF PInv, PApart
  <2>3. p[x][k] # next
    BY <2>1
  <2> QED
    BY <2>2, <2>3
<1> QED
  BY <1>1, PApartFrom

\* A step on one list o whose ids are, afterwards, next or from before.
LEMMA VectorStep ==
    ASSUME PInv, NEW o \in Objects, o \in alive,
           UNCHANGED <<arrays, alive, want, got>>, cleanup(o) \/ UNCHANGED blocks,
           spoiled' = spoiled \/ spoiled' = spoiled \cup {o},
           o \notin spoiled' => arrays[o] = Null,
           \A k \in DOMAIN p'[o] : o \notin spoiled' => p'[o][k] \in DOMAIN heap',
           fault' \subseteq spoiled',
           p' \in [All -> Seq(Nat)], \A x \in All : x # o => p'[x] = p[x],
           next' \in Nat, next <= next', DOMAIN heap' \subseteq 1..(next' - 1),
           \A x \in All : x # o => \A k \in DOMAIN p[x] : p[x][k] \in DOMAIN heap =>
               p[x][k] \in DOMAIN heap' /\ heap'[p[x][k]] = heap[p[x][k]],
           \A j, k \in DOMAIN p'[o] : p'[o][j] = p'[o][k] => j = k,
           \A k \in DOMAIN p'[o] : \/ p'[o][k] = next /\ next < next'
                                   \/ \E j \in DOMAIN p[o] : p'[o][k] = p[o][j]
    PROVE  PInv'
<1>1. o \in All
  BY DEF All
<1>2. POnce'
  BY DEF PInv, POnce
<1>3. PApart'
  BY <1>1, ApartWhenNew
<1>4. \A k \in DOMAIN p'[o] : p'[o][k] < next'
  BY <1>1, IdsBelow
<1> QED
  BY <1>2, <1>3, <1>4, ChangeStep

(***************************************************************************)
(* Every step keeps PInv.                                                   *)
(***************************************************************************)
\* A new object of the program is empty.
LEMMA ConstructStep == ASSUME PInv, fault = {}, NEW o \in Objects, Construct(o) PROVE PInv'
<1>1. /\ alive' = alive \cup {o} /\ o \notin Tasks /\ o \in All /\ o \notin alive
      /\ spoiled' = spoiled \ {o}
      /\ UNCHANGED <<p, arrays, heap, blocks, next, want, got>> /\ fault' = fault
  BY ParametersAssumption DEF Construct, All
<1>2. PTypes' /\ PDead' /\ PGot' /\ PIds' /\ POnce' /\ PApart'
  BY <1>1 DEF PInv, PTypes, PDead, PGot, PIds, POnce, PApart
<1>3. PSent'
  BY <1>1 DEF PInv, PSent, Values
<1>4. PClean'
  <2>1. p[o] = <<>> /\ arrays[o] = Null
    BY <1>1 DEF PInv, PDead
  <2>2. Clean(o)'
    BY <1>1, <2>1, EmptyDomain DEF Clean
  <2> QED
    BY <1>1, <2>2 DEF PInv, PClean, Clean
<1> QED
  BY <1>1, <1>2, <1>3, <1>4 DEF PInv

\* push_back appends a parameter nobody has.
LEMMA PushBackStep ==
    ASSUME PInv, NEW o \in Objects, NEW v, push_back(o, v) PROVE PInv'
<1>1. /\ o \in All /\ o \in alive /\ cleanup(o) /\ Undefined(o, ArraysGone(o)) /\ Changed(o)
      /\ p \in [All -> Seq(Nat)] /\ next \in Nat \ {0} /\ DOMAIN heap \subseteq 1..(next - 1)
      /\ p' = [p EXCEPT ![o] = Append(@, next)]
      /\ heap' = Allocated(heap, <<v>>) /\ next' = next + 1
      /\ UNCHANGED <<arrays, alive, want, got>>
  BY DEF push_back, All, PInv, PTypes
<1>2. /\ DOMAIN heap' = DOMAIN heap \cup {next}
      /\ \A q \in DOMAIN heap : heap'[q] = heap[q]
  <2>1. /\ DOMAIN heap' = DOMAIN heap \cup (next..(next + 1 - 1))
        /\ \A q \in DOMAIN heap : heap'[q] = heap[q]
    BY <1>1 DEF Allocated
  <2>2. next..(next + 1 - 1) = {next}
    BY <1>1
  <2> QED
    BY <2>1, <2>2
<1>3. /\ p' \in [All -> Seq(Nat)]
      /\ \A x \in All : x # o => p'[x] = p[x]
      /\ p'[o] = Append(p[o], next) /\ p[o] \in Seq(Nat)
  BY <1>1
<1> DEFINE m == Len(p[o])
<1>4. /\ m \in Nat /\ DOMAIN p[o] = 1..m /\ DOMAIN p'[o] = 1..(m + 1)
      /\ p'[o][m + 1] = next /\ \A k \in 1..m : p'[o][k] = p[o][k]
  BY <1>1, <1>3
<1>5. \A k \in 1..m : p[o][k] # next
  BY <1>1, <1>4 DEF PInv, PIds
<1>6. \A j, k \in 1..m : p[o][j] = p[o][k] => j = k
  BY <1>1, <1>4 DEF PInv, POnce
<1> HIDE DEF m
<1>7. \A k \in DOMAIN p'[o] : k \in 1..m \/ k = m + 1
  BY <1>4
<1>8. /\ spoiled' = spoiled \/ spoiled' = spoiled \cup {o}
      /\ o \notin spoiled' => o \notin spoiled /\ arrays[o] = Null
  BY <1>1 DEF Changed
<1>9. fault' \subseteq spoiled'
  <2>1. ArraysGone(o) => o \in spoiled'
    BY <1>8 DEF ArraysGone
  <2> QED
    BY <1>1, <2>1, FaultIsSpoiled
<1>10. ASSUME NEW k \in DOMAIN p'[o], o \notin spoiled' PROVE p'[o][k] \in DOMAIN heap'
  <2>1. \A j \in DOMAIN p[o] : p[o][j] \in DOMAIN heap
    BY <1>1, <1>8, <1>10 DEF PInv, PClean, Clean
  <2> QED
    BY <1>2, <1>4, <1>7, <2>1
<1>11. \A j, k \in DOMAIN p'[o] : p'[o][j] = p'[o][k] => j = k
  BY <1>4, <1>5, <1>6, <1>7
<1>12. \A k \in DOMAIN p'[o] : \/ p'[o][k] = next /\ next < next'
                              \/ \E j \in DOMAIN p[o] : p'[o][k] = p[o][j]
  BY <1>1, <1>4, <1>7
<1>13. next' \in Nat /\ next <= next' /\ DOMAIN heap' \subseteq 1..(next' - 1)
  BY <1>1, <1>2
<1>14. \A x \in All : x # o => \A k \in DOMAIN p[x] : p[x][k] \in DOMAIN heap =>
           p[x][k] \in DOMAIN heap' /\ heap'[p[x][k]] = heap[p[x][k]]
  BY <1>2
<1>15. cleanup(o) /\ UNCHANGED <<arrays, alive, want, got>> /\ o \in alive
  BY <1>1
<1> QED
  BY <1>3, <1>8, <1>9, <1>10, <1>11, <1>12, <1>13, <1>14, <1>15, VectorStep

\* push_back of a value that makes no parameter.
LEMMA PushBackThrowsStep ==
    ASSUME PInv, NEW o \in Objects, PushBackThrows(o) PROVE PInv'
<1>1. /\ o \in All /\ o \in alive /\ cleanup(o) /\ Undefined(o, ArraysGone(o)) /\ Changed(o)
      /\ p \in [All -> Seq(Nat)] /\ next \in Nat \ {0} /\ DOMAIN heap \subseteq 1..(next - 1)
      /\ UNCHANGED <<p, heap, next>> /\ UNCHANGED <<arrays, alive, want, got>>
  BY DEF PushBackThrows, All, PInv, PTypes
<1>2. /\ spoiled' = spoiled \/ spoiled' = spoiled \cup {o}
      /\ o \notin spoiled' => o \notin spoiled /\ arrays[o] = Null
  BY <1>1 DEF Changed
<1>3. fault' \subseteq spoiled'
  <2>1. ArraysGone(o) => o \in spoiled'
    BY <1>2 DEF ArraysGone
  <2> QED
    BY <1>1, <2>1, FaultIsSpoiled
<1>4. \A k \in DOMAIN p'[o] : o \notin spoiled' => p'[o][k] \in DOMAIN heap'
  BY <1>1, <1>2 DEF PInv, PClean, Clean
<1>5. \A j, k \in DOMAIN p'[o] : p'[o][j] = p'[o][k] => j = k
  BY <1>1 DEF PInv, POnce
<1>6. \A k \in DOMAIN p'[o] : \E j \in DOMAIN p[o] : p'[o][k] = p[o][j]
  BY <1>1
<1>7. next' \in Nat /\ next <= next' /\ DOMAIN heap' \subseteq 1..(next' - 1)
  BY <1>1
<1> QED
  BY <1>1, <1>2, <1>3, <1>4, <1>5, <1>6, <1>7, VectorStep

\* replace deletes a parameter that only this vector has.
LEMMA ReplaceStep ==
    ASSUME PInv, NEW o \in Objects, NEW pos, NEW v, replace(o, pos, v) PROVE PInv'
<1>1. /\ o \in All /\ o \in alive /\ pos \in DOMAIN p[o] /\ cleanup(o) /\ Changed(o)
      /\ Undefined(o, ArraysGone(o) \/ p[o][pos] \notin DOMAIN heap)
      /\ p \in [All -> Seq(Nat)] /\ next \in Nat \ {0} /\ DOMAIN heap \subseteq 1..(next - 1)
      /\ p' = [p EXCEPT ![o][pos] = next]
      /\ heap' = Allocated(Without(heap, {p[o][pos]}), <<v>>) /\ next' = next + 1
      /\ UNCHANGED <<arrays, alive, want, got>>
  BY DEF replace, All, PInv, PTypes
<1>2. /\ DOMAIN heap' = (DOMAIN heap \ {p[o][pos]}) \cup {next}
      /\ \A q \in DOMAIN heap \ {p[o][pos]} : heap'[q] = heap[q]
  <2> DEFINE h == Without(heap, {p[o][pos]})
  <2>1. DOMAIN h = DOMAIN heap \ {p[o][pos]} /\ \A q \in DOMAIN h : h[q] = heap[q]
    BY DEF Without
  <2> HIDE DEF h
  <2>2. /\ DOMAIN Allocated(h, <<v>>) = DOMAIN h \cup (next..(next + 1 - 1))
        /\ \A q \in DOMAIN h : Allocated(h, <<v>>)[q] = h[q]
    BY <1>1, <2>1 DEF Allocated
  <2>3. next..(next + 1 - 1) = {next}
    BY <1>1
  <2>4. heap' = Allocated(h, <<v>>)
    BY <1>1 DEF h
  <2> QED
    BY <2>1, <2>2, <2>3, <2>4
<1>3. p[o] \in Seq(Nat) /\ p'[o] = [p[o] EXCEPT ![pos] = next]
  BY <1>1
<1>4. /\ DOMAIN p'[o] = DOMAIN p[o] /\ p'[o] \in Seq(Nat)
      /\ p'[o][pos] = next /\ \A k \in DOMAIN p[o] : k # pos => p'[o][k] = p[o][k]
  BY <1>1, <1>3
<1>5. p' \in [All -> Seq(Nat)] /\ \A x \in All : x # o => p'[x] = p[x]
  BY <1>1, <1>4
<1>6. \A k \in DOMAIN p[o] : p[o][k] # next
  BY <1>1 DEF PInv, PIds
<1>7. \A j, k \in DOMAIN p[o] : p[o][j] = p[o][k] => j = k
  BY <1>1 DEF PInv, POnce
<1>8. /\ spoiled' = spoiled \/ spoiled' = spoiled \cup {o}
      /\ o \notin spoiled' => o \notin spoiled /\ arrays[o] = Null
  BY <1>1 DEF Changed
<1>9. o \notin spoiled => \A j \in DOMAIN p[o] : p[o][j] \in DOMAIN heap
  BY <1>1 DEF PInv, PClean, Clean
<1>10. fault' \subseteq spoiled'
  <2>1. ArraysGone(o) \/ p[o][pos] \notin DOMAIN heap => o \in spoiled'
    BY <1>1, <1>8, <1>9 DEF ArraysGone
  <2> QED
    BY <1>1, <2>1, FaultIsSpoiled
<1>11. \A k \in DOMAIN p'[o] : o \notin spoiled' => p'[o][k] \in DOMAIN heap'
  BY <1>1, <1>2, <1>4, <1>7, <1>8, <1>9
<1>12. \A j, k \in DOMAIN p'[o] : p'[o][j] = p'[o][k] => j = k
  BY <1>1, <1>4, <1>6, <1>7
<1>13. \A k \in DOMAIN p'[o] : \/ p'[o][k] = next /\ next < next'
                              \/ \E j \in DOMAIN p[o] : p'[o][k] = p[o][j]
  BY <1>1, <1>4
<1>14. \A x \in All : x # o => \A k \in DOMAIN p[x] : p[x][k] \in DOMAIN heap =>
           p[x][k] \in DOMAIN heap' /\ heap'[p[x][k]] = heap[p[x][k]]
  <2>1. \A x \in All : x # o => \A k \in DOMAIN p[x] : p[x][k] # p[o][pos]
    BY <1>1 DEF PInv, PApart
  <2> QED
    BY <1>2, <2>1
<1>15. next' \in Nat /\ next <= next' /\ DOMAIN heap' \subseteq 1..(next' - 1)
  BY <1>1, <1>2
<1> QED
  BY <1>1, <1>5, <1>8, <1>10, <1>11, <1>12, <1>13, <1>14, <1>15, VectorStep

\* replace with a value that makes no parameter leaves a deleted one behind.
LEMMA ReplaceThrowsStep ==
    ASSUME PInv, NEW o \in Objects, NEW pos, ReplaceThrows(o, pos) PROVE PInv'
<1>1. /\ o \in All /\ o \in alive /\ pos \in DOMAIN p[o] /\ cleanup(o)
      /\ Undefined(o, ArraysGone(o) \/ p[o][pos] \notin DOMAIN heap)
      /\ p \in [All -> Seq(Nat)] /\ next \in Nat \ {0} /\ DOMAIN heap \subseteq 1..(next - 1)
      /\ heap' = Without(heap, {p[o][pos]}) /\ spoiled' = spoiled \cup {o}
      /\ UNCHANGED <<p, next>> /\ UNCHANGED <<arrays, alive, want, got>>
  BY DEF ReplaceThrows, All, PInv, PTypes
<1>2. /\ DOMAIN heap' = DOMAIN heap \ {p[o][pos]}
      /\ \A q \in DOMAIN heap \ {p[o][pos]} : heap'[q] = heap[q]
  BY <1>1 DEF Without
<1>3. fault' \subseteq spoiled' /\ o \in spoiled'
  BY <1>1, FaultIsSpoiled
<1>4. \A j, k \in DOMAIN p'[o] : p'[o][j] = p'[o][k] => j = k
  BY <1>1 DEF PInv, POnce
<1>5. \A k \in DOMAIN p'[o] : \E j \in DOMAIN p[o] : p'[o][k] = p[o][j]
  BY <1>1
<1>6. \A x \in All : x # o => \A k \in DOMAIN p[x] : p[x][k] \in DOMAIN heap =>
           p[x][k] \in DOMAIN heap' /\ heap'[p[x][k]] = heap[p[x][k]]
  <2>1. \A x \in All : x # o => \A k \in DOMAIN p[x] : p[x][k] # p[o][pos]
    BY <1>1 DEF PInv, PApart
  <2> QED
    BY <1>2, <2>1
<1>7. next' \in Nat /\ next <= next' /\ DOMAIN heap' \subseteq 1..(next' - 1)
  BY <1>1, <1>2
<1> QED
  BY <1>1, <1>3, <1>4, <1>5, <1>6, <1>7, VectorStep

\* remove_at moves the later parameters one place down.
LEMMA RemoveAtStep ==
    ASSUME PInv, NEW o \in Objects, NEW pos, remove_at(o, pos) PROVE PInv'
<1>1. /\ o \in All /\ o \in alive /\ pos \in DOMAIN p[o]
      /\ p \in [All -> Seq(Nat)] /\ next \in Nat \ {0} /\ DOMAIN heap \subseteq 1..(next - 1)
      /\ p' = [p EXCEPT ![o] = RemoveAt(@, pos)]
      /\ UNCHANGED <<arrays, alive, want, got, blocks, fault, heap, next>> /\ Changed(o)
      /\ fault \subseteq spoiled
  BY DEF remove_at, All, PInv, PTypes
<1> DEFINE s == p[o]
           r == RemoveAt(s, pos)
           m == Len(s)
<1>2. /\ s \in Seq(Nat) /\ m \in Nat /\ DOMAIN s = 1..m /\ pos \in 1..m
  BY <1>1
<1> HIDE DEF s, r, m
<1>3. /\ r \in Seq(Nat)
      /\ \A k \in DOMAIN r : /\ k \in 1..(m - 1)
                             /\ k < pos => r[k] = s[k]
                             /\ k >= pos => r[k] = s[k + 1]
  <2> DEFINE a == SubSeq(s, 1, pos - 1)
             b == SubSeq(s, pos + 1, m)
  <2>1. a \in Seq(Nat) /\ Len(a) = pos - 1 /\ \A k \in 1..(pos - 1) : a[k] = s[k]
    BY <1>2 DEF m
  <2>2. b \in Seq(Nat) /\ Len(b) = m - pos /\ \A k \in 1..(m - pos) : b[k] = s[pos + k]
    <3>1. pos + 1 \in 1..(Len(s) + 1) /\ Len(s) \in (pos + 1 - 1)..Len(s)
      BY <1>2 DEF m
    <3>2. /\ b \in Seq(Nat) /\ Len(b) = Len(s) - (pos + 1) + 1
          /\ \A i \in 1..(Len(s) - (pos + 1) + 1) : b[i] = s[(pos + 1) + i - 1]
      BY <1>2, <3>1, SubSeqFrom DEF m
    <3>3. Len(s) - (pos + 1) + 1 = m - pos /\ \A k \in 1..(m - pos) : (pos + 1) + k - 1 = pos + k
      BY <1>2 DEF m
    <3> QED
      BY <3>2, <3>3
  <2>3. r = a \o b
    BY DEF r, RemoveAt, m
  <2> HIDE DEF a, b
  <2>4. r \in Seq(Nat) /\ Len(r) = m - 1 /\ DOMAIN r = 1..(m - 1)
    <3>1. r \in Seq(Nat) /\ Len(r) = Len(a) + Len(b)
      BY <2>1, <2>2, <2>3, ConcatProperties
    <3>2. Len(r) = m - 1
      BY <1>2, <2>1, <2>2, <3>1
    <3> QED
      BY <3>1, <3>2
  <2>5. ASSUME NEW k \in 1..(m - 1), k < pos PROVE r[k] = s[k]
    <3>1. k \in 1..(pos - 1)
      BY <1>2, <2>5
    <3>2. r[k] = a[k]
      BY <1>2, <2>1, <2>2, <2>3, <3>1
    <3> QED
      BY <2>1, <3>1, <3>2
  <2>6. ASSUME NEW k \in 1..(m - 1), k >= pos PROVE r[k] = s[k + 1]
    <3>1. k - (pos - 1) \in 1..(m - pos) /\ pos + (k - (pos - 1)) = k + 1
      BY <1>2, <2>6
    <3>2. k \in (Len(a) + 1)..(Len(a) + Len(b)) /\ k - Len(a) = k - (pos - 1)
      BY <1>2, <2>1, <2>2, <2>6
    <3>3. r[k] = b[k - (pos - 1)]
      BY <2>1, <2>2, <2>3, <3>2, ConcatProperties
    <3> QED
      BY <2>2, <3>1, <3>3
  <2> QED
    BY <2>4, <2>5, <2>6
<1>4. p'[o] = r
  BY <1>1 DEF r, s
<1>5. p' \in [All -> Seq(Nat)] /\ \A x \in All : x # o => p'[x] = p[x]
  BY <1>1, <1>3 DEF r, s
<1>7. \A j, k \in 1..m : s[j] = s[k] => j = k
  BY <1>1, <1>2 DEF PInv, POnce, s
<1>8. \A k \in 1..m : k \in DOMAIN p[o] /\ p[o][k] = s[k]
  BY <1>1, <1>2 DEF s
<1>9. ASSUME NEW k \in DOMAIN r
      PROVE  \E i \in 1..m : /\ r[k] = s[i] /\ i = IF k < pos THEN k ELSE k + 1
  <2>0. k \in 1..(m - 1) /\ (k < pos => r[k] = s[k]) /\ (k >= pos => r[k] = s[k + 1])
    BY <1>3
  <2>1. CASE k < pos
    <3>1. k \in 1..m /\ r[k] = s[k]
      BY <1>2, <2>0, <2>1
    <3> QED
      BY <2>1, <3>1
  <2>2. CASE k >= pos
    <3>1. k + 1 \in 1..m /\ r[k] = s[k + 1] /\ ~(k < pos)
      BY <1>2, <2>0, <2>2
    <3> QED
      BY <3>1
  <2> QED
    BY <1>2, <2>0, <2>1, <2>2
<1>11. ASSUME NEW j \in DOMAIN r, NEW k \in DOMAIN r, r[j] = r[k] PROVE j = k
  <2>1. PICK i \in 1..m : r[j] = s[i] /\ i = IF j < pos THEN j ELSE j + 1
    BY <1>9
  <2>2. PICK l \in 1..m : r[k] = s[l] /\ l = IF k < pos THEN k ELSE k + 1
    BY <1>9
  <2>3. i = l
    BY <1>7, <1>11, <2>1, <2>2
  <2>4. j \in Int /\ k \in Int /\ pos \in Int
    BY <1>2, <1>3
  <2> QED
    BY <2>1, <2>2, <2>3, <2>4
<1>12. \A k \in DOMAIN p'[o] : \E j \in DOMAIN p[o] : p'[o][k] = p[o][j]
  BY <1>4, <1>8, <1>9
<1>13. \A j, k \in DOMAIN p'[o] : p'[o][j] = p'[o][k] => j = k
  BY <1>4, <1>11
<1>14. /\ \A k \in DOMAIN p'[o] : (p'[o][k] = next /\ next < next') \/ \E j \in DOMAIN p[o] : p'[o][k] = p[o][j]
       /\ next' \in Nat /\ next <= next' /\ DOMAIN heap' \subseteq 1..(next' - 1)
       /\ \A x \in All : x # o => \A k \in DOMAIN p[x] : p[x][k] \in DOMAIN heap =>
              p[x][k] \in DOMAIN heap' /\ heap'[p[x][k]] = heap[p[x][k]]
  BY <1>1, <1>12
<1>15. /\ spoiled' = spoiled \/ spoiled' = spoiled \cup {o}
       /\ fault' \subseteq spoiled'
       /\ o \notin spoiled' => o \notin spoiled /\ arrays[o] = Null
  BY <1>1 DEF Changed
<1>16. ASSUME o \notin spoiled', NEW k \in DOMAIN p'[o] PROVE p'[o][k] \in DOMAIN heap'
  <2>1. Clean(o)
    BY <1>1, <1>15, <1>16 DEF PInv, PClean
  <2>2. PICK j \in DOMAIN p[o] : p'[o][k] = p[o][j]
    BY <1>12
  <2> QED
    BY <1>1, <2>1, <2>2 DEF Clean
<1> QED
  BY <1>1, <1>5, <1>13, <1>14, <1>15, <1>16, VectorStep

\* The copying assignment, of objects of the program.
LEMMA CopyAssignStep ==
    ASSUME PInv, NEW o \in Objects, NEW b \in Objects, CopyAssign(o, b) PROVE PInv'
<1>1. /\ o \in All /\ b \in All /\ o # b /\ o \in alive /\ copy_from(o, b) /\ Changed(o)
      /\ Undefined(b, ParamsGone(b))
      /\ UNCHANGED <<arrays, alive, want, got>> /\ UNCHANGED blocks
  BY DEF CopyAssign, All
<1>2. /\ p' \in [All -> Seq(Nat)] /\ next' \in Nat /\ next <= next'
      /\ DOMAIN heap' \subseteq 1..(next' - 1)
      /\ POnce' /\ PApart'
      /\ \A x \in All : x # o => p'[x] = p[x]
      /\ \A q \in DOMAIN heap : q \in DOMAIN heap' /\ heap'[q] = heap[q]
      /\ \A k \in DOMAIN p'[o] : p'[o][k] < next'
      /\ (\A k \in DOMAIN p[o] : p[o][k] \in DOMAIN heap) =>
             \A k \in DOMAIN p'[o] : p'[o][k] \in DOMAIN heap'
  BY <1>1, CopyFrom
<1>3. /\ spoiled' = spoiled \/ spoiled' = spoiled \cup {o}
      /\ o \notin spoiled' => o \notin spoiled /\ arrays[o] = Null
  BY <1>1 DEF Changed
<1>4. o \notin spoiled' => \A k \in DOMAIN p'[o] : p'[o][k] \in DOMAIN heap'
  BY <1>1, <1>2, <1>3 DEF PInv, PClean, Clean
<1>5. fault' \subseteq spoiled'
  <2>1. ParamsGone(b) => b \in spoiled'
    BY <1>1, <1>3, NotGone
  <2> QED
    BY <1>1, <2>1, FaultIsSpoiled
<1>6. \A x \in All : x # o => \A k \in DOMAIN p[x] : p[x][k] \in DOMAIN heap =>
          p[x][k] \in DOMAIN heap' /\ heap'[p[x][k]] = heap[p[x][k]]
  BY <1>2
<1> QED
  BY <1>1, <1>2, <1>3, <1>4, <1>5, <1>6, ChangeStep

\* A new list or task x gets a copy of the list b.
LEMMA NewCopy ==
    ASSUME PInv, NEW x \in All, NEW b \in All, x \notin alive, b \in alive, copy_from(x, b),
           Undefined(b, ParamsGone(b)), alive' = alive \cup {x}, spoiled' = spoiled \ {x},
           UNCHANGED <<arrays, blocks>>, DOMAIN want' = Tasks, UNCHANGED got
    PROVE  /\ PTypes' /\ PIds' /\ POnce' /\ PApart' /\ PDead' /\ PClean'
           /\ fault' \subseteq spoiled'
           /\ Values(x)' = Values(b)
           /\ \A y \in All : y # x /\ y \notin spoiled => Values(y)' = Values(y)
<1>1. x # b /\ p[x] = <<>> /\ arrays[x] = Null
  BY DEF PInv, PDead
<1>2. /\ p' \in [All -> Seq(Nat)] /\ next' \in Nat \ {0} /\ next <= next'
      /\ DOMAIN heap' \subseteq 1..(next' - 1)
      /\ POnce' /\ PApart'
      /\ \A y \in All : y # x => p'[y] = p[y]
      /\ \A q \in DOMAIN heap : q \in DOMAIN heap' /\ heap'[q] = heap[q]
      /\ \A k \in DOMAIN p'[x] : p'[x][k] < next'
      /\ (\A k \in DOMAIN p[x] : p[x][k] \in DOMAIN heap) =>
             \A k \in DOMAIN p'[x] : p'[x][k] \in DOMAIN heap'
      /\ p[x] = <<>> => Values(x)' = Values(b)
  BY <1>1, CopyFrom
<1>3. PTypes'
  <2>1. next \in Nat \ {0} /\ next' \in Nat /\ next <= next'
    BY <1>2 DEF PInv, PTypes
  <2>2. 1..(next - 1) \subseteq 1..(next' - 1)
    BY <2>1, LargerInterval
  <2> QED
    BY <1>2, <2>2 DEF PInv, PTypes
<1>4. PIds'
  BY <1>2, IdsBelow DEF PIds
<1>5. PDead'
  BY <1>2 DEF PInv, PDead
<1>6. PClean'
  <2> SUFFICES ASSUME NEW y \in All, y \notin spoiled' PROVE Clean(y)'
    BY DEF PClean
  <2>1. CASE y = x
    BY <1>1, <1>2, <2>1, EmptyDomain DEF Clean
  <2>2. CASE y # x
    <3>1. y \notin spoiled /\ p'[y] = p[y]
      BY <1>2, <2>2
    <3> QED
      BY <1>2, <3>1, StaysClean
  <2> QED
    BY <2>1, <2>2
<1>7. fault' \subseteq spoiled'
  <2>1. ParamsGone(b) => b \in spoiled'
    BY <1>1, NotGone
  <2> QED
    BY <2>1, FaultIsSpoiled
<1>8. ASSUME NEW y \in All, y # x, y \notin spoiled PROVE Values(y)' = Values(y)
  <2>1. Clean(y)
    BY <1>8 DEF PInv, PClean
  <2> QED
    BY <1>2, <1>8, <2>1, ValuesKept DEF Clean
<1> QED
  BY <1>1, <1>2, <1>3, <1>4, <1>5, <1>6, <1>7, <1>8

\* The copy constructor, of objects of the program.
LEMMA CopyConstructStep ==
    ASSUME PInv, NEW o \in Objects, NEW b \in Objects, CopyConstruct(o, b) PROVE PInv'
<1>1. /\ o \in All /\ b \in All /\ o \notin alive /\ b \in alive /\ copy_from(o, b)
      /\ Undefined(b, ParamsGone(b)) /\ alive' = alive \cup {o} /\ spoiled' = spoiled \ {o}
      /\ UNCHANGED <<arrays, blocks>> /\ UNCHANGED <<want, got>> /\ DOMAIN want = Tasks
  BY DEF CopyConstruct, All, PInv, PTypes
<1>2. \A t \in Tasks : t \in All /\ t # o
  BY ParametersAssumption DEF All
<1>3. /\ PTypes' /\ PIds' /\ POnce' /\ PApart' /\ PDead' /\ PClean'
      /\ fault' \subseteq spoiled'
      /\ \A y \in All : y # o /\ y \notin spoiled => Values(y)' = Values(y)
  BY <1>1, NewCopy
<1>4. PSent' /\ PGot'
  BY <1>1, <1>2, <1>3 DEF PInv, PSent, PGot
<1> QED
  BY <1>3, <1>4 DEF PInv

\* A task takes a copy of the program's object.
LEMMA SendCopyStep ==
    ASSUME PInv, NEW t \in Tasks, NEW o \in Objects, SendCopy(t, o) PROVE PInv'
<1>1. /\ t \in All /\ o \in All /\ t \notin alive /\ o \in alive /\ copy_from(t, o)
      /\ Undefined(o, ParamsGone(o)) /\ alive' = alive \cup {t} /\ spoiled' = spoiled \ {t}
      /\ want' = [want EXCEPT ![t] = <<Values(o)>>]
      /\ UNCHANGED <<arrays, blocks>> /\ UNCHANGED got
  BY DEF SendCopy, All
<1>2. /\ DOMAIN want' = Tasks /\ want'[t] = <<Values(o)>>
      /\ \A u \in Tasks : u # t => want'[u] = want[u]
  BY <1>1 DEF PInv, PTypes
<1>3. /\ PTypes' /\ PIds' /\ POnce' /\ PApart' /\ PDead' /\ PClean'
      /\ fault' \subseteq spoiled' /\ Values(t)' = Values(o)
      /\ \A y \in All : y # t /\ y \notin spoiled => Values(y)' = Values(y)
  BY <1>1, <1>2, NewCopy
<1>4. PSent'
  BY <1>1, <1>2, <1>3 DEF PInv, PSent, All
<1>5. PGot'
  BY <1>1, <1>2 DEF PInv, PGot
<1> QED
  BY <1>3, <1>4, <1>5 DEF PInv

\* operator=(parameters_t&&), of objects of the program.
LEMMA MoveAssignStep ==
    ASSUME PInv, fault = {}, NEW o \in Objects, NEW b \in Objects, MoveAssign(o, b) PROVE PInv'
<1>1. /\ o \in All /\ b \in All /\ o # b /\ {o, b} \subseteq alive /\ move_from(o, b) /\ Moved(o, b)
      /\ UNCHANGED <<heap, next>> /\ UNCHANGED blocks /\ UNCHANGED <<alive, want, got, fault>>
  BY DEF MoveAssign, All
<1>2. \A t \in Tasks : t \in All \ {o, b} /\ t # o
  BY ParametersAssumption DEF All
<1>3. /\ p' \in [All -> Seq(Nat)] /\ arrays' \in [All -> Nat]
      /\ PIds' /\ POnce' /\ PApart'
      /\ \A x \in All : x # o => arrays'[x] = arrays[x]
      /\ \A x \in All \ {o, b} : p'[x] = p[x]
  BY <1>1, MoveFrom
<1>4. PClean' /\ spoiled \ {o} \subseteq spoiled'
  BY <1>1, MoveClean
<1>5. PTypes'
  BY <1>1, <1>3 DEF PInv, PTypes
<1>6. PDead'
  BY <1>1, <1>3 DEF PInv, PDead, All
<1>7. \A t \in Tasks : Values(t)' = Values(t)
  BY <1>1, <1>2, <1>3 DEF Values
<1>8. PSent' /\ PGot'
  BY <1>1, <1>2, <1>4, <1>7 DEF PInv, PSent, PGot
<1> QED
  BY <1>1, <1>3, <1>4, <1>5, <1>6, <1>8 DEF PInv

\* A task takes the vector of the program's object.
LEMMA SendMoveStep ==
    ASSUME PInv, fault = {}, NEW t \in Tasks, NEW o \in Objects, SendMove(t, o) PROVE PInv'
<1>1. /\ t \in All /\ o \in All /\ t # o /\ t \notin alive /\ o \in alive
      /\ move_from(t, o) /\ Moved(t, o)
      /\ alive' = alive \cup {t} /\ want' = [want EXCEPT ![t] = <<Values(o)>>]
      /\ UNCHANGED <<heap, next>> /\ UNCHANGED blocks /\ UNCHANGED <<got, fault>>
  BY ParametersAssumption DEF SendMove, All
<1>2. \A u \in Tasks : u # t => u \in All \ {t, o}
  BY ParametersAssumption DEF All
<1>3. /\ p' \in [All -> Seq(Nat)] /\ arrays' \in [All -> Nat]
      /\ PIds' /\ POnce' /\ PApart'
      /\ \A x \in All : x # t => arrays'[x] = arrays[x]
      /\ \A x \in All \ {t, o} : p'[x] = p[x]
      /\ Values(t)' = Values(o)
  BY <1>1, MoveFrom
<1>4. PClean' /\ spoiled \ {t} \subseteq spoiled'
  BY <1>1, MoveClean
<1>5. /\ DOMAIN want' = Tasks /\ want'[t] = <<Values(o)>>
      /\ \A u \in Tasks : u # t => want'[u] = want[u]
  BY <1>1 DEF PInv, PTypes
<1>6. PTypes'
  BY <1>1, <1>3, <1>5 DEF PInv, PTypes
<1>7. PDead'
  BY <1>1, <1>3 DEF PInv, PDead, All
<1>8. \A u \in Tasks : u # t => Values(u)' = Values(u)
  BY <1>1, <1>2, <1>3 DEF Values
<1>9. PSent'
  BY <1>1, <1>3, <1>4, <1>5, <1>8 DEF PInv, PSent
<1>10. PGot'
  BY <1>1, <1>4, <1>5 DEF PInv, PGot
<1> QED
  BY <1>1, <1>3, <1>4, <1>6, <1>7, <1>9, <1>10 DEF PInv

\* ~parameters_t of an object of the program.
LEMMA DestroyStep == ASSUME PInv, NEW o \in Objects, Destroy(o) PROVE PInv'
<1>1. /\ o \in alive /\ o \in All /\ Destroyed(o) /\ UNCHANGED <<next, spoiled>>
      /\ UNCHANGED <<want, got>>
  BY DEF Destroy, All
<1>2. \A t \in Tasks : t \in All /\ t # o
  BY ParametersAssumption DEF All
<1>3. /\ p' \in [All -> Seq(Nat)] /\ arrays' \in [All -> Nat]
      /\ DOMAIN heap' \subseteq DOMAIN heap /\ DOMAIN blocks' \subseteq DOMAIN blocks
      /\ PIds' /\ POnce' /\ PApart' /\ PDead' /\ PClean'
      /\ fault' \subseteq spoiled' /\ alive' = alive \ {o}
      /\ \A x \in All : x # o /\ x \notin spoiled => Values(x)' = Values(x)
  BY <1>1, DestroyedFacts
<1>4. PTypes'
  BY <1>1, <1>3 DEF PInv, PTypes
<1>5. PSent' /\ PGot'
  BY <1>1, <1>2, <1>3 DEF PInv, PSent, PGot
<1> QED
  BY <1>3, <1>4, <1>5 DEF PInv

\* The destructor of a task's parameters.
LEMMA TaskDoneStep == ASSUME PInv, NEW t \in Tasks, TaskDone(t) PROVE PInv'
<1>1. /\ t \in alive /\ t \in All /\ Destroyed(t) /\ UNCHANGED <<next, spoiled>>
      /\ want' = [want EXCEPT ![t] = <<>>] /\ got' = [got EXCEPT ![t] = <<>>]
  BY DEF TaskDone, All
<1>2. /\ p' \in [All -> Seq(Nat)] /\ arrays' \in [All -> Nat]
      /\ DOMAIN heap' \subseteq DOMAIN heap /\ DOMAIN blocks' \subseteq DOMAIN blocks
      /\ PIds' /\ POnce' /\ PApart' /\ PDead' /\ PClean'
      /\ fault' \subseteq spoiled' /\ alive' = alive \ {t}
      /\ \A x \in All : x # t /\ x \notin spoiled => Values(x)' = Values(x)
  BY <1>1, DestroyedFacts
<1>3. /\ DOMAIN want' = Tasks /\ DOMAIN got' = Tasks /\ got'[t] = <<>>
      /\ \A u \in Tasks : u # t => want'[u] = want[u] /\ got'[u] = got[u]
  BY <1>1 DEF PInv, PTypes
<1>4. PTypes'
  BY <1>1, <1>2, <1>3 DEF PInv, PTypes
<1>5. PSent' /\ PGot'
  BY <1>1, <1>2, <1>3 DEF PInv, PSent, PGot, All
<1> QED
  BY <1>2, <1>4, <1>5 DEF PInv

\* init() of a list or a task makes its arrays, of its vector, or finds them.
LEMMA InitArrays ==
    ASSUME PInv, NEW x \in alive, init(x), Undefined(x, Unreadable(x)),
           UNCHANGED <<p, heap, alive, want, spoiled>>, DOMAIN got' = Tasks
    PROVE  /\ PTypes' /\ PIds' /\ POnce' /\ PApart' /\ PDead' /\ PClean' /\ PSent'
           /\ fault' \subseteq spoiled'
<1>1. /\ x \in All /\ p \in [All -> Seq(Nat)] /\ arrays \in [All -> Nat] /\ next \in Nat \ {0}
      /\ DOMAIN blocks \subseteq 1..(next - 1)
  BY DEF PInv, PTypes
<1>2. \/ /\ arrays[x] = Null /\ arrays' = [arrays EXCEPT ![x] = next] /\ next' = next + 1
         /\ DOMAIN blocks' = DOMAIN blocks \cup {next} /\ blocks'[next] = p[x]
         /\ \A b \in DOMAIN blocks : b # next => blocks'[b] = blocks[b]
      \/ UNCHANGED <<arrays, blocks, next>>
  BY DEF init
<1>3. PTypes'
  <2>1. /\ arrays' \in [All -> Nat] /\ next' \in Nat \ {0} /\ next <= next'
        /\ DOMAIN blocks' \subseteq 1..(next' - 1)
    BY SMTT(30), <1>1, <1>2
  <2>2. 1..(next - 1) \subseteq 1..(next' - 1)
    BY <1>1, <2>1, LargerInterval
  <2> QED
    BY <2>1, <2>2 DEF PInv, PTypes
<1>4. next' \in Nat /\ next <= next' /\ (arrays' # arrays => next < next')
  BY <1>1, <1>2
<1>5. \A y \in All : y # x => arrays'[y] = arrays[y]
  BY <1>1, <1>2
<1>6. arrays'[x] = arrays[x] \/ arrays'[x] = next
  BY <1>1, <1>2
<1>7. PIds'
  <2> SUFFICES ASSUME NEW y \in All
               PROVE  arrays'[y] < next' /\ \A k \in DOMAIN p[y] : p[y][k] < next'
    BY DEF PIds
  <2>1. arrays[y] < next' /\ \A k \in DOMAIN p[y] : p[y][k] < next'
    BY <1>4, IdsBelow
  <2> QED
    BY <1>4, <1>5, <1>6, <2>1
<1>8. PDead'
  BY <1>5 DEF PInv, PDead
<1>9. POnce' /\ PApart' /\ PSent'
  BY DEF PInv, POnce, PApart, PSent, Values
<1>10. PClean'
  <2> SUFFICES ASSUME NEW y \in All, y \notin spoiled PROVE Clean(y)'
    BY DEF PClean
  <2>0. Clean(y) /\ \A b \in All : arrays[b] # next
    <3>1. \A b \in All : arrays[b] \in Nat /\ arrays[b] < next
      BY <1>1 DEF PInv, PIds
    <3> QED
      BY <1>1, <3>1 DEF PInv, PClean
  <2>1. CASE UNCHANGED <<arrays, blocks, next>>
    BY <2>0, <2>1 DEF Clean
  <2>2. CASE /\ arrays[x] = Null /\ arrays' = [arrays EXCEPT ![x] = next]
             /\ DOMAIN blocks' = DOMAIN blocks \cup {next} /\ blocks'[next] = p[x]
             /\ \A b \in DOMAIN blocks : b # next => blocks'[b] = blocks[b]
    <3>1. arrays'[x] = next
      BY <1>1, <2>2
    <3>2. CASE y = x
      BY <1>5, <2>0, <2>2, <3>1, <3>2 DEF Clean
    <3>3. CASE y # x
      BY <1>1, <1>5, <2>0, <2>2, <3>1, <3>3 DEF Clean
    <3> QED
      BY <3>2, <3>3
  <2> QED
    BY <1>2, <2>1, <2>2
<1>11. fault' \subseteq spoiled'
  <2>1. Unreadable(x) => x \in spoiled'
    BY <1>1, NotGone
  <2> QED
    BY <2>1, FaultIsSpoiled
<1> QED
  BY <1>3, <1>7, <1>8, <1>9, <1>10, <1>11

\* The program asks a list for its arrays.
LEMMA TypesStep == ASSUME PInv, NEW o \in Objects, types(o) PROVE PInv'
<1>1. /\ o \in alive /\ init(o) /\ Undefined(o, Unreadable(o))
      /\ UNCHANGED <<p, heap, alive, want, spoiled>> /\ UNCHANGED got /\ DOMAIN got = Tasks
  BY DEF types, PInv, PTypes
<1>2. /\ PTypes' /\ PIds' /\ POnce' /\ PApart' /\ PDead' /\ PClean' /\ PSent'
      /\ fault' \subseteq spoiled'
  BY <1>1, InitArrays
<1>3. PGot'
  BY <1>1 DEF PInv, PGot
<1> QED
  BY <1>2, <1>3 DEF PInv

\* A run makes the arrays of the task or finds them, still of its vector.
LEMMA RunStep == ASSUME PInv, NEW t \in Tasks, Run(t) PROVE PInv'
<1>1. /\ t \in alive /\ t \in All /\ init(t) /\ Undefined(t, Unreadable(t))
      /\ UNCHANGED <<p, heap, alive, want, spoiled>>
  BY DEF Run, All
<1>2. DOMAIN got' = Tasks /\ \A u \in Tasks : u # t => got'[u] = got[u]
  BY DEF Run, PInv, PTypes
<1>3. /\ PTypes' /\ PIds' /\ POnce' /\ PApart' /\ PDead' /\ PClean' /\ PSent'
      /\ fault' \subseteq spoiled'
  BY <1>1, <1>2, InitArrays
<1>4. ASSUME t \notin spoiled PROVE got'[t] = want[t]
  <2>1. ~Unreadable(t) /\ Entries(t) = p[t] /\ Clean(t) /\ want[t] = <<Values(t)>>
    BY <1>1, <1>4, NotGone DEF PInv, PClean, PSent
  <2>2. got' = [got EXCEPT ![t] = <<[i \in DOMAIN p[t] |-> heap[p[t][i]]]>>]
    BY <2>1 DEF Run
  <2>3. Values(t) = [i \in DOMAIN p[t] |-> heap[p[t][i]]]
    BY <2>1 DEF Values, Clean
  <2> QED
    BY <2>1, <2>2, <2>3 DEF PInv, PTypes
<1>5. PGot'
  BY <1>1, <1>2, <1>4 DEF PInv, PGot
<1> QED
  BY <1>3, <1>5 DEF PInv

(***************************************************************************)
(* The theorems.                                                            *)
(***************************************************************************)
\* Nothing is allocated at the start.
LEMMA InitPInv == Init => PInv
<1> SUFFICES ASSUME Init PROVE PInv
  OBVIOUS
<1>1. \A o \in All : p[o] = <<>> /\ arrays[o] = Null /\ DOMAIN p[o] = {}
  BY EmptyDomain DEF Init
<1>2. PTypes
  <2>1. DOMAIN heap = {} /\ DOMAIN blocks = {}
    BY EmptyDomain DEF Init
  <2> QED
    BY <2>1 DEF Init, PTypes, Null
<1>3. PIds /\ POnce /\ PApart /\ PDead /\ PClean
  <2>1. Null < next
    BY DEF Init, Null
  <2> QED
    BY <1>1, <2>1 DEF PIds, POnce, PApart, PDead, PClean, Clean
<1>4. PSent /\ PGot
  BY DEF Init, PSent, PGot
<1> QED
  BY <1>2, <1>3, <1>4 DEF PInv, Init

\* One case per operation.
LEMMA NextPInv == PInv /\ [Next]_vars => PInv'
<1> SUFFICES ASSUME PInv, [Next]_vars PROVE PInv'
  OBVIOUS
<1>1. CASE UNCHANGED vars
  BY <1>1 DEF vars, PInv, PTypes, PIds, POnce, PApart, PDead, PClean, Clean, PSent, PGot, Values
<1>2. ASSUME fault = {}, NEW o \in Objects, Construct(o) \/ Destroy(o) \/ types(o) \/ PushBackThrows(o)
      PROVE  PInv'
  BY <1>2, ConstructStep, DestroyStep, TypesStep, PushBackThrowsStep
<1>3. ASSUME NEW o \in Objects, NEW v \in Vals, push_back(o, v) PROVE PInv'
  BY <1>3, PushBackStep
<1>4. ASSUME NEW o \in Objects, NEW v \in Vals, NEW pos \in 1..MaxLen, replace(o, pos, v)
      PROVE  PInv'
  BY <1>4, ReplaceStep
<1>5. ASSUME NEW o \in Objects, NEW pos \in 1..MaxLen, ReplaceThrows(o, pos) \/ remove_at(o, pos)
      PROVE  PInv'
  BY <1>5, ReplaceThrowsStep, RemoveAtStep
<1>6. ASSUME fault = {}, NEW o \in Objects, NEW b \in Objects,
             CopyConstruct(o, b) \/ CopyAssign(o, b) \/ MoveAssign(o, b)
      PROVE  PInv'
  BY <1>6, CopyConstructStep, CopyAssignStep, MoveAssignStep
<1>7. ASSUME fault = {}, NEW o \in Objects, NEW t \in Tasks, SendCopy(t, o) \/ SendMove(t, o)
      PROVE  PInv'
  BY <1>7, SendCopyStep, SendMoveStep
<1>8. ASSUME NEW t \in Tasks, Run(t) \/ TaskDone(t) PROVE PInv'
  BY <1>8, RunStep, TaskDoneStep
<1>9. ASSUME fault = {}, NEW o \in Objects, Program(o) PROVE PInv'
  BY <1>2, <1>3, <1>4, <1>5, <1>6, <1>7, <1>9 DEF Program
<1> QED
  BY <1>1, <1>8, <1>9 DEF Next

\* PInv holds in every reachable state.
LEMMA PInvAlways == Spec => []PInv
  BY InitPInv, NextPInv, PTL DEF Spec

\* parameters_t: for any number of lists, tasks and parameters, undefined
\* behaviour is reached only on a list of which a replace() threw or that was
\* changed or moved while it had its arrays; every other list has what it
\* points to, and no two lists own one parameter.
THEOREM MemorySafeThm == Spec => []MemorySafe
<1>1. PInv => MemorySafe
  <2> SUFFICES ASSUME PInv PROVE MemorySafe
    OBVIOUS
  <2>1. fault \subseteq spoiled /\ POnce /\ PApart /\ alive \subseteq All
    BY DEF PInv, PTypes
  <2>2. \A o \in alive \ spoiled : ~ParamsGone(o) /\ ~ArraysGone(o)
    BY <2>1, NotGone
  <2>3. \A o \in alive : IsInjective(p[o])
    BY <2>1 DEF POnce, IsInjective
  <2>4. \A o, b \in alive : o # b => ToSet(p[o]) \cap ToSet(p[b]) = {}
    BY <2>1 DEF PApart, ToSet
  <2> QED
    BY <2>1, <2>2, <2>3, <2>4 DEF MemorySafe
<1> QED
  BY <1>1, PInvAlways, PTL

\* send_query and send_query_prepared: what libpq reads when a task runs, the
\* first time or again, is what the program's object held when it was sent, and
\* the arrays of a list are of its parameters, unless the list was spoiled.
THEOREM SentAsBuiltThm == Spec => []SentAsBuilt
<1>1. PInv => SentAsBuilt
  <2> SUFFICES ASSUME PInv PROVE SentAsBuilt
    OBVIOUS
  <2>1. \A t \in Tasks \ spoiled : got[t] # <<>> => got[t] = want[t]
    BY DEF PInv, PGot
  <2>2. \A o \in alive \ spoiled : Entries(o) = p[o]
    BY NotGone DEF PInv, PTypes
  <2> QED
    BY <2>1, <2>2 DEF SentAsBuilt
<1> QED
  BY <1>1, PInvAlways, PTL
=============================================================================
