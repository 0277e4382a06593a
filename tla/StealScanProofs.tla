--------------------------- MODULE StealScanProofs --------------------------
(***************************************************************************)
(* Why the step-by-step scan takes what a scan in one step would take, and *)
(* gives up only when that scan would have found nothing.                  *)
(***************************************************************************)
EXTENDS StealScan, SetInduction, TLAPS

(***************************************************************************)
(* The order of the scan                                                   *)
(***************************************************************************)
\* One turn of the loop that fills scons, g being what it has filled so far.
Push(S, g, k) ==
    IF k = 0 THEN <<>> ELSE IF k - 1 \in S THEN Append(g[k - 1], k - 1) ELSE g[k - 1]

\* After n turns.
IsPushed(S, g, n) == g = [k \in 0..n |-> Push(S, g, k)]

\* The loop that fills scons has a result, whatever connections it selects.
LEMMA PushedExists == ASSUME NEW S, NEW n \in Nat PROVE \E g : IsPushed(S, g, n)
<1> DEFINE G == {m \in Nat : \E g : IsPushed(S, g, m)}
<1>1. 0 \in G
  <2> DEFINE g == [k \in 0..0 |-> <<>>]
  <2>1. IsPushed(S, g, 0)
    BY DEF IsPushed, Push
  <2> QED
    BY <2>1
<1>2. ASSUME NEW m \in Nat, m \in G PROVE m + 1 \in G
  <2>1. PICK g : g = [k \in 0..m |-> Push(S, g, k)]
    BY <1>2 DEF IsPushed
  <2> DEFINE h == [k \in 0..(m + 1) |-> IF k = m + 1 THEN Push(S, g, k) ELSE g[k]]
  <2>2. ASSUME NEW k \in 0..(m + 1) PROVE h[k] = Push(S, h, k)
    <3>1. k = 0 \/ (k - 1 \in 0..m /\ h[k - 1] = g[k - 1])
      OBVIOUS
    <3>2. Push(S, h, k) = Push(S, g, k)
      BY <3>1 DEF Push
    <3>3. k \in 0..m => g[k] = Push(S, g, k)
      BY <2>1
    <3>4. h[k] = Push(S, g, k)
      BY <3>3
    <3> QED
      BY <3>2, <3>4
  <2>3. h = [k \in 0..(m + 1) |-> h[k]]
    OBVIOUS
  <2> HIDE DEF h
  <2>4. IsPushed(S, h, m + 1)
    BY <2>2, <2>3 DEF IsPushed
  <2> QED
    BY <2>4
<1> HIDE DEF G
<1>3. n \in G
  BY <1>1, <1>2, NatSetInduction
<1> QED
  BY <1>3 DEF G

\* Each loop that fills scons pushes every connection it selects, and only
\* connections of the pool.
LEMMA InPoolOrderCovers ==
    ASSUME NEW S \in SUBSET Conns
    PROVE  /\ InPoolOrder(S) \in Seq(Conns)
           /\ \A c \in S : \E j \in 1..Len(InPoolOrder(S)) : InPoolOrder(S)[j] = c
<1>0. NumConns \in Nat
  BY ScanAssumption
<1> DEFINE f == CHOOSE g : IsPushed(S, g, NumConns)
<1>1. IsPushed(S, f, NumConns)
  BY <1>0, PushedExists
<1>2. InPoolOrder(S) = f[NumConns]
  BY DEF InPoolOrder, IsPushed, Push
<1> HIDE DEF f
<1>3. \A k \in 0..NumConns : f[k] = Push(S, f, k)
  BY <1>1 DEF IsPushed
<1> DEFINE Covers(k) ==
      /\ f[k] \in Seq(Conns)
      /\ \A c \in S : c < k => \E j \in 1..Len(f[k]) : f[k][j] = c
<1> DEFINE G == {k \in Nat : k <= NumConns => Covers(k)}
<1>4. 0 \in G
  <2>1. f[0] = <<>>
    BY <1>0, <1>3 DEF Push
  <2>2. \A c \in S : ~(c < 0)
    BY <1>0 DEF Conns
  <2>3. f[0] \in Seq(Conns)
    BY <2>1
  <2>4. Covers(0)
    BY <2>2, <2>3
  <2> HIDE DEF Covers
  <2> QED
    BY <2>4
<1>5. ASSUME NEW k \in Nat, k \in G PROVE k + 1 \in G
  <2> SUFFICES ASSUME k + 1 <= NumConns PROVE Covers(k + 1)
    OBVIOUS
  <2>1. Covers(k)
    BY <1>0, <1>5
  <2>2. f[k + 1] = IF k \in S THEN Append(f[k], k) ELSE f[k]
    BY <1>0, <1>3 DEF Push
  <2>3. k \in Conns
    BY <1>0 DEF Conns
  <2>4. f[k + 1] \in Seq(Conns)
    BY <2>1, <2>2, <2>3
  <2>5. ASSUME NEW c \in S, c < k + 1 PROVE \E j \in 1..Len(f[k + 1]) : f[k + 1][j] = c
    <3>0. c \in Int
      BY <1>0 DEF Conns
    <3>1. CASE c = k
      <4>1. f[k + 1] = Append(f[k], k) /\ Len(f[k]) + 1 \in 1..Len(f[k + 1])
        BY <2>1, <2>2, <3>1
      <4>2. f[k + 1][Len(f[k]) + 1] = k
        BY <2>1, <4>1
      <4> QED
        BY <3>1, <4>1, <4>2
    <3>2. CASE c # k
      <4>1. PICK j \in 1..Len(f[k]) : f[k][j] = c
        BY <2>1, <2>5, <3>0, <3>2
      <4>2. j \in 1..Len(f[k + 1]) /\ f[k + 1][j] = c
        BY <2>1, <2>2, <4>1
      <4> QED
        BY <4>2
    <3> QED
      BY <3>1, <3>2
  <2> QED
    BY <2>4, <2>5
<1> HIDE DEF G, Covers
<1>6. NumConns \in G
  BY <1>0, <1>4, <1>5, NatSetInduction
<1>7. Covers(NumConns)
  BY <1>0, <1>6 DEF G
<1>8. \A c \in S : c < NumConns
  BY <1>0 DEF Conns
<1> QED
  BY <1>2, <1>7, <1>8 DEF Covers

\* The vector scons holds every connection of the pool, whichever was stolen
\* last and however ids compare as texts.
LEMMA StealOrderCovers ==
    /\ StealOrder \in Seq(Conns)
    /\ \A c \in Conns : \E j \in 1..Len(StealOrder) : StealOrder[j] = c
<1> DEFINE above == {c \in Conns : IdGreater(c, last_stolen_conn_id)}
<1> DEFINE s == InPoolOrder(above)
<1> DEFINE t == InPoolOrder(Conns \ above)
<1>1. StealOrder = s \o t
  BY DEF StealOrder
<1>2. above \in SUBSET Conns /\ Conns \ above \in SUBSET Conns
  OBVIOUS
<1> HIDE DEF above
<1>3. s \in Seq(Conns) /\ \A c \in above : \E j \in 1..Len(s) : s[j] = c
  BY <1>2, InPoolOrderCovers
<1>4. t \in Seq(Conns) /\ \A c \in Conns \ above : \E j \in 1..Len(t) : t[j] = c
  BY <1>2, InPoolOrderCovers
<1> HIDE DEF s, t
<1>5. ASSUME NEW c \in Conns PROVE \E j \in 1..Len(s \o t) : (s \o t)[j] = c
  <2>1. CASE c \in above
    <3>1. PICK j \in 1..Len(s) : s[j] = c
      BY <1>3, <2>1
    <3> QED
      BY <1>3, <1>4, <3>1
  <2>2. CASE c \notin above
    <3>1. PICK j \in 1..Len(t) : t[j] = c
      BY <1>4, <2>2
    <3>2. Len(s) + j \in 1..Len(s \o t) /\ (s \o t)[Len(s) + j] = t[j]
      BY <1>3, <1>4, <3>1
    <3> QED
      BY <3>1, <3>2
  <2> QED
    BY <2>1, <2>2
<1> QED
  BY <1>1, <1>3, <1>4, <1>5

(***************************************************************************)
(* The scan                                                                *)
(***************************************************************************)
\* While the scan runs nobody starts to work, so what was idle stays idle;
\* what the scan has passed was busy when it passed; and the scan comes by
\* every connection.
ScanInv ==
    /\ i \in Nat /\ scons \in Seq(Conns) /\ idle_at_call \subseteq Conns
    /\ pc = "scan" => /\ idle_at_call \cap busy = {}
                      /\ \A c \in Conns : \E j \in 1..Len(scons) : scons[j] = c
    /\ pc \in {"scan", "stolen"} => \A k \in 1..(i - 1) : scons[k] \notin idle_at_call
    /\ pc = "thrown" => idle_at_call = {}

\* Every step of the scan and of the workers keeps ScanInv.
LEMMA ScanStep == ScanInv /\ [Next]_vars => ScanInv'
<1> SUFFICES ASSUME ScanInv, [Next]_vars PROVE ScanInv'
  OBVIOUS
<1> USE DEF ScanInv
<1>1. CASE Call
  BY <1>1, StealOrderCovers DEF Call
<1>2. CASE StealIt
  BY <1>2 DEF StealIt
<1>3. CASE Skip
  <2>1. /\ pc = "scan" /\ pc' = "scan" /\ i' = i + 1 /\ scons[i] \in busy
        /\ UNCHANGED <<scons, busy, idle_at_call>>
    BY <1>3 DEF Skip
  <2>2. scons[i] \notin idle_at_call
    BY <2>1
  <2>3. \A k \in 1..(i' - 1) : k \in 1..(i - 1) \/ k = i
    BY <2>1
  <2> QED
    BY <2>1, <2>2, <2>3
<1>4. CASE SleepAndTest
  <2>1. pc = "scan" /\ i > Len(scons) /\ UNCHANGED <<busy, scons, idle_at_call>>
    BY <1>4 DEF SleepAndTest
  <2>2. ASSUME NEW c \in idle_at_call PROVE FALSE
    <3>1. PICK j \in 1..Len(scons) : scons[j] = c
      BY <2>1
    <3>2. j \in 1..(i - 1)
      BY <2>1, <3>1
    <3> QED
      BY <2>1, <3>1, <3>2
  <2> QED
    BY <1>4, <2>1, <2>2 DEF SleepAndTest
<1>5. CASE Return
  BY <1>5 DEF Return
<1>6. ASSUME NEW c \in Workers, StartWork(c) \/ StopWork(c) PROVE ScanInv'
  BY <1>6 DEF StartWork, StopWork
<1>7. CASE UNCHANGED vars
  BY <1>7 DEF vars
<1> QED
  BY <1>1, <1>2, <1>3, <1>4, <1>5, <1>6, <1>7 DEF Next, Caller

\* ScanInv holds before the first call.
LEMMA ScanStart == Init => ScanInv
BY DEF Init, ScanInv

\* For every number of connections and every order in which the workers finish,
\* the connection that _get_connection steals comes after none that was idle
\* when the call began.
THEOREM TakesFirstIdleThm == Spec => []TakesFirstIdle
<1>1. ScanInv => TakesFirstIdle
  BY DEF ScanInv, TakesFirstIdle
<1> QED
  BY <1>1, ScanStart, ScanStep, PTL DEF Spec

\* For every number of connections, every timeout and every order in which the
\* workers finish, "max connection count reached" is thrown only when no
\* connection was idle at the call: the two loops that fill scons leave none
\* out, and none passed the scan by becoming idle and busy again.
THEOREM ThrowsOnlyIfAllBusyThm == Spec => []ThrowsOnlyIfAllBusy
<1>1. ScanInv => ThrowsOnlyIfAllBusy
  BY DEF ScanInv, ThrowsOnlyIfAllBusy
<1> QED
  BY <1>1, ScanStart, ScanStep, PTL DEF Spec
=============================================================================
