---------------------------- MODULE SchedulerFacts ---------------------------
(***************************************************************************)
(* What the operators of Schedulers answer, for every number of paths and  *)
(* every set of RTTs, goodputs and loss estimates: lemmas for              *)
(* SchedulersProofs.                                                       *)
(***************************************************************************)
EXTENDS Schedulers, FiniteFacts, FiniteSetTheorems, TLAPS

\* The provers for a step that names none, in turn, with their time limits in seconds.
USE SMTT(10), ZenonT(20), SMTT(40), ZenonT(60)

-----------------------------------------------------------------------------
(* Filtered lists *)

\* The intermediate results of Kept.
KeptBody(list, good, g, i) ==
  IF i = 0 THEN <<>> ELSE IF list[i] \in good THEN Append(g[i - 1], list[i]) ELSE g[i - 1]

KeptLoop(list, good, g) == g = [i \in 0..Len(list) |-> KeptBody(list, good, g, i)]

LEMMA KeptByLoop ==
  ASSUME NEW list, NEW good
  PROVE  Kept(list, good) = (CHOOSE g : KeptLoop(list, good, g))[Len(list)]
BY DEF Kept, KeptLoop, KeptBody

LEMMA KeptSolved ==
  ASSUME NEW list \in Seq(Paths), NEW good
  PROVE  \E g : KeptLoop(list, good, g)
<1> DEFINE n == Len(list)
           T == Seq(Paths)
           step == [s \in T |-> [i \in 1..n |->
                      IF list[i] \in good THEN Append(s, list[i]) ELSE s]]
<1>1. n \in Nat /\ <<>> \in T
  OBVIOUS
<1>2. step \in [T -> [1..n -> T]]
  <2>1. ASSUME NEW s \in T, NEW i \in 1..n
        PROVE  (IF list[i] \in good THEN Append(s, list[i]) ELSE s) \in T
    OBVIOUS
  <2>2. QED
    BY <2>1
<1>3. PICK g \in [0..n -> T] : Loop(<<>>, step, n, g)
  <2> HIDE DEF T, step, n
  <2> QED BY <1>1, <1>2, LoopSolved
<1>4. ASSUME NEW i \in 0..n PROVE LoopBody(<<>>, step, g, i) = KeptBody(list, good, g, i)
  <2>1. CASE i = 0
    BY <2>1 DEF LoopBody, KeptBody
  <2>2. CASE i # 0
    <3>1. i \in 1..n /\ g[i - 1] \in T
      BY <1>3, <2>2
    <3>2. step[g[i - 1]][i] = IF list[i] \in good THEN Append(g[i - 1], list[i]) ELSE g[i - 1]
      BY <3>1
    <3>3. QED
      BY <2>2, <3>2 DEF LoopBody, KeptBody
  <2>3. QED
    BY <2>1, <2>2
<1>5. g = [i \in 0..n |-> KeptBody(list, good, g, i)]
  <2>1. g = [i \in 0..n |-> LoopBody(<<>>, step, g, i)]
    BY <1>3 DEF Loop
  <2> HIDE DEF step
  <2>2. QED
    BY <1>4, <2>1
<1>6. QED
  BY <1>5 DEF KeptLoop

\* What the loop has kept after i rounds: the elements so far that are good, in
\* their order.
KeptSoFar(list, good, s, i) ==
  /\ s \in Seq(Paths) /\ Len(s) <= i
  /\ \A e : (\E k \in 1..Len(s) : s[k] = e) <=> (e \in good /\ \E j \in 1..i : list[j] = e)
  /\ Increasing(list) => Increasing(s)

LEMMA KeptRound ==
  ASSUME NEW list \in Seq(Paths), NEW good, NEW i \in 1..Len(list), NEW s,
         KeptSoFar(list, good, s, i - 1)
  PROVE  KeptSoFar(list, good, IF list[i] \in good THEN Append(s, list[i]) ELSE s, i)
<1>1. s \in Seq(Paths) /\ Len(s) <= i - 1 /\ Len(s) \in Nat /\ list[i] \in Paths
  BY DEF KeptSoFar
<1>2. CASE list[i] \notin good
  <2>1. ASSUME NEW e
        PROVE  (\E k \in 1..Len(s) : s[k] = e) <=> (e \in good /\ \E j \in 1..i : list[j] = e)
    <3>1. (\E k \in 1..Len(s) : s[k] = e) <=> (e \in good /\ \E j \in 1..(i - 1) : list[j] = e)
      BY DEF KeptSoFar
    <3>2. e \in good => ((\E j \in 1..i : list[j] = e) <=> (\E j \in 1..(i - 1) : list[j] = e))
      BY <1>2
    <3>3. QED
      BY <3>1, <3>2
  <2>2. QED
    BY <1>1, <1>2, <2>1 DEF KeptSoFar
<1>3. CASE list[i] \in good
  <2> DEFINE t == Append(s, list[i])
  <2>1. /\ t \in Seq(Paths) /\ Len(t) = Len(s) + 1 /\ t[Len(s) + 1] = list[i]
        /\ \A k \in 1..Len(s) : t[k] = s[k]
    BY <1>1
  <2> HIDE DEF t
  <2>2. ASSUME NEW e
        PROVE  (\E k \in 1..Len(t) : t[k] = e) <=> (e \in good /\ \E j \in 1..i : list[j] = e)
    <3>1. (\E k \in 1..Len(s) : s[k] = e) <=> (e \in good /\ \E j \in 1..(i - 1) : list[j] = e)
      BY DEF KeptSoFar
    <3>2. (\E k \in 1..Len(t) : t[k] = e) <=> (e = list[i] \/ \E k \in 1..Len(s) : s[k] = e)
      BY <1>1, <2>1
    <3>3. (\E j \in 1..i : list[j] = e) <=> (e = list[i] \/ \E j \in 1..(i - 1) : list[j] = e)
      OBVIOUS
    <3>4. QED
      BY <1>3, <3>1, <3>2, <3>3
  <2>3. ASSUME Increasing(list) PROVE Increasing(t)
    <3>1. ASSUME NEW k \in 1..Len(s) PROVE s[k] < list[i]
      <4>1. PICK j \in 1..(i - 1) : list[j] = s[k]
        BY DEF KeptSoFar
      <4>2. j \in 1..Len(list) /\ j < i
        OBVIOUS
      <4>3. QED
        BY <2>3, <4>1, <4>2 DEF Increasing
    <3>2. Increasing(s)
      BY <2>3 DEF KeptSoFar
    <3>3. QED
      BY <1>1, <2>1, <3>1, <3>2 DEF Increasing
  <2>4. Len(t) <= i
    BY <1>1, <2>1
  <2>5. KeptSoFar(list, good, t, i)
    BY <2>1, <2>2, <2>3, <2>4 DEF KeptSoFar
  <2>6. QED
    BY <1>3, <2>5 DEF t
<1>4. QED
  BY <1>2, <1>3

\* Kept keeps the good elements, in their order, and no others.
LEMMA KeptFacts ==
  ASSUME NEW list \in Seq(Paths), NEW good
  PROVE  /\ Kept(list, good) \in Seq(Paths)
         /\ Len(Kept(list, good)) \in Nat /\ Len(Kept(list, good)) <= Len(list)
         /\ Range(Kept(list, good)) = Range(list) \cap good
         /\ Increasing(list) => Increasing(Kept(list, good))
<1> DEFINE n == Len(list)
           g == CHOOSE f : KeptLoop(list, good, f)
           Bad == {i \in 0..n : ~KeptSoFar(list, good, g[i], i)}
<1>1. n \in Nat
  OBVIOUS
<1>2. \A i \in 0..n : g[i] = KeptBody(list, good, g, i)
  <2>1. KeptLoop(list, good, g)
    BY KeptSolved
  <2> HIDE DEF g
  <2>2. QED
    BY <2>1 DEF KeptLoop
<1> HIDE DEF g
<1>3. Bad = {}
  <2>1. SUFFICES ASSUME Bad # {} PROVE FALSE
    OBVIOUS
  <2>2. Bad \in SUBSET Nat
    BY <1>1
  <2>3. PICK i \in Bad : \A j \in Bad : i <= j
    <3> HIDE DEF Bad
    <3> QED BY <2>1, <2>2, LeastNumber
  <2>4. CASE i = 0
    <3>1. g[0] = <<>>
      BY <1>1, <1>2 DEF KeptBody
    <3>2. KeptSoFar(list, good, <<>>, 0)
      BY DEF KeptSoFar, Increasing
    <3>3. QED
      BY <2>3, <2>4, <3>1, <3>2
  <2>5. CASE i # 0
    <3>1. i \in 1..n /\ i - 1 \in 0..n
      BY <1>1, <2>3, <2>5
    <3>2. i - 1 \notin Bad
      <4> HIDE DEF Bad
      <4> QED BY <2>2, <2>3, <3>1
    <3>3. KeptSoFar(list, good, g[i - 1], i - 1)
      BY <3>1, <3>2
    <3>4. g[i] = IF list[i] \in good THEN Append(g[i - 1], list[i]) ELSE g[i - 1]
      BY <1>2, <2>5, <3>1 DEF KeptBody
    <3>5. KeptSoFar(list, good, g[i], i)
      BY <3>1, <3>3, <3>4, KeptRound
    <3>6. QED
      BY <2>3, <3>5
  <2>6. QED
    BY <2>4, <2>5
<1>4. Kept(list, good) = g[n]
  BY KeptByLoop DEF g
<1>5. KeptSoFar(list, good, g[n], n)
  BY <1>1, <1>3
<1> DEFINE r == g[n]
<1>6. KeptSoFar(list, good, r, n)
  BY <1>5
<1> HIDE DEF r
<1>7. Range(r) = Range(list) \cap good
  <2>1. r \in Seq(Paths) /\ \A e : e \in Range(r) <=> \E k \in 1..Len(r) : r[k] = e
    BY <1>6 DEF Range, KeptSoFar
  <2>2. \A e : e \in Range(list) <=> \E k \in 1..n : list[k] = e
    BY DEF Range
  <2>3. \A e : (\E k \in 1..Len(r) : r[k] = e) <=> (e \in good /\ \E j \in 1..n : list[j] = e)
    BY <1>6 DEF KeptSoFar
  <2>4. QED
    BY <2>1, <2>2, <2>3
<1>8. r \in Seq(Paths) /\ Len(r) \in Nat /\ Len(r) <= n /\ (Increasing(list) => Increasing(r))
  BY <1>6 DEF KeptSoFar
<1>9. QED
  BY <1>4, <1>7, <1>8 DEF r

-----------------------------------------------------------------------------
(* Smallest elements and rotations *)

\* The place after place b.
LEMMA NextPlace ==
  ASSUME NEW m \in Nat \ {0}, NEW b \in 0..(m - 1)
  PROVE  (b + 1) % m = IF b + 1 >= m THEN 0 ELSE b + 1
<1>1. CASE b + 1 < m
  BY <1>1
<1>2. CASE b + 1 = m
  BY <1>2
<1>3. QED
  BY <1>1, <1>2

\* How far place k is from place c in a rotation over n places.
Distance(c, k, n) == IF k >= c THEN k - c ELSE k - c + n

\* The rotation reaches every place once, at its distance from the start.
LEMMA RotationFacts ==
  ASSUME NEW n \in Nat \ {0}, NEW c \in 0..(n - 1)
  PROVE  /\ \A i \in 1..n : /\ Rotation(c, n)[i] \in 0..(n - 1)
                            /\ Distance(c, Rotation(c, n)[i], n) = i - 1
         /\ \A k \in 0..(n - 1) : /\ Distance(c, k, n) + 1 \in 1..n
                                  /\ Rotation(c, n)[Distance(c, k, n) + 1] = k
<1>1. ASSUME NEW i \in 1..n
      PROVE  Rotation(c, n)[i] = IF c + (i - 1) < n THEN c + (i - 1) ELSE c + (i - 1) - n
  <2>1. i - 1 \in 0..(n - 1) /\ c + i - 1 = c + (i - 1)
    OBVIOUS
  <2>2. Rotation(c, n)[i] = (c + (i - 1)) % n
    BY <2>1 DEF Rotation
  <2>3. c \in Nat /\ c % n = c
    BY Wraps
  <2>4. (c + (i - 1)) % n = IF (c % n) + (i - 1) < n THEN (c % n) + (i - 1) ELSE (c % n) + (i - 1) - n
    BY <2>1, <2>3, Wraps
  <2>5. QED
    BY <2>2, <2>3, <2>4
<1>2. ASSUME NEW k \in 0..(n - 1)
      PROVE  Distance(c, k, n) + 1 \in 1..n /\ Rotation(c, n)[Distance(c, k, n) + 1] = k
  <2>1. Distance(c, k, n) + 1 \in 1..n
    BY DEF Distance
  <2>2. QED
    BY <1>1, <2>1 DEF Distance
<1>3. ASSUME NEW i \in 1..n
      PROVE  Rotation(c, n)[i] \in 0..(n - 1) /\ Distance(c, Rotation(c, n)[i], n) = i - 1
  BY <1>1 DEF Distance
<1>4. QED
  BY <1>2, <1>3

HasRoom(v, p) == v[p].cond = "room"

\* FirstWithRoom finds the place with room that is nearest in the rotation, if any
\* path of the list has room.
LEMMA FirstWithRoomFacts ==
  ASSUME NEW v, NEW list \in Seq(Paths), NEW n \in Nat \ {0}, n = Len(list), NEW c \in 0..(n - 1)
  PROVE  \/ /\ FirstWithRoom(c, list, v) = n
            /\ \A k \in 0..(n - 1) : ~HasRoom(v, list[k + 1])
         \/ /\ FirstWithRoom(c, list, v) \in 0..(n - 1)
            /\ HasRoom(v, list[FirstWithRoom(c, list, v) + 1])
            /\ \A k \in 0..(n - 1) : HasRoom(v, list[k + 1]) =>
                 Distance(c, FirstWithRoom(c, list, v), n) <= Distance(c, k, n)
<1> DEFINE good == {i \in 1..n : v[list[Rotation(c, n)[i] + 1]].cond = "room"}
           at == FirstWithRoom(c, list, v)
<1>1. at = IF good = {} THEN n ELSE Rotation(c, n)[Min(good)]
  BY DEF FirstWithRoom
<1>2. CASE good = {}
  <2>1. ASSUME NEW k \in 0..(n - 1), HasRoom(v, list[k + 1]) PROVE FALSE
    <3> DEFINE d == Distance(c, k, n) + 1
    <3>1. d \in 1..n /\ Rotation(c, n)[d] = k
      BY RotationFacts
    <3>2. d \in good
      BY <2>1, <3>1 DEF HasRoom
    <3>3. QED
      BY <1>2, <3>2
  <2>2. QED
    BY <1>1, <1>2, <2>1
<1>3. CASE good # {}
  <2>1. good \in SUBSET Nat
    OBVIOUS
  <2>2. PICK i \in 1..n : i = Min(good) /\ i \in good /\ \A x \in good : i <= x
    <3>1. Min(good) \in good /\ \A x \in good : Min(good) <= x
      <4> HIDE DEF good
      <4> QED BY <1>3, <2>1, MinFacts
    <3>2. QED
      BY <3>1
  <2>3. at = Rotation(c, n)[i]
    BY <1>1, <1>3, <2>2
  <2>4. at \in 0..(n - 1) /\ Distance(c, at, n) = i - 1 /\ HasRoom(v, list[at + 1])
    <3>1. at \in 0..(n - 1) /\ Distance(c, at, n) = i - 1
      BY <2>3, RotationFacts
    <3>2. v[list[Rotation(c, n)[i] + 1]].cond = "room"
      BY <2>2
    <3>3. QED
      BY <2>3, <3>1, <3>2 DEF HasRoom
  <2>5. ASSUME NEW k \in 0..(n - 1), HasRoom(v, list[k + 1])
        PROVE  Distance(c, at, n) <= Distance(c, k, n)
    <3> DEFINE d == Distance(c, k, n) + 1
    <3>1. d \in 1..n /\ Rotation(c, n)[d] = k
      BY RotationFacts
    <3>2. d \in good
      BY <2>5, <3>1 DEF HasRoom
    <3>3. i <= d
      <4> HIDE DEF good, d
      <4> QED BY <2>2, <3>2
    <3>4. Distance(c, k, n) \in Int
      BY DEF Distance
    <3>5. QED
      BY <2>4, <3>3, <3>4
  <2>6. QED
    BY <2>4, <2>5
<1>4. QED
  BY <1>2, <1>3

-----------------------------------------------------------------------------
(* Lists of paths and views *)

LEMMA PathFacts == N \in Nat \ {0} /\ Paths \in SUBSET Int /\ NoPath \notin Paths
BY SchedAssumption DEF Paths, NoPath

LEMMA PathsFinite == IsFiniteSet(Paths) /\ Cardinality(Paths) = N
BY PathFacts, FS_Interval DEF Paths

\* The client's list, and every list of the relay, names each path at most once.
LEMMA ListFacts ==
  ASSUME NEW sd, NEW list \in ListsOf(sd)
  PROVE  list \in Seq(Paths) /\ Len(list) \in Nat /\ Len(list) <= N
<1>1. CASE list = ClientList
  BY <1>1, PathFacts DEF ClientList, Paths
<1>2. CASE list \in UNION {Injection(1..n, Paths) : n \in 0..N}
  <2>1. PICK n \in 0..N : list \in Injection(1..n, Paths)
    BY <1>2
  <2>2. list \in [1..n -> Paths] /\ n \in Nat /\ n <= N
    BY <2>1, PathFacts DEF Injection
  <2>3. QED
    BY <2>2
<1>3. QED
  BY <1>1, <1>2 DEF ListsOf

LEMMA ClientListFacts ==
  /\ ClientList \in Seq(Paths) /\ Len(ClientList) = N
  /\ Range(ClientList) = Paths /\ Increasing(ClientList)
<1>1. ClientList \in Seq(Paths) /\ Len(ClientList) = N /\ \A i \in 1..N : ClientList[i] = i
  BY PathFacts DEF ClientList, Paths
<1>2. Range(ClientList) = Paths
  BY <1>1 DEF Range, ClientList
<1>3. Increasing(ClientList)
  BY <1>1 DEF Increasing
<1>4. QED
  BY <1>1, <1>2, <1>3

\* A view as the schedulers read it.
View(v) ==
  \A p \in Paths :
    /\ v[p].cond \in {"out", "full", "room"}
    /\ v[p].rtt \in Nat /\ v[p].goodput \in Nat /\ v[p].loss \in Nat
    /\ v[p].rtt > 0 => 2 * v[p].rtt + TieMin < Unmeasured

LEMMA ViewFacts ==
  ASSUME NEW m, NEW v \in ViewsOf(m)
  PROVE  View(v)
<1> DEFINE measured(modes, values) == IF side = "client" /\ m \in modes THEN values ELSE {0}
           conds == IF m \in {"hol-aware", "parity"} THEN {"full", "room"} ELSE {"room"}
           rtts == measured(Modes \ {"round-robin", "weighted-goodput"}, RTTs)
           goodputs == measured({"weighted-goodput"}, Goodputs)
           losses == measured({"parity"}, LossRates)
<1>1. /\ conds \in SUBSET {"out", "full", "room"}
      /\ rtts \in SUBSET Nat /\ \A r \in rtts : r > 0 => 2 * r + TieMin < Unmeasured
      /\ goodputs \in SUBSET Nat /\ losses \in SUBSET Nat
  BY SchedAssumption
<1>2. v \in [Paths -> {Out} \cup [cond : conds, rtt : rtts, goodput : goodputs, loss : losses]]
  BY DEF ViewsOf
<1> HIDE DEF conds, rtts, goodputs, losses
<1>3. ASSUME NEW p \in Paths
      PROVE  /\ v[p].cond \in {"out", "full", "room"}
             /\ v[p].rtt \in Nat /\ v[p].goodput \in Nat /\ v[p].loss \in Nat
             /\ v[p].rtt > 0 => 2 * v[p].rtt + TieMin < Unmeasured
  <2>1. CASE v[p] = Out
    BY <2>1 DEF Out
  <2>2. CASE v[p] \in [cond : conds, rtt : rtts, goodput : goodputs, loss : losses]
    BY <1>1, <2>2
  <2>3. QED
    BY <1>2, <2>1, <2>2
<1>4. QED
  BY <1>3 DEF View

LEMMA RTTFacts ==
  ASSUME NEW v, View(v), NEW p \in Paths
  PROVE  /\ RTT(v, p) \in Nat
         /\ v[p].rtt = 0 => RTT(v, p) = Unmeasured
         /\ v[p].rtt > 0 => RTT(v, p) = v[p].rtt /\ 2 * RTT(v, p) + TieMin < Unmeasured
BY DEF View, RTT, Unmeasured

-----------------------------------------------------------------------------
(* The fastest paths *)

LEMMA FastestFacts ==
  ASSUME NEW v, View(v), NEW list \in Seq(Paths)
  PROVE  /\ FastestRTT(list, v) \in Nat /\ FastestRTT(list, v) <= Unmeasured
         /\ \A p \in Range(list) : FastestRTT(list, v) <= RTT(v, p)
         /\ \/ FastestRTT(list, v) = Unmeasured
            \/ \E p \in Range(list) : RTT(v, p) = FastestRTT(list, v)
<1> DEFINE S == {RTT(v, p) : p \in Range(list)} \cup {Unmeasured}
<1>1. Range(list) \in SUBSET Paths
  BY DEF Range
<1>2. S \in SUBSET Nat /\ S # {}
  BY <1>1, RTTFacts DEF Unmeasured
<1>3. Min(S) \in S /\ \A x \in S : Min(S) <= x
  <2> HIDE DEF S
  <2> QED BY <1>2, MinFacts
<1>4. FastestRTT(list, v) = Min(S)
  BY DEF FastestRTT
<1>5. PICK f \in S : f = Min(S) /\ \A x \in S : f <= x
  BY <1>3
<1>6. f \in Nat
  BY <1>2, <1>5
<1>7. f <= Unmeasured /\ \A p \in Range(list) : f <= RTT(v, p)
  BY <1>5
<1>8. QED
  BY <1>4, <1>5, <1>6, <1>7

\* The tie window above an RTT.
Window(f) == Max({(f * 15) \div 100, TieMin})
Close(f, r) == f >= Unmeasured \/ r <= f + Window(f)

LEMMA WindowFacts ==
  ASSUME NEW f \in Nat
  PROVE  Window(f) = IF (f * 15) \div 100 >= 2 THEN (f * 15) \div 100 ELSE 2
<1> DEFINE a == (f * 15) \div 100
<1>1. a \in Int
  OBVIOUS
<1> HIDE DEF a
<1>2. Max({a, 2}) = IF a >= 2 THEN a ELSE 2
  BY <1>1 DEF Max
<1>3. QED
  BY <1>2 DEF Window, TieMin, a

\* The window never shrinks as RTTs grow, and ends far below Unmeasured.
LEMMA CloseFacts ==
  ASSUME NEW f \in Nat, NEW g \in Nat, f <= g, NEW r \in Nat
  PROVE  /\ Close(f, r) => Close(g, r)
         /\ Close(f, f)
         /\ 2 * f + TieMin < Unmeasured => ~Close(f, Unmeasured)
<1>1. Window(f) \in Nat /\ Window(g) \in Nat /\ Window(f) <= Window(g)
  BY WindowFacts
<1>2. Window(f) <= f + 2
  BY WindowFacts
<1>3. QED
  BY <1>1, <1>2 DEF Close, Unmeasured, TieMin

LEMMA TiedSetIsClose ==
  ASSUME NEW v, View(v), NEW list \in Seq(Paths)
  PROVE  /\ FastestTiedSet(list, v) \in Seq(Paths)
         /\ Len(FastestTiedSet(list, v)) \in Nat /\ Len(FastestTiedSet(list, v)) <= Len(list)
         /\ Increasing(list) => Increasing(FastestTiedSet(list, v))
         /\ Range(FastestTiedSet(list, v)) =
              {p \in Range(list) : Close(FastestRTT(list, v), RTT(v, p))}
<1> DEFINE good == {p \in Paths : Close(FastestRTT(list, v), RTT(v, p))}
<1>1. FastestTiedSet(list, v) = Kept(list, good)
  BY DEF FastestTiedSet, Close, Window
<1>2. Range(list) \in SUBSET Paths
  BY DEF Range
<1>3. Range(list) \cap good = {p \in Range(list) : Close(FastestRTT(list, v), RTT(v, p))}
  BY <1>2
<1> HIDE DEF good
<1>4. QED
  BY <1>1, <1>3, KeptFacts

\* A path is tied with another if it is close to the faster of the two.
LEMMA TiedMeans ==
  ASSUME NEW v, View(v), NEW p \in Paths, NEW q \in Paths
  PROVE  Tied(p, q, v) <=> Close(FastestRTT(<<p, q>>, v), RTT(v, p))
<1>1. <<p, q>> \in Seq(Paths)
  OBVIOUS
<1>2. Range(<<p, q>>) = {p, q}
  BY DEF Range
<1>3. QED
  BY <1>1, <1>2, TiedSetIsClose DEF Tied

\* fastestTiedSet returns exactly the paths that are tied with every other one.
LEMMA TiedSetIsTied ==
  ASSUME NEW v, View(v), NEW list \in Seq(Paths)
  PROVE  Range(FastestTiedSet(list, v)) =
           {p \in Range(list) : \A q \in Range(list) : Tied(p, q, v)}
<1> DEFINE f == FastestRTT(list, v)
           two(p, q) == FastestRTT(<<p, q>>, v)
<1>1. Range(list) \in SUBSET Paths
  BY DEF Range
<1>2. f \in Nat /\ f <= Unmeasured /\ \A p \in Range(list) : f <= RTT(v, p)
  BY FastestFacts
<1>3. ASSUME NEW p \in Range(list), NEW q \in Range(list)
      PROVE  two(p, q) \in Nat /\ f <= two(p, q) /\ two(p, q) <= RTT(v, q)
  <2>1. p \in Paths /\ q \in Paths /\ <<p, q>> \in Seq(Paths) /\ Range(<<p, q>>) = {p, q}
    BY <1>1 DEF Range
  <2>2. /\ two(p, q) \in Nat /\ two(p, q) <= RTT(v, q)
        /\ two(p, q) = Unmeasured \/ two(p, q) = RTT(v, p) \/ two(p, q) = RTT(v, q)
    BY <2>1, FastestFacts
  <2>3. QED
    BY <1>2, <2>2
<1> HIDE DEF f, two
<1>4. ASSUME NEW p \in Range(list), Close(f, RTT(v, p)), NEW q \in Range(list)
      PROVE  Tied(p, q, v)
  <2>1. p \in Paths /\ q \in Paths /\ RTT(v, p) \in Nat
    BY <1>1, RTTFacts
  <2>2. Close(two(p, q), RTT(v, p))
    BY <1>2, <1>3, <1>4, <2>1, CloseFacts
  <2>3. QED
    BY <2>1, <2>2, TiedMeans DEF two
<1>5. ASSUME NEW p \in Range(list), \A q \in Range(list) : Tied(p, q, v)
      PROVE  Close(f, RTT(v, p))
  <2>1. CASE f = Unmeasured
    BY <2>1 DEF Close, Unmeasured
  <2>2. CASE f # Unmeasured
    <3>1. PICK q \in Range(list) : RTT(v, q) = f
      BY <2>2, FastestFacts DEF f
    <3>2. two(p, q) = f
      BY <1>2, <1>3, <3>1
    <3>3. p \in Paths /\ q \in Paths
      BY <1>1
    <3>4. QED
      BY <1>5, <3>2, <3>3, TiedMeans DEF two
  <2>3. QED
    BY <2>1, <2>2
<1>6. QED
  BY <1>4, <1>5, TiedSetIsClose DEF f

\* It is empty only for an empty list; if nothing is measured it holds all paths,
\* and else only measured ones.
LEMMA TiedSetFacts ==
  ASSUME NEW v, View(v), NEW list \in Seq(Paths)
  PROVE  /\ list # <<>> => FastestTiedSet(list, v) # <<>>
         /\ \/ Range(FastestTiedSet(list, v)) = Range(list)
            \/ \A p \in Range(FastestTiedSet(list, v)) : v[p].rtt > 0
<1> DEFINE f == FastestRTT(list, v)
           tiedList == FastestTiedSet(list, v)
<1>1. Range(list) \in SUBSET Paths
  BY DEF Range
<1>2. f \in Nat /\ f <= Unmeasured
  BY FastestFacts
<1>3. Range(tiedList) = {p \in Range(list) : Close(f, RTT(v, p))} /\ tiedList \in Seq(Paths)
  BY TiedSetIsClose
<1>4. CASE f = Unmeasured
  <2>1. Range(tiedList) = Range(list)
    BY <1>3, <1>4 DEF Close, Unmeasured
  <2>2. list # <<>> => Range(list) # {}
    BY DEF Range
  <2>3. tiedList = <<>> => Range(tiedList) = {}
    BY DEF Range
  <2>4. QED
    BY <2>1, <2>2, <2>3
<1>5. CASE f # Unmeasured
  <2>1. PICK q \in Range(list) : RTT(v, q) = f
    BY <1>5, FastestFacts
  <2>2. q \in Paths
    BY <1>1
  <2>3. 2 * f + TieMin < Unmeasured
    <3>1. v[q].rtt \in Nat
      BY <2>2 DEF View
    <3>2. v[q].rtt # 0
      BY <1>5, <2>1, <2>2, RTTFacts
    <3>3. QED
      BY <2>1, <2>2, <3>1, <3>2, RTTFacts
  <2>4. q \in Range(tiedList)
    BY <1>2, <1>3, <2>1, CloseFacts
  <2>5. tiedList # <<>>
    BY <2>4 DEF Range
  <2>6. ASSUME NEW p \in Range(tiedList) PROVE v[p].rtt > 0
    <3>1. p \in Paths /\ Close(f, RTT(v, p))
      BY <1>1, <1>3
    <3>2. RTT(v, p) # Unmeasured
      BY <1>2, <2>3, <3>1, CloseFacts DEF Unmeasured
    <3>3. v[p].rtt \in Nat /\ v[p].rtt # 0
      BY <3>1, <3>2, RTTFacts DEF View
    <3>4. QED
      BY <3>3
  <2>7. QED
    BY <2>5, <2>6
<1>6. QED
  BY <1>4, <1>5

-----------------------------------------------------------------------------
(* What each call of Next answers *)

LEMMA EligibleFacts ==
  ASSUME NEW v, NEW list \in Seq(Paths)
  PROVE  /\ EligiblePaths(list, v) \in Seq(Paths) /\ ActiveBondPaths(list, v) \in Seq(Paths)
         /\ Len(EligiblePaths(list, v)) <= Len(list) /\ Len(ActiveBondPaths(list, v)) <= Len(list)
         /\ Range(EligiblePaths(list, v)) = {p \in Range(list) : HasRoom(v, p)}
         /\ Range(ActiveBondPaths(list, v)) = {p \in Range(list) : v[p].cond # "out"}
         /\ Increasing(list) => /\ Increasing(EligiblePaths(list, v))
                                /\ Increasing(ActiveBondPaths(list, v))
<1>1. Range(list) \in SUBSET Paths
  BY DEF Range
<1> DEFINE good == {p \in Paths : v[p].cond = "room"}
           alive == {p \in Paths : v[p].cond # "out"}
<1>2. EligiblePaths(list, v) = Kept(list, good) /\ ActiveBondPaths(list, v) = Kept(list, alive)
  BY DEF EligiblePaths, ActiveBondPaths
<1>3. /\ Range(list) \cap good = {p \in Range(list) : HasRoom(v, p)}
      /\ Range(list) \cap alive = {p \in Range(list) : v[p].cond # "out"}
  BY <1>1 DEF HasRoom
<1> HIDE DEF good, alive
<1>4. QED
  BY <1>2, <1>3, KeptFacts

\* The elements of a list by their places.
LEMMA Places ==
  ASSUME NEW s \in Seq(Paths)
  PROVE  /\ \A i \in 1..Len(s) : s[i] \in Range(s) /\ s[i] \in Paths
         /\ \A p \in Range(s) : \E k \in 0..(Len(s) - 1) : s[k + 1] = p
         /\ s = <<>> <=> Range(s) = {}
         /\ s = <<>> <=> Len(s) = 0
<1>1. \A i \in 1..Len(s) : s[i] \in Range(s) /\ s[i] \in Paths
  BY DEF Range
<1>2. ASSUME NEW p \in Range(s) PROVE \E k \in 0..(Len(s) - 1) : s[k + 1] = p
  <2>1. PICK i \in 1..Len(s) : s[i] = p
    BY DEF Range
  <2>2. i - 1 \in 0..(Len(s) - 1) /\ (i - 1) + 1 = i
    OBVIOUS
  <2>3. QED
    BY <2>1, <2>2
<1>3. (s = <<>> <=> Range(s) = {}) /\ (s = <<>> <=> Len(s) = 0)
  BY DEF Range
<1>4. QED
  BY <1>1, <1>2, <1>3

\* A rotation over the paths of list from place c: it passes to the nearest path
\* with room and goes on behind it, or finds none and stays within the list.
Rotates(list, c, v, a) ==
  LET n == Len(list) IN
  \/ /\ \A k \in 0..(n - 1) : ~HasRoom(v, list[k + 1])
     /\ a.cursor \in 0..(n - 1)
  \/ \E at \in 0..(n - 1) :
       /\ a.pick = list[at + 1] /\ a.cursor = IF at + 1 >= n THEN 0 ELSE at + 1
       /\ \A k \in 0..(n - 1) : HasRoom(v, list[k + 1]) => Distance(c, at, n) <= Distance(c, k, n)

Start(c, n) == IF c >= n THEN 0 ELSE c

LEMMA SameRotation ==
  ASSUME NEW n \in Nat \ {0}, NEW c \in Nat
  PROVE  Rotation(c, n) = Rotation(c % n, n)
<1>1. PICK r \in 0..(n - 1) : r = c % n
  <2>1. 0 \in 0..(n - 1)
    OBVIOUS
  <2>2. QED
    BY <2>1, Wraps
<1>2. r \in Nat /\ r < n
  BY <1>1
<1>3. r % n = r
  BY <1>1, <1>2, Wraps
<1>4. ASSUME NEW i \in 1..n PROVE (c + i - 1) % n = (r + i - 1) % n
  <2>1. i - 1 \in 0..(n - 1) /\ c + i - 1 = c + (i - 1) /\ r + i - 1 = r + (i - 1)
    BY <1>2
  <2>2. (c + (i - 1)) % n = IF (c % n) + (i - 1) < n THEN (c % n) + (i - 1) ELSE (c % n) + (i - 1) - n
    BY <2>1, Wraps
  <2>3. (r + (i - 1)) % n = IF (r % n) + (i - 1) < n THEN (r % n) + (i - 1) ELSE (r % n) + (i - 1) - n
    BY <1>2, <2>1, Wraps
  <2>4. (c + (i - 1)) % n = (r + (i - 1)) % n
    BY <1>1, <1>3, <2>2, <2>3
  <2>5. QED
    BY <2>1, <2>4
<1>5. QED
  BY <1>1, <1>4 DEF Rotation

\* RoundRobin.Next
LEMMA RoundRobinFacts ==
  ASSUME NEW v, NEW list \in Seq(Paths), Len(list) <= N, cursor \in 0..(N - 1),
         NEW a \in RoundRobinNext(list, v)
  PROVE  /\ a.cursor \in 0..(N - 1) /\ a.credit = credit /\ a.lambda = lambda
         /\ \/ a.pick = NoPath /\ \A p \in Range(list) : ~HasRoom(v, p)
            \/ a.pick \in Range(list) /\ HasRoom(v, a.pick)
         /\ cursor < Len(list) => Rotates(list, cursor, v, a)
<1> DEFINE n == Len(list)
           at == FirstWithRoom(cursor, list, v)
<1>0. n \in Nat /\ cursor \in Nat /\ N \in Nat
  BY PathFacts
<1>1. a = IF at = n THEN NoAnswer
          ELSE Answer(list[at + 1], IF at + 1 >= n THEN 0 ELSE at + 1, credit, lambda)
  BY DEF RoundRobinNext
<1>2. CASE n = 0
  <2>1. at = 0
    BY <1>2 DEF FirstWithRoom
  <2>2. a = NoAnswer
    BY <1>1, <1>2, <2>1
  <2>3. Range(list) = {}
    BY <1>2, Places
  <2>4. QED
    BY <1>0, <1>2, <2>2, <2>3 DEF NoAnswer, Answer
<1>3. CASE n # 0
  <2>1. n \in Nat \ {0} /\ cursor % n \in 0..(n - 1) /\ (cursor < n => cursor % n = cursor)
    <3>1. n \in Nat \ {0} /\ 0 \in 0..(n - 1)
      BY <1>0, <1>3
    <3>2. QED
      BY <1>0, <3>1, Wraps
  <2>2. at = FirstWithRoom(cursor % n, list, v)
    BY <1>0, <2>1, SameRotation DEF FirstWithRoom
  <2>3. \/ at = n /\ \A k \in 0..(n - 1) : ~HasRoom(v, list[k + 1])
        \/ /\ at \in 0..(n - 1) /\ HasRoom(v, list[at + 1])
           /\ \A k \in 0..(n - 1) : HasRoom(v, list[k + 1]) =>
                Distance(cursor % n, at, n) <= Distance(cursor % n, k, n)
    BY <2>1, <2>2, FirstWithRoomFacts
  <2> HIDE DEF at
  <2>4. CASE at = n
    <3>1. \A k \in 0..(n - 1) : ~HasRoom(v, list[k + 1])
      BY <2>1, <2>3, <2>4
    <3>2. \A p \in Range(list) : ~HasRoom(v, p)
      BY <3>1, Places
    <3>3. a.pick = NoPath /\ a.cursor = cursor /\ a.credit = credit /\ a.lambda = lambda
      BY <1>1, <2>4 DEF NoAnswer, Answer
    <3>4. QED
      BY <1>0, <3>1, <3>2, <3>3 DEF Rotates
  <2>5. CASE at # n
    <3>1. /\ a.pick = list[at + 1] /\ a.cursor = IF at + 1 >= n THEN 0 ELSE at + 1
          /\ a.credit = credit /\ a.lambda = lambda
      BY <1>1, <2>5 DEF Answer
    <3>2. at \in 0..(n - 1) /\ HasRoom(v, list[at + 1]) /\ at + 1 \in 1..n
      BY <2>3, <2>5
    <3>3. a.pick \in Range(list) /\ HasRoom(v, a.pick)
      BY <3>1, <3>2, Places
    <3>4. a.cursor \in 0..(N - 1)
      BY <1>0, <3>1, <3>2
    <3>5. ASSUME cursor < n PROVE Rotates(list, cursor, v, a)
      BY <2>1, <2>3, <2>5, <3>1, <3>2, <3>5 DEF Rotates
    <3>6. QED
      BY <3>1, <3>3, <3>4, <3>5
  <2>6. QED
    BY <2>4, <2>5
<1>4. QED
  BY <1>2, <1>3

\* MinRTTCwnd.Next
LEMMA MinRTTCwndFacts ==
  ASSUME NEW v, View(v), NEW list \in Seq(Paths), Len(list) <= N, cursor \in 0..(N - 1),
         NEW a \in MinRTTCwndNext(list, v)
  PROVE  LET elig == EligiblePaths(list, v)
             primary == FastestTiedSet(elig, v) IN
         /\ a.cursor \in 0..(N - 1) /\ a.credit = credit /\ a.lambda = lambda
         /\ \/ a.pick = NoPath /\ elig = <<>>
            \/ a.pick \in Range(primary)
         /\ primary # <<>> => Rotates(primary, Start(cursor, Len(primary)), v, a)
<1> DEFINE elig == EligiblePaths(list, v)
           primary == FastestTiedSet(elig, v)
           n == Len(primary)
           at == IF cursor >= n THEN 0 ELSE cursor
<1>0. cursor \in Nat /\ N \in Nat /\ Len(list) \in Nat
  BY PathFacts
<1>1. elig \in Seq(Paths) /\ Len(elig) <= Len(list) /\ Len(elig) \in Nat
  BY EligibleFacts
<1>2. primary \in Seq(Paths) /\ n \in Nat /\ n <= Len(elig) /\ (elig # <<>> => primary # <<>>)
  <2> HIDE DEF elig
  <2> QED BY <1>1, TiedSetIsClose, TiedSetFacts
<1>3. a = IF primary = <<>> THEN NoAnswer
          ELSE Answer(primary[at + 1], (at + 1) % n, credit, lambda)
  BY DEF MinRTTCwndNext
<1> HIDE DEF elig, primary
<1>4. CASE primary = <<>>
  BY <1>2, <1>3, <1>4 DEF NoAnswer, Answer, elig, primary
<1>5. CASE primary # <<>>
  <2>1. n # 0 /\ n <= N
    BY <1>0, <1>1, <1>2, <1>5, Places
  <2>2. at \in 0..(n - 1) /\ at = Start(cursor, n) /\ at + 1 \in 1..n
    BY <1>0, <1>2, <2>1 DEF Start
  <2> HIDE DEF at
  <2>3. (at + 1) % n = IF at + 1 >= n THEN 0 ELSE at + 1
    <3>1. PICK m \in Nat \ {0} : m = n
      BY <1>2, <2>1
    <3>2. PICK b \in 0..(m - 1) : b = at
      BY <2>2, <3>1
    <3>3. (b + 1) % m = IF b + 1 >= m THEN 0 ELSE b + 1
      BY NextPlace
    <3>4. QED
      BY <3>1, <3>2, <3>3
  <2>4. /\ a.pick = primary[at + 1] /\ a.cursor = IF at + 1 >= n THEN 0 ELSE at + 1
        /\ a.credit = credit /\ a.lambda = lambda
    BY <1>3, <1>5, <2>3 DEF Answer
  <2>5. a.cursor \in 0..(N - 1)
    BY <1>0, <1>2, <2>1, <2>2, <2>4
  <2>6. a.pick \in Range(primary)
    BY <1>2, <2>2, <2>4, Places
  <2>7. \A k \in 0..(n - 1) : Distance(at, at, n) <= Distance(at, k, n)
    BY <1>2, <2>2 DEF Distance
  <2>8. Rotates(primary, at, v, a)
    BY <2>2, <2>4, <2>7 DEF Rotates
  <2>9. QED
    BY <1>5, <2>2, <2>4, <2>5, <2>6, <2>8 DEF elig, primary
<1>6. QED
  BY <1>4, <1>5

\* Tier 4's strictness stays between its bounds.
LEMMA LambdaFacts ==
  ASSUME lambda \in LambdaMin..LambdaMax
  PROVE  Decayed \in LambdaMin..LambdaMax /\ Raised \in LambdaMin..LambdaMax
<1> DEFINE d == (lambda * Decay) \div 100
           r == (lambda * Raise) \div 100
<1>1. /\ LambdaMin \in Nat /\ LambdaMax \in Nat /\ Decay \in 0..100 /\ Raise \in Nat /\ Raise >= 100
      /\ lambda \in Nat /\ LambdaMin <= lambda /\ lambda <= LambdaMax
  BY SchedAssumption
<1>2. lambda * Decay \in Nat /\ lambda * Decay <= lambda * 100
  BY <1>1
<1>3. lambda * Raise \in Nat /\ lambda * Raise >= lambda * 100
  BY <1>1
<1>4. d \in Nat /\ d <= lambda
  BY <1>1, <1>2
<1>5. r \in Nat /\ r >= lambda
  BY <1>1, <1>3
<1> HIDE DEF d, r
<1>6. Max({LambdaMin, d}) = IF LambdaMin >= d THEN LambdaMin ELSE d
  BY <1>1, <1>4 DEF Max
<1>7. Min({LambdaMax, r}) = IF LambdaMax <= r THEN LambdaMax ELSE r
  BY <1>1, <1>5 DEF Min
<1>8. Decayed = Max({LambdaMin, d}) /\ Raised = Min({LambdaMax, r})
  BY DEF Decayed, Raised, d, r
<1>9. QED
  BY <1>1, <1>4, <1>5, <1>6, <1>7, <1>8

\* A list that is not empty has a first path of least RTT.
FirstFastest(s, v) ==
  Min({i \in 1..Len(s) : \A j \in 1..Len(s) : RTT(v, s[i]) <= RTT(v, s[j])})

LEMMA FirstFastestFacts ==
  ASSUME NEW v, View(v), NEW s \in Seq(Paths), s # <<>>
  PROVE  FirstFastest(s, v) \in 1..Len(s)
<1> DEFINE R == {RTT(v, s[i]) : i \in 1..Len(s)}
           I == {i \in 1..Len(s) : \A j \in 1..Len(s) : RTT(v, s[i]) <= RTT(v, s[j])}
<1>1. Len(s) \in Nat /\ 1 \in 1..Len(s)
  OBVIOUS
<1>2. \A i \in 1..Len(s) : RTT(v, s[i]) \in Nat
  BY RTTFacts
<1>3. R \in SUBSET Nat /\ R # {}
  BY <1>1, <1>2
<1>4. PICK r \in R : \A x \in R : r <= x
  <2> HIDE DEF R
  <2> QED BY <1>3, LeastNumber
<1>5. PICK i \in 1..Len(s) : r = RTT(v, s[i])
  BY <1>4
<1>6. i \in I
  BY <1>4, <1>5
<1>7. I \in SUBSET Nat /\ I # {}
  BY <1>6
<1>8. Min(I) \in I
  <2> HIDE DEF I
  <2> QED BY <1>7, MinFacts
<1>9. QED
  BY <1>8 DEF FirstFastest

\* HoLAware.Next
LEMMA HoLAwareFacts ==
  ASSUME NEW v, View(v), NEW list \in Seq(Paths), Len(list) <= N, cursor \in 0..(N - 1),
         lambda \in LambdaMin..LambdaMax, NEW a \in HoLAwareNext(list, v)
  PROVE  LET bond == ActiveBondPaths(list, v)
             primary == FastestTiedSet(bond, v) IN
         /\ a.cursor \in 0..(N - 1) /\ a.credit = credit /\ a.lambda \in LambdaMin..LambdaMax
         /\ \/ bond = <<>> /\ a.pick = NoPath
            \/ a.pick \in Range(primary) /\ HasRoom(v, a.pick)
            \/ /\ \A p \in Range(primary) : ~HasRoom(v, p)
               /\ \/ a.pick = NoPath
                  \/ /\ a.pick \in Range(bond) \ Range(primary) /\ HasRoom(v, a.pick)
                     /\ RTT(v, a.pick) >= Unmeasured => lambda >= 100
         /\ primary # <<>> => Rotates(primary, Start(cursor, Len(primary)), v, a)
<1> DEFINE bond == ActiveBondPaths(list, v)
           primary == FastestTiedSet(bond, v)
           n == Len(primary)
           from == IF cursor >= n THEN 0 ELSE cursor
           at == FirstWithRoom(from, primary, v)
           room == {p \in Paths : v[p].cond = "room"} \ Range(primary)
           slower == Kept(bond, room)
           slow == slower[FirstFastest(slower, v)]
<1>0. cursor \in Nat /\ N \in Nat /\ Len(list) \in Nat
  BY PathFacts
<1>1. bond \in Seq(Paths) /\ Len(bond) <= Len(list) /\ Len(bond) \in Nat
  BY EligibleFacts
<1>2. primary \in Seq(Paths) /\ n \in Nat /\ n <= Len(bond) /\ (bond # <<>> => primary # <<>>)
  <2> HIDE DEF bond
  <2> QED BY <1>1, TiedSetIsClose, TiedSetFacts
<1>3. slower \in Seq(Paths) /\ Range(slower) = Range(bond) \cap room
  <2> HIDE DEF bond, room
  <2> QED BY <1>1, KeptFacts
<1>4. HoLAwareNext(list, v) =
        IF bond = <<>> THEN {NoAnswer}
        ELSE IF at < n
          THEN {Answer(primary[at + 1], IF at + 1 >= n THEN 0 ELSE at + 1, credit, Decayed)}
        ELSE IF slower = <<>> THEN {Answer(NoPath, from, credit, lambda)}
        ELSE {IF first THEN Answer(slow, from, credit, Decayed)
              ELSE Answer(NoPath, from, credit, Raised) :
                first \in SlowArrivesFirst(RTT(v, slow), FastestRTT(bond, v))}
  BY DEF HoLAwareNext, FirstFastest
<1>5. Decayed \in LambdaMin..LambdaMax /\ Raised \in LambdaMin..LambdaMax
  BY LambdaFacts
<1> HIDE DEF bond, primary, slower, slow, room
<1>6. CASE bond = <<>>
  <2>1. a = NoAnswer
    BY <1>4, <1>6
  <2>2. primary = <<>>
    BY <1>1, <1>2, <1>6, Places
  <2>3. QED
    BY <1>6, <2>1, <2>2 DEF NoAnswer, Answer, bond, primary
<1>7. CASE bond # <<>>
  <2>1. n \in Nat \ {0} /\ n <= N /\ primary # <<>>
    BY <1>0, <1>1, <1>2, <1>7, Places
  <2>2. from \in 0..(n - 1) /\ from = Start(cursor, n) /\ from \in 0..(N - 1)
    BY <1>0, <2>1 DEF Start
  <2> HIDE DEF from
  <2>3. \/ at = n /\ \A k \in 0..(n - 1) : ~HasRoom(v, primary[k + 1])
        \/ /\ at \in 0..(n - 1) /\ HasRoom(v, primary[at + 1])
           /\ \A k \in 0..(n - 1) : HasRoom(v, primary[k + 1]) =>
                Distance(from, at, n) <= Distance(from, k, n)
    BY <1>2, <2>1, <2>2, FirstWithRoomFacts
  <2> HIDE DEF at
  <2>4. CASE at # n
    <3>1. at \in 0..(n - 1) /\ at < n /\ at + 1 \in 1..n /\ HasRoom(v, primary[at + 1])
      BY <2>1, <2>3, <2>4
    <3>2. /\ a.pick = primary[at + 1] /\ a.cursor = IF at + 1 >= n THEN 0 ELSE at + 1
          /\ a.credit = credit /\ a.lambda = Decayed
      BY <1>4, <1>7, <3>1 DEF Answer
    <3>3. a.pick \in Range(primary) /\ HasRoom(v, a.pick)
      BY <1>2, <3>1, <3>2, Places
    <3>4. a.cursor \in 0..(N - 1)
      BY <1>0, <2>1, <3>1, <3>2
    <3>5. Rotates(primary, from, v, a)
      BY <2>3, <2>4, <3>1, <3>2 DEF Rotates
    <3>6. QED
      BY <1>5, <2>2, <3>2, <3>3, <3>4, <3>5 DEF bond, primary
  <2>5. CASE at = n
    <3>1. \A k \in 0..(n - 1) : ~HasRoom(v, primary[k + 1])
      BY <2>1, <2>3, <2>5
    <3>2. \A p \in Range(primary) : ~HasRoom(v, p)
      BY <1>2, <3>1, Places
    <3>3. /\ a.cursor = from /\ a.credit = credit /\ a.lambda \in LambdaMin..LambdaMax
          /\ \/ a.pick = NoPath
             \/ /\ a.pick \in Range(bond) \ Range(primary) /\ HasRoom(v, a.pick)
                /\ RTT(v, a.pick) >= Unmeasured => lambda >= 100
      <4>1. CASE slower = <<>>
        <5>1. a = Answer(NoPath, from, credit, lambda)
          BY <1>4, <1>7, <2>1, <2>5, <4>1
        <5>2. QED
          BY <5>1 DEF Answer
      <4>2. CASE slower # <<>>
        <5>1. slow \in Range(slower) /\ slow \in Paths
          BY <1>3, <4>2, FirstFastestFacts, Places DEF slow
        <5>2. slow \in Range(bond) \ Range(primary) /\ HasRoom(v, slow)
          BY <1>3, <5>1 DEF room, HasRoom
        <5>3. PICK first \in SlowArrivesFirst(RTT(v, slow), FastestRTT(bond, v)) :
                a = IF first THEN Answer(slow, from, credit, Decayed)
                    ELSE Answer(NoPath, from, credit, Raised)
          BY <1>4, <1>7, <2>1, <2>5, <4>2
        <5>4. CASE first
          <6>1. a.pick = slow /\ a.cursor = from /\ a.credit = credit /\ a.lambda = Decayed
            BY <5>3, <5>4 DEF Answer
          <6>2. RTT(v, slow) >= Unmeasured => lambda >= 100
            <7>1. RTT(v, slow) \in Nat
              BY <5>1, RTTFacts
            <7>2. ASSUME RTT(v, slow) >= Unmeasured, ~(lambda >= 100) PROVE FALSE
              <8>1. ~(RTT(v, slow) < Unmeasured)
                BY <7>1, <7>2 DEF Unmeasured
              <8>2. first \in {FALSE}
                BY <5>3, <7>2, <8>1 DEF SlowArrivesFirst
              <8>3. QED
                BY <5>4, <8>2
            <7>3. QED
              BY <7>2
          <6>3. QED
            BY <1>5, <5>2, <6>1, <6>2
        <5>5. CASE ~first
          BY <1>5, <5>3, <5>5 DEF Answer
        <5>6. QED
          BY <5>4, <5>5
      <4>3. QED
        BY <4>1, <4>2
    <3>4. Rotates(primary, from, v, a)
      BY <2>2, <3>1, <3>3 DEF Rotates
    <3>5. QED
      BY <2>2, <3>2, <3>3, <3>4 DEF bond, primary
  <2>6. QED
    BY <2>4, <2>5
<1>8. QED
  BY <1>6, <1>7

-----------------------------------------------------------------------------
(* Weighted goodput *)

LEMMA WeightFacts ==
  ASSUME NEW v, View(v), NEW E \in SUBSET Paths, NEW p \in Paths
  PROVE  WeightOf(E, v, p) \in Nat
<1> DEFINE positive == {v[q].goodput : q \in E} \ {0}
<1>1. positive \in SUBSET (Nat \ {0})
  BY DEF View
<1>2. v[p].goodput \in Nat
  BY DEF View
<1>3. CASE positive = {}
  BY <1>3 DEF WeightOf
<1>4. CASE positive # {}
  <2> HIDE DEF positive
  <2>1. Min(positive) \in Nat \ {0}
    <3>1. positive \in SUBSET Nat
      BY <1>1
    <3>2. QED
      BY <1>1, <1>4, <3>1, MinFacts
  <2>2. v[p].goodput \div Min(positive) \in Nat
    BY <1>2, <2>1
  <2>3. QED
    BY <1>4, <2>2 DEF WeightOf, positive
<1>5. QED
  BY <1>3, <1>4

\* No two goodputs of a view are further apart than MaxWeight allows.
Rated(v) ==
  \A p, q \in Paths : v[p].goodput > 0 /\ v[q].goodput > 0 =>
    v[p].goodput <= MaxWeight * v[q].goodput

LEMMA ViewRated ==
  ASSUME NEW m, NEW v \in ViewsOf(m)
  PROVE  Rated(v)
<1>1. ASSUME NEW p \in Paths PROVE v[p].goodput \in Goodputs \cup {0}
  <2>1. \/ v[p] = Out
        \/ \E values \in {Goodputs, {0}} : v[p].goodput \in values
    BY DEF ViewsOf
  <2>2. QED
    BY <2>1 DEF Out
<1>2. \A g, h \in Goodputs \ {0} : g <= MaxWeight * h
  BY SchedAssumption
<1>3. ASSUME NEW p \in Paths, NEW q \in Paths, v[p].goodput > 0, v[q].goodput > 0
      PROVE  v[p].goodput <= MaxWeight * v[q].goodput
  <2>1. v[p].goodput \in Goodputs \ {0} /\ v[q].goodput \in Goodputs \ {0}
    BY <1>1, <1>3
  <2>2. QED
    BY <1>2, <2>1
<1>4. QED
  BY <1>3 DEF Rated

\* A path that has room earns between 1 and MaxWeight.
LEMMA WeightBound ==
  ASSUME NEW v, View(v), Rated(v), NEW E \in SUBSET Paths, NEW p \in E
  PROVE  WeightOf(E, v, p) \in 1..MaxWeight
<1> DEFINE positive == {v[q].goodput : q \in E} \ {0}
<1>1. positive \in SUBSET (Nat \ {0}) /\ v[p].goodput \in Nat /\ MaxWeight \in Nat \ {0}
  BY SchedAssumption DEF View
<1>2. CASE positive = {} \/ v[p].goodput <= 0
  BY <1>1, <1>2 DEF WeightOf
<1>3. CASE positive # {} /\ v[p].goodput > 0
  <2>1. v[p].goodput \in positive
    BY <1>1, <1>3
  <2>2. \A h \in positive : v[p].goodput <= MaxWeight * h
    <3>1. ASSUME NEW h \in positive PROVE v[p].goodput <= MaxWeight * h
      <4>1. PICK q \in E : h = v[q].goodput /\ h # 0
        OBVIOUS
      <4>2. v[q].goodput > 0
        <5>1. v[q].goodput \in Nat
          BY DEF View
        <5>2. v[q].goodput # 0
          BY <4>1
        <5>3. QED
          BY <5>1, <5>2
      <4>3. v[p].goodput <= MaxWeight * v[q].goodput
        BY <1>3, <4>2 DEF Rated
      <4>4. QED
        BY <4>1, <4>3
    <3>2. QED
      BY <3>1
  <2>3. WeightOf(E, v, p) = v[p].goodput \div Min(positive)
    BY <1>1, <1>3 DEF WeightOf
  <2> HIDE DEF positive
  <2>4. Min(positive) \in positive /\ Min(positive) <= v[p].goodput
    <3>1. positive \in SUBSET Nat
      BY <1>1
    <3>2. QED
      BY <1>3, <2>1, <3>1, MinFacts
  <2>5. PICK g \in Nat, h \in Nat \ {0} : g = v[p].goodput /\ h = Min(positive)
    BY <1>1, <2>4
  <2>6. g \div h \in 1..MaxWeight
    BY <1>1, <2>2, <2>4, <2>5, Quotient
  <2>7. QED
    BY <2>3, <2>5, <2>6
<1>4. QED
  BY <1>1, <1>2, <1>3

Weights(E, v) == [p \in Paths |-> WeightOf(E, v, p)]
\* WeightedGoodput.Next
LEMMA WeightedFacts ==
  ASSUME NEW v, View(v), NEW list \in Seq(Paths), credit \in [Paths -> Int],
         NEW a \in WeightedGoodputNext(list, v)
  PROVE  /\ a.cursor = cursor /\ a.lambda = lambda /\ a.credit \in [Paths -> Int]
         /\ \/ a.pick = NoPath /\ EligiblePaths(list, v) = <<>> /\ a.credit = credit
            \/ /\ a.pick \in Range(EligiblePaths(list, v))
               /\ Turn(Paths, credit, Weights(Range(EligiblePaths(list, v)), v),
                       Range(EligiblePaths(list, v)), a.pick, a.credit)
         /\ SumFunctionOnSet(a.credit, Paths) = SumFunctionOnSet(credit, Paths)
<1> DEFINE elig == EligiblePaths(list, v)
           E == Range(elig)
           n == Len(elig)
           w == Weights(E, v)
           total == SumFunctionOnSet(w, E)
           cw(p) == credit[p] + WeightOf(E, v, p)
           best == elig[Min({i \in 1..n : \A j \in 1..n : cw(elig[j]) <= cw(elig[i])})]
           new == [p \in Paths |-> IF p = best THEN cw(p) - total
                                   ELSE IF p \in E THEN cw(p) ELSE credit[p]]
<1>1. elig \in Seq(Paths) /\ E \in SUBSET Paths /\ n \in Nat
  BY EligibleFacts DEF Range
<1>2. a = IF elig = <<>> THEN NoAnswer ELSE Answer(best, cursor, new, lambda)
  BY DEF WeightedGoodputNext, Weights
<1>3. \A p \in Paths : WeightOf(E, v, p) \in Nat
  <2> HIDE DEF E
  <2> QED BY <1>1, WeightFacts
<1> HIDE DEF elig, E
<1>4. CASE elig = <<>>
  BY <1>2, <1>4 DEF NoAnswer, Answer, elig
<1>5. CASE elig # <<>>
  <2>1. n \in Nat \ {0}
    BY <1>1, <1>5
  <2>2. best \in E /\ \A p \in E : cw(p) <= cw(best)
    <3> DEFINE f == [i \in 1..n |-> cw(elig[i])]
    <3>1. f \in [1..n -> Int]
      BY <1>1, <1>3
    <3>2. {i \in 1..n : \A j \in 1..n : f[j] <= f[i]} =
          {i \in 1..n : \A j \in 1..n : cw(elig[j]) <= cw(elig[i])}
      OBVIOUS
    <3>3. Min({i \in 1..n : \A j \in 1..n : f[j] <= f[i]}) \in
            {i \in 1..n : \A j \in 1..n : f[j] <= f[i]}
      <4> HIDE DEF f
      <4> QED BY <2>1, <3>1, FirstRichest
    <3>4. PICK i \in 1..n : best = elig[i] /\ \A j \in 1..n : cw(elig[j]) <= cw(elig[i])
      BY <3>2, <3>3
    <3>5. best \in E /\ \A p \in E : \E j \in 1..n : p = elig[j]
      BY <1>1, <3>4 DEF E, Range
    <3> HIDE DEF best, cw
    <3>6. QED
      BY <3>4, <3>5
  <2> HIDE DEF best
  <2>3. w \in [Paths -> Nat] /\ total \in Int
    <3>1. w \in [Paths -> Nat]
      BY <1>3 DEF Weights
    <3>2. IsFiniteSet(E)
      BY <1>1, PathsFinite, FS_Subset
    <3>3. \A p \in E : w[p] \in Int
      BY <1>1, <3>1
    <3> HIDE DEF w
    <3>4. QED
      BY <3>1, <3>2, <3>3, SumType
  <2>4. \A p \in Paths : w[p] = WeightOf(E, v, p)
    BY DEF Weights
  <2> HIDE DEF w, total
  <2>5. new \in [Paths -> Int]
    BY <1>3, <2>3
  <2>6. Paid(Paths, credit, w, E, best, total, new)
    <3>1. ASSUME NEW p \in Paths
          PROVE  new[p] = IF p = best THEN (credit[p] + w[p]) - total
                          ELSE IF p \in E THEN credit[p] + w[p] ELSE credit[p]
      <4>1. new[p] = IF p = best THEN cw(p) - total ELSE IF p \in E THEN cw(p) ELSE credit[p]
        OBVIOUS
      <4>2. cw(p) = credit[p] + w[p]
        BY <2>4
      <4> HIDE DEF cw, new
      <4>3. QED
        BY <4>1, <4>2
    <3>2. QED
      BY <3>1 DEF Paid
  <2>7. a.pick = best /\ a.cursor = cursor /\ a.credit = new /\ a.lambda = lambda
    BY <1>2, <1>5 DEF Answer
  <2> HIDE DEF new
  <2>8. Turn(Paths, credit, w, E, best, new)
    <3>1. \A p \in E : credit[p] + w[p] <= credit[best] + w[best]
      BY <1>1, <2>2, <2>4
    <3>2. best \in E
      BY <2>2
    <3>3. QED
      BY <1>1, <2>3, <2>5, <2>6, <3>1, <3>2 DEF Turn, total
  <2>9. SumFunctionOnSet(new, Paths) = SumFunctionOnSet(credit, Paths)
    <3>1. IsFiniteSet(Paths)
      BY PathsFinite
    <3>2. QED
      BY <2>8, <3>1, CreditsMove
  <2>10. QED
    BY <2>2, <2>5, <2>7, <2>8, <2>9 DEF E, elig, w
<1>6. QED
  BY <1>4, <1>5

-----------------------------------------------------------------------------
(* How far the credits drift apart *)

\* The most that a call pays out: the total weight of N paths.
Pay == MaxWeight * N

\* Any k paths together are owed at most k * (N - k) half pays.
Owed(cr) == Drift(Paths, N, Pay, cr)

LEMMA PayFacts == Pay \in Nat /\ Spread = Pay * (N - 1) /\ Spread \in Nat
<1>1. MaxWeight \in Nat /\ N \in Nat /\ N - 1 \in Nat
  BY SchedAssumption
<1>2. Pay \in Nat
  BY <1>1 DEF Pay
<1>3. Spread = Pay * (N - 1)
  BY DEF Spread, Pay
<1>4. QED
  BY <1>1, <1>2, <1>3

\* Every credit is half a Spread from zero at most.
LEMMA CreditsApart ==
  ASSUME NEW cr \in [Paths -> Int], Owed(cr), SumFunctionOnSet(cr, Paths) = 0, NEW p \in Paths
  PROVE  2 * cr[p] \in -Spread..Spread
<1>1. Drift(Paths, N, Pay, cr) /\ N \in Nat \ {0} /\ Pay \in Nat /\ Spread \in Nat
  BY PathFacts, PayFacts DEF Owed
<1>2. QED
  BY <1>1, PathsFinite, PayFacts, CreditIsBounded

\* WeightedGoodput.Next keeps the credits close, and what it passes over earns.
LEMMA WeightedDrifts ==
  ASSUME NEW v, View(v), Rated(v), NEW list \in Seq(Paths), credit \in [Paths -> Int],
         Owed(credit), NEW a \in WeightedGoodputNext(list, v)
  PROVE  /\ Owed(a.credit)
         /\ \A p \in Range(EligiblePaths(list, v)) : a.pick # p => a.credit[p] >= credit[p] + 1
<1> DEFINE elig == EligiblePaths(list, v)
           E == Range(elig)
           w == Weights(E, v)
<1>1. elig \in Seq(Paths) /\ E \in SUBSET Paths
  BY EligibleFacts DEF Range
<1>2. /\ a.credit \in [Paths -> Int]
      /\ \/ a.pick = NoPath /\ elig = <<>> /\ a.credit = credit
         \/ a.pick \in E /\ Turn(Paths, credit, w, E, a.pick, a.credit)
  BY WeightedFacts
<1> HIDE DEF elig
<1>3. CASE a.pick = NoPath /\ elig = <<>> /\ a.credit = credit
  <2>1. E = {}
    BY <1>3 DEF Range
  <2>2. QED
    BY <1>3, <2>1 DEF elig
<1>4. CASE a.pick \in E /\ Turn(Paths, credit, w, E, a.pick, a.credit)
  <2> HIDE DEF E
  <2>1. w \in [Paths -> Int] /\ \A p \in E : w[p] \in 1..MaxWeight
    <3>1. \A p \in Paths : WeightOf(E, v, p) \in Nat
      BY <1>1, WeightFacts
    <3>2. \A p \in E : WeightOf(E, v, p) \in 1..MaxWeight
      BY <1>1, WeightBound
    <3>3. QED
      BY <1>1, <3>1, <3>2 DEF Weights
  <2> HIDE DEF w
  <2>2. Owed(a.credit)
    <3>1. SumFunctionOnSet(w, E) <= Pay
      BY <1>1, <2>1, PathsFinite, TotalIsAtMost, SchedAssumption DEF Pay
    <3>2. Drift(Paths, N, Pay, credit) /\ Pay \in Nat
      BY PayFacts DEF Owed
    <3>3. QED
      BY <1>4, <3>1, <3>2, PathsFinite, DriftMoves DEF Owed
  <2>3. ASSUME NEW p \in E, a.pick # p PROVE a.credit[p] >= credit[p] + 1
    <3>1. a.credit[p] = credit[p] + w[p]
      BY <1>1, <1>4, <2>3 DEF Turn, Paid
    <3>2. PICK x \in Int, y \in Int : x = credit[p] /\ y = w[p] /\ y >= 1
      BY <1>1, <2>1, SchedAssumption
    <3>3. QED
      BY <3>1, <3>2
  <2>4. QED
    BY <2>2, <2>3 DEF E, elig
<1>5. QED
  BY <1>2, <1>3, <1>4

-----------------------------------------------------------------------------
(* REDUNDANT mode and FEC parity *)

\* The intermediate results of HealthiestPath.
Healthier(v, p, q) ==
  v[p].loss < v[q].loss \/ (v[p].loss = v[q].loss /\ RTT(v, p) < RTT(v, q))

HealthBody(bond, v, g, i) ==
  IF i = 0 THEN NoPath
  ELSE IF g[i - 1] = NoPath \/ Healthier(v, bond[i], g[i - 1]) THEN bond[i] ELSE g[i - 1]

HealthLoop(bond, v, g) == g = [i \in 0..Len(bond) |-> HealthBody(bond, v, g, i)]

LEMMA HealthiestByLoop ==
  ASSUME NEW list, NEW v
  PROVE  LET bond == ActiveBondPaths(list, v)
         IN HealthiestPath(list, v) = (CHOOSE g : HealthLoop(bond, v, g))[Len(bond)]
BY DEF HealthiestPath, HealthLoop, HealthBody, Healthier

LEMMA HealthSolved ==
  ASSUME NEW bond \in Seq(Paths), NEW v
  PROVE  \E g : HealthLoop(bond, v, g)
<1> DEFINE n == Len(bond)
           T == Paths \cup {NoPath}
           step == [p \in T |-> [i \in 1..n |->
                      IF p = NoPath \/ Healthier(v, bond[i], p) THEN bond[i] ELSE p]]
<1>1. n \in Nat /\ NoPath \in T
  OBVIOUS
<1>2. step \in [T -> [1..n -> T]]
  <2>1. ASSUME NEW p \in T, NEW i \in 1..n
        PROVE  (IF p = NoPath \/ Healthier(v, bond[i], p) THEN bond[i] ELSE p) \in T
    OBVIOUS
  <2>2. QED
    BY <2>1
<1>3. PICK g \in [0..n -> T] : Loop(NoPath, step, n, g)
  <2> HIDE DEF T, step, n
  <2> QED BY <1>1, <1>2, LoopSolved
<1>4. ASSUME NEW i \in 0..n PROVE LoopBody(NoPath, step, g, i) = HealthBody(bond, v, g, i)
  <2>1. CASE i = 0
    BY <2>1 DEF LoopBody, HealthBody
  <2>2. CASE i # 0
    <3>0. i \in 1..n /\ i - 1 \in 0..n
      BY <1>1, <2>2
    <3>1. i \in 1..n /\ g[i - 1] \in T
      <4> HIDE DEF T, n
      <4> QED BY <1>3, <3>0
    <3>2. step[g[i - 1]][i] =
            IF g[i - 1] = NoPath \/ Healthier(v, bond[i], g[i - 1]) THEN bond[i] ELSE g[i - 1]
      BY <3>1
    <3>3. QED
      BY <2>2, <3>2 DEF LoopBody, HealthBody
  <2>3. QED
    BY <2>1, <2>2
<1>5. g = [i \in 0..n |-> HealthBody(bond, v, g, i)]
  <2>1. g = [i \in 0..n |-> LoopBody(NoPath, step, g, i)]
    BY <1>3 DEF Loop
  <2> HIDE DEF step
  <2>2. QED
    BY <1>4, <2>1
<1>6. QED
  BY <1>5 DEF HealthLoop

\* healthiestPath finds a path that no other of the list beats.
HealthySoFar(bond, v, p, i) ==
  \E k \in 1..i : p = bond[k] /\ \A j \in 1..i : ~Healthier(v, bond[j], p)

LEMMA HealthiestFacts ==
  ASSUME NEW v, View(v), NEW bond \in Seq(Paths), NEW g, HealthLoop(bond, v, g)
  PROVE  /\ g[0] = NoPath
         /\ \A i \in 1..Len(bond) : HealthySoFar(bond, v, g[i], i)
<1> DEFINE n == Len(bond)
           Bad == {i \in 1..n : ~HealthySoFar(bond, v, g[i], i)}
<1>1. n \in Nat /\ \A i \in 0..n : g[i] = HealthBody(bond, v, g, i)
  BY DEF HealthLoop
<1>2. g[0] = NoPath
  BY <1>1 DEF HealthBody
<1>3. \A i \in 1..n : bond[i] \in Paths /\ v[bond[i]].loss \in Nat /\ RTT(v, bond[i]) \in Nat
  BY RTTFacts DEF View
<1>4. Bad = {}
  <2>1. SUFFICES ASSUME Bad # {} PROVE FALSE
    OBVIOUS
  <2>2. Bad \in SUBSET Nat
    BY <1>1
  <2>3. PICK i \in Bad : \A j \in Bad : i <= j
    <3> HIDE DEF Bad
    <3> QED BY <2>1, <2>2, LeastNumber
  <2>4. i \in 1..n /\ ~HealthySoFar(bond, v, g[i], i)
    BY <2>3
  <2>5. g[i] = IF g[i - 1] = NoPath \/ Healthier(v, bond[i], g[i - 1]) THEN bond[i] ELSE g[i - 1]
    BY <1>1, <2>4 DEF HealthBody
  <2>6. CASE i = 1
    <3>1. g[1] = bond[1]
      BY <1>2, <2>5, <2>6
    <3>2. ~Healthier(v, bond[1], bond[1])
      BY <1>3, <2>4, <2>6 DEF Healthier
    <3>3. HealthySoFar(bond, v, g[1], 1)
      BY <3>1, <3>2 DEF HealthySoFar
    <3>4. QED
      BY <2>4, <2>6, <3>3
  <2>7. CASE i # 1
    <3>1. i - 1 \in 1..n /\ i - 1 < i
      BY <1>1, <2>4, <2>7
    <3>2. i - 1 \notin Bad
      <4> HIDE DEF Bad
      <4> QED BY <2>2, <2>3, <3>1
    <3>3. PICK k \in 1..(i - 1) : /\ g[i - 1] = bond[k]
                                  /\ \A j \in 1..(i - 1) : ~Healthier(v, bond[j], bond[k])
      BY <3>1, <3>2 DEF HealthySoFar
    <3>4. k \in 1..n /\ bond[k] # NoPath /\ k \in 1..i
      BY <1>1, <1>3, <2>4, <3>3, PathFacts
    <3>5. CASE Healthier(v, bond[i], bond[k])
      <4>1. g[i] = bond[i]
        BY <2>5, <3>3, <3>5
      <4>2. ASSUME NEW j \in 1..i PROVE ~Healthier(v, bond[j], bond[i])
        <5>1. j \in 1..n /\ (j = i \/ j \in 1..(i - 1))
          BY <1>1, <2>4
        <5>2. j = i \/ ~Healthier(v, bond[j], bond[k])
          BY <3>3, <5>1
        <5>3. QED
          BY <1>3, <2>4, <3>4, <3>5, <5>1, <5>2 DEF Healthier
      <4>3. i \in 1..i
        BY <2>4
      <4>4. QED
        BY <2>4, <4>1, <4>2, <4>3 DEF HealthySoFar
    <3>6. CASE ~Healthier(v, bond[i], bond[k])
      <4>1. g[i] = bond[k]
        BY <2>5, <3>3, <3>4, <3>6
      <4>2. \A j \in 1..i : ~Healthier(v, bond[j], bond[k])
        BY <2>4, <3>3, <3>6
      <4>3. QED
        BY <2>4, <3>4, <4>1, <4>2 DEF HealthySoFar
    <3>7. QED
      BY <3>5, <3>6
  <2>8. QED
    BY <2>6, <2>7
<1>5. QED
  BY <1>2, <1>4

-----------------------------------------------------------------------------
(* The copies of REDUNDANT mode *)

\* The RTT-sorted orders of a set of paths.
SortedOf(T, v) ==
  {s \in Injection(1..Cardinality(T), T) : \A i, j \in DOMAIN s : i < j => RTT(v, s[i]) <= RTT(v, s[j])}

\* A set of paths that is not empty has a slowest path.
LEMMA SlowestExists ==
  ASSUME NEW v, View(v), NEW T \in SUBSET Paths, T # {}
  PROVE  \E p \in T : \A q \in T : RTT(v, q) <= RTT(v, p)
<1> DEFINE S == {Unmeasured - RTT(v, p) : p \in T}
<1>1. \A p \in T : RTT(v, p) \in Nat /\ RTT(v, p) <= Unmeasured
  BY RTTFacts DEF View, Unmeasured, TieMin
<1>2. S \in SUBSET Nat /\ S # {}
  BY <1>1 DEF Unmeasured
<1>3. PICK m \in S : \A x \in S : m <= x
  <2> HIDE DEF S
  <2> QED BY <1>2, LeastNumber
<1>4. PICK p \in T : m = Unmeasured - RTT(v, p)
  BY <1>3
<1>5. ASSUME NEW q \in T PROVE RTT(v, q) <= RTT(v, p)
  <2>1. Unmeasured - RTT(v, q) \in S
    OBVIOUS
  <2>2. Unmeasured - RTT(v, p) <= Unmeasured - RTT(v, q)
    BY <1>3, <1>4, <2>1
  <2>3. QED
    BY <1>1, <2>2 DEF Unmeasured
<1>6. QED
  BY <1>5

\* Every set of paths can be sorted: the slowest comes behind the sorted others.
LEMMA SortedExists ==
  ASSUME NEW v, View(v), NEW E \in SUBSET Paths
  PROVE  SortedOf(E, v) # {}
<1> DEFINE Bad == {T \in SUBSET E : SortedOf(T, v) = {}}
<1>1. IsFiniteSet(E)
  BY PathsFinite, FS_Subset
<1>2. SUFFICES ASSUME Bad # {} PROVE FALSE
  OBVIOUS
<1>3. Bad \in SUBSET SUBSET E
  OBVIOUS
<1>4. PICK T \in Bad : \A U \in Bad : U \subseteq T => U = T
  <2> HIDE DEF Bad
  <2> QED BY <1>1, <1>2, <1>3, LeastSubset
<1>5. T \in SUBSET E /\ T \in SUBSET Paths /\ SortedOf(T, v) = {} /\ IsFiniteSet(T)
  BY <1>1, <1>4, FS_Subset
<1>6. T # {}
  <2>1. SUFFICES ASSUME T = {} PROVE FALSE
    OBVIOUS
  <2>2. Cardinality({}) = 0
    BY FS_EmptySet
  <2>3. <<>> \in Injection(1..0, {})
    BY <2>2 DEF Injection, IsInjective
  <2>4. <<>> \in SortedOf({}, v)
    BY <2>2, <2>3 DEF SortedOf
  <2>5. QED
    BY <1>5, <2>1, <2>4
<1>7. PICK p \in T : \A q \in T : RTT(v, q) <= RTT(v, p)
  BY <1>5, <1>6, SlowestExists
<1>8. PICK s \in SortedOf(T \ {p}, v) : TRUE
  <2>1. T \ {p} \notin Bad
    <3> HIDE DEF Bad
    <3> QED BY <1>4
  <2>2. QED
    BY <1>5, <2>1
<1>9. PICK m \in Nat : m = Cardinality(T \ {p}) /\ Cardinality(T) = m + 1
  <2>1. /\ IsFiniteSet(T \ {p}) /\ Cardinality(T \ {p}) = Cardinality(T) - 1
        /\ Cardinality(T) \in Nat /\ Cardinality(T \ {p}) \in Nat
    BY <1>5, FS_RemoveElement, FS_CardinalityType
  <2>2. QED
    BY <2>1
<1>10. /\ s \in [1..m -> T \ {p}] /\ \A i, j \in 1..m : s[i] = s[j] => i = j
       /\ \A i, j \in 1..m : i < j => RTT(v, s[i]) <= RTT(v, s[j])
  BY <1>8, <1>9 DEF SortedOf, Injection, IsInjective
<1> DEFINE t == [i \in 1..(m + 1) |-> IF i = m + 1 THEN p ELSE s[i]]
<1>11. ASSUME NEW i \in 1..(m + 1) PROVE i = m + 1 \/ (i \in 1..m /\ s[i] \in T \ {p})
  <2> HIDE DEF Bad, t
  <2>1. i = m + 1 \/ i \in 1..m
    BY <1>9
  <2>2. i \in 1..m => s[i] \in T \ {p}
    BY <1>10
  <2>3. QED
    BY <2>1, <2>2
<1>12. t \in [1..(m + 1) -> T]
  BY <1>11
<1>13. \A i, j \in 1..(m + 1) : t[i] = t[j] => i = j
  BY <1>10, <1>11
<1>14. \A i, j \in 1..(m + 1) : i < j => RTT(v, t[i]) <= RTT(v, t[j])
  <2>1. SUFFICES ASSUME NEW i \in 1..(m + 1), NEW j \in 1..(m + 1), i < j
                 PROVE  RTT(v, t[i]) <= RTT(v, t[j])
    OBVIOUS
  <2>2. i \in 1..m /\ t[i] = s[i] /\ s[i] \in T
    BY <1>11, <2>1
  <2>3. CASE j = m + 1
    BY <1>7, <2>2, <2>3
  <2>4. CASE j # m + 1
    BY <1>10, <1>11, <2>1, <2>2, <2>4
  <2>5. QED
    BY <2>3, <2>4
<1>15. t \in SortedOf(T, v)
  <2> HIDE DEF t
  <2>1. t \in Injection(1..Cardinality(T), T)
    BY <1>9, <1>12, <1>13 DEF Injection, IsInjective
  <2>2. DOMAIN t = 1..(m + 1)
    BY <1>12
  <2>3. QED
    BY <1>14, <2>1, <2>2 DEF SortedOf
<1>16. QED
  BY <1>5, <1>15

\* selectRedundantPaths
LEMMA RedundantFacts ==
  ASSUME NEW v, View(v), NEW list \in Seq(Paths)
  PROVE  LET elig == Range(EligiblePaths(list, v)) IN
         /\ SelectRedundantPaths(list, v) # {}
         /\ \A copies \in SelectRedundantPaths(list, v) :
              /\ Cardinality(Range(copies)) = Len(copies)
              /\ Len(copies) = Min({DupFactor, Cardinality(elig)})
              /\ Range(copies) \subseteq elig
              /\ \A p \in Range(copies) : \A q \in elig \ Range(copies) :
                   RTT(v, p) <= RTT(v, q)
<1> DEFINE E == Range(EligiblePaths(list, v))
<1>1. E \in SUBSET Paths
  <2>1. EligiblePaths(list, v) \in Seq(Paths)
    BY EligibleFacts
  <2>2. QED
    BY <2>1 DEF Range
<1>2. IsFiniteSet(E) /\ Cardinality(E) \in Nat
  BY <1>1, PathsFinite, FS_Subset, FS_CardinalityType
<1> HIDE DEF E
<1>3. SelectRedundantPaths(list, v) =
        {SubSeq(s, 1, Min({DupFactor, Len(s)})) : s \in SortedOf(E, v)}
  BY DEF SelectRedundantPaths, SortedOf, E
<1>4. SelectRedundantPaths(list, v) # {}
  BY <1>1, <1>3, SortedExists
<1>5. ASSUME NEW copies \in SelectRedundantPaths(list, v)
      PROVE  /\ Cardinality(Range(copies)) = Len(copies)
             /\ Len(copies) = Min({DupFactor, Cardinality(E)})
             /\ Range(copies) \subseteq E
             /\ \A p \in Range(copies) : \A q \in E \ Range(copies) : RTT(v, p) <= RTT(v, q)
  <2>1. PICK s \in SortedOf(E, v) : copies = SubSeq(s, 1, Min({DupFactor, Len(s)}))
    BY <1>3
  <2>2. PICK n \in Nat : n = Cardinality(E)
    BY <1>2
  <2>3. s \in [1..n -> E] /\ \A i, j \in 1..n : s[i] = s[j] => i = j
    BY <2>2 DEF SortedOf, Injection, IsInjective
  <2>4. \A i, j \in 1..n : i < j => RTT(v, s[i]) <= RTT(v, s[j])
    BY <2>3 DEF SortedOf
  <2>5. s \in Seq(E) /\ Len(s) = n
    BY <2>3
  <2>6. PICK k \in Nat : k = Min({DupFactor, n}) /\ k <= n
    <3>1. {DupFactor, n} \in SUBSET Nat /\ {DupFactor, n} # {}
      BY SchedAssumption
    <3>2. Min({DupFactor, n}) \in {DupFactor, n} /\ Min({DupFactor, n}) <= n
      BY <3>1, MinFacts
    <3>3. QED
      BY <3>1, <3>2
  <2>7. Len(copies) = k /\ copies \in [1..k -> E] /\ \A i \in 1..k : copies[i] = s[i]
    <3>1. copies = SubSeq(s, 1, k)
      BY <2>1, <2>5, <2>6
    <3>2. k <= Len(s)
      BY <2>5, <2>6
    <3>3. /\ SubSeq(s, 1, k) \in Seq(E) /\ Len(SubSeq(s, 1, k)) = k
          /\ \A i \in 1..k : SubSeq(s, 1, k)[i] = s[i]
      BY <2>5, <3>2, PrefixFacts
    <3>4. copies \in Seq(E) /\ Len(copies) = k /\ \A i \in 1..k : copies[i] = s[i]
      BY <3>1, <3>3
    <3>5. copies \in [1..k -> E]
      BY <3>4
    <3>6. QED
      BY <3>4, <3>5
  <2>8. \A i, j \in 1..k : copies[i] = copies[j] => i = j
    <3>1. \A i \in 1..k : i \in 1..n
      BY <2>6
    <3>2. QED
      BY <2>3, <2>7, <3>1
  <2>9. Range(copies) = {copies[i] : i \in 1..k}
    BY <2>7 DEF Range
  <2>10. Cardinality(Range(copies)) = k
    <3>1. copies \in [1..k -> E]
      BY <2>7
    <3>2. Cardinality({copies[i] : i \in 1..k}) = k
      BY <2>8, <3>1, DistinctCount
    <3>3. QED
      BY <2>9, <3>2
  <2>11. {s[i] : i \in 1..n} = E
    <3>1. Cardinality({s[i] : i \in 1..n}) = n
      BY <2>3, DistinctCount
    <3>2. {s[i] : i \in 1..n} \in SUBSET E
      BY <2>3
    <3>3. QED
      BY <1>2, <2>2, <3>1, <3>2, FS_Subset
  <2>12. ASSUME NEW p \in Range(copies), NEW q \in E \ Range(copies)
         PROVE  RTT(v, p) <= RTT(v, q)
    <3>1. PICK i \in 1..k : p = s[i]
      BY <2>7, <2>9
    <3>2. PICK j \in 1..n : q = s[j]
      BY <2>11
    <3>3. j \notin 1..k
      BY <2>7, <2>9, <2>12, <3>2
    <3>4. i \in 1..n /\ i < j
      BY <2>6, <3>3
    <3>5. QED
      BY <2>4, <3>1, <3>2, <3>4
  <2>13. Range(copies) \subseteq E
    BY <2>7, <2>9
  <2>14. QED
    BY <2>2, <2>6, <2>7, <2>10, <2>12, <2>13
<1>6. QED
  BY <1>4, <1>5 DEF E

\* healthiestPath
LEMMA ParityFacts ==
  ASSUME NEW v, View(v), NEW list \in Seq(Paths)
  PROVE  LET bond == Range(ActiveBondPaths(list, v))
             best == HealthiestPath(list, v)
         IN IF bond = {} THEN best = NoPath
            ELSE best \in bond /\ \A q \in bond :
                   \/ v[best].loss < v[q].loss
                   \/ v[best].loss = v[q].loss /\ RTT(v, best) <= RTT(v, q)
<1> DEFINE bond == ActiveBondPaths(list, v)
           best == HealthiestPath(list, v)
           g == CHOOSE h : HealthLoop(bond, v, h)
           n == Len(bond)
<1>1. bond \in Seq(Paths) /\ n \in Nat
  BY EligibleFacts
<1> HIDE DEF bond
<1>2. HealthLoop(bond, v, g)
  BY <1>1, HealthSolved
<1>3. best = g[n]
  BY HealthiestByLoop DEF bond
<1> HIDE DEF g, best
<1>4. CASE n = 0
  <2>1. g[0] = NoPath
    BY <1>1, <1>2, HealthiestFacts
  <2>2. Range(bond) = {} /\ best = NoPath
    BY <1>1, <1>3, <1>4, <2>1, Places
  <2>3. QED
    BY <2>2 DEF bond, best
<1>5. CASE n # 0
  <2>1. n \in 1..n
    BY <1>1, <1>5
  <2>2. HealthySoFar(bond, v, best, n)
    BY <1>1, <1>2, <1>3, <2>1, HealthiestFacts
  <2>3. PICK k \in 1..n : best = bond[k]
    BY <2>2 DEF HealthySoFar
  <2>4. best \in Range(bond) /\ best \in Paths
    BY <1>1, <2>3, Places
  <2>5. ASSUME NEW q \in Range(bond)
        PROVE  \/ v[best].loss < v[q].loss
               \/ v[best].loss = v[q].loss /\ RTT(v, best) <= RTT(v, q)
    <3>1. PICK j \in 1..n : q = bond[j]
      BY <1>1 DEF Range
    <3>2. ~Healthier(v, q, best) /\ q \in Paths
      BY <1>1, <2>2, <3>1, Places DEF HealthySoFar
    <3>3. /\ v[best].loss \in Nat /\ v[q].loss \in Nat
          /\ RTT(v, best) \in Nat /\ RTT(v, q) \in Nat
      BY <2>4, <3>2, RTTFacts DEF View
    <3>4. QED
      BY <3>2, <3>3 DEF Healthier
  <2>6. QED
    BY <2>4, <2>5 DEF bond, best
<1>6. QED
  BY <1>4, <1>5

=============================================================================
