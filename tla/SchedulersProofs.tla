-------------------------- MODULE SchedulersProofs ---------------------------
(***************************************************************************)
(* Proofs about Schedulers, for every number of paths and every set of     *)
(* RTTs, goodputs and loss estimates.                                      *)
(***************************************************************************)
EXTENDS SchedulerFacts

\* The provers for a step that names none, in turn, with their time limits in seconds.
USE SMTT(10), ZenonT(20), SMTT(40), ZenonT(60)

-----------------------------------------------------------------------------
(* Every choice is sound *)

\* Tiers 1 and 2 choose a path with room if there is one.
LEMMA RoundRobinSound ==
  ASSUME NEW v, NEW list \in Seq(Paths), Len(list) <= N, cursor \in 0..(N - 1)
  PROVE  LET elig == Range(EligiblePaths(list, v))
             picks == {c.pick : c \in RoundRobinNext(list, v)}
         IN IF elig = {} THEN picks = {NoPath} ELSE picks \subseteq elig
<1> DEFINE elig == Range(EligiblePaths(list, v))
<1>1. elig = {p \in Range(list) : HasRoom(v, p)}
  BY EligibleFacts
<1>2. RoundRobinNext(list, v) # {}
  BY DEF RoundRobinNext
<1>3. ASSUME NEW a \in RoundRobinNext(list, v)
      PROVE  (elig = {} /\ a.pick = NoPath) \/ a.pick \in elig
  <2>1. \/ a.pick = NoPath /\ \A p \in Range(list) : ~HasRoom(v, p)
        \/ a.pick \in Range(list) /\ HasRoom(v, a.pick)
    BY RoundRobinFacts
  <2>2. QED
    BY <1>1, <2>1
<1> HIDE DEF elig
<1>4. QED
  BY <1>2, <1>3 DEF elig

LEMMA WeightedSound ==
  ASSUME NEW v, View(v), NEW list \in Seq(Paths), credit \in [Paths -> Int]
  PROVE  LET elig == Range(EligiblePaths(list, v))
             picks == {c.pick : c \in WeightedGoodputNext(list, v)}
         IN IF elig = {} THEN picks = {NoPath} ELSE picks \subseteq elig
<1> DEFINE elig == Range(EligiblePaths(list, v))
<1>1. EligiblePaths(list, v) = <<>> <=> elig = {}
  BY EligibleFacts, Places
<1>2. WeightedGoodputNext(list, v) # {}
  BY DEF WeightedGoodputNext
<1>3. ASSUME NEW a \in WeightedGoodputNext(list, v)
      PROVE  (elig = {} /\ a.pick = NoPath) \/ a.pick \in elig
  <2>1. \/ a.pick = NoPath /\ EligiblePaths(list, v) = <<>>
        \/ a.pick \in Range(EligiblePaths(list, v))
    BY WeightedFacts
  <2>2. QED
    BY <1>1, <2>1
<1> HIDE DEF elig
<1>4. QED
  BY <1>2, <1>3 DEF elig

\* Tier 3 chooses a path with room that is tied with every other one.
LEMMA MinRTTCwndSound ==
  ASSUME NEW v, View(v), NEW list \in Seq(Paths), Len(list) <= N, cursor \in 0..(N - 1)
  PROVE  LET elig == Range(EligiblePaths(list, v))
             picks == {c.pick : c \in MinRTTCwndNext(list, v)}
         IN IF elig = {} THEN picks = {NoPath}
            ELSE \A p \in picks : p \in elig /\ \A q \in elig : Tied(p, q, v)
<1> DEFINE E == EligiblePaths(list, v)
           elig == Range(E)
<1>1. E \in Seq(Paths) /\ (E = <<>> <=> elig = {})
  BY EligibleFacts, Places
<1>2. MinRTTCwndNext(list, v) # {}
  BY DEF MinRTTCwndNext
<1>3. Range(FastestTiedSet(E, v)) = {p \in elig : \A q \in elig : Tied(p, q, v)}
  BY <1>1, TiedSetIsTied
<1>4. ASSUME NEW a \in MinRTTCwndNext(list, v)
      PROVE  \/ elig = {} /\ a.pick = NoPath
             \/ a.pick \in elig /\ \A q \in elig : Tied(a.pick, q, v)
  <2>1. \/ a.pick = NoPath /\ E = <<>>
        \/ a.pick \in Range(FastestTiedSet(E, v))
    BY MinRTTCwndFacts
  <2> HIDE DEF E, elig
  <2>2. QED
    BY <1>1, <1>3, <2>1
<1> HIDE DEF elig
<1>5. QED
  BY <1>2, <1>4 DEF elig

\* Tier 4 uses room on a fastest path, waits only for measured fastest paths, and
\* sends on an unmeasured slower path only if lambda is at least 1.
LEMMA HoLAwareSound ==
  ASSUME NEW v, View(v), NEW list \in Seq(Paths), Len(list) <= N, cursor \in 0..(N - 1),
         lambda \in LambdaMin..LambdaMax, NEW a \in HoLAwareNext(list, v)
  PROVE  LET elig == Range(EligiblePaths(list, v))
             bond == Range(ActiveBondPaths(list, v))
             fast == {p \in bond : \A q \in bond : Tied(p, q, v)}
         IN /\ a.pick = NoPath \/ a.pick \in elig
            /\ elig \cap fast # {} => a.pick \in fast
            /\ a.pick = NoPath /\ elig # {} => \A q \in fast : v[q].rtt > 0
            /\ a.pick # NoPath /\ v[a.pick].rtt = 0 /\ a.pick \notin fast => lambda >= 100
<1> DEFINE elig == Range(EligiblePaths(list, v))
           B == ActiveBondPaths(list, v)
           bond == Range(B)
           fast == {p \in bond : \A q \in bond : Tied(p, q, v)}
           primary == FastestTiedSet(B, v)
<1>1. elig = {p \in Range(list) : HasRoom(v, p)} /\ bond = {p \in Range(list) : v[p].cond # "out"}
  BY EligibleFacts
<1>2. B \in Seq(Paths) /\ (B = <<>> <=> bond = {}) /\ bond \in SUBSET Paths
  BY EligibleFacts, Places
<1>3. Range(primary) = fast
  BY <1>2, TiedSetIsTied
<1>4. fast = bond \/ \A p \in fast : v[p].rtt > 0
  BY <1>2, <1>3, TiedSetFacts
<1>5. \/ B = <<>> /\ a.pick = NoPath
      \/ a.pick \in Range(primary) /\ HasRoom(v, a.pick)
      \/ /\ \A p \in Range(primary) : ~HasRoom(v, p)
         /\ \/ a.pick = NoPath
            \/ /\ a.pick \in Range(B) \ Range(primary) /\ HasRoom(v, a.pick)
               /\ RTT(v, a.pick) >= Unmeasured => lambda >= 100
  BY HoLAwareFacts
<1>6. elig = {p \in bond : HasRoom(v, p)} /\ fast \in SUBSET bond /\ NoPath \notin bond
  BY <1>1, <1>2, PathFacts DEF HasRoom
<1>7. \A p \in bond : v[p].rtt = 0 => RTT(v, p) >= Unmeasured
  BY <1>2, RTTFacts DEF Unmeasured
<1>8. /\ a.pick = NoPath \/ a.pick \in elig
      /\ elig \cap fast # {} => a.pick \in fast
      /\ (a.pick = NoPath /\ elig # {}) => \A q \in fast : v[q].rtt > 0
      /\ (a.pick # NoPath /\ v[a.pick].rtt = 0 /\ a.pick \notin fast) => lambda >= 100
  <2> HIDE DEF elig, bond, fast, B, primary
  <2>1. CASE B = <<>> /\ a.pick = NoPath
    BY <1>2, <1>6, <2>1
  <2>2. CASE a.pick \in fast /\ HasRoom(v, a.pick)
    BY <1>6, <2>2
  <2>3. CASE (\A p \in fast : ~HasRoom(v, p)) /\ a.pick = NoPath
    BY <1>4, <1>6, <2>3
  <2>4. CASE /\ \A p \in fast : ~HasRoom(v, p)
             /\ a.pick \in bond \ fast /\ HasRoom(v, a.pick)
             /\ RTT(v, a.pick) >= Unmeasured => lambda >= 100
    BY <1>6, <1>7, <2>4
  <2>5. QED
    BY <1>3, <1>5, <2>1, <2>2, <2>3, <2>4 DEF bond
<1>9. QED
  BY <1>8

LEMMA ChoicesAreSound ==
  TypeOK => EveryChoiceSound
<1>1. SUFFICES ASSUME TypeOK, NEW v \in ViewsOf(mode), NEW list \in ListsOf(side)
               PROVE  LET elig == Range(EligiblePaths(list, v))
                          bond == Range(ActiveBondPaths(list, v))
                          fast == {p \in bond : \A q \in bond : Tied(p, q, v)}
                          best == HealthiestPath(list, v)
                          picks == {c.pick : c \in Answers(list, v)}
                      IN CASE mode \in {"round-robin", "weighted-goodput"} ->
                                IF elig = {} THEN picks = {NoPath} ELSE picks \subseteq elig
                           [] mode = "min-rtt-cwnd" ->
                                IF elig = {} THEN picks = {NoPath}
                                ELSE \A p \in picks : p \in elig /\ \A q \in elig : Tied(p, q, v)
                           [] mode = "hol-aware" ->
                                \A p \in picks :
                                  /\ p = NoPath \/ p \in elig
                                  /\ elig \cap fast # {} => p \in fast
                                  /\ p = NoPath /\ elig # {} => \A q \in fast : v[q].rtt > 0
                                  /\ p # NoPath /\ v[p].rtt = 0 /\ p \notin fast => lambda >= 100
                           [] mode = "redundant" ->
                                /\ SelectRedundantPaths(list, v) # {}
                                /\ \A copies \in SelectRedundantPaths(list, v) :
                                     /\ Cardinality(Range(copies)) = Len(copies)
                                     /\ Len(copies) = Min({DupFactor, Cardinality(elig)})
                                     /\ Range(copies) \subseteq elig
                                     /\ \A p \in Range(copies) : \A q \in elig \ Range(copies) :
                                          RTT(v, p) <= RTT(v, q)
                           [] mode = "parity" ->
                                IF bond = {} THEN best = NoPath
                                ELSE best \in bond /\ \A q \in bond :
                                       \/ v[best].loss < v[q].loss
                                       \/ v[best].loss = v[q].loss /\ RTT(v, best) <= RTT(v, q)
  BY DEF EveryChoiceSound
<1>2. View(v) /\ list \in Seq(Paths) /\ Len(list) <= N
  BY ViewFacts, ListFacts
<1>3. /\ cursor \in 0..(N - 1) /\ lambda \in LambdaMin..LambdaMax /\ credit \in [Paths -> Int]
      /\ mode \in Modes
  BY <1>1 DEF TypeOK
<1>4. CASE mode = "round-robin"
  <2>1. Answers(list, v) = RoundRobinNext(list, v)
    BY <1>4 DEF Answers
  <2>2. QED
    BY <1>2, <1>3, <1>4, <2>1, RoundRobinSound
<1>5. CASE mode = "weighted-goodput"
  <2>1. Answers(list, v) = WeightedGoodputNext(list, v)
    BY <1>5 DEF Answers
  <2>2. QED
    BY <1>2, <1>3, <1>5, <2>1, WeightedSound
<1>6. CASE mode = "min-rtt-cwnd"
  <2>1. Answers(list, v) = MinRTTCwndNext(list, v)
    BY <1>6 DEF Answers
  <2>2. QED
    BY <1>2, <1>3, <1>6, <2>1, MinRTTCwndSound
<1>7. CASE mode = "hol-aware"
  <2>1. Answers(list, v) = HoLAwareNext(list, v)
    BY <1>7 DEF Answers
  <2>2. QED
    BY <1>2, <1>3, <1>7, <2>1, HoLAwareSound
<1>8. CASE mode = "redundant"
  BY <1>2, <1>8, RedundantFacts
<1>9. CASE mode = "parity"
  BY <1>2, <1>9, ParityFacts
<1>10. QED
  BY <1>3, <1>4, <1>5, <1>6, <1>7, <1>8, <1>9 DEF Modes

-----------------------------------------------------------------------------
(* Fairness of the rotations *)

\* The rotation's list, its cursor and the waits belong together: a path that has
\* waited for w calls is at most n - 1 - w places ahead of the cursor.
Ahead(t, c, w) ==
  LET L == Kept(ClientList, t)
      n == Len(L)
  IN /\ \A p \in Paths \ t : w[p] = 0
     /\ \A k \in 0..(n - 1) : c < n /\ w[L[k + 1]] + Distance(c, k, n) <= n - 1

Fair ==
  /\ side = "relay" => tied = {}
  /\ mode # "weighted-goodput" => Ahead(tied, cursor, wait)

LEMMA DistanceFacts ==
  ASSUME NEW n \in Nat \ {0}, NEW c \in 0..(n - 1), NEW k \in 0..(n - 1)
  PROVE  c < n /\ Distance(c, k, n) \in Nat /\ Distance(c, k, n) <= n - 1
BY DEF Distance

\* When the cursor passes a place it comes nearer to every place behind it.
LEMMA CursorMoves ==
  ASSUME NEW n \in Nat \ {0}, NEW c \in 0..(n - 1), NEW at \in 0..(n - 1), NEW k \in 0..(n - 1),
         at # k, Distance(c, at, n) <= Distance(c, k, n),
         NEW d, d = IF at + 1 >= n THEN 0 ELSE at + 1
  PROVE  /\ Distance(d, k, n) <= n - 2
         /\ Distance(d, k, n) + 1 <= Distance(c, k, n)
BY DEF Distance

\* Every rotation over the paths of R, in the client's order, keeps paths from
\* waiting for longer than it takes to go around.
LEMMA RotationIsFair ==
  ASSUME NEW v, NEW P \in Seq(Paths), Increasing(P), P # <<>>, NEW a,
         cursor \in Nat, wait \in [Paths -> Nat], tied \in SUBSET Paths,
         Ahead(tied, cursor, wait), Rotates(P, Start(cursor, Len(P)), v, a),
         Range(P) = Rotating(v)
  PROVE  Ahead(Range(P), a.cursor, Waiting(v, a.pick))
<1> DEFINE R == Range(P)
           n == Len(P)
           w == Waiting(v, a.pick)
<1>1. n \in Nat \ {0} /\ R \in SUBSET Paths
  BY Places DEF Range
<1>2. ASSUME NEW t \in SUBSET Paths, t = R PROVE Kept(ClientList, t) = P
  <2>1. /\ Kept(ClientList, t) \in Seq(Paths) /\ Increasing(Kept(ClientList, t))
        /\ Range(Kept(ClientList, t)) = Paths \cap t
    BY ClientListFacts, KeptFacts
  <2>2. Range(Kept(ClientList, t)) = Range(P)
    BY <1>2, <2>1
  <2>3. QED
    BY <2>1, <2>2, SameOrder, PathFacts
<1>3. \A p \in Paths :
        w[p] = IF v[p].cond # "room" \/ a.pick = p \/ p \notin R THEN 0
               ELSE IF R = tied /\ wait[p] <= WaitBound THEN wait[p] + 1 ELSE 1
  BY DEF Waiting
<1> HIDE DEF w
<1>4. \A p \in Paths \ R : w[p] = 0
  BY <1>3
<1>5. a.cursor \in 0..(n - 1)
  BY <1>1 DEF Rotates
<1>6. ASSUME NEW k \in 0..(n - 1)
      PROVE  a.cursor < n /\ w[P[k + 1]] + Distance(a.cursor, k, n) <= n - 1
  <2>1. PICK p \in R : p = P[k + 1]
    BY <1>1, Places
  <2>2. p \in Paths /\ wait[p] \in Nat
    BY <1>1, <2>1
  <2>3. a.cursor < n /\ Distance(a.cursor, k, n) <= n - 1 /\ Distance(a.cursor, k, n) \in Nat
    BY <1>1, <1>5, DistanceFacts
  <2>4. CASE w[p] = 0
    BY <1>1, <2>1, <2>3, <2>4
  <2>5. CASE w[p] # 0
    <3>1. HasRoom(v, p) /\ a.pick # p
      BY <1>3, <2>2, <2>5 DEF HasRoom
    <3>2. PICK at \in 0..(n - 1) :
            /\ a.pick = P[at + 1] /\ a.cursor = IF at + 1 >= n THEN 0 ELSE at + 1
            /\ Distance(Start(cursor, n), at, n) <= Distance(Start(cursor, n), k, n)
      BY <2>1, <3>1 DEF Rotates
    <3>3. at # k
      BY <2>1, <3>1, <3>2
    <3>4. Start(cursor, n) \in 0..(n - 1)
      BY <1>1 DEF Start
    <3>5. /\ Distance(a.cursor, k, n) <= n - 2
          /\ Distance(a.cursor, k, n) + 1 <= Distance(Start(cursor, n), k, n)
      BY <1>1, <3>2, <3>3, <3>4, CursorMoves
    <3>6. CASE w[p] = 1
      BY <1>1, <2>1, <2>3, <3>5, <3>6
    <3>7. CASE R = tied /\ w[p] = wait[p] + 1
      <4>1. Kept(ClientList, tied) = P
        BY <1>2, <3>7
      <4>2. cursor < n /\ wait[p] + Distance(cursor, k, n) <= n - 1
        BY <2>1, <4>1 DEF Ahead
      <4>3. Start(cursor, n) = cursor
        BY <1>1, <4>2 DEF Start
      <4>4. Distance(cursor, k, n) \in Nat
        BY <1>1, <4>2 DEF Distance
      <4>5. PICK d \in Nat, x \in Nat, y \in Nat :
              d = Distance(a.cursor, k, n) /\ x = Distance(cursor, k, n) /\ y = wait[p]
        BY <2>2, <2>3, <4>4
      <4>6. d + 1 <= x /\ y + x <= n - 1
        BY <3>5, <4>2, <4>3, <4>5
      <4>7. (y + 1) + d <= n - 1
        BY <1>1, <4>6
      <4>8. QED
        BY <2>1, <2>3, <3>7, <4>5, <4>7
    <3>8. w[p] = 1 \/ (R = tied /\ w[p] = wait[p] + 1)
      BY <1>3, <2>2, <2>5
    <3>9. QED
      BY <3>6, <3>7, <3>8
  <2>6. QED
    BY <2>4, <2>5
<1>7. Kept(ClientList, R) = P
  BY <1>1, <1>2
<1>8. QED
  BY <1>4, <1>6, <1>7 DEF Ahead, w

\* Nobody waits if nothing rotates.
LEMMA EmptyIsFair ==
  ASSUME NEW c, NEW w, \A p \in Paths : w[p] = 0
  PROVE  Ahead({}, c, w)
<1>1. Kept(ClientList, {}) \in Seq(Paths) /\ Range(Kept(ClientList, {})) = {}
  BY ClientListFacts, KeptFacts
<1>2. Len(Kept(ClientList, {})) = 0
  BY <1>1, Places
<1>3. QED
  BY <1>2 DEF Ahead

\* The paths a mode rotates among, and those it finds, are paths.
LEMMA RotatingFacts ==
  ASSUME NEW v, View(v), mode \in Modes
  PROVE  /\ Rotating(v) \in SUBSET Paths
         /\ mode = "round-robin" => Rotating(v) = Paths
         /\ mode = "min-rtt-cwnd" =>
              Rotating(v) = Range(FastestTiedSet(EligiblePaths(ClientList, v), v))
         /\ mode = "hol-aware" =>
              Rotating(v) = Range(FastestTiedSet(ActiveBondPaths(ClientList, v), v))
         /\ mode \in {"redundant", "parity"} => Rotating(v) = {}
<1>1. \A s \in Seq(Paths) : Range(s) \in SUBSET Paths
  BY DEF Range
<1>2. /\ FastestTiedSet(EligiblePaths(ClientList, v), v) \in Seq(Paths)
      /\ FastestTiedSet(ActiveBondPaths(ClientList, v), v) \in Seq(Paths)
  BY ClientListFacts, EligibleFacts, TiedSetIsClose
<1>3. CASE mode = "min-rtt-cwnd"
  BY <1>1, <1>2, <1>3 DEF Rotating
<1>4. CASE mode = "hol-aware"
  BY <1>1, <1>2, <1>4 DEF Rotating
<1>5. CASE mode \in {"round-robin", "weighted-goodput"}
  BY <1>5 DEF Rotating
<1>6. CASE mode \in {"redundant", "parity"}
  BY <1>6 DEF Rotating
<1>7. QED
  BY <1>3, <1>4, <1>5, <1>6 DEF Modes

\* Every answer leaves the scheduler in a state of its type, with the same sum of
\* credits.
LEMMA AnswerFacts ==
  ASSUME TypeOK, NEW v, View(v), NEW list \in Seq(Paths), Len(list) <= N,
         NEW c \in Answers(list, v)
  PROVE  /\ c.cursor \in 0..(N - 1) /\ c.credit \in [Paths -> Int]
         /\ c.lambda \in LambdaMin..LambdaMax
         /\ SumFunctionOnSet(c.credit, Paths) = SumFunctionOnSet(credit, Paths)
         /\ mode # "weighted-goodput" => c.credit = credit
<1>1. /\ cursor \in 0..(N - 1) /\ credit \in [Paths -> Int] /\ lambda \in LambdaMin..LambdaMax
      /\ mode \in Modes
  BY DEF TypeOK
<1>2. CASE mode = "round-robin"
  <2>1. c \in RoundRobinNext(list, v)
    BY <1>2 DEF Answers
  <2>2. c.cursor \in 0..(N - 1) /\ c.credit = credit /\ c.lambda = lambda
    BY <1>1, <2>1, RoundRobinFacts
  <2>3. QED
    BY <1>1, <2>2
<1>3. CASE mode = "weighted-goodput"
  <2>1. c \in WeightedGoodputNext(list, v)
    BY <1>3 DEF Answers
  <2>2. /\ c.cursor = cursor /\ c.lambda = lambda /\ c.credit \in [Paths -> Int]
        /\ SumFunctionOnSet(c.credit, Paths) = SumFunctionOnSet(credit, Paths)
    BY <1>1, <2>1, WeightedFacts
  <2>3. QED
    BY <1>1, <1>3, <2>2
<1>4. CASE mode = "min-rtt-cwnd"
  <2>1. c \in MinRTTCwndNext(list, v)
    BY <1>4 DEF Answers
  <2>2. c.cursor \in 0..(N - 1) /\ c.credit = credit /\ c.lambda = lambda
    BY <1>1, <2>1, MinRTTCwndFacts
  <2>3. QED
    BY <1>1, <2>2
<1>5. CASE mode = "hol-aware"
  <2>1. c \in HoLAwareNext(list, v)
    BY <1>5 DEF Answers
  <2>2. c.cursor \in 0..(N - 1) /\ c.credit = credit /\ c.lambda \in LambdaMin..LambdaMax
    BY <1>1, <2>1, HoLAwareFacts
  <2>3. QED
    BY <1>1, <2>2
<1>6. CASE mode \in {"redundant", "parity"}
  <2>1. c = NoAnswer
    BY <1>6 DEF Answers
  <2>2. QED
    BY <1>1, <2>1 DEF NoAnswer, Answer
<1>7. QED
  BY <1>1, <1>2, <1>3, <1>4, <1>5, <1>6 DEF Modes

\* No answer lets the credits drift further apart than they may.
LEMMA AnswerDrifts ==
  ASSUME TypeOK, Owed(credit), NEW v, View(v), Rated(v),
         NEW list \in Seq(Paths), Len(list) <= N, NEW c \in Answers(list, v)
  PROVE  Owed(c.credit)
<1>1. credit \in [Paths -> Int]
  BY DEF TypeOK
<1>2. CASE mode = "weighted-goodput"
  <2>1. c \in WeightedGoodputNext(list, v)
    BY <1>2 DEF Answers
  <2>2. QED
    BY <1>1, <2>1, WeightedDrifts
<1>3. CASE mode # "weighted-goodput"
  <2>1. c.credit = credit
    BY <1>3, AnswerFacts
  <2>2. QED
    BY <2>1
<1>4. QED
  BY <1>2, <1>3

\* A path's credit pays for its wait.  The relay keeps no history.
Debt ==
  /\ side = "relay" => \A p \in Paths : wait[p] = 0
  /\ mode = "weighted-goodput" => \A p \in Paths : 2 * wait[p] <= 2 * credit[p] + Spread

LEMMA WaitIsPaid ==
  ASSUME NEW n \in Nat, NEW x \in Int, NEW y \in Int, NEW s \in Nat, y >= x + 1,
         2 * x \in -s..s, 2 * n <= 2 * x + s
  PROVE  2 * (n + 1) <= 2 * y + s /\ 2 * 1 <= 2 * y + s
OBVIOUS

\* Every answer of weighted-goodput on the client keeps it so.
LEMMA AnswerPays ==
  ASSUME TypeOK, CreditsSumToZero, Owed(credit), mode = "weighted-goodput", Debt,
         NEW v, View(v), Rated(v), NEW c \in Answers(ClientList, v), NEW p \in Paths
  PROVE  2 * Waiting(v, c.pick)[p] <= 2 * c.credit[p] + Spread
<1>1. credit \in [Paths -> Int] /\ wait \in [Paths -> 0..(WaitBound + 1)]
  BY DEF TypeOK
<1>2. ClientList \in Seq(Paths) /\ Len(ClientList) <= N /\ Range(ClientList) = Paths
  BY ClientListFacts, PathFacts
<1>3. c \in WeightedGoodputNext(ClientList, v)
  BY DEF Answers
<1>4. c.credit \in [Paths -> Int] /\ SumFunctionOnSet(c.credit, Paths) = 0
  BY <1>2, AnswerFacts DEF CreditsSumToZero
<1>5. /\ Owed(c.credit)
      /\ \A q \in Range(EligiblePaths(ClientList, v)) :
           c.pick # q => c.credit[q] >= credit[q] + 1
  BY <1>1, <1>2, <1>3, WeightedDrifts
<1>6. PICK n \in Nat, x \in Int, y \in Int, s \in Nat :
        n = wait[p] /\ x = credit[p] /\ y = c.credit[p] /\ s = Spread
  BY <1>1, <1>4, PayFacts, SchedAssumption
<1>7. 2 * x \in -s..s /\ 2 * y \in -s..s
  BY <1>1, <1>4, <1>5, <1>6, CreditsApart DEF CreditsSumToZero
<1>8. 2 * n <= 2 * x + s
  BY <1>6 DEF Debt
<1>9. Waiting(v, c.pick)[p] =
        IF v[p].cond # "room" \/ c.pick = p \/ p \notin Rotating(v) THEN 0
        ELSE IF Rotating(v) = tied /\ wait[p] <= WaitBound THEN wait[p] + 1 ELSE 1
  BY DEF Waiting
<1>10. CASE Waiting(v, c.pick)[p] = 0
  <2>1. 2 * 0 <= 2 * y + s
    BY <1>7
  <2>2. QED
    BY <1>6, <1>10, <2>1
<1>11. CASE v[p].cond = "room" /\ c.pick # p
  <2>1. p \in Range(EligiblePaths(ClientList, v))
    <3>1. Range(EligiblePaths(ClientList, v)) = {q \in Range(ClientList) : HasRoom(v, q)}
      BY <1>2, EligibleFacts
    <3>2. p \in Range(ClientList) /\ HasRoom(v, p)
      BY <1>2, <1>11 DEF HasRoom
    <3>3. QED
      BY <3>1, <3>2
  <2>2. y >= x + 1
    BY <1>5, <1>6, <1>11, <2>1
  <2>3. 2 * (n + 1) <= 2 * y + s /\ 2 * 1 <= 2 * y + s
    BY <1>7, <1>8, <2>2, WaitIsPaid
  <2>4. Waiting(v, c.pick)[p] = 0 \/ Waiting(v, c.pick)[p] = n + 1 \/ Waiting(v, c.pick)[p] = 1
    BY <1>6, <1>9
  <2>5. QED
    BY <1>6, <1>10, <2>3, <2>4
<1>12. QED
  BY <1>9, <1>10, <1>11

\* Every answer on the client keeps the rotation fair.
LEMMA AnswerIsFair ==
  ASSUME TypeOK, mode # "weighted-goodput", Ahead(tied, cursor, wait),
         NEW v, View(v), NEW c \in Answers(ClientList, v)
  PROVE  Ahead(Rotating(v), c.cursor, Waiting(v, c.pick))
<1>1. /\ cursor \in 0..(N - 1) /\ lambda \in LambdaMin..LambdaMax /\ mode \in Modes
      /\ tied \in SUBSET Paths /\ wait \in [Paths -> 0..(WaitBound + 1)]
  BY DEF TypeOK
<1>2. cursor \in Nat /\ wait \in [Paths -> Nat]
  BY <1>1, SchedAssumption
<1>3. /\ ClientList \in Seq(Paths) /\ Len(ClientList) = N /\ Len(ClientList) <= N
      /\ Range(ClientList) = Paths /\ Increasing(ClientList)
  BY ClientListFacts, PathFacts
<1>4. ASSUME NEW P \in Seq(Paths), Increasing(P), Range(P) = Rotating(v),
             P # <<>> => Rotates(P, Start(cursor, Len(P)), v, c)
      PROVE  Ahead(Rotating(v), c.cursor, Waiting(v, c.pick))
  <2>1. CASE P # <<>>
    BY <1>1, <1>2, <1>4, <2>1, RotationIsFair
  <2>2. CASE P = <<>>
    <3>1. Rotating(v) = {}
      BY <1>4, <2>2, Places
    <3>2. \A p \in Paths : Waiting(v, c.pick)[p] = 0
      BY <3>1 DEF Waiting
    <3>3. QED
      BY <3>1, <3>2, EmptyIsFair
  <2>3. QED
    BY <2>1, <2>2
<1>5. CASE mode = "round-robin"
  <2>1. c \in RoundRobinNext(ClientList, v)
    BY <1>5 DEF Answers
  <2>2. cursor < Len(ClientList) /\ Start(cursor, Len(ClientList)) = cursor
    BY <1>1, <1>3, PathFacts DEF Start
  <2>3. Rotates(ClientList, cursor, v, c)
    BY <1>1, <1>3, <2>1, <2>2, RoundRobinFacts
  <2>4. Range(ClientList) = Rotating(v)
    BY <1>1, <1>3, <1>5, RotatingFacts
  <2>5. QED
    BY <1>3, <1>4, <2>2, <2>3, <2>4
<1>6. CASE mode = "min-rtt-cwnd"
  <2>1. PICK P : P = FastestTiedSet(EligiblePaths(ClientList, v), v)
    OBVIOUS
  <2>2. c \in MinRTTCwndNext(ClientList, v)
    BY <1>6 DEF Answers
  <2>3. P \in Seq(Paths) /\ Increasing(P)
    BY <1>3, <2>1, EligibleFacts, TiedSetIsClose
  <2>4. P # <<>> => Rotates(P, Start(cursor, Len(P)), v, c)
    BY <1>1, <1>3, <2>1, <2>2, MinRTTCwndFacts
  <2>5. Range(P) = Rotating(v)
    BY <1>1, <1>6, <2>1, RotatingFacts
  <2>6. QED
    BY <1>4, <2>3, <2>4, <2>5
<1>7. CASE mode = "hol-aware"
  <2>1. PICK P : P = FastestTiedSet(ActiveBondPaths(ClientList, v), v)
    OBVIOUS
  <2>2. c \in HoLAwareNext(ClientList, v)
    BY <1>7 DEF Answers
  <2>3. P \in Seq(Paths) /\ Increasing(P)
    BY <1>3, <2>1, EligibleFacts, TiedSetIsClose
  <2>4. P # <<>> => Rotates(P, Start(cursor, Len(P)), v, c)
    BY <1>1, <1>3, <2>1, <2>2, HoLAwareFacts
  <2>5. Range(P) = Rotating(v)
    BY <1>1, <1>7, <2>1, RotatingFacts
  <2>6. QED
    BY <1>4, <2>3, <2>4, <2>5
<1>8. CASE mode \in {"redundant", "parity"}
  <2>1. Rotating(v) = {}
    BY <1>1, <1>8, RotatingFacts
  <2>2. \A p \in Paths : Waiting(v, c.pick)[p] = 0
    BY <2>1 DEF Waiting
  <2>3. QED
    BY <2>1, <2>2, EmptyIsFair
<1>9. QED
  BY <1>1, <1>5, <1>6, <1>7, <1>8 DEF Modes

-----------------------------------------------------------------------------
(* The invariant *)

IInv == TypeOK /\ CreditsSumToZero /\ Fair /\ Owed(credit) /\ Debt

LEMMA InitInvariant ==
  Init => IInv
<1>1. SUFFICES ASSUME Init PROVE IInv
  OBVIOUS
<1>2. TypeOK
  BY <1>1, SchedAssumption DEF Init, TypeOK
<1>3. CreditsSumToZero
  <2>1. credit \in [Paths -> Int] /\ \A p \in Paths : credit[p] = 0
    BY <1>1 DEF Init
  <2>2. SumFunctionOnSet(credit, Paths) = SumFunctionOnSet(credit, {})
    BY <2>1, PathsFinite, SumSupport
  <2>3. QED
    BY <2>2, SumEmpty DEF CreditsSumToZero
<1>4. Fair
  <2>1. tied = {} /\ \A p \in Paths : wait[p] = 0
    BY <1>1 DEF Init
  <2>2. Ahead({}, cursor, wait)
    BY <2>1, EmptyIsFair
  <2>3. QED
    BY <2>1, <2>2 DEF Fair
<1>5. Owed(credit)
  <2>1. SUFFICES ASSUME NEW S \in SUBSET Paths
                 PROVE  2 * SumFunctionOnSet(credit, S) <=
                          Pay * (Cardinality(S) * (N - Cardinality(S)))
    BY DEF Owed, Drift
  <2>2. IsFiniteSet(S) /\ Cardinality(S) \in Nat /\ Cardinality(S) <= N
    <3>1. IsFiniteSet(S) /\ Cardinality(S) <= N
      BY PathsFinite, FS_Subset
    <3>2. QED
      BY <3>1, FS_CardinalityType
  <2>3. \A p \in S : credit[p] \in Int /\ credit[p] = 0
    BY <1>1 DEF Init
  <2>4. SumFunctionOnSet(credit, S) = SumFunctionOnSet(credit, {})
    BY <2>2, <2>3, SumSupport
  <2>5. SumFunctionOnSet(credit, S) = 0
    BY <2>4, SumEmpty
  <2>6. PICK k \in Nat, m \in Nat : k = Cardinality(S) /\ m = N - k
    BY <2>2, PathFacts
  <2>7. Pay * (k * m) \in Nat
    BY PayFacts
  <2>8. QED
    BY <2>5, <2>6, <2>7
<1>6. Debt
  <2>1. \A p \in Paths : wait[p] = 0 /\ credit[p] = 0
    BY <1>1 DEF Init
  <2>2. QED
    BY <2>1, PayFacts DEF Debt
<1>7. QED
  BY <1>2, <1>3, <1>4, <1>5, <1>6 DEF IInv

LEMMA StepInvariant ==
  IInv /\ [Next]_vars => IInv'
<1>1. SUFFICES ASSUME IInv, [Next]_vars PROVE IInv'
  OBVIOUS
<1>2. CASE UNCHANGED vars
  <2>1. /\ mode' = mode /\ side' = side /\ cursor' = cursor /\ credit' = credit
        /\ lambda' = lambda /\ tied' = tied /\ wait' = wait
    BY <1>2 DEF vars
  <2>2. TypeOK' /\ CreditsSumToZero' /\ Fair'
    BY <1>1, <2>1 DEF IInv, TypeOK, CreditsSumToZero, Fair
  <2>3. Owed(credit)' /\ Debt'
    BY <1>1, <2>1 DEF IInv, Debt
  <2>4. QED
    BY <2>2, <2>3 DEF IInv
<1>3. CASE Next
  <2>1. PICK v \in ViewsOf(mode), list \in ListsOf(side) : \E c \in Answers(list, v) :
          /\ cursor' = c.cursor /\ credit' = c.credit /\ lambda' = c.lambda
          /\ tied' = IF side = "client" THEN Rotating(v) ELSE tied
          /\ wait' = IF side = "client" THEN Waiting(v, c.pick) ELSE wait
          /\ UNCHANGED <<mode, side>>
    BY <1>3 DEF Next
  <2>2. PICK c \in Answers(list, v) :
          /\ cursor' = c.cursor /\ credit' = c.credit /\ lambda' = c.lambda
          /\ tied' = IF side = "client" THEN Rotating(v) ELSE tied
          /\ wait' = IF side = "client" THEN Waiting(v, c.pick) ELSE wait
          /\ mode' = mode /\ side' = side
    BY <2>1
  <2>3. View(v) /\ Rated(v) /\ list \in Seq(Paths) /\ Len(list) <= N
    BY ViewFacts, ViewRated, ListFacts
  <2>4. TypeOK /\ CreditsSumToZero /\ Fair /\ Owed(credit) /\ Debt
    BY <1>1 DEF IInv
  <2>5. /\ mode \in Modes /\ side \in Sides
        /\ tied \in SUBSET Paths /\ wait \in [Paths -> 0..(WaitBound + 1)]
    BY <2>4 DEF TypeOK
  <2>6. /\ c.cursor \in 0..(N - 1) /\ c.credit \in [Paths -> Int]
        /\ c.lambda \in LambdaMin..LambdaMax
        /\ SumFunctionOnSet(c.credit, Paths) = SumFunctionOnSet(credit, Paths)
    BY <2>3, <2>4, AnswerFacts
  <2>7. Rotating(v) \in SUBSET Paths
    BY <2>3, <2>5, RotatingFacts
  <2>8. Waiting(v, c.pick) \in [Paths -> 0..(WaitBound + 1)]
    <3>1. ASSUME NEW p \in Paths
          PROVE  (IF v[p].cond # "room" \/ c.pick = p \/ p \notin Rotating(v) THEN 0
                  ELSE IF Rotating(v) = tied /\ wait[p] <= WaitBound THEN wait[p] + 1 ELSE 1)
                    \in 0..(WaitBound + 1)
      BY <2>5, SchedAssumption
    <3>2. QED
      BY <3>1 DEF Waiting
  <2>9. TypeOK'
    <3>1. mode' \in Modes /\ side' \in Sides /\ cursor' \in 0..(N - 1)
      BY <2>2, <2>5, <2>6
    <3>2. credit' \in [Paths -> Int] /\ lambda' \in LambdaMin..LambdaMax
      BY <2>2, <2>6
    <3>3. tied' \in SUBSET Paths
      BY <2>2, <2>5, <2>7
    <3>4. wait' \in [Paths -> 0..(WaitBound + 1)]
      BY <2>2, <2>5, <2>8
    <3>5. QED
      BY <3>1, <3>2, <3>3, <3>4 DEF TypeOK
  <2>10. CreditsSumToZero'
    BY <2>2, <2>4, <2>6 DEF CreditsSumToZero
  <2>11. Fair'
    <3>1. CASE side = "client"
      <4>1. list = ClientList
        BY <3>1 DEF ListsOf
      <4>2. mode # "weighted-goodput" => Ahead(Rotating(v), c.cursor, Waiting(v, c.pick))
        BY <2>3, <2>4, <4>1, AnswerIsFair DEF Fair
      <4>3. tied' = Rotating(v) /\ wait' = Waiting(v, c.pick)
        BY <2>2, <3>1
      <4>4. mode' # "weighted-goodput" => Ahead(tied', cursor', wait')
        BY <2>2, <4>2, <4>3
      <4>5. side' # "relay"
        BY <2>2, <3>1
      <4>6. QED
        BY <4>4, <4>5 DEF Fair
    <3>2. CASE side = "relay"
      <4>1. tied' = {} /\ wait' = wait
        BY <2>2, <2>4, <3>2 DEF Fair
      <4>2. mode # "weighted-goodput" => \A p \in Paths : wait[p] = 0
        BY <2>4, <3>2 DEF Fair, Ahead
      <4>3. mode' # "weighted-goodput" => Ahead({}, cursor', wait')
        BY <2>2, <4>1, <4>2, EmptyIsFair
      <4>4. mode' # "weighted-goodput" => Ahead(tied', cursor', wait')
        BY <4>1, <4>3
      <4>5. QED
        BY <4>1, <4>4 DEF Fair
    <3>3. QED
      BY <2>5, <3>1, <3>2 DEF Sides
  <2>12. Owed(credit)'
    <3>1. Owed(c.credit)
      BY <2>3, <2>4, AnswerDrifts
    <3>2. QED
      BY <2>2, <3>1
  <2>13. Debt'
    <3>1. CASE side = "client"
      <4>1. list = ClientList
        BY <3>1 DEF ListsOf
      <4>2. mode = "weighted-goodput" => \A p \in Paths :
              2 * Waiting(v, c.pick)[p] <= 2 * c.credit[p] + Spread
        BY <2>3, <2>4, <4>1, AnswerPays
      <4>3. wait' = Waiting(v, c.pick) /\ credit' = c.credit /\ mode' = mode /\ side' # "relay"
        BY <2>2, <3>1
      <4>4. mode' = "weighted-goodput" => \A p \in Paths : 2 * wait'[p] <= 2 * credit'[p] + Spread
        BY <4>2, <4>3
      <4>5. QED
        BY <4>3, <4>4 DEF Debt
    <3>2. CASE side = "relay"
      <4>1. wait' = wait /\ \A p \in Paths : wait[p] = 0
        BY <2>2, <2>4, <3>2 DEF Debt
      <4>2. ASSUME NEW p \in Paths PROVE 2 * wait'[p] <= 2 * credit'[p] + Spread
        <5>1. 2 * c.credit[p] \in -Spread..Spread
          <6>1. Owed(c.credit) /\ SumFunctionOnSet(c.credit, Paths) = 0
            BY <2>3, <2>4, <2>6, AnswerDrifts DEF CreditsSumToZero
          <6>2. QED
            BY <2>6, <6>1, CreditsApart
        <5>2. PICK y \in Int, s \in Nat : y = c.credit[p] /\ s = Spread
          BY <2>6, PayFacts
        <5>3. 2 * 0 <= 2 * y + s
          BY <5>1, <5>2
        <5>4. wait'[p] = 0 /\ credit'[p] = y
          BY <2>2, <4>1, <5>2
        <5>5. QED
          BY <5>2, <5>3, <5>4
      <4>3. QED
        BY <4>1, <4>2 DEF Debt
    <3>3. QED
      BY <2>5, <3>1, <3>2 DEF Sides
  <2>14. QED
    BY <2>9, <2>10, <2>11, <2>12, <2>13 DEF IInv
<1>4. QED
  BY <1>1, <1>2, <1>3

LEMMA FairMeansNoStarvation ==
  IInv => NoStarvation
<1>1. SUFFICES ASSUME IInv, mode # "weighted-goodput", NEW p \in Paths PROVE wait[p] <= N - 1
  BY DEF NoStarvation
<1>2. Ahead(tied, cursor, wait) /\ cursor \in 0..(N - 1) /\ tied \in SUBSET Paths
  BY <1>1 DEF IInv, Fair, TypeOK
<1>3. wait[p] \in Nat
  BY <1>1, SchedAssumption DEF IInv, TypeOK
<1>4. CASE p \notin tied
  BY <1>2, <1>4, PathFacts DEF Ahead
<1>5. CASE p \in tied
  <2>1. PICK L : L = Kept(ClientList, tied)
    OBVIOUS
  <2>2. L \in Seq(Paths) /\ Len(L) \in Nat /\ Len(L) <= N /\ Range(L) = Paths \cap tied
    BY <2>1, ClientListFacts, KeptFacts
  <2>3. PICK k \in 0..(Len(L) - 1) : L[k + 1] = p
    BY <1>5, <2>2, Places
  <2>4. cursor < Len(L) /\ wait[p] + Distance(cursor, k, Len(L)) <= Len(L) - 1
    BY <1>2, <2>1, <2>3 DEF Ahead
  <2>5. Distance(cursor, k, Len(L)) \in Nat
    BY <1>2, <2>2, <2>4 DEF Distance
  <2>6. QED
    BY <1>3, <2>2, <2>4, <2>5, PathFacts
<1>6. QED
  BY <1>4, <1>5

LEMMA DriftMeansBounded ==
  IInv => WeightedBounded
<1>1. SUFFICES ASSUME IInv PROVE WeightedBounded
  OBVIOUS
<1>2. /\ credit \in [Paths -> Int] /\ wait \in [Paths -> 0..(WaitBound + 1)]
      /\ SumFunctionOnSet(credit, Paths) = 0 /\ Owed(credit) /\ Debt
  BY <1>1 DEF IInv, TypeOK, CreditsSumToZero
<1>3. \A p \in Paths : 2 * credit[p] \in -Spread..Spread
  BY <1>2, CreditsApart
<1>4. ASSUME mode = "weighted-goodput", NEW p \in Paths PROVE wait[p] <= Spread
  <2>1. PICK n \in Nat, x \in Int, s \in Nat : n = wait[p] /\ x = credit[p] /\ s = Spread
    BY <1>2, PayFacts, SchedAssumption
  <2>2. 2 * x \in -s..s /\ 2 * n <= 2 * x + s
    BY <1>2, <1>3, <1>4, <2>1 DEF Debt
  <2>3. n <= s
    BY <2>2
  <2>4. QED
    BY <2>1, <2>3
<1>5. QED
  BY <1>3, <1>4 DEF WeightedBounded

-----------------------------------------------------------------------------
(* The theorems *)

\* Types, balance and fairness hold in every state: whatever RTTs, goodputs and
\* windows the calls of Next find.
THEOREM InvariantHolds == Spec => []IInv
BY InitInvariant, StepInvariant, PTL DEF Spec

\* The cursor, the credits and lambda of the four schedulers keep their ranges.
THEOREM TypeCorrect == Spec => []TypeOK
<1>1. IInv => TypeOK
  BY DEF IInv
<1>2. QED
  BY <1>1, InvariantHolds, PTL

\* Every mode keeps its promise for whatever view the next call finds: tiers 1 to 4,
\* the copies of REDUNDANT mode and the path of FEC parity.
THEOREM ChoicesSound == Spec => []EveryChoiceSound
BY ChoicesAreSound, TypeCorrect, PTL

\* Round robin, and tiers 3 and 4 among the fastest paths, pass over a path with
\* room for at most N - 1 calls in a row, for every number N of paths.
THEOREM NoPathStarves == Spec => []NoStarvation
BY FairMeansNoStarvation, InvariantHolds, PTL

\* What WeightedGoodput.Next credits to some paths it debits from another.
THEOREM CreditsBalanced == Spec => []CreditsSumToZero
<1>1. IInv => CreditsSumToZero
  BY DEF IInv
<1>2. QED
  BY <1>1, InvariantHolds, PTL

\* The credits of WeightedGoodput.Next stay within half a Spread of zero and no path
\* with room waits for more than Spread calls, for every number of paths and every
\* ratio of goodputs, however they change and paths come and go.
THEOREM CreditsBounded == Spec => []WeightedBounded
BY DriftMeansBounded, InvariantHolds, PTL
=============================================================================
