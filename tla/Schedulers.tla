----------------------------- MODULE Schedulers -----------------------------
(***************************************************************************)
(* The four schedulers of core/sched and the path choices of REDUNDANT     *)
(* mode and of FEC parity in core/bond/mode.go.                            *)
(*                                                                         *)
(* A scheduler sees the paths through the sched.Path interface, one        *)
(* snapshot (a view) per call; any view may come at any call.  The list of *)
(* paths never changes on the client.  On the relay, paths join, and       *)
(* schedPaths walks a Go map: every call may list any paths in any order.  *)
(*                                                                         *)
(* RTTs are in milliseconds, lambda in percent (rounded down after every   *)
(* multiplication), goodputs in units that divide each other exactly.      *)
(***************************************************************************)
EXTENDS Integers, Sequences, FiniteSets, Functions, FiniteSetsExt

CONSTANTS
  N,                       \* number of paths
  RTTs,                    \* the RTTs that occur; 0 is "no sample yet"
  Goodputs,                \* the goodputs that occur; 0 is "no sample yet"
  LossRates,               \* the loss estimates that occur
  Raise, Decay,            \* holLambdaRaise and holLambdaDecay, in percent
  LambdaMin, LambdaMax,    \* holLambdaMin and holLambdaMax, in percent
  DupFactor,
  MaxWeight,               \* the largest ratio of two goodputs
  WaitBound                \* where the history stops counting calls

Paths == 1..N
NoPath == 0
Unmeasured == 1000000    \* unmeasuredRTT: beyond every RTT and its tie window
TieMin == 2              \* tieRTTMin

ASSUME SchedAssumption ==
  /\ N \in Nat \ {0} /\ DupFactor \in Nat /\ WaitBound \in Nat
  /\ RTTs \subseteq Nat /\ Goodputs \subseteq Nat /\ LossRates \subseteq Nat
  /\ MaxWeight \in Nat \ {0} /\ \A g, h \in Goodputs \ {0} : g <= MaxWeight * h
  /\ \A r \in RTTs : 2 * r + TieMin < Unmeasured
  /\ LambdaMin \in 0..100 /\ LambdaMax \in Nat /\ LambdaMax >= 100
  /\ Decay \in 0..100 /\ Raise \in Nat /\ Raise >= 100

Modes == {"round-robin", "weighted-goodput", "min-rtt-cwnd", "hol-aware",
          "redundant", "parity"}
Sides == {"client", "relay"}

VARIABLES
  mode, side,   \* what chooses the paths, and where it runs; never change
  cursor,       \* RoundRobin, MinRTTCwnd and HoLAware: the rotation's place
  credit,       \* WeightedGoodput.currentWeight
  lambda,       \* HoLAware.lambda
  tied,         \* the set of fastest paths at the last call (history)
  wait          \* calls in a row that passed over a path which could have
                \* been chosen (history)

vars == <<mode, side, cursor, credit, lambda, tied, wait>>

-----------------------------------------------------------------------------
(* Views.  "full" is an ACTIVE path without room in its window; "out" is one *)
(* that is not ACTIVE or not in the BOND role.                               *)

Out == [cond |-> "out", rtt |-> 0, goodput |-> 0, loss |-> 0]

\* What a mode does not read is fixed.  The relay sends no probes, so its paths
\* are never measured.
ViewsOf(m) ==
  LET measured(modes, values) == IF side = "client" /\ m \in modes THEN values ELSE {0}
  IN [Paths -> {Out} \cup
        [cond : IF m \in {"hol-aware", "parity"} THEN {"full", "room"} ELSE {"room"},
         rtt : measured(Modes \ {"round-robin", "weighted-goodput"}, RTTs),
         goodput : measured({"weighted-goodput"}, Goodputs),
         loss : measured({"parity"}, LossRates)]]

ClientList == [i \in Paths |-> i]
ListsOf(s) == IF s = "client" THEN {ClientList} ELSE UNION {Injection(1..n, Paths) : n \in 0..N}

\* The loop that appends the paths of the list that pass a test.
Kept(list, good) ==
  LET out[i \in 0..Len(list)] ==
        IF i = 0 THEN <<>>
        ELSE IF list[i] \in good THEN Append(out[i - 1], list[i]) ELSE out[i - 1]
  IN out[Len(list)]

EligiblePaths(list, v) == Kept(list, {p \in Paths : v[p].cond = "room"})
ActiveBondPaths(list, v) == Kept(list, {p \in Paths : v[p].cond # "out"})
RTT(v, p) == IF v[p].rtt <= 0 THEN Unmeasured ELSE v[p].rtt

\* What one call of Next yields: the path and the scheduler's new state.
Answer(p, c, cr, la) == [pick |-> p, cursor |-> c, credit |-> cr, lambda |-> la]
NoAnswer == Answer(NoPath, cursor, credit, lambda)

\* The places of an n-element list, from the cursor on and around its end.
Rotation(c, n) == [i \in 1..n |-> (c + i - 1) % n]
\* The first place of the rotation whose path has room, or the list's length.
FirstWithRoom(c, list, v) ==
  LET n == Len(list)
      good == {i \in 1..n : v[list[Rotation(c, n)[i] + 1]].cond = "room"}
  IN IF good = {} THEN n ELSE Rotation(c, n)[Min(good)]

-----------------------------------------------------------------------------
(* The schedulers: the set of results that Next may have *)

\* Mutant: the cursor wraps around one place too late.
RoundRobinNextPast(list, v) ==
  LET n == Len(list)
      at == FirstWithRoom(cursor, list, v)
  IN IF at = n THEN {NoAnswer}
     ELSE {Answer(list[at + 1], IF at + 1 > n THEN 0 ELSE at + 1, credit, lambda)}

\* RoundRobin.Next
RoundRobinNext(list, v) ==
  LET n == Len(list)
      at == FirstWithRoom(cursor, list, v)
  IN IF at = n THEN {NoAnswer}
     ELSE {Answer(list[at + 1], IF at + 1 >= n THEN 0 ELSE at + 1, credit, lambda)}

\* weightOf: the goodput relative to the smallest positive one; 1 if unknown.
WeightOf(elig, v, p) ==
  LET positive == {v[q].goodput : q \in elig} \ {0}
  IN IF positive = {} \/ v[p].goodput <= 0 THEN 1 ELSE v[p].goodput \div Min(positive)

\* Mutant: the chosen path pays its own weight, not the sum of all.
WeightedGoodputNextOwn(list, v) ==
  LET elig == EligiblePaths(list, v)
      cw(p) == credit[p] + WeightOf(Range(elig), v, p)
      best == elig[Min({i \in 1..Len(elig) :
                \A j \in 1..Len(elig) : cw(elig[j]) <= cw(elig[i])})]
  IN IF elig = <<>> THEN {NoAnswer}
     ELSE {Answer(best, cursor,
             [p \in Paths |-> IF p = best THEN credit[p]
                              ELSE IF p \in Range(elig) THEN cw(p) ELSE credit[p]], lambda)}

\* Mutant: the poorest path is chosen.
WeightedGoodputNextPoorest(list, v) ==
  LET elig == EligiblePaths(list, v)
      weight(p) == WeightOf(Range(elig), v, p)
      cw(p) == credit[p] + weight(p)
      best == elig[Min({i \in 1..Len(elig) :
                \A j \in 1..Len(elig) : cw(elig[j]) >= cw(elig[i])})]
      total == SumFunctionOnSet([p \in Paths |-> weight(p)], Range(elig))
  IN IF elig = <<>> THEN {NoAnswer}
     ELSE {Answer(best, cursor,
             [p \in Paths |-> IF p = best THEN cw(p) - total
                              ELSE IF p \in Range(elig) THEN cw(p) ELSE credit[p]], lambda)}

\* WeightedGoodput.Next: every eligible path earns its weight; the first of the
\* richest is chosen and pays the sum of the weights.
WeightedGoodputNext(list, v) ==
  LET elig == EligiblePaths(list, v)
      weight(p) == WeightOf(Range(elig), v, p)
      cw(p) == credit[p] + weight(p)
      best == elig[Min({i \in 1..Len(elig) :
                \A j \in 1..Len(elig) : cw(elig[j]) <= cw(elig[i])})]
      total == SumFunctionOnSet([p \in Paths |-> weight(p)], Range(elig))
  IN IF elig = <<>> THEN {NoAnswer}
     ELSE {Answer(best, cursor,
             [p \in Paths |-> IF p = best THEN cw(p) - total
                              ELSE IF p \in Range(elig) THEN cw(p) ELSE credit[p]], lambda)}

\* fastestTiedSet: the lowest RTT, and the paths of the list within the tie
\* window of it (all of them if none is measured).
FastestRTT(list, v) == Min({RTT(v, p) : p \in Range(list)} \cup {Unmeasured})
FastestTiedSet(list, v) ==
  LET fastest == FastestRTT(list, v)
      window == Max({(fastest * 15) \div 100, TieMin})
  IN Kept(list, {p \in Paths : fastest >= Unmeasured \/ RTT(v, p) <= fastest + window})

\* Mutant: the rotation always starts at the front.
MinRTTCwndNextFront(list, v) ==
  LET primary == FastestTiedSet(EligiblePaths(list, v), v)
  IN IF primary = <<>> THEN {NoAnswer} ELSE {Answer(primary[1], 0, credit, lambda)}

\* MinRTTCwnd.Next
MinRTTCwndNext(list, v) ==
  LET primary == FastestTiedSet(EligiblePaths(list, v), v)
      n == Len(primary)
      at == IF cursor >= n THEN 0 ELSE cursor
  IN IF primary = <<>> THEN {NoAnswer}
     ELSE {Answer(primary[at + 1], (at + 1) % n, credit, lambda)}

Decayed == Max({LambdaMin, (lambda * Decay) \div 100})
Raised == Min({LambdaMax, (lambda * Raise) \div 100})

\* Whether lambda * slowRTT is at most fastestRTT.  For an unmeasured path the
\* product is converted from a float64 that an int64 cannot hold if lambda >= 1:
\* the result depends on the processor.
SlowArrivesFirst(slowRTT, fastestRTT) ==
  IF slowRTT < Unmeasured THEN {lambda * slowRTT <= fastestRTT * 100}
  ELSE IF lambda >= 100 THEN BOOLEAN ELSE {FALSE}

\* HoLAware.Next: rotate among the fastest paths with room; else use the fastest
\* slower path with room if it arrives first, or wait.
HoLAwareNext(list, v) ==
  LET bond == ActiveBondPaths(list, v)
      primary == FastestTiedSet(bond, v)
      n == Len(primary)
      from == IF cursor >= n THEN 0 ELSE cursor
      at == FirstWithRoom(from, primary, v)
      slower == Kept(bond, {p \in Paths : v[p].cond = "room"} \ Range(primary))
      slow == slower[Min({i \in 1..Len(slower) :
                \A j \in 1..Len(slower) : RTT(v, slower[i]) <= RTT(v, slower[j])})]
  IN IF bond = <<>> THEN {NoAnswer}
     ELSE IF at < n
       THEN {Answer(primary[at + 1], IF at + 1 >= n THEN 0 ELSE at + 1, credit, Decayed)}
     ELSE IF slower = <<>> THEN {Answer(NoPath, from, credit, lambda)}
     ELSE {IF first THEN Answer(slow, from, credit, Decayed)
           ELSE Answer(NoPath, from, credit, Raised) :
             first \in SlowArrivesFirst(RTT(v, slow), FastestRTT(bond, v))}

-----------------------------------------------------------------------------
(* REDUNDANT mode and FEC parity *)

\* Mutant: the copies go to the first paths of the list.
SelectRedundantPathsFirst(list, v) ==
  LET elig == EligiblePaths(list, v) IN {SubSeq(elig, 1, Min({DupFactor, Len(elig)}))}

\* selectRedundantPaths: the eligible paths by RTT, cut to DupFactor.  The sort is
\* not stable: equal RTTs may come in any order.
SelectRedundantPaths(list, v) ==
  LET elig == Range(EligiblePaths(list, v))
      sorted == {s \in Injection(1..Cardinality(elig), elig) :
                   \A i, j \in DOMAIN s : i < j => RTT(v, s[i]) <= RTT(v, s[j])}
  IN {SubSeq(s, 1, Min({DupFactor, Len(s)})) : s \in sorted}

\* healthiestPath: one pass over the list for the least loss, then the least RTT.
HealthiestPath(list, v) ==
  LET bond == ActiveBondPaths(list, v)
      healthier(p, q) ==
        v[p].loss < v[q].loss \/ (v[p].loss = v[q].loss /\ RTT(v, p) < RTT(v, q))
      best[i \in 0..Len(bond)] ==
        IF i = 0 THEN NoPath
        ELSE IF best[i - 1] = NoPath \/ healthier(bond[i], best[i - 1]) THEN bond[i]
        ELSE best[i - 1]
  IN best[Len(bond)]

-----------------------------------------------------------------------------
(* What a mode may answer to a view, and the history of that *)

Answers(list, v) ==
  CASE mode = "round-robin" -> RoundRobinNext(list, v)
    [] mode = "weighted-goodput" -> WeightedGoodputNext(list, v)
    [] mode = "min-rtt-cwnd" -> MinRTTCwndNext(list, v)
    [] mode = "hol-aware" -> HoLAwareNext(list, v)
    [] OTHER -> {NoAnswer}

\* The paths among which a mode rotates.
Rotating(v) ==
  CASE mode = "min-rtt-cwnd" -> Range(FastestTiedSet(EligiblePaths(ClientList, v), v))
    [] mode = "hol-aware" -> Range(FastestTiedSet(ActiveBondPaths(ClientList, v), v))
    [] mode \in {"round-robin", "weighted-goodput"} -> Paths
    [] OTHER -> {}

\* A path waits as long as it has room, is passed over, and rotates with the
\* same others.
Waiting(v, pick) ==
  [p \in Paths |->
     IF v[p].cond # "room" \/ pick = p \/ p \notin Rotating(v) THEN 0
     ELSE IF Rotating(v) = tied /\ wait[p] <= WaitBound THEN wait[p] + 1 ELSE 1]

TypeOK ==
  /\ mode \in Modes /\ side \in Sides
  /\ cursor \in 0..N-1
  /\ credit \in [Paths -> Int]
  /\ lambda \in LambdaMin..LambdaMax
  /\ tied \subseteq Paths /\ wait \in [Paths -> 0..WaitBound + 1]

Init ==
  /\ mode \in Modes /\ side \in Sides
  /\ cursor = 0 /\ credit = [p \in Paths |-> 0] /\ lambda = 100
  /\ tied = {} /\ wait = [p \in Paths |-> 0]

\* sendSpeed asks for a path for the next packet.
Next ==
  \E v \in ViewsOf(mode) : \E list \in ListsOf(side) : \E c \in Answers(list, v) :
    /\ cursor' = c.cursor /\ credit' = c.credit /\ lambda' = c.lambda
    /\ tied' = IF side = "client" THEN Rotating(v) ELSE tied
    /\ wait' = IF side = "client" THEN Waiting(v, c.pick) ELSE wait
    /\ UNCHANGED <<mode, side>>

Spec == Init /\ [][Next]_vars

-----------------------------------------------------------------------------
(* Properties *)

Tied(p, q, v) == p \in Range(FastestTiedSet(<<p, q>>, v))

\* Whatever the next call finds, each mode keeps its promise.  A packet goes to a
\* path with room; tiers 1 to 3 find one if there is one.  Tiers 3 and 4 never
\* leave room on a fastest path unused.  Tier 4 waits only for fastest paths that
\* are measured and full, and sends on an unmeasured path instead of waiting only
\* if lambda is at least 1 and the conversion overflows.  Redundant copies go to
\* as many of the fastest paths with room as there are, up to DupFactor; parity
\* goes to a path that no other beats in loss, then RTT.
EveryChoiceSound ==
  \A v \in ViewsOf(mode) : \A list \in ListsOf(side) :
    LET elig == Range(EligiblePaths(list, v))
        bond == Range(ActiveBondPaths(list, v))
        fast == {p \in bond : \A q \in bond : Tied(p, q, v)}
        best == HealthiestPath(list, v)
        picks == {c.pick : c \in Answers(list, v)}
    IN CASE mode \in {"round-robin", "weighted-goodput"} ->
              IF elig = {} THEN picks = {NoPath} ELSE picks \subseteq elig
         [] mode = "min-rtt-cwnd" ->
              IF elig = {} THEN picks = {NoPath}
              ELSE \A p \in picks : p \in elig /\ \A q \in elig : Tied(p, q, v)
         [] mode = "hol-aware" ->
              \A p \in picks :
                /\ p = NoPath \/ p \in elig
                /\ elig \cap fast # {} => p \in fast
                /\ p = NoPath /\ elig # {} => \A q \in fast : v[q].rtt > 0
                /\ p # NoPath /\ v[p].rtt = 0 /\ p \notin fast => lambda >= 100
         [] mode = "redundant" ->
              /\ SelectRedundantPaths(list, v) # {}
              /\ \A copies \in SelectRedundantPaths(list, v) :
                   /\ Cardinality(Range(copies)) = Len(copies)
                   /\ Len(copies) = Min({DupFactor, Cardinality(elig)})
                   /\ Range(copies) \subseteq elig
                   /\ \A p \in Range(copies) : \A q \in elig \ Range(copies) :
                        RTT(v, p) <= RTT(v, q)
         [] mode = "parity" ->
              IF bond = {} THEN best = NoPath
              ELSE best \in bond /\ \A q \in bond :
                     \/ v[best].loss < v[q].loss
                     \/ v[best].loss = v[q].loss /\ RTT(v, best) <= RTT(v, q)

\* On the client no path starves.  Round robin passes a path with room over for at
\* most N - 1 calls, however the other paths come and go; so do tiers 3 and 4 as
\* long as the set of fastest paths stays the same.
NoStarvation ==
  mode # "weighted-goodput" => \A p \in Paths : wait[p] <= N - 1

\* The credits of weighted-goodput always sum to zero, although weights change and
\* paths drop out and return between calls: what one path is owed, others owe.
CreditsSumToZero == SumFunctionOnSet(credit, Paths) = 0

\* They stay bounded, so no path brings back a claim to a long run of packets, and
\* a path with room waits a bounded number of calls, whatever goodputs they see.
Spread == MaxWeight * N * (N - 1)
WeightedBounded ==
  /\ \A p \in Paths : 2 * credit[p] \in -Spread..Spread
  /\ mode = "weighted-goodput" => \A p \in Paths : wait[p] <= Spread
=============================================================================
